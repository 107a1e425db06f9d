------------------------ MODULE AutomaticIssuanceProofs ------------------------
(***************************************************************************)
(* For any number of jobs, handlers, attempts and lost answers: the types, *)
(* one session for each consent, no review overruled, completion only with *)
(* the credential received, and a wallet that loses nothing.               *)
(*                                                                         *)
(* The argument has three parts.  The issuer alone keeps its ledger in     *)
(* order (LedgerInv), and only ever adds to it (Grows).  A handler holds   *)
(* on to what can only grow: the session of its job, an issued request,    *)
(* and a copy of the workspace that is behind it only when marked so       *)
(* (HandlerOK).  A row says of the ledger and the wallet what its last     *)
(* handler knew (RowOK).                                                   *)
(***************************************************************************)
EXTENDS AutomaticIssuance, TLAPS

-----------------------------------------------------------------------------
(***************************************************************************)
(* The issuer.                                                             *)
(***************************************************************************)

LedgerType ==
  /\ sessions \in [Id -> Session]
  /\ requests \in [Id -> Request]
  /\ credentials \in [Id -> {"none", "active", "revoked"}]
  /\ commands \in [Key -> Id \cup {NoId}]

\* A session belongs to the job whose key it answered, and was opened for it.
KeysInv ==
  /\ \A i \in Id, j \in Job : sessions[i].job = j <=> commands[<<"identity", j>>] = i
  /\ \A i \in Id : sessions[i].job # NoJob => sessions[i].status # "none"

\* A request has used its session up, a credential is of an issued request.
OrderInv ==
  \A i \in Id :
    /\ requests[i].status # "none" => sessions[i].status = "consumed"
    /\ credentials[i] # "none" => requests[i].status = "issued"

LedgerInv == LedgerType /\ KeysInv /\ OrderInv /\ ReviewIsNotOverruled

\* What the others rely on does not go away.
Grows ==
  \A i \in Id :
    /\ sessions[i].job # NoJob => sessions'[i].job = sessions[i].job
    /\ requests[i].status = "issued" => requests'[i].status = "issued"

LedgerStep ==
  \/ UNCHANGED issuerVars
  \/ \E j \in Job, i \in Id : OpenSession(j, i) \/ Confirm(j, i) \/ Submit(j, i)
  \/ \E i \in Id : Approve(i) \/ Review(i) \/ Resubmit(i) \/ Cancel(i) \/ Revoke(i)

\* Ids are not NoId, and the keys of the commands are different.
LEMMA Keys ==
  /\ NoId \notin Id
  /\ \A j \in Job : /\ <<"identity", j>> \in Key /\ <<"consent", j>> \in Key
                    /\ <<"submit", j>> \in Key
  /\ \A i \in Id : <<"approve", i>> \in Key
BY DEF NoId, Id, Key

\* An answer to a command leaves the answers to identity commands alone.
LEMMA OtherAnswer ==
  ASSUME LedgerType, NEW key \in Key, NEW i \in Id, Answer(key, i),
         \A j \in Job : key # <<"identity", j>>
  PROVE  /\ commands' \in [Key -> Id \cup {NoId}]
         /\ \A j \in Job : commands'[<<"identity", j>>] = commands[<<"identity", j>>]
BY Keys DEF LedgerType, Answer

\* A decision takes a request that is not issued to its next revision.
LEMMA Deciding ==
  ASSUME LedgerInv, NEW i \in Id, NEW status \in {"submitted", "needs_changes", "issued", "rejected", "cancelled"},
         NEW approver \in {"none", "person", "automation"},
         Decided(i, status, approver),
         requests[i].status \in {"submitted", "needs_changes"},
         requests[i].revision < MaxRevision,
         approver = "automation" => requests[i].revision = 1,
         UNCHANGED sessions,
         commands' \in [Key -> Id \cup {NoId}],
         \A j \in Job : commands'[<<"identity", j>>] = commands[<<"identity", j>>]
  PROVE  LedgerInv' /\ Grows
<1> DEFINE next == [status |-> status, revision |-> requests[i].revision + 1, approver |-> approver]
<1>1. requests[i].revision \in 0..MaxRevision /\ MaxRevision \in Nat
  BY IssuerAssumption DEF LedgerInv, LedgerType, Request
<1>2. next \in Request
  <2>1. requests[i].revision + 1 \in 0..MaxRevision
    BY <1>1
  <2> QED
    BY <2>1 DEF Request
<1>3. /\ next.status = status
      /\ next.approver = approver
      /\ approver = "automation" => next.revision = 2
  BY <1>1
<1> HIDE DEF next
<1>4. requests' = [requests EXCEPT ![i] = next]
  BY DEF Decided, next
<1>5. requests' \in [Id -> Request]
  BY <1>2, <1>4 DEF LedgerInv, LedgerType
<1>6. requests'[i] = next /\ \A k \in Id \ {i} : requests'[k] = requests[k]
  BY <1>4 DEF LedgerInv, LedgerType
<1>7. /\ credentials' \in [Id -> {"none", "active", "revoked"}]
      /\ \A k \in Id \ {i} : credentials'[k] = credentials[k]
      /\ credentials'[i] # "none" => status = "issued"
  BY DEF Decided, LedgerInv, LedgerType, OrderInv
<1>8. LedgerType'
  BY <1>5, <1>7 DEF LedgerInv, LedgerType
<1>9. KeysInv'
  <2>1. \A k \in Id : sessions[k].job # NoJob => sessions[k].job \in Job
    BY DEF LedgerInv, LedgerType, Session
  <2> QED
    BY <2>1 DEF LedgerInv, KeysInv
<1>10. OrderInv' /\ ReviewIsNotOverruled' /\ Grows
  BY <1>3, <1>6, <1>7 DEF LedgerInv, OrderInv, ReviewIsNotOverruled, Grows
<1> QED
  BY <1>8, <1>9, <1>10 DEF LedgerInv

\* A session's new state keeps the ledger in order.
LEMMA SessionChanges ==
  ASSUME LedgerInv, NEW i \in Id, NEW status \in {"confirmed", "consumed"},
         sessions' = [sessions EXCEPT ![i].status = status],
         sessions[i].status \in {"pending", "confirmed"},
         commands' \in [Key -> Id \cup {NoId}],
         \A j \in Job : commands'[<<"identity", j>>] = commands[<<"identity", j>>]
  PROVE  /\ sessions' \in [Id -> Session]
         /\ KeysInv'
         /\ sessions'[i].status = status
         /\ \A k \in Id : sessions'[k].job = sessions[k].job
         /\ \A k \in Id \ {i} : sessions'[k] = sessions[k]
<1>1. sessions \in [Id -> Session]
  BY DEF LedgerInv, LedgerType
<1>2. sessions[i] \in Session
  BY <1>1
<1>3. [sessions[i] EXCEPT !.status = status] \in Session
  BY <1>2 DEF Session
<1>4. sessions' \in [Id -> Session]
  BY <1>1, <1>3 
<1>5. /\ sessions'[i].status = status
      /\ \A k \in Id : sessions'[k].job = sessions[k].job
      /\ \A k \in Id \ {i} : sessions'[k] = sessions[k]
  BY <1>1, <1>2 DEF Session
<1>6. \A k \in Id : sessions[k].job # NoJob => sessions[k].job \in Job
  BY <1>1 DEF Session
<1>7. KeysInv'
  BY <1>5, <1>6 DEF LedgerInv, KeysInv
<1> QED
  BY <1>4, <1>5, <1>7

\* Every command of the issuer keeps its ledger in order and only adds to it.
LEMMA LedgerKeeps == LedgerInv /\ LedgerStep => LedgerInv' /\ Grows
<1> SUFFICES ASSUME LedgerInv, LedgerStep PROVE LedgerInv' /\ Grows
  OBVIOUS
<1>1. CASE UNCHANGED issuerVars
  BY <1>1 DEF issuerVars, LedgerInv, LedgerType, KeysInv, OrderInv, ReviewIsNotOverruled, Grows
<1>2. ASSUME NEW j \in Job, NEW i \in Id, OpenSession(j, i), ~UNCHANGED issuerVars
      PROVE  LedgerInv' /\ Grows
  <2> DEFINE new == [job |-> j, status |-> "pending"]
  <2>1. /\ commands[<<"identity", j>>] = NoId
        /\ sessions[i].status = "none"
        /\ sessions' = [sessions EXCEPT ![i] = new]
        /\ commands' = [commands EXCEPT ![<<"identity", j>>] = i]
        /\ UNCHANGED <<requests, credentials>>
    BY <1>2 DEF OpenSession, Unused, Answered, Answer
  <2>2. new \in Session /\ new.job = j /\ new.status = "pending"
    BY DEF Session
  <2> HIDE DEF new
  <2>3. LedgerType'
    BY <2>1, <2>2 DEF LedgerInv, LedgerType
  <2>4. sessions'[i] = new /\ \A k \in Id \ {i} : sessions'[k] = sessions[k]
    BY <2>1 DEF LedgerInv, LedgerType
  <2>5. \A k \in Id : sessions[k].job # NoJob => sessions[k].job \in Job /\ sessions[k].job # j
    BY <2>1, Keys DEF LedgerInv, LedgerType, Session, KeysInv
  <2>6. /\ commands'[<<"identity", j>>] = i
        /\ \A k \in Job : k # j => commands'[<<"identity", k>>] = commands[<<"identity", k>>]
    BY <2>1, Keys DEF LedgerInv, LedgerType
  <2>7. sessions[i].job = NoJob
    BY <2>1 DEF LedgerInv, KeysInv
  <2>8. ASSUME NEW n \in Id, NEW k \in Job
         PROVE  sessions'[n].job = k <=> commands'[<<"identity", k>>] = n
    <3>1. sessions[n].job = k <=> commands[<<"identity", k>>] = n
      BY DEF LedgerInv, KeysInv
    <3>2. CASE n = i
      BY <2>2, <2>4, <2>6, <2>7, <3>1, <3>2, IssuerAssumption
    <3>3. CASE n # i
      BY <2>1, <2>4, <2>5, <2>6, <3>1, <3>3, Keys
    <3> QED
      BY <3>2, <3>3
  <2>9. KeysInv'
    BY <2>2, <2>4, <2>8 DEF LedgerInv, KeysInv
  <2>10. requests[i].status = "none" /\ sessions[i].job = NoJob
    BY <2>1 DEF LedgerInv, OrderInv, KeysInv
  <2>11. OrderInv' /\ ReviewIsNotOverruled' /\ Grows
    BY <2>1, <2>4, <2>10 DEF LedgerInv, OrderInv, ReviewIsNotOverruled, Grows
  <2> QED
    BY <2>3, <2>9, <2>11 DEF LedgerInv
<1>3. ASSUME NEW j \in Job, NEW i \in Id, Confirm(j, i), ~UNCHANGED issuerVars
      PROVE  LedgerInv' /\ Grows
  <2>1. /\ sessions[i].status = "pending"
        /\ sessions' = [sessions EXCEPT ![i].status = "confirmed"]
        /\ Answer(<<"consent", j>>, i)
        /\ UNCHANGED <<requests, credentials>>
    BY <1>3 DEF Confirm
  <2>2. /\ commands' \in [Key -> Id \cup {NoId}]
        /\ \A k \in Job : commands'[<<"identity", k>>] = commands[<<"identity", k>>]
    BY <2>1, Keys, OtherAnswer DEF LedgerInv
  <2>3. /\ sessions' \in [Id -> Session]
        /\ KeysInv'
        /\ \A k \in Id : sessions'[k].job = sessions[k].job
        /\ \A k \in Id \ {i} : sessions'[k] = sessions[k]
    BY <2>1, <2>2, SessionChanges
  <2>4. LedgerType'
    BY <2>1, <2>2, <2>3 DEF LedgerInv, LedgerType
  <2>5. OrderInv' /\ ReviewIsNotOverruled' /\ Grows
    BY <2>1, <2>3 DEF LedgerInv, OrderInv, ReviewIsNotOverruled, Grows
  <2> QED
    BY <2>3, <2>4, <2>5 DEF LedgerInv
<1>4. ASSUME NEW j \in Job, NEW i \in Id, Submit(j, i), ~UNCHANGED issuerVars
      PROVE  LedgerInv' /\ Grows
  <2> DEFINE new == [status |-> "submitted", revision |-> 1, approver |-> "none"]
  <2>1. /\ sessions[i].status = "confirmed"
        /\ sessions' = [sessions EXCEPT ![i].status = "consumed"]
        /\ requests' = [requests EXCEPT ![i] = new]
        /\ Answer(<<"submit", j>>, i)
        /\ UNCHANGED credentials
    BY <1>4 DEF Submit
  <2>2. /\ commands' \in [Key -> Id \cup {NoId}]
        /\ \A k \in Job : commands'[<<"identity", k>>] = commands[<<"identity", k>>]
    BY <2>1, Keys, OtherAnswer DEF LedgerInv
  <2>3. /\ sessions' \in [Id -> Session]
        /\ KeysInv'
        /\ sessions'[i].status = "consumed"
        /\ \A k \in Id : sessions'[k].job = sessions[k].job
        /\ \A k \in Id \ {i} : sessions'[k] = sessions[k]
    BY <2>1, <2>2, SessionChanges
  <2>4. /\ new \in Request /\ new.status = "submitted" /\ new.approver = "none"
    BY IssuerAssumption DEF Request
  <2> HIDE DEF new
  <2>5. LedgerType'
    BY <2>1, <2>2, <2>3, <2>4 DEF LedgerInv, LedgerType
  <2>6. requests'[i] = new /\ \A k \in Id \ {i} : requests'[k] = requests[k]
    BY <2>1 DEF LedgerInv, LedgerType
  <2>7. requests[i].status = "none" /\ credentials[i] = "none"
    BY <2>1 DEF LedgerInv, OrderInv
  <2>8. OrderInv' /\ ReviewIsNotOverruled' /\ Grows
    BY <2>1, <2>3, <2>4, <2>6, <2>7 DEF LedgerInv, OrderInv, ReviewIsNotOverruled, Grows
  <2> QED
    BY <2>3, <2>5, <2>8 DEF LedgerInv
<1>5. ASSUME NEW i \in Id, Approve(i), ~UNCHANGED issuerVars PROVE LedgerInv' /\ Grows
  <2>1. /\ Decided(i, "issued", "automation")
        /\ requests[i].status = "submitted"
        /\ requests[i].revision = 1 /\ requests[i].revision < MaxRevision
        /\ Answer(<<"approve", i>>, i)
        /\ UNCHANGED sessions
    BY <1>5 DEF Approve, Approvable, Decidable
  <2>2. /\ commands' \in [Key -> Id \cup {NoId}]
        /\ \A k \in Job : commands'[<<"identity", k>>] = commands[<<"identity", k>>]
    BY <2>1, Keys, OtherAnswer DEF LedgerInv
  <2> QED
    BY <2>1, <2>2, Deciding
<1>6. ASSUME NEW i \in Id, Review(i) \/ Resubmit(i) \/ Cancel(i) PROVE LedgerInv' /\ Grows
  <2>1. commands' \in [Key -> Id \cup {NoId}] /\ UNCHANGED <<sessions, commands>>
    BY <1>6 DEF Review, Resubmit, Cancel, LedgerInv, LedgerType
  <2>2. /\ requests[i].status \in {"submitted", "needs_changes"}
        /\ requests[i].revision < MaxRevision
    BY <1>6 DEF Review, Resubmit, Cancel, Decidable
  <2>3. CASE Review(i)
    BY <2>1, <2>2, <2>3, Deciding DEF Review
  <2>4. CASE Resubmit(i) \/ Cancel(i)
    BY <2>1, <2>2, <2>4, Deciding DEF Resubmit, Cancel
  <2> QED
    BY <1>6, <2>3, <2>4
<1>7. ASSUME NEW i \in Id, Revoke(i) PROVE LedgerInv' /\ Grows
  BY <1>7 DEF Revoke, LedgerInv, LedgerType, KeysInv, OrderInv, ReviewIsNotOverruled, Grows
<1> QED
  BY <1>1, <1>2, <1>3, <1>4, <1>5, <1>6, <1>7 DEF LedgerStep

\* The ledger is in order at first.
LEMMA LedgerInit == InitIssuer => LedgerInv
<1> SUFFICES ASSUME InitIssuer PROVE LedgerInv
  OBVIOUS
<1>1. LedgerType
  BY IssuerAssumption DEF InitIssuer, LedgerType, Session, Request
<1>2. KeysInv /\ OrderInv /\ ReviewIsNotOverruled
  <2>1. \A i \in Id : /\ sessions[i].job = NoJob
                      /\ requests[i].status = "none" /\ requests[i].approver = "none"
                      /\ credentials[i] = "none"
    BY DEF InitIssuer
  <2>2. \A j \in Job : j # NoJob /\ commands[<<"identity", j>>] = NoId
    BY Keys, IssuerAssumption DEF InitIssuer
  <2>3. KeysInv
    BY <2>1, <2>2, Keys DEF KeysInv
  <2> QED
    BY <2>1, <2>3 DEF OrderInv, ReviewIsNotOverruled
<1> QED
  BY <1>1, <1>2 DEF LedgerInv

\* A ledger in order has one session for each job.
LEMMA OneSession == LedgerInv => OneSessionPerConsent
<1> SUFFICES ASSUME LedgerInv, NEW i \in Id, NEW k \in Id,
                    sessions[i].job # NoJob, sessions[i].job = sessions[k].job
             PROVE  i = k
  BY DEF OneSessionPerConsent
<1>1. sessions[i].job \in Job
  BY DEF LedgerInv, LedgerType, Session
<1>2. commands[<<"identity", sessions[i].job>>] = i /\ commands[<<"identity", sessions[i].job>>] = k
  BY <1>1 DEF LedgerInv, KeysInv
<1> QED
  BY <1>2

-----------------------------------------------------------------------------
(***************************************************************************)
(* Handlers, rows, and the workspace.                                      *)
(***************************************************************************)

\* The wallet v has all that w has, as revoked as there.
Follows(w, v) ==
  \A i \in Id : /\ w[i] # "none" => v[i] # "none"
                /\ w[i] = "revoked" => v[i] = "revoked"

\* The phases in which the processing holds the id of its job's session.
Busy == Phase \ {"idle", "identity", "failed", "refused"}

\* What a processing knows of the sessions s, the requests r and the wallet w.
HandlerOK(h, s, r, w) ==
  /\ h \in Processing
  /\ h.phase # "idle" => h.job \in Job
  /\ h.phase \in Busy => h.id \in Id /\ s[h.id].job = h.job
  /\ h.phase = "received" => h.wallet[h.id] # "none" /\ r[h.id].status = "issued"
  /\ h.phase = "finish" => w[h.id] # "none" /\ r[h.id].status = "issued"
  /\ h.walletCurrent => Follows(w, h.wallet)

RowOK(j, row, s, r, w) ==
  /\ row \in Row
  /\ row.identity # NoId => s[row.identity].job = j
  /\ row.status = "complete" =>
       \E i \in Id : s[i].job = j /\ r[i].status = "issued" /\ w[i] # "none"

PageOK(q, w) ==
  /\ q \in Page
  /\ q.current => Follows(w, q.wallet)

IInv ==
  /\ LedgerInv
  /\ expired \subseteq Job
  /\ rows \in [Job -> Row]
  /\ \A j \in Job : RowOK(j, rows[j], sessions, requests, wallet)
  /\ handlers \in [Handler -> Processing]
  /\ \A q \in Handler : HandlerOK(handlers[q], sessions, requests, wallet)
  /\ wallet \in Wallet
  /\ PageOK(page, wallet)

\* A wallet follows itself.
LEMMA FollowsItself == \A w : Follows(w, w)
BY DEF Follows

\* What a handler knows outlives what the issuer adds and, unless it is marked as
\* current, what the workspace gains.
LEMMA HandlerOutlives ==
  ASSUME NEW h, HandlerOK(h, sessions, requests, wallet),
         Grows, Follows(wallet, wallet'),
         h.walletCurrent => wallet' = wallet
  PROVE  HandlerOK(h, sessions', requests', wallet')
<1>1. h.phase \in Busy => h.id \in Id /\ sessions'[h.id].job = h.job
  <2>1. h.phase \in Busy => h.job # NoJob
    BY IssuerAssumption DEF HandlerOK, Busy
  <2> QED
    BY <2>1 DEF HandlerOK, Grows
<1>2. h.phase \in {"received", "finish"} => h.id \in Id
  BY DEF HandlerOK, Busy, Phase
<1> QED
  BY <1>1, <1>2 DEF HandlerOK, Grows, Follows

\* So does what a row says.
LEMMA RowOutlives ==
  ASSUME NEW j \in Job, NEW row, RowOK(j, row, sessions, requests, wallet),
         Grows, Follows(wallet, wallet')
  PROVE  RowOK(j, row, sessions', requests', wallet')
<1>1. j # NoJob /\ (row.identity # NoId => row.identity \in Id)
  BY IssuerAssumption DEF RowOK, Row
<1> QED
  BY <1>1 DEF RowOK, Grows, Follows

\* Marking a handler's copies as behind loses nothing it knows.
LEMMA Marks ==
  ASSUME NEW h, NEW s, NEW r, NEW w, HandlerOK(h, s, r, w)
  PROVE  /\ HandlerOK([h EXCEPT !.current = FALSE], s, r, w)
         /\ HandlerOK([h EXCEPT !.walletCurrent = FALSE], s, r, w)
BY DEF HandlerOK, Processing

\* Idle, or about to give its job up, it knows nothing.
LEMMA KnowsNothing ==
  ASSUME NEW s, NEW r, NEW w
  PROVE  /\ HandlerOK(Idle, s, r, w)
         /\ \A how \in {"failed", "refused"}, j \in Job :
              HandlerOK([Idle EXCEPT !.phase = how, !.job = j], s, r, w)
<1>1. NoWallet \in Wallet
  BY DEF NoWallet, Wallet
<1>2. Idle \in Processing
  BY <1>1, IssuanceAssumption DEF Idle, Processing, Phase, Call
<1>3. /\ Idle.phase = "idle"
      /\ Idle.walletCurrent = FALSE
  BY DEF Idle
<1>4. HandlerOK(Idle, s, r, w)
  BY <1>2, <1>3 DEF HandlerOK, Busy
<1>5. ASSUME NEW how \in {"failed", "refused"}, NEW j \in Job
      PROVE  HandlerOK([Idle EXCEPT !.phase = how, !.job = j], s, r, w)
  <2> DEFINE h == [Idle EXCEPT !.phase = how, !.job = j]
  <2>1. h \in Processing
    BY <1>2 DEF Processing, Phase
  <2>2. h.phase = how /\ h.job = j /\ h.walletCurrent = FALSE
    BY <1>2, <1>3 DEF Processing
  <2> HIDE DEF h
  <2>3. HandlerOK(h, s, r, w)
    BY <2>1, <2>2 DEF HandlerOK, Busy
  <2> QED
    BY <2>3 DEF h
<1> QED
  BY <1>4, <1>5

\* It goes on to another phase with what it knows.
LEMMA GoesOn ==
  ASSUME NEW h, NEW s, NEW r, NEW w, HandlerOK(h, s, r, w), h.phase \in Busy,
         NEW phase \in Busy \ {"received", "finish"}
  PROVE  HandlerOK([h EXCEPT !.phase = phase], s, r, w)
BY DEF HandlerOK, Processing, Busy

-----------------------------------------------------------------------------
(***************************************************************************)
(* Kinds of steps.                                                         *)
(***************************************************************************)

\* A step of one handler, with a call it may make.
LEMMA CallKeeps ==
  ASSUME IInv, NEW p \in Handler, NEW h,
         handlers' = [handlers EXCEPT ![p] = h],
         Grows => HandlerOK(h, sessions', requests', wallet),
         LedgerStep, UNCHANGED <<rows, expired, wallet, page>>
  PROVE  IInv'
<1>1. LedgerInv' /\ Grows
  BY LedgerKeeps DEF IInv
<1>2. Follows(wallet, wallet')
  BY FollowsItself
<1>3. HandlerOK(h, sessions', requests', wallet') /\ h \in Processing
  BY <1>1 DEF HandlerOK
<1>4. handlers' \in [Handler -> Processing]
  BY <1>3 DEF IInv
<1>5. ASSUME NEW q \in Handler PROVE HandlerOK(handlers'[q], sessions', requests', wallet')
  <2>1. CASE q = p
    BY <1>3, <2>1 DEF IInv
  <2>2. CASE q # p
    <3>1. handlers'[q] = handlers[q]
      BY <2>2 DEF IInv
    <3>2. HandlerOK(handlers[q], sessions, requests, wallet)
      BY DEF IInv
    <3>3. HandlerOK(handlers[q], sessions', requests', wallet')
      BY <1>1, <1>2, <3>2, HandlerOutlives
    <3> QED
      BY <3>1, <3>3
  <2> QED
    BY <2>1, <2>2
<1>6. ASSUME NEW j \in Job PROVE RowOK(j, rows'[j], sessions', requests', wallet')
  <2>1. RowOK(j, rows[j], sessions, requests, wallet)
    BY DEF IInv
  <2> QED
    BY <1>1, <1>2, <2>1, RowOutlives
<1> QED
  BY <1>1, <1>4, <1>5, <1>6 DEF IInv

\* A write of a row.
LEMMA WriteKeeps ==
  ASSUME IInv, NEW j \in Job, NEW row, NEW p, NEW h, Write(j, row, p, h),
         RowOK(j, row, sessions, requests, wallet),
         HandlerOK(h, sessions, requests, wallet),
         UNCHANGED <<issuerVars, expired, wallet, page>>
  PROVE  IInv'
<1>1. rows' \in [Job -> Row] /\ \A k \in Job : RowOK(k, rows'[k], sessions, requests, wallet)
  BY DEF IInv, Write, RowOK
<1>2. \A q \in Handler :
        \/ handlers'[q] = h
        \/ handlers'[q] = [handlers[q] EXCEPT !.current = FALSE]
        \/ handlers'[q] = handlers[q]
  BY DEF Write
<1>3. ASSUME NEW q \in Handler PROVE HandlerOK(handlers'[q], sessions, requests, wallet)
  <2>1. HandlerOK(handlers[q], sessions, requests, wallet)
    BY DEF IInv
  <2>2. HandlerOK([handlers[q] EXCEPT !.current = FALSE], sessions, requests, wallet)
    BY <2>1, Marks
  <2> QED
    BY <1>2, <2>1, <2>2
<1>4. handlers' \in [Handler -> Processing]
  <2>1. handlers' = [q \in Handler |-> handlers'[q]]
    BY DEF Write
  <2> QED
    BY <1>3, <2>1 DEF HandlerOK
<1>5. LedgerInv'
  BY DEF IInv, LedgerInv, LedgerType, KeysInv, OrderInv, ReviewIsNotOverruled, issuerVars
<1> QED
  BY <1>1, <1>3, <1>4, <1>5 DEF IInv, issuerVars

\* A processing that throws.
LEMMA ThrowsKeeps ==
  ASSUME IInv, NEW p \in Handler, handlers[p].phase # "idle",
         NEW how \in {"failed", "refused"}, Throws(p, how),
         LedgerStep, UNCHANGED <<rows, expired, wallet, page>>
  PROVE  IInv'
<1> DEFINE h == [Idle EXCEPT !.phase = how, !.job = handlers[p].job]
<1>1. handlers[p].job \in Job
  BY DEF IInv, HandlerOK
<1>2. HandlerOK(h, sessions', requests', wallet)
  BY <1>1, KnowsNothing
<1>3. handlers' = [handlers EXCEPT ![p] = h]
  BY DEF Throws
<1> HIDE DEF h
<1> QED
  BY <1>2, <1>3, CallKeeps

\* A processing that goes on to another phase.
LEMMA GoesKeeps ==
  ASSUME IInv, NEW p \in Handler, handlers[p].phase \in Busy,
         NEW phase \in Busy \ {"received", "finish"}, Goes(p, phase),
         LedgerStep, UNCHANGED <<rows, expired, wallet, page>>
  PROVE  IInv'
<1> DEFINE h == [handlers[p] EXCEPT !.phase = phase]
<1>1. HandlerOK(handlers[p], sessions, requests, wallet)
  BY DEF IInv
<1>2. HandlerOK(h, sessions, requests, wallet)
  BY <1>1, GoesOn
<1>3. handlers' = [handlers EXCEPT ![p] = h]
  BY DEF Goes
<1> HIDE DEF h
<1>4. Grows => HandlerOK(h, sessions', requests', wallet')
  BY <1>2, FollowsItself, HandlerOutlives
<1> QED
  BY <1>3, <1>4, CallKeeps

\* The row is saved in the course of a processing.
LEMMA SaveKeeps ==
  ASSUME IInv, NEW p \in Handler, handlers[p].phase \in Busy,
         NEW phase \in Busy \ {"received", "finish"}, NEW row,
         RowOK(handlers[p].job, row, sessions, requests, wallet),
         Save(p, row, phase)
  PROVE  IInv'
<1> DEFINE h == [handlers[p] EXCEPT !.phase = phase, !.approved = FALSE]
<1>1. HandlerOK(handlers[p], sessions, requests, wallet) /\ handlers[p].phase # "idle"
  BY DEF IInv, Busy
<1>2. handlers[p].job \in Job
  BY <1>1 DEF HandlerOK
<1>3. CASE handlers[p].current
  <2>1. HandlerOK(h, sessions, requests, wallet)
    BY <1>1 DEF HandlerOK, Processing, Busy
  <2>2. Write(handlers[p].job, row, p, h)
    BY <1>3 DEF Save
  <2>3. UNCHANGED <<issuerVars, expired, wallet, page>>
    BY DEF Save
  <2> HIDE DEF h
  <2> QED
    BY <1>2, <2>1, <2>2, <2>3, WriteKeeps
<1>4. CASE ~handlers[p].current
  <2>1. Throws(p, "refused") /\ UNCHANGED <<issuerVars, rows, expired, wallet, page>>
    BY <1>4 DEF Save
  <2> QED
    BY <1>1, <2>1, ThrowsKeeps DEF LedgerStep
<1> QED
  BY <1>3, <1>4

-----------------------------------------------------------------------------
(***************************************************************************)
(* The actions.                                                            *)
(***************************************************************************)

\* What the calls do to the issuer's ledger, and to the handler that makes them.
LEMMA CallsKeep ==
  ASSUME IInv, NEW p \in Handler,
         \/ CallIdentity(p)
         \/ CallConsent(p)
         \/ CallSubmit(p)
         \/ CallApprove(p)
  PROVE  IInv'
<1>1. HandlerOK(handlers[p], sessions, requests, wallet)
  BY DEF IInv
<1>2. /\ handlers[p].phase \in {"identity", "consent", "submit", "approve"}
      /\ handlers[p].phase # "identity" => handlers[p].phase \in Busy
      /\ handlers[p].phase # "identity" => handlers[p].id \in Id
      /\ handlers[p].job \in Job
      /\ handlers[p].phase # "idle"
      /\ UNCHANGED <<rows, expired, wallet, page>>
  BY <1>1 DEF HandlerOK, CallIdentity, CallConsent, CallSubmit, CallApprove, At, Busy, Phase, Call
<1>3. CASE CallIdentity(p)
  <2>1. ASSUME Throws(p, "failed"), UNCHANGED issuerVars PROVE IInv'
    BY <1>2, <2>1, ThrowsKeeps DEF LedgerStep
  <2>2. ASSUME NEW i \in Id, OpenSession(handlers[p].job, i),
               handlers' = [handlers EXCEPT ![p].phase = "identified", ![p].id = i]
        PROVE  IInv'
    <3> DEFINE h == [handlers[p] EXCEPT !.phase = "identified", !.id = i]
    <3>1. LedgerStep
      BY <1>2, <2>2 DEF LedgerStep
    <3>2. sessions'[i].job = handlers[p].job
      <4>1. CASE commands[<<"identity", handlers[p].job>>] = i /\ UNCHANGED issuerVars
        <5>1. sessions[i].job = handlers[p].job
          BY <1>2, <4>1 DEF IInv, LedgerInv, KeysInv
        <5> QED
          BY <4>1, <5>1 DEF issuerVars
      <4>2. CASE sessions' = [sessions EXCEPT ![i] = [job |-> handlers[p].job, status |-> "pending"]]
        BY <4>2 DEF IInv, LedgerInv, LedgerType
      <4> QED
        BY <2>2, <4>1, <4>2 DEF OpenSession
    <3>3. h \in Processing
      BY <1>1 DEF HandlerOK, Processing, Phase
    <3>4. /\ h.phase = "identified"
          /\ h.id = i
          /\ h.job = handlers[p].job
          /\ h.wallet = handlers[p].wallet
          /\ h.walletCurrent = handlers[p].walletCurrent
      BY <1>1 DEF HandlerOK, Processing
    <3>5. handlers' = [handlers EXCEPT ![p] = h]
      BY <2>2 DEF IInv
    <3> HIDE DEF h
    <3>6. HandlerOK(h, sessions', requests', wallet)
      BY <1>1, <1>2, <3>2, <3>3, <3>4 DEF HandlerOK
    <3> QED
      BY <1>2, <3>1, <3>5, <3>6, CallKeeps
  <2>3. ASSUME NEW i \in Id, OpenSession(handlers[p].job, i), Throws(p, "failed")
        PROVE  IInv'
    BY <1>2, <2>3, ThrowsKeeps DEF LedgerStep
  <2> QED
    BY <1>3, <2>1, <2>2, <2>3 DEF CallIdentity
<1>4. CASE CallConsent(p)
  <2>1. handlers[p].phase \in Busy /\ LedgerStep
    BY <1>2, <1>4 DEF CallConsent, At, LedgerStep
  <2>2. Goes(p, "consented") \/ Throws(p, "failed") \/ Throws(p, "refused")
    BY <1>4 DEF CallConsent, Returns
  <2> QED
    BY <1>2, <2>1, <2>2, ThrowsKeeps, GoesKeeps DEF Busy, Phase
<1>5. CASE CallSubmit(p)
  <2>1. handlers[p].phase \in Busy /\ LedgerStep
    BY <1>2, <1>5 DEF CallSubmit, At, LedgerStep
  <2>2. Goes(p, "submitted") \/ Throws(p, "failed") \/ Throws(p, "refused")
    BY <1>5 DEF CallSubmit, Returns
  <2> QED
    BY <1>2, <2>1, <2>2, ThrowsKeeps, GoesKeeps DEF Busy, Phase
<1>6. CASE CallApprove(p)
  <2>1. handlers[p].phase \in Busy /\ LedgerStep
    BY <1>2, <1>6 DEF CallApprove, At, LedgerStep
  <2>2. Goes(p, "import") \/ Throws(p, "failed") \/ Throws(p, "refused")
    BY <1>6 DEF CallApprove, Returns
  <2> QED
    BY <1>2, <2>1, <2>2, ThrowsKeeps, GoesKeeps DEF Busy, Phase, Call
<1> QED
  BY <1>3, <1>4, <1>5, <1>6

\* The rows that a processing saves.
LEMMA SavesKeep ==
  ASSUME IInv, NEW p \in Handler,
         \/ SaveIdentity(p)
         \/ SaveConsent(p)
         \/ SaveRequest(p)
         \/ SaveFetched(p)
  PROVE  IInv'
<1> DEFINE j == handlers[p].job
<1>1. HandlerOK(handlers[p], sessions, requests, wallet)
  BY DEF IInv
<1>2. /\ handlers[p].phase \in {"identified", "consented", "submitted", "fetched"}
      /\ handlers[p].phase \in Busy
  BY DEF SaveIdentity, SaveConsent, SaveRequest, SaveFetched, At, Busy, Phase
<1>3. j \in Job /\ handlers[p].id \in Id /\ sessions[handlers[p].id].job = j
  BY <1>1, <1>2 DEF HandlerOK
<1>4. RowOK(j, rows[j], sessions, requests, wallet) /\ rows[j] \in Row
  BY <1>3 DEF IInv
<1>5. CASE SaveIdentity(p)
  <2> DEFINE row == [rows[j] EXCEPT !.identity = handlers[p].id]
  <2>1. RowOK(j, row, sessions, requests, wallet)
    BY <1>3, <1>4 DEF RowOK, Row
  <2>2. Save(p, row, "consent")
    BY <1>5 DEF SaveIdentity
  <2> HIDE DEF row
  <2> QED
    BY <1>2, <2>1, <2>2, SaveKeeps DEF Busy, Phase, Call
<1>6. CASE SaveRequest(p)
  <2> DEFINE row == [rows[j] EXCEPT !.request = handlers[p].id]
  <2>1. RowOK(j, row, sessions, requests, wallet)
    BY <1>3, <1>4 DEF RowOK, Row
  <2>2. Save(p, row, "fetch")
    BY <1>6 DEF SaveRequest
  <2> HIDE DEF row
  <2> QED
    BY <1>2, <2>1, <2>2, SaveKeeps DEF Busy, Phase, Call
<1>7. CASE SaveConsent(p)
  <2>1. Save(p, rows[j], "submit")
    BY <1>7 DEF SaveConsent
  <2> QED
    BY <1>2, <1>4, <2>1, SaveKeeps DEF Busy, Phase, Call
<1>8. CASE SaveFetched(p)
  <2>1. Save(p, rows[j], "import") \/ Save(p, rows[j], "approve")
    BY <1>8 DEF SaveFetched
  <2>2. "import" \in Busy /\ "approve" \in Busy
    BY DEF Busy, Phase, Call
  <2> QED
    BY <1>2, <1>4, <2>1, <2>2, SaveKeeps
<1> QED
  BY <1>5, <1>6, <1>7, <1>8

\* What a processing reads, and what it gives up.
LEMMA ReadsKeep ==
  ASSUME IInv, NEW p \in Handler,
         \/ Fetch(p)
         \/ ReadWallet(p)
         \/ CheckStatus(p)
         \/ Unreachable(p)
         \/ Crash(p)
  PROVE  IInv'
<1>1. HandlerOK(handlers[p], sessions, requests, wallet) /\ handlers[p] \in Processing
  BY DEF IInv
<1>2. /\ handlers[p].phase # "idle"
      /\ UNCHANGED <<issuerVars, rows, expired, wallet, page>>
      /\ LedgerStep
  BY DEF Fetch, ReadWallet, CheckStatus, Unreachable, Crash, At, Call, LedgerStep
<1>3. ASSUME NEW h, HandlerOK(h, sessions, requests, wallet),
             handlers' = [handlers EXCEPT ![p] = h]
      PROVE  IInv'
  <2>1. HandlerOK(h, sessions', requests', wallet)
    BY <1>2, <1>3 DEF issuerVars
  <2> QED
    BY <1>2, <1>3, <2>1, CallKeeps
<1>4. ASSUME NEW how \in {"failed", "refused"}, Throws(p, how) PROVE IInv'
  BY <1>2, <1>4, ThrowsKeeps
<1>5. CASE Fetch(p)
  <2> DEFINE approved == requests[handlers[p].id].status = "issued"
             h == [handlers[p] EXCEPT !.phase = "fetched", !.approved = approved]
  <2>1. ASSUME handlers' = [handlers EXCEPT ![p].phase = "fetched", ![p].approved = approved]
        PROVE  IInv'
    <3>1. approved \in BOOLEAN
      OBVIOUS
    <3> HIDE DEF approved
    <3>2. handlers[p].phase \in Busy
      BY <1>5 DEF Fetch, At, Busy, Phase, Call
    <3>3. HandlerOK(h, sessions, requests, wallet)
      BY <1>1, <3>1, <3>2 DEF HandlerOK, Processing, Busy, Phase
    <3>4. handlers' = [handlers EXCEPT ![p] = h]
      BY <2>1 DEF IInv
    <3> HIDE DEF h
    <3> QED
      BY <1>3, <3>3, <3>4
  <2> QED
    BY <1>4, <1>5, <2>1 DEF Fetch
<1>6. CASE ReadWallet(p)
  <2> DEFINE h == [handlers[p] EXCEPT !.phase = "check", !.wallet = wallet, !.walletCurrent = TRUE]
  <2>1. handlers[p].phase \in Busy
    BY <1>6 DEF ReadWallet, At, Busy, Phase, Call
  <2>2. wallet \in Wallet /\ Follows(wallet, wallet)
    BY FollowsItself DEF IInv
  <2>3. HandlerOK(h, sessions, requests, wallet)
    BY <1>1, <2>1, <2>2 DEF HandlerOK, Processing, Busy, Phase, Call
  <2>4. handlers' = [handlers EXCEPT ![p] = h]
    BY <1>6 DEF ReadWallet, IInv
  <2> HIDE DEF h
  <2> QED
    BY <1>3, <2>3, <2>4
<1>7. CASE CheckStatus(p)
  <2> DEFINE i == handlers[p].id
             status == IF handlers[p].wallet[i] = "none" THEN "active" ELSE handlers[p].wallet[i]
             w == [handlers[p].wallet EXCEPT ![i] = status]
             h == [handlers[p] EXCEPT !.phase = "received", !.wallet = w]
  <2>1. i \in Id /\ sessions[i].job = handlers[p].job
    BY <1>1, <1>7 DEF CheckStatus, At, HandlerOK, Busy, Phase, Call
  <2>2. CASE credentials[i] = "active"
    <3>1. requests[i].status = "issued"
      BY <2>1, <2>2 DEF IInv, LedgerInv, OrderInv
    <3>2. handlers[p].wallet \in Wallet
      BY <1>1 DEF Processing
    <3>3. status \in {"active", "revoked"} /\ (handlers[p].wallet[i] = "revoked" => status = "revoked")
      BY <2>1, <3>2 DEF Wallet
    <3>4. handlers' = [handlers EXCEPT ![p].phase = "received", ![p].wallet[i] = status]
      BY <1>7, <2>2 DEF CheckStatus
    <3> HIDE DEF status
    <3>5. w \in Wallet /\ w[i] # "none" /\ Follows(handlers[p].wallet, w)
      BY <2>1, <3>2, <3>3 DEF Wallet, Follows
    <3>6. handlers' = [handlers EXCEPT ![p] = h]
      BY <3>4 DEF IInv
    <3> HIDE DEF w, i
    <3>7. h \in Processing
      BY <1>1, <3>5 DEF Processing, Phase
    <3>8. /\ h.phase = "received" /\ h.id = handlers[p].id /\ h.job = handlers[p].job
          /\ h.wallet = w /\ h.walletCurrent = handlers[p].walletCurrent
      BY <1>1 DEF Processing
    <3> HIDE DEF h
    <3>9. h.walletCurrent => Follows(wallet, h.wallet)
      BY <1>1, <3>5, <3>8 DEF HandlerOK, Follows
    <3>10. h.job \in Job /\ h.id = i
      BY <1>1, <1>2, <3>8 DEF HandlerOK, i
    <3>11. HandlerOK(h, sessions, requests, wallet)
      BY <2>1, <3>1, <3>5, <3>7, <3>8, <3>9, <3>10 DEF HandlerOK
    <3> QED
      BY <1>3, <3>6, <3>11
  <2>3. CASE credentials[i] # "active"
    BY <1>4, <1>7, <2>3 DEF CheckStatus
  <2> QED
    BY <2>2, <2>3
<1>8. CASE Unreachable(p)
  BY <1>4, <1>8 DEF Unreachable
<1>9. CASE Crash(p)
  BY <1>3, <1>9, KnowsNothing DEF Crash
<1> QED
  BY <1>5, <1>6, <1>7, <1>8, <1>9

\* A row changes by itself, or time passes.
LEMMA RowsKeep ==
  ASSUME IInv, NEW j \in Job, NEW row, RowOK(j, row, sessions, requests, wallet),
         rows' = [rows EXCEPT ![j] = row], expired' \subseteq Job,
         UNCHANGED <<issuerVars, handlers, wallet, page>>
  PROVE  IInv'
<1>1. rows' \in [Job -> Row] /\ \A k \in Job : RowOK(k, rows'[k], sessions, requests, wallet)
  BY DEF IInv, RowOK
<1>2. LedgerInv'
  BY DEF IInv, LedgerInv, LedgerType, KeysInv, OrderInv, ReviewIsNotOverruled, issuerVars
<1> QED
  BY <1>1, <1>2 DEF IInv, issuerVars

\* Starting, resuming, blocking and claiming a job, and the time that passes for it.
LEMMA JobsKeep ==
  ASSUME IInv, NEW j \in Job,
         \/ Start(j)
         \/ Resume(j)
         \/ Block(j)
         \/ \E p \in Handler : Claim(p, j)
         \/ LeaseEnds(j)
         \/ WaitEnds(j)
         \/ ConsentEnds(j)
  PROVE  IInv'
<1>1. /\ RowOK(j, rows[j], sessions, requests, wallet)
      /\ rows[j] \in Row
      /\ expired \subseteq Job
  BY DEF IInv
<1>2. HandlerOK(Idle, sessions, requests, wallet)
  BY KnowsNothing
<1>3. CASE Start(j)
  <2> DEFINE row == [rows[j] EXCEPT !.status = "pending"]
  <2>1. RowOK(j, row, sessions, requests, wallet)
    BY <1>1 DEF RowOK, Row, Open
  <2>2. rows' = [rows EXCEPT ![j] = row]
    BY <1>3 DEF Start
  <2> HIDE DEF row
  <2> QED
    BY <1>1, <1>3, <2>1, <2>2, RowsKeep DEF Start
<1>4. CASE Resume(j)
  <2> DEFINE row == [rows[j] EXCEPT !.status = "retry", !.attempts = 0, !.waiting = FALSE,
                                    !.leased = FALSE]
  <2>1. RowOK(j, row, sessions, requests, wallet)
    <3>1. row \in Row
      <4>1. 0 \in 0..MaxAttempts
        BY IssuanceAssumption
      <4> QED
        BY <1>1, <4>1 DEF Row, Open
    <3>2. row.status = "retry" /\ row.identity = rows[j].identity
      BY <1>1 DEF Row
    <3> HIDE DEF row
    <3> QED
      BY <1>1, <3>1, <3>2 DEF RowOK
  <2>2. Write(j, row, "nobody", Idle)
    BY <1>4 DEF Resume
  <2> HIDE DEF row
  <2> QED
    BY <1>2, <1>4, <2>1, <2>2, WriteKeeps DEF Resume
<1>5. CASE Block(j)
  <2> DEFINE row == [rows[j] EXCEPT !.status = "blocked"]
  <2>1. RowOK(j, row, sessions, requests, wallet)
    BY <1>1 DEF RowOK, Row
  <2>2. Write(j, row, "nobody", Idle)
    BY <1>5 DEF Block
  <2> HIDE DEF row
  <2> QED
    BY <1>2, <1>5, <2>1, <2>2, WriteKeeps DEF Block
<1>6. ASSUME NEW p \in Handler, Claim(p, j) PROVE IInv'
  <2> DEFINE attempts == IF rows[j].attempts < MaxAttempts THEN rows[j].attempts + 1
                         ELSE rows[j].attempts
             row == [rows[j] EXCEPT !.status = "running", !.lease = {p}, !.leased = TRUE,
                                    !.attempts = attempts]
             phase == IF row.identity = NoId THEN "identity"
                      ELSE IF row.request = NoId THEN "consent" ELSE "fetch"
             h == [Idle EXCEPT !.phase = phase, !.job = j, !.current = TRUE, !.id = row.identity]
  <2>1. attempts \in 0..MaxAttempts
    BY <1>1, IssuanceAssumption DEF Row
  <2>2. Write(j, row, p, h) /\ UNCHANGED <<issuerVars, expired, wallet, page>>
    BY <1>6 DEF Claim
  <2> HIDE DEF attempts
  <2>3. row \in Row /\ row.status = "running" /\ row.identity = rows[j].identity
    BY <1>1, <2>1 DEF Row, Open
  <2> HIDE DEF row
  <2>4. RowOK(j, row, sessions, requests, wallet)
    BY <1>1, <2>3 DEF RowOK
  <2>5. /\ row.identity \in Id \cup {NoId}
        /\ row.identity # NoId => sessions[row.identity].job = j
    BY <1>1, <2>3 DEF RowOK, Row
  <2>6. phase \in {"identity", "consent", "fetch"} /\ (phase # "identity" => row.identity # NoId)
    OBVIOUS
  <2> HIDE DEF phase
  <2>7. Idle \in Processing /\ Idle.walletCurrent = FALSE
    BY KnowsNothing DEF HandlerOK, Idle
  <2>8. h \in Processing
    BY <2>5, <2>6, <2>7 DEF Processing, Phase, Call
  <2>9. h.phase = phase /\ h.job = j /\ h.id = row.identity /\ h.walletCurrent = FALSE
    BY <2>7 DEF Processing
  <2> HIDE DEF h
  <2>10. HandlerOK(h, sessions, requests, wallet)
    BY <2>5, <2>6, <2>8, <2>9 DEF HandlerOK, Busy
  <2> QED
    BY <2>2, <2>4, <2>10, WriteKeeps
<1>7. CASE LeaseEnds(j)
  <2> DEFINE row == [rows[j] EXCEPT !.leased = FALSE]
  <2>1. RowOK(j, row, sessions, requests, wallet)
    BY <1>1 DEF RowOK, Row
  <2>2. rows' = [rows EXCEPT ![j] = row] /\ expired' \subseteq Job
    BY <1>1, <1>7 DEF LeaseEnds
  <2> HIDE DEF row
  <2> QED
    BY <1>7, <2>1, <2>2, RowsKeep DEF LeaseEnds, Rest
<1>8. CASE WaitEnds(j)
  <2> DEFINE row == [rows[j] EXCEPT !.waiting = FALSE]
  <2>1. RowOK(j, row, sessions, requests, wallet)
    BY <1>1 DEF RowOK, Row
  <2>2. rows' = [rows EXCEPT ![j] = row] /\ expired' \subseteq Job
    BY <1>1, <1>8 DEF WaitEnds
  <2> HIDE DEF row
  <2> QED
    BY <1>8, <2>1, <2>2, RowsKeep DEF WaitEnds, Rest
<1>9. CASE ConsentEnds(j)
  <2>1. rows' = [rows EXCEPT ![j] = rows[j]] /\ expired' \subseteq Job
    BY <1>1, <1>9 DEF ConsentEnds, IInv
  <2> QED
    BY <1>1, <1>9, <2>1, RowsKeep DEF ConsentEnds, Rest
<1> QED
  BY <1>3, <1>4, <1>5, <1>6, <1>7, <1>8, <1>9

\* A job ends well only after its credential was kept; what its handler caught is no such end.
LEMMA EndsKeep ==
  ASSUME IInv, NEW p \in Handler,
         \/ Complete(p)
         \/ Catch(p)
  PROVE  IInv'
<1> DEFINE j == handlers[p].job
<1>1. HandlerOK(handlers[p], sessions, requests, wallet)
  BY DEF IInv
<1>2. handlers[p].phase # "idle"
  BY DEF Complete, Catch, At
<1>3. j \in Job
  BY <1>1, <1>2 DEF HandlerOK
<1>4. /\ RowOK(j, rows[j], sessions, requests, wallet)
      /\ rows[j] \in Row
      /\ UNCHANGED <<issuerVars, expired, wallet, page>>
  BY <1>3 DEF IInv, Complete, Catch
<1>5. HandlerOK(Idle, sessions, requests, wallet)
  BY KnowsNothing
<1>6. CASE Complete(p) /\ handlers[p].current
  <2> DEFINE row == [rows[j] EXCEPT !.status = "complete", !.leased = FALSE]
  <2>1. \E i \in Id : sessions[i].job = j /\ requests[i].status = "issued" /\ wallet[i] # "none"
    BY <1>1, <1>6 DEF HandlerOK, Complete, At, Busy, Phase
  <2>2. Write(j, row, p, Idle)
    BY <1>6 DEF Complete
  <2>3. row \in Row /\ row.identity = rows[j].identity
    BY <1>4 DEF Row
  <2> HIDE DEF row
  <2>4. RowOK(j, row, sessions, requests, wallet)
    BY <1>4, <2>1, <2>3 DEF RowOK
  <2> QED
    BY <1>3, <1>4, <1>5, <2>2, <2>4, WriteKeeps
<1>7. CASE Complete(p) /\ ~handlers[p].current
  <2>1. Throws(p, "refused") /\ UNCHANGED rows
    BY <1>7 DEF Complete
  <2> QED
    BY <1>2, <1>4, <2>1, ThrowsKeeps DEF LedgerStep
<1>8. CASE Catch(p)
  <2> DEFINE status == IF At(p, "refused") THEN "blocked"
                       ELSE IF rows[j].attempts < MaxAttempts THEN "retry" ELSE "needs_attention"
             row == [rows[j] EXCEPT !.status = status, !.leased = FALSE, !.waiting = TRUE]
  <2>1. status \in {"blocked", "retry", "needs_attention"}
    OBVIOUS
  <2>2. \/ Write(j, row, p, Idle)
        \/ handlers' = [handlers EXCEPT ![p] = Idle] /\ UNCHANGED rows
    BY <1>8 DEF Catch
  <2> HIDE DEF status
  <2>3. row \in Row /\ row.status = status /\ row.identity = rows[j].identity
    BY <1>4, <2>1 DEF Row, Open
  <2> HIDE DEF row
  <2>4. RowOK(j, row, sessions, requests, wallet)
    BY <1>4, <2>1, <2>3 DEF RowOK
  <2>5. CASE Write(j, row, p, Idle)
    BY <1>3, <1>4, <1>5, <2>4, <2>5, WriteKeeps
  <2>6. CASE handlers' = [handlers EXCEPT ![p] = Idle] /\ UNCHANGED rows
    <3>1. HandlerOK(Idle, sessions', requests', wallet)
      BY KnowsNothing
    <3> QED
      BY <1>4, <2>6, <3>1, CallKeeps DEF LedgerStep
  <2> QED
    BY <2>2, <2>5, <2>6
<1> QED
  BY <1>6, <1>7, <1>8

\* The workspace is saved by one who had read it last, so with all that it had; whoever
\* else has a copy of it is behind.
LEMMA WalletKeeps ==
  ASSUME IInv, UNCHANGED <<issuerVars, rows, expired>>,
         wallet' \in Wallet, Follows(wallet, wallet'),
         handlers' = [q \in Handler |-> handlers'[q]],
         \A q \in Handler :
           \/ handlers'[q] = [handlers[q] EXCEPT !.walletCurrent = FALSE]
           \/ HandlerOK(handlers'[q], sessions, requests, wallet'),
         PageOK(page', wallet')
  PROVE  IInv'
<1>1. Grows
  BY DEF issuerVars, Grows
<1>2. ASSUME NEW q \in Handler PROVE HandlerOK(handlers'[q], sessions', requests', wallet')
  <2> DEFINE h == [handlers[q] EXCEPT !.walletCurrent = FALSE]
  <2>1. HandlerOK(h, sessions, requests, wallet)
    BY Marks DEF IInv
  <2>2. h.walletCurrent = FALSE
    BY DEF IInv, Processing
  <2> HIDE DEF h
  <2>3. HandlerOK(h, sessions', requests', wallet')
    BY <1>1, <2>1, <2>2, HandlerOutlives
  <2> QED
    BY <2>3 DEF issuerVars, h
<1>3. handlers' \in [Handler -> Processing]
  BY <1>2 DEF HandlerOK
<1>4. ASSUME NEW j \in Job PROVE RowOK(j, rows'[j], sessions', requests', wallet')
  <2>1. RowOK(j, rows[j], sessions, requests, wallet)
    BY DEF IInv
  <2> QED
    BY <1>1, <2>1, RowOutlives
<1>5. LedgerInv'
  BY DEF IInv, LedgerInv, LedgerType, KeysInv, OrderInv, ReviewIsNotOverruled, issuerVars
<1> QED
  BY <1>2, <1>3, <1>4, <1>5 DEF IInv

\* A processing that keeps the credential it received.
LEMMA SaveWalletKeeps ==
  ASSUME IInv, NEW p \in Handler, SaveWallet(p)
  PROVE  IInv' /\ Follows(wallet, wallet')
<1>1. HandlerOK(handlers[p], sessions, requests, wallet) /\ handlers[p] \in Processing
  BY DEF IInv
<1>2. /\ handlers[p].phase = "received"
      /\ handlers[p].job \in Job
      /\ handlers[p].id \in Id
      /\ sessions[handlers[p].id].job = handlers[p].job
      /\ handlers[p].wallet[handlers[p].id] # "none"
      /\ requests[handlers[p].id].status = "issued"
  BY <1>1 DEF SaveWallet, At, HandlerOK, Busy, Phase
<1>3. CASE handlers[p].walletCurrent
  <2> DEFINE h == [handlers[p] EXCEPT !.phase = "finish", !.wallet = NoWallet,
                                      !.walletCurrent = FALSE, !.tries = 0]
  <2>1. /\ wallet' = handlers[p].wallet
        /\ page' = [page EXCEPT !.current = FALSE]
        /\ handlers' = [q \in Handler |-> IF q = p THEN h
                                          ELSE [handlers[q] EXCEPT !.walletCurrent = FALSE]]
        /\ UNCHANGED <<issuerVars, rows, expired>>
    BY <1>3 DEF SaveWallet, Unchanged, WriteWallet
  <2>2. wallet' \in Wallet /\ Follows(wallet, wallet')
    BY <1>1, <1>3, <2>1 DEF HandlerOK, Processing
  <2>3. PageOK(page', wallet')
    BY <2>1 DEF IInv, PageOK, Page
  <2>4. NoWallet \in Wallet /\ 0 \in 0..ImportTries
    BY IssuanceAssumption DEF NoWallet, Wallet
  <2>5. h \in Processing
    BY <1>1, <2>4 DEF Processing, Phase
  <2>6. /\ h.phase = "finish" /\ h.job = handlers[p].job /\ h.id = handlers[p].id
        /\ h.walletCurrent = FALSE
    BY <1>1 DEF Processing
  <2>7. handlers' = [q \in Handler |-> handlers'[q]]
    BY <2>1
  <2> HIDE DEF h
  <2>8. HandlerOK(h, sessions, requests, wallet')
    BY <1>2, <2>1, <2>5, <2>6 DEF HandlerOK
  <2> QED
    BY <2>1, <2>2, <2>3, <2>7, <2>8, WalletKeeps
<1>4. CASE ~handlers[p].walletCurrent
  <2>1. /\ handlers' = [handlers EXCEPT ![p] = AfterConflict(handlers[p])]
        /\ UNCHANGED <<issuerVars, rows, expired, wallet, page>>
    BY <1>4 DEF SaveWallet, Unchanged
  <2>2. HandlerOK(AfterConflict(handlers[p]), sessions, requests, wallet)
    <3>1. CASE handlers[p].tries + 1 < ImportTries
      <4> DEFINE h == [handlers[p] EXCEPT !.phase = "import", !.tries = handlers[p].tries + 1,
                                          !.wallet = NoWallet]
      <4>1. NoWallet \in Wallet
        BY DEF NoWallet, Wallet
      <4>2. handlers[p].tries + 1 \in 0..ImportTries
        BY <1>1, <3>1, IssuanceAssumption DEF Processing
      <4>3. h \in Processing
        BY <1>1, <4>1, <4>2 DEF Processing, Phase, Call
      <4>4. /\ h.phase = "import" /\ h.job = handlers[p].job /\ h.id = handlers[p].id
            /\ h.walletCurrent = handlers[p].walletCurrent
        BY <1>1 DEF Processing
      <4>5. AfterConflict(handlers[p]) = h
        BY <3>1 DEF AfterConflict
      <4> HIDE DEF h
      <4> QED
        BY <1>2, <1>4, <4>3, <4>4, <4>5 DEF HandlerOK
    <3>2. CASE ~(handlers[p].tries + 1 < ImportTries)
      BY <1>2, <3>2, KnowsNothing DEF AfterConflict
    <3> QED
      BY <3>1, <3>2
  <2>3. HandlerOK(AfterConflict(handlers[p]), sessions', requests', wallet)
    BY <2>1, <2>2 DEF issuerVars
  <2> QED
    BY <2>1, <2>3, CallKeeps, FollowsItself DEF LedgerStep
<1> QED
  BY <1>3, <1>4

\* The page and the other handlers of the workspace.
LEMMA OthersKeep ==
  ASSUME IInv,
         \/ ReadPage
         \/ SavePage
         \/ ReadReceipt
         \/ SaveReceipt
         \/ OtherSave
  PROVE  IInv' /\ Follows(wallet, wallet')
<1>1. wallet \in Wallet /\ Follows(wallet, wallet) /\ PageOK(page, wallet)
  BY FollowsItself DEF IInv
<1>2. NoWallet \in Wallet
  BY DEF NoWallet, Wallet
<1>3. UNCHANGED <<issuerVars, rows, expired>>
  BY DEF ReadPage, SavePage, ReadReceipt, SaveReceipt, OtherSave
<1>4. ASSUME UNCHANGED handlers
      PROVE  /\ handlers' = [q \in Handler |-> handlers'[q]]
             /\ \A q \in Handler : HandlerOK(handlers'[q], sessions, requests, wallet)
  BY <1>4 DEF IInv
<1>5. ASSUME handlers' = [q \in Handler |-> [handlers[q] EXCEPT !.walletCurrent = FALSE]]
      PROVE  /\ handlers' = [q \in Handler |-> handlers'[q]]
             /\ \A q \in Handler : handlers'[q] = [handlers[q] EXCEPT !.walletCurrent = FALSE]
  BY <1>5
<1>6. CASE ReadPage
  <2>1. page' = [asks |-> "status", wallet |-> wallet, current |-> TRUE]
        /\ UNCHANGED <<handlers, wallet>>
    BY <1>6 DEF ReadPage
  <2>2. PageOK(page', wallet)
    BY <1>1, <2>1 DEF PageOK, Page
  <2> QED
    BY <1>1, <1>3, <1>4, <2>1, <2>2, WalletKeeps
<1>7. CASE SavePage
  <2>1. PageOK(NoPage, wallet')
    BY <1>2 DEF PageOK, Page, NoPage
  <2>2. page' = NoPage
    BY <1>7 DEF SavePage
  <2>3. CASE UNCHANGED <<wallet, handlers>>
    BY <1>1, <1>3, <1>4, <2>1, <2>2, <2>3, WalletKeeps
  <2>4. CASE ~UNCHANGED <<wallet, handlers>>
    <3>1. PICK learnt \in SUBSET Id :
            /\ wallet' = [i \in Id |-> IF i \in learnt THEN "revoked" ELSE page.wallet[i]]
            /\ page.current
            /\ handlers' = [q \in Handler |-> [handlers[q] EXCEPT !.walletCurrent = FALSE]]
      BY <1>7, <2>4 DEF SavePage, Unchanged
    <3>2. page.wallet \in Wallet /\ Follows(wallet, page.wallet)
      BY <1>1, <3>1 DEF PageOK, Page
    <3>3. wallet' \in Wallet /\ Follows(wallet, wallet')
      BY <3>1, <3>2 DEF Wallet, Follows
    <3> QED
      BY <1>3, <1>5, <2>1, <2>2, <3>1, <3>3, WalletKeeps
  <2> QED
    BY <2>3, <2>4
<1>8. CASE OtherSave
  <2>1. /\ handlers' = [q \in Handler |-> [handlers[q] EXCEPT !.walletCurrent = FALSE]]
        /\ page' = [page EXCEPT !.current = FALSE]
        /\ UNCHANGED wallet
    BY <1>8 DEF OtherSave
  <2>2. PageOK(page', wallet)
    BY <1>1, <2>1 DEF PageOK, Page
  <2> QED
    BY <1>1, <1>3, <1>5, <2>1, <2>2, WalletKeeps
<1>9. CASE ReadReceipt
  <2>1. PICK i \in Id :
          /\ wallet[i] = "none"
          /\ page' = [asks |-> "original", wallet |-> [wallet EXCEPT ![i] = "active"],
                      current |-> TRUE]
    BY <1>9 DEF ReadReceipt
  <2> DEFINE w == [wallet EXCEPT ![i] = "active"]
  <2>2. w \in Wallet /\ Follows(wallet, w)
    BY <1>1, <2>1 DEF Wallet, Follows
  <2> HIDE DEF w
  <2>3. PageOK(page', wallet) /\ UNCHANGED <<handlers, wallet>>
    BY <1>9, <2>1, <2>2 DEF PageOK, Page, ReadReceipt, w
  <2> QED
    BY <1>1, <1>3, <1>4, <2>3, WalletKeeps
<1>10. CASE SaveReceipt
  <2>1. PageOK(NoPage, wallet')
    BY <1>2 DEF PageOK, Page, NoPage
  <2>2. page' = NoPage
    BY <1>10 DEF SaveReceipt
  <2>3. CASE UNCHANGED <<wallet, handlers>>
    BY <1>1, <1>3, <1>4, <2>1, <2>2, <2>3, WalletKeeps
  <2>4. CASE ~UNCHANGED <<wallet, handlers>>
    <3>1. /\ page.current /\ wallet' = page.wallet
          /\ handlers' = [q \in Handler |-> [handlers[q] EXCEPT !.walletCurrent = FALSE]]
      BY <1>10, <2>4 DEF SaveReceipt, Unchanged
    <3>2. wallet' \in Wallet /\ Follows(wallet, wallet')
      BY <1>1, <3>1 DEF PageOK, Page
    <3> QED
      BY <1>3, <1>5, <2>1, <2>2, <3>1, <3>2, WalletKeeps
  <2> QED
    BY <2>3, <2>4
<1> QED
  BY <1>6, <1>7, <1>8, <1>9, <1>10

\* The visitor's own commands.
LEMMA VisitKeeps ==
  ASSUME IInv, Visit
  PROVE  IInv'
<1>1. LedgerStep /\ UNCHANGED <<rows, expired, handlers, wallet, page>>
  BY DEF Visit, LedgerStep
<1>2. LedgerInv' /\ Grows /\ Follows(wallet, wallet')
  BY <1>1, LedgerKeeps, FollowsItself DEF IInv
<1>3. ASSUME NEW q \in Handler PROVE HandlerOK(handlers'[q], sessions', requests', wallet')
  <2>1. HandlerOK(handlers[q], sessions, requests, wallet)
    BY DEF IInv
  <2> QED
    BY <1>1, <1>2, <2>1, HandlerOutlives
<1>4. ASSUME NEW j \in Job PROVE RowOK(j, rows'[j], sessions', requests', wallet')
  <2>1. RowOK(j, rows[j], sessions, requests, wallet)
    BY DEF IInv
  <2> QED
    BY <1>1, <1>2, <2>1, RowOutlives
<1> QED
  BY <1>1, <1>2, <1>3, <1>4 DEF IInv

-----------------------------------------------------------------------------
(***************************************************************************)
(* The inductive invariant, and what follows.                              *)
(***************************************************************************)

\* It holds at first.
LEMMA InvInit == Init => IInv
<1> SUFFICES ASSUME Init PROVE IInv
  OBVIOUS
<1>1. LedgerInv
  BY LedgerInit DEF Init
<1> DEFINE row == [status |-> "absent", attempts |-> 0, waiting |-> FALSE, lease |-> {},
                   leased |-> FALSE, identity |-> NoId, request |-> NoId]
<1>2. row \in Row
  <2>1. 0 \in 0..MaxAttempts
    BY IssuanceAssumption
  <2> QED
    BY <2>1 DEF Row
<1>3. rows = [j \in Job |-> row]
  BY DEF Init
<1>4. row.status = "absent" /\ row.identity = NoId
  OBVIOUS
<1> HIDE DEF row
<1>5. /\ rows \in [Job -> Row]
      /\ \A j \in Job : RowOK(j, rows[j], sessions, requests, wallet)
  BY <1>2, <1>3, <1>4 DEF RowOK
<1>6. /\ handlers \in [Handler -> Processing]
      /\ \A q \in Handler : HandlerOK(handlers[q], sessions, requests, wallet)
  BY KnowsNothing DEF Init, HandlerOK
<1>7. wallet \in Wallet /\ PageOK(page, wallet) /\ expired \subseteq Job
  BY DEF Init, NoWallet, NoPage, Wallet, Page, PageOK
<1> QED
  BY <1>1, <1>5, <1>6, <1>7 DEF IInv

\* Every step keeps it, and the workspace loses nothing by it.
LEMMA InvStep == IInv /\ [Next]_vars => IInv' /\ Follows(wallet, wallet')
<1> SUFFICES ASSUME IInv, [Next]_vars PROVE IInv' /\ Follows(wallet, wallet')
  OBVIOUS
<1>1. ASSUME UNCHANGED wallet PROVE Follows(wallet, wallet')
  BY <1>1, FollowsItself
<1>2. CASE UNCHANGED vars
  <2>1. UNCHANGED <<issuerVars, rows, expired, handlers, wallet, page>>
    BY <1>2 DEF vars
  <2>2. LedgerInv'
    BY <2>1 DEF IInv, LedgerInv, LedgerType, KeysInv, OrderInv, ReviewIsNotOverruled, issuerVars
  <2> QED
    BY <1>1, <2>1, <2>2 DEF IInv, issuerVars
<1>3. ASSUME NEW p \in Handler,
             \/ CallIdentity(p)
             \/ CallConsent(p)
             \/ CallSubmit(p)
             \/ CallApprove(p)
      PROVE  IInv' /\ Follows(wallet, wallet')
  BY <1>1, <1>3, CallsKeep DEF CallIdentity, CallConsent, CallSubmit, CallApprove
<1>4. ASSUME NEW p \in Handler,
             \/ SaveIdentity(p)
             \/ SaveConsent(p)
             \/ SaveRequest(p)
             \/ SaveFetched(p)
      PROVE  IInv' /\ Follows(wallet, wallet')
  BY <1>1, <1>4, SavesKeep DEF SaveIdentity, SaveConsent, SaveRequest, SaveFetched, Save
<1>5. ASSUME NEW p \in Handler,
             \/ Fetch(p)
             \/ ReadWallet(p)
             \/ CheckStatus(p)
             \/ Unreachable(p)
             \/ Crash(p)
      PROVE  IInv' /\ Follows(wallet, wallet')
  BY <1>1, <1>5, ReadsKeep DEF Fetch, ReadWallet, CheckStatus, Unreachable, Crash
<1>6. ASSUME NEW p \in Handler,
             \/ Complete(p)
             \/ Catch(p)
      PROVE  IInv' /\ Follows(wallet, wallet')
  BY <1>1, <1>6, EndsKeep DEF Complete, Catch
<1>7. ASSUME NEW p \in Handler, SaveWallet(p) PROVE IInv' /\ Follows(wallet, wallet')
  BY <1>7, SaveWalletKeeps
<1>8. ASSUME NEW j \in Job,
             \/ Start(j)
             \/ Resume(j)
             \/ Block(j)
             \/ \E p \in Handler : Claim(p, j)
             \/ LeaseEnds(j)
             \/ WaitEnds(j)
             \/ ConsentEnds(j)
      PROVE  IInv' /\ Follows(wallet, wallet')
  BY <1>1, <1>8, JobsKeep
  DEF Start, Resume, Block, Claim, LeaseEnds, WaitEnds, ConsentEnds, Rest
<1>9. CASE Visit
  BY <1>1, <1>9, VisitKeeps DEF Visit
<1>10. ASSUME ReadPage \/ SavePage \/ ReadReceipt \/ SaveReceipt \/ OtherSave
       PROVE  IInv' /\ Follows(wallet, wallet')
  BY <1>10, OthersKeep
<1> QED
  BY <1>2, <1>3, <1>4, <1>5, <1>6, <1>7, <1>8, <1>9, <1>10 DEF Next, Process

\* It always holds.
LEMMA InvHolds == Spec => []IInv
<1>1. Init => IInv
  BY InvInit
<1>2. IInv /\ [Next]_vars => IInv'
  BY InvStep
<1> QED
  BY <1>1, <1>2, PTL DEF Spec

\* The types of AutomaticIssuance.
THEOREM IssuanceTypes == Spec => []IssuanceTypeOK
<1>1. IInv => IssuanceTypeOK
  BY DEF IInv, LedgerInv, LedgerType, PageOK, IssuanceTypeOK
<1> QED
  BY <1>1, InvHolds, PTL

\* The issuer opens one session for a consent, however often its job is tried and by
\* whomever (the idempotency keys of processDemoIssuanceJob).
THEOREM OneSessionHolds == Spec => []OneSessionPerConsent
<1>1. IInv => OneSessionPerConsent
  BY OneSession DEF IInv
<1> QED
  BY <1>1, InvHolds, PTL

\* The automation approves only the first revision of a request, which no person has
\* touched (approveIssuanceForDemo, the decisions of the issuer).
THEOREM ReviewHolds == Spec => []ReviewIsNotOverruled
<1>1. IInv => ReviewIsNotOverruled
  BY DEF IInv, LedgerInv
<1> QED
  BY <1>1, InvHolds, PTL

\* A complete job's credential was issued, and is in the visitor's wallet.
THEOREM CompletedHolds == Spec => []CompletedIsReceived
<1>1. IInv => CompletedIsReceived
  BY DEF IInv, RowOK, CompletedIsReceived
<1> QED
  BY <1>1, InvHolds, PTL

\* No save of the workspace undoes another's receipt or revocation (saveState).
THEOREM ReceivedHolds == Spec => ReceivedStays
<1>1. IInv /\ [Next]_vars =>
        [\A i \in Id : /\ wallet[i] # "none" => wallet'[i] # "none"
                       /\ wallet[i] = "revoked" => wallet'[i] = "revoked"]_vars
  BY InvStep DEF Follows
<1> QED
  BY <1>1, InvHolds, PTL DEF Spec, ReceivedStays

-----------------------------------------------------------------------------
(***************************************************************************)
(* One job of a visitor within its consent.                                *)
(*                                                                         *)
(* A start is refused while a job is active, but a job can become active   *)
(* again: a handler that fails returns the row to "retry" when the lease   *)
(* is still its own, and the end of the consent takes a row from a handler *)
(* without taking the lease.  So the lease has to say what the row is.     *)
(***************************************************************************)

Active(row) == row.status \notin {"absent", "complete", "blocked"}

\* Of two active jobs, the consent of one is over.
OneConsented ==
  \A j, k \in Job : j # k /\ Active(rows[j]) /\ Active(rows[k]) => j \in expired \/ k \in expired

\* What handler p, at h, may take for granted of the rows r when the consents of x are
\* over: a job it still has the lease of is active while the consent lasts, and a row
\* it is current with is its own to save.
HoldsOn(h, p, r, x) ==
  h.phase # "idle" =>
    /\ r[h.job].lease = {p} /\ h.job \notin x => Active(r[h.job])
    /\ h.current => r[h.job].lease = {p} /\ r[h.job].status = "running"

ConsentInv ==
  /\ OneConsented
  /\ \A q \in Handler : HoldsOn(handlers[q], q, rows, expired)

\* Handler q stops, or goes on with its job and no newer copy of the row.
Continues(q) ==
  \/ handlers'[q].phase = "idle"
  \/ /\ handlers[q].phase # "idle"
     /\ handlers'[q].job = handlers[q].job
     /\ handlers'[q].current => handlers[q].current

\* The rows keep their status and their lease.
LEMMA QuietKeeps ==
  ASSUME IInv, ConsentInv,
         \A q \in Handler : Continues(q),
         \A j \in Job : rows'[j].status = rows[j].status /\ rows'[j].lease = rows[j].lease,
         expired \subseteq expired'
  PROVE  ConsentInv'
<1>1. OneConsented'
  BY DEF ConsentInv, OneConsented, Active
<1>2. ASSUME NEW q \in Handler PROVE HoldsOn(handlers'[q], q, rows', expired')
  <2>1. CASE handlers'[q].phase = "idle"
    BY <2>1 DEF HoldsOn
  <2>2. CASE handlers'[q].phase # "idle"
    <3>1. /\ handlers[q].phase # "idle"
          /\ handlers'[q].job = handlers[q].job
          /\ handlers'[q].current => handlers[q].current
      BY <2>2 DEF Continues
    <3>2. handlers[q].job \in Job /\ HoldsOn(handlers[q], q, rows, expired)
      BY <3>1 DEF ConsentInv, IInv, HandlerOK
    <3> QED
      BY <3>1, <3>2 DEF HoldsOn, Active
  <2> QED
    BY <2>1, <2>2
<1> QED
  BY <1>1, <1>2 DEF ConsentInv

\* A handler p whose own record alone is touched.
LEMMA OneContinues ==
  ASSUME IInv, NEW p \in Handler, NEW h,
         handlers' = [handlers EXCEPT ![p] = h],
         \/ h.phase = "idle"
         \/ /\ handlers[p].phase # "idle"
            /\ h.job = handlers[p].job
            /\ h.current => handlers[p].current
  PROVE  \A q \in Handler : Continues(q)
<1> SUFFICES ASSUME NEW q \in Handler PROVE Continues(q)
  OBVIOUS
<1>1. handlers \in [Handler -> Processing]
  BY DEF IInv
<1>2. CASE q = p
  BY <1>1, <1>2 DEF Continues
<1>3. CASE q # p
  BY <1>1, <1>3 DEF Continues
<1> QED
  BY <1>2, <1>3

\* One that throws, or goes on to a phase.
LEMMA ThrowsContinue ==
  ASSUME IInv, NEW p \in Handler, handlers[p].phase # "idle", NEW how, NEW phase,
         Throws(p, how) \/ Goes(p, phase)
  PROVE  \A q \in Handler : Continues(q)
<1>1. handlers[p] \in Processing
  BY DEF IInv
<1>2. CASE Throws(p, how)
  <2> DEFINE h == [Idle EXCEPT !.phase = how, !.job = handlers[p].job]
  <2>1. h.job = handlers[p].job /\ h.current = FALSE
    BY DEF Idle
  <2>2. handlers' = [handlers EXCEPT ![p] = h]
    BY <1>2 DEF Throws
  <2> HIDE DEF h
  <2> QED
    BY <2>1, <2>2, OneContinues
<1>3. CASE Goes(p, phase)
  <2> DEFINE h == [handlers[p] EXCEPT !.phase = phase]
  <2>1. h.job = handlers[p].job /\ h.current = handlers[p].current
    BY <1>1 DEF Processing
  <2>2. handlers' = [handlers EXCEPT ![p] = h]
    BY <1>3 DEF Goes
  <2> HIDE DEF h
  <2> QED
    BY <2>1, <2>2, OneContinues
<1> QED
  BY <1>2, <1>3

\* A write makes active no row whose consent lasts, and leaves to the writer, or to a
\* handler with the lease, what it may take for granted.
LEMMA WriteConsents ==
  ASSUME IInv, ConsentInv, NEW j \in Job, NEW row, NEW p, NEW h,
         Write(j, row, p, h), expired' = expired,
         Active(row) => Active(rows[j]) \/ j \in expired,
         p \in Handler => HoldsOn(h, p, rows', expired) \/ h.phase = "idle",
         p \notin Handler => h.phase = "idle",
         \A q \in Handler \ {p} : row.lease = {q} /\ j \notin expired => Active(row)
  PROVE  ConsentInv'
<1>1. /\ rows' = [rows EXCEPT ![j] = row]
      /\ rows \in [Job -> Row]
      /\ handlers \in [Handler -> Processing]
      /\ handlers' = [q \in Handler |->
           IF q = p THEN h
           ELSE IF handlers[q].job = j THEN [handlers[q] EXCEPT !.current = FALSE]
           ELSE handlers[q]]
  BY DEF Write, IInv
<1>2. rows'[j] = row /\ \A k \in Job \ {j} : rows'[k] = rows[k]
  BY <1>1
<1>3. OneConsented'
  BY <1>2 DEF ConsentInv, OneConsented
<1>4. ASSUME NEW q \in Handler PROVE HoldsOn(handlers'[q], q, rows', expired')
  <2>1. CASE q = p
    BY <1>1, <2>1 DEF HoldsOn
  <2>2. CASE q # p /\ handlers[q].job = j
    <3> DEFINE g == [handlers[q] EXCEPT !.current = FALSE]
    <3>1. g.job = j /\ g.current = FALSE
      BY <1>1, <2>2 DEF Processing
    <3>2. handlers'[q] = g
      BY <1>1, <2>2
    <3> HIDE DEF g
    <3> QED
      BY <1>2, <2>2, <3>1, <3>2 DEF HoldsOn
  <2>3. CASE q # p /\ handlers[q].job # j
    <3>1. handlers'[q] = handlers[q] /\ HoldsOn(handlers[q], q, rows, expired)
      BY <1>1, <2>3 DEF ConsentInv
    <3>2. handlers[q].phase # "idle" => handlers[q].job \in Job \ {j}
      BY <2>3 DEF IInv, HandlerOK
    <3> QED
      BY <1>2, <3>1, <3>2 DEF HoldsOn
  <2> QED
    BY <2>1, <2>2, <2>3
<1> QED
  BY <1>3, <1>4 DEF ConsentInv

\* A handler saves only a row it is current with, and that row it has leased.
LEMMA SaveConsents ==
  ASSUME IInv, ConsentInv, NEW p \in Handler, NEW row, NEW phase, Save(p, row, phase),
         handlers[p].phase # "idle",
         row.status = rows[handlers[p].job].status, row.lease = rows[handlers[p].job].lease
  PROVE  ConsentInv'
<1> DEFINE j == handlers[p].job
<1>1. j \in Job /\ handlers[p] \in Processing /\ rows[j] \in Row
  BY DEF IInv, HandlerOK
<1>2. expired' = expired
  BY DEF Save
<1>3. CASE handlers[p].current
  <2> DEFINE h == [handlers[p] EXCEPT !.phase = phase, !.approved = FALSE]
  <2>1. Write(j, row, p, h)
    BY <1>3 DEF Save
  <2>2. h.job = j
    BY <1>1 DEF Processing
  <2>3. rows[j].lease = {p} /\ rows[j].status = "running"
    BY <1>3 DEF ConsentInv, HoldsOn
  <2> HIDE DEF h
  <2>4. rows'[j] = row
    BY <1>1, <2>1 DEF Write, IInv
  <2>5. Active(row) /\ Active(rows[j])
    BY <2>3 DEF Active
  <2>6. HoldsOn(h, p, rows', expired)
    BY <2>2, <2>3, <2>4, <2>5 DEF HoldsOn
  <2> QED
    BY <1>1, <1>2, <2>1, <2>5, <2>6, WriteConsents
<1>4. CASE ~handlers[p].current
  <2>1. Throws(p, "refused") /\ rows' = rows
    BY <1>4 DEF Save
  <2>2. \A q \in Handler : Continues(q)
    BY <2>1, ThrowsContinue
  <2> QED
    BY <1>2, <2>1, <2>2, QuietKeeps
<1> QED
  BY <1>3, <1>4

\* The processing: calls, reads and saves.
LEMMA ProcessConsents ==
  ASSUME IInv, ConsentInv, NEW p \in Handler, Process(p) \/ Unreachable(p) \/ Crash(p)
  PROVE  ConsentInv'
<1>1. handlers[p] \in Processing /\ handlers \in [Handler -> Processing] /\ rows \in [Job -> Row]
  BY DEF IInv
<1>2. handlers[p].phase # "idle" /\ handlers[p].job \in Job
  <2>1. handlers[p].phase # "idle"
    BY DEF Process, Unreachable, Crash, CallIdentity, SaveIdentity, CallConsent, SaveConsent,
           CallSubmit, SaveRequest, Fetch, SaveFetched, CallApprove, ReadWallet, CheckStatus,
           SaveWallet, Complete, Catch, At, Call
  <2> QED
    BY <2>1 DEF IInv, HandlerOK
<1>3. ASSUME \A q \in Handler : Continues(q), UNCHANGED <<rows, expired>> PROVE ConsentInv'
  BY <1>3, QuietKeeps
<1>4. CASE CallIdentity(p)
  <2>1. ASSUME NEW i \in Id,
               handlers' = [handlers EXCEPT ![p].phase = "identified", ![p].id = i]
        PROVE  \A q \in Handler : Continues(q)
    <3> DEFINE h == [handlers[p] EXCEPT !.phase = "identified", !.id = i]
    <3>1. h.job = handlers[p].job /\ h.current = handlers[p].current
      BY <1>1 DEF Processing
    <3>2. handlers' = [handlers EXCEPT ![p] = h]
      BY <1>1, <2>1
    <3> HIDE DEF h
    <3> QED
      BY <1>2, <3>1, <3>2, OneContinues
  <2>2. Throws(p, "failed") => \A q \in Handler : Continues(q)
    BY <1>2, ThrowsContinue
  <2> QED
    BY <1>3, <1>4, <2>1, <2>2 DEF CallIdentity
<1>5. CASE CallConsent(p) \/ CallSubmit(p) \/ CallApprove(p) \/ Unreachable(p)
  <2>1. /\ UNCHANGED <<rows, expired>>
        /\ \/ Throws(p, "failed") \/ Throws(p, "refused")
           \/ Goes(p, "consented") \/ Goes(p, "submitted") \/ Goes(p, "import")
    BY <1>5 DEF CallConsent, CallSubmit, CallApprove, Unreachable, Returns
  <2>2. \A how, phase : Throws(p, how) \/ Goes(p, phase) => \A q \in Handler : Continues(q)
    BY <1>2, ThrowsContinue
  <2> QED
    BY <1>3, <2>1, <2>2
<1>6. CASE Fetch(p) \/ ReadWallet(p) \/ CheckStatus(p)
  <2>1. UNCHANGED <<rows, expired>>
    BY <1>6 DEF Fetch, ReadWallet, CheckStatus
  <2>2. ASSUME Fetch(p), ~Throws(p, "refused") PROVE \A q \in Handler : Continues(q)
    <3> DEFINE a == requests[handlers[p].id].status = "issued"
               h == [handlers[p] EXCEPT !.phase = "fetched", !.approved = a]
    <3>1. h.job = handlers[p].job /\ h.current = handlers[p].current
      BY <1>1 DEF Processing
    <3>2. handlers' = [handlers EXCEPT ![p] = h]
      BY <1>1, <2>2 DEF Fetch
    <3> HIDE DEF h, a
    <3> QED
      BY <1>2, <3>1, <3>2, OneContinues
  <2>3. ASSUME ReadWallet(p) PROVE \A q \in Handler : Continues(q)
    <3> DEFINE h == [handlers[p] EXCEPT !.phase = "check", !.wallet = wallet, !.walletCurrent = TRUE]
    <3>1. h.job = handlers[p].job /\ h.current = handlers[p].current
      BY <1>1 DEF Processing
    <3>2. handlers' = [handlers EXCEPT ![p] = h]
      BY <1>1, <2>3 DEF ReadWallet
    <3> HIDE DEF h
    <3> QED
      BY <1>2, <3>1, <3>2, OneContinues
  <2>4. ASSUME CheckStatus(p), ~Throws(p, "refused") PROVE \A q \in Handler : Continues(q)
    <3> DEFINE i == handlers[p].id
               s == IF handlers[p].wallet[i] = "none" THEN "active" ELSE handlers[p].wallet[i]
               w == [handlers[p].wallet EXCEPT ![i] = s]
               h == [handlers[p] EXCEPT !.phase = "received", !.wallet = w]
    <3>1. h.job = handlers[p].job /\ h.current = handlers[p].current
      BY <1>1 DEF Processing
    <3>2. handlers' = [handlers EXCEPT ![p].phase = "received", ![p].wallet[i] = s]
      BY <2>4 DEF CheckStatus
    <3> HIDE DEF s
    <3>3. handlers' = [handlers EXCEPT ![p] = h]
      BY <1>1, <3>2
    <3> HIDE DEF h, w
    <3> QED
      BY <1>2, <3>1, <3>3, OneContinues
  <2>5. Throws(p, "refused") => \A q \in Handler : Continues(q)
    BY <1>2, ThrowsContinue
  <2> QED
    BY <1>3, <1>6, <2>1, <2>2, <2>3, <2>4, <2>5
<1>7. CASE SaveWallet(p)
  <2>1. UNCHANGED <<rows, expired>>
    BY <1>7 DEF SaveWallet
  <2>2. CASE Unchanged(handlers[p].walletCurrent)
    <3> SUFFICES ASSUME NEW q \in Handler PROVE Continues(q)
      BY <1>3, <2>1
    <3> DEFINE h == [handlers[p] EXCEPT !.phase = "finish", !.wallet = NoWallet,
                                        !.walletCurrent = FALSE, !.tries = 0]
               g == [handlers[q] EXCEPT !.walletCurrent = FALSE]
    <3>1. h.job = handlers[p].job /\ h.current = handlers[p].current
      BY <1>1 DEF Processing
    <3>2. g.phase = handlers[q].phase /\ g.job = handlers[q].job /\ g.current = handlers[q].current
      BY <1>1 DEF Processing
    <3>3. handlers'[q] = IF q = p THEN h ELSE g
      BY <1>7, <2>2 DEF SaveWallet
    <3> HIDE DEF h, g
    <3> QED
      BY <1>2, <3>1, <3>2, <3>3 DEF Continues
  <2>3. CASE ~Unchanged(handlers[p].walletCurrent)
    <3> DEFINE h == AfterConflict(handlers[p])
    <3>1. handlers' = [handlers EXCEPT ![p] = h]
      BY <1>7, <2>3 DEF SaveWallet
    <3>2. h.job = handlers[p].job /\ (h.current => handlers[p].current)
      BY <1>1 DEF AfterConflict, Idle, Processing
    <3> HIDE DEF h
    <3> QED
      BY <1>2, <1>3, <2>1, <3>1, <3>2, OneContinues
  <2> QED
    BY <2>2, <2>3
<1>8. CASE Crash(p)
  <2>1. \A q \in Handler : Continues(q)
    BY <1>1, <1>8, OneContinues DEF Crash, Idle
  <2> QED
    BY <1>3, <1>8, <2>1 DEF Crash
<1>9. CASE SaveIdentity(p) \/ SaveConsent(p) \/ SaveRequest(p) \/ SaveFetched(p)
  <2> DEFINE row == rows[handlers[p].job]
  <2>1. row \in Row
    BY <1>1, <1>2
  <2>2. ASSUME NEW id
        PROVE  /\ [row EXCEPT !.identity = id].status = row.status
               /\ [row EXCEPT !.identity = id].lease = row.lease
               /\ [row EXCEPT !.request = id].status = row.status
               /\ [row EXCEPT !.request = id].lease = row.lease
    BY <2>1 DEF Row
  <2>3. CASE SaveIdentity(p)
    BY <1>2, <2>2, <2>3, SaveConsents DEF SaveIdentity
  <2>4. CASE SaveRequest(p)
    BY <1>2, <2>2, <2>4, SaveConsents DEF SaveRequest
  <2>5. CASE SaveConsent(p) \/ SaveFetched(p)
    BY <1>2, <2>5, SaveConsents DEF SaveConsent, SaveFetched
  <2> QED
    BY <1>9, <2>3, <2>4, <2>5
<1>10. CASE Complete(p)
  <2>1. expired' = expired
    BY <1>10 DEF Complete
  <2>2. CASE handlers[p].current
    <3> DEFINE row == [rows[handlers[p].job] EXCEPT !.status = "complete", !.leased = FALSE]
    <3>1. Write(handlers[p].job, row, p, Idle)
      BY <1>10, <2>2 DEF Complete
    <3>2. rows[handlers[p].job].lease = {p}
      BY <1>2, <2>2 DEF ConsentInv, HoldsOn
    <3>3. row.lease = {p} /\ row.status = "complete"
      BY <1>1, <1>2, <3>2 DEF Row
    <3> HIDE DEF row
    <3> QED
      BY <1>2, <2>1, <3>1, <3>3, WriteConsents DEF Active, Idle
  <2>3. CASE ~handlers[p].current
    BY <1>2, <1>3, <1>10, <2>1, <2>3, ThrowsContinue DEF Complete
  <2> QED
    BY <2>2, <2>3
<1>11. CASE Catch(p)
  <2> DEFINE j == handlers[p].job
             status == IF At(p, "refused") THEN "blocked"
                       ELSE IF rows[j].attempts < MaxAttempts THEN "retry" ELSE "needs_attention"
             row == [rows[j] EXCEPT !.status = status, !.leased = FALSE, !.waiting = TRUE]
  <2>1. expired' = expired
    BY <1>11 DEF Catch
  <2>2. CASE rows[j].lease = {p}
    <3>1. Write(j, row, p, Idle)
      BY <1>11, <2>2 DEF Catch
    <3>2. row.lease = {p}
      BY <1>1, <1>2, <2>2 DEF Row
    <3>3. Active(rows[j]) \/ j \in expired
      BY <1>2, <2>2 DEF ConsentInv, HoldsOn
    <3> HIDE DEF row, status
    <3> QED
      BY <1>2, <2>1, <3>1, <3>2, <3>3, WriteConsents DEF Idle
  <2>3. CASE rows[j].lease # {p}
    <3>1. handlers' = [handlers EXCEPT ![p] = Idle] /\ rows' = rows
      BY <1>11, <2>3 DEF Catch
    <3>2. \A q \in Handler : Continues(q)
      BY <3>1, OneContinues DEF Idle
    <3> QED
      BY <1>3, <2>1, <3>1, <3>2
  <2> QED
    BY <2>2, <2>3
<1> QED
  BY <1>4, <1>5, <1>6, <1>7, <1>8, <1>9, <1>10, <1>11 DEF Process

\* Starting, resuming, taking up and blocking a job, and time.
LEMMA JobConsents ==
  ASSUME IInv, ConsentInv, NEW j \in Job,
         \/ Start(j) \/ Resume(j) \/ Block(j)
         \/ \E p \in Handler : Claim(p, j)
         \/ LeaseEnds(j) \/ WaitEnds(j) \/ ConsentEnds(j)
  PROVE  ConsentInv'
<1>1. rows \in [Job -> Row] /\ rows[j] \in Row
  BY DEF IInv
<1>2. UNCHANGED handlers => \A q \in Handler : Continues(q)
  BY DEF Continues
<1>3. CASE Start(j)
  <2>1. /\ \A k \in Job : ~Active(rows[k])
        /\ rows' = [rows EXCEPT ![j].status = "pending"]
        /\ UNCHANGED <<expired, handlers>>
    BY <1>3 DEF Start, Active
  <2>2. /\ rows'[j].status = "pending"
        /\ \A k \in Job \ {j} : rows'[k] = rows[k]
    BY <1>1, <2>1 DEF Row
  <2>3. OneConsented'
    BY <2>1, <2>2 DEF OneConsented
  <2>4. ASSUME NEW q \in Handler PROVE HoldsOn(handlers'[q], q, rows', expired')
    <3>1. HoldsOn(handlers[q], q, rows, expired) /\ (handlers[q].phase # "idle" => handlers[q].job \in Job)
      BY DEF ConsentInv, IInv, HandlerOK
    <3>2. handlers[q].phase # "idle" => ~handlers[q].current
      BY <2>1, <3>1 DEF HoldsOn, Active
    <3> QED
      BY <2>1, <2>2, <3>1, <3>2 DEF HoldsOn, Active
  <2> QED
    BY <2>3, <2>4 DEF ConsentInv
<1>4. CASE Resume(j)
  <2> DEFINE row == [rows[j] EXCEPT !.status = "retry", !.attempts = 0, !.waiting = FALSE,
                                    !.leased = FALSE]
  <2>1. Write(j, row, "nobody", Idle) /\ expired' = expired
    BY <1>4 DEF Resume
  <2>2. Active(rows[j])
    BY <1>4 DEF Resume, Active
  <2>3. row.status = "retry"
    BY <1>1 DEF Row
  <2> HIDE DEF row
  <2> QED
    BY <2>1, <2>2, <2>3, WriteConsents DEF Active, Idle
<1>5. CASE Block(j)
  <2> DEFINE row == [rows[j] EXCEPT !.status = "blocked"]
  <2>1. Write(j, row, "nobody", Idle) /\ expired' = expired /\ j \in expired
    BY <1>5 DEF Block
  <2> HIDE DEF row
  <2> QED
    BY <2>1, WriteConsents DEF Idle
<1>6. ASSUME NEW p \in Handler, Claim(p, j) PROVE ConsentInv'
  <2> DEFINE n == IF rows[j].attempts < MaxAttempts THEN rows[j].attempts + 1 ELSE rows[j].attempts
             row == [rows[j] EXCEPT !.status = "running", !.lease = {p}, !.leased = TRUE,
                                    !.attempts = n]
             phase == IF row.identity = NoId THEN "identity"
                      ELSE IF row.request = NoId THEN "consent" ELSE "fetch"
             h == [Idle EXCEPT !.phase = phase, !.job = j, !.current = TRUE, !.id = row.identity]
  <2>1. Write(j, row, p, h) /\ expired' = expired
    BY <1>6 DEF Claim
  <2>2. Active(rows[j])
    BY <1>6 DEF Claim, Due, Open, Active
  <2>3. row.status = "running" /\ row.lease = {p}
    BY <1>1 DEF Row
  <2>4. h.job = j
    BY DEF Idle
  <2> HIDE DEF row, h
  <2>5. rows'[j] = row
    BY <1>1, <2>1 DEF Write
  <2>6. HoldsOn(h, p, rows', expired)
    BY <2>3, <2>4, <2>5 DEF HoldsOn, Active
  <2>7. Active(row)
    BY <2>3 DEF Active
  <2> QED
    BY <2>1, <2>2, <2>6, <2>7, WriteConsents
<1>7. CASE LeaseEnds(j) \/ WaitEnds(j)
  <2>1. \A k \in Job : rows'[k].status = rows[k].status /\ rows'[k].lease = rows[k].lease
    BY <1>1, <1>7 DEF LeaseEnds, WaitEnds, Row
  <2> QED
    BY <1>2, <1>7, <2>1, QuietKeeps DEF LeaseEnds, WaitEnds, Rest
<1>8. CASE ConsentEnds(j)
  BY <1>2, <1>8, QuietKeeps DEF ConsentEnds, Rest
<1> QED
  BY <1>3, <1>4, <1>5, <1>6, <1>7, <1>8

\* Every step keeps it.
LEMMA ConsentStep == IInv /\ ConsentInv /\ [Next]_vars => ConsentInv'
<1> SUFFICES ASSUME IInv, ConsentInv, [Next]_vars PROVE ConsentInv'
  OBVIOUS
<1>1. ASSUME UNCHANGED <<rows, expired, handlers>> PROVE ConsentInv'
  BY <1>1, QuietKeeps DEF Continues
<1>2. CASE UNCHANGED vars
  BY <1>1, <1>2 DEF vars
<1>3. CASE Visit \/ ReadPage \/ ReadReceipt
  BY <1>1, <1>3 DEF Visit, ReadPage, ReadReceipt
<1>4. CASE SavePage \/ SaveReceipt \/ OtherSave
  <2>1. UNCHANGED <<rows, expired>>
    BY <1>4 DEF SavePage, SaveReceipt, OtherSave
  <2>2. CASE UNCHANGED handlers
    BY <1>1, <2>1, <2>2
  <2>3. CASE handlers' = [q \in Handler |-> [handlers[q] EXCEPT !.walletCurrent = FALSE]]
    <3> SUFFICES ASSUME NEW q \in Handler PROVE Continues(q)
      BY <2>1, QuietKeeps
    <3> DEFINE g == [handlers[q] EXCEPT !.walletCurrent = FALSE]
    <3>1. g.phase = handlers[q].phase /\ g.job = handlers[q].job /\ g.current = handlers[q].current
      BY DEF IInv, Processing
    <3>2. handlers'[q] = g
      BY <2>3
    <3> HIDE DEF g
    <3> QED
      BY <3>1, <3>2 DEF Continues
  <2> QED
    BY <1>4, <2>2, <2>3 DEF SavePage, SaveReceipt, OtherSave
<1>5. ASSUME NEW p \in Handler, Process(p) \/ Unreachable(p) \/ Crash(p) PROVE ConsentInv'
  BY <1>5, ProcessConsents
<1>6. ASSUME NEW j \in Job,
             \/ Start(j) \/ Resume(j) \/ Block(j)
             \/ \E p \in Handler : Claim(p, j)
             \/ LeaseEnds(j) \/ WaitEnds(j) \/ ConsentEnds(j)
      PROVE  ConsentInv'
  BY <1>6, JobConsents
<1> QED
  BY <1>2, <1>3, <1>4, <1>5, <1>6 DEF Next

\* A visitor never has two active jobs within their consents (startDemoIssuanceJob):
\* a handler whose job was blocked under it can make the row active again, beside the
\* next job's, but only when that consent is over, and then nobody takes it up again.
THEOREM OneConsentedJob == Spec => []OneConsented
<1>1. Init => ConsentInv
  BY DEF Init, ConsentInv, OneConsented, HoldsOn, Active, Idle
<1>2. ConsentInv => OneConsented
  BY DEF ConsentInv
<1> QED
  BY <1>1, <1>2, ConsentStep, InvHolds, PTL DEF Spec
=============================================================================
