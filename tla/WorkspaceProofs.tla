-------------------------- MODULE WorkspaceProofs --------------------------
(***************************************************************************)
(* The workspace keeps its types, its receipts and the ledger of           *)
(* applications, for any policies, requests, submissions and handlers.     *)
(*                                                                         *)
(* What makes it inductive is what a handler holds: a copy that could take *)
(* the place of the stored workspace in one step of the ledger (Follows),  *)
(* the targets still to be submitted being as they were (Untouched), and   *)
(* while an item is validated a draft which could as well (DraftFollows).  *)
(* Everything is stated of a workspace w and a call c, so that the same    *)
(* facts serve before and after a step.                                    *)
(***************************************************************************)
EXTENDS Workspace, TLAPS

Asked == {"absent", "pending", "overdue"}
Decided == {"verified", "past", "rejected"}

\* Receipts and the audit agree, and what is filed was presented.
Sound(s) ==
  /\ s.filed = {t.request : t \in s.receipts}
  /\ \A t, u \in s.receipts :
       t.item.key = u.item.key \/ t.request = u.request => t = u
  /\ \A r \in s.filed : s.status[r] \notin Asked

\* A step of the ledger from status x to status y.
Allowed(active, x, y) ==
  \/ Stage(x) = Stage(y)
  \/ /\ <<Stage(x), Stage(y)>> \in Ledger!Moves
     /\ <<Stage(x), Stage(y)>> \in Ledger!Judged => active

\* r was filed between w and s.
FiledIn(w, s, r) ==
  /\ w.status[r] \in Asked
  /\ Stage(s.status[r]) \notin {"none", "asked", "closed"}
  /\ \A q \in Request \ {r} :
       PolicyOf[q] = PolicyOf[r] => Stage(s.status[q]) \notin Ledger!Open

\* s may take the place of w in the ledger.
Joins(w, s) ==
  /\ \A r \in Request : Allowed(w.active, w.status[r], s.status[r])
  /\ w.filed \subseteq s.filed
  /\ \A r \in s.filed \ w.filed : FiledIn(w, s, r)

Shown(w, s, t) ==
  /\ t.item.preview <=> t.item.policy \in w.auto
  /\ t.item.preview <=> s.status[t.request] \in Decided
  /\ t.item.policy \notin w.archived

Kept(w, s) == s.auto = w.auto /\ s.archived = w.archived /\ s.active = w.active

Follows(w, s) ==
  /\ Kept(w, s)
  /\ \A t \in s.receipts \ w.receipts : Shown(w, s, t)
  /\ Joins(w, s)

Targets(items) == {items[k].policy : k \in 1..Len(items)}

Untouched(w, s, items) ==
  \A q \in Request : PolicyOf[q] \in Targets(items) => s.status[q] = w.status[q]

Distinct(items) ==
  \A j, k \in 1..Len(items) : items[j].policy = items[k].policy => j = k

\* The draft of an item that waits for its verdict.
DraftFollows(w, c) ==
  /\ c.request \in Request
  /\ c.request \notin c.state.filed
  /\ Follows(w, c.draft)
  /\ c.draft.receipts = c.state.receipts
  /\ c.draft.filed = c.state.filed \cup {c.request}
  /\ \A r \in c.draft.filed : c.draft.status[r] \notin Asked
  /\ Untouched(w, c.draft, Tail(c.items))
  /\ w.status[c.request] \in Asked
  /\ Head(c.items).preview

GoodBatch(w, c) ==
  /\ Sound(c.state)
  /\ Follows(w, c.state)
  /\ Untouched(w, c.state, c.items)
  /\ Distinct(c.items)
  /\ c.items # <<>> /\ c.step # "inspect" =>
       /\ Earlier(c.state, Head(c.items)) = {}
       /\ Head(c.items).policy \notin w.archived
       /\ Head(c.items).preview <=> Head(c.items).policy \in w.auto
       /\ w.active
  /\ c.items # <<>> /\ c.step = "validate" => DraftFollows(w, c)

GoodCall(w, c) ==
  /\ c.kind \in {"present", "verify", "sync"} => c.state = w
  /\ c.kind = "present" => c.request \in Request /\ w.status[c.request] \in {"pending", "overdue"}
  /\ c.kind = "verify" =>
       c.request \in Request /\ w.status[c.request] \in {"submitted", "stale", "late"}
  /\ c.kind = "batch" => GoodBatch(w, c)

IInv ==
  /\ WorkspaceTypeOK
  /\ Sound(ws)
  /\ \A h \in Handler : GoodCall(ws, calls[h])

-----------------------------------------------------------------------------
(***************************************************************************)
(* Stages and the clock.                                                   *)
(***************************************************************************)

\* Time moves a status to one of the same stage, or where time leads.
LEMMA OverStatus ==
  ASSUME NEW x \in Status, NEW end
  PROVE  /\ Over(x, end) \in Status
         /\ Over(x, end) \in Asked <=> x \in Asked
         /\ Over(x, end) \in Decided <=> x \in Decided
BY DEF Over, Status, Asked, Decided

LEMMA StageOver ==
  ASSUME NEW x \in Status, NEW end
  PROVE  /\ Stage(x) \in Ledger!Stage
         /\ Stage(x) = "none" => Stage(Over(x, end)) = "none"
         /\ Stage(x) = "asked" => Stage(Over(x, end)) = "asked"
         /\ Stage(x) = "lodged" => Stage(Over(x, end)) \in {"lodged", "outdated"}
         /\ Stage(x) = "outdated" => Stage(Over(x, end)) = "outdated"
         /\ Stage(x) = "verified" => Stage(Over(x, end)) \in {"verified", "past"}
         /\ Stage(x) \in {"past", "rejected", "closed"} => Stage(Over(x, end)) = Stage(x)
BY DEF Over, Status, Stage, Ledger!Stage

\* Two statuses of one stage stay so, and the earlier never overtakes the later.
LEMMA StageOverTogether ==
  ASSUME NEW x \in Status, NEW y \in Status, NEW end
  PROVE  /\ Stage(x) = Stage(y) /\ Stage(x) # "outdated" => Stage(Over(x, end)) = Stage(Over(y, end))
         /\ Stage(x) \in {"none", "asked"} <=> x \in Asked
BY DEF Over, Status, Stage, Asked

LEMMA AllowedOver ==
  ASSUME NEW x \in Status, NEW y \in Status, NEW end, NEW active, Allowed(active, x, y)
  PROVE  Allowed(active, Over(x, end), Over(y, end))
<1>1. Stage(x) \in Ledger!Stage /\ Stage(y) \in Ledger!Stage
  BY StageOver
<1>2. CASE Stage(x) = Stage(y)
  <2>1. Stage(Over(x, end)) = Stage(Over(y, end))
    BY <1>2, StageOver, StageOverTogether
  <2> QED BY <2>1 DEF Allowed
<1>3. CASE Stage(x) # Stage(y)
  <2>1. /\ <<Stage(x), Stage(y)>> \in Ledger!Moves
        /\ <<Stage(x), Stage(y)>> \in Ledger!Judged => active
    BY <1>3 DEF Allowed
  <2> QED BY <1>1, <1>3, <2>1, StageOver DEF Allowed, Ledger!Moves, Ledger!Judged, Ledger!Stage
<1> QED BY <1>2, <1>3

-----------------------------------------------------------------------------
(***************************************************************************)
(* A workspace and what time makes of it.                                  *)
(***************************************************************************)

\* The fields of an aged workspace.
LEMMA AgedState ==
  ASSUME NEW s \in State, NEW r \in Request, NEW end
  PROVE  /\ Aged(s, r, end) \in State
         /\ Kept(s, Aged(s, r, end))
         /\ Aged(s, r, end).filed = s.filed
         /\ Aged(s, r, end).receipts = s.receipts
         /\ \A q \in Request :
              Aged(s, r, end).status[q] = IF q = r THEN Over(s.status[q], end) ELSE s.status[q]
<1> DEFINE status == [s.status EXCEPT ![r] = Over(@, end)]
<1>1. s.status \in [Request -> Status]
  BY DEF State
<1>2. Over(s.status[r], end) \in Status
  BY <1>1, OverStatus
<1>3. /\ status \in [Request -> Status]
      /\ \A q \in Request : status[q] = IF q = r THEN Over(s.status[q], end) ELSE s.status[q]
  BY <1>1, <1>2
<1>4. Aged(s, r, end) = [s EXCEPT !.status = status]
  BY DEF Aged, State
<1> HIDE DEF status
<1>5. /\ Aged(s, r, end) \in State
      /\ Aged(s, r, end).status = status
      /\ Aged(s, r, end).filed = s.filed
      /\ Aged(s, r, end).receipts = s.receipts
      /\ Kept(s, Aged(s, r, end))
  BY <1>3, <1>4 DEF State, Kept
<1> QED BY <1>3, <1>5

\* Whether a request was presented, and whether it was decided, is as before.
LEMMA AgedStatus ==
  ASSUME NEW s \in State, NEW r \in Request, NEW end, NEW q \in Request
  PROVE  /\ Aged(s, r, end).status[q] \in Asked <=> s.status[q] \in Asked
         /\ Aged(s, r, end).status[q] \in Decided <=> s.status[q] \in Decided
<1>1. s.status[q] \in Status
  BY DEF State
<1>2. Aged(s, r, end).status[q] = IF q = r THEN Over(s.status[q], end) ELSE s.status[q]
  BY AgedState
<1> QED BY <1>1, <1>2, OverStatus

LEMMA AgedSound ==
  ASSUME NEW s \in State, NEW r \in Request, NEW end, Sound(s)
  PROVE  Sound(Aged(s, r, end))
<1>1. s.filed \subseteq Request
  BY DEF State
<1>2. Aged(s, r, end).filed = s.filed /\ Aged(s, r, end).receipts = s.receipts
  BY AgedState
<1>3. \A q \in s.filed : Aged(s, r, end).status[q] \notin Asked
  BY <1>1, AgedStatus DEF Sound
<1> QED BY <1>2, <1>3 DEF Sound

LEMMA AgedJoins ==
  ASSUME NEW w \in State, NEW s \in State, NEW r \in Request, NEW end, Joins(w, s)
  PROVE  Joins(Aged(w, r, end), Aged(s, r, end))
<1> DEFINE w2 == Aged(w, r, end)
           s2 == Aged(s, r, end)
<1>1. /\ w2.active = w.active /\ w2.filed = w.filed /\ s2.filed = s.filed
      /\ \A q \in Request : w2.status[q] = IF q = r THEN Over(w.status[q], end) ELSE w.status[q]
      /\ \A q \in Request : s2.status[q] = IF q = r THEN Over(s.status[q], end) ELSE s.status[q]
  BY AgedState DEF Kept
<1>2. \A q \in Request : w.status[q] \in Status /\ s.status[q] \in Status
  BY DEF State
<1>3. \A q \in Request : w2.status[q] \in Asked <=> w.status[q] \in Asked
  BY AgedStatus
<1> HIDE DEF w2, s2
<1>4. ASSUME NEW q \in Request PROVE Allowed(w2.active, w2.status[q], s2.status[q])
  <2>1. Allowed(w.active, w.status[q], s.status[q])
    BY DEF Joins
  <2>2. CASE q = r
    BY <1>1, <1>2, <2>1, <2>2, AllowedOver
  <2>3. CASE q # r
    BY <1>1, <2>1, <2>3
  <2> QED BY <2>2, <2>3
<1>5. ASSUME NEW q \in Request
      PROVE  /\ Stage(s.status[q]) \notin {"none", "asked", "closed"}
                  => Stage(s2.status[q]) \notin {"none", "asked", "closed"}
             /\ Stage(s.status[q]) \notin Ledger!Open => Stage(s2.status[q]) \notin Ledger!Open
  <2>1. CASE q = r
    BY <1>1, <1>2, <2>1, StageOver DEF Ledger!Open, Ledger!Stage
  <2>2. CASE q # r
    BY <1>1, <2>2
  <2> QED BY <2>1, <2>2
<1>6. ASSUME NEW q \in s.filed \ w.filed PROVE FiledIn(w2, s2, q)
  <2>1. q \in Request
    BY DEF State
  <2>2. FiledIn(w, s, q)
    BY DEF Joins
  <2> QED BY <1>3, <1>5, <2>1, <2>2 DEF FiledIn
<1>7. w.filed \subseteq s.filed
  BY DEF Joins
<1>8. Joins(w2, s2)
  BY <1>1, <1>4, <1>6, <1>7 DEF Joins
<1> QED BY <1>8 DEF w2, s2

LEMMA AgedFollows ==
  ASSUME NEW w \in State, NEW s \in State, NEW r \in Request, NEW end, Follows(w, s)
  PROVE  Follows(Aged(w, r, end), Aged(s, r, end))
<1> DEFINE w2 == Aged(w, r, end)
           s2 == Aged(s, r, end)
<1>1. /\ Kept(w, w2) /\ Kept(s, s2)
      /\ w2.receipts = w.receipts /\ s2.receipts = s.receipts
  BY AgedState
<1>2. \A q \in Request : s2.status[q] \in Decided <=> s.status[q] \in Decided
  BY AgedStatus
<1>3. Joins(w2, s2)
  BY AgedJoins DEF Follows
<1> HIDE DEF w2, s2
<1>4. Kept(w, s)
  BY DEF Follows
<1>5. Kept(w2, s2)
  BY <1>1, <1>4 DEF Kept
<1>6. ASSUME NEW t \in s.receipts \ w.receipts PROVE Shown(w2, s2, t)
  <2>1. t.request \in Request
    BY DEF State, Receipt
  <2>2. Shown(w, s, t)
    BY DEF Follows
  <2> QED BY <1>1, <1>2, <2>1, <2>2 DEF Shown, Kept
<1>7. Follows(w2, s2)
  BY <1>1, <1>3, <1>5, <1>6 DEF Follows
<1> QED BY <1>7 DEF w2, s2

LEMMA AgedUntouched ==
  ASSUME NEW w \in State, NEW s \in State, NEW r \in Request, NEW end, NEW items,
         Untouched(w, s, items)
  PROVE  Untouched(Aged(w, r, end), Aged(s, r, end), items)
BY AgedState DEF Untouched

LEMMA AgedDraft ==
  ASSUME NEW w \in State, NEW c \in Call, NEW r \in Request, NEW end,
         NEW d \in Call, DraftFollows(w, c),
         d.request = c.request, d.items = c.items,
         d.state = Aged(c.state, r, end), d.draft = Aged(c.draft, r, end)
  PROVE  DraftFollows(Aged(w, r, end), d)
<1>1. c.state \in State /\ c.draft \in State
  BY DEF Call
<1>2. /\ d.state.filed = c.state.filed /\ d.state.receipts = c.state.receipts
      /\ d.draft.filed = c.draft.filed /\ d.draft.receipts = c.draft.receipts
  BY <1>1, AgedState
<1>3. Follows(Aged(w, r, end), d.draft)
  BY <1>1, AgedFollows DEF DraftFollows
<1>4. Untouched(Aged(w, r, end), d.draft, Tail(d.items))
  BY <1>1, AgedUntouched DEF DraftFollows
<1>5. c.draft.filed \subseteq Request
  BY <1>1 DEF State
<1>6. \A q \in d.draft.filed : d.draft.status[q] \notin Asked
  BY <1>1, <1>2, <1>5, AgedStatus DEF DraftFollows
<1>7. Aged(w, r, end).status[d.request] \in Asked
  BY AgedStatus DEF DraftFollows
<1> QED BY <1>2, <1>3, <1>4, <1>6, <1>7 DEF DraftFollows

\* A handler after time passed.
AgedCopies(c, r, end) == [c EXCEPT !.state = Aged(@, r, end), !.draft = Aged(@, r, end)]

LEMMA AgedCall ==
  ASSUME NEW w \in State, NEW c \in Call, NEW r \in Request, NEW end, GoodCall(w, c)
  PROVE  AgedCopies(c, r, end) \in Call /\ GoodCall(Aged(w, r, end), AgedCopies(c, r, end))
<1> DEFINE d == AgedCopies(c, r, end)
           w2 == Aged(w, r, end)
<1>1. c.state \in State /\ c.draft \in State
  BY DEF Call
<1>2. Aged(c.state, r, end) \in State /\ Aged(c.draft, r, end) \in State
  BY <1>1, AgedState
<1>3. /\ d \in Call
      /\ d.kind = c.kind /\ d.request = c.request /\ d.items = c.items /\ d.step = c.step
      /\ d.state = Aged(c.state, r, end) /\ d.draft = Aged(c.draft, r, end)
  BY <1>2 DEF Call, AgedCopies
<1>4. /\ w2 \in State /\ Kept(w, w2)
      /\ \A q \in Request : w2.status[q] = IF q = r THEN Over(w.status[q], end) ELSE w.status[q]
  BY AgedState
<1> HIDE DEF d
<1>5. CASE c.kind \in {"present", "verify", "sync"}
  <2>1. d.state = w2
    BY <1>3, <1>5 DEF GoodCall
  <2> HIDE DEF w2
  <2>2. c.kind = "present" => d.request \in Request /\ w2.status[d.request] \in {"pending", "overdue"}
    BY <1>3, <1>4 DEF GoodCall, Over
  <2>3. c.kind = "verify" =>
          d.request \in Request /\ w2.status[d.request] \in {"submitted", "stale", "late"}
    BY <1>3, <1>4 DEF GoodCall, Over
  <2>4. GoodCall(w2, d)
    BY <1>3, <1>5, <2>1, <2>2, <2>3 DEF GoodCall
  <2> QED BY <1>3, <2>4 DEF w2, d
<1>6. CASE c.kind = "batch"
  <2>1. GoodBatch(w, c)
    BY <1>6 DEF GoodCall
  <2>2. Sound(d.state) /\ Follows(w2, d.state) /\ Untouched(w2, d.state, d.items) /\ Distinct(d.items)
    BY <1>1, <1>3, <2>1, AgedSound, AgedFollows, AgedUntouched DEF GoodBatch
  <2>3. d.state.receipts = c.state.receipts
    BY <1>1, <1>3, AgedState
  <2>4. d.items # <<>> /\ d.step # "inspect" =>
          /\ Earlier(d.state, Head(d.items)) = {}
          /\ Head(d.items).policy \notin w2.archived
          /\ Head(d.items).preview <=> Head(d.items).policy \in w2.auto
          /\ w2.active
    <3> HIDE DEF w2
    <3> QED BY <1>3, <1>4, <2>1, <2>3 DEF GoodBatch, Kept, Earlier
  <2>5. d.items # <<>> /\ d.step = "validate" => DraftFollows(w2, d)
    BY <1>3, <2>1, AgedDraft DEF GoodBatch
  <2>6. GoodBatch(w2, d)
    BY <2>2, <2>4, <2>5 DEF GoodBatch
  <2>7. GoodCall(w2, d)
    BY <1>3, <1>6, <2>6 DEF GoodCall
  <2> QED BY <1>3, <2>7 DEF w2, d
<1>7. CASE c.kind = "none"
  <2>1. GoodCall(w2, d)
    BY <1>3, <1>7 DEF GoodCall
  <2> QED BY <1>3, <2>1 DEF w2, d
<1>8. c.kind \in {"none", "batch", "present", "verify", "sync"}
  BY DEF Call
<1> QED BY <1>5, <1>6, <1>7, <1>8

-----------------------------------------------------------------------------
(***************************************************************************)
(* What a step does to the workspace, and what it takes for granted.       *)
(***************************************************************************)

\* A step from w to s is one of the ledger's, and what it files is as shown.
Fits(w, s) ==
  /\ Joins(w, s)
  /\ s.active => w.active
  /\ \A t \in s.receipts \ w.receipts : Shown(w, s, t)

Good == IInv' /\ Fits(ws, ws')

\* A workspace follows itself.
LEMMA Same == ASSUME NEW w PROVE Fits(w, w) /\ Follows(w, w)
BY DEF Fits, Follows, Kept, Joins, Allowed

\* A new workspace is sound.
LEMMA NewState == New \in State /\ Sound(New)
<1>1. New \in State
  BY DEF New, State, Status
<1>2. Sound(New)
  BY DEF New, Sound
<1> QED BY <1>1, <1>2

\* An idle handler holds nothing.
LEMMA IdleCall == Idle \in Call /\ \A w : GoodCall(w, Idle)
<1>1. Idle \in Call
  BY NewState DEF Idle, Call
<1>2. ASSUME NEW w PROVE GoodCall(w, Idle)
  BY DEF Idle, GoodCall
<1> QED BY <1>1, <1>2

LEMMA TurnGood ==
  ASSUME IInv, NEW h \in Handler, NEW c \in Call, GoodCall(ws, c), Turn(h, c)
  PROVE  Good
<1>1. /\ ws' = ws /\ issuer' = issuer
      /\ calls' \in [Handler -> Call]
      /\ \A g \in Handler : calls'[g] = IF g = h THEN c ELSE calls[g]
  BY DEF IInv, WorkspaceTypeOK, Turn
<1>2. WorkspaceTypeOK'
  BY <1>1 DEF IInv, WorkspaceTypeOK
<1>3. Sound(ws')
  BY <1>1 DEF IInv
<1>4. \A g \in Handler : GoodCall(ws', calls'[g])
  BY <1>1 DEF IInv
<1>5. Fits(ws, ws')
  BY <1>1, Same
<1>6. IInv'
  BY <1>2, <1>3, <1>4 DEF IInv
<1> QED BY <1>5, <1>6 DEF Good

LEMMA SaveGood ==
  ASSUME IInv, NEW h, NEW s \in State, Sound(s), Fits(ws, s), Save(h, s)
  PROVE  Good
<1>1. /\ ws' = s /\ issuer' = issuer
      /\ calls' \in [Handler -> Call]
      /\ \A g \in Handler : calls'[g] = Idle
  BY IdleCall DEF Save
<1>2. WorkspaceTypeOK'
  BY <1>1 DEF IInv, WorkspaceTypeOK
<1>3. \A g \in Handler : GoodCall(ws', calls'[g])
  BY <1>1, IdleCall
<1>4. IInv'
  BY <1>1, <1>2, <1>3 DEF IInv
<1> QED BY <1>1, <1>4 DEF Good

\* What is left of a batch has other targets.
LEMMA TailTargets ==
  ASSUME NEW items \in Seq(Item), items # <<>>, Distinct(items)
  PROVE  /\ Head(items) \in Item
         /\ Tail(items) \in Seq(Item)
         /\ Distinct(Tail(items))
         /\ Head(items).policy \in Targets(items)
         /\ \A p \in Targets(Tail(items)) : p \in Targets(items) /\ p # Head(items).policy
<1>1. /\ Len(items) \in Nat \ {0}
      /\ Head(items) = items[1] /\ items[1] \in Item
      /\ Tail(items) \in Seq(Item) /\ Len(Tail(items)) = Len(items) - 1
      /\ \A k \in 1..Len(Tail(items)) : Tail(items)[k] = items[k + 1]
  OBVIOUS
<1>2. Distinct(Tail(items))
  BY <1>1 DEF Distinct
<1>3. Head(items).policy \in Targets(items)
  BY <1>1 DEF Targets
<1>4. ASSUME NEW p \in Targets(Tail(items))
      PROVE  p \in Targets(items) /\ p # Head(items).policy
  <2>1. PICK k \in 1..Len(Tail(items)) : p = Tail(items)[k].policy
    BY DEF Targets
  <2>2. k + 1 \in 1..Len(items) /\ k + 1 # 1 /\ p = items[k + 1].policy
    BY <1>1, <2>1
  <2> QED BY <1>1, <2>2 DEF Targets, Distinct
<1> QED BY <1>1, <1>2, <1>3, <1>4

\* A batch that goes on keeps the invariant if what it keeps follows.
LEMMA DoneGood ==
  ASSUME NEW w \in State, NEW c \in Call, NEW s \in State, NEW ok \in BOOLEAN,
         c.kind = "batch", c.items # <<>>, Distinct(c.items),
         Sound(s), Follows(w, s), Untouched(w, s, Tail(c.items))
  PROVE  Done(c, s, ok) \in Call /\ GoodCall(w, Done(c, s, ok))
<1> DEFINE d == Done(c, s, ok)
<1>1. c.items \in Seq(Item)
  BY DEF Call
<1>2. Tail(c.items) \in Seq(Item) /\ Distinct(Tail(c.items))
  BY <1>1, TailTargets
<1>3. /\ d \in Call
      /\ d.kind = "batch" /\ d.state = s /\ d.items = Tail(c.items) /\ d.step = "inspect"
  BY <1>2 DEF Done, Call
<1> HIDE DEF d
<1>4. GoodBatch(w, d)
  BY <1>2, <1>3 DEF GoodBatch
<1>5. GoodCall(w, d)
  BY <1>3, <1>4 DEF GoodCall
<1> QED BY <1>3, <1>5 DEF d

\* A handler's call, for the lemmas of its actions.
LEMMA BatchOf ==
  ASSUME IInv, NEW h \in Handler, calls[h].kind = "batch"
  PROVE  /\ calls[h] \in Call /\ ws \in State
         /\ calls[h].state \in State /\ calls[h].draft \in State
         /\ calls[h].items \in Seq(Item)
         /\ GoodBatch(ws, calls[h])
BY DEF IInv, WorkspaceTypeOK, Call, GoodCall

-----------------------------------------------------------------------------
(***************************************************************************)
(* The items of a batch.                                                   *)
(***************************************************************************)

\* What an item leaves to the rest of its batch.
LEMMA UntouchedTail ==
  ASSUME NEW items \in Seq(Item), items # <<>>, Distinct(items),
         NEW w, NEW s, Untouched(w, s, items)
  PROVE  Untouched(w, s, Tail(items))
BY TailTargets DEF Untouched

LEMMA SubmitGood ==
  ASSUME IInv, WorkspaceAssumption, NEW h \in Handler, SubmitApplications(h)
  PROVE  Good
<1>1. PICK items \in Batches :
        Turn(h, [Idle EXCEPT !.kind = "batch", !.state = ws, !.draft = ws, !.items = items])
  BY DEF SubmitApplications, Read
<1> DEFINE c == [Idle EXCEPT !.kind = "batch", !.state = ws, !.draft = ws, !.items = items]
<1>2. items \in Seq(Item) /\ Distinct(items)
  <2>1. CASE \E i \in Item : items = <<i>>
    BY <2>1 DEF Distinct
  <2>2. CASE \E i, j \in Item : items = <<i, j>> /\ i.policy # j.policy
    <3>1. PICK i \in Item, j \in Item : items = <<i, j>> /\ i.policy # j.policy
      BY <2>2
    <3>2. Len(items) = 2 /\ items[1] = i /\ items[2] = j /\ items \in Seq(Item)
      BY <3>1
    <3> QED BY <3>1, <3>2 DEF Distinct
  <2> QED BY <2>1, <2>2 DEF Batches
<1>3. ws \in State /\ Sound(ws)
  BY DEF IInv, WorkspaceTypeOK
<1>4. Idle \in Call
  BY IdleCall
<1>5. /\ c \in Call
      /\ c.kind = "batch" /\ c.state = ws /\ c.items = items /\ c.step = "inspect"
  BY <1>2, <1>3, <1>4 DEF Call, Idle
<1> HIDE DEF c
<1>6. Follows(ws, ws) /\ Untouched(ws, ws, items)
  BY Same DEF Untouched
<1>7. GoodBatch(ws, c)
  BY <1>2, <1>3, <1>5, <1>6 DEF GoodBatch
<1>8. GoodCall(ws, c)
  BY <1>5, <1>7 DEF GoodCall
<1>9. Turn(h, c)
  BY <1>1 DEF c
<1> QED BY <1>5, <1>8, <1>9, TurnGood

\* An item that is answered without a change, or throws.
LEMMA PassedGood ==
  ASSUME IInv, NEW h \in Handler, NEW ok \in BOOLEAN,
         calls[h].kind = "batch", calls[h].items # <<>>,
         Turn(h, Done(calls[h], calls[h].state, ok))
  PROVE  Good
<1> DEFINE c == calls[h]
<1>1. c \in Call /\ ws \in State /\ c.state \in State /\ c.items \in Seq(Item) /\ GoodBatch(ws, c)
  BY BatchOf
<1>2. Sound(c.state) /\ Follows(ws, c.state) /\ Distinct(c.items) /\ Untouched(ws, c.state, c.items)
  BY <1>1 DEF GoodBatch
<1>3. Untouched(ws, c.state, Tail(c.items))
  BY <1>1, <1>2, UntouchedTail
<1>4. Done(c, c.state, ok) \in Call /\ GoodCall(ws, Done(c, c.state, ok))
  BY <1>1, <1>2, <1>3, DoneGood
<1> QED BY <1>4, TurnGood

LEMMA ReplayGood ==
  ASSUME IInv, NEW h \in Handler, Replay(h)
  PROVE  Good
<1>1. /\ calls[h].kind = "batch" /\ calls[h].items # <<>>
      /\ Turn(h, Done(calls[h], calls[h].state, TRUE))
  BY DEF Replay, Working, Accept
<1> QED BY <1>1, PassedGood

LEMMA FailItemGood ==
  ASSUME IInv, NEW h \in Handler, FailItem(h)
  PROVE  Good
<1>1. /\ calls[h].kind = "batch" /\ calls[h].items # <<>>
      /\ Turn(h, Done(calls[h], calls[h].state, calls[h].ok))
  BY DEF FailItem
<1>2. calls[h].ok \in BOOLEAN
  BY <1>1, BatchOf DEF Call
<1> QED BY <1>1, <1>2, PassedGood

LEMMA InspectGood ==
  ASSUME IInv, NEW h \in Handler, Inspect(h)
  PROVE  Good
<1> DEFINE c == calls[h]
           d == [c EXCEPT !.step = "file"]
<1>1. /\ c.kind = "batch" /\ c.items # <<>>
      /\ Ready(c.state, Head(c.items))
      /\ Turn(h, d)
  BY DEF Inspect, Working
<1>2. c \in Call /\ GoodBatch(ws, c)
  BY <1>1, BatchOf
<1>3. /\ d \in Call
      /\ d.kind = c.kind /\ d.state = c.state /\ d.items = c.items /\ d.step = "file"
  BY <1>2 DEF Call
<1> HIDE DEF d
<1>4. Kept(ws, c.state)
  BY <1>2 DEF GoodBatch, Follows
<1>5. /\ Earlier(d.state, Head(d.items)) = {}
      /\ Head(d.items).policy \notin ws.archived
      /\ Head(d.items).preview <=> Head(d.items).policy \in ws.auto
      /\ ws.active
  BY <1>1, <1>3, <1>4 DEF Ready, Valid, Kept
<1>6. GoodBatch(ws, d)
  BY <1>2, <1>3, <1>5 DEF GoodBatch
<1>7. GoodCall(ws, d)
  BY <1>1, <1>3, <1>6 DEF GoodCall
<1> QED BY <1>1, <1>3, <1>7, TurnGood DEF d

-----------------------------------------------------------------------------
(***************************************************************************)
(* A request is presented.                                                 *)
(***************************************************************************)

\* Which requests an application may take up.
LEMMA ChosenRequest ==
  ASSUME NEW s \in State, NEW p, NEW r \in Chosen(s, p)
  PROVE  r \in Request /\ PolicyOf[r] = p /\ s.status[r] \in {"absent", "pending"}
<1>1. Reusable(s, p) \subseteq Request
  BY DEF Reusable, Having
<1>2. CASE r \in Reusable(s, p)
  BY <1>2 DEF Reusable, Having
<1>3. CASE r \in Fresh(s, p)
  <2>1. r \in Unused(s, p)
    BY <1>3 DEF Fresh
  <2> QED BY <2>1 DEF Unused, Having
<1> QED BY <1>2, <1>3 DEF Chosen

LEMMA PresentedState ==
  ASSUME NEW s \in State, NEW p, NEW r \in Request
  PROVE  /\ Presented(s, p, r) \in State
         /\ Kept(s, Presented(s, p, r))
         /\ Presented(s, p, r).filed = s.filed \cup {r}
         /\ Presented(s, p, r).receipts = s.receipts
         /\ \A q \in Request :
              Presented(s, p, r).status[q] = IF q = r THEN "submitted"
                                             ELSE IF q \in Lapsed(s, p) THEN "closed"
                                             ELSE s.status[q]
<1> DEFINE status == [q \in Request |-> IF q = r THEN "submitted"
                                        ELSE IF q \in Lapsed(s, p) THEN "closed"
                                        ELSE s.status[q]]
<1>1. status \in [Request -> Status]
  BY DEF State, Status
<1>2. Presented(s, p, r) = [s EXCEPT !.status = status, !.filed = @ \cup {r}]
  BY DEF Presented
<1>3. \A q \in Request : status[q] = IF q = r THEN "submitted"
                                     ELSE IF q \in Lapsed(s, p) THEN "closed"
                                     ELSE s.status[q]
  OBVIOUS
<1> HIDE DEF status
<1>4. s.filed \cup {r} \in SUBSET Request
  BY DEF State
<1> DEFINE filed == s.filed \cup {r}
<1>5. Presented(s, p, r) = [s EXCEPT !.status = status, !.filed = filed]
  BY <1>2 DEF State
<1> HIDE DEF filed
<1>6. /\ Presented(s, p, r) \in State
      /\ Presented(s, p, r).status = status
      /\ Presented(s, p, r).filed = filed
      /\ Presented(s, p, r).receipts = s.receipts
      /\ Kept(s, Presented(s, p, r))
  BY <1>1, <1>4, <1>5 DEF State, Kept, filed
<1> QED BY <1>3, <1>6 DEF filed

\* The draft of an item: nothing of its policy stays open but what it presents.
LEMMA PresentedFollows ==
  ASSUME NEW w \in State, NEW s \in State, NEW p, NEW r \in Chosen(s, p),
         Sound(s), Follows(w, s), w.active, Standing(s, p) = {},
         \A q \in Request : PolicyOf[q] = p => s.status[q] = w.status[q]
  PROVE  Follows(w, Presented(s, p, r))
<1> DEFINE d == Presented(s, p, r)
<1>1. r \in Request /\ PolicyOf[r] = p /\ s.status[r] \in {"absent", "pending"}
  BY ChosenRequest
<1>2. /\ d \in State /\ Kept(s, d)
      /\ d.filed = s.filed \cup {r} /\ d.receipts = s.receipts
      /\ \A q \in Request : d.status[q] = IF q = r THEN "submitted"
                                          ELSE IF q \in Lapsed(s, p) THEN "closed"
                                          ELSE s.status[q]
  BY <1>1, PresentedState
<1> HIDE DEF d
<1>3. \A q \in Request : s.status[q] \in Status
  BY DEF State
<1>4. \A q \in Lapsed(s, p) : /\ q \in Request /\ PolicyOf[q] = p
                               /\ s.status[q] \in {"overdue", "stale", "late"}
  BY DEF Lapsed, Having
<1>5. \A q \in Request : PolicyOf[q] # p => d.status[q] = s.status[q]
  BY <1>1, <1>2, <1>4
<1>6. ASSUME NEW q \in Request, PolicyOf[q] = p, q # r
      PROVE  Stage(d.status[q]) \notin Ledger!Open
  <2>1. s.status[q] \notin {"submitted", "verified"}
    BY <1>6 DEF Standing, Having
  <2>2. CASE q \in Lapsed(s, p)
    <3>1. d.status[q] = "closed"
      BY <1>2, <1>6, <2>2
    <3> QED BY <3>1 DEF Stage, Ledger!Open
  <2>3. CASE q \notin Lapsed(s, p)
    <3>1. d.status[q] = s.status[q] /\ s.status[q] \notin {"overdue", "stale", "late"}
      BY <1>2, <1>6, <2>3 DEF Lapsed, Having
    <3> QED BY <1>3, <2>1, <3>1 DEF Stage, Status, Ledger!Open
  <2> QED BY <2>2, <2>3
<1>7. Kept(w, s) /\ Joins(w, s) /\ \A t \in s.receipts \ w.receipts : Shown(w, s, t)
  BY DEF Follows
<1>8. ASSUME NEW q \in Request PROVE Allowed(w.active, w.status[q], d.status[q])
  <2>1. Allowed(w.active, w.status[q], s.status[q])
    BY <1>7 DEF Joins
  <2>2. CASE q = r
    <3>1. w.status[q] \in {"absent", "pending"} /\ d.status[q] = "submitted"
      BY <1>1, <1>2, <2>2
    <3> QED BY <3>1 DEF Allowed, Stage, Ledger!Moves, Ledger!Judged
  <2>3. CASE q # r /\ q \in Lapsed(s, p)
    <3>1. w.status[q] \in {"overdue", "stale", "late"} /\ d.status[q] = "closed"
      BY <1>2, <1>4, <2>3
    <3> QED BY <3>1 DEF Allowed, Stage, Ledger!Moves, Ledger!Judged
  <2>4. CASE q # r /\ q \notin Lapsed(s, p)
    BY <1>2, <2>1, <2>4
  <2> QED BY <2>2, <2>3, <2>4
<1>9. ASSUME NEW q \in d.filed \ w.filed PROVE FiledIn(w, d, q)
  <2>1. CASE q = r
    <3>1. w.status[q] \in Asked
      BY <1>1, <2>1 DEF Asked
    <3>2. Stage(d.status[q]) \notin {"none", "asked", "closed"}
      BY <1>1, <1>2, <2>1 DEF Stage
    <3> QED BY <1>1, <1>6, <2>1, <3>1, <3>2 DEF FiledIn
  <2>2. CASE q # r
    <3>1. q \in Request /\ q \in s.filed /\ FiledIn(w, s, q)
      BY <1>2, <1>7, <2>2 DEF Joins, State
    <3>2. PolicyOf[q] # p
      BY <3>1 DEF FiledIn, Sound
    <3> QED BY <1>5, <3>1, <3>2 DEF FiledIn
  <2> QED BY <2>1, <2>2
<1>10. Joins(w, d)
  BY <1>2, <1>7, <1>8, <1>9 DEF Joins
<1>11. ASSUME NEW t \in d.receipts \ w.receipts PROVE Shown(w, d, t)
  <2>1. t \in s.receipts /\ t.request \in Request /\ Shown(w, s, t)
    BY <1>2, <1>7 DEF State, Receipt
  <2>2. t.request \in s.filed
    BY <2>1 DEF Sound
  <2>3. t.request # r
    BY <1>1, <2>2 DEF Sound, Asked
  <2>4. d.status[t.request] \in Decided <=> s.status[t.request] \in Decided
    BY <1>2, <1>4, <2>1, <2>3 DEF Decided
  <2> QED BY <2>1, <2>4 DEF Shown
<1>12. Kept(w, d)
  BY <1>2, <1>7 DEF Kept
<1>13. Follows(w, d)
  BY <1>10, <1>11, <1>12 DEF Follows
<1> QED BY <1>13 DEF d

\* A receipt for the request that was just filed.
LEMMA ReceiveGood ==
  ASSUME NEW w \in State, NEW s \in State, NEW d \in State, NEW i \in Item, NEW r \in Request,
         Sound(s), Earlier(s, i) = {}, r \notin s.filed,
         Follows(w, d), d.receipts = s.receipts, d.filed = s.filed \cup {r},
         \A q \in d.filed : d.status[q] \notin Asked,
         Shown(w, d, [item |-> i, request |-> r])
  PROVE  /\ Receive(d, i, r) \in State
         /\ Receive(d, i, r).status = d.status
         /\ Sound(Receive(d, i, r))
         /\ Follows(w, Receive(d, i, r))
<1> DEFINE e == Receive(d, i, r)
           t == [item |-> i, request |-> r]
<1>1. t \in Receipt /\ t.item = i /\ t.request = r
  BY DEF Receipt
<1> HIDE DEF t
<1>2. e = [d EXCEPT !.receipts = @ \cup {t}]
  BY DEF Receive, t
<1>3. /\ e \in State /\ Kept(d, e)
      /\ e.status = d.status /\ e.filed = d.filed /\ e.receipts = d.receipts \cup {t}
  BY <1>1, <1>2 DEF State, Kept
<1> HIDE DEF e
<1>4. e.filed = {u.request : u \in e.receipts}
  BY <1>1, <1>3 DEF Sound
<1>5. \A u \in s.receipts : u.item.key # i.key /\ u.request # r
  BY DEF Earlier, Sound
<1>6. \A u, v \in e.receipts :
        u.item.key = v.item.key \/ u.request = v.request => u = v
  BY <1>1, <1>3, <1>5 DEF Sound
<1>7. Sound(e)
  BY <1>3, <1>4, <1>6 DEF Sound
<1>8. Kept(w, d) /\ Joins(w, d) /\ \A u \in d.receipts \ w.receipts : Shown(w, d, u)
  BY DEF Follows
<1>9. Kept(w, e)
  BY <1>3, <1>8 DEF Kept
<1>10. Joins(w, e)
  BY <1>3, <1>8 DEF Joins, FiledIn
<1>11. \A u \in e.receipts \ w.receipts : Shown(w, e, u)
  BY <1>3, <1>8 DEF Shown, t
<1>12. Follows(w, e)
  BY <1>9, <1>10, <1>11 DEF Follows
<1> QED BY <1>3, <1>7, <1>12 DEF e

\* The rest of the batch does not see what an item of another policy changed.
LEMMA OtherTargets ==
  ASSUME NEW w, NEW s, NEW d, NEW items \in Seq(Item), items # <<>>, Distinct(items),
         Untouched(w, s, items),
         \A q \in Request : PolicyOf[q] # Head(items).policy => d.status[q] = s.status[q]
  PROVE  Untouched(w, d, Tail(items))
BY TailTargets DEF Untouched

LEMMA FileGood ==
  ASSUME IInv, NEW h \in Handler, File(h)
  PROVE  Good
<1> DEFINE c == calls[h]
           s == c.state
           i == Head(c.items)
           p == i.policy
<1>1. /\ c.kind = "batch" /\ c.items # <<>> /\ c.step = "file"
      /\ Standing(s, p) = {}
  BY DEF File, Working
<1>2. PICK r \in Chosen(s, p) :
        IF i.preview
          THEN Turn(h, [c EXCEPT !.draft = Presented(s, p, r), !.request = r, !.step = "validate"])
          ELSE Turn(h, Done(c, Receive(Presented(s, p, r), i, r), TRUE))
  BY DEF File, Accept
<1> DEFINE d == Presented(s, p, r)
<1>3. /\ c \in Call /\ ws \in State /\ s \in State /\ c.items \in Seq(Item)
      /\ GoodBatch(ws, c)
  BY <1>1, BatchOf
<1>4. /\ Sound(s) /\ Follows(ws, s) /\ Distinct(c.items) /\ Untouched(ws, s, c.items)
      /\ Earlier(s, i) = {}
      /\ p \notin ws.archived
      /\ i.preview <=> p \in ws.auto
      /\ ws.active
  BY <1>1, <1>3 DEF GoodBatch
<1>5. /\ i \in Item /\ Tail(c.items) \in Seq(Item) /\ p \in Targets(c.items)
  BY <1>1, <1>3, <1>4, TailTargets
<1> HIDE DEF c, s, i, p
<1>6. r \in Request /\ PolicyOf[r] = p /\ s.status[r] \in {"absent", "pending"}
  BY <1>3, ChosenRequest
<1>7. \A q \in Request : PolicyOf[q] = p => s.status[q] = ws.status[q]
  BY <1>4, <1>5 DEF Untouched
<1>8. Follows(ws, d)
  BY <1>1, <1>3, <1>4, <1>7, PresentedFollows
<1>9. /\ d \in State
      /\ d.filed = s.filed \cup {r} /\ d.receipts = s.receipts
      /\ \A q \in Request : d.status[q] = IF q = r THEN "submitted"
                                          ELSE IF q \in Lapsed(s, p) THEN "closed"
                                          ELSE s.status[q]
  BY <1>3, <1>6, PresentedState
<1> HIDE DEF d
<1>10. r \notin s.filed
  BY <1>4, <1>6 DEF Sound, Asked
<1>11. \A q \in d.filed : d.status[q] \notin Asked
  <2>1. s.filed \subseteq Request
    BY <1>3 DEF State
  <2> QED BY <1>4, <1>6, <1>9, <2>1 DEF Sound, Asked
<1>12. Untouched(ws, d, Tail(c.items))
  <2>1. \A q \in Lapsed(s, p) : PolicyOf[q] = p
    BY DEF Lapsed, Having
  <2>2. \A q \in Request : PolicyOf[q] # p => d.status[q] = s.status[q]
    BY <1>6, <1>9, <2>1
  <2> QED BY <1>1, <1>3, <1>4, <2>2, OtherTargets DEF i, p
<1>13. ws.status[r] \in Asked
  BY <1>6, <1>7 DEF Asked
<1>14. CASE i.preview
  <2> DEFINE e == [c EXCEPT !.draft = d, !.request = r, !.step = "validate"]
  <2>1. /\ e \in Call
        /\ e.kind = c.kind /\ e.state = s /\ e.items = c.items
        /\ e.draft = d /\ e.request = r /\ e.step = "validate"
    BY <1>3, <1>6, <1>9 DEF Call, s
  <2> HIDE DEF e
  <2>2. DraftFollows(ws, e)
    BY <1>6, <1>8, <1>9, <1>10, <1>11, <1>12, <1>13, <1>14, <2>1 DEF DraftFollows, i
  <2>3. GoodBatch(ws, e)
    BY <1>4, <2>1, <2>2 DEF GoodBatch, i, p
  <2>4. GoodCall(ws, e)
    BY <1>1, <2>1, <2>3 DEF GoodCall
  <2>5. Turn(h, e)
    BY <1>2, <1>14 DEF e, d
  <2> QED BY <2>1, <2>4, <2>5, TurnGood
<1>15. CASE ~i.preview
  <2> DEFINE t == [item |-> i, request |-> r]
             e == Receive(d, i, r)
  <2>1. d.status[r] = "submitted"
    BY <1>6, <1>9
  <2>2. Shown(ws, d, t)
    BY <1>4, <1>15, <2>1 DEF Shown, Decided, p
  <2>3. e \in State /\ e.status = d.status /\ Sound(e) /\ Follows(ws, e)
    BY <1>3, <1>4, <1>5, <1>6, <1>8, <1>9, <1>10, <1>11, <2>2, ReceiveGood
  <2> HIDE DEF e
  <2>4. Untouched(ws, e, Tail(c.items))
    BY <1>12, <2>3 DEF Untouched
  <2>5. Done(c, e, TRUE) \in Call /\ GoodCall(ws, Done(c, e, TRUE))
    BY <1>1, <1>3, <1>4, <2>3, <2>4, DoneGood
  <2>6. Turn(h, Done(c, e, TRUE))
    BY <1>2, <1>15 DEF d, e
  <2> QED BY <2>5, <2>6, TurnGood
<1> QED BY <1>14, <1>15

\* One status is set.
Ruled(s, r, status) == [s EXCEPT !.status[r] = status]

\* The verdict on a draft.
LEMMA JudgedFollows ==
  ASSUME NEW w \in State, NEW d \in State, NEW r \in Request, NEW v \in {"verified", "rejected"},
         Follows(w, d), w.active, w.status[r] \in Asked, d.status[r] = "submitted",
         r \in d.filed, \A q \in d.filed : d.status[q] \notin Asked,
         \A t \in d.receipts : t.request # r
  PROVE  LET e == Ruled(d, r, v)
         IN  /\ e \in State /\ Follows(w, e)
             /\ e.filed = d.filed /\ e.receipts = d.receipts
             /\ \A q \in Request : e.status[q] = IF q = r THEN v ELSE d.status[q]
             /\ \A q \in e.filed : e.status[q] \notin Asked
<1> DEFINE status == [d.status EXCEPT ![r] = v]
           e == [d EXCEPT !.status = status]
<1>1. status \in [Request -> Status]
  BY DEF State, Status
<1>2. \A q \in Request : status[q] = IF q = r THEN v ELSE d.status[q]
  BY DEF State
<1> HIDE DEF status
<1>3. /\ e \in State /\ Kept(d, e)
      /\ e.status = status /\ e.filed = d.filed /\ e.receipts = d.receipts
  BY <1>1 DEF State, Kept
<1>4. e = Ruled(d, r, v)
  BY DEF status, State, Ruled
<1> HIDE DEF e
<1>5. \A q \in Request : e.status[q] = IF q = r THEN v ELSE d.status[q]
  BY <1>2, <1>3
<1>6. Kept(w, d) /\ Joins(w, d) /\ \A t \in d.receipts \ w.receipts : Shown(w, d, t)
  BY DEF Follows
<1>7. ASSUME NEW q \in Request PROVE Allowed(w.active, w.status[q], e.status[q])
  <2>1. CASE q = r
    <3>1. e.status[q] = v
      BY <1>5, <2>1
    <3> QED BY <2>1, <3>1 DEF Allowed, Asked, Stage, Ledger!Moves, Ledger!Judged
  <2>2. CASE q # r
    BY <1>5, <1>6, <2>2 DEF Joins
  <2> QED BY <2>1, <2>2
<1>8. \A q \in d.filed \ w.filed : q \in Request /\ FiledIn(w, d, q)
  BY <1>6 DEF Joins, State
<1>9. Stage("submitted") \in Ledger!Open
  BY DEF Stage, Ledger!Open
<1>10. ASSUME NEW q \in e.filed \ w.filed PROVE FiledIn(w, e, q)
  <2>1. q \in Request /\ FiledIn(w, d, q)
    BY <1>3, <1>8
  <2>2. CASE q = r
    <3>1. Stage(e.status[q]) \notin {"none", "asked", "closed"}
      BY <1>5, <2>1, <2>2 DEF Stage
    <3>2. \A x \in Request \ {q} : e.status[x] = d.status[x]
      BY <1>5, <2>2
    <3> QED BY <2>1, <3>1, <3>2 DEF FiledIn
  <2>3. CASE q # r
    <3>1. PolicyOf[q] # PolicyOf[r]
      BY <1>9, <2>1, <2>3 DEF FiledIn
    <3>2. e.status[q] = d.status[q]
      BY <1>5, <2>1, <2>3
    <3>3. \A x \in Request \ {q} : PolicyOf[x] = PolicyOf[q] => e.status[x] = d.status[x]
      BY <1>5, <3>1
    <3> QED BY <2>1, <3>2, <3>3 DEF FiledIn
  <2> QED BY <2>2, <2>3
<1>11. Joins(w, e)
  BY <1>3, <1>6, <1>7, <1>10 DEF Joins
<1>12. ASSUME NEW t \in e.receipts \ w.receipts PROVE Shown(w, e, t)
  <2>1. t \in d.receipts \ w.receipts /\ t.request \in Request /\ t.request # r
    BY <1>3 DEF State, Receipt
  <2>2. Shown(w, d, t) /\ e.status[t.request] = d.status[t.request]
    BY <1>5, <1>6, <2>1
  <2> QED BY <2>2 DEF Shown
<1>13. Kept(w, e)
  BY <1>3, <1>6 DEF Kept
<1>14. Follows(w, e)
  BY <1>11, <1>12, <1>13 DEF Follows
<1>15. \A q \in e.filed : e.status[q] \notin Asked
  <2>1. d.filed \subseteq Request
    BY DEF State
  <2> QED BY <1>3, <1>5, <2>1 DEF Asked
<1> QED BY <1>3, <1>4, <1>5, <1>14, <1>15

LEMMA ValidateGood ==
  ASSUME IInv, NEW h \in Handler, Validate(h)
  PROVE  Good
<1> DEFINE c == calls[h]
           s == c.state
           d == c.draft
           r == c.request
           i == Head(c.items)
           e == Ruled(d, r, Verdict(r))
           f == Receive(e, i, r)
<1>1. /\ c.kind = "batch" /\ c.items # <<>> /\ c.step = "validate"
      /\ d.status[r] = "submitted"
      /\ Turn(h, Done(c, f, TRUE))
  BY DEF Validate, Working, Accept, Ruled
<1>2. /\ c \in Call /\ ws \in State /\ s \in State /\ d \in State /\ c.items \in Seq(Item)
      /\ GoodBatch(ws, c)
  BY <1>1, BatchOf
<1>3. /\ Sound(s) /\ Distinct(c.items)
      /\ Earlier(s, i) = {}
      /\ i.policy \notin ws.archived
      /\ i.preview <=> i.policy \in ws.auto
      /\ ws.active
      /\ DraftFollows(ws, c)
  BY <1>1, <1>2 DEF GoodBatch
<1>4. i \in Item
  BY <1>1, <1>2, <1>3, TailTargets
<1>5. /\ r \in Request /\ r \notin s.filed
      /\ Follows(ws, d) /\ d.receipts = s.receipts /\ d.filed = s.filed \cup {r}
      /\ \A q \in d.filed : d.status[q] \notin Asked
      /\ Untouched(ws, d, Tail(c.items))
      /\ ws.status[r] \in Asked /\ i.preview
  BY <1>3 DEF DraftFollows
<1>6. Verdict(r) \in {"verified", "rejected"}
  BY DEF Verdict
<1> DEFINE v == Verdict(r)
<1> HIDE DEF c, s, d, r, i, v
<1>7. \A t \in d.receipts : t.request # r
  BY <1>3, <1>5 DEF Sound
<1>8. r \in d.filed
  BY <1>5
<1>9. /\ e \in State /\ Follows(ws, e)
      /\ e.filed = d.filed /\ e.receipts = d.receipts
      /\ \A q \in Request : e.status[q] = IF q = r THEN v ELSE d.status[q]
      /\ \A q \in e.filed : e.status[q] \notin Asked
  BY <1>1, <1>2, <1>3, <1>5, <1>6, <1>7, <1>8, JudgedFollows DEF v
<1> HIDE DEF e
<1> DEFINE t == [item |-> i, request |-> r]
<1>10. Shown(ws, e, t)
  <2>1. e.status[r] \in Decided
    BY <1>5, <1>6, <1>9 DEF Decided, v
  <2> QED BY <1>3, <1>5, <2>1 DEF Shown
<1>11. f \in State /\ f.status = e.status /\ Sound(f) /\ Follows(ws, f)
  BY <1>2, <1>3, <1>4, <1>5, <1>9, <1>10, ReceiveGood
<1> HIDE DEF f
<1>12. PolicyOf[r] \notin Targets(Tail(c.items))
  BY <1>1, <1>5 DEF Untouched, Asked
<1>13. Untouched(ws, f, Tail(c.items))
  BY <1>5, <1>9, <1>11, <1>12 DEF Untouched
<1>14. Done(c, f, TRUE) \in Call /\ GoodCall(ws, Done(c, f, TRUE))
  BY <1>1, <1>2, <1>3, <1>11, <1>13, DoneGood
<1> QED BY <1>1, <1>14, TurnGood DEF c

-----------------------------------------------------------------------------
(***************************************************************************)
(* What is saved.                                                          *)
(***************************************************************************)

LEMMA SaveApplicationsGood ==
  ASSUME IInv, NEW h \in Handler, SaveApplications(h)
  PROVE  Good
<1>1. calls[h].kind = "batch" /\ Save(h, calls[h].state)
  BY DEF SaveApplications
<1>2. calls[h].state \in State /\ GoodBatch(ws, calls[h])
  BY <1>1, BatchOf
<1>3. Sound(calls[h].state) /\ Fits(ws, calls[h].state)
  BY <1>2 DEF GoodBatch, Follows, Fits, Kept
<1> QED BY <1>1, <1>2, <1>3, SaveGood

\* One request's status, if the ledger allows it.
LEMMA RuledFits ==
  ASSUME NEW w \in State, Sound(w), NEW r \in Request, NEW x \in Status,
         Allowed(w.active, w.status[r], x), r \in w.filed => x \notin Asked
  PROVE  Ruled(w, r, x) \in State /\ Sound(Ruled(w, r, x)) /\ Fits(w, Ruled(w, r, x))
<1> DEFINE status == [w.status EXCEPT ![r] = x]
           s == Ruled(w, r, x)
<1>1. /\ status \in [Request -> Status]
      /\ \A q \in Request : status[q] = IF q = r THEN x ELSE w.status[q]
  BY DEF State
<1>2. s = [w EXCEPT !.status = status]
  BY DEF Ruled, State
<1> HIDE DEF status, s
<1>3. /\ s \in State
      /\ s.status = status /\ s.filed = w.filed /\ s.receipts = w.receipts /\ s.active = w.active
  BY <1>1, <1>2 DEF State
<1>4. \A q \in s.filed : q \in Request /\ s.status[q] \notin Asked
  BY <1>1, <1>3 DEF Sound, State
<1>5. Sound(s)
  BY <1>3, <1>4 DEF Sound
<1>6. \A q \in Request : Allowed(w.active, w.status[q], s.status[q])
  BY <1>1, <1>3 DEF Allowed
<1>7. Joins(w, s)
  BY <1>3, <1>6 DEF Joins
<1>8. Fits(w, s)
  BY <1>3, <1>7 DEF Fits
<1> QED BY <1>3, <1>5, <1>8 DEF s

\* Anything else but the applications.
LEMMA SettingFits ==
  ASSUME NEW w \in State, Sound(w), NEW s \in State,
         s.status = w.status, s.filed = w.filed, s.receipts = w.receipts, s.active => w.active
  PROVE  Sound(s) /\ Fits(w, s)
<1>1. Sound(s)
  BY DEF Sound
<1>2. Joins(w, s)
  BY DEF Joins, Allowed
<1>3. Fits(w, s)
  BY <1>2 DEF Fits
<1> QED BY <1>1, <1>3

\* A handler that opened a request for itself.
LEMMA BeganGood ==
  ASSUME IInv, NEW h \in Handler, NEW kind \in {"present", "verify"}, NEW r \in Request,
         Turn(h, [Idle EXCEPT !.kind = kind, !.state = ws, !.request = r]),
         kind = "present" => ws.status[r] = "pending",
         kind = "verify" => ws.status[r] = "submitted"
  PROVE  Good
<1> DEFINE c == [Idle EXCEPT !.kind = kind, !.state = ws, !.request = r]
<1>1. ws \in State /\ Idle \in Call
  BY IdleCall DEF IInv, WorkspaceTypeOK
<1>2. c \in Call /\ c.kind = kind /\ c.state = ws /\ c.request = r
  BY <1>1 DEF Call
<1> HIDE DEF c
<1>3. GoodCall(ws, c)
  BY <1>2 DEF GoodCall
<1> QED BY <1>2, <1>3, TurnGood DEF c

LEMMA BeginPresentGood ==
  ASSUME IInv, NEW h \in Handler, BeginPresent(h)
  PROVE  Good
BY BeganGood DEF BeginPresent, Read

LEMMA BeginVerifyGood ==
  ASSUME IInv, NEW h \in Handler, BeginVerify(h)
  PROVE  Good
BY BeganGood DEF BeginVerify, Read

\* A call that acts on the workspace as it is stored.
LEMMA CurrentCall ==
  ASSUME IInv, NEW h \in Handler
  PROVE  /\ ws \in State /\ Sound(ws)
         /\ calls[h].kind \in {"present", "verify", "sync"} => calls[h].state = ws
         /\ calls[h].kind = "present" =>
              calls[h].request \in Request /\ ws.status[calls[h].request] \in {"pending", "overdue"}
         /\ calls[h].kind = "verify" =>
              /\ calls[h].request \in Request
              /\ ws.status[calls[h].request] \in {"submitted", "stale", "late"}
BY DEF IInv, WorkspaceTypeOK, GoodCall

LEMMA PresentGood ==
  ASSUME IInv, NEW h \in Handler, Present(h)
  PROVE  Good
<1> DEFINE r == calls[h].request
           x == IF ws.status[r] = "overdue" THEN "late" ELSE "submitted"
<1>1. calls[h].kind = "present" /\ Valid(calls[h].state)
  BY DEF Present
<1>2. /\ ws \in State /\ Sound(ws) /\ calls[h].state = ws
      /\ r \in Request /\ ws.status[r] \in {"pending", "overdue"}
  BY <1>1, CurrentCall
<1>3. Save(h, Ruled(ws, r, x))
  BY <1>2 DEF Present, Ruled, State
<1>4. ws.active
  BY <1>1, <1>2 DEF Valid
<1> HIDE DEF r
<1>5. x \in Status /\ x \notin Asked /\ Allowed(ws.active, ws.status[r], x)
  BY <1>2, <1>4 DEF Status, Asked, Allowed, Stage, Ledger!Moves, Ledger!Judged
<1> HIDE DEF x
<1>6. Ruled(ws, r, x) \in State /\ Sound(Ruled(ws, r, x)) /\ Fits(ws, Ruled(ws, r, x))
  BY <1>2, <1>5, RuledFits
<1> QED BY <1>3, <1>6, SaveGood

LEMMA VerifyPresentationGood ==
  ASSUME IInv, NEW h \in Handler, VerifyPresentation(h)
  PROVE  Good
<1> DEFINE r == calls[h].request
           x == IF ws.status[r] = "late" /\ Verdict(r) = "verified" THEN "past" ELSE Verdict(r)
<1>1. calls[h].kind = "verify" /\ Valid(calls[h].state)
  BY DEF VerifyPresentation
<1>2. /\ ws \in State /\ Sound(ws) /\ calls[h].state = ws
      /\ r \in Request /\ ws.status[r] \in {"submitted", "stale", "late"}
  BY <1>1, CurrentCall
<1>3. Save(h, Ruled(ws, r, x))
  BY <1>2 DEF VerifyPresentation, Ruled, State
<1>4. ws.active
  BY <1>1, <1>2 DEF Valid
<1>5. x \in {"verified", "rejected", "past"}
  BY DEF Verdict
<1> HIDE DEF r, x
<1>6. x \in Status /\ x \notin Asked /\ Allowed(ws.active, ws.status[r], x)
  BY <1>2, <1>4, <1>5 DEF Status, Asked, Allowed, Stage, Ledger!Moves, Ledger!Judged
<1>7. Ruled(ws, r, x) \in State /\ Sound(Ruled(ws, r, x)) /\ Fits(ws, Ruled(ws, r, x))
  BY <1>2, <1>6, RuledFits
<1> QED BY <1>3, <1>7, SaveGood

LEMMA CreateRequestGood ==
  ASSUME IInv, NEW p, CreateRequest(p)
  PROVE  Good
<1>1. PICK r \in Fresh(ws, p) : Save(Page, Ruled(ws, r, "pending"))
  BY DEF CreateRequest, SaveNow, Ruled
<1>2. r \in Request /\ ws.status[r] = "absent"
  <2>1. r \in Unused(ws, p)
    BY <1>1 DEF Fresh
  <2> QED BY <2>1 DEF Unused, Having
<1>3. ws \in State /\ Sound(ws)
  BY DEF IInv, WorkspaceTypeOK
<1>4. r \notin ws.filed
  BY <1>2, <1>3 DEF Sound, Asked
<1>5. Allowed(ws.active, ws.status[r], "pending")
  BY <1>2 DEF Allowed, Stage, Ledger!Moves, Ledger!Judged
<1>6. /\ Ruled(ws, r, "pending") \in State
      /\ Sound(Ruled(ws, r, "pending")) /\ Fits(ws, Ruled(ws, r, "pending"))
  BY <1>2, <1>3, <1>4, <1>5, RuledFits DEF Status
<1> QED BY <1>1, <1>6, SaveGood

LEMMA CancelRequestGood ==
  ASSUME IInv, NEW r \in Request, CancelRequest(r)
  PROVE  Good
<1>1. /\ ws.status[r] \in {"pending", "overdue", "submitted", "stale", "late"}
      /\ Save(Page, Ruled(ws, r, "closed"))
  BY DEF CancelRequest, SaveNow, Ruled
<1>2. ws \in State /\ Sound(ws)
  BY DEF IInv, WorkspaceTypeOK
<1>3. Allowed(ws.active, ws.status[r], "closed")
  BY <1>1 DEF Allowed, Stage, Ledger!Moves, Ledger!Judged
<1>4. /\ Ruled(ws, r, "closed") \in State
      /\ Sound(Ruled(ws, r, "closed")) /\ Fits(ws, Ruled(ws, r, "closed"))
  BY <1>2, <1>3, RuledFits DEF Status, Asked
<1> QED BY <1>1, <1>4, SaveGood

LEMMA ConfigureGood ==
  ASSUME IInv, NEW p \in Policy, ConfigureAutomaticVerification(p)
  PROVE  Good
<1>1. PICK enabled \in BOOLEAN :
        Save(Page, [ws EXCEPT !.auto = IF enabled THEN @ \cup {p} ELSE @ \ {p}])
  BY DEF ConfigureAutomaticVerification, SaveNow
<1>2. ws \in State /\ Sound(ws)
  BY DEF IInv, WorkspaceTypeOK
<1> DEFINE auto == IF enabled THEN ws.auto \cup {p} ELSE ws.auto \ {p}
           s == [ws EXCEPT !.auto = auto]
<1>3. auto \in SUBSET Policy
  BY <1>2 DEF State
<1>4. Save(Page, s)
  BY <1>1, <1>2 DEF State
<1> HIDE DEF auto
<1>5. /\ s \in State /\ s.status = ws.status /\ s.filed = ws.filed
      /\ s.receipts = ws.receipts /\ s.active = ws.active
  BY <1>2, <1>3 DEF State
<1> HIDE DEF s
<1> QED BY <1>2, <1>4, <1>5, SettingFits, SaveGood

LEMMA ArchiveGood ==
  ASSUME IInv, NEW p \in Policy, ArchivePolicy(p)
  PROVE  Good
<1> DEFINE s == [ws EXCEPT !.archived = @ \cup {p}]
<1>1. Save(Page, s)
  BY DEF ArchivePolicy, SaveNow
<1>2. ws \in State /\ Sound(ws)
  BY DEF IInv, WorkspaceTypeOK
<1>3. ws.archived \cup {p} \in SUBSET Policy
  BY <1>2 DEF State
<1>4. /\ s \in State /\ s.status = ws.status /\ s.filed = ws.filed
      /\ s.receipts = ws.receipts /\ s.active = ws.active
  BY <1>2, <1>3 DEF State
<1> HIDE DEF s
<1> QED BY <1>1, <1>2, <1>4, SettingFits, SaveGood

LEMMA SyncStatusGood ==
  ASSUME IInv, SyncStatus
  PROVE  Good
<1> DEFINE s == [ws EXCEPT !.active = FALSE]
<1>1. Page \in Handler /\ calls[Page].kind = "sync"
  BY DEF SyncStatus, Handler
<1>2. ws \in State /\ Sound(ws) /\ calls[Page].state = ws
  BY <1>1, CurrentCall
<1>3. Save(Page, s)
  BY <1>2 DEF SyncStatus
<1>4. /\ s \in State /\ s.status = ws.status /\ s.filed = ws.filed
      /\ s.receipts = ws.receipts /\ s.active = FALSE
  BY <1>2 DEF State
<1> HIDE DEF s
<1> QED BY <1>2, <1>3, <1>4, SettingFits, SaveGood

LEMMA ReadPageGood ==
  ASSUME IInv, ReadPage
  PROVE  Good
<1> DEFINE c == [Idle EXCEPT !.kind = "sync", !.state = ws]
<1>1. Page \in Handler /\ Turn(Page, c)
  BY DEF ReadPage, Read, Handler
<1>2. ws \in State /\ Idle \in Call
  BY IdleCall DEF IInv, WorkspaceTypeOK
<1>3. c \in Call /\ c.kind = "sync" /\ c.state = ws
  BY <1>2 DEF Call
<1> HIDE DEF c
<1>4. GoodCall(ws, c)
  BY <1>3 DEF GoodCall
<1> QED BY <1>1, <1>3, <1>4, TurnGood

LEMMA DropGood ==
  ASSUME IInv, NEW h \in Handler, Drop(h)
  PROVE  Good
BY IdleCall, TurnGood DEF Drop

LEMMA RevokeGood ==
  ASSUME IInv, Revoke
  PROVE  Good
<1>1. ws' = ws /\ calls' = calls /\ issuer' = FALSE
  BY DEF Revoke
<1>2. WorkspaceTypeOK'
  BY <1>1 DEF IInv, WorkspaceTypeOK
<1>3. IInv'
  BY <1>1, <1>2 DEF IInv
<1> QED BY <1>1, <1>3, Same DEF Good

LEMMA AgedFits ==
  ASSUME NEW w \in State, NEW r \in Request, NEW end
  PROVE  Fits(w, Aged(w, r, end))
<1>1. /\ Aged(w, r, end).active = w.active
      /\ Aged(w, r, end).filed = w.filed /\ Aged(w, r, end).receipts = w.receipts
      /\ \A q \in Request :
           Aged(w, r, end).status[q] = IF q = r THEN Over(w.status[q], end) ELSE w.status[q]
  BY AgedState DEF Kept
<1>2. \A q \in Request : w.status[q] \in Status
  BY DEF State
<1>3. ASSUME NEW x \in Status PROVE Allowed(w.active, x, Over(x, end))
  BY StageOver DEF Allowed, Ledger!Stage, Ledger!Moves, Ledger!Judged
<1>4. \A q \in Request : Allowed(w.active, w.status[q], Aged(w, r, end).status[q])
  BY <1>1, <1>2, <1>3 DEF Allowed
<1>5. Joins(w, Aged(w, r, end))
  BY <1>1, <1>4 DEF Joins
<1> QED BY <1>1, <1>5 DEF Fits

LEMMA TimePassesGood ==
  ASSUME IInv, NEW r \in Request, NEW end, TimePasses(r, end)
  PROVE  Good
<1>1. ws \in State /\ Sound(ws) /\ \A h \in Handler : calls[h] \in Call /\ GoodCall(ws, calls[h])
  BY DEF IInv, WorkspaceTypeOK
<1>2. ws' = Aged(ws, r, end) /\ issuer' = issuer
  BY DEF TimePasses
<1>3. ASSUME NEW h \in Handler
      PROVE  calls'[h] \in Call /\ GoodCall(ws', calls'[h])
  <2>1. calls'[h] = AgedCopies(calls[h], r, end)
    BY DEF TimePasses, AgedCopies
  <2> QED BY <1>1, <1>2, <2>1, AgedCall
<1>4. calls' \in [Handler -> Call]
  <2>1. calls' = [h \in Handler |-> calls'[h]]
    BY DEF TimePasses
  <2> QED BY <1>3, <2>1
<1>5. ws' \in State /\ Sound(ws')
  BY <1>1, <1>2, AgedState, AgedSound
<1>6. WorkspaceTypeOK'
  BY <1>2, <1>4, <1>5 DEF IInv, WorkspaceTypeOK
<1>7. IInv'
  BY <1>3, <1>5, <1>6 DEF IInv
<1> QED BY <1>1, <1>2, <1>7, AgedFits DEF Good

-----------------------------------------------------------------------------
(***************************************************************************)
(* Theorems.                                                               *)
(***************************************************************************)

\* The invariant holds at first.
LEMMA InitGood == Init => IInv
<1> SUFFICES ASSUME Init PROVE IInv
  OBVIOUS
<1>1. /\ ws \in State /\ Sound(ws)
      /\ calls \in [Handler -> Call]
      /\ \A h \in Handler : calls[h] = Idle
      /\ issuer \in BOOLEAN
  BY NewState, IdleCall DEF Init
<1>2. \A h \in Handler : GoodCall(ws, calls[h])
  BY <1>1, IdleCall
<1> QED BY <1>1, <1>2 DEF IInv, WorkspaceTypeOK

\* Every handler keeps it.
LEMMA NextGood ==
  ASSUME IInv, WorkspaceAssumption, Next
  PROVE  Good
<1>1. \A h \in Company : h \in Handler
  BY DEF Handler
<1>2. \A h \in Reviewer : h \in Handler
  BY DEF Handler
<1>3. ASSUME NEW h \in Company,
             \/ SubmitApplications(h) \/ Replay(h) \/ Inspect(h) \/ File(h) \/ Validate(h)
             \/ FailItem(h) \/ SaveApplications(h) \/ BeginPresent(h) \/ Present(h)
      PROVE  Good
  BY <1>1, <1>3, SubmitGood, ReplayGood, InspectGood, FileGood, ValidateGood,
     FailItemGood, SaveApplicationsGood, BeginPresentGood, PresentGood
<1>4. ASSUME NEW h \in Reviewer, BeginVerify(h) \/ VerifyPresentation(h)
      PROVE  Good
  BY <1>2, <1>4, BeginVerifyGood, VerifyPresentationGood
<1>5. ASSUME NEW h \in Handler, Drop(h)
      PROVE  Good
  BY <1>5, DropGood
<1>6. ASSUME NEW r \in Request, CancelRequest(r)
      PROVE  Good
  BY <1>6, CancelRequestGood
<1>7. ASSUME NEW r \in Request, NEW end \in {"presentation", "request"}, TimePasses(r, end)
      PROVE  Good
  BY <1>7, TimePassesGood
<1>8. ASSUME NEW p \in Configured, ConfigureAutomaticVerification(p)
      PROVE  Good
  BY <1>8, ConfigureGood DEF WorkspaceAssumption
<1>9. ASSUME NEW p \in Archived, ArchivePolicy(p)
      PROVE  Good
  BY <1>9, ArchiveGood DEF WorkspaceAssumption
<1>10. ASSUME NEW p \in Invited, CreateRequest(p)
       PROVE  Good
  BY <1>10, CreateRequestGood
<1>11. ASSUME Revoke \/ ReadPage \/ SyncStatus
       PROVE  Good
  BY <1>11, RevokeGood, ReadPageGood, SyncStatusGood
<1> QED BY <1>3, <1>4, <1>5, <1>6, <1>7, <1>8, <1>9, <1>10, <1>11 DEF Next

\* So does a step that changes nothing.
LEMMA StepGood ==
  ASSUME IInv, WorkspaceAssumption, [Next]_vars
  PROVE  Good
<1>1. CASE Next
  BY <1>1, NextGood
<1>2. CASE UNCHANGED vars
  <2>1. ws' = ws /\ calls' = calls /\ issuer' = issuer
    BY <1>2 DEF vars
  <2>2. WorkspaceTypeOK'
    BY <2>1 DEF IInv, WorkspaceTypeOK
  <2>3. IInv'
    BY <2>1, <2>2 DEF IInv
  <2> QED BY <2>1, <2>3, Same DEF Good
<1> QED BY <1>1, <1>2

\* What every handler holds can still be saved without breaking the ledger.
THEOREM Invariance == Spec => []IInv
<1>1. IInv /\ [Next]_vars => IInv'
  BY StepGood, WorkspaceAssumption DEF Good
<1> QED BY <1>1, InitGood, PTL DEF Spec

\* The workspace, the handlers' copies of it and the register keep their types.
THEOREM WorkspaceTypes == Spec => []WorkspaceTypeOK
<1>1. IInv => WorkspaceTypeOK
  BY DEF IInv
<1> QED BY <1>1, Invariance, PTL

\* Whatever items of a batch fail and whichever handlers save in between, a request
\* is filed if and only if the company holds a receipt for it.
THEOREM ReceiptsHold == Spec => []EverySubmissionHasReceipt
<1>1. IInv => EverySubmissionHasReceipt
  BY DEF IInv, Sound, EverySubmissionHasReceipt
<1> QED BY <1>1, Invariance, PTL

\* A key has one receipt and an application one submission, however often and by
\* however many handlers a submission is repeated.
THEOREM OneReceiptHolds == Spec => []OneReceiptPerKey
<1>1. IInv => OneReceiptPerKey
  BY DEF IInv, Sound, OneReceiptPerKey
<1> QED BY <1>1, Invariance, PTL

\* What is saved is what the company consented to and what the institution wants at
\* the moment it is saved.
THEOREM ShownHolds == Spec => FiledAsShown
<1> DEFINE A == \A t \in ws'.receipts \ ws.receipts :
                  /\ t.item.preview <=> t.item.policy \in ws.auto
                  /\ t.item.preview <=> ws'.status[t.request] \in {"verified", "past", "rejected"}
                  /\ t.item.policy \notin ws.archived
<1>1. IInv /\ [Next]_vars => [A]_vars
  BY StepGood, WorkspaceAssumption DEF Good, Fits, Shown, Decided
<1> HIDE DEF A
<1>2. Spec => [][A]_vars
  BY <1>1, Invariance, PTL DEF Spec
<1> QED BY <1>2 DEF A, FiledAsShown

\* Every save, whatever its handler waited for, is one step of the ledger of
\* applications: nothing is filed twice, undone, or judged on a revoked credential.
THEOREM LedgerKept == Spec => KeepsApplicationLedger
<1>1. Init => Ledger!LedgerInit
  BY DEF Init, New, Stage, Ledger!LedgerInit
<1>2. IInv /\ [Next]_vars => [Ledger!LedgerNext]_(Ledger!ledgerVars)
  <2> SUFFICES ASSUME IInv, [Next]_vars
               PROVE  Ledger!LedgerNext
    OBVIOUS
  <2> DEFINE entry == [r \in Request |-> Stage(ws.status[r])]
             next == [r \in Request |-> Stage(ws'.status[r])]
  <2>1. IInv' /\ Fits(ws, ws')
    BY StepGood, WorkspaceAssumption DEF Good
  <2>2. ws \in State /\ ws' \in State
    BY <2>1 DEF IInv, WorkspaceTypeOK
  <2>3. \A r \in Request : ws.status[r] \in Status /\ ws'.status[r] \in Status
    BY <2>2 DEF State
  <2>4. Joins(ws, ws') /\ (ws'.active => ws.active)
    BY <2>1 DEF Fits
  <2>5. \A r \in Request : entry[r] = Stage(ws.status[r]) /\ next[r] = Stage(ws'.status[r])
    OBVIOUS
  <2>6. next \in [Request -> Ledger!Stage]
    BY <2>3, StageOver
  <2> HIDE DEF entry, next
  <2>7. \A r \in Request : next[r] # entry[r] =>
          /\ <<entry[r], next[r]>> \in Ledger!Moves
          /\ <<entry[r], next[r]>> \in Ledger!Judged => ws.active
    BY <2>4, <2>5 DEF Joins, Allowed
  <2>8. \A r \in Request : entry[r] \in {"none", "asked"} <=> ws.status[r] \in Asked
    BY <2>3, <2>5, StageOverTogether
  <2>9. \A r \in ws'.filed \ ws.filed :
          /\ r \in Request
          /\ entry[r] \in {"none", "asked"}
          /\ next[r] \notin {"none", "asked", "closed"}
          /\ \A q \in Request \ {r} : PolicyOf[q] = PolicyOf[r] => next[q] \notin Ledger!Open
    BY <2>2, <2>4, <2>5, <2>8 DEF Joins, FiledIn, State
  <2>10. /\ ws.filed \subseteq ws'.filed /\ ws'.filed \subseteq Request
         /\ ws'.active \in BOOLEAN
    BY <2>2, <2>4 DEF Joins, State
  <2> QED
    BY <2>4, <2>6, <2>7, <2>9, <2>10
    DEF entry, next, Ledger!LedgerNext, Ledger!Moved, Ledger!Files
<1>3. Spec => Ledger!LedgerInit /\ [][Ledger!LedgerNext]_(Ledger!ledgerVars)
  BY <1>1, <1>2, Invariance, PTL DEF Spec
<1> QED BY <1>3 DEF KeepsApplicationLedger, Ledger!LedgerSpec

\* A company has at most one open application for a policy, whatever its handlers,
\* its institutions and the clock do meanwhile.
THEOREM OneOpenInWorkspace == Spec => []Ledger!OneOpenApplication
<1>1. Spec => Ledger!LedgerSpec
  BY LedgerKept DEF KeepsApplicationLedger
<1>2. Ledger!LedgerSpec => []Ledger!OneOpenApplication
  BY Ledger!OneOpenHolds
<1> QED BY <1>1, <1>2, PTL
=============================================================================
