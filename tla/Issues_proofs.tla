--------------------------- MODULE Issues_proofs ---------------------------
(***************************************************************************)
(* Proofs about Issues, for every set of requests, issues, users and       *)
(* payloads, every pool size and every integer width: the inductive        *)
(* invariant IInv, the safety properties that follow from it, and that     *)
(* Issues implements IssueBoard.                                           *)
(***************************************************************************)
EXTENDS Issues, Int32_proofs, FiniteSetTheorems, TLAPS

-----------------------------------------------------------------------------
(* The inductive invariant, in parts.                                      *)

\* A request that was delivered carries a payload; only a finished one was
\* answered, and only a finished one is booked.
Delivered ==
    \A r \in Request :
        /\ pc[r] # "idle" => ev[r] \in Event
        /\ resp[r] # 0 => pc[r] = "done"
        /\ r \in booked => pc[r] = "done"

\* Where a request is in its transaction says which event it handles.
Dispatched ==
    \A r \in Request :
        /\ pc[r] \in {"check", "insert"} => ev[r].action = "accepted"
        /\ pc[r] = "write" => ev[r].action \in RowActions /\ Parsed(ev[r])
        /\ pc[r] = "participant" => ev[r].action \in UserActions
        /\ pc[r] \in {"participant", "assign", "scan", "unassign"} => ev[r].arg # NoOne
        /\ pc[r] = "assign" => ev[r].action = "assigned"
        /\ pc[r] \in {"scan", "unassign"} => ev[r].action = "unassigned"

\* A transaction about to commit has written its row from the one that is
\* still the committed one: whoever wants to change it waits.
DraftCurrent(r) ==
    /\ pc[r] # "commit" => draft[r] = NoDraft
    /\ pc[r] = "commit" =>
          \/ /\ ev[r].action = "accepted"
             /\ issues[ev[r].url] = Absent /\ draft[r] = NewIssue
          \/ /\ ev[r].action \in RowActions /\ Parsed(ev[r])
             /\ issues[ev[r].url] # Absent
             /\ draft[r] = Updated(issues[ev[r].url], ev[r])
          \/ ev[r].action \in UserActions /\ draft[r] = NoDraft

DraftIsCurrent == \A r \in Request : DraftCurrent(r)

\* Likewise for claims: what is going to be inserted is the request's own, what
\* is going to be deleted is there and is the login's on the issue.
Targets(r, c) == c.url = ev[r].url /\ c.user = ev[r].arg

ClaimsCurrent(r) ==
    /\ pc[r] # "commit" => touched[r] = {}
    /\ pc[r] \notin {"unassign", "commit"} => snap[r] = {}
    /\ pc[r] = "unassign" => \A c \in snap[r] : Targets(r, c)
    /\ pc[r] = "commit" =>
          \/ ev[r].action \notin UserActions /\ touched[r] = {}
          \/ /\ ev[r].action = "assigned" /\ ev[r].arg \in User
             /\ touched[r] = {NewClaim(r)}
          \/ /\ ev[r].action = "unassigned"
             /\ touched[r] # {} /\ touched[r] \subseteq claims
             /\ \A c \in touched[r] : Targets(r, c)

ClaimsAreCurrent == \A r \in Request : ClaimsCurrent(r)

\* Two open transactions never write one row or hold one claim.
Exclusive ==
    \A q, r \in Request : q # r =>
        /\ draft[q] # NoDraft /\ draft[r] # NoDraft => ev[q].url # ev[r].url
        /\ touched[q] \cap touched[r] = {}

\* A claim names the finished request that inserted it.
ClaimsAreOld == \A c \in claims : pc[c.id] = "done"

\* Of what was due when an unassignment began, nothing is forgotten on the way.
DueFound(r) ==
    /\ pc[r] \in {"idle", "dispatch"} => due[r] = {}
    /\ \A c \in due[r] : pc[c.id] = "done" /\ Targets(r, c)
    /\ pc[r] = "unassign" => due[r] \cap claims \subseteq snap[r]
    /\ pc[r] = "commit" /\ ev[r].action = "unassigned" =>
          due[r] \cap claims \subseteq touched[r]

DueIsFound == \A r \in Request : DueFound(r)

\* The issue of a booked acceptance has its row, for ever.
AcceptedHasRow ==
    \A r \in booked : ev[r].action = "accepted" => issues[ev[r].url] # Absent

Connected == conn = {r \in Request : pc[r] \in Holding}

IInv ==
    /\ TypeOK
    /\ Delivered
    /\ Dispatched
    /\ DraftIsCurrent
    /\ ClaimsAreCurrent
    /\ Exclusive
    /\ ClaimsAreOld
    /\ DueIsFound
    /\ AcceptedHasRow
    /\ Connected
    /\ AnswersTellTheTruth
    /\ UnassignIsComplete
-----------------------------------------------------------------------------
(* Rows and claims have their types.                                       *)

\* The row an acceptance inserts is a row.
LEMMA NewIssueTyped == NewIssue \in Row
  <1>1. << >> \in Seq(ArgsOf("tag"))
    OBVIOUS
  <1> QED BY <1>1, ZeroInRange DEF NewIssue, Row

\* What an event makes of a row is a row: the bounty is truncated to the width.
LEMMA UpdatedTyped ==
    ASSUME NEW row \in Row, NEW e \in Event, e.action \in RowActions, Parsed(e)
    PROVE  Updated(row, e) \in Row
  <1>1. e.arg \in ArgsOf(e.action)
    BY DEF ArgsOf
  <1>2. CASE e.action = "difficulty"
    BY <1>1, <1>2 DEF Updated, UpdateIssueDifficulty, Row
  <1>3. CASE e.action = "bounty"
    <2>1. Int32(e.arg) \in INT
      BY <1>3, Int32InRange DEF Parsed
    <2> QED BY <1>3, <2>1 DEF Updated, UpdateIssueBounty, Row
  <1>4. CASE e.action = "tag"
    <2>1. e.arg \in ArgsOf("tag") /\ row.tags \in Seq(ArgsOf("tag"))
      BY <1>1, <1>4 DEF Row
    <2>2. Append(row.tags, e.arg) \in Seq(ArgsOf("tag"))
      BY <2>1
    <2> QED BY <1>4, <2>2 DEF Updated, AddIssueTag, Row
  <1>5. CASE e.action = "closed"
    BY <1>5 DEF Updated, CloseIssue, Row
  <1>6. CASE e.action = "reopened"
    BY <1>6 DEF Updated, OpenIssue, Row
  <1> QED BY <1>2, <1>3, <1>4, <1>5, <1>6 DEF RowActions

\* A payload's parts.
LEMMA PayloadTyped ==
    ASSUME NEW e \in Event
    PROVE  /\ e.url \in Url
           /\ e.action \in Actions
           /\ e.action \in UserActions /\ e.arg # NoOne => e.arg \in User
  BY IssuesAssumption

\* The actions are of one kind each.
LEMMA ActionKinds ==
    /\ "accepted" \notin RowActions \cup UserActions
    /\ RowActions \cap UserActions = {}
    /\ "assigned" \in UserActions /\ "unassigned" \in UserActions
  BY DEF RowActions, UserActions
-----------------------------------------------------------------------------
(* The actions, grouped by what they touch.                                *)

\* Steps that write nothing and do not end a transaction.
Local(r) ==
    \/ NothingToDo(r) \/ Begin(r) \/ CheckOpenIssue(r)
    \/ ParticipantExists(r) \/ Scan(r)

Writing(r) == AddNewIssue(r) \/ UpdateIssue(r)
Claiming(r) == IssueAssign(r) \/ IssueUnassign(r)
Aborting(r) ==
    \/ IssueExists(r) \/ AddNewIssueRefused(r) \/ NoSuchIssue(r)
    \/ NoParticipant(r) \/ NotAssigned(r) \/ TransactionFails(r)
Installing(r) == Commit(r) \/ CommitReplyLost(r)

\* The request goes on to one of the labels, answering only when it is done;
\* the others stay where they are.
Moves(r, labels) ==
    /\ pc' \in [Request -> Label]
    /\ pc'[r] \in labels
    /\ \A q \in Request : q # r => pc'[q] = pc[q] /\ resp'[q] = resp[q]
    /\ resp' \in [Request -> Status \cup {0}]
    /\ resp'[r] # resp[r] => pc'[r] = "done"

\* Going to a label is a move of one request ...
LEMMA MovesByGoto ==
    ASSUME TypeOK, NEW r \in Request, NEW l \in Label, Goto(r, l), UNCHANGED resp
    PROVE  Moves(r, {l})
  BY DEF Goto, Moves, TypeOK

\* ... and so is answering, which ends it.
LEMMA MovesByAnswer ==
    ASSUME TypeOK, NEW r \in Request, NEW s \in Status, Answer(r, s)
    PROVE  Moves(r, {"done"}) /\ resp'[r] = s
  <1>1. pc' = [pc EXCEPT ![r] = "done"] /\ resp' = [resp EXCEPT ![r] = s]
    BY DEF Answer, Goto
  <1>2. pc \in [Request -> Label] /\ resp \in [Request -> Status \cup {0}]
    BY DEF TypeOK
  <1> QED BY <1>1, <1>2 DEF Moves, Label

\* What the steps of each group change.
LocalEffect(r) ==
    /\ UNCHANGED <<ev, issues, claims, elapsed, booked, draft, touched>>
    /\ \/ /\ pc[r] = "dispatch" /\ Moves(r, {"done"})
          /\ UNCHANGED <<conn, due, snap>>
          /\ resp'[r] = 200 => Ignored(ev[r])
       \/ /\ pc[r] = "dispatch" /\ Moves(r, {"check", "participant", "write"})
          /\ conn' = conn \cup {r} /\ snap' = snap
          /\ ~Ignored(ev[r]) /\ Parsed(ev[r])
          /\ pc'[r] = "check" => ev[r].action = "accepted"
          /\ pc'[r] = "participant" => ev[r].action \in UserActions
          /\ pc'[r] = "write" => ev[r].action \notin UserActions \cup {"accepted"}
          /\ due' \in [Request -> SUBSET Claim]
          /\ due'[r] \subseteq ClaimsOf(ev[r])
          /\ \A q \in Request : q # r => due'[q] = due[q]
       \/ /\ pc[r] = "check" /\ Moves(r, {"insert"})
          /\ UNCHANGED <<conn, due, snap>>
       \/ /\ pc[r] = "participant" /\ Moves(r, {"assign", "scan"})
          /\ pc'[r] = "assign" <=> ev[r].action = "assigned"
          /\ UNCHANGED <<conn, due, snap>>
       \/ /\ pc[r] = "scan" /\ Moves(r, {"unassign"})
          /\ UNCHANGED <<conn, due>>
          /\ snap' \in [Request -> SUBSET Claim]
          /\ due[r] \cap ClaimsOf(ev[r]) \subseteq snap'[r]
          /\ snap'[r] \subseteq ClaimsOf(ev[r])
          /\ \A q \in Request : q # r => snap'[q] = snap[q]

\* The statements that only read, Begin and the early answers are local.
LEMMA LocalHasEffect ==
    ASSUME TypeOK, NEW r \in Request, Local(r)
    PROVE  LocalEffect(r)
  <1>1. UNCHANGED <<ev, issues, claims, elapsed, booked, draft, touched>>
    BY DEF Local, NothingToDo, Begin, CheckOpenIssue, ParticipantExists, Scan,
           tables, work
  <1>2. CASE NothingToDo(r)
    <2>1. /\ pc[r] = "dispatch"
          /\ UNCHANGED <<conn, due, snap>>
          /\ \/ Ignored(ev[r]) /\ Answer(r, 200)
             \/ Answer(r, 400)
      BY <1>2 DEF NothingToDo, work
    <2> QED BY <1>1, <2>1, MovesByAnswer DEF LocalEffect, Status
  <1>3. CASE Begin(r)
    <2> DEFINE l == CASE ev[r].action = "accepted"     -> "check"
                      [] ev[r].action \in UserActions  -> "participant"
                      [] OTHER                         -> "write"
               found == IF ev[r].action = "unassigned"
                        THEN {c \in ClaimsOf(ev[r]) : c.id \notin elapsed} ELSE {}
    <2>1. /\ l \in {"check", "participant", "write"}
          /\ l = "check" => ev[r].action = "accepted"
          /\ l = "participant" => ev[r].action \in UserActions
          /\ l = "write" => ev[r].action \notin UserActions \cup {"accepted"}
      BY ActionKinds
    <2>2. found \subseteq ClaimsOf(ev[r]) /\ found \subseteq Claim
      BY DEF ClaimsOf, TypeOK
    <2>3. /\ pc[r] = "dispatch" /\ Goto(r, l) /\ UNCHANGED resp
          /\ conn' = conn \cup {r} /\ snap' = snap
          /\ ~Ignored(ev[r]) /\ Parsed(ev[r])
          /\ due' = [due EXCEPT ![r] = found]
      BY <1>3 DEF Begin
    <2> HIDE DEF l, found
    <2>4. Moves(r, {l}) /\ pc'[r] = l
      BY <2>1, <2>3, MovesByGoto DEF Label, Moves
    <2>5. Moves(r, {"check", "participant", "write"})
      BY <2>1, <2>4 DEF Moves
    <2>6. /\ due' \in [Request -> SUBSET Claim] /\ due'[r] \subseteq ClaimsOf(ev[r])
          /\ \A q \in Request : q # r => due'[q] = due[q]
      BY <2>2, <2>3 DEF TypeOK
    <2> QED BY <1>1, <2>1, <2>3, <2>4, <2>5, <2>6 DEF LocalEffect
  <1>4. CASE CheckOpenIssue(r)
    BY <1>1, <1>4, MovesByGoto DEF CheckOpenIssue, LocalEffect, Label, work
  <1>5. CASE ParticipantExists(r)
    BY <1>1, <1>5, MovesByGoto DEF ParticipantExists, LocalEffect, Moves, Label, work
  <1>6. CASE Scan(r)
    <2> DEFINE found == {c \in ClaimsOf(ev[r]) : c \in due[r] \/ c.id \notin elapsed}
    <2>1. found \subseteq ClaimsOf(ev[r]) /\ found \subseteq Claim
      BY DEF ClaimsOf, TypeOK
    <2>2. due[r] \cap ClaimsOf(ev[r]) \subseteq found
      OBVIOUS
    <2>3. /\ pc[r] = "scan" /\ Goto(r, "unassign") /\ UNCHANGED <<resp, conn, due>>
          /\ snap' = [snap EXCEPT ![r] = found]
      BY <1>6 DEF Scan
    <2> HIDE DEF found
    <2>4. Moves(r, {"unassign"})
      BY <2>3, MovesByGoto DEF Label
    <2>5. /\ snap' \in [Request -> SUBSET Claim] /\ snap'[r] = found
          /\ \A q \in Request : q # r => snap'[q] = snap[q]
      BY <2>1, <2>3 DEF TypeOK
    <2> QED BY <1>1, <2>1, <2>2, <2>3, <2>4, <2>5 DEF LocalEffect
  <1> QED BY <1>2, <1>3, <1>4, <1>5, <1>6 DEF Local

WriteEffect(r) ==
    /\ Moves(r, {"commit"}) /\ UNCHANGED resp
    /\ UNCHANGED <<ev, conn, issues, claims, elapsed, booked, due, snap, touched>>
    /\ Writers(ev[r].url) = {}
    /\ \/ /\ pc[r] = "insert" /\ issues[ev[r].url] = Absent
          /\ draft' = [draft EXCEPT ![r] = NewIssue]
       \/ /\ pc[r] = "write" /\ issues[ev[r].url] # Absent
          /\ draft' = [draft EXCEPT ![r] = Updated(issues[ev[r].url], ev[r])]

\* INSERT and UPDATE lock a row nobody else has written.
LEMMA WriteHasEffect ==
    ASSUME TypeOK, NEW r \in Request, Writing(r)
    PROVE  WriteEffect(r)
  BY MovesByGoto DEF Writing, AddNewIssue, UpdateIssue, WriteEffect, Label, tables

ClaimEffect(r) ==
    /\ Moves(r, {"commit"}) /\ UNCHANGED resp
    /\ UNCHANGED <<ev, conn, issues, claims, elapsed, booked, draft, due, snap>>
    /\ \/ /\ pc[r] = "assign"
          /\ touched' = [touched EXCEPT ![r] = {NewClaim(r)}]
       \/ /\ pc[r] = "unassign"
          /\ touched' = [touched EXCEPT ![r] = snap[r] \cap claims]
          /\ snap[r] \cap claims # {}
          /\ \A q \in Request : q # r => snap[r] \cap touched[q] = {}

\* A transaction makes a claim of its own, or locks claims nobody else holds.
LEMMA ClaimHasEffect ==
    ASSUME TypeOK, NEW r \in Request, Claiming(r)
    PROVE  ClaimEffect(r)
  <1>1. CASE IssueAssign(r)
    BY <1>1, MovesByGoto DEF IssueAssign, ClaimEffect, Label, tables
  <1>2. CASE IssueUnassign(r)
    <2>1. /\ pc[r] = "unassign" /\ snap[r] \cap claims # {}
          /\ touched' = [touched EXCEPT ![r] = snap[r] \cap claims]
          /\ Goto(r, "commit")
          /\ UNCHANGED <<ev, resp, conn, draft, due, snap, tables>>
          /\ snap[r] \cap UNION {touched[q] : q \in Request \ {r}} = {}
      BY <1>2 DEF IssueUnassign, LockedByOthers
    <2>2. ASSUME NEW q \in Request, q # r PROVE snap[r] \cap touched[q] = {}
      BY <2>1, <2>2
    <2>3. Moves(r, {"commit"})
      BY <2>1, MovesByGoto DEF Label
    <2> QED BY <2>1, <2>2, <2>3 DEF ClaimEffect, tables
  <1> QED BY <1>1, <1>2 DEF Claiming

AbortEffect(r) ==
    /\ pc[r] \notin {"idle", "done", "crashed"} /\ Moves(r, {"done"})
    /\ resp'[r] # 200
    /\ UNCHANGED <<ev, issues, claims, elapsed, booked, due>>
    /\ EndTransaction(r)

\* Whoever gives up has not been told 200, and leaves no trace.
LEMMA AbortHasEffect ==
    ASSUME TypeOK, NEW r \in Request, Aborting(r)
    PROVE  AbortEffect(r)
  <1>1. /\ pc[r] \notin {"idle", "done", "crashed"}
        /\ Abort(r, 400) \/ Abort(r, 404) \/ Abort(r, 500)
    BY DEF Aborting, IssueExists, AddNewIssueRefused, NoSuchIssue,
           NoParticipant, NotAssigned, TransactionFails
  <1> QED BY <1>1, MovesByAnswer DEF Abort, AbortEffect, Status, tables

InstallEffect(r) ==
    /\ pc[r] = "commit" /\ Moves(r, {"done"})
    /\ UNCHANGED <<ev, elapsed, due>>
    /\ Install(r)

\* A commit installs, whether or not its reply arrives.
LEMMA InstallHasEffect ==
    ASSUME TypeOK, NEW r \in Request, Installing(r)
    PROVE  InstallEffect(r)
  BY MovesByAnswer DEF Installing, Commit, CommitReplyLost, InstallEffect, Status

CrashEffect ==
    /\ pc' \in [Request -> Label]
    /\ \A r \in Request : pc'[r] = IF Serving(r) THEN "crashed" ELSE pc[r]
    /\ conn' = {}
    /\ draft' = [r \in Request |-> NoDraft]
    /\ snap' = [r \in Request |-> {}]
    /\ touched' = [r \in Request |-> {}]
    /\ UNCHANGED <<ev, resp, due, issues, claims, elapsed, booked>>

\* A crash ends what is being served and rolls the transactions back.
LEMMA CrashHasEffect ==
    ASSUME TypeOK, Crash
    PROVE  CrashEffect
  BY DEF Crash, ServerDies, CrashEffect, TypeOK, Label, tables

DeliverEffect(r, e) ==
    /\ pc[r] = "idle" /\ Moves(r, {"dispatch"}) /\ UNCHANGED resp
    /\ ev' = [ev EXCEPT ![r] = e]
    /\ UNCHANGED <<conn, issues, claims, elapsed, booked, draft, due, snap, touched>>

\* A delivery only starts a request.
LEMMA DeliverHasEffect ==
    ASSUME TypeOK, NEW r \in Request, NEW e \in Event, Deliver(r, e)
    PROVE  DeliverEffect(r, e)
  BY MovesByGoto DEF Deliver, DeliverEffect, Label, tables, work

ElapseEffect ==
    /\ \E c \in claims : elapsed' = elapsed \cup {c.id}
    /\ UNCHANGED <<pc, ev, resp, conn, issues, claims, booked, draft, due, snap, touched>>

\* A request takes one of six kinds of steps, a claim runs out, or the process
\* dies.
LEMMA StepCases ==
    ASSUME TypeOK, [Next]_vars
    PROVE  \/ \E r \in Request : \/ \E e \in Event : DeliverEffect(r, e)
                                 \/ LocalEffect(r) \/ WriteEffect(r)
                                 \/ ClaimEffect(r) \/ AbortEffect(r)
                                 \/ InstallEffect(r)
           \/ ElapseEffect
           \/ CrashEffect
           \/ UNCHANGED vars
  <1>1. ASSUME NEW r \in Request, NEW e \in Event, Deliver(r, e)
        PROVE  DeliverEffect(r, e)
    BY <1>1, DeliverHasEffect
  <1>2. ASSUME NEW r \in Request, Progress(r) \/ CommitReplyLost(r) \/ TransactionFails(r)
        PROVE  \/ LocalEffect(r) \/ WriteEffect(r) \/ ClaimEffect(r)
               \/ AbortEffect(r) \/ InstallEffect(r)
    BY <1>2, LocalHasEffect, WriteHasEffect, ClaimHasEffect, AbortHasEffect,
       InstallHasEffect
       DEF Progress, Local, Writing, Claiming, Aborting, Installing
  <1>3. Elapse => ElapseEffect
    BY DEF Elapse, ElapseEffect, work
  <1> QED BY <1>1, <1>2, <1>3, CrashHasEffect DEF Next, Quiet
-----------------------------------------------------------------------------
(* What the invariant says of an open transaction.                         *)

\* Only a transaction that writes a row has a draft, and it is a row.
LEMMA DraftIsRow ==
    ASSUME IInv, NEW r \in Request, draft[r] # NoDraft
    PROVE  pc[r] = "commit" /\ ev[r] \in Event /\ draft[r] \in Row
  BY DEF IInv, TypeOK, Delivered, DraftIsCurrent, DraftCurrent

\* An update's or acceptance's transaction that is about to commit has one.
LEMMA WriterHasDraft ==
    ASSUME IInv, NEW r \in Request, pc[r] = "commit", ev[r].action \notin UserActions
    PROVE  draft[r] \in Row /\ draft[r] # NoDraft
  <1>1. ev[r] \in Event /\ issues[ev[r].url] \in Row \cup {Absent}
    BY PayloadTyped DEF IInv, TypeOK, Delivered
  <1>2. CASE draft[r] = NewIssue
    BY <1>2, NewIssueTyped, IssuesAssumption
  <1>3. CASE /\ ev[r].action \in RowActions /\ Parsed(ev[r])
             /\ issues[ev[r].url] # Absent
             /\ draft[r] = Updated(issues[ev[r].url], ev[r])
    BY <1>1, <1>3, UpdatedTyped, IssuesAssumption
  <1> QED BY <1>2, <1>3 DEF IInv, DraftIsCurrent, DraftCurrent

\* What a transaction holds is a committed claim or the one it is inserting.
LEMMA HeldClaim ==
    ASSUME IInv, NEW r \in Request, NEW c \in touched[r]
    PROVE  /\ pc[r] = "commit"
           /\ c \in claims \/ c.id = r
  BY DEF IInv, ClaimsAreCurrent, ClaimsCurrent, NewClaim

\* A transaction about to insert a claim is the first with its id.
LEMMA NewClaimIsNew ==
    ASSUME IInv, NEW r \in Request, pc[r] # "done"
    PROVE  NewClaim(r) \notin claims /\ \A c \in claims : c.id # r
  BY DEF IInv, ClaimsAreOld, NewClaim

-----------------------------------------------------------------------------
(* Every part of the invariant is preserved.                               *)

\* No step leaves the types.
LEMMA TypeStep ==
    ASSUME IInv, [Next]_vars
    PROVE  TypeOK'
  <1> USE DEF IInv, TypeOK
  <1>1. ASSUME NEW r \in Request, NEW e \in Event, DeliverEffect(r, e)
        PROVE  TypeOK'
    BY <1>1 DEF DeliverEffect, Moves
  <1>2. ASSUME NEW r \in Request, LocalEffect(r)
        PROVE  TypeOK'
    BY <1>2 DEF LocalEffect, Moves
  <1>3. ASSUME NEW r \in Request, WriteEffect(r)
        PROVE  TypeOK'
    <2>1. ev[r] \in Event /\ ev[r].url \in Url
      BY <1>3, PayloadTyped DEF WriteEffect, Delivered
    <2>2. CASE draft' = [draft EXCEPT ![r] = NewIssue]
      BY <1>3, <2>2, NewIssueTyped DEF WriteEffect, Moves
    <2>3. CASE /\ pc[r] = "write" /\ issues[ev[r].url] # Absent
               /\ draft' = [draft EXCEPT ![r] = Updated(issues[ev[r].url], ev[r])]
      <3>1. Updated(issues[ev[r].url], ev[r]) \in Row
        BY <2>1, <2>3, UpdatedTyped DEF Dispatched
      <3> QED BY <1>3, <2>3, <3>1 DEF WriteEffect, Moves
    <2> QED BY <1>3, <2>2, <2>3 DEF WriteEffect
  <1>4. ASSUME NEW r \in Request, ClaimEffect(r)
        PROVE  TypeOK'
    <2>1. ev[r] \in Event
      BY <1>4 DEF ClaimEffect, Delivered
    <2>2. pc[r] = "assign" => NewClaim(r) \in Claim
      BY <2>1, PayloadTyped, ActionKinds DEF Dispatched, NewClaim, Claim
    <2>3. touched' \in [Request -> SUBSET Claim]
      BY <1>4, <2>2 DEF ClaimEffect
    <2> QED BY <1>4, <2>3 DEF ClaimEffect, Moves
  <1>5. ASSUME NEW r \in Request, AbortEffect(r)
        PROVE  TypeOK'
    BY <1>5 DEF AbortEffect, EndTransaction, Moves
  <1>6. ASSUME NEW r \in Request, InstallEffect(r)
        PROVE  TypeOK'
    BY <1>6 DEF InstallEffect, Install, EndTransaction, Moves
  <1>7. CASE ElapseEffect
    <2>1. \A c \in Claim : c.id \in Request
      BY DEF Claim
    <2> QED BY <1>7, <2>1 DEF ElapseEffect
  <1>8. CASE CrashEffect
    BY <1>8 DEF CrashEffect, Serving, Over
  <1>9. CASE UNCHANGED vars
    BY <1>9 DEF vars
  <1> QED BY <1>1, <1>2, <1>3, <1>4, <1>5, <1>6, <1>7, <1>8, <1>9, StepCases

\* Payloads stay with their requests, and only the last step answers.
LEMMA DeliveredStep ==
    ASSUME IInv, [Next]_vars
    PROVE  Delivered'
  <1> USE DEF IInv, Delivered, TypeOK
  <1>1. ASSUME NEW r \in Request, NEW e \in Event, DeliverEffect(r, e)
        PROVE  Delivered'
    BY <1>1 DEF DeliverEffect, Moves
  <1>2. ASSUME NEW r \in Request, LocalEffect(r)
        PROVE  Delivered'
    BY <1>2 DEF LocalEffect, Moves
  <1>3. ASSUME NEW r \in Request, WriteEffect(r)
        PROVE  Delivered'
    BY <1>3 DEF WriteEffect, Moves
  <1>4. ASSUME NEW r \in Request, ClaimEffect(r)
        PROVE  Delivered'
    BY <1>4 DEF ClaimEffect, Moves
  <1>5. ASSUME NEW r \in Request, AbortEffect(r)
        PROVE  Delivered'
    BY <1>5 DEF AbortEffect, EndTransaction, Moves
  <1>6. ASSUME NEW r \in Request, InstallEffect(r)
        PROVE  Delivered'
    BY <1>6 DEF InstallEffect, Install, EndTransaction, Moves
  <1>7. CASE ElapseEffect
    BY <1>7 DEF ElapseEffect
  <1>8. CASE CrashEffect
    BY <1>8 DEF CrashEffect, Serving, Over
  <1>9. CASE UNCHANGED vars
    BY <1>9 DEF vars
  <1> QED BY <1>1, <1>2, <1>3, <1>4, <1>5, <1>6, <1>7, <1>8, <1>9, StepCases

\* The labels behind the dispatch are reached with the right event only.
LEMMA DispatchedStep ==
    ASSUME IInv, [Next]_vars
    PROVE  Dispatched'
  <1> USE DEF IInv, Dispatched, TypeOK
  <1>1. ASSUME NEW r \in Request, NEW e \in Event, DeliverEffect(r, e)
        PROVE  Dispatched'
    BY <1>1 DEF DeliverEffect, Moves
  <1>2. ASSUME NEW r \in Request, LocalEffect(r)
        PROVE  Dispatched'
    <2>1. ev[r].action \in Actions
      BY <1>2, PayloadTyped DEF LocalEffect, Delivered
    <2>2. /\ pc'[r] = "participant" => ev[r].action \in UserActions /\ ev[r].arg # NoOne
          /\ pc'[r] = "write" => ev[r].action \in RowActions /\ Parsed(ev[r])
          /\ pc'[r] \in {"check", "insert"} => ev[r].action = "accepted"
      BY <1>2, <2>1 DEF LocalEffect, Moves, Actions, Ignored
    <2>3. /\ pc'[r] \in {"assign", "scan", "unassign"} => ev[r].arg # NoOne
          /\ pc'[r] = "assign" => ev[r].action = "assigned"
          /\ pc'[r] \in {"scan", "unassign"} => ev[r].action = "unassigned"
      BY <1>2 DEF LocalEffect, Moves, UserActions
    <2> QED BY <1>2, <2>2, <2>3 DEF LocalEffect, Moves
  <1>3. ASSUME NEW r \in Request, WriteEffect(r)
        PROVE  Dispatched'
    BY <1>3 DEF WriteEffect, Moves
  <1>4. ASSUME NEW r \in Request, ClaimEffect(r)
        PROVE  Dispatched'
    BY <1>4 DEF ClaimEffect, Moves
  <1>5. ASSUME NEW r \in Request, AbortEffect(r)
        PROVE  Dispatched'
    BY <1>5 DEF AbortEffect, EndTransaction, Moves
  <1>6. ASSUME NEW r \in Request, InstallEffect(r)
        PROVE  Dispatched'
    BY <1>6 DEF InstallEffect, Install, EndTransaction, Moves
  <1>7. CASE ElapseEffect
    BY <1>7 DEF ElapseEffect
  <1>8. CASE CrashEffect
    BY <1>8 DEF CrashEffect, Serving, Over
  <1>9. CASE UNCHANGED vars
    BY <1>9 DEF vars
  <1> QED BY <1>1, <1>2, <1>3, <1>4, <1>5, <1>6, <1>7, <1>8, <1>9, StepCases

\* A commit cannot outdate the row another open transaction has written,
\* because the two write rows of different issues.
LEMMA DraftIsCurrentStep ==
    ASSUME IInv, [Next]_vars
    PROVE  DraftIsCurrent'
  <1> USE DEF IInv, DraftIsCurrent, DraftCurrent, TypeOK
  <1>1. ASSUME NEW r \in Request, NEW e \in Event, DeliverEffect(r, e)
        PROVE  DraftIsCurrent'
    BY <1>1 DEF DeliverEffect, Moves
  <1>2. ASSUME NEW r \in Request, LocalEffect(r)
        PROVE  DraftIsCurrent'
    BY <1>2 DEF LocalEffect, Moves
  <1>3. ASSUME NEW r \in Request, WriteEffect(r)
        PROVE  DraftIsCurrent'
    <2>1. DraftCurrent(r)'
      BY <1>3 DEF WriteEffect, Moves, Dispatched
    <2>2. ASSUME NEW q \in Request, q # r PROVE DraftCurrent(q)'
      BY <1>3, <2>2 DEF WriteEffect, Moves
    <2> QED BY <2>1, <2>2
  <1>4. ASSUME NEW r \in Request, ClaimEffect(r)
        PROVE  DraftIsCurrent'
    <2>1. DraftCurrent(r)'
      BY <1>4, ActionKinds DEF ClaimEffect, Moves, Dispatched
    <2>2. ASSUME NEW q \in Request, q # r PROVE DraftCurrent(q)'
      BY <1>4, <2>2 DEF ClaimEffect, Moves
    <2> QED BY <2>1, <2>2
  <1>5. ASSUME NEW r \in Request, AbortEffect(r)
        PROVE  DraftIsCurrent'
    BY <1>5 DEF AbortEffect, EndTransaction, Moves
  <1>6. ASSUME NEW r \in Request, InstallEffect(r)
        PROVE  DraftIsCurrent'
    <2>1. DraftCurrent(r)'
      BY <1>6 DEF InstallEffect, Install, EndTransaction, Moves
    <2>2. ASSUME NEW q \in Request, q # r PROVE DraftCurrent(q)'
      <3>1. /\ pc'[q] = pc[q] /\ ev' = ev /\ draft'[q] = draft[q]
        BY <1>6, <2>2 DEF InstallEffect, Install, EndTransaction, Moves
      <3>2. CASE pc[q] = "commit" /\ ev[q].action \notin UserActions
        <4>1. draft[q] # NoDraft
          BY <3>2, WriterHasDraft
        <4>2. draft[r] # NoDraft => ev[q].url # ev[r].url
          BY <2>2, <4>1 DEF Exclusive
        <4>3. issues'[ev[q].url] = issues[ev[q].url]
          BY <1>6, <4>2 DEF InstallEffect, Install
        <4> QED BY <3>1, <3>2, <4>3
      <3>3. CASE pc[q] # "commit" \/ ev[q].action \in UserActions
        BY <3>1, <3>3, ActionKinds
      <3> QED BY <3>2, <3>3
    <2> QED BY <2>1, <2>2
  <1>7. CASE ElapseEffect
    BY <1>7 DEF ElapseEffect
  <1>8. CASE CrashEffect
    BY <1>8 DEF CrashEffect, Serving, Over
  <1>9. CASE UNCHANGED vars
    BY <1>9 DEF vars
  <1> QED BY <1>1, <1>2, <1>3, <1>4, <1>5, <1>6, <1>7, <1>8, <1>9, StepCases

\* Nor does it delete a claim another open transaction is deleting.
LEMMA ClaimsAreCurrentStep ==
    ASSUME IInv, [Next]_vars
    PROVE  ClaimsAreCurrent'
  <1> USE DEF IInv, ClaimsAreCurrent, ClaimsCurrent, Targets, TypeOK, NewClaim
  <1>1. ASSUME NEW r \in Request, NEW e \in Event, DeliverEffect(r, e)
        PROVE  ClaimsAreCurrent'
    BY <1>1 DEF DeliverEffect, Moves
  <1>2. ASSUME NEW r \in Request, LocalEffect(r)
        PROVE  ClaimsAreCurrent'
    <2>1. ClaimsCurrent(r)'
      BY <1>2 DEF LocalEffect, Moves, ClaimsOf
    <2>2. ASSUME NEW q \in Request, q # r PROVE ClaimsCurrent(q)'
      BY <1>2, <2>2 DEF LocalEffect, Moves
    <2> QED BY <2>1, <2>2
  <1>3. ASSUME NEW r \in Request, WriteEffect(r)
        PROVE  ClaimsAreCurrent'
    <2>1. ev[r].action \notin UserActions
      BY <1>3, ActionKinds DEF WriteEffect, Dispatched
    <2>2. ClaimsCurrent(r)'
      BY <1>3, <2>1 DEF WriteEffect, Moves
    <2>3. ASSUME NEW q \in Request, q # r PROVE ClaimsCurrent(q)'
      BY <1>3, <2>3 DEF WriteEffect, Moves
    <2> QED BY <2>2, <2>3
  <1>4. ASSUME NEW r \in Request, ClaimEffect(r)
        PROVE  ClaimsAreCurrent'
    <2>1. ev[r] \in Event
      BY <1>4 DEF ClaimEffect, Delivered
    <2>2. CASE pc[r] = "assign"
      <3>1. ev[r].action = "assigned" /\ ev[r].arg \in User
        BY <2>1, <2>2, PayloadTyped, ActionKinds DEF Dispatched
      <3> QED BY <1>4, <2>2, <3>1 DEF ClaimEffect, Moves
    <2>3. CASE pc[r] = "unassign"
      <3>1. ev[r].action = "unassigned"
        BY <2>3 DEF Dispatched
      <3>2. touched'[r] = snap[r] \cap claims /\ touched'[r] # {}
        BY <1>4, <2>3 DEF ClaimEffect
      <3>3. ClaimsCurrent(r)'
        BY <1>4, <2>3, <3>1, <3>2 DEF ClaimEffect, Moves
      <3>4. ASSUME NEW q \in Request, q # r PROVE ClaimsCurrent(q)'
        BY <1>4, <3>4 DEF ClaimEffect, Moves
      <3> QED BY <3>3, <3>4
    <2> QED BY <1>4, <2>2, <2>3 DEF ClaimEffect
  <1>5. ASSUME NEW r \in Request, AbortEffect(r)
        PROVE  ClaimsAreCurrent'
    BY <1>5 DEF AbortEffect, EndTransaction, Moves
  <1>6. ASSUME NEW r \in Request, InstallEffect(r)
        PROVE  ClaimsAreCurrent'
    <2>1. ClaimsCurrent(r)'
      BY <1>6 DEF InstallEffect, Install, EndTransaction, Moves
    <2>2. ASSUME NEW q \in Request, q # r PROVE ClaimsCurrent(q)'
      <3>1. /\ pc'[q] = pc[q] /\ ev' = ev
            /\ touched'[q] = touched[q] /\ snap'[q] = snap[q]
        BY <1>6, <2>2 DEF InstallEffect, Install, EndTransaction, Moves
      <3>2. touched[q] \subseteq claims => touched[q] \subseteq claims'
        BY <1>6, <2>2 DEF InstallEffect, Install, Exclusive
      <3> QED BY <3>1, <3>2
    <2> QED BY <2>1, <2>2
  <1>7. CASE ElapseEffect
    BY <1>7 DEF ElapseEffect
  <1>8. CASE CrashEffect
    BY <1>8 DEF CrashEffect, Serving, Over
  <1>9. CASE UNCHANGED vars
    BY <1>9 DEF vars
  <1> QED BY <1>1, <1>2, <1>3, <1>4, <1>5, <1>6, <1>7, <1>8, <1>9, StepCases

\* Who writes a row or locks a claim has waited for the others.
LEMMA ExclusiveStep ==
    ASSUME IInv, [Next]_vars
    PROVE  Exclusive'
  <1> USE DEF IInv, Exclusive, TypeOK
  <1>1. ASSUME NEW r \in Request, NEW e \in Event, DeliverEffect(r, e)
        PROVE  Exclusive'
    <2>1. draft[r] = NoDraft /\ \A q \in Request : q # r => ev'[q] = ev[q]
      BY <1>1, DraftIsRow DEF DeliverEffect
    <2> QED BY <1>1, <2>1 DEF DeliverEffect
  <1>2. ASSUME NEW r \in Request, LocalEffect(r)
        PROVE  Exclusive'
    BY <1>2 DEF LocalEffect, Moves
  <1>3. ASSUME NEW r \in Request, WriteEffect(r)
        PROVE  Exclusive'
    <2>1. \A q \in Request : draft[q] # NoDraft => ev[q].url # ev[r].url
      BY <1>3 DEF WriteEffect, Writers
    <2>2. \A q \in Request : q # r => draft'[q] = draft[q]
      BY <1>3 DEF WriteEffect
    <2> QED BY <1>3, <2>1, <2>2 DEF WriteEffect
  <1>4. ASSUME NEW r \in Request, ClaimEffect(r)
        PROVE  Exclusive'
    <2>1. \A q \in Request : q # r => touched'[q] = touched[q]
      BY <1>4 DEF ClaimEffect
    <2>2. ASSUME NEW q \in Request, q # r PROVE touched'[r] \cap touched[q] = {}
      <3>1. CASE pc[r] = "assign"
        <4>1. touched'[r] = {NewClaim(r)}
          BY <1>4, <3>1 DEF ClaimEffect
        <4>2. NewClaim(r) \notin claims /\ NewClaim(r).id = r
          BY <3>1, NewClaimIsNew DEF NewClaim
        <4> QED BY <2>2, <4>1, <4>2, HeldClaim
      <3>2. CASE pc[r] = "unassign"
        BY <1>4, <2>2, <3>2 DEF ClaimEffect
      <3> QED BY <1>4, <3>1, <3>2 DEF ClaimEffect
    <2> QED BY <1>4, <2>1, <2>2 DEF ClaimEffect
  <1>5. ASSUME NEW r \in Request, AbortEffect(r)
        PROVE  Exclusive'
    BY <1>5 DEF AbortEffect, EndTransaction, Moves
  <1>6. ASSUME NEW r \in Request, InstallEffect(r)
        PROVE  Exclusive'
    BY <1>6 DEF InstallEffect, Install, EndTransaction, Moves
  <1>7. CASE ElapseEffect
    BY <1>7 DEF ElapseEffect
  <1>8. CASE CrashEffect
    BY <1>8 DEF CrashEffect, Serving, Over
  <1>9. CASE UNCHANGED vars
    BY <1>9 DEF vars
  <1> QED BY <1>1, <1>2, <1>3, <1>4, <1>5, <1>6, <1>7, <1>8, <1>9, StepCases

\* The claim of a request appears when the request ends.
LEMMA ClaimsAreOldStep ==
    ASSUME IInv, [Next]_vars
    PROVE  ClaimsAreOld'
  <1> USE DEF IInv, ClaimsAreOld, TypeOK, Claim
  <1>1. ASSUME NEW r \in Request, NEW e \in Event, DeliverEffect(r, e)
        PROVE  ClaimsAreOld'
    BY <1>1 DEF DeliverEffect, Moves
  <1>2. ASSUME NEW r \in Request, LocalEffect(r)
        PROVE  ClaimsAreOld'
    BY <1>2 DEF LocalEffect, Moves
  <1>3. ASSUME NEW r \in Request, WriteEffect(r)
        PROVE  ClaimsAreOld'
    BY <1>3 DEF WriteEffect, Moves
  <1>4. ASSUME NEW r \in Request, ClaimEffect(r)
        PROVE  ClaimsAreOld'
    BY <1>4 DEF ClaimEffect, Moves
  <1>5. ASSUME NEW r \in Request, AbortEffect(r)
        PROVE  ClaimsAreOld'
    BY <1>5 DEF AbortEffect, EndTransaction, Moves
  <1>6. ASSUME NEW r \in Request, InstallEffect(r)
        PROVE  ClaimsAreOld'
    <2>1. ASSUME NEW c \in claims' PROVE c \in claims \/ c.id = r
      <3>1. c \in claims \/ c \in touched[r]
        BY <1>6 DEF InstallEffect, Install
      <3> QED BY <3>1, HeldClaim
    <2> QED BY <1>6, <2>1 DEF InstallEffect, Moves
  <1>7. CASE ElapseEffect
    BY <1>7 DEF ElapseEffect
  <1>8. CASE CrashEffect
    BY <1>8 DEF CrashEffect, Serving, Over
  <1>9. CASE UNCHANGED vars
    BY <1>9 DEF vars
  <1> QED BY <1>1, <1>2, <1>3, <1>4, <1>5, <1>6, <1>7, <1>8, <1>9, StepCases

\* A finished request stays as it is.
LEMMA DoneStays ==
    ASSUME IInv, [Next]_vars
    PROVE  \A q \in Request : pc[q] = "done" => pc'[q] = "done" /\ ev'[q] = ev[q]
  <1> DEFINE Stays == \A q \in Request : pc[q] = "done" => pc'[q] = "done" /\ ev'[q] = ev[q]
  <1> USE DEF IInv, TypeOK
  <1>1. ASSUME NEW r \in Request, NEW e \in Event, DeliverEffect(r, e)
        PROVE  Stays
    BY <1>1 DEF DeliverEffect, Moves
  <1>2. ASSUME NEW r \in Request,
               \/ LocalEffect(r) \/ WriteEffect(r) \/ ClaimEffect(r)
               \/ AbortEffect(r) \/ InstallEffect(r)
        PROVE  Stays
    BY <1>2 DEF LocalEffect, WriteEffect, ClaimEffect, AbortEffect, InstallEffect, Moves
  <1>3. CASE ElapseEffect \/ CrashEffect \/ UNCHANGED vars
    BY <1>3 DEF ElapseEffect, CrashEffect, vars, Serving, Over
  <1> QED BY <1>1, <1>2, <1>3, StepCases

\* So do the requests that inserted what was due.
LEMMA DueStaysOld ==
    ASSUME IInv, [Next]_vars, NEW q \in Request, NEW c \in due[q] \cup claims
    PROVE  c.id \in Request /\ pc[c.id] = "done" /\ pc'[c.id] = "done"
  <1>1. c \in Claim
    BY DEF IInv, TypeOK
  <1>2. c.id \in Request /\ pc[c.id] = "done"
    BY <1>1 DEF IInv, DueIsFound, DueFound, ClaimsAreOld, Claim
  <1> QED BY <1>2, DoneStays

\* No commit inserts a claim that was due before.
LEMMA DueIsNotInserted ==
    ASSUME IInv, NEW r \in Request, InstallEffect(r), NEW q \in Request,
           NEW c \in due[q], c \in claims'
    PROVE  c \in claims
  <1>1. c \in claims \/ c \in touched[r]
    BY DEF InstallEffect, Install
  <1>2. pc[c.id] = "done" /\ pc[r] = "commit"
    BY DEF InstallEffect, IInv, DueIsFound, DueFound
  <1> QED BY <1>1, <1>2, HeldClaim

\* The snapshot finds the live claims, and waiting for the locks loses none.
LEMMA DueIsFoundStep ==
    ASSUME IInv, [Next]_vars
    PROVE  DueIsFound'
  <1> USE DEF IInv, DueIsFound, DueFound, Targets, TypeOK
  <1>1. ASSUME NEW r \in Request, NEW e \in Event, DeliverEffect(r, e)
        PROVE  DueIsFound'
    <2>1. \A q \in Request : \A c \in due[q] : pc'[c.id] = "done"
      BY DueStaysOld
    <2>2. due[r] = {} /\ \A q \in Request : q # r => ev'[q] = ev[q]
      BY <1>1 DEF DeliverEffect
    <2> QED BY <1>1, <2>1, <2>2 DEF DeliverEffect, Moves
  <1>2. ASSUME NEW r \in Request, LocalEffect(r)
        PROVE  DueIsFound'
    <2>1. \A q \in Request : \A c \in due[q] : pc'[c.id] = "done"
      BY DueStaysOld
    <2>2. \A c \in claims : pc'[c.id] = "done"
      BY <1>2, DueStaysOld
    <2>3. ASSUME NEW q \in Request, q # r PROVE DueFound(q)'
      BY <1>2, <2>1, <2>3 DEF LocalEffect, Moves
    <2>4. CASE pc[r] = "dispatch"
      <3>1. DueFound(r)'
        BY <1>2, <2>1, <2>2, <2>4 DEF LocalEffect, Moves, ClaimsOf
      <3> QED BY <2>3, <3>1
    <2>5. CASE pc[r] = "scan"
      <3>1. \A c \in due[r] \cap claims : c \in ClaimsOf(ev[r])
        BY DEF ClaimsOf
      <3>2. DueFound(r)'
        BY <1>2, <2>1, <2>5, <3>1 DEF LocalEffect, Moves
      <3> QED BY <2>3, <3>2
    <2>6. CASE pc[r] \in {"check", "participant"}
      <3>1. DueFound(r)'
        BY <1>2, <2>1, <2>6 DEF LocalEffect, Moves
      <3> QED BY <2>3, <3>1
    <2> QED BY <1>2, <2>4, <2>5, <2>6 DEF LocalEffect
  <1>3. ASSUME NEW r \in Request, WriteEffect(r)
        PROVE  DueIsFound'
    <2>1. \A q \in Request : \A c \in due[q] : pc'[c.id] = "done"
      BY DueStaysOld
    <2>2. ev[r].action # "unassigned"
      BY <1>3, ActionKinds DEF WriteEffect, Dispatched
    <2> QED BY <1>3, <2>1, <2>2 DEF WriteEffect, Moves
  <1>4. ASSUME NEW r \in Request, ClaimEffect(r)
        PROVE  DueIsFound'
    <2>1. \A q \in Request : \A c \in due[q] : pc'[c.id] = "done"
      BY DueStaysOld
    <2>2. ev[r].action = "unassigned" =>
             pc[r] = "unassign" /\ touched'[r] = snap[r] \cap claims
      BY <1>4 DEF ClaimEffect, Dispatched
    <2>3. DueFound(r)'
      <3>1. /\ ev' = ev /\ due' = due /\ claims' = claims /\ pc'[r] = "commit"
        BY <1>4 DEF ClaimEffect, Moves
      <3> QED BY <2>1, <2>2, <3>1
    <2>4. ASSUME NEW q \in Request, q # r PROVE DueFound(q)'
      BY <1>4, <2>1, <2>4 DEF ClaimEffect, Moves
    <2> QED BY <2>3, <2>4
  <1>5. ASSUME NEW r \in Request, AbortEffect(r)
        PROVE  DueIsFound'
    <2>1. \A q \in Request : \A c \in due[q] : pc'[c.id] = "done"
      BY DueStaysOld
    <2> QED BY <1>5, <2>1 DEF AbortEffect, EndTransaction, Moves
  <1>6. ASSUME NEW r \in Request, InstallEffect(r)
        PROVE  DueIsFound'
    <2>1. \A q \in Request : \A c \in due[q] : pc'[c.id] = "done"
      BY DueStaysOld
    <2>2. \A q \in Request : due[q] \cap claims' \subseteq due[q] \cap claims
      BY <1>6, DueIsNotInserted
    <2>3. DueFound(r)'
      BY <1>6, <2>1 DEF InstallEffect, Moves
    <2>4. ASSUME NEW q \in Request, q # r PROVE DueFound(q)'
      <3>1. /\ pc'[q] = pc[q] /\ ev' = ev /\ due' = due
            /\ snap'[q] = snap[q] /\ touched'[q] = touched[q]
        BY <1>6, <2>4 DEF InstallEffect, Install, EndTransaction, Moves
      <3> QED BY <2>1, <2>2, <3>1
    <2> QED BY <2>3, <2>4
  <1>7. CASE ElapseEffect
    BY <1>7 DEF ElapseEffect
  <1>8. CASE CrashEffect
    <2>1. \A q \in Request : \A c \in due[q] : pc'[c.id] = "done"
      BY DueStaysOld
    <2> QED BY <1>8, <2>1 DEF CrashEffect, Serving, Over
  <1>9. CASE UNCHANGED vars
    BY <1>9 DEF vars
  <1> QED BY <1>1, <1>2, <1>3, <1>4, <1>5, <1>6, <1>7, <1>8, <1>9, StepCases

\* A row is never taken away.
LEMMA AcceptedHasRowStep ==
    ASSUME IInv, [Next]_vars
    PROVE  AcceptedHasRow'
  <1> USE DEF IInv, AcceptedHasRow, TypeOK
  <1>1. ASSUME NEW r \in Request, NEW e \in Event, DeliverEffect(r, e)
        PROVE  AcceptedHasRow'
    <2>1. \A q \in booked : q \in Request /\ ev'[q] = ev[q]
      BY <1>1 DEF DeliverEffect, Delivered
    <2> QED BY <1>1, <2>1 DEF DeliverEffect
  <1>2. ASSUME NEW r \in Request, LocalEffect(r)
        PROVE  AcceptedHasRow'
    BY <1>2 DEF LocalEffect, Moves
  <1>3. ASSUME NEW r \in Request, WriteEffect(r)
        PROVE  AcceptedHasRow'
    BY <1>3 DEF WriteEffect, Moves
  <1>4. ASSUME NEW r \in Request, ClaimEffect(r)
        PROVE  AcceptedHasRow'
    BY <1>4 DEF ClaimEffect, Moves
  <1>5. ASSUME NEW r \in Request, AbortEffect(r)
        PROVE  AcceptedHasRow'
    BY <1>5 DEF AbortEffect, EndTransaction, Moves
  <1>6. ASSUME NEW r \in Request, InstallEffect(r)
        PROVE  AcceptedHasRow'
    <2>1. ASSUME NEW url \in Url, issues[url] # Absent PROVE issues'[url] # Absent
      BY <1>6, <2>1, DraftIsRow, IssuesAssumption DEF InstallEffect, Install
    <2>2. ev[r] \in Event /\ ev[r].url \in Url
      BY <1>6, PayloadTyped DEF InstallEffect, Delivered
    <2>3. ev[r].action = "accepted" => issues'[ev[r].url] # Absent
      <3>1. ev[r].action = "accepted" => draft[r] \in Row /\ draft[r] # NoDraft
        BY <1>6, WriterHasDraft, ActionKinds DEF InstallEffect
      <3> QED BY <1>6, <2>2, <3>1, IssuesAssumption DEF InstallEffect, Install
    <2>4. \A q \in booked : ev[q] \in Event /\ ev[q].url \in Url
      BY PayloadTyped DEF Delivered
    <2>5. booked' = booked \cup {r} /\ ev' = ev
      BY <1>6 DEF InstallEffect, Install
    <2> QED BY <2>1, <2>3, <2>4, <2>5
  <1>7. CASE ElapseEffect
    BY <1>7 DEF ElapseEffect
  <1>8. CASE CrashEffect
    BY <1>8 DEF CrashEffect, Serving, Over
  <1>9. CASE UNCHANGED vars
    BY <1>9 DEF vars
  <1> QED BY <1>1, <1>2, <1>3, <1>4, <1>5, <1>6, <1>7, <1>8, <1>9, StepCases

\* Begin acquires, the end of the transaction releases.
LEMMA ConnectedStep ==
    ASSUME IInv, [Next]_vars
    PROVE  Connected'
  <1> USE DEF IInv, Connected, TypeOK, Holding, Label
  <1>1. ASSUME NEW r \in Request, NEW e \in Event, DeliverEffect(r, e)
        PROVE  Connected'
    BY <1>1 DEF DeliverEffect, Moves
  <1>2. ASSUME NEW r \in Request, LocalEffect(r)
        PROVE  Connected'
    BY <1>2 DEF LocalEffect, Moves
  <1>3. ASSUME NEW r \in Request, WriteEffect(r)
        PROVE  Connected'
    BY <1>3 DEF WriteEffect, Moves
  <1>4. ASSUME NEW r \in Request, ClaimEffect(r)
        PROVE  Connected'
    BY <1>4 DEF ClaimEffect, Moves
  <1>5. ASSUME NEW r \in Request, AbortEffect(r)
        PROVE  Connected'
    BY <1>5 DEF AbortEffect, EndTransaction, Moves
  <1>6. ASSUME NEW r \in Request, InstallEffect(r)
        PROVE  Connected'
    BY <1>6 DEF InstallEffect, Install, EndTransaction, Moves
  <1>7. CASE ElapseEffect
    BY <1>7 DEF ElapseEffect
  <1>8. CASE CrashEffect
    BY <1>8 DEF CrashEffect, Serving, Over
  <1>9. CASE UNCHANGED vars
    BY <1>9 DEF vars
  <1> QED BY <1>1, <1>2, <1>3, <1>4, <1>5, <1>6, <1>7, <1>8, <1>9, StepCases

\* The second of two acceptances finds the row of the first.
LEMMA AnswersTellTheTruthStep ==
    ASSUME IInv, [Next]_vars
    PROVE  AnswersTellTheTruth'
  <1> USE DEF IInv, AnswersTellTheTruth, TypeOK
  <1>1. ASSUME NEW r \in Request, NEW e \in Event, DeliverEffect(r, e)
        PROVE  AnswersTellTheTruth'
    <2>1. \A q \in booked : q \in Request /\ ev'[q] = ev[q]
      BY <1>1 DEF DeliverEffect, Delivered
    <2>2. ASSUME NEW q \in Request, resp[q] = 200 PROVE ev'[q] = ev[q]
      BY <1>1, <2>2 DEF DeliverEffect, Delivered
    <2> QED BY <1>1, <2>1, <2>2 DEF DeliverEffect
  <1>2. ASSUME NEW r \in Request, LocalEffect(r)
        PROVE  AnswersTellTheTruth'
    BY <1>2 DEF LocalEffect, Moves
  <1>3. ASSUME NEW r \in Request, WriteEffect(r)
        PROVE  AnswersTellTheTruth'
    BY <1>3 DEF WriteEffect, Moves
  <1>4. ASSUME NEW r \in Request, ClaimEffect(r)
        PROVE  AnswersTellTheTruth'
    BY <1>4 DEF ClaimEffect, Moves
  <1>5. ASSUME NEW r \in Request, AbortEffect(r)
        PROVE  AnswersTellTheTruth'
    BY <1>5 DEF AbortEffect, EndTransaction, Moves
  <1>6. ASSUME NEW r \in Request, InstallEffect(r)
        PROVE  AnswersTellTheTruth'
    <2>1. booked' = booked \cup {r} /\ ev' = ev
          /\ \A q \in Request : q # r => resp'[q] = resp[q]
      BY <1>6 DEF InstallEffect, Install, Moves
    <2>2. ASSUME ev[r].action = "accepted",
                 NEW q \in booked, ev[q].action = "accepted", ev[q].url = ev[r].url
          PROVE  FALSE
      <3>1. issues[ev[r].url] = Absent
        BY <1>6, <2>2, ActionKinds DEF InstallEffect, DraftIsCurrent, DraftCurrent
      <3> QED BY <2>2, <3>1 DEF AcceptedHasRow
    <2> QED BY <2>1, <2>2
  <1>7. CASE ElapseEffect
    BY <1>7 DEF ElapseEffect
  <1>8. CASE CrashEffect
    BY <1>8 DEF CrashEffect, Serving, Over
  <1>9. CASE UNCHANGED vars
    BY <1>9 DEF vars
  <1> QED BY <1>1, <1>2, <1>3, <1>4, <1>5, <1>6, <1>7, <1>8, <1>9, StepCases

\* What was due is gone when the answer is 200, and never comes back.
LEMMA UnassignIsCompleteStep ==
    ASSUME IInv, [Next]_vars
    PROVE  UnassignIsComplete'
  <1> USE DEF IInv, UnassignIsComplete, TypeOK
  <1>1. ASSUME NEW r \in Request, NEW e \in Event, DeliverEffect(r, e)
        PROVE  UnassignIsComplete'
    <2>1. ASSUME NEW q \in Request, resp[q] = 200 PROVE ev'[q] = ev[q]
      BY <1>1, <2>1 DEF DeliverEffect, Delivered
    <2> QED BY <1>1, <2>1 DEF DeliverEffect
  <1>2. ASSUME NEW r \in Request, LocalEffect(r)
        PROVE  UnassignIsComplete'
    <2>1. ASSUME NEW q \in Request, q # r, resp'[q] = 200, ev[q].action = "unassigned"
          PROVE  due'[q] \cap claims' = {}
      BY <1>2, <2>1 DEF LocalEffect, Moves
    <2>2. ASSUME resp'[r] = 200
          PROVE  due'[r] \cap claims' = {}
      <3>1. pc[r] = "dispatch" /\ pc'[r] = "done" /\ due' = due
        BY <1>2, <2>2 DEF LocalEffect, Moves, Delivered
      <3> QED BY <3>1 DEF DueIsFound, DueFound
    <2>3. ev' = ev
      BY <1>2 DEF LocalEffect
    <2> QED BY <2>1, <2>2, <2>3
  <1>3. ASSUME NEW r \in Request, WriteEffect(r)
        PROVE  UnassignIsComplete'
    BY <1>3 DEF WriteEffect, Moves
  <1>4. ASSUME NEW r \in Request, ClaimEffect(r)
        PROVE  UnassignIsComplete'
    BY <1>4 DEF ClaimEffect, Moves
  <1>5. ASSUME NEW r \in Request, AbortEffect(r)
        PROVE  UnassignIsComplete'
    BY <1>5 DEF AbortEffect, EndTransaction, Moves
  <1>6. ASSUME NEW r \in Request, InstallEffect(r)
        PROVE  UnassignIsComplete'
    <2>1. \A q \in Request : due[q] \cap claims' \subseteq due[q] \cap claims
      BY <1>6, DueIsNotInserted
    <2>2. due' = due /\ ev' = ev /\ \A q \in Request : q # r => resp'[q] = resp[q]
      BY <1>6 DEF InstallEffect, Moves
    <2>3. ASSUME ev[r].action = "unassigned" PROVE due[r] \cap claims' = {}
      <3>1. claims' = claims \ touched[r] /\ due[r] \cap claims \subseteq touched[r]
        BY <1>6, <2>3 DEF InstallEffect, Install, DueIsFound, DueFound
      <3> QED BY <3>1
    <2> QED BY <2>1, <2>2, <2>3
  <1>7. CASE ElapseEffect
    BY <1>7 DEF ElapseEffect
  <1>8. CASE CrashEffect
    BY <1>8 DEF CrashEffect, Serving, Over
  <1>9. CASE UNCHANGED vars
    BY <1>9 DEF vars
  <1> QED BY <1>1, <1>2, <1>3, <1>4, <1>5, <1>6, <1>7, <1>8, <1>9, StepCases
-----------------------------------------------------------------------------
(* The theorems.                                                           *)

\* The empty server satisfies the invariant ...
LEMMA InitEstablishes == Init => IInv
  <1> SUFFICES ASSUME Init PROVE IInv
    OBVIOUS
  <1>1. TypeOK
    BY DEF Init, TypeOK, Label
  <1>2. Delivered /\ Dispatched
    BY DEF Init, Delivered, Dispatched
  <1>3. DraftIsCurrent /\ ClaimsAreCurrent /\ DueIsFound
    BY DEF Init, DraftIsCurrent, DraftCurrent, ClaimsAreCurrent, ClaimsCurrent,
           DueIsFound, DueFound
  <1>4. Exclusive /\ ClaimsAreOld /\ AcceptedHasRow /\ Connected
    BY DEF Init, Exclusive, ClaimsAreOld, AcceptedHasRow, Connected, Holding, Label
  <1>5. AnswersTellTheTruth /\ UnassignIsComplete
    BY DEF Init, AnswersTellTheTruth, UnassignIsComplete
  <1> QED BY <1>1, <1>2, <1>3, <1>4, <1>5 DEF IInv

\* ... and every step preserves it ...
LEMMA StepPreserves == IInv /\ [Next]_vars => IInv'
  BY TypeStep, DeliveredStep, DispatchedStep, DraftIsCurrentStep,
     ClaimsAreCurrentStep, ExclusiveStep, ClaimsAreOldStep, DueIsFoundStep,
     AcceptedHasRowStep, ConnectedStep, AnswersTellTheTruthStep,
     UnassignIsCompleteStep DEF IInv

\* ... so it always holds.
LEMMA Invariance == Spec => []IInv
  BY InitEstablishes, StepPreserves, PTL DEF Spec

\* Every variable keeps its type; in particular a promised bounty never leaves
\* the range of its INTEGER column.
THEOREM TypeCorrect == Spec => []TypeOK
  <1>1. IInv => TypeOK
    BY DEF IInv
  <1> QED BY <1>1, Invariance, PTL

\* Whoever is told 200 is committed, and an issue is accepted once.
THEOREM AcceptedOnce == Spec => []AnswersTellTheTruth
  <1>1. IInv => AnswersTellTheTruth
    BY DEF IInv
  <1> QED BY <1>1, Invariance, PTL

\* A successful unassignment leaves no claim that was live when it began.
THEOREM NoClaimLeft == Spec => []UnassignIsComplete
  <1>1. IInv => UnassignIsComplete
    BY DEF IInv
  <1> QED BY <1>1, Invariance, PTL

\* Of the transactions open at one time, one at most writes an issue's row.
LEMMA OneWriter ==
    ASSUME IInv, NEW url \in Url
    PROVE  Cardinality(Writers(url)) <= 1
  <1>1. CASE Writers(url) = {}
    BY <1>1, FS_EmptySet
  <1>2. CASE Writers(url) # {}
    <2>1. PICK r \in Request : r \in Writers(url)
      BY <1>2 DEF Writers
    <2>2. Writers(url) = {r}
      BY <2>1 DEF Writers, IInv, Exclusive
    <2> QED BY <2>2, FS_Singleton
  <1> QED BY <1>1, <1>2

\* No connection, row or claim is held beyond its transaction, or by two.
THEOREM NothingLeaks == Spec => []ResourcesMatchProgress
  <1>1. ASSUME IInv PROVE ResourcesMatchProgress
    <2>1. ASSUME NEW r \in Request
          PROVE  /\ draft[r] # NoDraft \/ touched[r] # {} => pc[r] = "commit"
                 /\ ev[r] # NoEvent /\ ev[r].action = "unassigned" =>
                       touched[r] \subseteq claims
      BY <1>1, ActionKinds
         DEF IInv, DraftIsCurrent, DraftCurrent, ClaimsAreCurrent, ClaimsCurrent
    <2>2. \A q, r \in Request : q # r => touched[q] \cap touched[r] = {}
      BY <1>1 DEF IInv, Exclusive
    <2>3. conn = {r \in Request : pc[r] \in Holding}
      BY <1>1 DEF IInv, Connected
    <2> QED BY <1>1, <2>1, <2>2, <2>3, OneWriter DEF ResourcesMatchProgress
  <1> QED BY <1>1, Invariance, PTL

\* Issues and its board mean the same by a row's changes.
LEMMA SameRows ==
    /\ Board!NewIssue = NewIssue /\ Board!RowActions = RowActions
    /\ \A e : Board!Parsed(e) <=> Parsed(e)
    /\ \A row, e : Board!Updated(row, e) = Updated(row, e)
  BY DEF Board!NewIssue, NewIssue, Board!RowActions, RowActions, Board!Parsed,
         Parsed, Board!Updated, Updated, Board!Int32, Int32,
         Board!UpdateIssueDifficulty, UpdateIssueDifficulty,
         Board!UpdateIssueBounty, UpdateIssueBounty, Board!AddIssueTag, AddIssueTag,
         Board!CloseIssue, CloseIssue, Board!OpenIssue, OpenIssue

\* A commit is one event of the board, taking effect on the tables as they are.
LEMMA InstallImplementsBoard ==
    ASSUME IInv, NEW r \in Request, InstallEffect(r)
    PROVE  \/ Board!Accept(ev[r]) \/ Board!Change(ev[r])
           \/ Board!Assign(ev[r]) \/ Board!Unassign(ev[r])
  <1> DEFINE e == ev[r]
  <1>1. /\ pc[r] = "commit" /\ elapsed' = elapsed /\ e \in Event
        /\ issues' = IF draft[r] = NoDraft THEN issues
                     ELSE [issues EXCEPT ![e.url] = draft[r]]
        /\ claims' = IF e.action = "assigned" THEN claims \cup touched[r]
                     ELSE claims \ touched[r]
    BY DEF InstallEffect, Install, IInv, Delivered
  <1>2. DraftCurrent(r) /\ ClaimsCurrent(r)
    BY DEF IInv, DraftIsCurrent, ClaimsAreCurrent
  <1>3. e.action \notin UserActions => claims' = claims /\ draft[r] # NoDraft
    BY <1>1, <1>2, ActionKinds, WriterHasDraft DEF ClaimsCurrent
  <1>4. CASE e.action = "accepted"
    <2>1. issues[e.url] = Absent /\ draft[r] = NewIssue
      BY <1>1, <1>2, <1>4, ActionKinds DEF DraftCurrent
    <2>2. Board!Accept(e)
      BY <1>1, <1>3, <1>4, <2>1, ActionKinds, SameRows DEF Board!Accept
    <2> QED BY <2>2
  <1>5. CASE e.action \in RowActions
    <2>1. /\ Parsed(e) /\ issues[e.url] # Absent
          /\ draft[r] = Updated(issues[e.url], e)
      BY <1>1, <1>2, <1>5, ActionKinds DEF DraftCurrent
    <2>2. Board!Change(e)
      BY <1>1, <1>3, <1>5, <2>1, ActionKinds, SameRows DEF Board!Change
    <2> QED BY <2>2
  <1>6. CASE e.action \in UserActions
    <2>1. issues' = issues
      BY <1>1, <1>2, <1>6, ActionKinds DEF DraftCurrent
    <2>2. CASE e.action = "assigned"
      <3>1. touched[r] = {NewClaim(r)}
        BY <1>1, <1>2, <2>2, ActionKinds DEF ClaimsCurrent
      <3>2. NewClaim(r) \notin claims /\ \A c \in claims : c.id # r
        BY <1>1, NewClaimIsNew
      <3>3. Board!Assign(e)
        BY <1>1, <2>1, <2>2, <3>1, <3>2 DEF Board!Assign, NewClaim
      <3> QED BY <3>3
    <2>3. CASE e.action = "unassigned"
      <3>1. /\ touched[r] # {} /\ touched[r] \subseteq claims
            /\ \A c \in touched[r] : Targets(r, c)
        BY <1>1, <1>2, <2>3, ActionKinds DEF ClaimsCurrent
      <3>2. Board!Unassign(e)
        BY <1>1, <2>1, <2>3, <3>1 DEF Board!Unassign, Targets
      <3> QED BY <3>2
    <2> QED BY <1>6, <2>2, <2>3 DEF UserActions
  <1>7. e.action \in RowActions \cup UserActions \cup {"accepted"}
    BY <1>1, <1>2 DEF DraftCurrent
  <1> QED BY <1>4, <1>5, <1>6, <1>7

\* The transactions implement the board: the events take effect one at a time,
\* each completely, in the order of their commits.
THEOREM Serializable == Spec => OneAtATime
  <1>1. Init => Board!Init
    BY DEF Init, Board!Init
  <1>2. ASSUME IInv, [Next]_vars
        PROVE  Board!Next \/ UNCHANGED <<issues, claims, elapsed>>
    <2>1. TypeOK
      BY <1>2 DEF IInv
    <2>2. ASSUME NEW r \in Request, InstallEffect(r) PROVE Board!Next
      <3>1. ev[r] \in Event
        BY <1>2, <2>2 DEF InstallEffect, IInv, Delivered
      <3> QED BY <1>2, <2>2, <3>1, InstallImplementsBoard DEF Board!Next
    <2>3. ASSUME ElapseEffect PROVE Board!Next
      BY <2>3 DEF ElapseEffect, Board!Elapse, Board!Next
    <2>4. ASSUME ~ElapseEffect, ~\E r \in Request : InstallEffect(r)
          PROVE  UNCHANGED <<issues, claims, elapsed>>
      BY <1>2, <2>1, <2>4, StepCases
         DEF DeliverEffect, LocalEffect, WriteEffect, ClaimEffect, AbortEffect,
             CrashEffect, vars
    <2> QED BY <2>2, <2>3, <2>4
  <1> QED BY <1>1, <1>2, Invariance, PTL DEF Spec, OneAtATime, Board!Spec
-----------------------------------------------------------------------------
(* A row's tags and the committed "tag" events.                            *)

\* Where a tag stands in a row, and the committed events that put it there.
Places(tags, tag) == {i \in DOMAIN tags : tags[i] = tag}

TagEvents(url, tag) ==
    {r \in booked : ev[r].action = "tag" /\ ev[r].url = url /\ ev[r].arg = tag}

\* There are as many of the one as of the other, and none without a row.
TagCounted(url, tag) ==
    /\ IsFiniteSet(TagEvents(url, tag))
    /\ issues[url] = Absent => TagEvents(url, tag) = {}
    /\ issues[url] # Absent =>
          Cardinality(Places(issues[url].tags, tag)) = Cardinality(TagEvents(url, tag))

Tagged == \A url \in Url, tag \in ArgsOf("tag") : TagCounted(url, tag)

\* Appending a tag adds one place for it and none for the others.
LEMMA PlacesOfAppend ==
    ASSUME NEW S, NEW s \in Seq(S), NEW t \in S
    PROVE  /\ Cardinality(Places(Append(s, t), t)) = Cardinality(Places(s, t)) + 1
           /\ \A x : x # t => Places(Append(s, t), x) = Places(s, x)
  <1>1. /\ DOMAIN s = 1 .. Len(s) /\ Len(s) \in Nat
        /\ DOMAIN Append(s, t) = 1 .. (Len(s) + 1)
        /\ \A i \in 1 .. Len(s) : Append(s, t)[i] = s[i]
        /\ Append(s, t)[Len(s) + 1] = t
    OBVIOUS
  <1>2. Places(Append(s, t), t) = Places(s, t) \cup {Len(s) + 1}
    BY <1>1 DEF Places
  <1>3. Len(s) + 1 \notin Places(s, t)
    BY <1>1 DEF Places
  <1>4. IsFiniteSet(Places(s, t))
    <2>1. IsFiniteSet(1 .. Len(s)) /\ Places(s, t) \subseteq 1 .. Len(s)
      BY <1>1, FS_Interval DEF Places
    <2> QED BY <2>1, FS_Subset
  <1>5. \A x : x # t => Places(Append(s, t), x) = Places(s, x)
    BY <1>1 DEF Places
  <1> QED BY <1>2, <1>3, <1>4, <1>5, FS_AddElement

\* No other event of a row touches its tags.
LEMMA OnlyTagsAreAppended ==
    ASSUME NEW row \in Row, NEW e, e.action \in RowActions
    PROVE  Updated(row, e).tags =
             IF e.action = "tag" THEN Append(row.tags, e.arg) ELSE row.tags
  BY DEF Updated, UpdateIssueDifficulty, UpdateIssueBounty, AddIssueTag,
         CloseIssue, OpenIssue, RowActions, Row

\* A commit appends the tag of its event, once.
LEMMA InstallCounts ==
    ASSUME IInv, NEW r \in Request, InstallEffect(r),
           NEW url \in Url, NEW tag \in ArgsOf("tag"), TagCounted(url, tag)
    PROVE  TagCounted(url, tag)'
  <1> DEFINE e == ev[r]
             T == TagEvents(url, tag)
  <1>1. /\ pc[r] = "commit" /\ ev' = ev /\ booked' = booked \cup {r}
        /\ issues' = IF draft[r] = NoDraft THEN issues
                     ELSE [issues EXCEPT ![e.url] = draft[r]]
        /\ r \notin booked /\ e \in Event /\ e.url \in Url
    BY PayloadTyped DEF InstallEffect, Install, IInv, Delivered
  <1>2. TypeOK /\ DraftCurrent(r)
    BY DEF IInv, DraftIsCurrent
  <1>3. /\ e.action = "tag" /\ e.url = url /\ e.arg = tag =>
              T' = T \cup {r} /\ r \notin T
        /\ ~(e.action = "tag" /\ e.url = url /\ e.arg = tag) => T' = T
    BY <1>1 DEF TagEvents
  <1>4. ASSUME e.url # url
        PROVE  TagCounted(url, tag)'
    <2>1. issues'[url] = issues[url]
      BY <1>1, <1>2, <1>4 DEF TypeOK
    <2> QED BY <1>3, <1>4, <2>1 DEF TagCounted
  <1>5. ASSUME e.url = url, e.action = "accepted"
        PROVE  TagCounted(url, tag)'
    <2>1. issues[url] = Absent /\ draft[r] = NewIssue /\ draft[r] # NoDraft
      BY <1>1, <1>2, <1>5, ActionKinds, WriterHasDraft DEF DraftCurrent
    <2>2. issues'[url] = NewIssue /\ NewIssue # Absent
      BY <1>1, <1>2, <1>5, <2>1, NewIssueTyped, IssuesAssumption DEF TypeOK
    <2>3. Places(NewIssue.tags, tag) = {}
      BY DEF Places, NewIssue
    <2>4. T' = {} /\ IsFiniteSet(T')
      BY <1>3, <1>5, <2>1, FS_EmptySet DEF TagCounted
    <2>5. issues'[url] # Absent /\ Places(issues'[url].tags, tag) = T'
      BY <2>2, <2>3, <2>4
    <2> QED BY <2>4, <2>5 DEF TagCounted
  <1>6. ASSUME e.url = url, e.action \in RowActions
        PROVE  TagCounted(url, tag)'
    <2>1. /\ issues[url] # Absent /\ draft[r] = Updated(issues[url], e)
          /\ draft[r] # NoDraft /\ draft[r] \in Row
      BY <1>1, <1>2, <1>6, ActionKinds, WriterHasDraft DEF DraftCurrent
    <2>2. issues'[url] = draft[r] /\ issues'[url] # Absent /\ issues[url] \in Row
      BY <1>1, <1>2, <1>6, <2>1, IssuesAssumption DEF TypeOK
    <2>3. issues'[url].tags = IF e.action = "tag" THEN Append(issues[url].tags, e.arg)
                              ELSE issues[url].tags
      BY <1>6, <2>1, <2>2, OnlyTagsAreAppended
    <2>4. issues[url].tags \in Seq(ArgsOf("tag"))
      BY <2>2 DEF Row
    <2>5. /\ IsFiniteSet(T)
          /\ Cardinality(Places(issues[url].tags, tag)) = Cardinality(T)
      BY <2>1 DEF TagCounted
    <2>6. CASE e.action = "tag" /\ e.arg = tag
      <3>1. Cardinality(Places(issues'[url].tags, tag)) = Cardinality(T) + 1
        BY <2>3, <2>4, <2>5, <2>6, PlacesOfAppend
      <3>2. IsFiniteSet(T') /\ Cardinality(T') = Cardinality(T) + 1
        BY <1>3, <1>6, <2>5, <2>6, FS_AddElement
      <3> QED BY <2>2, <3>1, <3>2 DEF TagCounted
    <2>7. CASE ~(e.action = "tag" /\ e.arg = tag)
      <3>1. e.action = "tag" => e.arg \in ArgsOf("tag")
        BY <1>1 DEF ArgsOf
      <3>2. Places(issues'[url].tags, tag) = Places(issues[url].tags, tag)
        BY <2>3, <2>4, <2>7, <3>1, PlacesOfAppend
      <3>3. T' = T
        BY <1>3, <2>7
      <3> QED BY <2>2, <2>5, <3>2, <3>3 DEF TagCounted
    <2> QED BY <2>6, <2>7
  <1>7. ASSUME e.url = url, e.action \in UserActions
        PROVE  TagCounted(url, tag)'
    <2>1. issues' = issues
      BY <1>1, <1>2, <1>7, ActionKinds DEF DraftCurrent
    <2>2. T' = T
      BY <1>3, <1>7 DEF UserActions
    <2> QED BY <2>1, <2>2 DEF TagCounted
  <1>8. e.action \in RowActions \cup UserActions \cup {"accepted"}
    BY <1>1, <1>2 DEF DraftCurrent
  <1> QED BY <1>4, <1>5, <1>6, <1>7, <1>8

\* Nobody else changes a row or the committed events.
LEMMA TaggedStep ==
    ASSUME IInv, Tagged, [Next]_vars
    PROVE  Tagged'
  <1>1. ASSUME NEW r \in Request, InstallEffect(r)
        PROVE  Tagged'
    BY <1>1, InstallCounts DEF Tagged
  <1>2. ASSUME ~\E r \in Request : InstallEffect(r)
        PROVE  Tagged'
    <2>1. issues' = issues /\ booked' = booked
      BY <1>2, StepCases
         DEF IInv, DeliverEffect, LocalEffect, WriteEffect, ClaimEffect,
             AbortEffect, ElapseEffect, CrashEffect, vars
    <2>2. ASSUME NEW r \in booked PROVE ev'[r] = ev[r]
      BY DoneStays DEF IInv, TypeOK, Delivered
    <2>3. \A url, tag : TagEvents(url, tag)' = TagEvents(url, tag)
      BY <2>1, <2>2 DEF TagEvents
    <2> QED BY <2>1, <2>3 DEF Tagged, TagCounted
  <1> QED BY <1>1, <1>2

\* No tag is lost or doubled: of two events that tag one issue at the same time,
\* the second appends to the row the first one left.
THEOREM NoTagIsLost == Spec => []TagsKept
  <1>1. Init => Tagged
    <2> SUFFICES ASSUME Init, NEW url \in Url, NEW tag \in ArgsOf("tag")
                 PROVE  TagCounted(url, tag)
      BY DEF Tagged
    <2>1. TagEvents(url, tag) = {} /\ issues[url] = Absent
      BY DEF Init, TagEvents
    <2> QED BY <2>1, FS_EmptySet DEF TagCounted
  <1>2. IInv /\ Tagged /\ [Next]_vars => Tagged'
    BY TaggedStep
  <1>3. Tagged => TagsKept
    BY DEF Tagged, TagCounted, TagsKept, Places, TagEvents
  <1> QED BY <1>1, <1>2, <1>3, Invariance, PTL DEF Spec
=============================================================================
