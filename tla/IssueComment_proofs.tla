------------------------ MODULE IssueComment_proofs ------------------------
(***************************************************************************)
(* Proofs about IssueComment, for every set of requests, users and         *)
(* payloads, every pool size and every integer width.  The argument is one *)
(* inductive invariant, IInv; the safety properties of IssueComment follow *)
(* from it.                                                                *)
(***************************************************************************)
EXTENDS IssueComment, Int32_proofs, Totals_proofs, TLAPS

-----------------------------------------------------------------------------
(* The inductive invariant, in parts.                                      *)

\* A request that was delivered carries a payload; only a finished one was
\* answered.
Delivered ==
    \A r \in Request :
        /\ pc[r] # "idle" => ev[r] \in Comments
        /\ resp[r] # 0 => pc[r] = "done"

\* Before the command is parsed.
Unparsed == {"idle", "lookup", "query", "account"}

\* Where a request is in the handler says which command it executes, and that
\* is the command of its comment.
Dispatched ==
    \A r \in Request :
        /\ pc[r] \in {"begin", "update", "insert", "commit", "rank"} =>
              action[r] \in BountyCommands
        /\ pc[r] = "publish" => action[r] \in Command
        /\ pc[r] \in Unparsed => action[r] = "NoAction"
        /\ action[r] \in Command => action[r] = ev[r].cmd
        /\ resp[r] = 400 => action[r] = "NoAction"

\* Whoever is a maintainer when the lookup reads the column was one since the
\* delivery, and only such a request executes a bounty.
RoleIsGenuine ==
    \A r \in Request :
        /\ pc[r] \in {"lookup", "query"} /\ IsMaintainer(ev[r], maintainers) => r \in trusted
        /\ action[r] \in BountyCommands => r \in trusted

\* An open transaction computed its sum from the balance that is still the
\* committed one: the row lock keeps every other transaction from changing it.
SumIsCurrent ==
    \A r \in Request :
        /\ Open(r) => /\ ev[r].target \in Account
                      /\ pend[r] = bounty[ev[r].target] + Amount(ev[r])
        /\ ~ Open(r) => pend[r] = 0
        /\ pc[r] = "commit" \/ r \in inDoubt => ev[r].by \in Registered

\* Where a request is after its commit.
Committed == {"rank", "publish", "done", "crashed"}

\* A row was written by the one request it names, which executed a bounty and is
\* past its commit.
RowsAreGenuine ==
    \A row \in bountyLog :
        /\ row = LogRow(row.req)
        /\ pc[row.req] \in Committed
        /\ action[row.req] \in BountyCommands
        /\ row.req \in trusted /\ ev[row.req].by \in Registered

\* A call that nobody waits for was made by a request that had got so far: a
\* COMMIT by one that is over and has no row, a ZINCRBY by one that has its row,
\* and the XADD of a bounty by one that was counted.
LateIsGenuine ==
    \A r \in Request :
        /\ r \in inDoubt => /\ pc[r] \in {"done", "crashed"} /\ resp[r] \in {0, 500}
                            /\ action[r] \in BountyCommands
                            /\ \A row \in bountyLog : row.req # r
        /\ lateRanks[r] > 0 => LogRow(r) \in bountyLog
        /\ lateRecords[r] > 0 => /\ pc[r] \in {"publish", "done", "crashed"}
                                 /\ action[r] \in Command
                                 /\ ev[r].cmd \in BountyCommands => ranked[r] > 0

\* Progress behind the commit: the row is there, then the ranking.
RecordedInOrder ==
    \A r \in Request :
        /\ pc[r] = "rank" => LogRow(r) \in bountyLog
        /\ pc[r] = "publish" /\ ev[r].cmd \in BountyCommands =>
              ranked[r] > 0

IInv ==
    /\ TypeOK
    /\ Delivered
    /\ Dispatched
    /\ RoleIsGenuine
    /\ SumIsCurrent
    /\ RowsAreGenuine
    /\ LateIsGenuine
    /\ RecordedInOrder
    /\ ResourcesMatchProgress
    /\ PublishedIsRecorded
    /\ OkMeansEverywhere
-----------------------------------------------------------------------------
(* The pure parts.                                                         *)

\* What a payload books fits the column.
LEMMA AmountInRange == \A c \in Comments : Amount(c) \in INT
  <1> SUFFICES ASSUME NEW c \in Comments PROVE Amount(c) \in INT
    OBVIOUS
  <1>1. c.amount \in Int
    BY CommentAssumption DEF Comment
  <1>2. Int32(c.amount) \in INT
    BY <1>1, Int32InRange
  <1>3. -Int32(c.amount) \in Int
    BY <1>2, HalfRangeAssumption DEF INT
  <1> QED BY <1>2, <1>3, Int32InRange DEF Amount, SignedAmount, Negate32

\* What is executed is the command of the comment; a bounty or a penalty is
\* executed for a maintainer of the repository only.
LEMMA ActionIsCommand ==
    ASSUME NEW c, NEW role
    PROVE  /\ parseComment(c, role) \in Command \cup {"NoAction", "SyntaxError"}
           /\ parseComment(c, role) \in Command => parseComment(c, role) = c.cmd
           /\ parseComment(c, role) \in BountyCommands => role = "Maintainer"
  BY DEF parseComment, WellFormed, Command, BountyCommands, BadgeCommands, ClaimCommands

\* The parts of a delivered payload.
LEMMA PayloadTyped ==
    ASSUME NEW c \in Comments
    PROVE  /\ c.by \in User /\ c.target \in User
           /\ c.cmd \in Command \cup {"other"} /\ c.amount \in Int
           /\ Amount(c) \in INT /\ Amount(c) \in Int
  <1>1. c \in Comment
    BY CommentAssumption
  <1>2. Amount(c) \in INT
    BY AmountInRange
  <1> QED BY <1>1, <1>2, HalfRangeAssumption DEF Comment, INT

\* A row of the ledger names a request.
LEMMA RequestOfRow == ASSUME IInv PROVE \A row \in bountyLog : row.req \in Request
  BY DEF IInv, TypeOK, LogRows

\* A late call carries a payload.
LEMMA LateIsDelivered ==
    ASSUME IInv, NEW r \in Request, r \in inDoubt \/ lateRanks[r] > 0 \/ lateRecords[r] > 0
    PROVE  pc[r] # "idle" /\ ev[r] \in Comments
  <1>1. CASE r \in inDoubt \/ lateRecords[r] > 0
    BY <1>1 DEF IInv, Delivered, LateIsGenuine
  <1>2. CASE lateRanks[r] > 0
    <2>1. LogRow(r) \in bountyLog /\ LogRow(r).req = r
      BY <1>2 DEF IInv, LateIsGenuine, LogRow
    <2>2. pc[r] \in Committed
      BY <2>1 DEF IInv, RowsAreGenuine
    <2> QED BY <2>2 DEF IInv, Delivered, Committed
  <1> QED BY <1>1, <1>2

\* What a request in the last steps writes has the type of its store.
LEMMA RowTyped ==
    ASSUME IInv, NEW r \in Request, pc[r] = "commit" \/ r \in inDoubt
    PROVE  LogRow(r) \in LogRows
  <1>1. ev[r] \in Comments /\ ev[r].target \in Account
    BY DEF IInv, Delivered, SumIsCurrent, LateIsGenuine, Open
  <1> QED BY <1>1, PayloadTyped DEF LogRow, LogRows

\* Likewise for a stream record.
LEMMA RecordTyped ==
    ASSUME IInv, NEW r \in Request, pc[r] = "publish" \/ lateRecords[r] > 0
    PROVE  Record(r) \in Records
  <1>1. ev[r] \in Comments /\ ev[r].cmd \in Command
    BY DEF IInv, Delivered, Dispatched, LateIsGenuine
  <1> QED BY <1>1, PayloadTyped DEF Record, Records
-----------------------------------------------------------------------------
(* The actions, grouped by what they touch.                                *)

\* Steps that leave the ledger, its locks and Valkey alone.
Local(r) ==
    \/ AcquireForLookup(r) \/ NotAMaintainer(r) \/ UnknownRepository(r)
    \/ LookupFails(r) \/ Begin(r) \/ AddBountyLog(r)
    \/ RankFails(r) \/ PublishFails(r)

Dispatching(r) == FindMaintainer(r) \/ ParticipantExists(r)
Aborting(r) ==
    UpdateRefused(r) \/ DispatcherNotRegistered(r) \/ TransactionFails(r) \/ CommitDropped(r)
Losing(r) == CommitReplyLost(r) \/ RankReplyLost(r) \/ PublishReplyLost(r)
Installing(r) == Commit(r) \/ CommitLands(r)
Ranking(r) == Rank(r) \/ RankLands(r)
Appending(r) == Publish(r) \/ RecordLands(r)

\* The request goes on to one of the labels, answering only when it is done;
\* the others stay where they are.
Moves(r, labels) ==
    /\ pc' \in [Request -> Label]
    /\ pc'[r] \in labels
    /\ \A q \in Request : q # r => pc'[q] = pc[q] /\ resp'[q] = resp[q]
    /\ resp' \in [Request -> {0, 200, 400, 500}]
    /\ resp'[r] # resp[r] => pc'[r] = "done"

\* Going to a label and answering are both moves of one request.
LEMMA MovesByGoto ==
    ASSUME TypeOK, NEW r \in Request, NEW l \in Label, Goto(r, l), UNCHANGED resp
    PROVE  Moves(r, {l})
  BY DEF Goto, Moves, TypeOK

\* An answer ends the request with its status.
LEMMA MovesByAnswer ==
    ASSUME TypeOK, NEW r \in Request, NEW s \in {200, 400, 500}, Answer(r, s)
    PROVE  Moves(r, {"done"}) /\ resp'[r] = s
  <1>1. pc' = [pc EXCEPT ![r] = "done"] /\ resp' = [resp EXCEPT ![r] = s]
    BY DEF Answer, Goto
  <1>2. pc \in [Request -> Label] /\ resp \in [Request -> {0, 200, 400, 500}]
    BY DEF TypeOK
  <1> QED BY <1>1, <1>2 DEF Moves, Label

\* Nothing moves for the client when a call lands that it does not wait for.
Stays(r) == Moves(r, {pc[r]}) /\ resp' = resp

LEMMA MovesByStaying ==
    ASSUME TypeOK, NEW r \in Request, UNCHANGED <<pc, resp>>
    PROVE  Stays(r)
  BY DEF Moves, Stays, TypeOK

\* What the steps of each group change.
LocalEffect(r) ==
    /\ UNCHANGED <<ev, maintainers, trusted, action, bounty, bountyLog, rowLock,
                   pend, inDoubt, late, ranked, score, streams>>
    /\ \/ /\ pc[r] = "lookup" /\ Moves(r, {"query"})
          /\ conn' = conn \cup {r}
       \/ /\ pc[r] = "query" /\ Moves(r, {"account"})
          /\ conn' = conn
       \/ /\ pc[r] \in {"lookup", "query", "account"} /\ Moves(r, {"done"})
          /\ conn' = conn \ {r} /\ resp'[r] = 400
       \/ /\ pc[r] = "begin" /\ Moves(r, {"update"})
          /\ conn' = conn \cup {r}
       \/ /\ pc[r] = "insert" /\ Moves(r, {"commit"})
          /\ conn' = conn /\ ev[r].by \in Registered
       \/ /\ pc[r] \in {"rank", "publish"} /\ Moves(r, {"done"})
          /\ conn' = conn /\ resp'[r] = 500

\* Lookups, the INSERT and the failures behind the commit are local.
LEMMA LocalHasEffect ==
    ASSUME TypeOK, NEW r \in Request, Local(r)
    PROVE  LocalEffect(r)
  <1>1. UNCHANGED <<ev, maintainers, trusted, action, bounty, bountyLog, rowLock,
                    pend, inDoubt, late, ranked, score, streams>>
    BY DEF Local, AcquireForLookup, NotAMaintainer, UnknownRepository, LookupFails,
         Begin, AddBountyLog, RankFails, PublishFails, store, valkey, roles
  <1>2. CASE AcquireForLookup(r)
    BY <1>1, <1>2, MovesByGoto DEF AcquireForLookup, LocalEffect, Label
  <1>3. CASE NotAMaintainer(r)
    BY <1>1, <1>3, MovesByGoto DEF NotAMaintainer, LocalEffect, Label
  <1>4. CASE UnknownRepository(r) \/ LookupFails(r)
    BY <1>1, <1>4, MovesByAnswer DEF UnknownRepository, LookupFails, LocalEffect
  <1>5. CASE Begin(r)
    BY <1>1, <1>5, MovesByGoto DEF Begin, LocalEffect, Label
  <1>6. CASE AddBountyLog(r)
    BY <1>1, <1>6, MovesByGoto DEF AddBountyLog, LocalEffect, Label
  <1>7. CASE RankFails(r) \/ PublishFails(r)
    BY <1>1, <1>7, MovesByAnswer DEF RankFails, PublishFails, LocalEffect
  <1> QED BY <1>2, <1>3, <1>4, <1>5, <1>6, <1>7 DEF Local

DispatchEffect(r) ==
    /\ pc[r] \in {"query", "account"} /\ Moves(r, {"begin", "publish", "done"})
    /\ conn' = conn \ {r}
    /\ action' = [action EXCEPT ![r] = action'[r]]
    /\ action'[r] \in Command \cup {"NoAction", "SyntaxError"}
    /\ action'[r] \in Command => action'[r] = ev[r].cmd
    /\ action'[r] \in BountyCommands => pc[r] = "query" /\ IsMaintainer(ev[r], maintainers)
    /\ pc'[r] = "begin" => action'[r] \in BountyCommands
    /\ pc'[r] = "publish" => action'[r] \in BadgeCommands \cup ClaimCommands
    /\ pc'[r] = "done" => \/ resp'[r] = 200 /\ action'[r] = "NoAction"
                          \/ resp'[r] = 500
    /\ UNCHANGED <<ev, maintainers, trusted, bounty, bountyLog, rowLock, pend, inDoubt,
                   late, ranked, score, streams>>

\* A request executes the command of its comment or none, a bounty only after
\* its author was found among the maintainers.
LEMMA DispatchHasEffect ==
    ASSUME TypeOK, NEW r \in Request, Dispatching(r)
    PROVE  DispatchEffect(r)
  <1>1. ASSUME NEW role, Dispatch(r, role), pc[r] \in {"query", "account"},
               role = "Maintainer" => pc[r] = "query" /\ IsMaintainer(ev[r], maintainers)
        PROVE  DispatchEffect(r)
    <2> DEFINE command == parseComment(ev[r], role)
    <2>1. /\ command \in Command \cup {"NoAction", "SyntaxError"}
          /\ command \in Command => command = ev[r].cmd
          /\ command \in BountyCommands => role = "Maintainer"
      BY ActionIsCommand
    <2>2. /\ action' = [action EXCEPT ![r] = command] /\ conn' = conn \ {r}
          /\ action'[r] = command
          /\ UNCHANGED <<ev, maintainers, trusted, bounty, bountyLog, rowLock, pend,
                         inDoubt, late, ranked, score, streams>>
      BY <1>1 DEF Dispatch, store, valkey, TypeOK
    <2> HIDE DEF command
    <2>3. ASSUME \/ /\ Moves(r, {"done"})
                    /\ \/ resp'[r] = 200 /\ command = "NoAction"
                       \/ resp'[r] = 500
                 \/ Moves(r, {"begin"}) /\ command \in BountyCommands
                 \/ Moves(r, {"publish"}) /\ command \in BadgeCommands \cup ClaimCommands
          PROVE  DispatchEffect(r)
      <3>1. /\ Moves(r, {"begin", "publish", "done"})
            /\ pc'[r] = "begin" => command \in BountyCommands
            /\ pc'[r] = "publish" => command \in BadgeCommands \cup ClaimCommands
            /\ pc'[r] = "done" => \/ resp'[r] = 200 /\ command = "NoAction"
                                  \/ resp'[r] = 500
        BY <2>3 DEF Moves
      <3>2. /\ command \in BountyCommands => pc[r] = "query" /\ IsMaintainer(ev[r], maintainers)
            /\ action' = [action EXCEPT ![r] = action'[r]]
        BY <1>1, <2>1, <2>2
      <3> QED BY <1>1, <2>1, <2>2, <3>1, <3>2 DEF DispatchEffect
    <2>4. CASE command = "NoAction" /\ Answer(r, 200)
      BY <2>3, <2>4, MovesByAnswer
    <2>5. CASE command = "SyntaxError" /\ Answer(r, 500)
      BY <2>3, <2>5, MovesByAnswer
    <2>6. CASE command \in BountyCommands /\ Goto(r, "begin") /\ UNCHANGED resp
      BY <2>3, <2>6, MovesByGoto DEF Label
    <2>7. CASE /\ command \in BadgeCommands \cup ClaimCommands
               /\ Goto(r, "publish") /\ UNCHANGED resp
      BY <2>3, <2>7, MovesByGoto DEF Label
    <2> QED BY <1>1, <2>4, <2>5, <2>6, <2>7 DEF Dispatch, command
  <1>2. CASE FindMaintainer(r)
    BY <1>1, <1>2 DEF FindMaintainer, CurrentMaintainers
  <1>3. CASE ParticipantExists(r)
    BY <1>1, <1>3 DEF ParticipantExists
  <1> QED BY <1>2, <1>3 DEF Dispatching

UpdateEffect(r) ==
    /\ pc[r] = "update" /\ Moves(r, {"insert"})
    /\ ev[r].target \in Account /\ rowLock[ev[r].target] = {}
    /\ bounty[ev[r].target] + Amount(ev[r]) \in INT
    /\ rowLock' = [rowLock EXCEPT ![ev[r].target] = {r}]
    /\ pend' = [pend EXCEPT ![r] = bounty[ev[r].target] + Amount(ev[r])]
    /\ UNCHANGED <<ev, conn, maintainers, trusted, action, bounty, bountyLog, inDoubt,
                   late, ranked, score, streams>>

\* UPDATE user_account takes the free row lock and leaves its sum pending.
LEMMA UpdateHasEffect ==
    ASSUME TypeOK, NEW r \in Request, UpdateUserBounty(r)
    PROVE  UpdateEffect(r)
  BY MovesByGoto DEF UpdateUserBounty, UpdateEffect, Label, valkey, roles, Free, Fits

AbortEffect(r) ==
    /\ \/ /\ pc[r] \in {"begin", "update", "insert", "commit"} /\ Moves(r, {"done"})
          /\ resp'[r] = 500
       \/ r \in inDoubt /\ Stays(r)
    /\ EndTransaction(r)
    /\ UNCHANGED <<ev, maintainers, trusted, action, bounty, bountyLog, late, ranked,
                   score, streams>>

\* Every way to abort gives everything back; a handler that waits answers 500.
LEMMA AbortHasEffect ==
    ASSUME TypeOK, NEW r \in Request, Aborting(r)
    PROVE  AbortEffect(r)
  <1>1. CASE UpdateRefused(r) \/ DispatcherNotRegistered(r) \/ TransactionFails(r)
    BY <1>1, MovesByAnswer DEF UpdateRefused, DispatcherNotRegistered,
       TransactionFails, Abort, AbortEffect, valkey, roles
  <1>2. CASE CommitDropped(r)
    BY <1>2, MovesByStaying DEF CommitDropped, AbortEffect, valkey, roles
  <1> QED BY <1>1, <1>2 DEF Aborting

LosingEffect(r) ==
    /\ UNCHANGED <<ev, maintainers, trusted, action, bounty, bountyLog, rowLock, pend,
                   ranked, score, streams>>
    /\ \/ /\ pc[r] = "commit" /\ Moves(r, {"done"}) /\ resp'[r] = 500
          /\ conn' = conn \ {r} /\ inDoubt' = inDoubt \cup {r}
          /\ UNCHANGED late
       \/ /\ pc[r] = "rank" /\ Stays(r)
          /\ lateRanks' = [lateRanks EXCEPT ![r] = @ + 1]
          /\ UNCHANGED <<conn, inDoubt, lateRecords>>
       \/ /\ pc[r] = "publish" /\ Stays(r)
          /\ lateRecords' = [lateRecords EXCEPT ![r] = @ + 1]
          /\ UNCHANGED <<conn, inDoubt, lateRanks>>

\* A call without a reply stays on its way; only a commit is given up at once.
LEMMA LosingHasEffect ==
    ASSUME TypeOK, NEW r \in Request, Losing(r)
    PROVE  LosingEffect(r)
  <1>1. CASE CommitReplyLost(r)
    BY <1>1, MovesByAnswer DEF CommitReplyLost, LosingEffect, valkey, roles
  <1>2. CASE RankReplyLost(r)
    BY <1>2, MovesByStaying DEF RankReplyLost, LosingEffect, store, roles
  <1>3. CASE PublishReplyLost(r)
    BY <1>3, MovesByStaying DEF PublishReplyLost, LosingEffect, store, roles
  <1> QED BY <1>1, <1>2, <1>3 DEF Losing

InstallEffect(r) ==
    /\ \/ pc[r] = "commit" /\ Moves(r, {"rank"})
       \/ r \in inDoubt /\ Stays(r)
    /\ resp' = resp
    /\ bounty' = [bounty EXCEPT ![ev[r].target] = pend[r]]
    /\ bountyLog' = bountyLog \cup {LogRow(r)}
    /\ EndTransaction(r)
    /\ UNCHANGED <<ev, maintainers, trusted, action, late, ranked, score, streams>>

\* The commit installs the pending sum and its row, whether the client waits
\* for it or not.
LEMMA InstallHasEffect ==
    ASSUME TypeOK, NEW r \in Request, Installing(r)
    PROVE  InstallEffect(r)
  <1>1. CASE Commit(r)
    BY <1>1, MovesByGoto DEF Commit, Install, InstallEffect, Label, valkey, roles
  <1>2. CASE CommitLands(r)
    BY <1>2, MovesByStaying DEF CommitLands, Install, InstallEffect, valkey, roles
  <1> QED BY <1>1, <1>2 DEF Installing

RankEffect(r) ==
    /\ \/ pc[r] = "rank" /\ Moves(r, {"publish"}) /\ lateRanks' = lateRanks
       \/ /\ lateRanks[r] > 0 /\ Stays(r)
          /\ lateRanks' = [lateRanks EXCEPT ![r] = @ - 1]
    /\ ranked' = [ranked EXCEPT ![r] = @ + 1]
    /\ score' = [score EXCEPT ![ev[r].target] = @ + Point * Amount(ev[r])]
    /\ UNCHANGED <<ev, resp, conn, maintainers, trusted, action, bounty, bountyLog,
                   rowLock, pend, inDoubt, lateRecords, streams>>

\* ZINCRBY counts once and moves the score by the amount.
LEMMA RankingHasEffect ==
    ASSUME TypeOK, NEW r \in Request, Ranking(r)
    PROVE  RankEffect(r)
  <1>1. CASE Rank(r)
    BY <1>1, MovesByGoto DEF Rank, Increment, UpdateLeaderboard, Points, RankEffect,
       Label, store, roles
  <1>2. CASE RankLands(r)
    BY <1>2, MovesByStaying DEF RankLands, Increment, UpdateLeaderboard, Points,
       RankEffect, store, roles
  <1> QED BY <1>1, <1>2 DEF Ranking

AppendEffect(r) ==
    /\ \/ /\ pc[r] = "publish" /\ Moves(r, {"done"}) /\ resp'[r] = 200
          /\ lateRecords' = lateRecords
       \/ /\ lateRecords[r] > 0 /\ Stays(r)
          /\ lateRecords' = [lateRecords EXCEPT ![r] = @ - 1]
    /\ streams' = [streams EXCEPT ![StreamOf(ev[r].cmd)] = Append(@, Record(r))]
    /\ UNCHANGED <<ev, conn, maintainers, trusted, action, bounty, bountyLog, rowLock,
                   pend, inDoubt, lateRanks, ranked, score>>

\* XADD appends the one record of the request.
LEMMA AppendingHasEffect ==
    ASSUME TypeOK, NEW r \in Request, Appending(r)
    PROVE  AppendEffect(r)
  <1>1. CASE Publish(r)
    BY <1>1, MovesByAnswer DEF Publish, AppendRecord, AddToStream, AppendEffect,
       store, roles
  <1>2. CASE RecordLands(r)
    BY <1>2, MovesByStaying DEF RecordLands, AppendRecord, AddToStream, AppendEffect,
       store, roles
  <1> QED BY <1>1, <1>2 DEF Appending

CrashEffect ==
    /\ \A r \in Request : pc'[r] = IF Serving(r) THEN "crashed" ELSE pc[r]
    /\ pc' \in [Request -> Label]
    /\ conn' = {}
    /\ inDoubt \subseteq inDoubt' /\ inDoubt' \subseteq Request
    /\ \A r \in inDoubt' \ inDoubt : pc[r] = "commit"
    /\ rowLock' = [u \in Account |-> rowLock[u] \cap inDoubt']
    /\ pend' = [r \in Request |-> IF r \in inDoubt' THEN pend[r] ELSE 0]
    /\ UNCHANGED <<ev, resp, maintainers, trusted, action, bounty, bountyLog, late,
                   ranked, score, streams>>

\* A crash ends what is being served and rolls the transactions back, but those
\* whose COMMIT is on its way.
LEMMA CrashHasEffect ==
    ASSUME TypeOK, Crash
    PROVE  CrashEffect
  BY DEF Crash, ServerDies, CrashEffect, TypeOK, Label, valkey, roles

DeliverEffect(r, c) ==
    /\ pc[r] = "idle" /\ Moves(r, {"lookup"})
    /\ ev' = [ev EXCEPT ![r] = c]
    /\ trusted' = IF IsMaintainer(c, maintainers) THEN trusted \cup {r} ELSE trusted
    /\ UNCHANGED <<resp, conn, maintainers, action, bounty, bountyLog, rowLock, pend,
                   inDoubt, late, ranked, score, streams>>

\* A delivery only starts a request.
LEMMA DeliverHasEffect ==
    ASSUME TypeOK, NEW r \in Request, NEW c \in Comments, Deliver(r, c)
    PROVE  DeliverEffect(r, c)
  BY MovesByGoto DEF Deliver, DeliverEffect, Label, store, valkey

RosterEffect ==
    /\ maintainers' \in Rosters /\ trusted \subseteq trusted' /\ trusted' \subseteq Request
    /\ \A r \in Request : pc[r] \in {"lookup", "query"} /\ IsMaintainer(ev[r], maintainers')
                            => r \in trusted'
    /\ UNCHANGED <<pc, ev, resp, conn, action, bounty, bountyLog, rowLock, pend, inDoubt,
                   late, ranked, score, streams>>

\* A change of the maintainers touches no request.
LEMMA RosterHasEffect ==
    ASSUME TypeOK, MaintainersChange
    PROVE  RosterEffect
  BY DEF MaintainersChange, RosterEffect, TypeOK, store, valkey

\* A request takes one of nine kinds of steps, the maintainers change, or the
\* process dies.
LEMMA StepCases ==
    ASSUME TypeOK, [Next]_vars
    PROVE  \/ \E r \in Request : \/ \E c \in Comments : DeliverEffect(r, c)
                                 \/ LocalEffect(r) \/ DispatchEffect(r)
                                 \/ UpdateEffect(r) \/ AbortEffect(r) \/ LosingEffect(r)
                                 \/ InstallEffect(r) \/ RankEffect(r) \/ AppendEffect(r)
           \/ RosterEffect
           \/ CrashEffect
           \/ UNCHANGED vars
  <1>1. ASSUME NEW r \in Request, NEW c \in Comments, Deliver(r, c)
        PROVE  DeliverEffect(r, c)
    BY <1>1, DeliverHasEffect
  <1>2. ASSUME NEW r \in Request, Progress(r) \/ Fault(r) \/ Lands(r)
        PROVE  \/ LocalEffect(r) \/ DispatchEffect(r) \/ UpdateEffect(r)
               \/ AbortEffect(r) \/ LosingEffect(r)
               \/ InstallEffect(r) \/ RankEffect(r) \/ AppendEffect(r)
    BY <1>2, LocalHasEffect, DispatchHasEffect, UpdateHasEffect, AbortHasEffect,
       LosingHasEffect, InstallHasEffect, RankingHasEffect, AppendingHasEffect
       DEF Progress, Fault, Lands, Settles, Local, Dispatching, Aborting, Losing,
           Installing, Ranking, Appending
  <1> QED BY <1>1, <1>2, RosterHasEffect, CrashHasEffect DEF Next, Quiet
-----------------------------------------------------------------------------
(* Every part of the invariant is preserved.                               *)

\* No step leaves the types: what enters a column was checked to fit.
LEMMA TypeStep ==
    ASSUME IInv, [Next]_vars
    PROVE  TypeOK'
  <1>0. TypeOK
    BY DEF IInv
  <1> USE <1>0 DEF TypeOK
  <1>1. ASSUME NEW r \in Request, NEW c \in Comments, DeliverEffect(r, c)
        PROVE  TypeOK'
    BY <1>1 DEF DeliverEffect, Moves, late
  <1>2. ASSUME NEW r \in Request, LocalEffect(r)
        PROVE  TypeOK'
    BY <1>2 DEF LocalEffect, Moves, late
  <1>3. ASSUME NEW r \in Request, UpdateEffect(r)
        PROVE  TypeOK'
    BY <1>3 DEF UpdateEffect, Moves, late
  <1>4. ASSUME NEW r \in Request, AbortEffect(r)
        PROVE  TypeOK'
    <2>1. pend' \in [Request -> INT]
      BY <1>4, ZeroInRange DEF AbortEffect, EndTransaction
    <2> QED BY <1>4, <2>1 DEF AbortEffect, EndTransaction, Moves, Stays, late
  <1>5. ASSUME NEW r \in Request, InstallEffect(r)
        PROVE  TypeOK'
    <2>1. LogRow(r) \in LogRows
      BY <1>5, RowTyped DEF InstallEffect
    <2>2. bountyLog' \subseteq LogRows
      BY <1>5, <2>1 DEF InstallEffect
    <2>4. bounty' \in [Account -> INT]
      <3>1. /\ bounty \in [Account -> INT] /\ pend[r] \in INT
            /\ bounty' = [bounty EXCEPT ![ev[r].target] = pend[r]]
        BY <1>5 DEF InstallEffect
      <3> HIDE DEF IInv, TypeOK
      <3> QED BY <3>1
    <2>3. pend' \in [Request -> INT]
      BY <1>5, ZeroInRange DEF InstallEffect, EndTransaction
    <2> QED BY <1>5, <2>2, <2>3, <2>4 DEF InstallEffect, EndTransaction, Moves, Stays, late
  <1>6. ASSUME NEW r \in Request, RankEffect(r)
        PROVE  TypeOK'
    <2>0. ev[r] \in Comments
      BY <1>6, LateIsDelivered DEF RankEffect, IInv, Delivered
    <2>1. ev[r].target \in User /\ Point * Amount(ev[r]) \in Int
      BY <2>0, PayloadTyped DEF Point
    <2>2. score' \in [User -> Int] /\ ranked' \in [Request -> Nat]
      BY <1>6, <2>1 DEF RankEffect
    <2>3. lateRanks' \in [Request -> Nat]
      <3>1. CASE lateRanks[r] > 0 /\ lateRanks' = [lateRanks EXCEPT ![r] = @ - 1]
        <4>1. lateRanks[r] - 1 \in Nat
          BY <3>1
        <4> QED BY <3>1, <4>1
      <3> QED BY <1>6, <3>1 DEF RankEffect
    <2> QED BY <1>6, <2>2, <2>3 DEF RankEffect, Moves, Stays
  <1>7. ASSUME NEW r \in Request, AppendEffect(r)
        PROVE  TypeOK'
    <2>1. Record(r) \in Records
      BY <1>7, RecordTyped DEF AppendEffect
    <2>2. streams' \in [StreamName -> Seq(Records)]
      <3>1. streams \in [StreamName -> Seq(Records)]
        OBVIOUS
      <3>2. \A s \in Seq(Records) : Append(s, Record(r)) \in Seq(Records)
        BY <2>1
      <3>3. streams' = [streams EXCEPT ![StreamOf(ev[r].cmd)] =
                          Append(streams[StreamOf(ev[r].cmd)], Record(r))]
        BY <1>7 DEF AppendEffect
      <3>. HIDE DEF TypeOK, IInv
      <3>4. QED
        BY <3>1, <3>2, <3>3
    <2>3. lateRecords' \in [Request -> Nat]
      <3>1. CASE lateRecords[r] > 0 /\ lateRecords' = [lateRecords EXCEPT ![r] = @ - 1]
        <4>1. lateRecords[r] - 1 \in Nat
          BY <3>1
        <4> QED BY <3>1, <4>1
      <3> QED BY <1>7, <3>1 DEF AppendEffect
    <2> QED BY <1>7, <2>2, <2>3 DEF AppendEffect, Moves, Stays
  <1>8. CASE CrashEffect
    <2>1. pend' \in [Request -> INT]
      BY <1>8, ZeroInRange DEF CrashEffect
    <2> QED BY <1>8, <2>1 DEF CrashEffect, late
  <1>9. CASE UNCHANGED vars
    BY <1>9 DEF vars, late
  <1>10. ASSUME NEW r \in Request, DispatchEffect(r)
         PROVE  TypeOK'
    <2>1. action' \in [Request -> Command \cup {"NoAction", "SyntaxError"}]
      <3>1. /\ action \in [Request -> Command \cup {"NoAction", "SyntaxError"}]
            /\ action' = [action EXCEPT ![r] = action'[r]]
            /\ action'[r] \in Command \cup {"NoAction", "SyntaxError"}
        BY <1>10 DEF DispatchEffect
      <3> HIDE DEF IInv, TypeOK
      <3> QED BY <3>1
    <2> QED BY <1>10, <2>1 DEF DispatchEffect, Moves, late
  <1>11. CASE RosterEffect
    BY <1>11 DEF RosterEffect, late
  <1>12. ASSUME NEW r \in Request, LosingEffect(r)
         PROVE  TypeOK'
    <2>1. /\ inDoubt' \subseteq Request /\ conn' \subseteq Request
          /\ lateRanks' \in [Request -> Nat] /\ lateRecords' \in [Request -> Nat]
      <3>1. CASE conn' = conn \ {r} /\ inDoubt' = inDoubt \cup {r} /\ UNCHANGED late
        BY <3>1 DEF late
      <3>2. CASE /\ lateRanks' = [lateRanks EXCEPT ![r] = @ + 1]
                 /\ UNCHANGED <<conn, inDoubt, lateRecords>>
        <4>1. lateRanks[r] + 1 \in Nat
          OBVIOUS
        <4> QED BY <3>2, <4>1
      <3>3. CASE /\ lateRecords' = [lateRecords EXCEPT ![r] = @ + 1]
                 /\ UNCHANGED <<conn, inDoubt, lateRanks>>
        <4>1. lateRecords[r] + 1 \in Nat
          OBVIOUS
        <4> QED BY <3>3, <4>1
      <3> QED BY <1>12, <3>1, <3>2, <3>3 DEF LosingEffect
    <2>2. pc' \in [Request -> Label] /\ resp' \in [Request -> {0, 200, 400, 500}]
      BY <1>12 DEF LosingEffect, Moves, Stays
    <2> QED BY <1>12, <2>1, <2>2 DEF LosingEffect
  <1> QED BY <1>1, <1>2, <1>3, <1>4, <1>5, <1>6, <1>7, <1>8, <1>9, <1>10, <1>11, <1>12,
          StepCases

\* Payloads stay with their requests, and only the last step answers.
LEMMA DeliveredStep ==
    ASSUME IInv, [Next]_vars
    PROVE  Delivered'
  <1>0. /\ TypeOK /\ Delivered /\ ev \in [Request -> Comments \cup {NoComment}]
        /\ \A r \in inDoubt : pc[r] \in {"done", "crashed"}
    BY DEF IInv, TypeOK, LateIsGenuine
  <1> USE <1>0 DEF Delivered
  <1>1. ASSUME NEW r \in Request, NEW c \in Comments, DeliverEffect(r, c)
        PROVE  Delivered'
    BY <1>1 DEF DeliverEffect, Moves, late
  <1>2. ASSUME NEW r \in Request, LocalEffect(r)
        PROVE  Delivered'
    BY <1>2 DEF LocalEffect, Moves, late
  <1>3. ASSUME NEW r \in Request, UpdateEffect(r)
        PROVE  Delivered'
    BY <1>3 DEF UpdateEffect, Moves, late
  <1>4. ASSUME NEW r \in Request, AbortEffect(r)
        PROVE  Delivered'
    BY <1>4 DEF AbortEffect, EndTransaction, Moves, Stays, late
  <1>5. ASSUME NEW r \in Request, InstallEffect(r)
        PROVE  Delivered'
    BY <1>5 DEF InstallEffect, EndTransaction, Moves, Stays, late
  <1>6. ASSUME NEW r \in Request, RankEffect(r)
        PROVE  Delivered'
    BY <1>6 DEF RankEffect, Moves, Stays
  <1>7. ASSUME NEW r \in Request, AppendEffect(r)
        PROVE  Delivered'
    BY <1>7 DEF AppendEffect, Moves, Stays
  <1>8. CASE CrashEffect
    BY <1>8 DEF CrashEffect, Serving, Over, late
  <1>9. CASE UNCHANGED vars
    BY <1>9 DEF vars, late
  <1>10. ASSUME NEW r \in Request, DispatchEffect(r)
         PROVE  Delivered'
    BY <1>10 DEF DispatchEffect, Moves, late
  <1>11. CASE RosterEffect
    BY <1>11 DEF RosterEffect, late
  <1>12. ASSUME NEW r \in Request, LosingEffect(r)
         PROVE  Delivered'
    BY <1>12 DEF LosingEffect, late, Moves, Stays
  <1> QED BY <1>1, <1>2, <1>3, <1>4, <1>5, <1>6, <1>7, <1>8, <1>9, <1>10, <1>11, <1>12,
          StepCases

\* The labels behind the dispatch are reached with the right command only.
LEMMA DispatchedStep ==
    ASSUME IInv, [Next]_vars
    PROVE  Dispatched'
  <1>0. /\ TypeOK /\ Dispatched
        /\ pc \in [Request -> Label] /\ ev \in [Request -> Comments \cup {NoComment}]
        /\ action \in [Request -> Command \cup {"NoAction", "SyntaxError"}]
    BY DEF IInv, TypeOK
  <1> USE <1>0 DEF Dispatched, Command, Unparsed
  <1>1. ASSUME NEW r \in Request, NEW c \in Comments, DeliverEffect(r, c)
        PROVE  Dispatched'
    <2>1. action[r] = "NoAction" /\ "NoAction" \notin Command
      BY <1>1 DEF DeliverEffect, BountyCommands, BadgeCommands, ClaimCommands
    <2>2. pc'[r] = "lookup" /\ action' = action /\ resp' = resp
      BY <1>1 DEF DeliverEffect, Moves, late
    <2>3. \A q \in Request : q # r => pc'[q] = pc[q] /\ ev'[q] = ev[q]
      BY <1>1 DEF DeliverEffect, Moves, late
    <2> HIDE DEF Command
    <2> QED BY <2>1, <2>2, <2>3
  <1>2. ASSUME NEW r \in Request, LocalEffect(r)
        PROVE  Dispatched'
    BY <1>2 DEF LocalEffect, Moves, late
  <1>3. ASSUME NEW r \in Request, UpdateEffect(r)
        PROVE  Dispatched'
    BY <1>3 DEF UpdateEffect, Moves, late
  <1>4. ASSUME NEW r \in Request, AbortEffect(r)
        PROVE  Dispatched'
    BY <1>4 DEF AbortEffect, EndTransaction, Moves, Stays, late
  <1>5. ASSUME NEW r \in Request, InstallEffect(r)
        PROVE  Dispatched'
    BY <1>5 DEF InstallEffect, EndTransaction, Moves, Stays, late
  <1>6. ASSUME NEW r \in Request, RankEffect(r)
        PROVE  Dispatched'
    BY <1>6 DEF RankEffect, Moves, Stays
  <1>7. ASSUME NEW r \in Request, AppendEffect(r)
        PROVE  Dispatched'
    <2>1. resp'[r] = resp[r] \/ resp'[r] = 200
      BY <1>7 DEF AppendEffect, Stays
    <2> QED BY <1>7, <2>1 DEF AppendEffect, Moves, Stays
  <1>8. CASE CrashEffect
    BY <1>8 DEF CrashEffect, Serving, Over, late
  <1>9. CASE UNCHANGED vars
    BY <1>9 DEF vars, late
  <1>10. ASSUME NEW r \in Request, DispatchEffect(r)
         PROVE  Dispatched'
    <2>1. ASSUME NEW q \in Request, q # r
          PROVE  pc'[q] = pc[q] /\ action'[q] = action[q] /\ ev'[q] = ev[q]
      BY <1>10, <2>1 DEF DispatchEffect, Moves, late
    <2>2. /\ pc'[r] \in {"begin", "publish", "done"} /\ ev' = ev
          /\ pc'[r] = "begin" => action'[r] \in BountyCommands
          /\ pc'[r] = "publish" => action'[r] \in Command
          /\ action'[r] \in Command => action'[r] = ev[r].cmd
      BY <1>10 DEF DispatchEffect, Moves, late
    <2>3. resp'[r] = 400 => action'[r] = "NoAction"
      <3>1. resp[r] # 400
        BY <1>10 DEF DispatchEffect, IInv, Delivered
      <3> QED BY <1>10, <3>1 DEF DispatchEffect, Moves
    <2>4. \A q \in Request : q # r => resp'[q] = resp[q]
      BY <1>10 DEF DispatchEffect, Moves
    <2> QED BY <2>1, <2>2, <2>3, <2>4
  <1>11. CASE RosterEffect
    BY <1>11 DEF RosterEffect, late
  <1>12. ASSUME NEW r \in Request, LosingEffect(r)
         PROVE  Dispatched'
    BY <1>12 DEF LosingEffect, late, Moves, Stays
  <1> QED BY <1>1, <1>2, <1>3, <1>4, <1>5, <1>6, <1>7, <1>8, <1>9, <1>10, <1>11, <1>12,
          StepCases

\* A commit cannot invalidate the sum of another open transaction, because
\* the two hold the locks of different rows.
LEMMA SumIsCurrentStep ==
    ASSUME IInv, [Next]_vars
    PROVE  SumIsCurrent'
  <1>0. /\ TypeOK /\ SumIsCurrent
        /\ pc \in [Request -> Label] /\ ev \in [Request -> Comments \cup {NoComment}]
        /\ bounty \in [Account -> INT] /\ pend \in [Request -> INT]
        /\ inDoubt \subseteq Request
        /\ \A r \in inDoubt : pc[r] \in {"done", "crashed"}
    BY DEF IInv, TypeOK, LateIsGenuine
  <1> USE <1>0 DEF SumIsCurrent, Open
  <1>1. ASSUME NEW r \in Request, NEW c \in Comments, DeliverEffect(r, c)
        PROVE  SumIsCurrent'
    BY <1>1 DEF DeliverEffect, Moves, late
  <1>2. ASSUME NEW r \in Request, LocalEffect(r)
        PROVE  SumIsCurrent'
    BY <1>2 DEF LocalEffect, Moves, late
  <1>3. ASSUME NEW r \in Request, UpdateEffect(r)
        PROVE  SumIsCurrent'
    BY <1>3 DEF UpdateEffect, Moves, late
  <1>4. ASSUME NEW r \in Request, AbortEffect(r)
        PROVE  SumIsCurrent'
    BY <1>4 DEF AbortEffect, EndTransaction, Moves, Stays, late
  <1>5. ASSUME NEW r \in Request, InstallEffect(r)
        PROVE  SumIsCurrent'
    <2>1. \A q \in Request : Open(q) /\ q # r => ev[q].target # ev[r].target
      <3>1. Open(r) /\ ev[r].target \in Account
        BY <1>5 DEF InstallEffect
      <3>2. \A q \in Request : Open(q) /\ ev[q].target = ev[r].target => q = r
        BY <3>1 DEF IInv, ResourcesMatchProgress
      <3> QED BY <3>2
    <2> QED BY <1>5, <2>1 DEF InstallEffect, EndTransaction, Moves, Stays, late
  <1>6. ASSUME NEW r \in Request, RankEffect(r)
        PROVE  SumIsCurrent'
    BY <1>6 DEF RankEffect, Moves, Stays
  <1>7. ASSUME NEW r \in Request, AppendEffect(r)
        PROVE  SumIsCurrent'
    BY <1>7 DEF AppendEffect, Moves, Stays
  <1>8. CASE CrashEffect
    BY <1>8 DEF CrashEffect, Serving, Over, late
  <1>9. CASE UNCHANGED vars
    BY <1>9 DEF vars, late
  <1>10. ASSUME NEW r \in Request, DispatchEffect(r)
         PROVE  SumIsCurrent'
    BY <1>10 DEF DispatchEffect, Moves, late
  <1>11. CASE RosterEffect
    BY <1>11 DEF RosterEffect, late
  <1>12. ASSUME NEW r \in Request, LosingEffect(r)
         PROVE  SumIsCurrent'
    BY <1>12 DEF LosingEffect, late, Moves, Stays
  <1> QED BY <1>1, <1>2, <1>3, <1>4, <1>5, <1>6, <1>7, <1>8, <1>9, <1>10, <1>11, <1>12,
          StepCases

\* A committed row is never changed, and its request never starts over.
LEMMA RowsAreGenuineStep ==
    ASSUME IInv, [Next]_vars
    PROVE  RowsAreGenuine'
  <1>1. RowsAreGenuine /\ TypeOK /\ \A row \in bountyLog : row.req \in Request
    BY RequestOfRow DEF IInv
  <1>2. ASSUME bountyLog' = bountyLog, trusted \subseteq trusted',
               \A q \in Request : pc[q] \in Committed =>
                  /\ pc'[q] \in Committed /\ ev'[q] = ev[q]
                  /\ action'[q] = action[q]
        PROVE  RowsAreGenuine'
    BY <1>1, <1>2 DEF RowsAreGenuine, LogRow
  <1>3. ASSUME NEW r \in Request, InstallEffect(r)
        PROVE  RowsAreGenuine'
    <2>0. pc[r] = "commit" \/ pc[r] \in Committed
      BY <1>3 DEF InstallEffect, IInv, LateIsGenuine, Committed
    <2>1. /\ pc'[r] \in Committed /\ ev' = ev /\ trusted' = trusted /\ action' = action
          /\ bountyLog' = bountyLog \cup {LogRow(r)}
          /\ \A q \in Request : pc[q] \in Committed => pc'[q] \in Committed
      <3>1. pc'[r] \in Committed
        <4>1. CASE pc[r] = "commit" /\ Moves(r, {"rank"})
          BY <4>1 DEF Moves, Committed
        <4>2. CASE r \in inDoubt /\ Stays(r)
          BY <4>2 DEF IInv, LateIsGenuine, Moves, Stays, Committed
        <4> QED BY <1>3, <4>1, <4>2 DEF InstallEffect
      <3>2. \A q \in Request : q # r => pc'[q] = pc[q]
        BY <1>3 DEF InstallEffect, Moves, Stays
      <3> QED BY <1>3, <3>1, <3>2 DEF InstallEffect
    <2>2. LogRow(r).req = r /\ LogRow(r)' = LogRow(r)
      BY <2>1 DEF LogRow
    <2>3. /\ r \in trusted /\ ev[r].by \in Registered
          /\ action[r] \in BountyCommands
      BY <1>3 DEF InstallEffect, IInv, Dispatched, RoleIsGenuine, SumIsCurrent, LateIsGenuine
    <2>4. ASSUME NEW row \in bountyLog
          PROVE  /\ row = LogRow(row.req)' /\ pc'[row.req] \in Committed
                 /\ row.req \in trusted' /\ ev'[row.req].by \in Registered
                 /\ action'[row.req] \in BountyCommands
      BY <1>1, <2>1 DEF RowsAreGenuine, LogRow
    <2> QED BY <2>1, <2>2, <2>3, <2>4 DEF RowsAreGenuine
  <1>4. ASSUME NEW r \in Request, NEW c \in Comments, DeliverEffect(r, c)
        PROVE  RowsAreGenuine'
    BY <1>1, <1>2, <1>4 DEF DeliverEffect, Moves, TypeOK, Committed
  <1>5. ASSUME NEW r \in Request, LocalEffect(r)
        PROVE  RowsAreGenuine'
    BY <1>1, <1>2, <1>5 DEF LocalEffect, Moves, Committed
  <1>6. ASSUME NEW r \in Request, UpdateEffect(r) \/ AbortEffect(r) \/ LosingEffect(r)
        PROVE  RowsAreGenuine'
    BY <1>1, <1>2, <1>6 DEF UpdateEffect, AbortEffect, LosingEffect, Moves, Stays,
       Committed
  <1>7. ASSUME NEW r \in Request, RankEffect(r) \/ AppendEffect(r)
        PROVE  RowsAreGenuine'
    BY <1>1, <1>2, <1>7 DEF RankEffect, AppendEffect, Moves, Stays, Committed
  <1>8. CASE CrashEffect
    BY <1>1, <1>2, <1>8 DEF CrashEffect, Committed
  <1>9. CASE UNCHANGED vars
    BY <1>1, <1>2, <1>9 DEF vars
  <1>10. ASSUME NEW r \in Request, DispatchEffect(r)
         PROVE  RowsAreGenuine'
    <2>1. \A q \in Request : pc[q] \in Committed =>
             q # r /\ pc'[q] = pc[q] /\ ev'[q] = ev[q] /\ action'[q] = action[q]
      BY <1>1, <1>10 DEF DispatchEffect, Moves, Committed, TypeOK
    <2>2. bountyLog' = bountyLog /\ trusted' = trusted
      BY <1>10 DEF DispatchEffect
    <2> QED BY <1>2, <2>1, <2>2
  <1>11. CASE RosterEffect
    BY <1>1, <1>2, <1>11 DEF RosterEffect
  <1> QED BY <1>1, <1>3, <1>4, <1>5, <1>6, <1>7, <1>8, <1>9, <1>10, <1>11, StepCases

\* A role found by the lookup was held since the delivery: the maintainers may
\* change before and after the query, not during it.
LEMMA RoleIsGenuineStep ==
    ASSUME IInv, [Next]_vars
    PROVE  RoleIsGenuine'
  <1>1. TypeOK /\ RoleIsGenuine
    BY DEF IInv
  <1>2. ASSUME NEW r \in Request, NEW c \in Comments, DeliverEffect(r, c)
        PROVE  RoleIsGenuine'
    BY <1>1, <1>2 DEF DeliverEffect, Moves, RoleIsGenuine, TypeOK
  <1>3. ASSUME NEW r \in Request, LocalEffect(r)
        PROVE  RoleIsGenuine'
    BY <1>1, <1>3 DEF LocalEffect, Moves, RoleIsGenuine
  <1>4. ASSUME NEW r \in Request, DispatchEffect(r)
        PROVE  RoleIsGenuine'
    <2>1. ASSUME NEW q \in Request, action'[q] \in BountyCommands
          PROVE  q \in trusted'
      <3>1. CASE q = r
        BY <1>1, <1>4, <2>1, <3>1 DEF DispatchEffect, RoleIsGenuine
      <3>2. CASE q # r
        <4>1. action'[q] = action[q]
          BY <1>1, <1>4, <3>2 DEF DispatchEffect, TypeOK
        <4> QED BY <1>1, <1>4, <2>1, <4>1 DEF DispatchEffect, RoleIsGenuine
      <3> QED BY <3>1, <3>2
    <2>2. ASSUME NEW q \in Request, pc'[q] \in {"lookup", "query"}
          PROVE  pc'[q] = pc[q]
      BY <1>4, <2>2 DEF DispatchEffect, Moves
    <2> QED BY <1>1, <1>4, <2>1, <2>2 DEF DispatchEffect, RoleIsGenuine
  <1>5. ASSUME NEW r \in Request, \/ UpdateEffect(r) \/ AbortEffect(r)
                                  \/ LosingEffect(r) \/ InstallEffect(r)
        PROVE  RoleIsGenuine'
    BY <1>1, <1>5 DEF UpdateEffect, AbortEffect, LosingEffect, InstallEffect, Moves, Stays,
       RoleIsGenuine
  <1>6. ASSUME NEW r \in Request, RankEffect(r) \/ AppendEffect(r)
        PROVE  RoleIsGenuine'
    BY <1>1, <1>6 DEF RankEffect, AppendEffect, Moves, Stays, RoleIsGenuine
  <1>7. CASE RosterEffect
    BY <1>1, <1>7 DEF RosterEffect, RoleIsGenuine
  <1>8. CASE CrashEffect
    BY <1>1, <1>8 DEF CrashEffect, RoleIsGenuine
  <1>9. CASE UNCHANGED vars
    BY <1>1, <1>9 DEF vars, RoleIsGenuine
  <1> QED BY <1>1, <1>2, <1>3, <1>4, <1>5, <1>6, <1>7, <1>8, <1>9, StepCases

\* The commit comes before the ranking, the ranking before the announcement.
LEMMA RecordedInOrderStep ==
    ASSUME IInv, [Next]_vars
    PROVE  RecordedInOrder'
  <1>0. /\ TypeOK /\ RecordedInOrder /\ pc \in [Request -> Label]
        /\ ev \in [Request -> Comments \cup {NoComment}] /\ ranked \in [Request -> Nat]
        /\ \A r \in inDoubt : pc[r] \in {"done", "crashed"}
        /\ \A r \in Request : pc[r] = "commit" => ev[r].cmd \in BountyCommands
    BY DEF IInv, TypeOK, LateIsGenuine, Dispatched, Command
  <1> USE <1>0 DEF RecordedInOrder, LogRow
  <1>1. ASSUME NEW r \in Request, NEW c \in Comments, DeliverEffect(r, c)
        PROVE  RecordedInOrder'
    BY <1>1 DEF DeliverEffect, Moves, late
  <1>2. ASSUME NEW r \in Request, LocalEffect(r)
        PROVE  RecordedInOrder'
    BY <1>2 DEF LocalEffect, Moves, late
  <1>3. ASSUME NEW r \in Request, UpdateEffect(r)
        PROVE  RecordedInOrder'
    BY <1>3 DEF UpdateEffect, Moves, late
  <1>4. ASSUME NEW r \in Request, AbortEffect(r)
        PROVE  RecordedInOrder'
    BY <1>4 DEF AbortEffect, EndTransaction, Moves, Stays, late
  <1>5. ASSUME NEW r \in Request, InstallEffect(r)
        PROVE  RecordedInOrder'
    BY <1>5 DEF InstallEffect, EndTransaction, Moves, Stays, late
  <1>6. ASSUME NEW r \in Request, RankEffect(r)
        PROVE  RecordedInOrder'
    BY <1>6 DEF RankEffect, Moves, Stays
  <1>7. ASSUME NEW r \in Request, AppendEffect(r)
        PROVE  RecordedInOrder'
    BY <1>7 DEF AppendEffect, Moves, Stays
  <1>8. CASE CrashEffect
    BY <1>8 DEF CrashEffect, Serving, Over, late
  <1>9. CASE UNCHANGED vars
    BY <1>9 DEF vars, late
  <1>10. ASSUME NEW r \in Request, DispatchEffect(r)
         PROVE  RecordedInOrder'
    BY <1>10 DEF DispatchEffect, Moves, late, IInv, Dispatched, BountyCommands, BadgeCommands, ClaimCommands, Command
  <1>11. CASE RosterEffect
    BY <1>11 DEF RosterEffect, late
  <1>12. ASSUME NEW r \in Request, LosingEffect(r)
         PROVE  RecordedInOrder'
    BY <1>12 DEF LosingEffect, late, Moves, Stays
  <1> QED BY <1>1, <1>2, <1>3, <1>4, <1>5, <1>6, <1>7, <1>8, <1>9, <1>10, <1>11, <1>12,
          StepCases

\* Locks and connections are taken and given back with the label.
LEMMA ResourcesMatchProgressStep ==
    ASSUME IInv, [Next]_vars
    PROVE  ResourcesMatchProgress'
  <1>0. /\ TypeOK /\ ResourcesMatchProgress
        /\ pc \in [Request -> Label] /\ conn \subseteq Request
        /\ ev \in [Request -> Comments \cup {NoComment}]
        /\ rowLock \in [Account -> SUBSET Request] /\ inDoubt \subseteq Request
        /\ \A r \in inDoubt : pc[r] \in {"done", "crashed"}
    BY DEF IInv, TypeOK, LateIsGenuine
  <1> USE <1>0 DEF ResourcesMatchProgress, Open
  <1>1. ASSUME NEW r \in Request, NEW c \in Comments, DeliverEffect(r, c)
        PROVE  ResourcesMatchProgress'
    BY <1>1 DEF DeliverEffect, Moves, late
  <1>2. ASSUME NEW r \in Request, LocalEffect(r)
        PROVE  ResourcesMatchProgress'
    BY <1>2 DEF LocalEffect, Moves, late
  <1>3. ASSUME NEW r \in Request, UpdateEffect(r)
        PROVE  ResourcesMatchProgress'
    BY <1>3 DEF UpdateEffect, Moves, late
  <1>4. ASSUME NEW r \in Request, AbortEffect(r)
        PROVE  ResourcesMatchProgress'
    BY <1>4 DEF AbortEffect, EndTransaction, Moves, Stays, late
  <1>5. ASSUME NEW r \in Request, InstallEffect(r)
        PROVE  ResourcesMatchProgress'
    BY <1>5 DEF InstallEffect, EndTransaction, Moves, Stays, late
  <1>6. ASSUME NEW r \in Request, RankEffect(r)
        PROVE  ResourcesMatchProgress'
    BY <1>6 DEF RankEffect, Moves, Stays
  <1>7. ASSUME NEW r \in Request, AppendEffect(r)
        PROVE  ResourcesMatchProgress'
    BY <1>7 DEF AppendEffect, Moves, Stays
  <1>8. CASE CrashEffect
    BY <1>8 DEF CrashEffect, Serving, Over, late
  <1>9. CASE UNCHANGED vars
    BY <1>9 DEF vars, late
  <1>10. ASSUME NEW r \in Request, DispatchEffect(r)
         PROVE  ResourcesMatchProgress'
    BY <1>10 DEF DispatchEffect, Moves, late
  <1>11. CASE RosterEffect
    BY <1>11 DEF RosterEffect, late
  <1>12. ASSUME NEW r \in Request, LosingEffect(r)
         PROVE  ResourcesMatchProgress'
    BY <1>12 DEF LosingEffect, late, Moves, Stays
  <1> QED BY <1>1, <1>2, <1>3, <1>4, <1>5, <1>6, <1>7, <1>8, <1>9, <1>10, <1>11, <1>12,
          StepCases

\* Nothing that was recorded, ranked or published is ever taken back, and a
\* request keeps its payload and the command it was parsed to.
LEMMA NothingTakenBack ==
    ASSUME IInv, [Next]_vars
    PROVE  /\ bountyLog \subseteq bountyLog'
           /\ \A r \in Request : ranked[r] > 0 => ranked'[r] > 0
           /\ \A r \in Request : pc[r] # "idle" => ev'[r] = ev[r]
           /\ \A r \in Request : pc[r] \notin Unparsed => action'[r] = action[r]
           /\ \A key \in StreamName :
                \A i \in DOMAIN streams[key] :
                    i \in DOMAIN streams'[key] /\ streams'[key][i] = streams[key][i]
  <1> DEFINE Kept == /\ bountyLog \subseteq bountyLog'
                     /\ \A r \in Request : ranked[r] > 0 => ranked'[r] > 0
                     /\ \A r \in Request : pc[r] # "idle" => ev'[r] = ev[r]
                     /\ \A r \in Request : pc[r] \notin Unparsed => action'[r] = action[r]
             Grown == \A key \in StreamName :
                        \A i \in DOMAIN streams[key] :
                            /\ i \in DOMAIN streams'[key]
                            /\ streams'[key][i] = streams[key][i]
  <1>1. TypeOK
    BY DEF IInv
  <1>2. ASSUME NEW r \in Request, NEW c \in Comments, DeliverEffect(r, c)
        PROVE  Kept /\ Grown
    BY <1>1, <1>2 DEF DeliverEffect, TypeOK
  <1>3. ASSUME NEW r \in Request, \/ LocalEffect(r) \/ UpdateEffect(r) \/ AbortEffect(r)
                                  \/ LosingEffect(r) \/ InstallEffect(r)
        PROVE  Kept /\ Grown
    BY <1>3 DEF LocalEffect, UpdateEffect, AbortEffect, LosingEffect, InstallEffect
  <1>4. ASSUME NEW r \in Request, RankEffect(r)
        PROVE  Kept /\ Grown
    BY <1>1, <1>4 DEF RankEffect, TypeOK
  <1>5. ASSUME NEW r \in Request, AppendEffect(r)
        PROVE  Kept /\ Grown
    <2>1. Kept
      BY <1>5 DEF AppendEffect
    <2>2. ASSUME NEW key \in StreamName
          PROVE  \/ streams'[key] = streams[key]
                 \/ streams'[key] = Append(streams[key], Record(r))
      BY <1>1, <1>5, <2>2 DEF AppendEffect, TypeOK
    <2>3. \A key \in StreamName : streams[key] \in Seq(Records)
      BY <1>1 DEF TypeOK
    <2>4. Grown
      <3>1. ASSUME NEW s \in Seq(Records), NEW i \in DOMAIN s
            PROVE  i \in DOMAIN Append(s, Record(r)) /\ Append(s, Record(r))[i] = s[i]
        <4>1. Record(r) \in Records
          BY <1>5, RecordTyped DEF AppendEffect
        <4> QED BY <4>1, <3>1
      <3> QED BY <2>2, <2>3, <3>1
    <2> QED BY <2>1, <2>4
  <1>6. CASE CrashEffect
    BY <1>6 DEF CrashEffect
  <1>7. CASE UNCHANGED vars
    BY <1>7 DEF vars
  <1>8. ASSUME NEW r \in Request, DispatchEffect(r)
        PROVE  Kept /\ Grown
    BY <1>1, <1>8 DEF DispatchEffect, TypeOK, Unparsed
  <1>9. CASE RosterEffect
    BY <1>9 DEF RosterEffect
  <1> QED BY <1>1, <1>2, <1>3, <1>4, <1>5, <1>6, <1>7, <1>8, <1>9, StepCases

\* What is over stays over, with its answer.
LEMMA OverIsFinal ==
    ASSUME IInv, [Next]_vars, NEW q \in Request, Over(q)
    PROVE  pc'[q] = pc[q] /\ resp'[q] = resp[q]
  <1>1. TypeOK /\ (q \in inDoubt => pc[q] \in {"done", "crashed"})
    BY DEF IInv, LateIsGenuine
  <1>2. CASE \E r \in Request : \E c \in Comments : DeliverEffect(r, c)
    BY <1>1, <1>2 DEF DeliverEffect, Moves, Over
  <1>3. ASSUME NEW r \in Request, LocalEffect(r) \/ DispatchEffect(r) \/ UpdateEffect(r)
        PROVE  pc'[q] = pc[q] /\ resp'[q] = resp[q]
    BY <1>1, <1>3 DEF LocalEffect, DispatchEffect, UpdateEffect, Moves, Over
  <1>4. ASSUME NEW r \in Request, AbortEffect(r) \/ LosingEffect(r) \/ InstallEffect(r)
        PROVE  pc'[q] = pc[q] /\ resp'[q] = resp[q]
    BY <1>1, <1>4 DEF AbortEffect, LosingEffect, InstallEffect, Moves, Stays, Over
  <1>5. ASSUME NEW r \in Request, RankEffect(r) \/ AppendEffect(r)
        PROVE  pc'[q] = pc[q] /\ resp'[q] = resp[q]
    BY <1>1, <1>5 DEF RankEffect, AppendEffect, Moves, Stays, Over
  <1>6. CASE RosterEffect \/ CrashEffect \/ UNCHANGED vars
    BY <1>1, <1>6 DEF RosterEffect, CrashEffect, Serving, Over, vars
  <1> QED BY <1>1, <1>2, <1>3, <1>4, <1>5, <1>6, StepCases

\* A call becomes late at the step that loses its reply, where the handler has
\* got so far; and what such a call rests on is never taken back.
LEMMA LateIsGenuineStep ==
    ASSUME IInv, [Next]_vars
    PROVE  LateIsGenuine'
  <1>1. TypeOK /\ LateIsGenuine
    BY DEF IInv
  <1>2. ASSUME NEW q \in Request, q \in inDoubt', q \in inDoubt
        PROVE  /\ pc'[q] \in {"done", "crashed"} /\ resp'[q] \in {0, 500}
               /\ action'[q] \in BountyCommands
               /\ \A row \in bountyLog' : row.req # q
    <2>1. /\ Over(q) /\ pc[q] \notin Unparsed /\ resp[q] \in {0, 500}
          /\ action[q] \in BountyCommands /\ \A row \in bountyLog : row.req # q
      BY <1>1, <1>2 DEF LateIsGenuine, Over, Unparsed
    <2>2. pc'[q] = pc[q] /\ resp'[q] = resp[q] /\ action'[q] = action[q]
      BY <2>1, OverIsFinal, NothingTakenBack
    <2>3. ASSUME NEW row \in bountyLog', row \notin bountyLog
          PROVE  row.req # q
      <3>1. PICK r \in Request : InstallEffect(r)
        BY <1>1, <2>3, StepCases
           DEF DeliverEffect, LocalEffect, DispatchEffect, RosterEffect, UpdateEffect,
               AbortEffect, LosingEffect, RankEffect, AppendEffect, CrashEffect, vars
      <3>2. row.req = r /\ r \notin inDoubt'
        BY <2>3, <3>1 DEF InstallEffect, EndTransaction, LogRow
      <3> QED BY <1>2, <3>2
    <2> QED BY <2>1, <2>2, <2>3 DEF Over
  <1>3. ASSUME NEW q \in Request, q \in inDoubt', q \notin inDoubt
        PROVE  /\ pc'[q] \in {"done", "crashed"} /\ resp'[q] \in {0, 500}
               /\ action'[q] \in BountyCommands
               /\ \A row \in bountyLog' : row.req # q
    <2>1. (LosingEffect(q) /\ pc[q] = "commit") \/ CrashEffect
      <3>1. ASSUME NEW r \in Request, LosingEffect(r)
            PROVE  r = q /\ pc[q] = "commit"
        BY <1>3, <3>1 DEF LosingEffect
      <3> QED BY <1>1, <1>3, <3>1, StepCases
           DEF DeliverEffect, LocalEffect, DispatchEffect, RosterEffect, UpdateEffect,
               AbortEffect, InstallEffect, EndTransaction, RankEffect, AppendEffect, vars
    <2>2. pc[q] = "commit" /\ bountyLog' = bountyLog /\ action' = action
      BY <1>3, <2>1 DEF LosingEffect, CrashEffect
    <2>3. /\ action[q] \in BountyCommands /\ resp[q] = 0
          /\ \A row \in bountyLog : row.req # q
      BY <2>2 DEF IInv, Dispatched, Delivered, RowsAreGenuine, Committed
    <2>4. pc'[q] \in {"done", "crashed"} /\ resp'[q] \in {0, 500}
      BY <2>1, <2>2, <2>3 DEF LosingEffect, CrashEffect, Moves, Serving, Over
    <2> QED BY <2>2, <2>3, <2>4
  <1>4. ASSUME NEW q \in Request, lateRanks'[q] > 0
        PROVE  LogRow(q)' \in bountyLog'
    <2>1. lateRanks[q] > 0 \/ pc[q] = "rank"
      <3>1. ASSUME NEW r \in Request, RankEffect(r)
            PROVE  lateRanks[q] > 0
        <4>1. \/ lateRanks' = lateRanks
              \/ lateRanks' = [lateRanks EXCEPT ![r] = lateRanks[r] - 1]
          BY <3>1 DEF RankEffect
        <4>2. lateRanks \in [Request -> Nat]
          BY <1>1 DEF TypeOK
        <4> QED BY <1>4, <4>1, <4>2
      <3>2. ASSUME NEW r \in Request, LosingEffect(r)
            PROVE  lateRanks[q] > 0 \/ pc[q] = "rank"
        <4>1. \/ lateRanks' = lateRanks
              \/ pc[r] = "rank" /\ lateRanks' = [lateRanks EXCEPT ![r] = lateRanks[r] + 1]
          BY <3>2 DEF LosingEffect, late
        <4>2. lateRanks \in [Request -> Nat]
          BY <1>1 DEF TypeOK
        <4> QED BY <1>4, <4>1, <4>2
      <3> QED BY <1>1, <1>4, <3>1, <3>2, StepCases
           DEF DeliverEffect, LocalEffect, DispatchEffect, RosterEffect, UpdateEffect,
               AbortEffect, InstallEffect, AppendEffect, CrashEffect, late, vars
    <2>2. LogRow(q) \in bountyLog /\ pc[q] # "idle"
      BY <2>1 DEF IInv, LateIsGenuine, RecordedInOrder, RowsAreGenuine, LogRow, Committed
    <2>3. LogRow(q)' = LogRow(q)
      BY <2>2, NothingTakenBack DEF LogRow
    <2> QED BY <2>2, <2>3, NothingTakenBack
  <1>5. ASSUME NEW q \in Request, lateRecords'[q] > 0
        PROVE  /\ pc'[q] \in {"publish", "done", "crashed"}
               /\ action'[q] \in Command
               /\ ev'[q].cmd \in BountyCommands => ranked'[q] > 0
    <2>1. lateRecords[q] > 0 \/ pc[q] = "publish"
      <3>1. ASSUME NEW r \in Request, AppendEffect(r)
            PROVE  lateRecords[q] > 0
        <4>1. \/ lateRecords' = lateRecords
              \/ lateRecords' = [lateRecords EXCEPT ![r] = lateRecords[r] - 1]
          BY <3>1 DEF AppendEffect
        <4>2. lateRecords \in [Request -> Nat]
          BY <1>1 DEF TypeOK
        <4> QED BY <1>5, <4>1, <4>2
      <3>2. ASSUME NEW r \in Request, LosingEffect(r)
            PROVE  lateRecords[q] > 0 \/ pc[q] = "publish"
        <4>1. \/ lateRecords' = lateRecords
              \/ pc[r] = "publish" /\ lateRecords' = [lateRecords EXCEPT ![r] = lateRecords[r] + 1]
          BY <3>2 DEF LosingEffect, late
        <4>2. lateRecords \in [Request -> Nat]
          BY <1>1 DEF TypeOK
        <4> QED BY <1>5, <4>1, <4>2
      <3> QED BY <1>1, <1>5, <3>1, <3>2, StepCases
           DEF DeliverEffect, LocalEffect, DispatchEffect, RosterEffect, UpdateEffect,
               AbortEffect, InstallEffect, RankEffect, CrashEffect, late, vars
    <2>2. /\ pc[q] \in {"publish", "done", "crashed"} /\ action[q] \in Command
          /\ ev[q].cmd \in BountyCommands => ranked[q] > 0
      BY <2>1 DEF IInv, LateIsGenuine, RecordedInOrder, Dispatched
    <2>3. /\ ev'[q] = ev[q] /\ action'[q] = action[q]
          /\ ranked[q] > 0 => ranked'[q] > 0
      BY <2>2, NothingTakenBack DEF Unparsed
    <2>4. pc'[q] \in {"publish", "done", "crashed"}
      <3>1. CASE Over(q)
        BY <3>1, OverIsFinal DEF Over
      <3>2. CASE pc[q] = "publish"
        <4>1. q \notin inDoubt
          BY <1>1, <3>2 DEF LateIsGenuine
        <4> QED BY <1>1, <3>2, <4>1, StepCases
             DEF DeliverEffect, LocalEffect, DispatchEffect, RosterEffect, UpdateEffect,
                 AbortEffect, LosingEffect, InstallEffect, RankEffect, AppendEffect,
                 CrashEffect, Moves, Stays, vars
      <3> QED BY <2>2, <3>1, <3>2 DEF Over
    <2> QED BY <2>2, <2>3, <2>4
  <1> QED BY <1>2, <1>3, <1>4, <1>5 DEF LateIsGenuine

\* A new ranking or record is backed by the row of its request; an old one
\* stays backed, since nothing is taken back.
LEMMA PublishedIsRecordedStep ==
    ASSUME IInv, [Next]_vars
    PROVE  PublishedIsRecorded'
  <1> DEFINE Backed(m, log, count) ==
                /\ \E row \in log :
                      /\ row.req = m.req /\ row.user = m.user
                      /\ row.amount = SignedAmount(m.action, m.amount)
                /\ count[m.req] > 0
  <1>1. TypeOK /\ PublishedIsRecorded
    BY DEF IInv
  <1>2. \A r \in Request : ranked'[r] > 0 => Recorded(r)'
    <2>1. ASSUME NEW r \in Request, ranked'[r] > 0, ranked[r] > 0
          PROVE  Recorded(r)'
      BY <1>1, <2>1, NothingTakenBack DEF PublishedIsRecorded, Recorded
    <2>2. ASSUME NEW r \in Request, ranked'[r] # ranked[r]
          PROVE  RankEffect(r)
      BY <1>1, <2>2, StepCases
         DEF DeliverEffect, LocalEffect, DispatchEffect, RosterEffect, UpdateEffect, AbortEffect, LosingEffect,
             InstallEffect, RankEffect, AppendEffect, CrashEffect, vars, TypeOK
    <2>3. ASSUME NEW r \in Request, RankEffect(r)
          PROVE  Recorded(r)'
      <3>1. LogRow(r) \in bountyLog' /\ LogRow(r).req = r
        BY <2>3 DEF RankEffect, IInv, RecordedInOrder, LateIsGenuine, LogRow
      <3> QED BY <3>1 DEF Recorded
    <2> QED BY <2>1, <2>2, <2>3
  <1>3. ASSUME NEW r \in Request, AppendEffect(r), StreamOf(ev[r].cmd) = Bounty
        PROVE  Backed(Record(r), bountyLog, ranked)
    <2>1. ev[r].cmd \in BountyCommands /\ ranked[r] > 0
      <3>1. ev[r].cmd \in Command
        BY <1>3 DEF AppendEffect, IInv, Dispatched, LateIsGenuine
      <3>2. ev[r].cmd \in BountyCommands
        BY <1>3, <3>1 DEF StreamOf, Command, BountyCommands, BadgeCommands,
           ClaimCommands, Bounty, AutomaticEvents, IssueClaim
      <3> QED BY <1>3, <3>2 DEF AppendEffect, IInv, RecordedInOrder, LateIsGenuine
    <2>2. PICK row \in bountyLog : row.req = r
      BY <1>1, <2>1 DEF PublishedIsRecorded, Recorded
    <2>3. row = LogRow(r)
      BY <2>2 DEF IInv, RowsAreGenuine
    <2>4. /\ row.user = ev[r].target /\ row.amount = Amount(ev[r])
      BY <2>3 DEF LogRow
    <2>5. /\ Record(r).req = r /\ Record(r).action = ev[r].cmd
          /\ Record(r).user = ev[r].target /\ Record(r).amount = ev[r].amount
      BY <2>1 DEF Record, BountyCommands, ClaimCommands
    <2> QED BY <2>1, <2>2, <2>4, <2>5 DEF Amount
  <1>4. ASSUME NEW i \in DOMAIN streams'[Bounty], i \in DOMAIN streams[Bounty]
        PROVE  Backed(streams'[Bounty][i], bountyLog', ranked')
    <2>0. Bounty \in StreamName /\ streams[Bounty] \in Seq(Records)
      BY <1>1 DEF TypeOK, StreamName
    <2>1. streams'[Bounty][i] = streams[Bounty][i]
      BY <2>0, <1>4, NothingTakenBack
    <2>2. Backed(streams[Bounty][i], bountyLog, ranked)
      BY <1>1, <1>4 DEF PublishedIsRecorded
    <2>3. streams[Bounty][i].req \in Request
      <3>1. streams[Bounty][i] \in Records
        BY <2>0, <1>4
      <3> QED BY <3>1 DEF Records
    <2> QED BY <2>1, <2>2, <2>3, NothingTakenBack
  <1>5. ASSUME NEW i \in DOMAIN streams'[Bounty], i \notin DOMAIN streams[Bounty]
        PROVE  Backed(streams'[Bounty][i], bountyLog', ranked')
    <2>1. PICK r \in Request : AppendEffect(r)
      BY <1>5, StepCases, <1>1
         DEF DeliverEffect, LocalEffect, DispatchEffect, RosterEffect, UpdateEffect, AbortEffect, LosingEffect,
             InstallEffect, RankEffect, CrashEffect, vars
    <2>2. /\ StreamOf(ev[r].cmd) = Bounty
          /\ streams'[Bounty] = Append(streams[Bounty], Record(r))
      BY <1>1, <1>5, <2>1 DEF AppendEffect, TypeOK, StreamName
    <2>3. streams[Bounty] \in Seq(Records) /\ Record(r) \in Records
      BY <1>1, <2>1, RecordTyped DEF AppendEffect, TypeOK, StreamName
    <2>4. streams'[Bounty][i] = Record(r)
      BY <1>5, <2>2, <2>3
    <2>5. Backed(Record(r), bountyLog, ranked)
      BY <1>3, <2>1, <2>2
    <2>6. bountyLog' = bountyLog /\ ranked' = ranked
      BY <2>1 DEF AppendEffect
    <2> QED BY <2>4, <2>5, <2>6
  <1>6. \A i \in DOMAIN streams'[Bounty] : Backed(streams'[Bounty][i], bountyLog', ranked')
    BY <1>4, <1>5
  <1> QED BY <1>2, <1>6 DEF PublishedIsRecorded

\* The answer 200 comes with the record; what an earlier answer promised stays.
LEMMA OkMeansEverywhereStep ==
    ASSUME IInv, [Next]_vars
    PROVE  OkMeansEverywhere'
  <1> DEFINE Kept(r) == /\ Published(r, StreamOf(action[r]))
                        /\ action[r] \in BountyCommands => Recorded(r) /\ ranked[r] > 0
  <1>1. TypeOK /\ Delivered
    BY DEF IInv
  <1>2. ASSUME NEW r \in Request, resp[r] = 200, action'[r] # "NoAction"
        PROVE  Kept(r)'
    <2>1. action'[r] = action[r]
      BY <1>1, <1>2, NothingTakenBack DEF Delivered, Unparsed
    <2>2. Kept(r)
      BY <1>2, <2>1 DEF IInv, OkMeansEverywhere
    <2>3. StreamOf(action[r]) \in StreamName
      BY DEF StreamOf, StreamName
    <2>4. Published(r, StreamOf(action[r]))'
      BY <2>1, <2>2, <2>3, NothingTakenBack DEF Published, RecordsOf, StreamOf
    <2> QED BY <2>1, <2>2, <2>4, NothingTakenBack DEF Recorded
  <1>3. ASSUME NEW r \in Request, resp'[r] = 200, resp[r] # 200, action'[r] # "NoAction"
        PROVE  AppendEffect(r)
    BY <1>1, <1>3, StepCases
       DEF DeliverEffect, LocalEffect, DispatchEffect, RosterEffect, UpdateEffect,
           AbortEffect, LosingEffect, InstallEffect, RankEffect, AppendEffect,
           CrashEffect, Moves, Stays, vars, TypeOK
  <1>4. ASSUME NEW r \in Request, AppendEffect(r)
        PROVE  Kept(r)'
    <2>1. ev' = ev /\ action' = action /\ action[r] = ev[r].cmd
      BY <1>4 DEF AppendEffect, IInv, Dispatched, LateIsGenuine
    <2>2. StreamOf(action[r]) \in StreamName
      BY DEF StreamOf, StreamName
    <2> DEFINE old == streams[StreamOf(action[r])]
    <2>3. old \in Seq(Records) /\ Record(r) \in Records
      BY <1>1, <1>4, <2>2, RecordTyped DEF AppendEffect, TypeOK
    <2>4. streams'[StreamOf(action[r])] = Append(old, Record(r))
      BY <1>1, <1>4, <2>1, <2>2 DEF AppendEffect, TypeOK
    <2>5. /\ Len(old) + 1 \in DOMAIN streams'[StreamOf(action[r])]
          /\ streams'[StreamOf(action[r])][Len(old) + 1] = Record(r)
      BY <2>3, <2>4
    <2>6. Record(r).req = r
      BY DEF Record
    <2>7. Published(r, StreamOf(action[r]))'
      BY <2>1, <2>5, <2>6 DEF Published, RecordsOf, StreamOf
    <2>8. action[r] \in BountyCommands => Recorded(r)' /\ ranked'[r] > 0
      BY <1>4, <2>1 DEF AppendEffect, IInv, RecordedInOrder, LateIsGenuine,
         PublishedIsRecorded, Recorded
    <2> QED BY <2>1, <2>7, <2>8
  <1> QED BY <1>2, <1>3, <1>4 DEF OkMeansEverywhere
-----------------------------------------------------------------------------
(* The sums: ledger, balances and leaderboard.                             *)

\* The rows of an account and the drifts of its requests have sums, and those
\* are what balances and leaderboard say.
Balanced ==
    /\ \A u \in Account : HasTotal(Logged(u)) /\ HasTotal(Drifts(u))
    /\ LedgerBalanced
    /\ LeaderboardDrift

\* What a request adds to the drift of an account.
DriftFor(r, u) == IF pc[r] # "idle" /\ ev[r].target = u THEN Drift(r) ELSE 0

\* A drift is an integer.
LEMMA DriftTyped ==
    ASSUME NEW n \in Nat, NEW c \in Comments, NEW b \in BOOLEAN
    PROVE  (n - (IF b THEN 1 ELSE 0)) * Amount(c) \in Int
  <1>1. Amount(c) \in Int
    BY PayloadTyped
  <1>2. n - (IF b THEN 1 ELSE 0) \in Int
    OBVIOUS
  <1>3. \A i, j \in Int : i * j \in Int
    OBVIOUS
  <1> QED BY <1>1, <1>2, <1>3

\* A step of one request changes the sum of the drifts by what it changes in
\* its own.
LEMMA DriftsFollow ==
    ASSUME IInv, IInv', NEW r \in Request, NEW u, HasTotal(Drifts(u)),
           \A q \in Request : q # r =>
               /\ pc'[q] = "idle" <=> pc[q] = "idle"
               /\ ev'[q] = ev[q] /\ ranked'[q] = ranked[q]
               /\ Recorded(q)' <=> Recorded(q)
    PROVE  /\ HasTotal(Drifts(u)')
           /\ Total(Drifts(u)') = Total(Drifts(u)) - DriftFor(r, u) + DriftFor(r, u)'
  <1>1. DriftFor(r, u) \in Int /\ DriftFor(r, u)' \in Int
    <2>1. ranked[r] \in Nat /\ (pc[r] # "idle" => ev[r] \in Comments)
      BY DEF IInv, TypeOK, Delivered
    <2>2. ranked'[r] \in Nat /\ (pc'[r] # "idle" => ev'[r] \in Comments)
      BY DEF IInv, TypeOK, Delivered
    <2>3. Recorded(r) \in BOOLEAN /\ Recorded(r)' \in BOOLEAN
      BY DEF Recorded
    <2>4. DriftFor(r, u) \in Int
      BY <2>1, <2>3, DriftTyped DEF DriftFor, Drift
    <2>5. DriftFor(r, u)' \in Int
      BY <2>2, <2>3, DriftTyped DEF DriftFor, Drift
    <2> QED BY <2>4, <2>5
  <1>2. IsAt(Drifts(u), r, DriftFor(r, u)) /\ IsAt(Drifts(u)', r, DriftFor(r, u)')
    BY DEF IsAt, Drifts, DriftFor
  <1>3. AgreeButAt(Drifts(u), Drifts(u)', r)
    BY DEF AgreeButAt, Drifts, Drift
  <1> HIDE DEF Drifts, DriftFor
  <1> QED BY <1>1, <1>2, <1>3, TotalChange

\* A commit adds one row, and its amount to the sum of its account.
LEMMA LoggedFollows ==
    ASSUME IInv, NEW r \in Request, InstallEffect(r), NEW u, HasTotal(Logged(u))
    PROVE  /\ HasTotal(Logged(u)')
           /\ Total(Logged(u)')
                = Total(Logged(u)) + (IF u = ev[r].target THEN Amount(ev[r]) ELSE 0)
  <1> DEFINE new == LogRow(r)
             old == Logged(u)
             b == IF u = ev[r].target THEN Amount(ev[r]) ELSE 0
  <1>1. bountyLog' = bountyLog \cup {new}
    BY DEF InstallEffect
  <1>2. new \notin bountyLog /\ new.user = ev[r].target /\ new.amount = Amount(ev[r])
    BY DEF LogRow, InstallEffect, IInv, RowsAreGenuine, LateIsGenuine, Committed
  <1>3. b \in Int
    BY PayloadTyped DEF IInv, Delivered, LateIsGenuine, InstallEffect
  <1>4. IsAt(old, new, 0)
    BY <1>2 DEF IsAt, Logged
  <1>5. IsAt(old', new, b)
    BY <1>1, <1>2 DEF IsAt, Logged
  <1>6. AgreeButAt(old, old', new)
    BY <1>1 DEF AgreeButAt, Logged
  <1> HIDE DEF new, old, b
  <1>7. HasTotal(old') /\ Total(old') = Total(old) - 0 + b
    BY <1>3, <1>4, <1>5, <1>6, TotalChange DEF old
  <1>8. Total(old) \in Int
    BY TotalTyped DEF old
  <1> QED BY <1>3, <1>7, <1>8 DEF old, b

\* The commit moves balance and log by one amount, the ranking the score by
\* the points for it; no other step moves any of the sums.
LEMMA BalancedStep ==
    ASSUME IInv, IInv', Balanced, [Next]_vars
    PROVE  Balanced'
  <1> SUFFICES ASSUME NEW u \in Account
               PROVE  /\ HasTotal(Logged(u)') /\ HasTotal(Drifts(u)')
                      /\ bounty'[u] = Total(Logged(u)')
                      /\ score'[u] - Point * bounty'[u] = Point * Total(Drifts(u)')
    BY DEF Balanced, LedgerBalanced, LeaderboardDrift
  <1> DEFINE Goal == /\ HasTotal(Logged(u)') /\ HasTotal(Drifts(u)')
                     /\ bounty'[u] = Total(Logged(u)')
                     /\ score'[u] - Point * bounty'[u] = Point * Total(Drifts(u)')
  <1>1. /\ HasTotal(Logged(u)) /\ HasTotal(Drifts(u))
        /\ bounty[u] = Total(Logged(u))
        /\ score[u] - Point * bounty[u] = Point * Total(Drifts(u))
    BY DEF Balanced, LedgerBalanced, LeaderboardDrift
  <1>2. /\ TypeOK /\ u \in User
        /\ bounty[u] \in Int /\ score[u] \in Int /\ Total(Drifts(u)) \in Int
    <2>1. bounty[u] \in Int /\ Total(Drifts(u)) \in Int
      BY <1>1, TotalTyped
    <2> QED BY <2>1, CommentAssumption DEF IInv, TypeOK
  <1>3. ASSUME bountyLog' = bountyLog PROVE Logged(u)' = Logged(u)
    BY <1>3 DEF Logged
  <1>4. \A r \in Request : ranked[r] \in Nat /\ (~ Recorded(r) => ranked[r] = 0)
    BY DEF IInv, TypeOK, PublishedIsRecorded
  <1>5. ASSUME UNCHANGED <<bounty, bountyLog, ranked, score>>,
               \A r \in Request : ev'[r] = ev[r] /\ (pc'[r] = "idle" <=> pc[r] = "idle")
        PROVE  Goal
    <2>1. Drifts(u)' = Drifts(u)
      BY <1>5 DEF Drifts, Drift, Recorded
    <2> QED BY <1>1, <1>3, <1>5, <2>1
  <1>6. ASSUME NEW r \in Request, NEW c \in Comments, DeliverEffect(r, c)
        PROVE  Goal
    <2>1. /\ UNCHANGED <<bounty, bountyLog, ranked, score>> /\ pc[r] = "idle"
          /\ \A q \in Request : q # r => pc'[q] = pc[q] /\ ev'[q] = ev[q]
          /\ ev'[r] = c
      BY <1>2, <1>6 DEF DeliverEffect, Moves, TypeOK
    <2>2. ~ Recorded(r) /\ ranked[r] = 0
      BY <1>4, <2>1 DEF Recorded, IInv, RowsAreGenuine, Committed
    <2>3. DriftFor(r, u) = 0 /\ DriftFor(r, u)' = 0
      <3>1. (ranked[r] - (IF Recorded(r) THEN 1 ELSE 0)) * Amount(c) = 0
        BY <2>2, PayloadTyped
      <3>2. Recorded(r)' = Recorded(r)
        BY <2>1 DEF Recorded
      <3> QED BY <2>1, <3>1, <3>2 DEF DriftFor, Drift
    <2>4. HasTotal(Drifts(u)') /\ Total(Drifts(u)') = Total(Drifts(u)) - 0 + 0
      BY <1>1, <2>1, <2>3, DriftsFollow DEF Recorded
    <2> QED BY <1>1, <1>2, <1>3, <2>1, <2>4
  <1>7. ASSUME NEW r \in Request, InstallEffect(r)
        PROVE  Goal
    <2> DEFINE a == Amount(ev[r])
    <2>0. (pc[r] = "commit" \/ r \in inDoubt) /\ pc[r] # "idle"
      BY <1>7 DEF InstallEffect, IInv, LateIsGenuine
    <2>1. /\ UNCHANGED <<ev, ranked, score>> /\ pc'[r] # "idle"
          /\ \A q \in Request : q # r => pc'[q] = pc[q]
          /\ bountyLog' = bountyLog \cup {LogRow(r)} /\ LogRow(r).req = r
      BY <1>7, <2>0 DEF InstallEffect, Moves, Stays, LogRow
    <2>2. a \in Int
      BY <2>0, PayloadTyped DEF IInv, Delivered
    <2>3. ~ Recorded(r) /\ ranked[r] = 0 /\ Recorded(r)'
      BY <1>4, <2>0, <2>1 DEF Recorded, IInv, RowsAreGenuine, LateIsGenuine, Committed
    <2>4. bounty'[u] = bounty[u] + (IF u = ev[r].target THEN a ELSE 0)
      <3>1. /\ bounty' = [bounty EXCEPT ![ev[r].target] = pend[r]]
            /\ bounty \in [Account -> INT]
            /\ pend[r] = bounty[ev[r].target] + a
        BY <1>7, <2>0 DEF InstallEffect, IInv, SumIsCurrent, Open, TypeOK
      <3> QED BY <1>2, <3>1
    <2>5. DriftFor(r, u) = 0 /\ DriftFor(r, u)' = IF u = ev[r].target THEN - a ELSE 0
      <3>1. (0 - 0) * a = 0 /\ (0 - 1) * a = - a
        BY <2>2
      <3> QED BY <2>0, <2>1, <2>3, <3>1 DEF DriftFor, Drift
    <2>6. /\ HasTotal(Drifts(u)')
          /\ Total(Drifts(u)') = Total(Drifts(u)) - 0 + (IF u = ev[r].target THEN - a ELSE 0)
      <3>1. \A q \in Request : q # r => (Recorded(q)' <=> Recorded(q))
        BY <2>1 DEF Recorded
      <3> QED BY <1>1, <2>1, <2>5, <3>1, DriftsFollow
    <2>7. /\ HasTotal(Logged(u)')
          /\ Total(Logged(u)') = Total(Logged(u)) + (IF u = ev[r].target THEN a ELSE 0)
      BY <1>1, <1>7, LoggedFollows
    <2> HIDE DEF a
    <2>8. score'[u] = score[u]
      BY <2>1
    <2>9. CASE u = ev[r].target
      <3>1. /\ bounty'[u] = bounty[u] + a /\ Total(Logged(u)') = bounty[u] + a
            /\ Total(Drifts(u)') = Total(Drifts(u)) - a
        BY <1>1, <1>2, <2>2, <2>4, <2>6, <2>7, <2>9
      <3>2. \A s, b, d, n \in Int :
               s - Point * b = Point * d => s - Point * (b + n) = Point * (d - n)
        BY DEF Point
      <3>3. score[u] - Point * (bounty[u] + a) = Point * (Total(Drifts(u)) - a)
        BY <1>1, <1>2, <2>2, <3>2
      <3> QED BY <2>6, <2>7, <2>8, <3>1, <3>3
    <2>10. CASE u # ev[r].target
      <3>1. /\ bounty'[u] = bounty[u] /\ Total(Logged(u)') = bounty[u]
            /\ Total(Drifts(u)') = Total(Drifts(u))
        BY <1>1, <1>2, <2>4, <2>6, <2>7, <2>10
      <3> QED BY <1>1, <2>6, <2>7, <2>8, <3>1
    <2> QED BY <2>9, <2>10
  <1>8. ASSUME NEW r \in Request, RankEffect(r)
        PROVE  Goal
    <2> DEFINE a == Amount(ev[r])
    <2>0. LogRow(r) \in bountyLog /\ LogRow(r).req = r /\ pc[r] # "idle"
      BY <1>8 DEF RankEffect, IInv, RecordedInOrder, LateIsGenuine, RowsAreGenuine,
         Committed, LogRow
    <2>1. /\ UNCHANGED <<ev, bounty, bountyLog>> /\ pc[r] # "idle" /\ pc'[r] # "idle"
          /\ \A q \in Request : q # r => pc'[q] = pc[q] /\ ranked'[q] = ranked[q]
          /\ ranked'[r] = ranked[r] + 1
      BY <1>2, <1>8, <2>0 DEF RankEffect, Moves, Stays, TypeOK
    <2>2. a \in Int /\ ranked[r] \in Int
      BY <2>1, PayloadTyped DEF IInv, Delivered, TypeOK
    <2>3. Recorded(r) /\ Recorded(r)'
      BY <2>0, <2>1 DEF Recorded
    <2>4. score'[u] = score[u] + (IF u = ev[r].target THEN Point * a ELSE 0)
      <3>1. /\ score' = [score EXCEPT ![ev[r].target] = @ + Point * a]
            /\ score \in [User -> Int] /\ Point * a \in Int
        BY <1>2, <1>8, <2>2 DEF RankEffect, TypeOK, Point
      <3> HIDE DEF a
      <3> QED BY <1>2, <3>1
    <2>5. DriftFor(r, u)' = DriftFor(r, u) + (IF u = ev[r].target THEN a ELSE 0)
      <3>1. \A n, i \in Int : (n + 1 - 1) * i = (n - 1) * i + i
        OBVIOUS
      <3>2. (ranked[r] + 1 - 1) * a = (ranked[r] - 1) * a + a
        BY <2>2, <3>1
      <3> HIDE DEF a
      <3> QED BY <2>1, <2>2, <2>3, <3>2 DEF DriftFor, Drift, a
    <2>6. DriftFor(r, u) \in Int
      BY <2>2, <2>3, <2>1, DriftTyped DEF DriftFor, Drift, IInv, TypeOK, Delivered
    <2>7. /\ HasTotal(Drifts(u)')
          /\ Total(Drifts(u)') = Total(Drifts(u)) - DriftFor(r, u) + DriftFor(r, u)'
      BY <1>1, <2>1, DriftsFollow DEF Recorded
    <2>8. Logged(u)' = Logged(u)
      BY <1>3, <2>1
    <2> HIDE DEF a
    <2> QED BY <1>1, <1>2, <2>1, <2>2, <2>4, <2>5, <2>6, <2>7, <2>8 DEF Point
  <1>9. ASSUME NEW r \in Request,
               LocalEffect(r) \/ DispatchEffect(r) \/ UpdateEffect(r) \/ AbortEffect(r)
                 \/ LosingEffect(r) \/ AppendEffect(r)
        PROVE  Goal
    <2>1. r \in inDoubt \/ lateRecords[r] > 0 => pc[r] # "idle"
      BY DEF IInv, LateIsGenuine
    <2> QED BY <1>5, <1>9, <2>1 DEF LocalEffect, DispatchEffect, UpdateEffect, AbortEffect,
          LosingEffect, AppendEffect, Moves, Stays
  <1>10. CASE RosterEffect
    BY <1>5, <1>10 DEF RosterEffect
  <1>11. CASE CrashEffect
    BY <1>5, <1>11 DEF CrashEffect, Serving
  <1>12. CASE UNCHANGED vars
    BY <1>5, <1>12 DEF vars
  <1> QED BY <1>2, <1>6, <1>7, <1>8, <1>9, <1>10, <1>11, <1>12, StepCases
-----------------------------------------------------------------------------
(* The theorems.                                                           *)

\* The empty server satisfies the invariant ...
LEMMA InitEstablishes == Init => IInv
  <1> SUFFICES ASSUME Init PROVE IInv
    OBVIOUS
  <1>1. TypeOK
    BY ZeroInRange DEF Init, TypeOK, Label
  <1>2. Delivered /\ Dispatched /\ SumIsCurrent /\ RecordedInOrder
    BY DEF Init, Delivered, Dispatched, SumIsCurrent, RecordedInOrder, Command,
       BountyCommands, BadgeCommands, ClaimCommands, Open
  <1>3. RowsAreGenuine /\ LateIsGenuine /\ ResourcesMatchProgress
    BY DEF Init, RowsAreGenuine, LateIsGenuine, ResourcesMatchProgress, Open
  <1>4. PublishedIsRecorded
    BY DEF Init, PublishedIsRecorded, StreamName
  <1>5. OkMeansEverywhere
    BY DEF Init, OkMeansEverywhere
  <1>6. RoleIsGenuine
    BY DEF Init, RoleIsGenuine, BountyCommands
  <1> QED BY <1>1, <1>2, <1>3, <1>4, <1>5, <1>6 DEF IInv

\* ... and every step preserves it ...
LEMMA StepPreserves == IInv /\ [Next]_vars => IInv'
  BY TypeStep, DeliveredStep, DispatchedStep, RoleIsGenuineStep, SumIsCurrentStep,
     RowsAreGenuineStep, LateIsGenuineStep, RecordedInOrderStep, ResourcesMatchProgressStep,
     PublishedIsRecordedStep, OkMeansEverywhereStep DEF IInv

\* ... so it always holds.
LEMMA Invariance == Spec => []IInv
  BY InitEstablishes, StepPreserves, PTL DEF Spec

\* Every variable keeps its type; in particular no balance, pending sum or
\* logged amount ever leaves the range of the INTEGER column.
THEOREM TypeCorrect == Spec => []TypeOK
  <1>1. IInv => TypeOK
    BY DEF IInv
  <1> QED BY <1>1, Invariance, PTL

\* A bounty is announced and ranked only after its row is committed.
THEOREM AnnouncedIsDurable == Spec => []PublishedIsRecorded
  <1>1. IInv => PublishedIsRecorded
    BY DEF IInv
  <1> QED BY <1>1, Invariance, PTL

\* A request that was answered 200 reached every store its command concerns.
THEOREM OkIsKept == Spec => []OkMeansEverywhere
  <1>1. IInv => OkMeansEverywhere
    BY DEF IInv
  <1> QED BY <1>1, Invariance, PTL

\* Connections and row locks are held exactly where the handler needs them.
THEOREM NothingLeaks == Spec => []ResourcesMatchProgress
  <1>1. IInv => ResourcesMatchProgress
    BY DEF IInv
  <1> QED BY <1>1, Invariance, PTL

\* At first there is no row and no drift; every step keeps the sums balanced.
LEMMA BalancedInvariance == Spec => []Balanced
  <1>1. Init => Balanced
    <2> SUFFICES ASSUME Init, NEW u \in Account
                 PROVE  /\ HasTotal(Logged(u)) /\ HasTotal(Drifts(u))
                        /\ bounty[u] = Total(Logged(u))
                        /\ score[u] - Point * bounty[u] = Point * Total(Drifts(u))
      BY DEF Balanced, LedgerBalanced, LeaderboardDrift
    <2>1. DOMAIN Logged(u) = {} /\ DOMAIN Drifts(u) = {}
      BY DEF Init, Logged, Drifts
    <2>2. /\ HasTotal(Logged(u)) /\ Total(Logged(u)) = 0
          /\ HasTotal(Drifts(u)) /\ Total(Drifts(u)) = 0
      BY <2>1, TotalOfZeros
    <2>3. bounty[u] = 0 /\ score[u] = 0
      BY CommentAssumption DEF Init
    <2> QED BY <2>2, <2>3 DEF Point
  <1>2. IInv /\ IInv' /\ Balanced /\ [Next]_vars => Balanced'
    BY BalancedStep
  <1> QED BY <1>1, <1>2, Invariance, PTL DEF Spec

\* The balance of an account is the sum of its log, for any number of requests
\* and however their transactions interleave, fail or crash.
THEOREM BooksBalance == Spec => []LedgerBalanced
  <1>1. Balanced => LedgerBalanced
    BY DEF Balanced
  <1> QED BY <1>1, BalancedInvariance, PTL

\* The leaderboard is off the ledger by the repeated and the missing rankings,
\* and by nothing else.
THEOREM DriftIsAccountedFor == Spec => []LeaderboardDrift
  <1>1. Balanced => LeaderboardDrift
    BY DEF Balanced
  <1> QED BY <1>1, BalancedInvariance, PTL

\* Only a maintainer's comment leaves a trace in ledger, ranking and stream.
THEOREM PaidByMaintainers == Spec => []OnlyMaintainersPay
  <1>1. ASSUME IInv PROVE OnlyMaintainersPay
    <2>1. ASSUME NEW r \in Request, Recorded(r)
          PROVE  r \in trusted /\ ev[r].by \in Registered
      BY <1>1, <2>1 DEF Recorded, IInv, RowsAreGenuine
    <2>2. ASSUME NEW r \in Request, ranked[r] > 0 \/ Published(r, Bounty)
          PROVE  Recorded(r)
      BY <1>1, <2>2 DEF IInv, PublishedIsRecorded, Published, RecordsOf
    <2> QED BY <2>1, <2>2 DEF OnlyMaintainersPay
  <1> QED BY <1>1, Invariance, PTL

\* The handlers implement the promise, however they interleave and whatever
\* fails: the commit is the booking, the first ZINCRBY the counting and the
\* first XADD the announcement; every other step is a stutter.
THEOREM BountyPromised == Spec => PromiseKept
  <1> DEFINE Row(row) == [req |-> row.req, user |-> row.user, amount |-> row.amount]
             ledger == {Row(row) : row \in bountyLog}
             counted == {r \in Request : ranked[r] > 0}
             announced == {streams[Bounty][i].req : i \in DOMAIN streams[Bounty]}
             Stutter == UNCHANGED <<bounty, ledger, counted, announced>>
  <1>1. Init => Promise!Init
    BY DEF Init, Promise!Init, StreamName
  <1>2. ASSUME IInv, [Next]_vars
        PROVE  Promise!Next \/ Stutter
    <2>1. TypeOK
      BY <1>2 DEF IInv
    <2>2. ASSUME NEW r \in Request, InstallEffect(r)
          PROVE  Promise!Next
      <3>0. PICK u, amount : u = ev[r].target /\ amount = Amount(ev[r])
        OBVIOUS
      <3>1. Row(LogRow(r)) = [req |-> r, user |-> u, amount |-> amount]
        BY <3>0 DEF LogRow
      <3>2. ev[r] \in Comments /\ u \in Account /\ pend[r] = bounty[u] + amount
        BY <1>2, <2>2, <3>0 DEF InstallEffect, IInv, Delivered, LateIsGenuine, SumIsCurrent,
           Open
      <3>3. amount \in INT
        BY <3>0, <3>2, AmountInRange
      <3>4. ~ Promise!Booked(r)
        <4>1. \A row \in bountyLog : row.req # r
          BY <1>2, <2>2 DEF InstallEffect, IInv, RowsAreGenuine, LateIsGenuine, Committed
        <4> QED BY <4>1 DEF Promise!Booked
      <3>5. ledger' = ledger \cup {[req |-> r, user |-> u, amount |-> amount]}
        BY <2>2, <3>1 DEF InstallEffect
      <3>6. bounty' = [bounty EXCEPT ![u] = @ + amount]
        BY <2>2, <3>0, <3>2 DEF InstallEffect
      <3>7. counted' = counted /\ announced' = announced
        BY <2>2 DEF InstallEffect
      <3>8. Promise!Book(r, u, amount)
        BY <3>4, <3>5, <3>6, <3>7 DEF Promise!Book
      <3> QED BY <3>2, <3>3, <3>8 DEF Promise!Next
    <2>3. ASSUME NEW r \in Request, RankEffect(r)
          PROVE  Promise!Next
      <3>1. LogRow(r) \in bountyLog /\ LogRow(r).req = r
        BY <1>2, <2>3 DEF RankEffect, IInv, RecordedInOrder, LateIsGenuine, LogRow
      <3>2. Promise!Booked(r)
        <4>1. Row(LogRow(r)) \in ledger /\ Row(LogRow(r)).req = r
          BY <3>1
        <4> QED BY <4>1 DEF Promise!Booked
      <3>3. counted' = counted \cup {r}
        BY <2>1, <2>3 DEF RankEffect, TypeOK
      <3>4. bounty' = bounty /\ ledger' = ledger /\ announced' = announced
        BY <2>3 DEF RankEffect
      <3>5. Promise!Count(r)
        BY <3>2, <3>3, <3>4 DEF Promise!Count
      <3> QED BY <3>5 DEF Promise!Next
    <2>4. ASSUME NEW r \in Request, AppendEffect(r)
          PROVE  Promise!Next \/ Stutter
      <3>1. bounty' = bounty /\ ledger' = ledger /\ counted' = counted
        BY <2>4 DEF AppendEffect
      <3>2. CASE StreamOf(ev[r].cmd) # Bounty
        <4>1. streams'[Bounty] = streams[Bounty]
          BY <2>1, <2>4, <3>2 DEF AppendEffect, TypeOK, StreamName
        <4> QED BY <3>1, <4>1
      <3>3. CASE StreamOf(ev[r].cmd) = Bounty
        <4>1. /\ streams[Bounty] \in Seq(Records) /\ Record(r) \in Records
              /\ streams'[Bounty] = Append(streams[Bounty], Record(r))
          BY <1>2, <2>1, <2>4, <3>3, RecordTyped DEF AppendEffect, TypeOK, StreamName
        <4>2. announced' = announced \cup {Record(r).req}
          <5>1. DOMAIN streams'[Bounty] = DOMAIN streams[Bounty] \cup {Len(streams[Bounty]) + 1}
            BY <4>1
          <5>2. /\ streams'[Bounty][Len(streams[Bounty]) + 1] = Record(r)
                /\ \A i \in DOMAIN streams[Bounty] : streams'[Bounty][i] = streams[Bounty][i]
            BY <4>1
          <5> QED BY <5>1, <5>2
        <4>3. r \in counted
          <5>1. ev[r].cmd \in Command
            BY <1>2, <2>4 DEF AppendEffect, IInv, Dispatched, LateIsGenuine
          <5>2. ev[r].cmd \in BountyCommands
            BY <3>3, <5>1 DEF StreamOf, Command, BountyCommands, BadgeCommands,
               ClaimCommands, Bounty, AutomaticEvents, IssueClaim
          <5> QED BY <1>2, <2>4, <5>2
               DEF AppendEffect, IInv, RecordedInOrder, LateIsGenuine
        <4>4. announced' = announced \cup {r}
          BY <4>2 DEF Record
        <4>5. Promise!Announce(r)
          BY <3>1, <4>3, <4>4 DEF Promise!Announce
        <4> QED BY <4>5 DEF Promise!Next
      <3> QED BY <3>2, <3>3
    <2>5. ASSUME ~ \E r \in Request : InstallEffect(r) \/ RankEffect(r) \/ AppendEffect(r)
          PROVE  UNCHANGED <<bounty, bountyLog, ranked, streams>>
      BY <1>2, <2>1, <2>5, StepCases
         DEF DeliverEffect, LocalEffect, DispatchEffect, RosterEffect, UpdateEffect,
             AbortEffect, LosingEffect, CrashEffect, vars
    <2> QED BY <2>2, <2>3, <2>4, <2>5
  <1>3. IInv /\ [Next]_vars => [Promise!Next]_(Promise!promise)
    BY <1>2 DEF Promise!promise
  <1> QED BY <1>1, <1>3, Invariance, PTL DEF Spec, PromiseKept, Promise!Spec

\* The stores a request has reached change by three kinds of its own steps.
LEMMA WhoReaches ==
    ASSUME IInv, [Next]_vars, NEW q \in Request, Reached(q)' # Reached(q)
    PROVE  InstallEffect(q) \/ RankEffect(q) \/ AppendEffect(q)
  <1>1. TypeOK
    BY DEF IInv
  <1>2. ASSUME UNCHANGED <<bountyLog, ranked, streams>>
        PROVE  FALSE
    BY <1>2 DEF Reached, Recorded, Published, RecordsOf
  <1>3. ASSUME NEW r \in Request, InstallEffect(r), r # q
        PROVE  FALSE
    <2>1. /\ bountyLog' = bountyLog \cup {LogRow(r)} /\ LogRow(r).req # q
          /\ UNCHANGED <<ranked, streams>>
      BY <1>3 DEF InstallEffect, LogRow
    <2> QED BY <2>1 DEF Reached, Recorded, Published, RecordsOf
  <1>4. ASSUME NEW r \in Request, RankEffect(r), r # q
        PROVE  FALSE
    <2>1. ranked'[q] = ranked[q] /\ UNCHANGED <<bountyLog, streams>>
      BY <1>1, <1>4 DEF RankEffect, TypeOK
    <2> QED BY <2>1 DEF Reached, Recorded, Published, RecordsOf
  <1>5. ASSUME NEW r \in Request, AppendEffect(r), r # q
        PROVE  FALSE
    <2>1. UNCHANGED <<bountyLog, ranked>> /\ Record(r) \in Records /\ Record(r).req # q
      BY <1>5, RecordTyped DEF AppendEffect, Record
    <2>2. ASSUME NEW key \in StreamName
          PROVE  Published(q, key)' <=> Published(q, key)
      <3>1. \/ streams'[key] = streams[key]
            \/ streams'[key] = Append(streams[key], Record(r))
        BY <1>1, <1>5 DEF AppendEffect, TypeOK
      <3>2. streams[key] \in Seq(Records)
        BY <1>1 DEF TypeOK
      <3>3. CASE streams'[key] = Append(streams[key], Record(r))
        <4>1. /\ DOMAIN streams'[key] = DOMAIN streams[key] \cup {Len(streams[key]) + 1}
              /\ streams'[key][Len(streams[key]) + 1] = Record(r)
              /\ \A i \in DOMAIN streams[key] : streams'[key][i] = streams[key][i]
          BY <2>1, <3>2, <3>3
        <4> QED BY <2>1, <4>1 DEF Published, RecordsOf
      <3> QED BY <3>1, <3>3 DEF Published, RecordsOf
    <2> QED BY <2>1, <2>2 DEF Reached, Recorded
  <1> QED BY <1>1, <1>2, <1>3, <1>4, <1>5, StepCases
       DEF DeliverEffect, LocalEffect, DispatchEffect, RosterEffect, UpdateEffect,
           AbortEffect, LosingEffect, CrashEffect, vars

\* What a call without a reply does behind an answer 200 was promised by that
\* answer, and behind a 400 there is none; a request that is over reaches a store
\* only by such a call.
THEOREM AnswersAreFinal == Spec => NothingNewAfterAnswer
  <1> DEFINE Quietly == \A r \in Request :
               /\ resp[r] \in {200, 400} => Reached(r)' = Reached(r)
               /\ Over(r) /\ Reached(r)' # Reached(r) =>
                     r \in inDoubt \/ lateRanks[r] > 0 \/ lateRecords[r] > 0
  <1>1. ASSUME IInv, [Next]_vars PROVE Quietly
    <2>1. TypeOK
      BY <1>1 DEF IInv
    <2>2. ASSUME NEW r \in Request, Over(r), Reached(r)' # Reached(r)
          PROVE  \/ InstallEffect(r) /\ r \in inDoubt
                 \/ RankEffect(r) /\ lateRanks[r] > 0
                 \/ AppendEffect(r) /\ lateRecords[r] > 0
      <3>1. InstallEffect(r) \/ RankEffect(r) \/ AppendEffect(r)
        BY <1>1, <2>2, WhoReaches
      <3> QED BY <2>2, <3>1 DEF InstallEffect, RankEffect, AppendEffect, Over
    <2>3. ASSUME NEW r \in Request, resp[r] \in {200, 400}, Reached(r)' # Reached(r)
          PROVE  FALSE
      <3>1. Over(r)
        BY <1>1, <2>3 DEF IInv, Delivered, Over
      <3>2. CASE InstallEffect(r) /\ r \in inDoubt
        BY <1>1, <2>3, <3>2 DEF IInv, LateIsGenuine
      <3>3. CASE RankEffect(r) /\ lateRanks[r] > 0
        <4>1. LogRow(r) \in bountyLog /\ LogRow(r).req = r
          BY <1>1, <3>3 DEF IInv, LateIsGenuine, LogRow
        <4>2. action[r] \in BountyCommands
          BY <1>1, <4>1 DEF IInv, RowsAreGenuine
        <4>3. action[r] # "NoAction"
          BY <4>2 DEF BountyCommands
        <4>4. resp[r] = 200
          BY <1>1, <2>3, <4>3 DEF IInv, Dispatched
        <4>5. ranked[r] > 0
          BY <1>1, <4>2, <4>3, <4>4 DEF IInv, OkMeansEverywhere
        <4>6. /\ ranked'[r] > 0
              /\ UNCHANGED <<bountyLog, streams>>
          BY <1>1, <3>3, <4>5, NothingTakenBack DEF RankEffect
        <4>7. /\ Recorded(r)' = Recorded(r) /\ (ranked[r] > 0)' = (ranked[r] > 0)
              /\ {key \in StreamName : Published(r, key)}'
                    = {key \in StreamName : Published(r, key)}
          BY <4>5, <4>6 DEF Recorded, Published, RecordsOf
        <4> QED BY <2>3, <4>7 DEF Reached
      <3>4. CASE AppendEffect(r) /\ lateRecords[r] > 0
        <4>1. action[r] \in Command /\ action[r] = ev[r].cmd
          BY <1>1, <3>4 DEF IInv, LateIsGenuine, Dispatched
        <4>2. action[r] # "NoAction"
          BY <4>1 DEF Command, BountyCommands, BadgeCommands, ClaimCommands
        <4>3. resp[r] = 200
          BY <1>1, <2>3, <4>2 DEF IInv, Dispatched
        <4> DEFINE key == StreamOf(ev[r].cmd)
        <4>4. Published(r, key)
          BY <1>1, <4>1, <4>2, <4>3 DEF IInv, OkMeansEverywhere
        <4>5. key \in StreamName
          BY DEF StreamOf, StreamName
        <4>6. Published(r, key)'
          <5>1. ev' = ev
            BY <3>4 DEF AppendEffect
          <5> QED BY <1>1, <4>4, <4>5, <5>1, NothingTakenBack
               DEF Published, RecordsOf, StreamOf
        <4>7. \A k \in StreamName : k # key => streams'[k] = streams[k]
          BY <2>1, <3>4 DEF AppendEffect, TypeOK
        <4>8. UNCHANGED <<bountyLog, ranked, ev>>
          BY <3>4 DEF AppendEffect
        <4>9. ASSUME NEW k \in StreamName
              PROVE  Published(r, k)' <=> Published(r, k)
          <5>1. CASE k = key
            BY <4>4, <4>6, <4>8, <5>1 DEF Published, RecordsOf
          <5>2. CASE k # key
            BY <4>7, <5>2 DEF Published, RecordsOf
          <5> QED BY <5>1, <5>2
        <4>10. /\ Recorded(r)' = Recorded(r) /\ (ranked[r] > 0)' = (ranked[r] > 0)
               /\ {k \in StreamName : Published(r, k)}'
                     = {k \in StreamName : Published(r, k)}
          BY <4>8, <4>9 DEF Recorded
        <4> QED BY <2>3, <4>10 DEF Reached
      <3> QED BY <2>2, <2>3, <3>1, <3>2, <3>3, <3>4
    <2> QED BY <2>2, <2>3
  <1>2. IInv /\ [Next]_vars => [Quietly]_vars
    BY <1>1
  <1> QED BY <1>2, Invariance, PTL DEF Spec, NothingNewAfterAnswer
=============================================================================
