---------------------------- MODULE IssueComment ----------------------------
(***************************************************************************)
(* controller/issue_comment.go: the handler of GitHub's issue_comment      *)
(* webhook.  A comment is looked up (who wrote it?), parsed (which bot     *)
(* command?) and executed.  Claims and badges are appended to a stream; a  *)
(* bounty or a penalty is first a Postgres transaction on user_account and *)
(* bounty_log, then an increment of the leaderboard, then a stream record. *)
(*                                                                         *)
(* Every delivery is served by a goroutine of its own, so the steps of the *)
(* requests interleave.  One action is one interaction with Postgres, with *)
(* the connection pool or with Valkey.  The process may crash between any  *)
(* two of them, and every call may fail.  A COMMIT, ZINCRBY or XADD whose  *)
(* reply does not arrive in time is on its way all the same: its store may *)
(* execute it at any later moment, when the handler has repeated it, or    *)
(* given it up and answered, or when the process is dead.                  *)
(***************************************************************************)
EXTENDS Int32, Valkey, Server, Totals

CONSTANTS
    User,           \* GitHub logins
    Account,        \* logins with a row in user_account
    ActiveAccount,  \* ... whose status is true
    Registered,     \* logins in table maintainers
    RepoUrl,        \* repository URLs that occur in payloads
    Rosters,        \* what column repository.maintainers may hold, per URL
    Comments,       \* the payloads that may be delivered
    NoComment,      \* the payload of a request not delivered yet
    MaxLost         \* bound: replies lost per call of Valkey and request

BountyCommands == {"/bounty", "/penalty"}
BadgeCommands  == {"/help", "/doc", "/test", "/impact", "/bug"}
ClaimCommands  == {"/assign", "/unassign"}
Command        == BountyCommands \cup BadgeCommands \cup ClaimCommands

\* A comment after strings.Split: cmd is the first word ("other" if it is no
\* command), args the number of further words; numeric says whether Atoi
\* accepts the first of them, amount is its value and target the login that
\* follows.  The payload's Action (created, edited, deleted) is never read,
\* so each of the three deliveries of one comment is a request like another.
Comment == [by : User, repo : RepoUrl, cmd : Command \cup {"other"},
            args : Nat, numeric : BOOLEAN, amount : Int, target : User]

ASSUME CommentAssumption ==
    /\ Account \subseteq User /\ ActiveAccount \subseteq Account
    /\ Registered \subseteq User
    /\ \A roster \in Rosters :
          /\ DOMAIN roster \subseteq RepoUrl
          /\ \A repo \in DOMAIN roster : roster[repo] \subseteq User
    /\ Comments \subseteq Comment /\ NoComment \notin Comments
    /\ MaxLost \in Nat

VARIABLES
    maintainers,\* column repository.maintainers, which other services write
    trusted,    \* history: the requests whose author was a maintainer of the
                \* repository at some moment from the delivery to the lookup
    action,     \* the command each handler has parsed
    bounty,     \* committed column user_account.bounty
    bountyLog,  \* committed rows of table bounty_log
    rowLock,    \* per user_account row, the transactions holding its lock
    pend,       \* the uncommitted bounty each open transaction has written
    inDoubt,    \* the requests whose COMMIT nobody waits for any more
    lateRanks,  \* how many ZINCRBYs of each request are in that state,
    lateRecords,\* ... and how many XADDs
    ranked,     \* history: how often each request's ZINCRBY was applied
    score,      \* the leaderboard, in thousandths of a point
    streams     \* the Valkey streams

store == <<bounty, bountyLog, rowLock, pend, inDoubt>>
late == <<lateRanks, lateRecords>>
valkey == <<ranked, score, streams, late>>
roles == <<maintainers, trusted, action>>
vars == <<pc, ev, resp, conn, maintainers, trusted, action, bounty, bountyLog,
          rowLock, pend, inDoubt, lateRanks, lateRecords, ranked, score, streams>>
-----------------------------------------------------------------------------
(* The pure parts of the handler.                                          *)

WellFormed(c) ==
    \/ c.cmd \in BountyCommands /\ c.args = 2 /\ c.numeric
    \/ c.cmd \in BadgeCommands /\ c.args = 1

\* parseComment: the command to execute, "NoAction", or "SyntaxError" for the
\* error return.  Participants' commands are matched by prefix, whatever
\* follows them; a maintainer's command without arguments is no command.
parseComment(c, by) ==
    CASE by = "Participant" /\ c.cmd \in ClaimCommands -> c.cmd
      [] by = "Maintainer" /\ WellFormed(c) -> c.cmd
      [] by = "Maintainer" /\ c.cmd \in BountyCommands \cup BadgeCommands
            /\ c.args > 0 /\ ~WellFormed(c) -> "SyntaxError"
      [] OTHER -> "NoAction"

\* The amount of the ledger: truncated to int32, then negated for a penalty.
SignedAmount(cmd, amount) ==
    IF cmd = "/penalty" THEN Negate32(Int32(amount)) ELSE Int32(amount)

Amount(c) == SignedAmount(c.cmd, c.amount)

\* Mutant: the points are those of the comment, neither truncated nor negated.
WrittenPoints(c) == Point * c.amount

Points(c) == Point * Amount(c)

\* Mutant: the balance is read and written back without locking the row.
Unguarded(u) == TRUE

Free(u) == rowLock[u] = {}

\* Mutant: a sum beyond the range of the column is not refused.
Unchecked(sum) == TRUE

Fits(sum) == sum \in INT

StreamOf(cmd) ==
    CASE cmd \in BountyCommands -> Bounty
      [] cmd \in BadgeCommands -> AutomaticEvents
      [] OTHER -> IssueClaim

\* The JSON records.  A bounty record carries the amount as it was written in
\* the comment, neither truncated nor negated; the others carry none.
Record(r) ==
    [req |-> r, action |-> ev[r].cmd,
     user |-> IF ev[r].cmd \in ClaimCommands THEN ev[r].by ELSE ev[r].target,
     amount |-> IF ev[r].cmd \in BountyCommands THEN ev[r].amount ELSE 0]

\* The row of bounty_log; req stands for the serial id.
LogRow(r) == [req |-> r, user |-> ev[r].target, by |-> ev[r].by,
              amount |-> Amount(ev[r])]
-----------------------------------------------------------------------------
(* The deferred clean-up of a transaction.                                  *)

\* Locks and pending writes end with the transaction, and so does the use of
\* the connection: tx.Commit and the deferred tx.Rollback.
EndTransaction(r) ==
    /\ conn' = conn \ {r}
    /\ rowLock' = [u \in Account |-> rowLock[u] \ {r}]
    /\ pend' = [pend EXCEPT ![r] = 0]
    /\ inDoubt' = inDoubt \ {r}

\* Mutant: no deferred Rollback.
AbortWithoutRollback(r) ==
    /\ Answer(r, 500)
    /\ UNCHANGED <<ev, conn, roles, store, valkey>>

Abort(r) ==
    /\ EndTransaction(r)
    /\ Answer(r, 500)
    /\ UNCHANGED <<ev, bounty, bountyLog, roles, valkey>>

-----------------------------------------------------------------------------
(* The handler, step by step.                                              *)

IsMaintainer(c, roster) == c.repo \in DOMAIN roster /\ c.by \in roster[c.repo]

Deliver(r, c) ==
    /\ pc[r] = "idle"
    /\ ev' = [ev EXCEPT ![r] = c]
    /\ trusted' = IF IsMaintainer(c, maintainers) THEN trusted \cup {r} ELSE trusted
    /\ Goto(r, "lookup")
    /\ UNCHANGED <<resp, conn, maintainers, action, store, valkey>>

\* findCommentator takes a connection of its own ...
AcquireForLookup(r) ==
    /\ pc[r] = "lookup"
    /\ PoolHasRoom
    /\ conn' = conn \cup {r}
    /\ Goto(r, "query")
    /\ UNCHANGED <<ev, resp, roles, store, valkey>>

\* ... and gives it back before the command is parsed and dispatched.
Dispatch(r, role) ==
    LET command == parseComment(ev[r], role) IN
    /\ conn' = conn \ {r}
    /\ action' = [action EXCEPT ![r] = command]
    /\ \/ /\ command = "NoAction"
          /\ Answer(r, 200)
       \/ /\ command = "SyntaxError"
          /\ Answer(r, 500)
       \/ /\ command \in BountyCommands
          /\ Goto(r, "begin")
          /\ UNCHANGED resp
       \/ /\ command \in BadgeCommands \cup ClaimCommands
          /\ Goto(r, "publish")
          /\ UNCHANGED resp
    /\ UNCHANGED <<ev, maintainers, trusted, store, valkey>>

\* Mutant: a cache of maintainers that forgets nobody.
EverMaintainers ==
    [repo \in RepoUrl |->
        {u \in User : \E roster \in Rosters : repo \in DOMAIN roster /\ u \in roster[repo]}]

\* GetMaintainersQuery reads what is committed at that moment ...
CurrentMaintainers == maintainers

FindMaintainer(r) ==
    /\ pc[r] = "query"
    /\ IsMaintainer(ev[r], CurrentMaintainers)
    /\ Dispatch(r, "Maintainer")

\* ... and whoever is not among them is looked up as a participant.
NotAMaintainer(r) ==
    /\ pc[r] = "query"
    /\ ev[r].repo \in DOMAIN CurrentMaintainers
    /\ ~IsMaintainer(ev[r], CurrentMaintainers)
    /\ Goto(r, "account")
    /\ UNCHANGED <<ev, resp, conn, roles, store, valkey>>

ParticipantExists(r) ==
    /\ pc[r] = "account"
    /\ Dispatch(r, IF ev[r].by \in ActiveAccount THEN "Participant" ELSE "UnknownUser")

\* GetMaintainersQuery finds no row: the lookup fails.
UnknownRepository(r) ==
    /\ pc[r] = "query"
    /\ ev[r].repo \notin DOMAIN CurrentMaintainers
    /\ conn' = conn \ {r}
    /\ Answer(r, 400)
    /\ UNCHANGED <<ev, roles, store, valkey>>

\* The pool stays exhausted until the timeout, or a query fails.
LookupFails(r) ==
    /\ pc[r] \in {"lookup", "query", "account"}
    /\ conn' = conn \ {r}
    /\ Answer(r, 400)
    /\ UNCHANGED <<ev, roles, store, valkey>>

Begin(r) ==
    /\ pc[r] = "begin"
    /\ PoolHasRoom
    /\ conn' = conn \cup {r}
    /\ Goto(r, "update")
    /\ UNCHANGED <<ev, resp, roles, store, valkey>>

\* UPDATE user_account SET bounty = bounty + $1: waits for the row's lock and
\* then reads the committed value.
UpdateUserBounty(r) ==
    LET u == ev[r].target IN
    /\ pc[r] = "update"
    /\ u \in Account
    /\ Free(u)
    /\ Fits(bounty[u] + Amount(ev[r]))
    /\ rowLock' = [rowLock EXCEPT ![u] = {r}]
    /\ pend' = [pend EXCEPT ![r] = bounty[u] + Amount(ev[r])]
    /\ Goto(r, "insert")
    /\ UNCHANGED <<ev, resp, conn, bounty, bountyLog, inDoubt, roles, valkey>>

\* No row is updated (pgx.ErrNoRows), or the sum leaves the INTEGER range.
UpdateRefused(r) ==
    LET u == ev[r].target IN
    /\ pc[r] = "update"
    /\ \/ u \notin Account
       \/ u \in Account /\ Free(u) /\ ~Fits(bounty[u] + Amount(ev[r]))
    /\ Abort(r)

\* INSERT INTO bounty_log: dispatched_by must be in table maintainers.
AddBountyLog(r) ==
    /\ pc[r] = "insert"
    /\ ev[r].by \in Registered
    /\ Goto(r, "commit")
    /\ UNCHANGED <<ev, resp, conn, roles, store, valkey>>

DispatcherNotRegistered(r) ==
    /\ pc[r] = "insert"
    /\ ev[r].by \notin Registered
    /\ Abort(r)

Install(r) ==
    /\ bounty' = [bounty EXCEPT ![ev[r].target] = pend[r]]
    /\ bountyLog' = bountyLog \cup {LogRow(r)}
    /\ EndTransaction(r)

Commit(r) ==
    /\ pc[r] = "commit"
    /\ Install(r)
    /\ Goto(r, "rank")
    /\ UNCHANGED <<ev, resp, roles, valkey>>

\* The COMMIT was sent, but its reply does not come in time: the handler gives
\* up, and pgx closes the connection.
CommitReplyLost(r) ==
    /\ pc[r] = "commit"
    /\ Answer(r, 500)
    /\ conn' = conn \ {r}
    /\ inDoubt' = inDoubt \cup {r}
    /\ UNCHANGED <<ev, bounty, bountyLog, rowLock, pend, roles, valkey>>

\* Postgres gets to the COMMIT after all ...
CommitLands(r) ==
    /\ r \in inDoubt
    /\ Install(r)
    /\ UNCHANGED <<pc, ev, resp, roles, valkey>>

\* ... or finds the client gone, and rolls back.
CommitDropped(r) ==
    /\ r \in inDoubt
    /\ EndTransaction(r)
    /\ UNCHANGED <<pc, ev, resp, bounty, bountyLog, roles, valkey>>

\* Mutant: the error of processBountyOrPenalty is logged and dropped.
TransactionErrorIgnored(r) ==
    /\ pc[r] \in {"begin", "update", "insert", "commit"}
    /\ EndTransaction(r)
    /\ Goto(r, "publish")
    /\ UNCHANGED <<ev, resp, bounty, bountyLog, roles, valkey>>

\* Begin, a statement or the commit fails, or the ten seconds are over.
TransactionFails(r) ==
    /\ pc[r] \in {"begin", "update", "insert", "commit"}
    /\ Abort(r)

\* ZINCRBY leaderboard.
Increment(r) ==
    /\ score' = UpdateLeaderboard(score, ev[r].target, Points(ev[r]))
    /\ ranked' = [ranked EXCEPT ![r] = @ + 1]
    /\ UNCHANGED <<ev, conn, roles, store, streams, lateRecords>>

\* Mutant: the leaderboard is updated by a goroutine nobody waits for.
RankInBackground(r) ==
    \/ /\ pc[r] = "rank"
       /\ Goto(r, "publish")
       /\ UNCHANGED <<ev, resp, conn, roles, store, valkey>>
    \/ /\ pc[r] = "done" /\ ranked[r] = 0
       /\ LogRow(r) \in bountyLog
       /\ Increment(r)
       /\ UNCHANGED <<pc, resp, lateRanks>>

Rank(r) ==
    /\ pc[r] = "rank"
    /\ Increment(r)
    /\ Goto(r, "publish")
    /\ UNCHANGED <<resp, lateRanks>>

\* Sent, but the reply does not come in time: the client library tries again,
\* or RankFails gives up.
RankReplyLost(r) ==
    /\ pc[r] = "rank"
    /\ ranked[r] + lateRanks[r] < MaxLost
    /\ lateRanks' = [lateRanks EXCEPT ![r] = @ + 1]
    /\ UNCHANGED <<pc, ev, resp, conn, roles, store, ranked, score, streams, lateRecords>>

\* Valkey gets to it after all.
RankLands(r) ==
    /\ lateRanks[r] > 0
    /\ lateRanks' = [lateRanks EXCEPT ![r] = @ - 1]
    /\ Increment(r)
    /\ UNCHANGED <<pc, resp>>

\* Mutant: the error of UpdateLeaderboard is not returned.
RankErrorIgnored(r) ==
    /\ pc[r] = "rank"
    /\ Goto(r, "publish")
    /\ UNCHANGED <<ev, resp, conn, roles, store, valkey>>

RankFails(r) ==
    /\ pc[r] = "rank"
    /\ Answer(r, 500)
    /\ UNCHANGED <<ev, conn, roles, store, valkey>>

\* XADD: sendToStream.
AppendRecord(r) ==
    /\ streams' = AddToStream(streams, StreamOf(ev[r].cmd), Record(r))
    /\ UNCHANGED <<ev, conn, roles, store, ranked, score, lateRanks>>

RecordsOf(r, key) == {i \in DOMAIN streams[key] : streams[key][i].req = r}

Publish(r) ==
    /\ pc[r] = "publish"
    /\ AppendRecord(r)
    /\ Answer(r, 200)
    /\ UNCHANGED lateRecords

PublishReplyLost(r) ==
    /\ pc[r] = "publish"
    /\ Cardinality(RecordsOf(r, StreamOf(ev[r].cmd))) + lateRecords[r] < MaxLost
    /\ lateRecords' = [lateRecords EXCEPT ![r] = @ + 1]
    /\ UNCHANGED <<pc, ev, resp, conn, roles, store, ranked, score, streams, lateRanks>>

RecordLands(r) ==
    /\ lateRecords[r] > 0
    /\ lateRecords' = [lateRecords EXCEPT ![r] = @ - 1]
    /\ AppendRecord(r)
    /\ UNCHANGED <<pc, resp>>

PublishFails(r) ==
    /\ pc[r] = "publish"
    /\ Answer(r, 500)
    /\ UNCHANGED <<ev, conn, roles, store, valkey>>
-----------------------------------------------------------------------------
(* The specification.                                                      *)

\* The process dies: Valkey keeps what it has, Postgres rolls the open
\* transactions back, but those whose COMMIT is on its way.
Crash ==
    /\ ServerDies
    /\ \E sent \in SUBSET {r \in Request : pc[r] = "commit" /\ action[r] \in BountyCommands} :
          inDoubt' = inDoubt \cup sent
    /\ rowLock' = [u \in Account |-> rowLock[u] \cap inDoubt']
    /\ pend' = [r \in Request |-> IF r \in inDoubt' THEN pend[r] ELSE 0]
    /\ UNCHANGED <<bounty, bountyLog, roles, valkey>>

\* Another service rewrites the maintainers of a repository.
MaintainersChange ==
    /\ maintainers' \in Rosters
    /\ trusted' = trusted \cup
          {r \in Request : /\ pc[r] \in {"lookup", "query"}
                          /\ IsMaintainer(ev[r], maintainers')}
    /\ UNCHANGED <<pc, ev, resp, conn, action, store, valkey>>

\* All deliveries have been dealt with; the server waits for more.
Quiet ==
    /\ \A r \in Request : Over(r)
    /\ UNCHANGED vars

Init ==
    /\ pc = [r \in Request |-> "idle"]
    /\ ev = [r \in Request |-> NoComment]
    /\ resp = [r \in Request |-> 0]
    /\ conn = {}
    /\ maintainers \in Rosters /\ trusted = {}
    /\ action = [r \in Request |-> "NoAction"]
    /\ bounty = [u \in Account |-> 0]
    /\ bountyLog = {}
    /\ rowLock = [u \in Account |-> {}]
    /\ pend = [r \in Request |-> 0]
    /\ inDoubt = {}
    /\ lateRanks = [r \in Request |-> 0] /\ lateRecords = [r \in Request |-> 0]
    /\ ranked = [r \in Request |-> 0]
    /\ score = [u \in User |-> 0]
    /\ streams = [key \in StreamName |-> << >>]

\* What the handler does when nothing around it fails.
Progress(r) ==
    \/ AcquireForLookup(r) \/ FindMaintainer(r) \/ NotAMaintainer(r)
    \/ ParticipantExists(r) \/ UnknownRepository(r)
    \/ Begin(r) \/ UpdateUserBounty(r) \/ UpdateRefused(r)
    \/ AddBountyLog(r) \/ DispatcherNotRegistered(r) \/ Commit(r)
    \/ Rank(r) \/ Publish(r)

Fault(r) ==
    \/ LookupFails(r) \/ TransactionFails(r) \/ CommitReplyLost(r)
    \/ RankReplyLost(r) \/ RankFails(r)
    \/ PublishReplyLost(r) \/ PublishFails(r)

\* Calls that nobody waits for any more.
Settles(r) == CommitLands(r) \/ CommitDropped(r)
Lands(r) == Settles(r) \/ RankLands(r) \/ RecordLands(r)

Next ==
    \/ \E r \in Request, c \in Comments : Deliver(r, c)
    \/ \E r \in Request : Progress(r) \/ Fault(r) \/ Lands(r)
    \/ MaintainersChange
    \/ Crash
    \/ Quiet

Spec == Init /\ [][Next]_vars

\* The Go scheduler runs every goroutine, Postgres and Valkey answer, and
\* Postgres ends the transactions of clients that are gone; no fault, timeout or
\* crash is ever needed to make progress.
FairSpec == Spec /\ \A r \in Request : WF_vars(Progress(r)) /\ WF_vars(Settles(r))
-----------------------------------------------------------------------------
(* Properties.                                                             *)

\* The values of the variables.
LogRows == [req : Request, user : Account, by : User, amount : INT]
Records == [req : Request, action : Command, user : User, amount : Int]

Label == {"idle", "lookup", "query", "account", "begin", "update", "insert", "commit",
          "rank", "publish", "done", "crashed"}

TypeOK ==
    /\ pc \in [Request -> Label]
    /\ ev \in [Request -> Comments \cup {NoComment}]
    /\ resp \in [Request -> {0, 200, 400, 500}]
    /\ conn \subseteq Request
    /\ maintainers \in Rosters /\ trusted \subseteq Request
    /\ action \in [Request -> Command \cup {"NoAction", "SyntaxError"}]
    /\ bounty \in [Account -> INT]
    /\ bountyLog \subseteq LogRows
    /\ rowLock \in [Account -> SUBSET Request]
    /\ pend \in [Request -> INT]
    /\ inDoubt \subseteq Request
    /\ lateRanks \in [Request -> Nat] /\ lateRecords \in [Request -> Nat]
    /\ ranked \in [Request -> Nat]
    /\ score \in [User -> Int]
    /\ streams \in [StreamName -> Seq(Records)]

Recorded(r) == \E row \in bountyLog : row.req = r
Published(r, key) == RecordsOf(r, key) # {}

\* The amounts in the bounty_log rows of an account.
Logged(u) == [row \in {x \in bountyLog : x.user = u} |-> row.amount]

\* The balance of every account is the sum of its bounty_log rows: the two
\* statements of processBountyOrPenalty take effect together or not at all,
\* and no update is lost, whatever fails and whoever runs at the same time.
LedgerBalanced ==
    \A u \in Account : bounty[u] = Total(Logged(u))

\* Ledger, leaderboard and bounty-stream keep the promise of BountyPromise: a
\* delivery is booked at most once, the balance moving with its row and by its
\* amount, whoever else commits at the same time; then counted, then announced.
Promise == INSTANCE BountyPromise WITH
    Amounts   <- INT,
    balance   <- bounty,
    ledger    <- {[req |-> row.req, user |-> row.user, amount |-> row.amount] :
                    row \in bountyLog},
    counted   <- {r \in Request : ranked[r] > 0},
    announced <- {streams[Bounty][i].req : i \in DOMAIN streams[Bounty]}

PromiseKept == Promise!Spec

\* A bounty is announced only after it is durable: the leaderboard moves only
\* for a committed row, and a record of bounty-stream is backed by the row of
\* its own request with the amount the record stands for, already ranked.
PublishedIsRecorded ==
    /\ \A r \in Request : ranked[r] > 0 => Recorded(r)
    /\ \A i \in DOMAIN streams[Bounty] :
          LET m == streams[Bounty][i] IN
          /\ \E row \in bountyLog :
                /\ row.req = m.req /\ row.user = m.user
                /\ row.amount = SignedAmount(m.action, m.amount)
          /\ ranked[m.req] > 0

\* The answer 200 is a promise: the command of that comment reached every
\* store it has to reach (ledger, leaderboard and stream for a bounty or a
\* penalty, the command's stream otherwise).
OkMeansEverywhere ==
    \A r \in Request : resp[r] = 200 /\ action[r] # "NoAction" =>
        /\ Published(r, StreamOf(action[r]))
        /\ action[r] \in BountyCommands => Recorded(r) /\ ranked[r] > 0

\* "making sure that only a maintainer had made the comment"
\* (pkg/constants.go, on the bounty stream): only a comment whose author was a
\* maintainer of that repository at some moment between its delivery and its
\* lookup, and is in table maintainers, leaves a trace in the ledger, on the
\* leaderboard or on bounty-stream.  Whoever was removed before commenting pays
\* nothing, although the role is read outside the transaction and the foreign
\* key is checked after the balance was already updated.
OnlyMaintainersPay ==
    \A r \in Request :
        Recorded(r) \/ ranked[r] > 0 \/ Published(r, Bounty)
            => r \in trusted /\ ev[r].by \in Registered

\* A transaction is open for Postgres from its UPDATE until it knows the end.
Open(r) == pc[r] \in {"insert", "commit"} \/ r \in inDoubt

\* A request owns a connection exactly while it queries, and a row lock
\* exactly between its UPDATE and the end of its transaction; two requests
\* never own the same lock.  Nothing leaks on any error path.
ResourcesMatchProgress ==
    /\ conn = {r \in Request :
                 pc[r] \in {"query", "account", "update", "insert", "commit"}}
    /\ \A u \in Account :
          /\ rowLock[u] = {r \in Request : Open(r) /\ ev[r].target = u}
          /\ \A r1, r2 \in rowLock[u] : r1 = r2

\* What a request moved the leaderboard by beyond its booking: nothing when its
\* ZINCRBY was applied once for its row.
Drift(r) == (ranked[r] - (IF Recorded(r) THEN 1 ELSE 0)) * Amount(ev[r])
Drifts(u) == [r \in {q \in Request : pc[q] # "idle" /\ ev[q].target = u} |-> Drift(r)]

\* Leaderboard and ledger differ only by the commands whose ZINCRBY was not
\* applied exactly once: those that failed or crashed after the commit, and
\* those that were repeated after a lost reply.
LeaderboardDrift ==
    \A u \in Account : score[u] - Point * bounty[u] = Point * Total(Drifts(u))

\* The stores that a request has reached.
Reached(r) ==
    [ledger |-> Recorded(r), leaderboard |-> ranked[r] > 0,
     streams |-> {key \in StreamName : Published(r, key)}]

\* An answer 200 or 400 is final: no store is reached for the first time behind
\* it, and nothing the request has written is ever taken back.  What a call
\* without a reply still does after a 200 only repeats what is already there;
\* after a 500, or when the process died, it may do what the handler did not
\* wait for, but only a call that was made.
NothingNewAfterAnswer ==
    [][\A r \in Request :
          /\ resp[r] \in {200, 400} => Reached(r)' = Reached(r)
          /\ Over(r) /\ Reached(r)' # Reached(r) =>
                r \in inDoubt \/ lateRanks[r] > 0 \/ lateRecords[r] > 0]_vars

\* Every delivery is answered: no request waits for ever for a connection or
\* for a row lock, also when neither a timeout nor a fault helps it out.
Answered ==
    \A r \in Request : Serving(r) ~> Over(r)
-----------------------------------------------------------------------------
(* Statements of the repository's comments, checked against the code.      *)

\* "Maintainers : Marking issue for "bug" badge" (pkg/constants.go, on the
\* issue stream): an executed /bug command is on issue-stream.
BugMarksOnIssueStream ==
    \A r \in Request : resp[r] = 200 /\ action[r] = "/bug" =>
        Published(r, IssueClaim)

\* "It handles the following events: ... Bounty Dispatch ... Producers: Alfred"
\* (pkg/constants.go, on the live-update stream; README.md says the same): an
\* executed /bounty command is on live-update-stream.
BountyGoesLive ==
    \A r \in Request : resp[r] = 200 /\ action[r] = "/bounty" =>
        Published(r, LiveUpdates)
=============================================================================
