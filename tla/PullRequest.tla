---------------------------- MODULE PullRequest ----------------------------
(***************************************************************************)
(* controller/pull_request.go: the handler of GitHub's pull_request        *)
(* webhook.  A pull request that is opened becomes a row of table          *)
(* solutions, one that is closed loses its rows, one that is merged has    *)
(* them flagged and earns its author 0.001 points.  Unlike a bounty, the   *)
(* record goes to the stream (and the points to the leaderboard) BEFORE    *)
(* the transaction commits.                                                *)
(*                                                                         *)
(* solutions.url is not unique: redelivered openings insert more rows, and *)
(* a merge or a closing handles all the rows it sees.  Postgres runs at    *)
(* READ COMMITTED: each statement takes a snapshot of the committed rows,  *)
(* waits for the transactions that touched them, and skips the rows that   *)
(* are gone by then.                                                       *)
(***************************************************************************)
EXTENDS Valkey, Server, FiniteSetsExt

CONSTANTS
    User,           \* GitHub logins
    Account,        \* logins with a row in user_account
    Registered,     \* URLs with a row in repository
    Url,            \* pull requests
    Events,         \* the payloads that may be delivered
    NoEvent,        \* the payload of a request not delivered yet
    MaxLost         \* bound: replies Valkey loses per call and request

\* action combines the payload's Action with PullRequest.Merged; "other" is
\* every action but opened and closed, reopened among them.
Event == [action : {"opened", "merged", "dropped", "other"}, url : Url,
          by : User, repo : STRING]

ASSUME PullRequestAssumption ==
    /\ Account \subseteq User /\ MaxLost \in Nat
    /\ \A e \in Events :
          /\ DOMAIN e = {"action", "url", "by", "repo"}
          /\ e.action \in {"opened", "merged", "dropped", "other"}
          /\ e.url \in Url /\ e.by \in User
    /\ NoEvent \notin Events

VARIABLES
    rows,       \* committed rows of table solutions, named by their inserter
    merged,     \* ... whose is_merged is true
    snap,       \* the rows a waiting UPDATE or DELETE found
    touched,    \* the rows each open transaction has locked
    booked,     \* history: the requests whose transaction committed
    ranked,     \* history: how often each request's ZINCRBY was applied
    score,      \* the leaderboard, in thousandths of a point
    streams     \* the Valkey streams

table  == <<rows, merged, booked>>
work   == <<snap, touched>>
valkey == <<ranked, score, streams>>
vars   == <<pc, ev, resp, conn, rows, merged, snap, touched, booked, ranked,
            score, streams>>

\* Mutant: the WHERE clause is lost.
AllRows(url) == rows

\* WHERE url = $1, on the committed rows.
RowsWithUrl(url) == {id \in rows : ev[id].url = url}

\* Mutant: rows are not locked.
NothingLocked(r) == {}

LockedByOthers(r) == UNION {touched[q] : q \in Request \ {r}}

\* The record: the pull request's URL, its author and whether it was merged.
Record(r) == [req |-> r, url |-> ev[r].url, user |-> ev[r].by,
              merged |-> ev[r].action = "merged"]

RecordsOf(r) == {i \in DOMAIN streams[SolutionMerge] :
                    streams[SolutionMerge][i].req = r}
-----------------------------------------------------------------------------
(* The end of a transaction.                                               *)

EndTransaction(r) ==
    /\ conn' = conn \ {r}
    /\ snap' = [snap EXCEPT ![r] = {}]
    /\ touched' = [touched EXCEPT ![r] = {}]

\* Mutant: no deferred Rollback.
AbortWithoutRollback(r, status) ==
    /\ Answer(r, status)
    /\ UNCHANGED <<ev, conn, work, table, valkey>>

\* The deferred Rollback.
Abort(r, status) ==
    /\ EndTransaction(r)
    /\ Answer(r, status)
    /\ UNCHANGED <<ev, table, valkey>>
-----------------------------------------------------------------------------
(* The handler, step by step.                                              *)

Deliver(r, e) ==
    /\ pc[r] = "idle"
    /\ ev' = [ev EXCEPT ![r] = e]
    /\ Goto(r, "begin")
    /\ UNCHANGED <<resp, conn, table, work, valkey>>

Begin(r) ==
    /\ pc[r] = "begin"
    /\ PoolHasRoom
    /\ conn' = conn \cup {r}
    /\ Goto(r, CASE ev[r].action = "opened"  -> "insert"
                 [] ev[r].action = "merged"  -> "check"
                 [] ev[r].action = "dropped" -> "scan"
                 [] OTHER                    -> "ignore")
    /\ UNCHANGED <<ev, resp, table, work, valkey>>

Ignore(r) ==
    /\ pc[r] = "ignore"
    /\ Abort(r, 200)

\* Mutant: an opening is not announced.
AddSolutionSilently(r) ==
    /\ pc[r] = "insert"
    /\ ev[r].by \in Account /\ ev[r].repo \in Registered
    /\ touched' = [touched EXCEPT ![r] = {r}]
    /\ Goto(r, "commit")
    /\ UNCHANGED <<ev, resp, conn, snap, table, valkey>>

\* INSERT INTO solutions; both foreign keys are checked.
AddSolution(r) ==
    /\ pc[r] = "insert"
    /\ ev[r].by \in Account /\ ev[r].repo \in Registered
    /\ touched' = [touched EXCEPT ![r] = {r}]
    /\ Goto(r, "publish")
    /\ UNCHANGED <<ev, resp, conn, snap, table, valkey>>

AddSolutionRefused(r) ==
    /\ pc[r] = "insert"
    /\ ev[r].by \notin Account \/ ev[r].repo \notin Registered
    /\ Abort(r, 500)

CheckIfSolutionExist(r) ==
    /\ pc[r] = "check"
    /\ RowsWithUrl(ev[r].url) # {}
    /\ Goto(r, "scan")
    /\ UNCHANGED <<ev, resp, conn, table, work, valkey>>

\* Mutant: the branch for a missing solution that answers 400.
NoSolutionIsBadRequest(r) ==
    /\ pc[r] = "check"
    /\ RowsWithUrl(ev[r].url) = {}
    /\ Abort(r, 400)

\* No row is an error of the query (pgx.ErrNoRows), not an id of 0.
NoSolution(r) ==
    /\ pc[r] = "check"
    /\ RowsWithUrl(ev[r].url) = {}
    /\ Abort(r, 500)

\* The UPDATE of MergeSolutionQuery and the DELETE of DeleteSolutionQuery
\* take their snapshot ...
Scan(r) ==
    /\ pc[r] = "scan"
    /\ snap' = [snap EXCEPT ![r] = RowsWithUrl(ev[r].url)]
    /\ Goto(r, "apply")
    /\ UNCHANGED <<ev, resp, conn, touched, table, valkey>>

\* ... wait for the transactions that locked a row of it, and lock those rows
\* that still exist.
Apply(r) ==
    /\ pc[r] = "apply"
    /\ snap[r] \cap LockedByOthers(r) = {}
    /\ snap[r] \cap rows # {}
    /\ touched' = [touched EXCEPT ![r] = snap[r] \cap rows]
    /\ Goto(r, IF ev[r].action = "merged" THEN "publish" ELSE "commit")
    /\ UNCHANGED <<ev, resp, conn, snap, table, valkey>>

NoRowLeft(r) ==
    /\ pc[r] = "apply"
    /\ snap[r] \cap LockedByOthers(r) = {}
    /\ snap[r] \cap rows = {}
    /\ Abort(r, 500)

\* XADD solution-merged-stream, inside the transaction.
AppendRecord(r) ==
    /\ streams' = AddToStream(streams, SolutionMerge, Record(r))
    /\ UNCHANGED <<ev, resp, conn, table, work, ranked, score>>

Publish(r) ==
    /\ pc[r] = "publish"
    /\ AppendRecord(r)
    /\ Goto(r, IF ev[r].action = "merged" THEN "rank" ELSE "commit")

\* Appended, but the reply is lost: the client library tries again, or gives
\* up (StepFails).
PublishReplyLost(r) ==
    /\ pc[r] = "publish"
    /\ Cardinality(RecordsOf(r)) < MaxLost
    /\ AppendRecord(r)
    /\ UNCHANGED pc

\* ZINCRBY leaderboard by 0.001, inside the transaction.
Increment(r) ==
    /\ score' = UpdateLeaderboard(score, ev[r].by, 1)
    /\ ranked' = [ranked EXCEPT ![r] = @ + 1]
    /\ UNCHANGED <<ev, resp, conn, table, work, streams>>

\* Mutant: the error of UpdateLeaderboard is dropped.
RankErrorIgnored(r) ==
    /\ pc[r] = "rank"
    /\ Goto(r, "commit")
    /\ UNCHANGED <<ev, resp, conn, table, work, valkey>>

Rank(r) ==
    /\ pc[r] = "rank"
    /\ Increment(r)
    /\ Goto(r, "commit")

RankReplyLost(r) ==
    /\ pc[r] = "rank"
    /\ ranked[r] < MaxLost
    /\ Increment(r)
    /\ UNCHANGED pc

\* What the transaction did becomes visible.
Install(r) ==
    /\ rows' = CASE ev[r].action = "opened"  -> rows \cup touched[r]
                 [] ev[r].action = "dropped" -> rows \ touched[r]
                 [] OTHER                    -> rows
    /\ merged' = CASE ev[r].action = "merged"  -> merged \cup touched[r]
                   [] ev[r].action = "dropped" -> merged \ touched[r]
                   [] OTHER                    -> merged
    /\ booked' = booked \cup {r}
    /\ EndTransaction(r)

\* Mutant: the error of tx.Commit is dropped.
CommitErrorIgnored(r) ==
    /\ pc[r] = "commit"
    /\ EndTransaction(r)
    /\ Answer(r, 200)
    /\ UNCHANGED <<ev, table, valkey>>

Commit(r) ==
    /\ pc[r] = "commit"
    /\ Install(r)
    /\ Answer(r, 200)
    /\ UNCHANGED <<ev, valkey>>

CommitReplyLost(r) ==
    /\ pc[r] = "commit"
    /\ Install(r)
    /\ Answer(r, 500)
    /\ UNCHANGED <<ev, valkey>>

\* Any call of the handler fails, or its twenty seconds are over: rollback.
StepFails(r) ==
    /\ pc[r] \in {"begin", "insert", "check", "scan", "apply", "publish",
                  "rank", "commit"}
    /\ Abort(r, 500)
-----------------------------------------------------------------------------
(* The specification.                                                      *)

\* Postgres rolls the open transactions back, Valkey keeps what it has.
Crash ==
    /\ ServerDies
    /\ snap' = [r \in Request |-> {}]
    /\ touched' = [r \in Request |-> {}]
    /\ UNCHANGED <<table, valkey>>

\* All deliveries have been dealt with; the server waits for more.
Quiet ==
    /\ \A r \in Request : Over(r)
    /\ UNCHANGED vars

Init ==
    /\ pc = [r \in Request |-> "idle"]
    /\ ev = [r \in Request |-> NoEvent]
    /\ resp = [r \in Request |-> 0]
    /\ conn = {}
    /\ rows = {} /\ merged = {} /\ booked = {}
    /\ snap = [r \in Request |-> {}]
    /\ touched = [r \in Request |-> {}]
    /\ ranked = [r \in Request |-> 0]
    /\ score = [u \in User |-> 0]
    /\ streams = [key \in StreamName |-> << >>]

Progress(r) ==
    \/ Begin(r) \/ Ignore(r) \/ AddSolution(r) \/ AddSolutionRefused(r)
    \/ CheckIfSolutionExist(r) \/ NoSolution(r) \/ Scan(r) \/ Apply(r)
    \/ NoRowLeft(r) \/ Publish(r) \/ Rank(r) \/ Commit(r)

Fault(r) ==
    StepFails(r) \/ CommitReplyLost(r) \/ PublishReplyLost(r) \/ RankReplyLost(r)

Next ==
    \/ \E r \in Request, e \in Events : Deliver(r, e)
    \/ \E r \in Request : Progress(r) \/ Fault(r)
    \/ Crash
    \/ Quiet

Spec == Init /\ [][Next]_vars

\* The Go scheduler runs every goroutine and Postgres and Valkey answer; no
\* fault, timeout or crash is ever needed to make progress.
FairSpec == Spec /\ \A r \in Request : WF_vars(Progress(r))
-----------------------------------------------------------------------------
(* Properties.                                                             *)

Label == {"idle", "begin", "ignore", "insert", "check", "scan", "apply",
          "publish", "rank", "commit", "done", "crashed"}

\* Inside the transaction.
Holding == Label \ {"idle", "begin", "done", "crashed"}

Records == [req : Request, url : Url, user : User, merged : BOOLEAN]

\* The values of the variables.
TypeOK ==
    /\ pc \in [Request -> Label]
    /\ ev \in [Request -> Events \cup {NoEvent}]
    /\ resp \in [Request -> {0, 200, 500}]
    /\ conn \subseteq Request
    /\ rows \subseteq Request /\ merged \subseteq Request /\ booked \subseteq Request
    /\ snap \in [Request -> SUBSET Request]
    /\ touched \in [Request -> SUBSET Request]
    /\ ranked \in [Request -> Nat]
    /\ score \in [User -> Nat]
    /\ streams \in [StreamName -> Seq(Records)]

Published(r) == RecordsOf(r) # {}

\* What is committed was announced before: the row of an opening and the flag
\* of a merge have their record on solution-merged-stream, and the merge its
\* points, also when the reply of the commit never arrived.  Points in turn
\* are only given for a record that is on the stream already.
CommittedIsAnnounced ==
    /\ \A r \in booked :
          /\ ev[r].action \in {"opened", "merged"} => Published(r)
          /\ ev[r].action = "merged" => ranked[r] > 0
    /\ \A r \in Request : ranked[r] > 0 => Published(r)

\* The answer 200 to an opening, merging or closing means that it is
\* committed; with CommittedIsAnnounced, that all stores have it.
OkMeansCommitted ==
    \A r \in Request : resp[r] = 200 /\ ev[r].action # "other" => r \in booked

\* A consumer of solution-merged-stream never sees a pull request merged that
\* it has not seen opened, however the deliveries interleave: the merge needs a
\* committed row, and rows are announced before they are committed.
MergeFollowsOpening ==
    \A i \in DOMAIN streams[SolutionMerge] :
        streams[SolutionMerge][i].merged =>
            \E j \in 1 .. i - 1 :
                /\ ~streams[SolutionMerge][j].merged
                /\ streams[SolutionMerge][j].url = streams[SolutionMerge][i].url

\* A merge and a closing that race for the same rows: whoever is second finds
\* the rows as the first left them.  No row that was deleted is flagged, and
\* two transactions never hold one row.
NoFlagWithoutRow ==
    /\ merged \subseteq rows
    /\ \A r1, r2 \in Request : r1 # r2 => touched[r1] \cap touched[r2] = {}
    /\ \A r \in Request : pc[r] \in {"publish", "rank", "commit"} =>
          /\ touched[r] # {}
          /\ ev[r].action # "opened" => touched[r] \subseteq rows

\* A flag is set by a committed merge of that pull request and goes only with
\* its row, and a row goes only when its pull request is closed unmerged.
RowsMove ==
    [][/\ \A id \in merged' \ merged : \E r \in booked' \ booked :
            ev[r].action = "merged" /\ ev[r].url = ev[id].url
       /\ merged \cap rows' \subseteq merged'
       /\ \A id \in rows \ rows' : \E r \in booked' \ booked :
            ev[r].action = "dropped" /\ ev[r].url = ev[id].url]_vars

\* A request owns a connection exactly while its transaction is open, and row
\* locks only then.  Nothing leaks on any error path.
ResourcesMatchProgress ==
    /\ conn = {r \in Request : pc[r] \in Holding}
    /\ \A r \in Request :
          touched[r] # {} => pc[r] \in {"publish", "rank", "commit"}

\* Every delivery is answered: no request waits for ever for a connection or
\* for the rows another one holds.
Answered ==
    \A r \in Request : Serving(r) ~> Over(r)
=============================================================================
