# Alfred in TLA+

Alfred is the webhook server of a summer-of-code programme.  GitHub delivers
events to `POST /api/webhook`; Alfred turns them into rows of a Postgres
database, entries of Valkey streams and scores of a Valkey leaderboard, which
other services (Gravemind, DevPool, Pulse) consume.  Every delivery is served by
a goroutine of its own, without any lock in the program: what keeps concurrent
deliveries apart is Postgres, and nothing keeps Postgres and Valkey together
but the order of the calls.  That is what this project is about.

## The system

| component | code | state | operations | models |
|---|---|---|---|---|
| issue comments | `controller/issue_comment.go` | `user_account.bounty`, `bounty_log`, leaderboard, `bounty-stream`, `automatic-events-stream`, `issue-stream` | `/bounty`, `/penalty`, badge commands, `/assign`, `/unassign` | `IssueComment`, `BountyPromise`, `Int32`, `Totals` |
| pull requests | `controller/pull_request.go` | `solutions`, leaderboard, `solution-merged-stream` | opened, closed, merged | `PullRequest`, `PullRequestLife` |
| issues | `controller/issue.go` | `issues`, `issue_claims` | accepted, difficulty, bounty, tag, closed, reopened, assigned, unassigned | `IssueRow`, `IssueBoard`, `Issues` |
| Valkey client | `cmd/valkey.go`, `pkg/constants.go` | streams, leaderboard | `AddToStream`, `UpdateLeaderboard` | `Valkey` |
| pool, requests | `controller/router.go`, `cmd/pool.go`, `middleware/recovery.go`, gin | ten connections; a request's progress and answer | dispatch, refuse, acquire, release, answer, time out, process death | `Server`, `Alfred` |
| schema, queries | `db/migrations`, `db/queries`, `db/gen` | the tables, their keys and defaults | the statements | in the handlers |
| ping | `controller/ping.go` | `repository.on_display` | one UPDATE | `Ping` |
| start and bootstrap | `main.go`, `bootstrap/` | which structures exist in Valkey, with which type | start, verify, create, serve, stop | `Bootstrap` |
| configuration | `cmd/env.go` | - | read and validate, once | a step of `Bootstrap` |
| logging | `pkg/logger.go` | - | - | - |

The handlers interact through the pool (each holds at most one connection at a
time) and through the leaderboard (bounties and merges both add to it); they
write different tables.  `Alfred` composes them.  `Bootstrap` comes before: a
server serves only after it has made sure of every structure in Valkey, which
it shares with other servers and services.  The hard parts:

* **two stores, no common transaction.** A bounty is committed in Postgres,
  *then* counted on the leaderboard and announced; a pull request is announced
  and counted *inside* its transaction, *then* committed.  Every call can fail,
  time out, or succeed with its answer lost.
* **concurrent deliveries** of the same comment, issue or pull request, under
  READ COMMITTED: lost updates, two inserts of one issue, a merge against a
  closing, an unassignment against another one.
* **deliveries without identity or order.** GitHub redelivers, and deliveries
  overtake each other; no handler reads a delivery id.
* **roles that change** between the lookup of a commentator, on one connection,
  and the transaction that obeys it, on another.
* **stores that stop answering**: only deadlines end a request then, and two
  queries have none.
* **starts** that fail half-way, are repeated, and run next to each other.
* **errors on every path**, each of which must give back the connection and
  the locks, and must answer.
* **widths**: `int32(n)`, its negation, and an INTEGER column.

What makes each component correct is stated by the properties below;
`PROJECT.json` lists the hazards with the properties that guard against them.

## How the code is modelled

A request is an element of `Request`; its payload `ev[r]` is chosen from a set
when it is delivered, so two requests may carry the same payload
(redelivery) and requests run in any order.  `pc[r]` is the next call of the
handler, and one action is one such call: taking a connection, one SQL
statement, the commit, one Valkey command.  Statements that lock rows wait for
the transactions that hold them and then see the rows as these left them, as
READ COMMITTED does; an UPDATE or DELETE over several rows is split where it
matters into the snapshot (`Scan`) and the waiting (`Apply`, `IssueUnassign`).
The errors of a handler are actions of their own: what the data causes
(`UpdateRefused`, `AddNewIssueRefused`, `NoSolution`, ...) and what can happen at
any call (`TransactionFails`, `StepFails`, `PublishFails`: a broken connection or the
handler's own timeout).  `CommitReplyLost`, `RankReplyLost` and
`PublishReplyLost` are calls whose reply does not come in time; go-redis then
repeats the command, pgx does not.  `Crash` ends the process at any moment:
Postgres rolls back, Valkey keeps.

What becomes of a call without a reply is up to the store, which may have it in
a buffer while the handler repeats it, gives up and answers 500, or dies.
`IssueComment` keeps such calls until they *land*: `inDoubt` are the requests
whose COMMIT nobody waits for, with their locks and pending writes, and
`lateRanks` and `lateRecords` count the ZINCRBYs and XADDs of each request.
`CommitLands`, `RankLands` and `RecordLands` execute one at any later moment;
`CommitDropped` is the rollback of a client that is gone, and a call to Valkey
that never lands just stays.  `Crash` leaves any of the COMMITs that were about to
be sent in doubt; a ZINCRBY or XADD caught by the crash is one whose reply was
lost before.  So money may be booked and points counted after the 500, and
`NothingNewAfterAnswer` says what may not happen any more.

| module | state (code) | actions (code) |
|---|---|---|
| `Server` | `pc`, `ev`, `resp` (the request), `conn` (who holds a pooled connection) | `ServerDies` |
| `Valkey` | - | `AddToStream`, `UpdateLeaderboard` as functions on the streams and the scores; a score counts thousandths |
| `Int32` | - | `Int32(x)`: Go's conversion; the width is the constant `HalfRange` |
| `IssueComment` | `maintainers` (the column); `action` parsed; history `trusted` (whose author was a maintainer between delivery and lookup); `bounty`, `bountyLog` committed; `rowLock`, `pend` of open transactions; `inDoubt`, `lateRanks`, `lateRecords` the calls without a reply; `score`, `streams`; history `ranked` | `parseComment` as an operator; `AcquireForLookup`, `FindMaintainer` \| `NotAMaintainer`, `ParticipantExists` (`findCommentator`, then `Dispatch`), then `Begin`, `UpdateUserBounty`, `AddBountyLog`, `Commit`, `Rank`, `Publish`; of the stores `CommitLands`, `CommitDropped`, `RankLands`, `RecordLands` |
| `BountyPromise` | `balance`, `ledger`, `counted`, `announced` | the abstract specification `IssueComment` implements: `Book`, `Count`, `Announce` |
| `PullRequest` | `rows`, `merged` committed (a row is named by the request that inserted it); `snap`, `touched` of open transactions; `score`, `streams`; histories `booked`, `ranked` | `Begin`; `AddSolution` \| `CheckIfSolutionExist`, `Scan`, `Apply` \| `Scan`, `Apply`; `Publish`, `Rank`, `Commit` |
| `PullRequestLife` | + `life`, GitHub's state of one pull request | the deliveries of `PullRequest`, in the order GitHub produces them |
| `IssueRow` | - | the statements on a row of `issues`, `UpdateIssueDifficulty` to `OpenIssue`, and `Updated`: which event uses which |
| `Issues` | `issues`, `claims` committed, `elapsed`; `draft`, `snap`, `touched` of open transactions; `due`, `booked` | `NothingToDo`, `Begin`; `CheckOpenIssue`, `AddNewIssue` \| `UpdateIssue` \| `ParticipantExists`, `IssueAssign` or `Scan`, `IssueUnassign`; `Commit` |
| `IssueBoard` | `issues`, `claims`, `elapsed` | the abstract specification `Issues` implements: `Accept`, `Change`, `Assign`, `Unassign`, `Elapse` |
| `Ping` | `onDisplay` committed, `rowsHeld` of open transactions | `PanicRecovery` \| `Begin`, `UpdateRepositoryOnDisplay`, `Commit` |
| `Alfred` | the variables of the four handlers; `pc`, `ev`, `resp`, `conn`, `score`, `streams` are shared | `Webhook`, `Refuse` (the router), `Handle`: a step of the handler of `ev[r]`, an instance of its module, that leaves the others' tables alone; `Crash` of all at once; `TimesOut`: what ends a request when nothing answers |
| `Bootstrap` | `pc`, `kind`, `left`, `missing` of each process; `keys`, `dummies` in Valkey; histories `absent`, `lost`, `starts` | `Start`, `SetupEnv`, `InitDB`, `InitValkey`; `Verify`, `Create` one command at a time; `NextKind`, `Bootstrapped`, `Listen`; `Stops` |
| `Totals` | - | the sum of the values of a function, by counting units: what the ledger and the leaderboard add up to |
| `IssueComment_proofs`, `PullRequest_proofs`, `Issues_proofs`, `Bootstrap_proofs`, `Int32_proofs`, `Totals_proofs` | - | theorems about one module and their lemmas |
| `Alfred_proofs` | - | that every handler runs in the server as it does alone, and what follows |
| `MC*` | - | payload sets for TLC; `MCServer`: symmetry and the order of payloads |

Abstractions.  Names, URLs and labels are model values; a comment is the record
of what `parseComment` distinguishes (command, number of arguments, whether the
amount is a number, amount, target).  JSON, messages and log lines are left out.
`user_account`, `repository` and `maintainers` are written by other services:
which rows they have is constant, while column `repository.maintainers` may
become any of `Rosters` at any moment (`MaintainersChange`).  Only the column
`bounty` of an account moves.  A statement over several rows takes all its locks at once; the
deadlocks Postgres could resolve by failing one of two statements are covered
by the failure actions.  An abandoned transaction is rolled back at once unless
its COMMIT was sent.  `MaxLost` bounds how often a call's reply is lost.
`PullRequest`, `Issues` and `Ping` do not follow calls beyond the answer: there a
call without a reply has taken effect, or not, by the time the handler
gives up.  Their properties do not depend on it.  A late COMMIT keeps its locks
until it lands, so that for the others the request just takes longer; a
late XADD or ZINCRBY of a merge or an opening repeats one that succeeded, or
belongs to a request that fails without a commit, and can neither take a record
away nor put a merge before the opening that it found.  What a 200 promises
is there before it is given.  Scores are exact thousandths, the program adds
`float64` values: what is said of the leaderboard holds of the program up to
the rounding of 0.001.  Panics on
missing payload fields end in a 500 (`middleware/recovery.go`) before anything is
written; the one of a ping without a repository, which GitHub sends for an
organisation's hook, is modelled, the others are not.  `Bootstrap` verifies the
structures of a kind in any order, where the code follows its list.

## Runs

| run | instance | shows |
|---|---|---|
| `comment_contention` | 3 requests, 2 connections, one account, bounties of 1 and penalties of 1 and 2 where the column holds -2 to 1 | `LedgerBalanced`: the balance is the sum of the log; `ResourcesMatchProgress`: nothing leaks; `Answered`: nobody waits for ever for a connection or for the row that a bounty, a penalty or a COMMIT in doubt holds |
| `comment_commands` | 2 requests, every command and kind of commentator, maintainers that change at any moment, 1 lost reply | `PromiseKept`: refinement of `BountyPromise`, a delivery is booked at most once, then counted, then announced; `PublishedIsRecorded`: nothing is announced or counted that is not booked; `LeaderboardDrift`: the leaderboard is the ledger weighted by how often each ZINCRBY was applied; `OkMeansEverywhere`; `OnlyMaintainersPay`: whoever was removed before commenting pays nothing, how stale the role may be; `NothingNewAfterAnswer`: after a 200 or 400 lost calls may only repeat what is there, after a 500 or a crash only a call that was made still takes effect |
| `pull_races` | 4 requests, 3 connections, one pull request | `MergeFollowsOpening`: consumers see no merge before its opening; `NoFlagWithoutRow`: a merge and a closing never work on each other's rows; `ResourcesMatchProgress`, `Answered` |
| `pull_stores` | 3 requests, two pull requests, all payloads, 1 lost reply | `CommittedIsAnnounced`, `OkMeansCommitted`, `RowsMove` |
| `issues_rows` | 3 requests, 2 connections, two issues, all payloads | `OneAtATime`: refinement of `IssueBoard`; `AnswersTellTheTruth`: a 200 is committed, and one issue is accepted once |
| `issues_races` | 4 requests, 3 connections, one issue and one login | `TagsKept`, `UnassignIsComplete`, `ResourcesMatchProgress`, `Answered` |
| `alfred_together` | 3 requests, 1 connection, payloads of all five kinds, stores that may stop answering for ever | `AnsweredInTime`: every request but a hanging closing or reopening is answered by its deadline, also when such a one holds the only connection; `PromisesHold`: the refinements of `BountyPromise` and `IssueBoard` hold next to the other handlers; `LeaderboardAgrees`: without failures the leaderboard is balances plus merges; `PingIsShown` |
| `bootstrap_starts` | 2 processes, 3 starts, 4 structures (2 streams, one of them shared, a hash, a sorted set), 6 contents of Valkey, 1 lost reply | `ServingMeansReady`, `DummiesAreExplained`: restarts add nothing; `StartsServe`: a start that is not stopped serves, unless a key of another type is in the way |
| `doc_bug_badge`, `doc_live_updates`, `doc_merge_captured`, `doc_open_issue` | small | the code does not do what a comment says, see below |

`TypeOK` is checked in one run of each handler of GitHub's comments, pull
requests and issues.  Requests are interchangeable:
the runs with safety properties only use that as TLC's symmetry, the runs with
liveness (for which symmetry is unsound) as the action constraint `Sorted`,
which lets the requests carry their payloads in one order; every behaviour is
one of these with its requests renamed.  Every property is shown to be able to fail: `PROJECT.json` names for
each a mutant, an operator in the module (commented `Mutant:`) that changes one
definition the way a plausible bug would.

**Bounds.**  The handlers are loop-free, and what a request touches is one row
of a user or of an issue, or the rows of one pull request or one claim; a third
request can come between two others, which is where their locks and snapshots
matter, and a pool of one connection less than requests makes them wait for it.
Where rows multiply (openings, claims, tags) a run has four requests.
Two URLs are enough to see one statement work on another's rows.  `HalfRange`
is small so that the widths matter with single digits: the penalty of 2 is
truncated to -2, whose negation is -2 again, and two bounties of 1, or a penalty
of 1 after that of 2, leave the column; `comment_commands` has a penalty of 3,
truncated to -1, besides.  `MaxLost = 1` lets every Valkey command be executed
twice, and late; where it is 0 a COMMIT may still land late.  Two requests are
enough in `comment_commands`, as what a lost reply does concerns the stores of one
request, and the other one is there to come between them.
In `alfred_together` three requests and one connection let a closing hang on the
connection while two others of any kind wait, or a bounty, a merge and a third
delivery overlap; what a lost reply does, and what it
means that maintainers change, is left to the runs of the handlers.
In `bootstrap_starts` three starts are a failed one, its restart, and another
server next to either; two structures of one kind are what makes a start stop
between two creations of one loop.

**Fairness.**  `FairSpec` asks weak fairness of `Progress(r)` for each request:
goroutines are scheduled and the stores answer.  That of `IssueComment` asks it of
`Settles(r)` too: Postgres gets to a COMMIT it was sent, or notices that the client
is gone, and either way releases the row.  It never asks for a fault, a
timeout or a crash, which the real program could use to get out of a
deadlock.  Weak fairness is enough because the requests of an instance are
finitely many: a request that waits for a connection or a lock sees it free and
nobody left to take it.  Under an endless stream of deliveries the code gives
no such guarantee but its timeouts.

`AnsweredInTime` is checked under the opposite assumption, `StalledSpec`: no
call is sure to return, and fairness is asked only of `TimesOut(r)`, the failure
of a pending call whose context has a deadline.  Every call of a handler has
one but the two queries of `issueStateChangeAction` on the gin context
(`Unbounded`).  `Bootstrap!FairSpec` asks weak fairness of `Progress(p)` of each
process: it runs, and Postgres and Valkey answer; a start may still be stopped
at any moment.

## Disagreements with the repository's comments

* `pkg/constants.go:9` lists a maintainer's bug mark under `issue-stream`; the
  handler sends it to `automatic-events-stream` (`doc_bug_badge`).
* `pkg/constants.go:36-46` names Alfred, DevPool and Gravemind as producers of
  `live-update-stream`, with "Bounty Dispatch" among its events, and the
  repository's `README.md` (item 4) says that Alfred drops events there; this
  server writes none to that stream (`doc_live_updates`).
* `pkg/constants.go:29` says every merged pull request is captured on
  `solution-merged-stream`; one that was closed and reopened before is answered
  500 and is not (`doc_merge_captured`).
* `controller/issue.go:93,105` speak of an issue that "exists and is open"; the
  query does not look at `resolved` (`doc_open_issue`).

## What is proved

Everything below is proved for all sets of requests, users, repositories,
issues and payloads, every pool size, lost-reply bound and integer width.
Assumed are the named assumptions of the modules only: the payloads have the
shape the handlers read, accounts are users, the values that stand for
"nothing" are different from the others, the pool has at least one connection.
There may be infinitely many requests: in every state finitely many have done
anything, so that the sums exist.
`Alfred` takes the assumptions of its four handlers (`HandlersAssumption`) and
that a payload is of one kind (`AlfredAssumption`).  TLC evaluates all of them in
the runs.

Each proof module has one inductive invariant, `IInv`; for a handler, one lemma
reduces `Next` to a few kinds of steps by what they change (`StepCases`), and there
is a lemma per part of `IInv`, with one step per kind.  Every safety invariant and
action property that a run expects to pass is stated by a theorem.

| module | theorem | states |
|---|---|---|
| `IssueComment_proofs` | `BountyPromised` | `PromiseKept`, the refinement of `BountyPromise` |
| | `AnnouncedIsDurable`, `OkIsKept` | `PublishedIsRecorded`, `OkMeansEverywhere` |
| | `BooksBalance`, `DriftIsAccountedFor` | `LedgerBalanced`, `LeaderboardDrift` |
| | `PaidByMaintainers`, `AnswersAreFinal` | `OnlyMaintainersPay`, `NothingNewAfterAnswer` |
| | `TypeCorrect`, `NothingLeaks` | `TypeOK`, `ResourcesMatchProgress` |
| `PullRequest_proofs` | `CommitComesLast`, `OkIsCommitted` | `CommittedIsAnnounced`, `OkMeansCommitted` |
| | `OpeningComesFirst`, `RacesAreSerial` | `MergeFollowsOpening`, `NoFlagWithoutRow` |
| | `RowsMoveByCommits` | `RowsMove` |
| | `TypeCorrect`, `NothingLeaks` | `TypeOK`, `ResourcesMatchProgress` |
| `Issues_proofs` | `Serializable` | `OneAtATime`, the refinement of `IssueBoard` |
| | `NoClaimLeft`, `AcceptedOnce`, `NoTagIsLost` | `UnassignIsComplete`, `AnswersTellTheTruth`, `TagsKept` |
| | `TypeCorrect`, `NothingLeaks` | `TypeOK`, `ResourcesMatchProgress` |
| `Bootstrap_proofs` | `ServersAreReady`, `RestartsAddNothing` | `ServingMeansReady`, `DummiesAreExplained` |
| `Alfred_proofs` | `CommentsUndisturbed`, `PullsUndisturbed`, `IssuesUndisturbed` | the specification of each handler, of what the handler sees of the server |
| | `NobodyInterferes` | `PromisesHold` |
| | `StoresAgree`, `PingsAreShown` | `LeaderboardAgrees`, `PingIsShown` |

**`IssueComment_proofs`.**  The refinement maps the committed balance and log, the
requests whose ZINCRBY was applied, and the requests on `bounty-stream`; a
commit is `Book`, the first ZINCRBY `Count`, the first XADD `Announce`, the rest
stutters.  None of the properties is inductive alone: that a commit books the
right balance needs that the pending sum was computed from the balance that is
still committed (`SumIsCurrent`), which needs that the row's lock is held by
one transaction and until its end (`ResourcesMatchProgress`); that a 200 means
everywhere needs what each stage of the handler has already done
(`RecordedInOrder`), for requests that went through the right dispatch
(`Dispatched`); that only maintainers pay needs that a maintainer's command was
parsed only for a request whose author was one between its delivery and its
lookup, whatever the column holds by now (`RoleIsGenuine`).  Calls that land late
are harmless because of what was done before they were sent (`LateIsGenuine`): a
COMMIT in doubt belongs to a request that was not answered 200 and has no row, a
ZINCRBY to one that has its row, the XADD of a bounty to one that was counted.
From this follows `AnswersAreFinal`: after a 200, which promised the stores, and
after a 400, before which no store is written to, nothing new can land.

The balance of an account is a sum over the log, and the leaderboard a weighted
one.  Such sums are usually defined by recursion, about which nothing could be
proved here; `Totals` defines them by counting units, a set per summand, so that
facts about sums follow from the library's facts about cardinalities: a sum
changes by what one summand changes (`TotalChange`), and a sum of zeros is zero.
`MCIssueComment` has TLC check that counting units is adding up (`TotalIsSum`).
The books then balance because a commit changes the balance and one summand by
the same amount.

**`PullRequest_proofs`.**  Everything rests on what is known of rows and records:
a row is named by the opening that inserted it, which is committed
(`RowsAreGenuine`), and a record is that of a request which was delivered
(`RecordsAreGenuine`).  That a merge never precedes its opening on the stream
needs, besides, that an opening announces before it commits and that a merge
finds the row only afterwards; that what is committed is announced, and that a
200 is committed, needs that each stage has done what comes before it
(`AnnouncedInOrder`).  That a merge and a closing never work on each other's rows
needs the locks: two transactions never hold the same row
(`ResourcesMatchProgress`), and what a transaction holds it found in its
snapshot and still found after it had waited.

**`Issues_proofs`.**  The board's variables are the committed tables, so the
refinement mapping is the identity; a commit is the board's event
(`InstallImplementsBoard`), `Elapse` its own, and all other steps
stutter.  A commit takes effect on the row as it is because an open transaction
computed its draft from the row that is still committed (`DraftIsCurrent`); that
holds because nobody else has a draft of the same row (`Exclusive`), which is
what the waiting of INSERT and UPDATE is for.  Likewise the claims a
transaction deletes are there until it commits (`ClaimsAreCurrent`).  For an
unassignment the invariant follows what was due from the transaction's start
through its snapshot to its locks (`DueIsFound`); no claim that was due can be
inserted again, because a claim carries the request that inserted it and that
one is over (`ClaimsAreOld`).  That an issue is accepted once needs that a row
never disappears (`AcceptedHasRow`).  That no tag is lost or doubled, however
many events add the same one, is a count again: the places of a tag in the
row are as many as the committed events that added it (`Tagged`), because a draft is
the committed row and one place more.

**`Bootstrap_proofs`**, for any processes, structures and initial contents of
Valkey.  That a serving server
finds its structures needs that what a process has verified or created stays
(a key never changes its type once it has the wanted one), carried from kind
to kind (`Settled`); that dummies are explained needs to count ahead the servers
that may still add one to a stream, each of which was started when the stream
was not there (`Accounted`).

**`Alfred_proofs`.**  The handlers share the requests, the pool, the leaderboard
and the streams, and yet each runs as if it were alone.  The *view* of a handler
is what it sees of the server: the requests with its kind of payload (the others
look as if they had not arrived), the connections these hold, the streams it
writes to, and its part of the leaderboard (the points of merges for pull
requests, the rest for comments).  `StepIsSeen` says that every step of the
server, of any handler, of the router, of the environment, or a crash, is a step
of each view or a stutter.  A step of the own handler is one because the handler
reads nothing that its view does not show (`IssueReads`, `PullReads`,
`CommentReads`; a pool with room has room in the view); a step of another one
is a stutter because it moves a request the view does not contain
(`Unseen`), other tables, other streams, and the other part of the leaderboard.
Here the inductive invariants of the handlers are needed: that a step of a merge
leaves the comments' part of the leaderboard alone uses that only merges have
points in `pullRanked` (`AnnouncedInOrder`), and that a call which lands late is
a step of the comments' view uses that it is a comment's (`LateIsComment`).  So `Alfred!Spec` implies the
specification of each handler for its view, and all theorems above hold
in the whole server.  The refinements of `PromisesHold` are such a transfer; that
balances and merges add up to the leaderboard when no reply is lost
(`LeaderboardAgrees`) is one of `LeaderboardDrift` together with the sum that
defines the view of pull requests; `PingIsShown` is proved directly.

The inductive invariants were checked with TLC on instances of the runs before
they were proved.

Only model-checked: the liveness properties `Answered`, `AnsweredInTime` and
`StartsServe`, which need fairness and ENABLED, and the statements of the
repository's comments (`doc_*`), which are false.  The views hold the safety part of the
handlers' specifications; that a handler is not starved by the others is what
`AnsweredInTime` checks.  Also `PullRequestLife`, which only serves
`doc_merge_captured`, and `Ping` alone, which has no run of its own, are without
theorems.


## Not modelled

* **Logging** and request ids: output only; `Log.Fatal` does not end the process.
* **The validation of the configuration**: a pure check, after which the start
  goes on or ends (`SetupEnv`, `Stops`).
* **Clocks and time zones** (`issue.go:309-314` against `NOW()`): `Elapse` lets a
  claim be over at any time after it was made, which covers every offset that
  ends a claim early.
* **Lifetimes of pooled connections** (`pool.go:23-25`, durations given as bare
  integers): the pool is its capacity, which does not depend on them.
* **JSON and wording**, CORS, the test endpoint, the queries without a caller
  (`VerifyRepository`, `CheckIfTagExistInIssue`, `ExtendClaim`).
* **Order of GitHub's events**: nothing in the code restores it, so closing and
  reopening take effect in the order of their transactions.

## Plan

1. Done: the four handlers with their stores, failures and crashes; the
   abstract board and the abstract promise; the bootstrap; the composition of
   all handlers.
2. Done: the safety properties of every handler, of the bootstrap and of the
   composition as theorems, for every value of the constants.
3. Next: an abstract specification of the merges (a row, its announcement and
   its points) that `PullRequest` implements, as `IssueComment` implements
   `BountyPromise`, with the theorem; shorter proofs where the lemmas now allow it.
