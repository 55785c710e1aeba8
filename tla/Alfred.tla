------------------------------- MODULE Alfred -------------------------------
(***************************************************************************)
(* The whole server: controller/router.go hands each delivery to the       *)
(* handler of its event.  The four handlers share the requests, the        *)
(* connection pool, the leaderboard and the streams; their tables are      *)
(* their own.  Postgres and Valkey may fail, and here they may also just   *)
(* never answer, so that only the handlers' timeouts end a request.        *)
(***************************************************************************)
EXTENDS Server, Valkey

CONSTANTS
    User, Account, ActiveAccount,   \* see IssueComment
    Maintainers,                    \* logins in table maintainers
    Repository,                     \* URLs with a row in repository
    RepoUrl, Rosters,               \* see IssueComment
    PullUrl, IssueUrl,              \* pull requests and issues
    Comments, PullEvents, IssueEvents, Pings,   \* the payloads of each event
    Unsupported,                    \* a delivery the router refuses
    NoPayload, NoRepo, NotANumber, NoOne, NoDraft, Absent,
    HalfRange, MaxLost

ASSUME AlfredAssumption ==
    /\ Comments \cap (PullEvents \cup IssueEvents \cup Pings) = {}
    /\ PullEvents \cap (IssueEvents \cup Pings) = {}
    /\ IssueEvents \cap Pings = {}
    /\ \A e \in Pings : DOMAIN e = {"repo"}
    /\ NoRepo \notin Repository /\ NoPayload \notin Pings
    /\ Unsupported \notin Comments \cup PullEvents \cup IssueEvents \cup Pings

VARIABLES
    score, streams,     \* shared: Valkey
    maintainers, trusted, action, bounty, bountyLog, rowLock, pend, inDoubt,
    lateRanks, lateRecords, ranked,
    rows, merged, pullSnap, pullTouched, pullBooked, pullRanked,
    issues, claims, elapsed, draft, due, snap, touched, booked,
    onDisplay, rowsHeld

valkey == <<score, streams>>
ofComments == <<maintainers, trusted, action, bounty, bountyLog, rowLock, pend, inDoubt,
                lateRanks, lateRecords, ranked>>
ofPulls    == <<rows, merged, pullSnap, pullTouched, pullBooked, pullRanked>>
ofIssues   == <<issues, claims, elapsed, draft, due, snap, touched, booked>>
ofPings    == <<onDisplay, rowsHeld>>
vars == <<pc, ev, resp, conn, valkey, ofComments, ofPulls, ofIssues, ofPings>>

OnComment == INSTANCE IssueComment WITH
    Registered <- Maintainers, NoComment <- NoPayload
OnPull == INSTANCE PullRequest WITH
    Registered <- Repository, Url <- PullUrl, Events <- PullEvents,
    NoEvent <- NoPayload, snap <- pullSnap, touched <- pullTouched,
    booked <- pullBooked, ranked <- pullRanked
OnIssue == INSTANCE Issues WITH
    Registered <- Repository, Url <- IssueUrl, Event <- IssueEvents,
    NoEvent <- NoPayload
OnPing == INSTANCE Ping WITH
    Registered <- Repository, NoPing <- NoPayload

\* What each handler assumes of the payloads and tables.
ASSUME HandlersAssumption ==
    /\ OnComment!HalfRangeAssumption /\ OnComment!CommentAssumption
    /\ OnPull!PullRequestAssumption /\ OnIssue!IssuesAssumption
-----------------------------------------------------------------------------
(* The router.                                                             *)

\* Whose state a step of one handler leaves alone.
ByComment == UNCHANGED <<ofPulls, ofIssues, ofPings>>
ByPull    == UNCHANGED <<ofComments, ofIssues, ofPings>>
ByIssue   == UNCHANGED <<valkey, ofComments, ofPulls, ofPings>>
ByPing    == UNCHANGED <<valkey, ofComments, ofPulls, ofIssues>>

\* WebhookHandler: the event's header selects the handler ...
Webhook(r) ==
    \/ ByComment /\ \E e \in Comments : OnComment!Deliver(r, e)
    \/ ByPull    /\ \E e \in PullEvents : OnPull!Deliver(r, e)
    \/ ByIssue   /\ \E e \in IssueEvents : OnIssue!Deliver(r, e)
    \/ ByPing    /\ \E e \in Pings : OnPing!Deliver(r, e)

\* ... and a missing or unknown one, or a malformed payload, is refused.
Refuse(r) ==
    /\ pc[r] = "idle"
    /\ ev' = [ev EXCEPT ![r] = Unsupported]
    /\ Answer(r, 400)
    /\ UNCHANGED <<conn, valkey, ofComments, ofPulls, ofIssues, ofPings>>

Handle(r) ==
    \/ ByComment /\ ev[r] \in Comments /\ (OnComment!Progress(r) \/ OnComment!Fault(r))
    \/ ByPull /\ ev[r] \in PullEvents /\ (OnPull!Progress(r) \/ OnPull!Fault(r))
    \/ /\ ByIssue /\ ev[r] \in IssueEvents
       /\ \/ OnIssue!Progress(r) \/ OnIssue!CommitReplyLost(r)
          \/ OnIssue!TransactionFails(r)
    \/ ByPing /\ ev[r] \in Pings /\ (OnPing!Progress(r) \/ OnPing!Fault(r))

\* What happens outside of the server.
Environment ==
    \/ ByComment /\ OnComment!MaintainersChange
    \/ \E r \in Request : ByComment /\ OnComment!Lands(r)
    \/ ByIssue /\ OnIssue!Elapse

\* The one process of all handlers dies.
Crash == OnComment!Crash /\ OnPull!Crash /\ OnIssue!Crash /\ OnPing!Crash

\* All deliveries have been dealt with; the server waits for more.
Quiet ==
    /\ \A r \in Request : Over(r)
    /\ UNCHANGED vars

Init == OnComment!Init /\ OnPull!Init /\ OnIssue!Init /\ OnPing!Init

Next ==
    \/ \E r \in Request : Webhook(r) \/ Refuse(r) \/ Handle(r)
    \/ Environment
    \/ Crash
    \/ Quiet

Spec == Init /\ [][Next]_vars
-----------------------------------------------------------------------------
(* The stores stop answering.                                              *)

\* CloseIssueQuery and OpenIssueQuery run on the gin context, which never
\* expires: the handler's ten seconds do not bound them.
Unbounded(r) == pc[r] = "write" /\ ev[r].action \in {"closed", "reopened"}

\* Mutant: findCommentator acquires its connection on the gin context.
BoundedExceptLookups(r) == pc[r] # "lookup" /\ ~Unbounded(r)

\* Every other call runs on a context with a timeout.
HasDeadline(r) == ~Unbounded(r)

\* What ends a request although nothing answers any more: the deadline, or that
\* there is nothing to wait for.
TimesOut(r) ==
    /\ HasDeadline(r)
    /\ \/ /\ ByComment /\ ev[r] \in Comments
          /\ \/ OnComment!LookupFails(r) \/ OnComment!TransactionFails(r)
             \/ OnComment!RankFails(r) \/ OnComment!PublishFails(r)
       \/ /\ ByPull /\ ev[r] \in PullEvents
          /\ OnPull!StepFails(r) \/ OnPull!Ignore(r)
       \/ /\ ByIssue /\ ev[r] \in IssueEvents
          /\ OnIssue!NothingToDo(r) \/ OnIssue!TransactionFails(r)
       \/ /\ ByPing /\ ev[r] \in Pings
          /\ OnPing!PanicRecovery(r) \/ OnPing!TransactionFails(r)

\* Timers fire; nothing else is sure to happen.
StalledSpec == Spec /\ \A r \in Request : WF_vars(TimesOut(r))
-----------------------------------------------------------------------------
(* Properties.                                                             *)

\* Whatever has stopped answering, and however many closings or reopenings
\* hang on the connections of the pool, every other request is answered: the
\* wait for a connection and each call have a deadline.
AnsweredInTime ==
    \A r \in Request : Serving(r) ~> Over(r) \/ Unbounded(r)

\* The handlers do not break each other's promises: bounties keep theirs, and
\* the issues change one event at a time, also next to the other handlers,
\* which use the same streams, leaderboard and connections.
PromisesHold == OnComment!PromiseKept /\ OnIssue!OneAtATime

\* Where no delivery has failed and no command was repeated, the three stores
\* agree: the leaderboard is the balance of user_account plus a thousandth for
\* each committed merge, whichever handlers served at the same time.  Scores are
\* exact thousandths here; the program adds the float64 0.001 for a merge, so of
\* its scores the equation holds up to rounding.
LeaderboardAgrees ==
    (\A r \in Request : /\ pc[r] # "idle" => resp[r] = 200
                        /\ ranked[r] <= 1 /\ pullRanked[r] <= 1)
    => \A u \in Account :
         score[u] = Point * bounty[u]
                    + Cardinality({r \in pullBooked : ev[r].action = "merged" /\ ev[r].by = u})

\* A ping that was answered 200 left its repository on display, and only pings
\* put one there.
PingIsShown ==
    /\ \A r \in Request : resp[r] = 200 /\ ev[r] \in Pings => ev[r].repo \in onDisplay
    /\ \A repo \in onDisplay : \E r \in Request : ev[r] \in Pings /\ ev[r].repo = repo
=============================================================================
