------------------------------- MODULE Issues -------------------------------
(***************************************************************************)
(* controller/issue.go: the handler of GitHub's issues webhook.  Every     *)
(* operation is one Postgres transaction; nothing goes to Valkey.  One     *)
(* action is one interaction with the pool or one SQL statement, under     *)
(* READ COMMITTED: a statement sees the committed rows, waits for the lock *)
(* of a row (an INSERT for another one of the same URL), and then works on *)
(* the row as it was committed last.                                       *)
(***************************************************************************)
EXTENDS IssueRow, Server, FiniteSetsExt

CONSTANTS
    User,           \* GitHub logins
    ActiveAccount,  \* logins with a row in user_account whose status is true
    Registered,     \* URLs with a row in repository
    NotANumber,     \* what follows BOUNTY- when Atoi refuses it
    NoOne,          \* the missing assignee of a payload
    NoEvent,        \* the payload of a request not delivered yet
    NoDraft         \* a transaction that wrote no issue

\* arg is the repository's URL, a difficulty, a number, a tag or a login.
ASSUME IssuesAssumption ==
    /\ \A e \in Event :
          /\ DOMAIN e = {"action", "url", "arg"}
          /\ e.action \in Actions /\ e.url \in Url
          /\ e.action = "bounty" => e.arg \in Int \cup {NotANumber}
          /\ e.action \in UserActions => e.arg \in User \cup {NoOne}
    /\ NoEvent \notin Event /\ NotANumber \notin Int /\ NoOne \notin User
    /\ Absent \notin Row /\ NoDraft \notin Row

VARIABLES
    issues,     \* committed table issues: per URL, the row or Absent
    claims,     \* committed rows of issue_claims, the id being the inserter
    elapsed,    \* the ids of claims whose elapsed_on has passed
    draft,      \* the row of issues each open transaction has written
    due,        \* the claims an unassigning transaction found live at its NOW()
    snap,       \* the claims its waiting DELETE found
    touched,    \* the claims each open transaction has inserted or locked
    booked      \* history: the requests whose transaction committed

tables == <<issues, claims, elapsed, booked>>
work   == <<draft, due, snap, touched>>
vars   == <<pc, ev, resp, conn, issues, claims, elapsed, draft, due, snap,
            touched, booked>>

\* Nothing to do: another action, or nobody was (un)assigned.
Ignored(e) == e.action = "other" \/ (e.action \in UserActions /\ e.arg = NoOne)

\* The claims of the payload's login on the payload's issue.
ClaimsOf(e) == {c \in claims : c.url = e.url /\ c.user = e.arg}

NewClaim(r) == [id |-> r, url |-> ev[r].url, user |-> ev[r].arg]

\* Mutant: rows are read and written back without a lock.
NobodyWrites(url) == {}

Writers(url) == {q \in Request : draft[q] # NoDraft /\ ev[q].url = url}

LockedByOthers(r) == UNION {touched[q] : q \in Request \ {r}}
-----------------------------------------------------------------------------
(* The end of a transaction.                                               *)

EndTransaction(r) ==
    /\ conn' = conn \ {r}
    /\ draft' = [draft EXCEPT ![r] = NoDraft]
    /\ snap' = [snap EXCEPT ![r] = {}]
    /\ touched' = [touched EXCEPT ![r] = {}]

\* Mutant: the deferred Rollback is forgotten.
AbortWithoutRollback(r, status) ==
    /\ Answer(r, status)
    /\ UNCHANGED <<ev, conn, work, tables>>

\* The deferred Rollback.
Abort(r, status) ==
    /\ EndTransaction(r)
    /\ Answer(r, status)
    /\ UNCHANGED <<ev, due, tables>>
-----------------------------------------------------------------------------
(* The handler, step by step.                                              *)

Deliver(r, e) ==
    /\ pc[r] = "idle"
    /\ ev' = [ev EXCEPT ![r] = e]
    /\ Goto(r, "dispatch")
    /\ UNCHANGED <<resp, conn, work, tables>>

\* Answered without a transaction.
NothingToDo(r) ==
    /\ pc[r] = "dispatch"
    /\ \/ Ignored(ev[r]) /\ Answer(r, 200)
       \/ ~Parsed(ev[r]) /\ Answer(r, 400)
    /\ UNCHANGED <<ev, conn, work, tables>>

Begin(r) ==
    /\ pc[r] = "dispatch"
    /\ ~Ignored(ev[r]) /\ Parsed(ev[r])
    /\ PoolHasRoom
    /\ conn' = conn \cup {r}
    /\ due' = [due EXCEPT ![r] = IF ev[r].action = "unassigned"
                                 THEN {c \in ClaimsOf(ev[r]) : c.id \notin elapsed}
                                 ELSE {}]
    /\ Goto(r, CASE ev[r].action = "accepted"     -> "check"
                 [] ev[r].action \in UserActions  -> "participant"
                 [] OTHER                         -> "write")
    /\ UNCHANGED <<ev, resp, draft, snap, touched, tables>>

\* issueAccepted: first SELECT EXISTS, which does not look at resolved ...
CheckOpenIssue(r) ==
    /\ pc[r] = "check"
    /\ issues[ev[r].url] = Absent
    /\ Goto(r, "insert")
    /\ UNCHANGED <<ev, resp, conn, work, tables>>

IssueExists(r) ==
    /\ pc[r] = "check"
    /\ issues[ev[r].url] # Absent
    /\ Abort(r, 400)

\* ... then INSERT, which waits for a concurrent INSERT of the same URL.
AddNewIssue(r) ==
    /\ pc[r] = "insert"
    /\ Writers(ev[r].url) = {}
    /\ issues[ev[r].url] = Absent /\ ev[r].arg \in Registered
    /\ draft' = [draft EXCEPT ![r] = NewIssue]
    /\ Goto(r, "commit")
    /\ UNCHANGED <<ev, resp, conn, due, snap, touched, tables>>

\* The unique key on url, or the foreign key on repoUrl.
AddNewIssueRefused(r) ==
    /\ pc[r] = "insert"
    /\ Writers(ev[r].url) = {}
    /\ issues[ev[r].url] # Absent \/ ev[r].arg \notin Registered
    /\ Abort(r, 500)

\* The UPDATEs of difficulty, bounty, tags and resolved.
UpdateIssue(r) ==
    /\ pc[r] = "write"
    /\ issues[ev[r].url] # Absent
    /\ Writers(ev[r].url) = {}
    /\ draft' = [draft EXCEPT ![r] = Updated(issues[ev[r].url], ev[r])]
    /\ Goto(r, "commit")
    /\ UNCHANGED <<ev, resp, conn, due, snap, touched, tables>>

\* No row (pgx.ErrNoRows); one that is not committed yet counts as none.
NoSuchIssue(r) ==
    /\ pc[r] = "write"
    /\ issues[ev[r].url] = Absent
    /\ Abort(r, 500)

\* issueUserAction.
ParticipantExists(r) ==
    /\ pc[r] = "participant"
    /\ ev[r].arg \in ActiveAccount
    /\ Goto(r, IF ev[r].action = "assigned" THEN "assign" ELSE "scan")
    /\ UNCHANGED <<ev, resp, conn, work, tables>>

NoParticipant(r) ==
    /\ pc[r] = "participant"
    /\ ev[r].arg \notin ActiveAccount
    /\ Abort(r, 404)

IssueAssign(r) ==
    /\ pc[r] = "assign"
    /\ touched' = [touched EXCEPT ![r] = {NewClaim(r)}]
    /\ Goto(r, "commit")
    /\ UNCHANGED <<ev, resp, conn, draft, due, snap, tables>>

\* DELETE of the claims with elapsed_on > NOW(), the start of the transaction:
\* it takes its snapshot ...
Scan(r) ==
    /\ pc[r] = "scan"
    /\ snap' = [snap EXCEPT ![r] =
                  {c \in ClaimsOf(ev[r]) : c \in due[r] \/ c.id \notin elapsed}]
    /\ Goto(r, "unassign")
    /\ UNCHANGED <<ev, resp, conn, draft, due, touched, tables>>

\* Mutant: the statement deletes one row only (LIMIT 1).
UnassignOne(r) ==
    /\ pc[r] = "unassign"
    /\ snap[r] \cap LockedByOthers(r) = {}
    /\ \E claim \in snap[r] \cap claims :
          touched' = [touched EXCEPT ![r] = {claim}]
    /\ Goto(r, "commit")
    /\ UNCHANGED <<ev, resp, conn, draft, due, snap, tables>>

\* ... waits for the transactions that locked a row of it, and deletes what
\* they left.
IssueUnassign(r) ==
    /\ pc[r] = "unassign"
    /\ snap[r] \cap LockedByOthers(r) = {}
    /\ snap[r] \cap claims # {}
    /\ touched' = [touched EXCEPT ![r] = snap[r] \cap claims]
    /\ Goto(r, "commit")
    /\ UNCHANGED <<ev, resp, conn, draft, due, snap, tables>>

\* Nothing deleted is an error of the query (pgx.ErrNoRows), not a 404.
NotAssigned(r) ==
    /\ pc[r] = "unassign"
    /\ snap[r] \cap LockedByOthers(r) = {}
    /\ snap[r] \cap claims = {}
    /\ Abort(r, 500)

\* What the transaction did becomes visible.
Install(r) ==
    /\ issues' = IF draft[r] = NoDraft THEN issues
                 ELSE [issues EXCEPT ![ev[r].url] = draft[r]]
    /\ claims' = IF ev[r].action = "assigned" THEN claims \cup touched[r]
                 ELSE claims \ touched[r]
    /\ booked' = booked \cup {r}
    /\ EndTransaction(r)

Commit(r) ==
    /\ pc[r] = "commit"
    /\ Install(r)
    /\ Answer(r, 200)
    /\ UNCHANGED <<ev, elapsed, due>>

CommitReplyLost(r) ==
    /\ pc[r] = "commit"
    /\ Install(r)
    /\ Answer(r, 500)
    /\ UNCHANGED <<ev, elapsed, due>>

\* Mutant: the error of Commit is logged, and the answer is a 200.
CommitErrorIgnored(r) ==
    /\ pc[r] = "commit"
    /\ Abort(r, 200)

\* A statement fails or the ten seconds are over.
TransactionFails(r) ==
    /\ \/ pc[r] \in {"check", "insert", "write", "participant", "assign",
                     "scan", "unassign", "commit"}
       \/ pc[r] = "dispatch" /\ ~Ignored(ev[r]) /\ Parsed(ev[r])
    /\ Abort(r, 500)
-----------------------------------------------------------------------------
(* The specification.                                                      *)

\* Postgres rolls the open transactions back.
Crash ==
    /\ ServerDies
    /\ draft' = [r \in Request |-> NoDraft]
    /\ snap' = [r \in Request |-> {}]
    /\ touched' = [r \in Request |-> {}]
    /\ UNCHANGED <<due, tables>>

\* Eight days pass for a claim, which is more than a transaction takes: one
\* that is made after a transaction began is not over before it scans.
Elapse ==
    /\ \E c \in claims :
          /\ \A r \in Request :
                pc[r] \in {"participant", "scan"} /\ ev[r].action = "unassigned"
                  /\ c \in ClaimsOf(ev[r]) => c \in due[r]
          /\ elapsed' = elapsed \cup {c.id}
    /\ UNCHANGED <<pc, ev, resp, conn, work, issues, claims, booked>>

\* All deliveries have been dealt with; the server waits for more.
Quiet ==
    /\ \A r \in Request : Over(r)
    /\ UNCHANGED vars

Init ==
    /\ pc = [r \in Request |-> "idle"]
    /\ ev = [r \in Request |-> NoEvent]
    /\ resp = [r \in Request |-> 0]
    /\ conn = {}
    /\ issues = [url \in Url |-> Absent]
    /\ claims = {} /\ elapsed = {} /\ booked = {}
    /\ draft = [r \in Request |-> NoDraft]
    /\ due = [r \in Request |-> {}]
    /\ snap = [r \in Request |-> {}]
    /\ touched = [r \in Request |-> {}]

Progress(r) ==
    \/ NothingToDo(r) \/ Begin(r)
    \/ CheckOpenIssue(r) \/ IssueExists(r) \/ AddNewIssue(r)
    \/ AddNewIssueRefused(r) \/ UpdateIssue(r) \/ NoSuchIssue(r)
    \/ ParticipantExists(r) \/ NoParticipant(r) \/ IssueAssign(r)
    \/ Scan(r) \/ IssueUnassign(r) \/ NotAssigned(r) \/ Commit(r)

Next ==
    \/ \E r \in Request, e \in Event : Deliver(r, e)
    \/ \E r \in Request : Progress(r) \/ CommitReplyLost(r) \/ TransactionFails(r)
    \/ Elapse
    \/ Crash
    \/ Quiet

Spec == Init /\ [][Next]_vars

\* The Go scheduler runs every goroutine and Postgres answers; no fault,
\* timeout or crash is ever needed to make progress.
FairSpec == Spec /\ \A r \in Request : WF_vars(Progress(r))
-----------------------------------------------------------------------------
(* Properties.                                                             *)

Label == {"idle", "dispatch", "check", "insert", "write", "participant",
          "assign", "scan", "unassign", "commit", "done", "crashed"}

Status == {200, 400, 404, 500}

\* Inside the transaction.
Holding == Label \ {"idle", "dispatch", "done", "crashed"}

Claim == [id : Request, url : Url, user : User]

\* The values of the variables.
TypeOK ==
    /\ pc \in [Request -> Label]
    /\ ev \in [Request -> Event \cup {NoEvent}]
    /\ resp \in [Request -> Status \cup {0}]
    /\ conn \subseteq Request
    /\ issues \in [Url -> Row \cup {Absent}]
    /\ claims \subseteq Claim
    /\ elapsed \subseteq Request
    /\ draft \in [Request -> Row \cup {NoDraft}]
    /\ due \in [Request -> SUBSET Claim]
    /\ snap \in [Request -> SUBSET Claim]
    /\ touched \in [Request -> SUBSET Claim]
    /\ booked \subseteq Request

\* The promise: whatever requests run at the same time, fail or crash, the
\* committed tables change as if the events took effect one at a time, each on
\* the rows the one before it left.
Board == INSTANCE IssueBoard
OneAtATime == Board!Spec

\* No tag is lost or doubled: a row's tags are those of the committed "tag"
\* events of its issue.
TagsKept ==
    \A url \in Url : issues[url] # Absent =>
        \A tag \in ArgsOf("tag") :
            Cardinality({i \in DOMAIN issues[url].tags : issues[url].tags[i] = tag})
              = Cardinality({r \in booked : /\ ev[r].action = "tag"
                                            /\ ev[r].url = url
                                            /\ ev[r].arg = tag})

\* The answers tell the truth: 200 means committed (or nothing to do), and of
\* the deliveries that accept one issue at most one is committed, also when
\* both found no row before either inserted its own.
AnswersTellTheTruth ==
    /\ \A r \in Request :
          resp[r] = 200 => r \in booked \/ Ignored(ev[r])
    /\ \A r1, r2 \in booked :
          ev[r1].action = "accepted" /\ ev[r2].action = "accepted"
            /\ ev[r1].url = ev[r2].url => r1 = r2

\* An unassignment that was answered 200 leaves none of the claims that were
\* live when its transaction began, whoever else deletes at the same time.
UnassignIsComplete ==
    \A r \in Request :
        resp[r] = 200 /\ ev[r].action = "unassigned" => due[r] \cap claims = {}

\* Connections are held exactly inside the transaction; a row of issues is
\* written, and a claim deleted, by one open transaction at a time, and what
\* it is going to delete is still there.
ResourcesMatchProgress ==
    /\ conn = {r \in Request : pc[r] \in Holding}
    /\ \A url \in Url : Cardinality(Writers(url)) <= 1
    /\ \A r1, r2 \in Request : r1 # r2 => touched[r1] \cap touched[r2] = {}
    /\ \A r \in Request :
          /\ draft[r] # NoDraft \/ touched[r] # {} => pc[r] = "commit"
          /\ ev[r] # NoEvent /\ ev[r].action = "unassigned" => touched[r] \subseteq claims

\* Every delivery is answered: no request waits for ever for a connection or
\* for a row.
Answered ==
    \A r \in Request : Serving(r) ~> Over(r)
-----------------------------------------------------------------------------
(* A statement of the repository, checked against the code.                *)

\* "Check if issue already exists and is open before attempting to create it",
\* "Issue already exists and is open" (controller/issue.go): a delivery is
\* answered 400 with this message only while the issue is open.
ReportedOpenIsOpen ==
    [][\A r \in Request :
          resp[r] = 0 /\ resp'[r] = 400 /\ ev[r].action = "accepted"
            => ~issues[ev[r].url].resolved]_vars
=============================================================================
