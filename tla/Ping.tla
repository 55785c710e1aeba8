-------------------------------- MODULE Ping --------------------------------
(***************************************************************************)
(* controller/ping.go: the handler of GitHub's ping webhook, sent when a   *)
(* hook is installed.  The repository it names goes on display.            *)
(***************************************************************************)
EXTENDS Server

CONSTANTS
    Registered,     \* URLs with a row in repository
    Pings,          \* the payloads that may be delivered: [repo : ...]
    NoRepo,         \* the repository of an organisation's hook: none
    NoPing          \* the payload of a request not delivered yet

VARIABLES
    onDisplay,  \* the URLs whose committed on_display is true
    rowsHeld    \* the requests with an uncommitted UPDATE of repository

vars == <<pc, ev, resp, conn, onDisplay, rowsHeld>>

EndTransaction(r) ==
    /\ conn' = conn \ {r}
    /\ rowsHeld' = rowsHeld \ {r}

\* The deferred Rollback.
Abort(r) ==
    /\ EndTransaction(r)
    /\ Answer(r, 500)
    /\ UNCHANGED <<ev, onDisplay>>

Deliver(r, e) ==
    /\ pc[r] = "idle"
    /\ ev' = [ev EXCEPT ![r] = e]
    /\ Goto(r, "begin")
    /\ UNCHANGED <<resp, conn, onDisplay, rowsHeld>>

\* Repo is nil: the handler panics, and PanicRecovery answers.
PanicRecovery(r) ==
    /\ pc[r] = "begin" /\ ev[r].repo = NoRepo
    /\ Answer(r, 500)
    /\ UNCHANGED <<ev, conn, onDisplay, rowsHeld>>

Begin(r) ==
    /\ pc[r] = "begin" /\ ev[r].repo # NoRepo
    /\ PoolHasRoom
    /\ conn' = conn \cup {r}
    /\ Goto(r, "update")
    /\ UNCHANGED <<ev, resp, onDisplay, rowsHeld>>

RowFree(r) == \A q \in rowsHeld : ev[q].repo # ev[r].repo

UpdateRepositoryOnDisplay(r) ==
    /\ pc[r] = "update"
    /\ ev[r].repo \in Registered /\ RowFree(r)
    /\ rowsHeld' = rowsHeld \cup {r}
    /\ Goto(r, "commit")
    /\ UNCHANGED <<ev, resp, conn, onDisplay>>

\* No row is updated (pgx.ErrNoRows).
NotRegistered(r) ==
    /\ pc[r] = "update"
    /\ ev[r].repo \notin Registered
    /\ Abort(r)

Install(r) ==
    /\ onDisplay' = onDisplay \cup {ev[r].repo}
    /\ EndTransaction(r)

\* Mutant: Commit is forgotten, and the deferred Rollback undoes the UPDATE.
AnswerWithoutCommit(r) ==
    /\ pc[r] = "commit"
    /\ EndTransaction(r)
    /\ Answer(r, 200)
    /\ UNCHANGED <<ev, onDisplay>>

Commit(r) ==
    /\ pc[r] = "commit"
    /\ Install(r)
    /\ Answer(r, 200)
    /\ UNCHANGED ev

CommitReplyLost(r) ==
    /\ pc[r] = "commit"
    /\ Install(r)
    /\ Answer(r, 500)
    /\ UNCHANGED ev

\* Begin, the UPDATE or the commit fails, or the ten seconds are over.
TransactionFails(r) ==
    /\ \/ pc[r] = "begin" /\ ev[r].repo # NoRepo
       \/ pc[r] \in {"update", "commit"}
    /\ Abort(r)

Crash ==
    /\ ServerDies
    /\ rowsHeld' = {}
    /\ UNCHANGED onDisplay

Init ==
    /\ pc = [r \in Request |-> "idle"]
    /\ ev = [r \in Request |-> NoPing]
    /\ resp = [r \in Request |-> 0]
    /\ conn = {}
    /\ onDisplay = {} /\ rowsHeld = {}

Progress(r) ==
    \/ PanicRecovery(r) \/ Begin(r) \/ UpdateRepositoryOnDisplay(r)
    \/ NotRegistered(r) \/ Commit(r)

Fault(r) == CommitReplyLost(r) \/ TransactionFails(r)

Next ==
    \/ \E r \in Request, e \in Pings : Deliver(r, e)
    \/ \E r \in Request : Progress(r) \/ Fault(r)
    \/ Crash

Spec == Init /\ [][Next]_vars
=============================================================================
