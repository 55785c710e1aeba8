-------------------------- MODULE PullRequestLife --------------------------
(***************************************************************************)
(* PullRequest under the deliveries of one pull request's life as GitHub   *)
(* sends them: opened, then closed, merged or closed and reopened, each    *)
(* delivered once, in order, after the one before it was answered, with    *)
(* nothing failing.                                                        *)
(***************************************************************************)
EXTENDS PullRequest

CONSTANTS
    TheUrl,     \* the pull request
    Author      \* its author, with an account, on a registered repository

VARIABLE
    life        \* GitHub's state of the pull request

Webhook(action) == [action |-> action, url |-> TheUrl, by |-> Author,
                    repo |-> CHOOSE repo \in Registered : TRUE]

\* GitHub's state machine; "reopened" is an "other" action for the handler.
Happens(from, to, action) ==
    /\ life = from
    /\ life' = to
    /\ \E r \in Request : Deliver(r, Webhook(action))

LifeNext ==
    \/ /\ \A r \in Request : ~Serving(r)
       /\ \/ Happens("none", "open", "opened")
          \/ Happens("open", "closed", "dropped")
          \/ Happens("closed", "open", "other")
          \/ Happens("open", "merged", "merged")
    \/ (\E r \in Request : Progress(r)) /\ UNCHANGED life
    \/ (\A r \in Request : ~Serving(r)) /\ UNCHANGED <<vars, life>>

LifeSpec == Init /\ life = "none" /\ [][LifeNext]_<<vars, life>>

\* "Whenever a pull request is merged by a maintainer it is captured here"
\* (pkg/constants.go, on solution-merged-stream): once the delivery of the
\* merge was answered, its record is on the stream.
MergedIsCaptured ==
    life = "merged" /\ (\A r \in Request : ~Serving(r)) =>
        \E i \in DOMAIN streams[SolutionMerge] :
            streams[SolutionMerge][i].merged
=============================================================================
