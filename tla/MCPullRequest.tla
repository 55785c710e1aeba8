--------------------------- MODULE MCPullRequest ---------------------------
(***************************************************************************)
(* Instances of PullRequest for TLC.                                       *)
(***************************************************************************)
EXTENDS PullRequest, MCServer

CONSTANTS
    pat,        \* an active participant
    quinn,      \* a login without an account
    p1, p2      \* two pull requests

On(action, url) == [action |-> action, url |-> url, by |-> pat, repo |-> "repo"]

\* The life of one pull request; any delivery may come twice and in any order.
Steps == <<On("opened", p1), On("merged", p1), On("dropped", p1)>>
OneLife == Range(Steps)
Sorted == CarryInOrder(Steps)

\* Two pull requests, and the payloads that are refused or ignored.
Mixed == OneLife \cup {
    On("opened", p2), On("merged", p2), On("other", p1),
    [On("opened", p1) EXCEPT !.by = quinn],
    [On("opened", p1) EXCEPT !.repo = "unregistered"]}
=============================================================================
