------------------------- MODULE MCPullRequestLife -------------------------
(***************************************************************************)
(* The instance of PullRequestLife for TLC.                                *)
(***************************************************************************)
EXTENDS PullRequestLife

CONSTANTS pat, p1

MCEvents ==
    {[action |-> action, url |-> p1, by |-> pat, repo |-> "repo"] :
        action \in {"opened", "merged", "dropped", "other"}}
=============================================================================
