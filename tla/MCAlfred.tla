------------------------------ MODULE MCAlfred ------------------------------
(***************************************************************************)
(* Instances of Alfred for TLC.                                            *)
(***************************************************************************)
EXTENDS Alfred, MCServer

CONSTANTS alice, pat, p1, i1

repo == "repo"

Steady == {[url \in {repo} |-> {alice}]}

Bounties == {[by |-> alice, repo |-> repo, cmd |-> "/bounty", args |-> 2,
              numeric |-> TRUE, amount |-> 1, target |-> pat]}
Opened == [action |-> "opened", url |-> p1, by |-> pat, repo |-> repo]
Merged == [Opened EXCEPT !.action = "merged"]
Accepted == [action |-> "accepted", url |-> i1, arg |-> repo]
Closed == [action |-> "closed", url |-> i1, arg |-> NoOne]
Assigned == [action |-> "assigned", url |-> i1, arg |-> pat]
Hook == [repo |-> repo]
OrganisationHook == [repo |-> NoRepo]

Pulls == {Opened, Merged}
IssueLife == {Accepted, Closed, Assigned}
Hooks == {Hook, OrganisationHook}

Payloads == <<CHOOSE c \in Bounties : TRUE, Opened, Merged, Accepted, Closed,
              Assigned, Hook, OrganisationHook, Unsupported>>
Sorted == CarryInOrder(Payloads)
=============================================================================
