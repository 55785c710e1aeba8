----------------------------- MODULE IssueBoard -----------------------------
(***************************************************************************)
(* What the issues webhook promises, without requests, transactions or     *)
(* locks: a board of issues and of claims on them on which the events take *)
(* effect one at a time, each completely or not at all.                    *)
(***************************************************************************)
EXTENDS IssueRow

VARIABLES
    issues,     \* per URL, the row or Absent
    claims,     \* the claims: [id, url, user]
    elapsed     \* the claims whose eight days are over, by id

Init ==
    /\ issues = [url \in Url |-> Absent]
    /\ claims = {}
    /\ elapsed = {}

Accept(e) ==
    /\ e.action = "accepted"
    /\ issues[e.url] = Absent
    /\ issues' = [issues EXCEPT ![e.url] = NewIssue]
    /\ UNCHANGED <<claims, elapsed>>

Change(e) ==
    /\ e.action \in RowActions /\ Parsed(e)
    /\ issues[e.url] # Absent
    /\ issues' = [issues EXCEPT ![e.url] = Updated(@, e)]
    /\ UNCHANGED <<claims, elapsed>>

\* Nothing keeps a user from claiming an issue twice, or one without a row.
Assign(e) ==
    /\ e.action = "assigned"
    /\ \E claim \in claims' \ claims :
          /\ claim.url = e.url /\ claim.user = e.arg
          /\ \A c \in claims : c.id # claim.id
          /\ claims' = claims \cup {claim}
    /\ UNCHANGED <<issues, elapsed>>

Unassign(e) ==
    /\ e.action = "unassigned"
    /\ claims' \subseteq claims /\ claims' # claims
    /\ \A c \in claims \ claims' : c.url = e.url /\ c.user = e.arg
    /\ UNCHANGED <<issues, elapsed>>

Elapse ==
    /\ \E c \in claims : elapsed' = elapsed \cup {c.id}
    /\ UNCHANGED <<issues, claims>>

Next ==
    \/ \E e \in Event : Accept(e) \/ Change(e) \/ Assign(e) \/ Unassign(e)
    \/ Elapse

Spec == Init /\ [][Next]_<<issues, claims, elapsed>>
=============================================================================
