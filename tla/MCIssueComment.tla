--------------------------- MODULE MCIssueComment ---------------------------
(***************************************************************************)
(* Instances of IssueComment for TLC.                                      *)
(***************************************************************************)
EXTENDS IssueComment, MCServer, FiniteSetsExt

CONSTANTS
    alice,      \* a maintainer, in repository.maintainers and in maintainers
    mallory,    \* in repository.maintainers only
    pat,        \* an active participant
    quinn       \* a login without an account

MCUser == {alice, mallory, pat, quinn}

repo == "repo"
Both == [url \in {repo} |-> {alice, mallory}]
NotAlice == [url \in {repo} |-> {mallory}]
Steady == {Both}
Changing == {Both, NotAlice, << >>}

Say(by, cmd, args, amount, target) ==
    [by |-> by, repo |-> repo, cmd |-> cmd, args |-> args, numeric |-> TRUE,
     amount |-> amount, target |-> target]

\* Commands that compete for one account.  HalfRange 2 makes the penalty of 2 an
\* int32 of -2, whose negation is -2 again, and two bounties of 1 or one
\* penalty of 1 after that of 2 leave the column's range.
Contenders == <<
    Say(alice,   "/bounty",  2, 1, pat),
    Say(alice,   "/penalty", 2, 1, pat),
    Say(alice,   "/penalty", 2, 2, pat),
    Say(mallory, "/bounty",  2, 1, pat)>>
Contention == Range(Contenders)
Sorted == CarryInOrder(Contenders)

\* One comment of every kind parseComment and the transaction tell apart.
AllKinds == Contention \cup {
    Say(alice, "/penalty",  2, 3, pat),
    Say(alice, "/bounty",   2, 1, quinn),
    Say(alice, "/bounty",   1, 1, pat),
    Say(alice, "/bounty",   0, 0, pat),
    Say(alice, "/bug",      1, 0, pat),
    Say(alice, "/doc",      2, 0, pat),
    Say(pat,   "/assign",   0, 0, pat),
    Say(pat,   "/unassign", 0, 0, pat),
    Say(pat,   "/bounty",   2, 1, pat),
    Say(quinn, "/assign",   0, 0, quinn),
    [Say(alice, "/bounty", 2, 1, pat) EXCEPT !.numeric = FALSE],
    [Say(alice, "/bounty", 2, 1, pat) EXCEPT !.repo = "unregistered"]}

\* Counting units is adding up.
ASSUME TotalIsSum ==
    \A f \in UNION {[D -> -2 .. 2] : D \in SUBSET (1 .. 3)} :
        Total(f) = MapThenSumSet(LAMBDA x : f[x], DOMAIN f)

BugOnly    == {Say(alice, "/bug", 1, 0, pat), Say(pat, "/assign", 0, 0, pat)}
BountyOnly == {Say(alice, "/bounty", 2, 1, pat)}
=============================================================================
