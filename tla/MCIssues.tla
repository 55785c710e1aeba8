------------------------------ MODULE MCIssues ------------------------------
(***************************************************************************)
(* Instances of Issues for TLC.                                            *)
(***************************************************************************)
EXTENDS Issues, MCServer

CONSTANTS
    i1, i2,             \* two issues
    registered, other,  \* a repository of the programme, and another one
    hard, docs,         \* a difficulty and a tag
    pat, quinn          \* an active participant, a login without an account

On(action, arg) == [action |-> action, url |-> i1, arg |-> arg]

\* What one row goes through; 9 does not fit into 4-bit integers.
RowLife == {On("accepted", registered), On("tag", docs), On("difficulty", hard),
            On("bounty", 9), On("closed", hard), On("reopened", hard)}

\* The payloads that are refused or ignored, and a second issue.
AllKinds == RowLife \cup {
    On("accepted", other), On("bounty", NotANumber), On("other", docs),
    On("assigned", pat), On("unassigned", pat), On("assigned", quinn),
    On("unassigned", NoOne),
    [On("accepted", registered) EXCEPT !.url = i2],
    [On("tag", docs) EXCEPT !.url = i2]}

\* All the waiting there is: for a connection, a row, a key, a claim.
Contenders == <<On("accepted", registered), On("tag", docs),
                On("assigned", pat), On("unassigned", pat)>>
Contention == Range(Contenders)
Sorted == CarryInOrder(Contenders)

\* An accepted issue is closed.
Closing == {On("accepted", registered), On("closed", hard)}
=============================================================================
