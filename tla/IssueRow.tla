------------------------------ MODULE IssueRow ------------------------------
(***************************************************************************)
(* A row of table issues, and what the events of the issues webhook do to  *)
(* it: the UPDATE and INSERT statements of db/queries/queries.sql as       *)
(* controller/issue.go uses them.                                          *)
(***************************************************************************)
EXTENDS Int32, Sequences

CONSTANTS
    Url,        \* issues
    Event,      \* the payloads: records with an action, a url and an arg
    Absent      \* an issue without a row

\* The actions that change one row.  "labeled" is split by its upper-cased
\* label: AMSOC-ACCEPTED, EASY | MEDIUM | HARD, BOUNTY-n, any other tag.
RowActions == {"difficulty", "bounty", "tag", "closed", "reopened"}
UserActions == {"assigned", "unassigned"}
Actions == RowActions \cup UserActions \cup {"accepted", "other"}

\* The arg of a bounty is what Atoi makes of the label behind "BOUNTY-".
Parsed(e) == e.action = "bounty" => e.arg \in Int

\* The column defaults of the migrations.
NewIssue == [resolved |-> FALSE, tags |-> << >>, difficulty |-> "EASY",
             promised |-> 0]

ArgsOf(action) == {e.arg : e \in {f \in Event : f.action = action}}

\* The columns' values that the events can produce.
Row == [resolved : BOOLEAN, tags : Seq(ArgsOf("tag")),
        difficulty : ArgsOf("difficulty") \cup {NewIssue.difficulty},
        promised : INT]

\* The UPDATE statements, one per event.
UpdateIssueDifficulty(row, difficulty) == [row EXCEPT !.difficulty = difficulty]

\* Mutant: a bounty that does not fit into an int32 is stored as it is.
UpdateUntruncated(row, number) == [row EXCEPT !.promised = number]

\* Go truncates the number of a bounty.
UpdateIssueBounty(row, number) == [row EXCEPT !.promised = Int32(number)]

\* Mutant: the tag replaces the others instead of being appended.
SetIssueTag(row, tag) == [row EXCEPT !.tags = << tag >>]

AddIssueTag(row, tag) == [row EXCEPT !.tags = Append(@, tag)]

CloseIssue(row) == [row EXCEPT !.resolved = TRUE]
OpenIssue(row)  == [row EXCEPT !.resolved = FALSE]

Updated(row, e) ==
    CASE e.action = "difficulty" -> UpdateIssueDifficulty(row, e.arg)
      [] e.action = "bounty"     -> UpdateIssueBounty(row, e.arg)
      [] e.action = "tag"        -> AddIssueTag(row, e.arg)
      [] e.action = "closed"     -> CloseIssue(row)
      [] e.action = "reopened"   -> OpenIssue(row)
=============================================================================
