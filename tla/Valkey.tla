------------------------------- MODULE Valkey -------------------------------
(***************************************************************************)
(* The names of pkg/constants.go that the handlers write to, and the two   *)
(* write operations of cmd/valkey.go.  A stream is the sequence of the     *)
(* records appended to it; the leaderboard is a score per member, counted  *)
(* in thousandths because a merged pull request is worth 0.001 points.     *)
(* Sums are exact; the program adds float64 values, which round.           *)
(***************************************************************************)
EXTENDS Integers, Sequences

IssueClaim      == "issue-stream"
AutomaticEvents == "automatic-events-stream"
Bounty          == "bounty-stream"
SolutionMerge   == "solution-merged-stream"
LiveUpdates     == "live-update-stream"

StreamName == {IssueClaim, AutomaticEvents, Bounty, SolutionMerge, LiveUpdates}

\* One leaderboard point, in the unit of the model.
Point == 1000

\* XADD: the record becomes the last entry of the stream.
AddToStream(streams, key, record) ==
    [streams EXCEPT ![key] = Append(@, record)]

\* ZINCRBY: an absent member counts as zero.
UpdateLeaderboard(score, member, increment) ==
    [score EXCEPT ![member] = @ + increment]
=============================================================================
