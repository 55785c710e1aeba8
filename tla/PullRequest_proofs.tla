------------------------- MODULE PullRequest_proofs -------------------------
(***************************************************************************)
(* Proofs about PullRequest, for every set of requests, users, accounts,   *)
(* repositories and payloads, every pool size and any number of lost       *)
(* replies.  The argument is one inductive invariant, IInv; the safety     *)
(* properties of PullRequest follow from it.                               *)
(***************************************************************************)
EXTENDS PullRequest, TLAPS

-----------------------------------------------------------------------------
(* The inductive invariant, in parts.                                      *)

\* A request that was delivered carries a payload; only a finished one was
\* answered.
Delivered ==
    \A r \in Request :
        /\ pc[r] # "idle" => ev[r] \in Events
        /\ resp[r] # 0 => pc[r] = "done"

\* Where a request is in the handler says what kind of event it handles.
Dispatched ==
    \A r \in Request :
        /\ pc[r] = "ignore" => ev[r].action = "other"
        /\ pc[r] = "insert" => ev[r].action = "opened"
        /\ pc[r] \in {"check", "rank"} => ev[r].action = "merged"
        /\ pc[r] \in {"scan", "apply"} => ev[r].action \in {"merged", "dropped"}
        /\ pc[r] = "publish" => ev[r].action \in {"opened", "merged"}
        /\ pc[r] = "commit" => ev[r].action \in {"opened", "merged", "dropped"}

\* A row once committed: inserted by an opening whose transaction is booked.
Genuine(id) == id \in booked /\ ev[id].action = "opened"

\* An opening works on the row it inserts; a merge or closing on rows its
\* statement found, all of them rows of its own pull request.
RowsAreGenuine ==
    /\ \A id \in rows : Genuine(id)
    /\ \A r \in booked : Over(r)
    /\ \A r \in Request :
          /\ snap[r] # {} => pc[r] \in {"apply", "publish", "rank", "commit"}
          /\ \A id \in snap[r] : Genuine(id) /\ ev[id].url = ev[r].url
          /\ \A id \in touched[r] :
                IF ev[r].action = "opened" THEN id = r ELSE id \in snap[r]

\* Every record is the record of a request that was delivered.
RecordsAreGenuine ==
    \A i \in DOMAIN streams[SolutionMerge] :
        \E r \in Request : pc[r] # "idle" /\ streams[SolutionMerge][i] = Record(r)

\* The announcement comes before the points, and both before the commit; points
\* are for merges.
AnnouncedInOrder ==
    \A r \in Request :
        /\ pc[r] = "rank" => Published(r)
        /\ pc[r] = "commit" /\ ev[r].action \in {"opened", "merged"} => Published(r)
        /\ pc[r] = "commit" /\ ev[r].action = "merged" => ranked[r] > 0
        /\ ranked[r] > 0 => pc[r] # "idle" /\ ev[r].action = "merged"

IInv ==
    /\ TypeOK
    /\ Delivered
    /\ Dispatched
    /\ RowsAreGenuine
    /\ RecordsAreGenuine
    /\ AnnouncedInOrder
    /\ ResourcesMatchProgress
    /\ NoFlagWithoutRow
    /\ CommittedIsAnnounced
    /\ MergeFollowsOpening
    /\ OkMeansCommitted
-----------------------------------------------------------------------------
(* The pure parts.                                                         *)

\* The parts of a delivered payload.
LEMMA PayloadTyped ==
    ASSUME NEW e \in Events
    PROVE  /\ e.action \in {"opened", "merged", "dropped", "other"}
           /\ e.url \in Url /\ e.by \in User
  BY PullRequestAssumption

\* The record of a delivered request has the type of the stream.
LEMMA RecordTyped ==
    ASSUME IInv, NEW r \in Request, pc[r] # "idle"
    PROVE  Record(r) \in Records
  <1>1. ev[r] \in Events
    BY DEF IInv, Delivered
  <1> QED BY <1>1, PayloadTyped DEF Record, Records
-----------------------------------------------------------------------------
(* The actions, grouped by what they touch.                                *)

Locking(r) == AddSolution(r) \/ Apply(r)
Aborting(r) == Ignore(r) \/ AddSolutionRefused(r) \/ NoSolution(r) \/ NoRowLeft(r) \/ StepFails(r)
Appending(r) == Publish(r) \/ PublishReplyLost(r)
Ranking(r) == Rank(r) \/ RankReplyLost(r)
Installing(r) == Commit(r) \/ CommitReplyLost(r)

\* The request goes on to one of the labels, answering only when it is done;
\* the others stay where they are.
Moves(r, labels) ==
    /\ pc' \in [Request -> Label]
    /\ pc'[r] \in labels
    /\ \A q \in Request : q # r => pc'[q] = pc[q] /\ resp'[q] = resp[q]
    /\ resp' \in [Request -> {0, 200, 500}]
    /\ resp'[r] # resp[r] => pc'[r] = "done"

\* Going to a label and answering are both moves of one request.
LEMMA MovesByGoto ==
    ASSUME TypeOK, NEW r \in Request, NEW l \in Label, Goto(r, l), UNCHANGED resp
    PROVE  Moves(r, {l})
  BY DEF Goto, Moves, TypeOK

\* An answer ends the request with its status.
LEMMA MovesByAnswer ==
    ASSUME TypeOK, NEW r \in Request, NEW s \in {200, 500}, Answer(r, s)
    PROVE  Moves(r, {"done"}) /\ resp'[r] = s
  <1>1. pc' = [pc EXCEPT ![r] = "done"] /\ resp' = [resp EXCEPT ![r] = s]
    BY DEF Answer, Goto
  <1>2. pc \in [Request -> Label] /\ resp \in [Request -> {0, 200, 500}]
    BY DEF TypeOK
  <1> QED BY <1>1, <1>2 DEF Moves, Label

DeliverEffect(r, e) ==
    /\ pc[r] = "idle" /\ Moves(r, {"begin"})
    /\ ev' = [ev EXCEPT ![r] = e]
    /\ UNCHANGED <<resp, conn, rows, merged, snap, touched, booked, ranked, score, streams>>

\* A delivery only starts a request.
LEMMA DeliverHasEffect ==
    ASSUME TypeOK, NEW r \in Request, NEW e \in Events, Deliver(r, e)
    PROVE  DeliverEffect(r, e)
  BY MovesByGoto DEF Deliver, DeliverEffect, Label, table, work, valkey

BeginEffect(r) ==
    /\ pc[r] = "begin" /\ Moves(r, {"insert", "check", "scan", "ignore"})
    /\ pc'[r] = CASE ev[r].action = "opened"  -> "insert"
                  [] ev[r].action = "merged"  -> "check"
                  [] ev[r].action = "dropped" -> "scan"
                  [] OTHER                    -> "ignore"
    /\ conn' = conn \cup {r}
    /\ UNCHANGED <<ev, resp, rows, merged, snap, touched, booked, ranked, score, streams>>

\* The transaction opens, and the action of the payload decides what follows.
LEMMA BeginHasEffect ==
    ASSUME TypeOK, NEW r \in Request, Begin(r)
    PROVE  BeginEffect(r)
  <1> DEFINE l == CASE ev[r].action = "opened"  -> "insert"
                    [] ev[r].action = "merged"  -> "check"
                    [] ev[r].action = "dropped" -> "scan"
                    [] OTHER                    -> "ignore"
  <1>1. /\ pc[r] = "begin" /\ Goto(r, l) /\ conn' = conn \cup {r}
        /\ UNCHANGED <<ev, resp, rows, merged, snap, touched, booked, ranked, score, streams>>
    BY DEF Begin, table, work, valkey
  <1>2. l \in {"insert", "check", "scan", "ignore"}
    OBVIOUS
  <1>3. pc'[r] = l
    BY <1>1 DEF Goto, TypeOK
  <1> HIDE DEF l
  <1>4. Moves(r, {l})
    BY <1>1, <1>2, MovesByGoto DEF Label
  <1>5. Moves(r, {"insert", "check", "scan", "ignore"})
    BY <1>2, <1>4 DEF Moves
  <1> QED BY <1>1, <1>3, <1>5 DEF BeginEffect, l

CheckEffect(r) ==
    /\ pc[r] = "check" /\ Moves(r, {"scan"})
    /\ UNCHANGED <<ev, resp, conn, rows, merged, snap, touched, booked, ranked, score, streams>>

\* The lookup before a merge changes nothing.
LEMMA CheckHasEffect ==
    ASSUME TypeOK, NEW r \in Request, CheckIfSolutionExist(r)
    PROVE  CheckEffect(r)
  BY MovesByGoto DEF CheckIfSolutionExist, CheckEffect, Label, table, work, valkey

ScanEffect(r) ==
    /\ pc[r] = "scan" /\ Moves(r, {"apply"})
    /\ snap' = [snap EXCEPT ![r] = RowsWithUrl(ev[r].url)]
    /\ UNCHANGED <<ev, resp, conn, rows, merged, touched, booked, ranked, score, streams>>

\* A statement that updates or deletes first takes its snapshot.
LEMMA ScanHasEffect ==
    ASSUME TypeOK, NEW r \in Request, Scan(r)
    PROVE  ScanEffect(r)
  BY MovesByGoto DEF Scan, ScanEffect, Label, table, valkey

LockEffect(r) ==
    /\ \/ /\ pc[r] = "insert" /\ Moves(r, {"publish"})
          /\ touched' = [touched EXCEPT ![r] = {r}]
       \/ /\ pc[r] = "apply"
          /\ Moves(r, IF ev[r].action = "merged" THEN {"publish"} ELSE {"commit"})
          /\ snap[r] \cap LockedByOthers(r) = {} /\ snap[r] \cap rows # {}
          /\ touched' = [touched EXCEPT ![r] = snap[r] \cap rows]
    /\ UNCHANGED <<ev, resp, conn, rows, merged, snap, booked, ranked, score, streams>>

\* The statement that writes locks its rows: the new one, or those it found
\* that are still there and that no other transaction holds.
LEMMA LockHasEffect ==
    ASSUME TypeOK, NEW r \in Request, Locking(r)
    PROVE  LockEffect(r)
  <1>1. CASE AddSolution(r)
    BY <1>1, MovesByGoto DEF AddSolution, LockEffect, Label, table, valkey
  <1>2. CASE Apply(r)
    <2>1. CASE ev[r].action = "merged"
      BY <1>2, <2>1, MovesByGoto DEF Apply, LockEffect, Label, table, valkey
    <2>2. CASE ev[r].action # "merged"
      BY <1>2, <2>2, MovesByGoto DEF Apply, LockEffect, Label, table, valkey
    <2> QED BY <2>1, <2>2
  <1> QED BY <1>1, <1>2 DEF Locking

AbortEffect(r) ==
    /\ pc[r] \in Holding \cup {"begin"} /\ Moves(r, {"done"})
    /\ resp'[r] = 500 \/ pc[r] = "ignore"
    /\ EndTransaction(r)
    /\ UNCHANGED <<ev, rows, merged, booked, ranked, score, streams>>

\* Every way to leave without a commit gives everything back; it answers 200
\* only to an event that asks for nothing.
LEMMA AbortHasEffect ==
    ASSUME TypeOK, NEW r \in Request, Aborting(r)
    PROVE  AbortEffect(r)
  <1>1. CASE Ignore(r)
    BY <1>1, MovesByAnswer DEF Ignore, Abort, AbortEffect, Holding, Label, table, valkey
  <1>2. CASE AddSolutionRefused(r) \/ NoSolution(r) \/ NoRowLeft(r) \/ StepFails(r)
    BY <1>2, MovesByAnswer DEF AddSolutionRefused, NoSolution, NoRowLeft, StepFails,
       Abort, AbortEffect, Holding, Label, table, valkey
  <1> QED BY <1>1, <1>2 DEF Aborting

AppendEffect(r) ==
    /\ pc[r] = "publish"
    /\ Moves(r, {"publish", IF ev[r].action = "merged" THEN "rank" ELSE "commit"})
    /\ streams' = [streams EXCEPT ![SolutionMerge] = Append(@, Record(r))]
    /\ UNCHANGED <<ev, resp, conn, rows, merged, snap, touched, booked, ranked, score>>

\* XADD appends the one record of the request.
LEMMA AppendHasEffect ==
    ASSUME TypeOK, NEW r \in Request, Appending(r)
    PROVE  AppendEffect(r)
  <1> DEFINE l == IF ev[r].action = "merged" THEN "rank" ELSE "commit"
  <1>1. Moves(r, {"publish", l})
    <2>0. l \in Label
      BY DEF Label
    <2>1. CASE Publish(r)
      BY <2>0, <2>1, MovesByGoto DEF Publish, AppendRecord, Moves
    <2>2. CASE PublishReplyLost(r)
      BY <2>2 DEF PublishReplyLost, AppendRecord, Moves, TypeOK
    <2> QED BY <2>1, <2>2 DEF Appending
  <1> QED BY <1>1 DEF Appending, Publish, PublishReplyLost, AppendRecord,
             AddToStream, AppendEffect, table, work

RankEffect(r) ==
    /\ pc[r] = "rank" /\ Moves(r, {"rank", "commit"})
    /\ ranked' = [ranked EXCEPT ![r] = @ + 1]
    /\ score' = [score EXCEPT ![ev[r].by] = @ + 1]
    /\ UNCHANGED <<ev, resp, conn, rows, merged, snap, touched, booked, streams>>

\* ZINCRBY counts once.
LEMMA RankHasEffect ==
    ASSUME TypeOK, NEW r \in Request, Ranking(r)
    PROVE  RankEffect(r)
  <1>1. Moves(r, {"rank", "commit"})
    <2>1. CASE Rank(r)
      BY <2>1, MovesByGoto DEF Rank, Increment, Moves, Label
    <2>2. CASE RankReplyLost(r)
      BY <2>2 DEF RankReplyLost, Increment, Moves, TypeOK
    <2> QED BY <2>1, <2>2 DEF Ranking
  <1> QED BY <1>1 DEF Ranking, Rank, RankReplyLost, Increment, UpdateLeaderboard,
             RankEffect, table, work

InstallEffect(r) ==
    /\ pc[r] = "commit" /\ Moves(r, {"done"})
    /\ booked' = booked \cup {r}
    /\ \/ /\ ev[r].action = "opened"
          /\ rows' = rows \cup touched[r] /\ merged' = merged
       \/ /\ ev[r].action = "dropped"
          /\ rows' = rows \ touched[r] /\ merged' = merged \ touched[r]
       \/ /\ ev[r].action = "merged"
          /\ rows' = rows /\ merged' = merged \cup touched[r]
    /\ EndTransaction(r)
    /\ UNCHANGED <<ev, ranked, score, streams>>

\* The commit installs its rows, whatever the client learns.
LEMMA InstallHasEffect ==
    ASSUME TypeOK, Dispatched, NEW r \in Request, Installing(r)
    PROVE  InstallEffect(r)
  <1>1. pc[r] = "commit" /\ Install(r) /\ Moves(r, {"done"})
        /\ UNCHANGED <<ev, ranked, score, streams>>
    BY MovesByAnswer DEF Installing, Commit, CommitReplyLost, valkey
  <1>2. CASE ev[r].action = "opened"
    BY <1>1, <1>2 DEF Install, InstallEffect
  <1>3. CASE ev[r].action = "dropped"
    BY <1>1, <1>3 DEF Install, InstallEffect
  <1>4. CASE ev[r].action = "merged"
    BY <1>1, <1>4 DEF Install, InstallEffect
  <1> QED BY <1>1, <1>2, <1>3, <1>4 DEF Dispatched

CrashEffect ==
    /\ \A r \in Request : pc'[r] = IF Serving(r) THEN "crashed" ELSE pc[r]
    /\ pc' \in [Request -> Label]
    /\ conn' = {}
    /\ snap' = [r \in Request |-> {}] /\ touched' = [r \in Request |-> {}]
    /\ UNCHANGED <<ev, resp, rows, merged, booked, ranked, score, streams>>

\* A crash ends what is being served and rolls the transactions back.
LEMMA CrashHasEffect ==
    ASSUME TypeOK, Crash
    PROVE  CrashEffect
  BY DEF Crash, ServerDies, CrashEffect, TypeOK, Label, table, valkey

\* A request is delivered, takes one of eight kinds of steps, or the process
\* dies.
LEMMA StepCases ==
    ASSUME TypeOK, Dispatched, [Next]_vars
    PROVE  \/ \E r \in Request : \/ \E e \in Events : DeliverEffect(r, e)
                                 \/ BeginEffect(r) \/ CheckEffect(r) \/ ScanEffect(r)
                                 \/ LockEffect(r) \/ AbortEffect(r) \/ AppendEffect(r)
                                 \/ RankEffect(r) \/ InstallEffect(r)
           \/ CrashEffect
           \/ UNCHANGED vars
  <1>1. ASSUME NEW r \in Request, NEW e \in Events, Deliver(r, e)
        PROVE  DeliverEffect(r, e)
    BY <1>1, DeliverHasEffect
  <1>2. ASSUME NEW r \in Request, Progress(r) \/ Fault(r)
        PROVE  \/ BeginEffect(r) \/ CheckEffect(r) \/ ScanEffect(r) \/ LockEffect(r)
               \/ AbortEffect(r) \/ AppendEffect(r) \/ RankEffect(r) \/ InstallEffect(r)
    BY <1>2, BeginHasEffect, CheckHasEffect, ScanHasEffect, LockHasEffect, AbortHasEffect,
       AppendHasEffect, RankHasEffect, InstallHasEffect
       DEF Progress, Fault, Locking, Aborting, Appending, Ranking, Installing
  <1> QED BY <1>1, <1>2, CrashHasEffect DEF Next, Quiet
-----------------------------------------------------------------------------
(* Every part of the invariant is preserved.                               *)

\* No step leaves the types.
LEMMA TypeStep ==
    ASSUME IInv, [Next]_vars
    PROVE  TypeOK'
  <1> USE DEF IInv, TypeOK
  <1>0. TypeOK /\ Dispatched
    OBVIOUS
  <1>1. ASSUME NEW r \in Request, NEW e \in Events, DeliverEffect(r, e)
        PROVE  TypeOK'
    BY <1>1 DEF DeliverEffect, Moves
  <1>2. ASSUME NEW r \in Request, BeginEffect(r) \/ CheckEffect(r)
        PROVE  TypeOK'
    BY <1>2 DEF BeginEffect, CheckEffect, Moves
  <1>3. ASSUME NEW r \in Request, ScanEffect(r)
        PROVE  TypeOK'
    BY <1>3 DEF ScanEffect, RowsWithUrl, Moves
  <1>4. ASSUME NEW r \in Request, LockEffect(r)
        PROVE  TypeOK'
    BY <1>4 DEF LockEffect, Moves
  <1>5. ASSUME NEW r \in Request, AbortEffect(r)
        PROVE  TypeOK'
    BY <1>5 DEF AbortEffect, EndTransaction, Moves
  <1>6. ASSUME NEW r \in Request, AppendEffect(r)
        PROVE  TypeOK'
    <2>1. Record(r) \in Records
      BY <1>6, RecordTyped DEF AppendEffect
    <2>2. streams' \in [StreamName -> Seq(Records)]
      <3>1. streams \in [StreamName -> Seq(Records)]
        OBVIOUS
      <3>2. \A s \in Seq(Records) : Append(s, Record(r)) \in Seq(Records)
        BY <2>1
      <3>3. streams' = [streams EXCEPT ![SolutionMerge] =
                          Append(streams[SolutionMerge], Record(r))]
        BY <1>6 DEF AppendEffect
      <3> HIDE DEF TypeOK, IInv
      <3> QED BY <3>1, <3>2, <3>3
    <2> QED BY <1>6, <2>2 DEF AppendEffect, Moves
  <1>7. ASSUME NEW r \in Request, RankEffect(r)
        PROVE  TypeOK'
    <2>1. ev[r].by \in User
      BY <1>7, PayloadTyped DEF RankEffect, Delivered
    <2>2. score' \in [User -> Nat] /\ ranked' \in [Request -> Nat]
      BY <1>7, <2>1 DEF RankEffect
    <2> QED BY <1>7, <2>2 DEF RankEffect, Moves
  <1>8. ASSUME NEW r \in Request, InstallEffect(r)
        PROVE  TypeOK'
    BY <1>8 DEF InstallEffect, EndTransaction, Moves
  <1>9. CASE CrashEffect
    BY <1>9 DEF CrashEffect
  <1>10. CASE UNCHANGED vars
    BY <1>10 DEF vars
  <1> QED BY <1>1, <1>2, <1>3, <1>4, <1>5, <1>6, <1>7, <1>8, <1>9, <1>10, <1>0,
          StepCases

\* What was delivered, committed, ranked and announced stays so.
LEMMA NothingTakenBack ==
    ASSUME IInv, [Next]_vars
    PROVE  /\ \A r \in Request : pc[r] # "idle" => pc'[r] # "idle" /\ ev'[r] = ev[r]
           /\ \A r \in Request : Over(r) => pc'[r] = pc[r]
           /\ booked \subseteq booked'
           /\ \A r \in Request : ranked[r] > 0 => ranked'[r] > 0
           /\ \A i \in DOMAIN streams[SolutionMerge] :
                 /\ i \in DOMAIN streams'[SolutionMerge]
                 /\ streams'[SolutionMerge][i] = streams[SolutionMerge][i]
  <1>1. TypeOK /\ Dispatched
    BY DEF IInv
  <1>2. \A r \in Request : pc[r] # "idle" => pc'[r] # "idle" /\ ev'[r] = ev[r]
    BY <1>1, StepCases
       DEF DeliverEffect, BeginEffect, CheckEffect, ScanEffect, LockEffect, AbortEffect,
           AppendEffect, RankEffect, InstallEffect, CrashEffect, Moves, vars, TypeOK
  <1>3. \A r \in Request : Over(r) => pc'[r] = pc[r]
    BY <1>1, StepCases
       DEF DeliverEffect, BeginEffect, CheckEffect, ScanEffect, LockEffect, AbortEffect,
           AppendEffect, RankEffect, InstallEffect, CrashEffect, Moves, vars, Over,
           Serving, Holding
  <1>4. booked \subseteq booked'
    BY <1>1, StepCases
       DEF DeliverEffect, BeginEffect, CheckEffect, ScanEffect, LockEffect, AbortEffect,
           AppendEffect, RankEffect, InstallEffect, CrashEffect, vars
  <1>5. ASSUME NEW r \in Request, ranked[r] > 0
        PROVE  ranked'[r] > 0
    <2>0. ranked \in [Request -> Nat]
      BY <1>1 DEF TypeOK
    <2>1. ASSUME NEW q \in Request, RankEffect(q)
          PROVE  ranked'[r] > 0
      <3>1. ranked' = [ranked EXCEPT ![q] = @ + 1]
        BY <2>1 DEF RankEffect
      <3> QED BY <1>5, <2>0, <3>1
    <2>2. CASE ~ \E q \in Request : RankEffect(q)
      BY <1>1, <1>5, <2>2, StepCases
         DEF DeliverEffect, BeginEffect, CheckEffect, ScanEffect, LockEffect,
             AbortEffect, AppendEffect, InstallEffect, CrashEffect, vars
    <2> QED BY <2>1, <2>2
  <1>6. ASSUME NEW i \in DOMAIN streams[SolutionMerge]
        PROVE  /\ i \in DOMAIN streams'[SolutionMerge]
               /\ streams'[SolutionMerge][i] = streams[SolutionMerge][i]
    <2>1. CASE \E r \in Request : AppendEffect(r)
      <3>1. PICK r \in Request : AppendEffect(r)
        BY <2>1
      <3>2. /\ streams[SolutionMerge] \in Seq(Records) /\ Record(r) \in Records
            /\ streams'[SolutionMerge] = Append(streams[SolutionMerge], Record(r))
        BY <1>1, <3>1, RecordTyped DEF AppendEffect, TypeOK, StreamName
      <3> QED BY <3>2
    <2>2. CASE ~ \E r \in Request : AppendEffect(r)
      BY <1>1, <2>2, StepCases
         DEF DeliverEffect, BeginEffect, CheckEffect, ScanEffect, LockEffect,
             AbortEffect, RankEffect, InstallEffect, CrashEffect, vars
    <2> QED BY <2>1, <2>2
  <1> QED BY <1>2, <1>3, <1>4, <1>5, <1>6

\* Payloads stay with their requests, and only the last step answers.
LEMMA DeliveredStep ==
    ASSUME IInv, [Next]_vars
    PROVE  Delivered'
  <1>1. TypeOK /\ Delivered /\ Dispatched
    BY DEF IInv
  <1>2. ASSUME NEW r \in Request, NEW e \in Events, DeliverEffect(r, e)
        PROVE  Delivered'
    BY <1>1, <1>2 DEF DeliverEffect, Moves, TypeOK, Delivered
  <1>3. ASSUME ~ \E r \in Request, e \in Events : DeliverEffect(r, e),
               NEW r \in Request
        PROVE  /\ pc'[r] # "idle" => ev'[r] \in Events
               /\ resp'[r] # 0 => pc'[r] = "done"
    BY <1>1, <1>3, StepCases
       DEF BeginEffect, CheckEffect, ScanEffect, LockEffect, AbortEffect, AppendEffect,
           RankEffect, InstallEffect, CrashEffect, Moves, vars, TypeOK, Delivered,
           Serving, Over, Holding
  <1> QED BY <1>2, <1>3 DEF Delivered

\* The labels behind Begin are reached with the right action only.
LEMMA DispatchedStep ==
    ASSUME IInv, [Next]_vars
    PROVE  Dispatched'
  <1>1. TypeOK /\ Delivered /\ Dispatched
    BY DEF IInv
  <1>2. ASSUME NEW r \in Request, BeginEffect(r)
        PROVE  Dispatched'
    <2>1. ev[r].action \in {"opened", "merged", "dropped", "other"}
      BY <1>1, <1>2, PayloadTyped DEF BeginEffect, Delivered
    <2>2. /\ pc'[r] = "insert" => ev[r].action = "opened"
          /\ pc'[r] = "check" => ev[r].action = "merged"
          /\ pc'[r] = "scan" => ev[r].action = "dropped"
          /\ pc'[r] = "ignore" => ev[r].action = "other"
          /\ pc'[r] \in {"insert", "check", "scan", "ignore"}
      BY <1>2, <2>1 DEF BeginEffect, Moves
    <2> QED BY <1>1, <1>2, <2>2 DEF BeginEffect, Moves, Dispatched
  <1>3. ASSUME ~ \E r \in Request : BeginEffect(r)
        PROVE  Dispatched'
    BY <1>1, <1>3, StepCases
       DEF DeliverEffect, CheckEffect, ScanEffect, LockEffect, AbortEffect, AppendEffect,
           RankEffect, InstallEffect, CrashEffect, Moves, vars, TypeOK, Dispatched
  <1> QED BY <1>2, <1>3

\* A connection comes with the transaction and goes with it; so do the locks.
LEMMA ResourcesMatchProgressStep ==
    ASSUME IInv, [Next]_vars
    PROVE  ResourcesMatchProgress'
  <1>1. TypeOK /\ Dispatched /\ ResourcesMatchProgress
    BY DEF IInv
  <1>2. ASSUME NEW r \in Request
        PROVE  r \in conn' <=> pc'[r] \in Holding
    BY <1>1, StepCases
       DEF DeliverEffect, BeginEffect, CheckEffect, ScanEffect, LockEffect, AbortEffect,
           AppendEffect, RankEffect, InstallEffect, EndTransaction, CrashEffect,
           Moves, vars, TypeOK, ResourcesMatchProgress, Holding, Label, Serving, Over
  <1>3. ASSUME NEW r \in Request, touched'[r] # {}
        PROVE  pc'[r] \in {"publish", "rank", "commit"}
    BY <1>1, <1>3, StepCases
       DEF DeliverEffect, BeginEffect, CheckEffect, ScanEffect, LockEffect, AbortEffect,
           AppendEffect, RankEffect, InstallEffect, EndTransaction, CrashEffect,
           Moves, vars, TypeOK, ResourcesMatchProgress
  <1>4. conn' \subseteq Request
    BY TypeStep DEF TypeOK
  <1> QED BY <1>2, <1>3, <1>4 DEF ResourcesMatchProgress

\* A step leaves what a transaction works on alone, ends the transaction, or
\* is its scan or its locking statement.
LEMMA WorkChanges ==
    ASSUME IInv, [Next]_vars, NEW r \in Request
    PROVE  \/ snap'[r] = snap[r] /\ touched'[r] = touched[r]
           \/ /\ snap'[r] = {} /\ touched'[r] = {}
              /\ pc'[r] \in {"idle", "done", "crashed"}
           \/ ScanEffect(r)
           \/ LockEffect(r)
  <1>1. /\ TypeOK /\ Dispatched
        /\ snap \in [Request -> SUBSET Request] /\ touched \in [Request -> SUBSET Request]
    BY DEF IInv, TypeOK
  <1>2. ASSUME NEW q \in Request, AbortEffect(q) \/ InstallEffect(q)
        PROVE  \/ snap'[r] = snap[r] /\ touched'[r] = touched[r]
               \/ snap'[r] = {} /\ touched'[r] = {} /\ pc'[r] = "done"
    <2>1. EndTransaction(q) /\ pc'[q] = "done"
      BY <1>2 DEF AbortEffect, InstallEffect, Moves
    <2> QED BY <1>1, <2>1 DEF EndTransaction
  <1>3. ASSUME NEW q \in Request, ScanEffect(q) \/ LockEffect(q)
        PROVE  \/ snap'[r] = snap[r] /\ touched'[r] = touched[r]
               \/ ScanEffect(r) \/ LockEffect(r)
    <2>1. CASE q = r
      BY <1>3, <2>1
    <2>2. CASE q # r
      BY <1>1, <1>3, <2>2 DEF ScanEffect, LockEffect
    <2> QED BY <2>1, <2>2
  <1>4. CASE CrashEffect
    BY <1>4 DEF CrashEffect, Serving, Over
  <1>5. ASSUME ~ CrashEffect,
               ~ \E q \in Request : \/ AbortEffect(q) \/ InstallEffect(q)
                                    \/ ScanEffect(q) \/ LockEffect(q)
        PROVE  snap'[r] = snap[r] /\ touched'[r] = touched[r]
    BY <1>1, <1>5, StepCases
       DEF DeliverEffect, BeginEffect, CheckEffect, AppendEffect, RankEffect, vars
  <1> QED BY <1>2, <1>3, <1>4, <1>5

\* The rows of a transaction stay rows of its own pull request: they are
\* chosen by its URL, and a row keeps the opening that inserted it.
LEMMA RowsAreGenuineStep ==
    ASSUME IInv, [Next]_vars
    PROVE  RowsAreGenuine'
  <1>1. TypeOK /\ Delivered /\ Dispatched /\ RowsAreGenuine /\ ResourcesMatchProgress
    BY DEF IInv
  <1>2. \A id \in Request : Genuine(id) => Genuine(id)' /\ ev'[id] = ev[id]
    <2>1. \A id \in Request : id \in booked => pc[id] # "idle"
      BY <1>1 DEF RowsAreGenuine, Over
    <2> QED BY <2>1, NothingTakenBack DEF Genuine
  <1>3. ASSUME NEW r \in Request, InstallEffect(r)
        PROVE  /\ ev' = ev /\ booked' = booked \cup {r} /\ pc'[r] = "done"
               /\ \/ rows' \subseteq rows
                  \/ ev[r].action = "opened" /\ rows' \subseteq rows \cup {r}
    <2>1. /\ ev' = ev /\ booked' = booked \cup {r} /\ pc'[r] = "done"
      BY <1>3 DEF InstallEffect, Moves
    <2>2. CASE ev[r].action = "opened"
      <3>1. touched[r] \subseteq {r}
        BY <1>1, <2>2 DEF RowsAreGenuine
      <3>2. rows' = rows \cup touched[r]
        BY <1>3, <2>2 DEF InstallEffect
      <3> QED BY <2>1, <2>2, <3>1, <3>2
    <2>3. CASE ev[r].action # "opened"
      <3>1. rows' = rows \/ rows' = rows \ touched[r]
        BY <1>3, <2>3 DEF InstallEffect
      <3> QED BY <2>1, <3>1
    <2> QED BY <2>2, <2>3
  <1>4. ASSUME ~ \E r \in Request : InstallEffect(r)
        PROVE  rows' = rows /\ booked' = booked
    BY <1>1, <1>4, StepCases
       DEF DeliverEffect, BeginEffect, CheckEffect, ScanEffect, LockEffect, AbortEffect,
           AppendEffect, RankEffect, CrashEffect, vars
  <1>5. ASSUME NEW id \in rows' PROVE Genuine(id)'
    <2>1. CASE id \in rows
      BY <1>1, <1>2, <2>1 DEF RowsAreGenuine, TypeOK
    <2>2. CASE id \notin rows
      <3>1. PICK r \in Request : InstallEffect(r)
        BY <1>4, <1>5, <2>2
      <3>2. id = r /\ ev'[r].action = "opened" /\ r \in booked'
        BY <1>3, <1>5, <2>2, <3>1
      <3> QED BY <3>2 DEF Genuine
    <2> QED BY <2>1, <2>2
  <1>6. ASSUME NEW r \in booked' PROVE Over(r)'
    <2>1. CASE r \in booked
      BY <1>1, <2>1, NothingTakenBack DEF RowsAreGenuine, TypeOK, Over
    <2>2. CASE r \notin booked
      <3>1. PICK q \in Request : InstallEffect(q)
        BY <1>4, <1>6, <2>2
      <3> QED BY <1>3, <1>6, <2>2, <3>1 DEF Over
    <2> QED BY <2>1, <2>2
  <1>7. ASSUME NEW r \in Request, snap'[r] # {}
        PROVE  pc'[r] \in {"apply", "publish", "rank", "commit"}
    BY <1>1, <1>7, StepCases
       DEF DeliverEffect, BeginEffect, CheckEffect, ScanEffect, LockEffect, AbortEffect,
           AppendEffect, RankEffect, InstallEffect, EndTransaction, CrashEffect,
           Moves, vars, TypeOK, RowsAreGenuine
  <1>8. ASSUME NEW r \in Request
        PROVE  snap'[r] \subseteq snap[r] \/ snap'[r] = RowsWithUrl(ev[r].url)
    <2>1. CASE ScanEffect(r)
      <3>1. snap \in [Request -> SUBSET Request]
        BY <1>1 DEF TypeOK
      <3>2. snap' = [snap EXCEPT ![r] = RowsWithUrl(ev[r].url)]
        BY <2>1 DEF ScanEffect
      <3> QED BY <3>1, <3>2
    <2>2. CASE LockEffect(r)
      BY <2>2 DEF LockEffect
    <2> QED BY <2>1, <2>2, WorkChanges
  <1>9. ASSUME NEW r \in Request, snap'[r] # {} \/ touched'[r] # {}
        PROVE  ev'[r] = ev[r]
    <2>1. pc'[r] # "idle" /\ pc'[r] # "begin"
      BY <1>7, <1>9, ResourcesMatchProgressStep DEF ResourcesMatchProgress
    <2>2. CASE \E q \in Request, e \in Events : DeliverEffect(q, e)
      BY <1>1, <2>1, <2>2 DEF DeliverEffect, Moves, TypeOK
    <2>3. CASE ~ \E q \in Request, e \in Events : DeliverEffect(q, e)
      BY <1>1, <2>3, StepCases
         DEF BeginEffect, CheckEffect, ScanEffect, LockEffect, AbortEffect, AppendEffect,
             RankEffect, InstallEffect, CrashEffect, vars
    <2> QED BY <2>2, <2>3
  <1>10. ASSUME NEW r \in Request, NEW id \in snap'[r]
         PROVE  Genuine(id)' /\ ev'[id].url = ev'[r].url
    <2>1. id \in Request
      BY TypeStep DEF TypeOK
    <2>2. Genuine(id) /\ ev[id].url = ev[r].url
      BY <1>1, <1>7, <1>8, <1>10 DEF RowsAreGenuine, RowsWithUrl
    <2> QED BY <1>2, <1>9, <1>10, <2>1, <2>2
  <1>11. ASSUME NEW r \in Request, NEW id \in touched'[r]
         PROVE  IF ev'[r].action = "opened" THEN id = r ELSE id \in snap'[r]
    <2>1. ev'[r] = ev[r]
      BY <1>9, <1>11
    <2>2. CASE touched'[r] = touched[r] /\ snap'[r] = snap[r]
      BY <1>1, <1>11, <2>1, <2>2 DEF RowsAreGenuine
    <2>3. CASE LockEffect(r)
      BY <1>1, <1>11, <2>1, <2>3 DEF LockEffect, Dispatched, TypeOK
    <2>4. CASE ScanEffect(r)
      BY <1>1, <1>11, <2>4 DEF ScanEffect, ResourcesMatchProgress
    <2> QED BY <1>11, <2>2, <2>3, <2>4, WorkChanges
  <1> QED BY <1>5, <1>6, <1>7, <1>10, <1>11 DEF RowsAreGenuine

\* A record says what its request was delivered with, and nothing else is
\* ever appended.
LEMMA RecordsAreGenuineStep ==
    ASSUME IInv, [Next]_vars
    PROVE  RecordsAreGenuine'
  <1>1. TypeOK /\ Dispatched /\ RecordsAreGenuine
    BY DEF IInv
  <1>2. /\ SolutionMerge \in StreamName
        /\ streams[SolutionMerge] \in Seq(Records) /\ streams'[SolutionMerge] \in Seq(Records)
    BY <1>1, TypeStep DEF TypeOK, StreamName
  <1>3. ASSUME NEW r \in Request, pc[r] # "idle"
        PROVE  pc'[r] # "idle" /\ Record(r)' = Record(r)
    BY <1>3, NothingTakenBack DEF Record
  <1>4. ASSUME NEW i \in DOMAIN streams'[SolutionMerge], i \in DOMAIN streams[SolutionMerge]
        PROVE  \E r \in Request : pc'[r] # "idle" /\ streams'[SolutionMerge][i] = Record(r)'
    <2>1. streams'[SolutionMerge][i] = streams[SolutionMerge][i]
      BY <1>4, NothingTakenBack
    <2> QED BY <1>1, <1>3, <1>4, <2>1 DEF RecordsAreGenuine
  <1>5. ASSUME NEW i \in DOMAIN streams'[SolutionMerge], i \notin DOMAIN streams[SolutionMerge]
        PROVE  \E r \in Request : pc'[r] # "idle" /\ streams'[SolutionMerge][i] = Record(r)'
    <2>1. PICK r \in Request : AppendEffect(r)
      BY <1>1, <1>5, StepCases
         DEF DeliverEffect, BeginEffect, CheckEffect, ScanEffect, LockEffect, AbortEffect,
             RankEffect, InstallEffect, CrashEffect, vars
    <2>2. /\ pc[r] # "idle" /\ Record(r) \in Records
          /\ streams'[SolutionMerge] = Append(streams[SolutionMerge], Record(r))
      BY <1>1, <1>2, <2>1, RecordTyped DEF AppendEffect, TypeOK
    <2>3. streams'[SolutionMerge][i] = Record(r)
      BY <1>2, <1>5, <2>2
    <2> QED BY <1>3, <2>2, <2>3
  <1> QED BY <1>4, <1>5 DEF RecordsAreGenuine

\* A record once on the stream is there after the step; and an XADD puts one.
LEMMA PublishedStays ==
    ASSUME IInv, [Next]_vars, NEW r \in Request, Published(r) \/ AppendEffect(r)
    PROVE  Published(r)'
  <1>1. CASE Published(r)
    BY <1>1, NothingTakenBack DEF Published, RecordsOf
  <1>2. CASE AppendEffect(r)
    <2>1. /\ streams[SolutionMerge] \in Seq(Records) /\ Record(r) \in Records
          /\ streams'[SolutionMerge] = Append(streams[SolutionMerge], Record(r))
      BY <1>2, RecordTyped DEF IInv, AppendEffect, TypeOK, StreamName
    <2>2. /\ Len(streams[SolutionMerge]) + 1 \in DOMAIN streams'[SolutionMerge]
          /\ streams'[SolutionMerge][Len(streams[SolutionMerge]) + 1].req = r
      BY <2>1 DEF Record
    <2> QED BY <2>2 DEF Published, RecordsOf
  <1> QED BY <1>1, <1>2

\* The order of the handler: the record, then the points, then the commit.
LEMMA AnnouncedInOrderStep ==
    ASSUME IInv, [Next]_vars
    PROVE  AnnouncedInOrder'
  <1>1. TypeOK /\ Dispatched /\ AnnouncedInOrder
    BY DEF IInv
  <1>2. ASSUME NEW r \in Request, ~ AppendEffect(r), ~ RankEffect(r),
               pc'[r] \in {"rank", "commit"}
        PROVE  \/ pc'[r] = pc[r] /\ ev'[r] = ev[r] /\ ranked'[r] = ranked[r]
               \/ pc'[r] = "commit" /\ ev'[r].action = "dropped"
    <2>1. CASE LockEffect(r)
      BY <1>1, <1>2, <2>1 DEF LockEffect, Moves, Dispatched
    <2>2. CASE ~ LockEffect(r)
      BY <1>1, <1>2, <2>2, StepCases
         DEF DeliverEffect, BeginEffect, CheckEffect, ScanEffect, LockEffect, AbortEffect,
             AppendEffect, RankEffect, InstallEffect, CrashEffect, Moves, vars, TypeOK
    <2> QED BY <2>1, <2>2
  <1>3. ASSUME NEW r \in Request, AppendEffect(r)
        PROVE  /\ Published(r)' /\ ev'[r] = ev[r]
               /\ pc'[r] = "commit" => ev[r].action # "merged"
    BY <1>3, PublishedStays DEF AppendEffect, Moves
  <1>4. ASSUME NEW r \in Request, RankEffect(r)
        PROVE  Published(r)' /\ ranked'[r] > 0
    BY <1>1, <1>4, PublishedStays DEF RankEffect, AnnouncedInOrder, TypeOK
  <1>5. ASSUME NEW r \in Request, ranked'[r] > 0
        PROVE  pc'[r] # "idle" /\ ev'[r].action = "merged"
    <2>1. CASE RankEffect(r)
      BY <1>1, <2>1 DEF RankEffect, Moves, Dispatched
    <2>2. CASE ~ RankEffect(r)
      <3>1. ranked'[r] = ranked[r]
        BY <1>1, <2>2, StepCases
           DEF DeliverEffect, BeginEffect, CheckEffect, ScanEffect, LockEffect, AbortEffect,
               AppendEffect, RankEffect, InstallEffect, CrashEffect, Moves, vars, TypeOK
      <3>2. pc[r] # "idle" /\ ev[r].action = "merged"
        BY <1>1, <1>5, <3>1 DEF AnnouncedInOrder
      <3>3. pc'[r] # "idle" /\ ev'[r] = ev[r]
        BY <1>1, <3>2, NothingTakenBack
      <3> QED BY <3>2, <3>3
    <2> QED BY <2>1, <2>2
  <1>6. ASSUME NEW r \in Request
        PROVE  /\ pc'[r] = "rank" => Published(r)'
               /\ pc'[r] = "commit" /\ ev'[r].action \in {"opened", "merged"} => Published(r)'
               /\ pc'[r] = "commit" /\ ev'[r].action = "merged" => ranked'[r] > 0
    <2>1. CASE AppendEffect(r)
      BY <1>3, <2>1
    <2>2. CASE RankEffect(r)
      BY <1>4, <2>2
    <2>3. CASE ~ AppendEffect(r) /\ ~ RankEffect(r)
      BY <1>1, <1>2, <2>3, PublishedStays DEF AnnouncedInOrder
    <2> QED BY <2>1, <2>2, <2>3
  <1> QED BY <1>5, <1>6 DEF AnnouncedInOrder

\* The commit comes behind the record and the points.
LEMMA CommittedIsAnnouncedStep ==
    ASSUME IInv, [Next]_vars
    PROVE  CommittedIsAnnounced'
  <1>1. /\ TypeOK /\ Dispatched /\ AnnouncedInOrder /\ RowsAreGenuine
        /\ CommittedIsAnnounced
    BY DEF IInv
  <1>2. ASSUME NEW r \in booked'
        PROVE  /\ ev'[r].action \in {"opened", "merged"} => Published(r)'
               /\ ev'[r].action = "merged" => ranked'[r] > 0
    <2>1. CASE r \in booked
      <3>1. r \in Request /\ ev'[r] = ev[r]
        BY <1>1, <2>1, NothingTakenBack DEF RowsAreGenuine, Over, TypeOK
      <3> QED BY <1>1, <2>1, <3>1, NothingTakenBack, PublishedStays DEF CommittedIsAnnounced
    <2>2. CASE r \notin booked
      <3>1. PICK q \in Request : InstallEffect(q)
        BY <1>1, <1>2, <2>2, StepCases
           DEF DeliverEffect, BeginEffect, CheckEffect, ScanEffect, LockEffect,
               AbortEffect, AppendEffect, RankEffect, CrashEffect, vars
      <3>2. q = r /\ pc[r] = "commit" /\ ev'[r] = ev[r]
        BY <1>2, <2>2, <3>1 DEF InstallEffect
      <3> QED BY <1>1, <3>2, NothingTakenBack, PublishedStays DEF AnnouncedInOrder
    <2> QED BY <2>1, <2>2
  <1>3. ASSUME NEW r \in Request, ranked'[r] > 0
        PROVE  Published(r)'
    <2>1. CASE RankEffect(r)
      BY <1>1, <2>1, PublishedStays DEF RankEffect, AnnouncedInOrder
    <2>2. CASE ~ RankEffect(r)
      <3>1. ASSUME NEW q \in Request, RankEffect(q)
            PROVE  ranked'[r] = ranked[r]
        <4>0. q # r
          BY <2>2, <3>1
        <4>1. ranked' = [ranked EXCEPT ![q] = @ + 1]
          BY <3>1 DEF RankEffect
        <4>2. ranked \in [Request -> Nat]
          BY <1>1 DEF TypeOK
        <4> QED BY <4>0, <4>1, <4>2
      <3>2. ASSUME ~ \E q \in Request : RankEffect(q)
            PROVE  ranked'[r] = ranked[r]
        BY <1>1, <3>2, StepCases
           DEF DeliverEffect, BeginEffect, CheckEffect, ScanEffect, LockEffect,
               AbortEffect, AppendEffect, InstallEffect, CrashEffect, vars
      <3>3. ranked[r] > 0
        BY <1>3, <3>1, <3>2
      <3> QED BY <1>1, <3>3, PublishedStays DEF CommittedIsAnnounced
    <2> QED BY <2>1, <2>2
  <1> QED BY <1>2, <1>3 DEF CommittedIsAnnounced

\* Only a commit and an ignored event are answered with 200.
LEMMA OkMeansCommittedStep ==
    ASSUME IInv, [Next]_vars
    PROVE  OkMeansCommitted'
  <1>1. TypeOK /\ Delivered /\ Dispatched /\ OkMeansCommitted
    BY DEF IInv
  <1>2. ASSUME NEW r \in Request, resp'[r] = 200, ev'[r].action # "other"
        PROVE  r \in booked'
    <2>1. CASE resp[r] = 200
      <3>1. pc[r] # "idle"
        BY <1>1, <2>1 DEF Delivered
      <3> QED BY <1>1, <1>2, <2>1, <3>1, NothingTakenBack DEF OkMeansCommitted
    <2>2. CASE resp[r] # 200
      <3>1. CASE AbortEffect(r)
        BY <1>1, <1>2, <3>1 DEF AbortEffect, Dispatched
      <3>2. CASE InstallEffect(r)
        BY <3>2 DEF InstallEffect
      <3>3. CASE ~ AbortEffect(r) /\ ~ InstallEffect(r)
        BY <1>1, <1>2, <2>2, <3>3, StepCases
           DEF DeliverEffect, BeginEffect, CheckEffect, ScanEffect, LockEffect,
               AbortEffect, AppendEffect, RankEffect, InstallEffect, CrashEffect, Moves, vars
      <3> QED BY <3>1, <3>2, <3>3
    <2> QED BY <2>1, <2>2
  <1> QED BY <1>2 DEF OkMeansCommitted

\* A statement locks no row that another transaction holds, and a row that is
\* locked is neither deleted nor flagged by anybody else.
LEMMA NoFlagWithoutRowStep ==
    ASSUME IInv, [Next]_vars
    PROVE  NoFlagWithoutRow'
  <1>1. /\ TypeOK /\ Dispatched /\ RowsAreGenuine /\ ResourcesMatchProgress
        /\ NoFlagWithoutRow
        /\ touched \in [Request -> SUBSET Request]
    BY DEF IInv, TypeOK
  <1>2. ASSUME NEW r \in Request, InstallEffect(r)
        PROVE  merged' \subseteq rows'
    BY <1>1, <1>2 DEF InstallEffect, NoFlagWithoutRow
  <1>3. ASSUME ~ \E r \in Request : InstallEffect(r)
        PROVE  rows' = rows /\ merged' = merged
    BY <1>1, <1>3, StepCases
       DEF DeliverEffect, BeginEffect, CheckEffect, ScanEffect, LockEffect, AbortEffect,
           AppendEffect, RankEffect, CrashEffect, vars
  <1>4. ASSUME NEW r \in Request, LockEffect(r)
        PROVE  /\ touched'[r] # {} /\ ev' = ev /\ rows' = rows
               /\ ev[r].action # "opened" => touched'[r] \subseteq rows
               /\ \A q \in Request \ {r} : touched'[q] = touched[q] /\ touched[q] \cap touched'[r] = {}
    <2>1. CASE pc[r] = "insert"
      <3>1. touched' = [touched EXCEPT ![r] = {r}] /\ ev' = ev /\ rows' = rows
        BY <1>4, <2>1 DEF LockEffect
      <3>2. ev[r].action = "opened" /\ r \notin booked
        BY <1>1, <2>1 DEF Dispatched, RowsAreGenuine, Over
      <3>3. ASSUME NEW q \in Request, q # r
            PROVE  r \notin touched[q]
        BY <1>1, <3>2, <3>3 DEF RowsAreGenuine, Genuine
      <3> QED BY <1>1, <3>1, <3>2, <3>3
    <2>2. CASE pc[r] # "insert"
      <3>1. /\ touched' = [touched EXCEPT ![r] = snap[r] \cap rows]
            /\ snap[r] \cap LockedByOthers(r) = {} /\ snap[r] \cap rows # {}
            /\ ev' = ev /\ rows' = rows
        BY <1>4, <2>2 DEF LockEffect
      <3> QED BY <1>1, <3>1 DEF LockedByOthers
    <2> QED BY <2>1, <2>2
  <1>5. ASSUME NEW r \in Request, ~ LockEffect(r)
        PROVE  touched'[r] \subseteq touched[r]
    BY <1>5, WorkChanges DEF ScanEffect
  <1>6. ASSUME NEW r1 \in Request, NEW r2 \in Request, r1 # r2
        PROVE  touched'[r1] \cap touched'[r2] = {}
    <2>1. touched[r1] \cap touched[r2] = {}
      BY <1>1, <1>6 DEF NoFlagWithoutRow
    <2>2. CASE LockEffect(r1)
      BY <1>4, <1>6, <2>2
    <2>3. CASE LockEffect(r2)
      BY <1>4, <1>6, <2>3
    <2> QED BY <1>5, <2>1, <2>2, <2>3
  <1>7. ASSUME NEW r \in Request, pc'[r] \in {"publish", "rank", "commit"}
        PROVE  /\ touched'[r] # {}
               /\ ev'[r].action # "opened" => touched'[r] \subseteq rows'
    <2>1. CASE LockEffect(r)
      BY <1>4, <2>1
    <2>2. CASE ~ LockEffect(r)
      <3>1. pc[r] \in {"publish", "rank", "commit"} /\ touched'[r] = touched[r] /\ ev'[r] = ev[r]
        <4>1. pc[r] \in {"publish", "rank", "commit"} /\ ev'[r] = ev[r]
          BY <1>1, <1>7, <2>2, StepCases
             DEF DeliverEffect, BeginEffect, CheckEffect, ScanEffect, LockEffect,
                 AbortEffect, AppendEffect, RankEffect, InstallEffect, CrashEffect, Moves,
                 vars, TypeOK
        <4>2. touched'[r] = touched[r]
          BY <1>7, <2>2, WorkChanges DEF ScanEffect
        <4> QED BY <4>1, <4>2
      <3>2. touched[r] # {} /\ (ev[r].action # "opened" => touched[r] \subseteq rows)
        BY <1>1, <3>1 DEF NoFlagWithoutRow
      <3>3. ASSUME NEW q \in Request, InstallEffect(q)
            PROVE  touched[r] \cap rows \subseteq rows'
        <4>1. q # r
          BY <1>7, <3>3 DEF InstallEffect, Moves
        <4>2. touched[q] \cap touched[r] = {}
          BY <1>1, <4>1 DEF NoFlagWithoutRow
        <4>3. rows \ touched[q] \subseteq rows'
          BY <3>3 DEF InstallEffect
        <4> QED BY <4>2, <4>3
      <3>4. touched[r] \cap rows \subseteq rows'
        BY <1>3, <3>3
      <3> QED BY <3>1, <3>2, <3>4
    <2> QED BY <2>1, <2>2
  <1> QED BY <1>1, <1>2, <1>3, <1>6, <1>7 DEF NoFlagWithoutRow

\* A merge is announced only by a request that holds a row of its pull request:
\* the row was committed, so the record of its opening is on the stream.
LEMMA MergeFollowsOpeningStep ==
    ASSUME IInv, [Next]_vars
    PROVE  MergeFollowsOpening'
  <1> DEFINE s == streams[SolutionMerge]
             Preceded(i) == \E j \in 1 .. i - 1 : ~ s[j].merged /\ s[j].url = s[i].url
  <1>1. /\ TypeOK /\ Dispatched /\ RowsAreGenuine /\ RecordsAreGenuine /\ NoFlagWithoutRow
        /\ CommittedIsAnnounced /\ MergeFollowsOpening
    BY DEF IInv
  <1>2. s \in Seq(Records) /\ s' \in Seq(Records)
    BY <1>1, TypeStep DEF TypeOK, StreamName
  <1>3. \A i \in DOMAIN s : i \in DOMAIN s' /\ s'[i] = s[i]
    BY NothingTakenBack
  <1>4. ASSUME NEW r \in Request, AppendEffect(r), Record(r).merged
        PROVE  \E j \in DOMAIN s : ~ s[j].merged /\ s[j].url = Record(r).url
    <2>1. pc[r] = "publish" /\ ev[r].action = "merged"
      BY <1>4 DEF AppendEffect, Record
    <2>2. PICK id \in touched[r] : TRUE
      BY <1>1, <2>1 DEF NoFlagWithoutRow
    <2>3. Genuine(id) /\ ev[id].url = ev[r].url /\ id \in Request
      BY <1>1, <2>1, <2>2 DEF RowsAreGenuine, TypeOK
    <2>4. Published(id)
      BY <1>1, <2>3 DEF CommittedIsAnnounced, Genuine
    <2>5. PICK j \in DOMAIN s : s[j].req = id
      BY <2>4 DEF Published, RecordsOf
    <2>6. s[j] = Record(id)
      <3>1. PICK q \in Request : s[j] = Record(q)
        BY <1>1, <2>5 DEF RecordsAreGenuine
      <3> QED BY <2>5, <3>1 DEF Record
    <2>7. /\ Record(id).url = ev[id].url /\ Record(r).url = ev[r].url
          /\ Record(id).merged = (ev[id].action = "merged")
      BY DEF Record
    <2>8. ~ s[j].merged /\ s[j].url = Record(r).url
      BY <2>3, <2>6, <2>7 DEF Genuine
    <2> QED BY <2>8
  <1>5. ASSUME NEW i \in DOMAIN s', s'[i].merged
        PROVE  Preceded(i)'
    <2>1. CASE i \in DOMAIN s
      <3>1. PICK j \in 1 .. i - 1 : ~ s[j].merged /\ s[j].url = s[i].url
        BY <1>1, <1>3, <1>5, <2>1 DEF MergeFollowsOpening
      <3>2. j \in DOMAIN s
        BY <1>2, <2>1
      <3> QED BY <1>3, <2>1, <3>1, <3>2
    <2>2. CASE i \notin DOMAIN s
      <3>1. PICK r \in Request : AppendEffect(r)
        BY <1>1, <1>5, <2>2, StepCases
           DEF DeliverEffect, BeginEffect, CheckEffect, ScanEffect, LockEffect,
               AbortEffect, RankEffect, InstallEffect, CrashEffect, vars
      <3>2. s' = Append(s, Record(r)) /\ Record(r) \in Records
        BY <1>1, <3>1, RecordTyped DEF AppendEffect, TypeOK, StreamName
      <3>3. i = Len(s) + 1 /\ s'[i] = Record(r)
        BY <1>2, <1>5, <2>2, <3>2
      <3>4. PICK j \in DOMAIN s : ~ s[j].merged /\ s[j].url = Record(r).url
        BY <1>4, <1>5, <3>1, <3>3
      <3>5. j \in 1 .. i - 1
        BY <1>2, <3>3
      <3> QED BY <1>3, <3>3, <3>4, <3>5
    <2> QED BY <2>1, <2>2
  <1> QED BY <1>5 DEF MergeFollowsOpening
-----------------------------------------------------------------------------
(* The theorems.                                                           *)

\* The empty server satisfies the invariant ...
LEMMA InitEstablishes == Init => IInv
  <1> SUFFICES ASSUME Init PROVE IInv
    OBVIOUS
  <1>1. TypeOK
    BY DEF Init, TypeOK, Label
  <1>2. Delivered /\ Dispatched /\ RowsAreGenuine /\ AnnouncedInOrder
    BY DEF Init, Delivered, Dispatched, RowsAreGenuine, AnnouncedInOrder
  <1>3. RecordsAreGenuine /\ MergeFollowsOpening
    BY DEF Init, RecordsAreGenuine, MergeFollowsOpening, StreamName
  <1>4. ResourcesMatchProgress /\ NoFlagWithoutRow
    BY DEF Init, ResourcesMatchProgress, NoFlagWithoutRow, Holding
  <1>5. CommittedIsAnnounced /\ OkMeansCommitted
    BY DEF Init, CommittedIsAnnounced, OkMeansCommitted
  <1> QED BY <1>1, <1>2, <1>3, <1>4, <1>5 DEF IInv

\* ... and every step preserves it ...
LEMMA StepPreserves == IInv /\ [Next]_vars => IInv'
  BY TypeStep, DeliveredStep, DispatchedStep, RowsAreGenuineStep, RecordsAreGenuineStep,
     AnnouncedInOrderStep, ResourcesMatchProgressStep, NoFlagWithoutRowStep,
     CommittedIsAnnouncedStep, MergeFollowsOpeningStep, OkMeansCommittedStep DEF IInv

\* ... so it always holds.
LEMMA Invariance == Spec => []IInv
  BY InitEstablishes, StepPreserves, PTL DEF Spec

\* Every variable keeps its type.
THEOREM TypeCorrect == Spec => []TypeOK
  <1>1. IInv => TypeOK
    BY DEF IInv
  <1> QED BY <1>1, Invariance, PTL

\* No row or flag is committed whose record is not on the stream, and no points
\* are given before it, whatever fails or crashes.
THEOREM CommitComesLast == Spec => []CommittedIsAnnounced
  <1>1. IInv => CommittedIsAnnounced
    BY DEF IInv
  <1> QED BY <1>1, Invariance, PTL

\* A delivery that was answered 200 is committed, unless it asked for nothing.
THEOREM OkIsCommitted == Spec => []OkMeansCommitted
  <1>1. IInv => OkMeansCommitted
    BY DEF IInv
  <1> QED BY <1>1, Invariance, PTL

\* On the stream, no pull request is merged before it is opened.
THEOREM OpeningComesFirst == Spec => []MergeFollowsOpening
  <1>1. IInv => MergeFollowsOpening
    BY DEF IInv
  <1> QED BY <1>1, Invariance, PTL

\* Of a merge and a closing that race, the second works on what the first left.
THEOREM RacesAreSerial == Spec => []NoFlagWithoutRow
  <1>1. IInv => NoFlagWithoutRow
    BY DEF IInv
  <1> QED BY <1>1, Invariance, PTL

\* Connections and row locks are held exactly where the handler needs them.
THEOREM NothingLeaks == Spec => []ResourcesMatchProgress
  <1>1. IInv => ResourcesMatchProgress
    BY DEF IInv
  <1> QED BY <1>1, Invariance, PTL

\* A row is flagged only by a merge of its pull request and deleted only by a
\* closing of it, each in the step in which that request commits.
THEOREM RowsMoveByCommits == Spec => RowsMove
  <1> DEFINE Moved ==
        /\ \A id \in merged' \ merged : \E r \in booked' \ booked :
              ev[r].action = "merged" /\ ev[r].url = ev[id].url
        /\ merged \cap rows' \subseteq merged'
        /\ \A id \in rows \ rows' : \E r \in booked' \ booked :
              ev[r].action = "dropped" /\ ev[r].url = ev[id].url
  <1>1. ASSUME IInv, [Next]_vars PROVE Moved
    <2>1. TypeOK /\ Dispatched /\ RowsAreGenuine /\ NoFlagWithoutRow
      BY <1>1 DEF IInv
    <2>2. ASSUME NEW r \in Request, InstallEffect(r)
          PROVE  Moved
      <3>1. r \in booked' \ booked
        BY <2>1, <2>2 DEF InstallEffect, RowsAreGenuine, Over
      <3>2. \A id \in touched[r] : ev[r].action # "opened" => ev[id].url = ev[r].url
        BY <2>1 DEF RowsAreGenuine
      <3>3. CASE ev[r].action = "opened"
        BY <2>1, <2>2, <3>3 DEF InstallEffect, NoFlagWithoutRow
      <3>4. CASE ev[r].action = "merged"
        BY <2>1, <2>2, <3>1, <3>2, <3>4 DEF InstallEffect, NoFlagWithoutRow
      <3>5. CASE ev[r].action = "dropped"
        BY <2>1, <2>2, <3>1, <3>2, <3>5 DEF InstallEffect, NoFlagWithoutRow
      <3> QED BY <2>2, <3>3, <3>4, <3>5 DEF InstallEffect
    <2>3. ASSUME ~ \E r \in Request : InstallEffect(r)
          PROVE  rows' = rows /\ merged' = merged
      BY <1>1, <2>1, <2>3, StepCases
         DEF DeliverEffect, BeginEffect, CheckEffect, ScanEffect, LockEffect, AbortEffect,
             AppendEffect, RankEffect, CrashEffect, vars
    <2> QED BY <2>2, <2>3
  <1>2. IInv /\ [Next]_vars => [Moved]_vars
    BY <1>1
  <1> QED BY <1>2, Invariance, PTL DEF Spec, RowsMove
=============================================================================
