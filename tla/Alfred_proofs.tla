---------------------------- MODULE Alfred_proofs ----------------------------
(***************************************************************************)
(* Proofs about Alfred.  The handlers share the requests, the pool, the    *)
(* leaderboard and the streams, and yet each of them runs as if it were    *)
(* alone: what it sees of the shared state, its view, is an execution of   *)
(* its own specification.  So every theorem about a handler holds of it in *)
(* the whole server as well.                                               *)
(***************************************************************************)
EXTENDS Alfred, Totals_proofs

-----------------------------------------------------------------------------
(* The views.                                                              *)

\* The requests that carry one kind of payload, as their handler sees them; the
\* other ones have not been delivered to it.
PcOf(kind)   == [r \in Request |-> IF ev[r] \in kind THEN pc[r] ELSE "idle"]
EvOf(kind)   == [r \in Request |-> IF ev[r] \in kind THEN ev[r] ELSE NoPayload]
RespOf(kind) == [r \in Request |-> IF ev[r] \in kind THEN resp[r] ELSE 0]
ConnOf(kind) == {r \in conn : ev[r] \in kind}

\* The streams a handler writes to.
StreamsOf(keys) == [key \in StreamName |-> IF key \in keys THEN streams[key] ELSE << >>]
OfPulls == {SolutionMerge}

\* The leaderboard is the sum of what merges and comments moved it by.
Merges(u) ==
    [r \in {q \in Request : ev[q] \in PullEvents /\ ev[q].by = u} |-> pullRanked[r]]
ScoreOfPulls    == [u \in User |-> Total(Merges(u))]
ScoreOfComments == [u \in User |-> score[u] - Total(Merges(u))]

CommentView == INSTANCE IssueComment_proofs WITH
    pc <- PcOf(Comments), ev <- EvOf(Comments), resp <- RespOf(Comments),
    conn <- ConnOf(Comments), score <- ScoreOfComments,
    streams <- StreamsOf(StreamName \ OfPulls),
    Registered <- Maintainers, NoComment <- NoPayload
PullView == INSTANCE PullRequest_proofs WITH
    pc <- PcOf(PullEvents), ev <- EvOf(PullEvents), resp <- RespOf(PullEvents),
    conn <- ConnOf(PullEvents), score <- ScoreOfPulls, streams <- StreamsOf(OfPulls),
    Registered <- Repository, Url <- PullUrl, Events <- PullEvents,
    NoEvent <- NoPayload, snap <- pullSnap, touched <- pullTouched,
    booked <- pullBooked, ranked <- pullRanked
IssueView == INSTANCE Issues_proofs WITH
    pc <- PcOf(IssueEvents), ev <- EvOf(IssueEvents), resp <- RespOf(IssueEvents),
    conn <- ConnOf(IssueEvents), Registered <- Repository, Url <- IssueUrl,
    Event <- IssueEvents, NoEvent <- NoPayload

-----------------------------------------------------------------------------
(* The assumptions of the views are those of the handlers.                 *)

LEMMA IssueViewAssumptions ==
    IssueView!ServerAssumption /\ IssueView!HalfRangeAssumption /\ IssueView!IssuesAssumption
  <1>1. IssueView!ServerAssumption
    BY ServerAssumption DEF IssueView!ServerAssumption, ServerAssumption
  <1>2. IssueView!HalfRangeAssumption
    BY HandlersAssumption DEF OnComment!HalfRangeAssumption, IssueView!HalfRangeAssumption
  <1>3. IssueView!IssuesAssumption
    BY HandlersAssumption
       DEF OnIssue!IssuesAssumption, IssueView!IssuesAssumption,
           OnIssue!Actions, IssueView!Actions, OnIssue!UserActions, IssueView!UserActions,
           OnIssue!RowActions, IssueView!RowActions,
           OnIssue!Row, IssueView!Row, OnIssue!INT, IssueView!INT,
           OnIssue!ArgsOf, IssueView!ArgsOf, OnIssue!NewIssue, IssueView!NewIssue
  <1> QED BY <1>1, <1>2, <1>3

\* Likewise for the other two.
LEMMA PullViewAssumptions == PullView!ServerAssumption /\ PullView!PullRequestAssumption
  <1>1. PullView!ServerAssumption
    BY ServerAssumption DEF PullView!ServerAssumption, ServerAssumption
  <1>2. PullView!PullRequestAssumption
    BY HandlersAssumption DEF OnPull!PullRequestAssumption, PullView!PullRequestAssumption
  <1> QED BY <1>1, <1>2

LEMMA CommentViewAssumptions ==
    /\ CommentView!ServerAssumption /\ CommentView!HalfRangeAssumption
    /\ CommentView!CommentAssumption
  <1>1. CommentView!ServerAssumption
    BY ServerAssumption DEF CommentView!ServerAssumption, ServerAssumption
  <1>2. CommentView!HalfRangeAssumption
    BY HandlersAssumption DEF OnComment!HalfRangeAssumption, CommentView!HalfRangeAssumption
  <1>3. CommentView!CommentAssumption
    BY HandlersAssumption
       DEF OnComment!CommentAssumption, CommentView!CommentAssumption,
           OnComment!Comment, CommentView!Comment,
           OnComment!Command, CommentView!Command,
           OnComment!BountyCommands, CommentView!BountyCommands,
           OnComment!BadgeCommands, CommentView!BadgeCommands,
           OnComment!ClaimCommands, CommentView!ClaimCommands
  <1> QED BY <1>1, <1>2, <1>3

\* No delivery is of two kinds, and the missing payload is of none.
LEMMA OneKind ==
    /\ Comments \cap PullEvents = {} /\ Comments \cap IssueEvents = {}
    /\ Comments \cap Pings = {} /\ PullEvents \cap IssueEvents = {}
    /\ PullEvents \cap Pings = {} /\ IssueEvents \cap Pings = {}
    /\ NoPayload \notin Comments \cup PullEvents \cup IssueEvents \cup Pings
    /\ Unsupported \notin Comments \cup PullEvents \cup IssueEvents \cup Pings
  BY AlfredAssumption, HandlersAssumption
     DEF OnComment!CommentAssumption, OnPull!PullRequestAssumption,
         OnIssue!IssuesAssumption

\* Every module counts in the same way.
LEMMA SameCounting ==
    \A S : /\ OnComment!Cardinality(S) = Cardinality(S)
           /\ OnPull!Cardinality(S) = Cardinality(S)
           /\ OnIssue!Cardinality(S) = Cardinality(S)
           /\ CommentView!Cardinality(S) = Cardinality(S)
           /\ PullView!Cardinality(S) = Cardinality(S)
           /\ IssueView!Cardinality(S) = Cardinality(S)
  BY DEF Cardinality, OnComment!Cardinality, OnPull!Cardinality,
         OnIssue!Cardinality, CommentView!Cardinality, PullView!Cardinality,
         IssueView!Cardinality
-----------------------------------------------------------------------------
(* What the handlers share.                                                *)

\* A request that has not arrived has nothing; only comments are looked up; the
\* pool has lent finitely many connections.
Shared ==
    /\ DOMAIN pc = Request /\ DOMAIN ev = Request /\ DOMAIN resp = Request
    /\ conn \subseteq Request /\ IsFiniteSet(conn)
    /\ DOMAIN streams = StreamName /\ score \in [User -> Int]
    /\ \A r \in Request :
          /\ pc[r] = "idle" => ev[r] = NoPayload /\ resp[r] = 0 /\ r \notin conn
          /\ pc[r] \in {"lookup", "query"} => ev[r] \in Comments

\* A step of a handler moves its own request only.
Moves(r) ==
    /\ ev' = ev /\ pc[r] # "idle"
    /\ DOMAIN pc' = Request /\ DOMAIN resp' = Request
    /\ pc'[r] # "idle" /\ (pc'[r] \in {"lookup", "query"} => ev[r] \in Comments)
    /\ \A q \in Request : q # r => pc'[q] = pc[q] /\ resp'[q] = resp[q]
    /\ conn' = conn \/ conn' = conn \cup {r} \/ conn' = conn \ {r}

\* A handler does not see the requests of the others move ...
LEMMA Unseen ==
    ASSUME Shared, NEW kind, NEW r \in Request, Moves(r), ev[r] \notin kind
    PROVE  UNCHANGED <<PcOf(kind), EvOf(kind), RespOf(kind), ConnOf(kind)>>
  <1>1. PcOf(kind)' = PcOf(kind)
    BY DEF Shared, Moves, PcOf
  <1>2. EvOf(kind)' = EvOf(kind)
    BY DEF Shared, Moves, EvOf
  <1>3. RespOf(kind)' = RespOf(kind)
    BY DEF Shared, Moves, RespOf
  <1>4. ConnOf(kind)' = ConnOf(kind)
    BY DEF Shared, Moves, ConnOf
  <1> QED BY <1>1, <1>2, <1>3, <1>4

\* ... and its own ones as they are.
LEMMA Seen ==
    ASSUME Shared, NEW kind, NEW r \in Request, ev[r] \in kind, ev' = ev
    PROVE  /\ PcOf(kind)[r] = pc[r] /\ EvOf(kind)[r] = ev[r] /\ RespOf(kind)[r] = resp[r]
           /\ EvOf(kind)' = EvOf(kind)
           /\ \A l : pc' = [pc EXCEPT ![r] = l]
                        => PcOf(kind)' = [PcOf(kind) EXCEPT ![r] = l]
           /\ \A s : resp' = [resp EXCEPT ![r] = s]
                        => RespOf(kind)' = [RespOf(kind) EXCEPT ![r] = s]
           /\ pc' = pc => PcOf(kind)' = PcOf(kind)
           /\ resp' = resp => RespOf(kind)' = RespOf(kind)
           /\ conn' = conn => ConnOf(kind)' = ConnOf(kind)
           /\ conn' = conn \cup {r} => ConnOf(kind)' = ConnOf(kind) \cup {r}
           /\ conn' = conn \ {r} => ConnOf(kind)' = ConnOf(kind) \ {r}
  <1>1. PcOf(kind)[r] = pc[r] /\ EvOf(kind)[r] = ev[r] /\ RespOf(kind)[r] = resp[r]
    BY DEF PcOf, EvOf, RespOf
  <1>2. EvOf(kind)' = EvOf(kind)
    BY DEF EvOf
  <1>3. ASSUME NEW l, pc' = [pc EXCEPT ![r] = l]
        PROVE  PcOf(kind)' = [PcOf(kind) EXCEPT ![r] = l]
    BY <1>3 DEF PcOf, Shared
  <1>4. ASSUME NEW s, resp' = [resp EXCEPT ![r] = s]
        PROVE  RespOf(kind)' = [RespOf(kind) EXCEPT ![r] = s]
    BY <1>4 DEF RespOf, Shared
  <1>5. /\ pc' = pc => PcOf(kind)' = PcOf(kind)
        /\ resp' = resp => RespOf(kind)' = RespOf(kind)
    BY DEF PcOf, RespOf
  <1>6. /\ conn' = conn => ConnOf(kind)' = ConnOf(kind)
        /\ conn' = conn \cup {r} => ConnOf(kind)' = ConnOf(kind) \cup {r}
        /\ conn' = conn \ {r} => ConnOf(kind)' = ConnOf(kind) \ {r}
    BY DEF ConnOf
  <1> QED BY <1>1, <1>2, <1>3, <1>4, <1>5, <1>6

\* A pool that has room for all has room for some.
LEMMA RoomSeen ==
    ASSUME Shared, NEW kind, Cardinality(conn) < MaxConns
    PROVE  Cardinality(ConnOf(kind)) < MaxConns
  <1>1. ConnOf(kind) \subseteq conn /\ IsFiniteSet(conn)
    BY DEF ConnOf, Shared
  <1>2. /\ Cardinality(ConnOf(kind)) <= Cardinality(conn)
        /\ Cardinality(ConnOf(kind)) \in Nat /\ Cardinality(conn) \in Nat
    BY <1>1, FS_Subset, FS_CardinalityType
  <1> QED BY <1>2, ServerAssumption

\* A delivery is seen by the handler of its kind only.
LEMMA SeenDelivery ==
    ASSUME Shared, NEW kind, NEW r \in Request, pc[r] = "idle", NoPayload \notin kind,
           NEW e, ev' = [ev EXCEPT ![r] = e], conn' = conn,
           NEW l, pc' = [pc EXCEPT ![r] = l]
    PROVE  /\ e \in kind /\ resp' = resp =>
                 /\ PcOf(kind)[r] = "idle"
                 /\ PcOf(kind)' = [PcOf(kind) EXCEPT ![r] = l]
                 /\ EvOf(kind)' = [EvOf(kind) EXCEPT ![r] = e]
                 /\ UNCHANGED <<RespOf(kind), ConnOf(kind)>>
           /\ e \notin kind /\ (\E s : resp' = [resp EXCEPT ![r] = s]) =>
                 UNCHANGED <<PcOf(kind), EvOf(kind), RespOf(kind), ConnOf(kind)>>
           /\ e \notin kind /\ resp' = resp =>
                 UNCHANGED <<PcOf(kind), EvOf(kind), RespOf(kind), ConnOf(kind)>>
  <1> USE DEF Shared
  <1>1. PcOf(kind)' = IF e \in kind THEN [PcOf(kind) EXCEPT ![r] = l] ELSE PcOf(kind)
    BY DEF PcOf
  <1>2. EvOf(kind)' = IF e \in kind THEN [EvOf(kind) EXCEPT ![r] = e] ELSE EvOf(kind)
    BY DEF EvOf
  <1>3. ConnOf(kind)' = ConnOf(kind)
    BY DEF ConnOf
  <1>4. /\ resp' = resp => RespOf(kind)' = RespOf(kind)
        /\ e \notin kind /\ (\E s : resp' = [resp EXCEPT ![r] = s]) =>
              RespOf(kind)' = RespOf(kind)
    BY DEF RespOf
  <1>5. PcOf(kind)[r] = "idle"
    BY DEF PcOf
  <1> QED BY <1>1, <1>2, <1>3, <1>4, <1>5

\* Going to another label is a move ...
LEMMA MovesByGoto ==
    ASSUME Shared, NEW r \in Request, pc[r] # "idle", NEW l, pc' = [pc EXCEPT ![r] = l],
           l # "idle", l \in {"lookup", "query"} => ev[r] \in Comments,
           ev' = ev, resp' = resp,
           conn' = conn \/ conn' = conn \cup {r} \/ conn' = conn \ {r}
    PROVE  Moves(r)
  BY DEF Moves, Shared

\* ... so is repeating a call, and so is answering.
LEMMA MovesByWaiting ==
    ASSUME Shared, NEW r \in Request, pc[r] # "idle", pc' = pc, ev' = ev, resp' = resp,
           conn' = conn \/ conn' = conn \ {r}
    PROVE  Moves(r)
  BY DEF Moves, Shared

LEMMA MovesByAnswer ==
    ASSUME Shared, NEW r \in Request, pc[r] # "idle", NEW s, Answer(r, s),
           ev' = ev, conn' = conn \/ conn' = conn \ {r}
    PROVE  Moves(r)
  BY DEF Moves, Answer, Goto, Shared

-----------------------------------------------------------------------------
(* The handler of issues.                                                  *)

IssueStep(r) == OnIssue!Progress(r) \/ OnIssue!CommitReplyLost(r) \/ OnIssue!TransactionFails(r)


\* The handler's way of moving is the server's.
LEMMA IssueWords ==
    ASSUME NEW r \in Request
    PROVE  /\ \A l : OnIssue!Goto(r, l) <=> Goto(r, l)
           /\ \A s : OnIssue!Answer(r, s) <=> Answer(r, s)
           /\ \A l : Goto(r, l) <=> pc' = [pc EXCEPT ![r] = l]
           /\ \A s : OnIssue!Abort(r, s) => Answer(r, s) /\ ev' = ev /\ conn' = conn \ {r}
  BY DEF OnIssue!Goto, Goto, OnIssue!Answer, Answer, OnIssue!Abort,
         OnIssue!EndTransaction

\* A step of the handler moves its request.
LEMMA IssueMoves ==
    ASSUME NEW r \in Request, IssueStep(r), Shared
    PROVE  Moves(r)
  <1>1. ASSUME \/ OnIssue!IssueExists(r) \/ OnIssue!AddNewIssueRefused(r)
               \/ OnIssue!NoSuchIssue(r) \/ OnIssue!NoParticipant(r)
               \/ OnIssue!NotAssigned(r) \/ OnIssue!TransactionFails(r)
        PROVE  Moves(r)
    <2>1. pc[r] # "idle" /\ \E s : OnIssue!Abort(r, s)
      BY <1>1 DEF OnIssue!IssueExists, OnIssue!AddNewIssueRefused,
           OnIssue!NoSuchIssue, OnIssue!NoParticipant, OnIssue!NotAssigned,
           OnIssue!TransactionFails
    <2> QED BY <2>1, IssueWords, MovesByAnswer
  <1>2. ASSUME OnIssue!Commit(r) \/ OnIssue!CommitReplyLost(r) \/ OnIssue!NothingToDo(r)
        PROVE  Moves(r)
    <2>1. /\ pc[r] # "idle" /\ ev' = ev /\ (conn' = conn \/ conn' = conn \ {r})
          /\ \E s : OnIssue!Answer(r, s)
      BY <1>2 DEF OnIssue!Commit, OnIssue!CommitReplyLost, OnIssue!NothingToDo,
           OnIssue!Install, OnIssue!EndTransaction
    <2> QED BY <2>1, IssueWords, MovesByAnswer
  <1>3. ASSUME \/ OnIssue!CheckOpenIssue(r) \/ OnIssue!AddNewIssue(r)
               \/ OnIssue!UpdateIssue(r) \/ OnIssue!ParticipantExists(r)
               \/ OnIssue!IssueAssign(r) \/ OnIssue!Scan(r) \/ OnIssue!IssueUnassign(r)
        PROVE  Moves(r)
    <2>1. /\ pc[r] # "idle" /\ ev' = ev /\ resp' = resp /\ conn' = conn
          /\ \E l \in {"insert", "assign", "scan", "unassign", "commit"} :
                OnIssue!Goto(r, l)
      BY <1>3 DEF OnIssue!CheckOpenIssue, OnIssue!AddNewIssue, OnIssue!UpdateIssue,
           OnIssue!ParticipantExists, OnIssue!IssueAssign, OnIssue!Scan,
           OnIssue!IssueUnassign
    <2> QED BY <2>1, IssueWords, MovesByGoto
  <1>4. ASSUME OnIssue!Begin(r)
        PROVE  Moves(r)
    <2> DEFINE l == CASE ev[r].action = "accepted" -> "check"
                      [] ev[r].action \in OnIssue!UserActions -> "participant"
                      [] OTHER -> "write"
    <2>1. l \in {"check", "participant", "write"}
      BY DEF OnIssue!UserActions
    <2>2. /\ pc[r] # "idle" /\ ev' = ev /\ resp' = resp /\ conn' = conn \cup {r}
          /\ OnIssue!Goto(r, l)
      BY <1>4 DEF OnIssue!Begin
    <2> HIDE DEF l
    <2> QED BY <2>1, <2>2, IssueWords, MovesByGoto
  <1> QED BY <1>1, <1>2, <1>3, <1>4 DEF IssueStep, OnIssue!Progress

\* A transaction that wrote a row is that of an event of an issue.
LEMMA WriterIsOfIssues ==
    ASSUME IssueView!IInv, NEW q \in Request, draft[q] # NoDraft
    PROVE  ev[q] \in IssueEvents
  <1>1. EvOf(IssueEvents)[q] \in IssueEvents
    BY IssueViewAssumptions, IssueView!DraftIsRow
  <1> QED BY <1>1, OneKind DEF EvOf

\* What the handler reads of an event, of its tables and of the pool is what it
\* sees in its view.
LEMMA IssueReads ==
    ASSUME Shared, IssueView!IInv, NEW r \in Request, ev[r] \in IssueEvents
    PROVE  /\ PcOf(IssueEvents)[r] = pc[r] /\ EvOf(IssueEvents)[r] = ev[r]
           /\ IssueView!Ignored(ev[r]) <=> OnIssue!Ignored(ev[r])
           /\ IssueView!Parsed(ev[r]) <=> OnIssue!Parsed(ev[r])
           /\ IssueView!NewIssue = OnIssue!NewIssue
           /\ \A row : IssueView!Updated(row, ev[r]) = OnIssue!Updated(row, ev[r])
           /\ IssueView!ClaimsOf(ev[r]) = OnIssue!ClaimsOf(ev[r])
           /\ IssueView!NewClaim(r) = OnIssue!NewClaim(r)
           /\ IssueView!UserActions = OnIssue!UserActions
           /\ IssueView!LockedByOthers(r) = OnIssue!LockedByOthers(r)
           /\ OnIssue!Writers(ev[r].url) = {} => IssueView!Writers(ev[r].url) = {}
           /\ OnIssue!PoolHasRoom => IssueView!PoolHasRoom
  <1>1. PcOf(IssueEvents)[r] = pc[r] /\ EvOf(IssueEvents)[r] = ev[r]
    BY DEF PcOf, EvOf
  <1>2. /\ IssueView!Ignored(ev[r]) <=> OnIssue!Ignored(ev[r])
        /\ IssueView!UserActions = OnIssue!UserActions
        /\ IssueView!Parsed(ev[r]) <=> OnIssue!Parsed(ev[r])
        /\ IssueView!NewIssue = OnIssue!NewIssue
        /\ IssueView!ClaimsOf(ev[r]) = OnIssue!ClaimsOf(ev[r])
        /\ IssueView!LockedByOthers(r) = OnIssue!LockedByOthers(r)
    BY DEF IssueView!Ignored, OnIssue!Ignored, IssueView!UserActions,
           OnIssue!UserActions, IssueView!Parsed, OnIssue!Parsed,
           IssueView!NewIssue, OnIssue!NewIssue, IssueView!ClaimsOf,
           OnIssue!ClaimsOf, IssueView!LockedByOthers, OnIssue!LockedByOthers
  <1>3. \A row : IssueView!Updated(row, ev[r]) = OnIssue!Updated(row, ev[r])
    BY DEF IssueView!Updated, OnIssue!Updated, IssueView!Int32, OnIssue!Int32,
           IssueView!UpdateIssueDifficulty, OnIssue!UpdateIssueDifficulty,
           IssueView!UpdateIssueBounty, OnIssue!UpdateIssueBounty,
           IssueView!AddIssueTag, OnIssue!AddIssueTag,
           IssueView!CloseIssue, OnIssue!CloseIssue,
           IssueView!OpenIssue, OnIssue!OpenIssue
  <1>4. IssueView!NewClaim(r) = OnIssue!NewClaim(r)
    BY <1>1 DEF IssueView!NewClaim, OnIssue!NewClaim
  <1>5. IssueView!Writers(ev[r].url) \subseteq OnIssue!Writers(ev[r].url)
    BY WriterIsOfIssues DEF IssueView!Writers, OnIssue!Writers, EvOf
  <1>6. OnIssue!PoolHasRoom => IssueView!PoolHasRoom
    BY RoomSeen, SameCounting DEF OnIssue!PoolHasRoom, IssueView!PoolHasRoom
  <1> QED BY <1>1, <1>2, <1>3, <1>4, <1>5, <1>6

\* What it does is what happens in its view.
LEMMA IssueDoes ==
    ASSUME Shared, NEW r \in Request, ev[r] \in IssueEvents, ev' = ev
    PROVE  /\ EvOf(IssueEvents)' = EvOf(IssueEvents)
           /\ \A l : OnIssue!Goto(r, l) => IssueView!Goto(r, l)
           /\ \A s : OnIssue!Answer(r, s) => IssueView!Answer(r, s)
           /\ resp' = resp => RespOf(IssueEvents)' = RespOf(IssueEvents)
           /\ conn' = conn => ConnOf(IssueEvents)' = ConnOf(IssueEvents)
           /\ conn' = conn \cup {r} => ConnOf(IssueEvents)' = ConnOf(IssueEvents) \cup {r}
           /\ OnIssue!EndTransaction(r) => IssueView!EndTransaction(r)
           /\ \A s : OnIssue!Abort(r, s) => IssueView!Abort(r, s)
  <1>1. /\ EvOf(IssueEvents)' = EvOf(IssueEvents)
        /\ \A l : OnIssue!Goto(r, l) => IssueView!Goto(r, l)
        /\ \A s : resp' = [resp EXCEPT ![r] = s] =>
              RespOf(IssueEvents)' = [RespOf(IssueEvents) EXCEPT ![r] = s]
        /\ resp' = resp => RespOf(IssueEvents)' = RespOf(IssueEvents)
        /\ conn' = conn => ConnOf(IssueEvents)' = ConnOf(IssueEvents)
        /\ conn' = conn \cup {r} => ConnOf(IssueEvents)' = ConnOf(IssueEvents) \cup {r}
        /\ conn' = conn \ {r} => ConnOf(IssueEvents)' = ConnOf(IssueEvents) \ {r}
    BY Seen DEF OnIssue!Goto, IssueView!Goto
  <1>2. \A s : OnIssue!Answer(r, s) => IssueView!Answer(r, s)
    BY <1>1 DEF OnIssue!Answer, IssueView!Answer
  <1>3. OnIssue!EndTransaction(r) => IssueView!EndTransaction(r)
    BY <1>1 DEF OnIssue!EndTransaction, IssueView!EndTransaction
  <1>4. \A s : OnIssue!Abort(r, s) => IssueView!Abort(r, s)
    BY <1>1, <1>2, <1>3 DEF OnIssue!Abort, IssueView!Abort, OnIssue!tables, IssueView!tables
  <1> QED BY <1>1, <1>2, <1>3, <1>4

\* So a step of the handler is a step of its view.
LEMMA IssueStepIsSeen ==
    ASSUME Shared, IssueView!IInv, NEW r \in Request, ev[r] \in IssueEvents, IssueStep(r)
    PROVE  IssueView!Next
  <1>1. ev' = ev
    BY IssueMoves DEF Moves
  <1> USE IssueReads, IssueDoes, <1>1 DEF OnIssue!tables, IssueView!tables,
          OnIssue!work, IssueView!work
  <1>2. OnIssue!NothingToDo(r) => IssueView!NothingToDo(r)
    BY DEF OnIssue!NothingToDo, IssueView!NothingToDo
  <1>3. OnIssue!Begin(r) => IssueView!Begin(r)
    BY DEF OnIssue!Begin, IssueView!Begin
  <1>4. /\ OnIssue!CheckOpenIssue(r) => IssueView!CheckOpenIssue(r)
        /\ OnIssue!IssueExists(r) => IssueView!IssueExists(r)
    BY DEF OnIssue!CheckOpenIssue, IssueView!CheckOpenIssue,
           OnIssue!IssueExists, IssueView!IssueExists
  <1>5. /\ OnIssue!AddNewIssue(r) => IssueView!AddNewIssue(r)
        /\ OnIssue!AddNewIssueRefused(r) => IssueView!AddNewIssueRefused(r)
    BY DEF OnIssue!AddNewIssue, IssueView!AddNewIssue,
           OnIssue!AddNewIssueRefused, IssueView!AddNewIssueRefused
  <1>6. /\ OnIssue!UpdateIssue(r) => IssueView!UpdateIssue(r)
        /\ OnIssue!NoSuchIssue(r) => IssueView!NoSuchIssue(r)
    BY DEF OnIssue!UpdateIssue, IssueView!UpdateIssue,
           OnIssue!NoSuchIssue, IssueView!NoSuchIssue
  <1>7. /\ OnIssue!ParticipantExists(r) => IssueView!ParticipantExists(r)
        /\ OnIssue!NoParticipant(r) => IssueView!NoParticipant(r)
    BY DEF OnIssue!ParticipantExists, IssueView!ParticipantExists,
           OnIssue!NoParticipant, IssueView!NoParticipant
  <1>8. /\ OnIssue!IssueAssign(r) => IssueView!IssueAssign(r)
        /\ OnIssue!Scan(r) => IssueView!Scan(r)
    BY DEF OnIssue!IssueAssign, IssueView!IssueAssign, OnIssue!Scan, IssueView!Scan
  <1>9. /\ OnIssue!IssueUnassign(r) => IssueView!IssueUnassign(r)
        /\ OnIssue!NotAssigned(r) => IssueView!NotAssigned(r)
    BY DEF OnIssue!IssueUnassign, IssueView!IssueUnassign,
           OnIssue!NotAssigned, IssueView!NotAssigned
  <1>10. /\ OnIssue!Commit(r) => IssueView!Commit(r)
         /\ OnIssue!CommitReplyLost(r) => IssueView!CommitReplyLost(r)
    BY DEF OnIssue!Commit, IssueView!Commit, OnIssue!CommitReplyLost,
           IssueView!CommitReplyLost, OnIssue!Install, IssueView!Install
  <1>11. OnIssue!TransactionFails(r) => IssueView!TransactionFails(r)
    BY DEF OnIssue!TransactionFails, IssueView!TransactionFails
  <1> QED BY <1>2, <1>3, <1>4, <1>5, <1>6, <1>7, <1>8, <1>9, <1>10, <1>11
          DEF IssueStep, OnIssue!Progress, IssueView!Progress, IssueView!Next
-----------------------------------------------------------------------------
(* The leaderboard: points for merges, and points for comments.            *)

\* The points for merges can be summed up.
Summed == \A u \in User : HasTotal(Merges(u))

\* A request is ranked only once it was announced, so after its delivery.
LEMMA RankedIsServed ==
    ASSUME PullView!IInv, NEW r \in Request
    PROVE  /\ pullRanked[r] \in Nat
           /\ pullRanked[r] > 0 => ev[r] \in PullEvents
  <1>1. pullRanked \in [Request -> Nat]
    BY DEF PullView!IInv, PullView!TypeOK
  <1>2. ASSUME pullRanked[r] > 0
        PROVE  ev[r] \in PullEvents
    <2>1. PullView!RecordsOf(r) # {}
      BY <1>2 DEF PullView!IInv, PullView!CommittedIsAnnounced, PullView!Published
    <2>2. PICK q \in Request : PcOf(PullEvents)[q] # "idle" /\ PullView!Record(q).req = r
      BY <2>1 DEF PullView!RecordsOf, PullView!IInv, PullView!RecordsAreGenuine
    <2>3. q = r
      BY <2>2 DEF PullView!Record
    <2> QED BY <2>2, <2>3 DEF PcOf
  <1> QED BY <1>1, <1>2

\* What the merges of a login sum up to follows the ZINCRBY of each merge ...
LEMMA MergesFollow ==
    ASSUME Summed, PullView!IInv, NEW r \in Request, ev[r] \in PullEvents, ev' = ev,
           pullRanked' = [pullRanked EXCEPT ![r] = @ + 1], NEW u \in User
    PROVE  /\ HasTotal(Merges(u)')
           /\ Total(Merges(u)') = Total(Merges(u)) + (IF ev[r].by = u THEN 1 ELSE 0)
  <1> DEFINE f == Merges(u)
             g == Merges(u)'
  <1>1. pullRanked \in [Request -> Nat] /\ HasTotal(f)
    BY DEF PullView!IInv, PullView!TypeOK, Summed
  <1>2. CASE ev[r].by = u
    <2>1. /\ IsAt(f, r, pullRanked[r]) /\ IsAt(g, r, pullRanked[r] + 1)
          /\ AgreeButAt(f, g, r)
      BY <1>1, <1>2 DEF Merges, IsAt, AgreeButAt
    <2>2. pullRanked[r] \in Int /\ pullRanked[r] + 1 \in Int
      BY <1>1
    <2> HIDE DEF f, g
    <2>3. HasTotal(g) /\ Total(g) = Total(f) - pullRanked[r] + (pullRanked[r] + 1)
      BY <1>1, <2>1, <2>2, TotalChange
    <2>4. Total(f) \in Int
      BY <1>1, TotalTyped
    <2>5. HasTotal(g) /\ Total(g) = Total(f) + 1
      BY <2>2, <2>3, <2>4
    <2> QED BY <1>2, <2>5 DEF f, g
  <1>3. CASE ev[r].by # u
    <2>1. g = f
      BY <1>1, <1>3 DEF Merges
    <2>2. Total(f) \in Int
      BY <1>1, TotalTyped
    <2> QED BY <1>1, <1>3, <2>1, <2>2
  <1> QED BY <1>2, <1>3

\* ... and a delivery adds nothing.
LEMMA DeliveryRanksNothing ==
    ASSUME Shared, Summed, PullView!IInv, NEW r \in Request, pc[r] = "idle",
           NEW e, ev' = [ev EXCEPT ![r] = e], pullRanked' = pullRanked, NEW u \in User
    PROVE  HasTotal(Merges(u)') /\ Total(Merges(u)') = Total(Merges(u))
  <1> DEFINE f == Merges(u)
             g == Merges(u)'
  <1>1. HasTotal(f) /\ Total(f) \in Int
    BY TotalTyped DEF Summed
  <1>2. ev[r] = NoPayload /\ pullRanked[r] = 0
    BY RankedIsServed, OneKind DEF Shared
  <1>3. IsAt(f, r, 0) /\ IsAt(g, r, 0) /\ AgreeButAt(f, g, r)
    BY <1>2 DEF Merges, IsAt, AgreeButAt, Shared
  <1> HIDE DEF f, g
  <1>4. HasTotal(g) /\ Total(g) = Total(f) - 0 + 0
    BY <1>1, <1>3, TotalChange
  <1>5. HasTotal(g) /\ Total(g) = Total(f)
    BY <1>1, <1>4
  <1> QED BY <1>5 DEF f, g

\* A merge moves the part of the merges by one point ...
LEMMA MergeMovesScore ==
    ASSUME Shared, Summed, PullView!IInv, NEW r \in Request, ev[r] \in PullEvents,
           OnPull!Increment(r)
    PROVE  /\ Summed'
           /\ ScoreOfPulls' = PullView!UpdateLeaderboard(ScoreOfPulls, ev[r].by, 1)
           /\ ScoreOfComments' = ScoreOfComments
           /\ score' \in [User -> Int]
  <1>1. /\ score' = [score EXCEPT ![ev[r].by] = @ + 1] /\ ev' = ev
        /\ pullRanked' = [pullRanked EXCEPT ![r] = @ + 1]
    BY DEF OnPull!Increment, OnPull!UpdateLeaderboard
  <1>2. score \in [User -> Int]
    BY DEF Shared
  <1>3. ASSUME NEW u \in User
        PROVE  /\ HasTotal(Merges(u)') /\ Total(Merges(u)) \in Int
               /\ Total(Merges(u)') = Total(Merges(u)) + (IF ev[r].by = u THEN 1 ELSE 0)
    BY <1>1, MergesFollow, TotalTyped DEF Summed
  <1>4. Summed'
    BY <1>3 DEF Summed
  <1>5. ScoreOfPulls' = [u \in User |-> Total(Merges(u)')]
    BY DEF ScoreOfPulls
  <1>6. ScoreOfComments' = [u \in User |-> score'[u] - Total(Merges(u)')]
    BY DEF ScoreOfComments
  <1>7. ScoreOfPulls' = [ScoreOfPulls EXCEPT ![ev[r].by] = @ + 1]
    BY <1>3, <1>5 DEF ScoreOfPulls
  <1>8. ASSUME NEW u \in User
        PROVE  score'[u] - Total(Merges(u)') = score[u] - Total(Merges(u))
    BY <1>1, <1>2, <1>3
  <1>9. ScoreOfComments' = ScoreOfComments
    BY <1>6, <1>8 DEF ScoreOfComments
  <1>10. score' \in [User -> Int]
    <2>1. score' = [v \in User |-> IF v = ev[r].by THEN score[v] + 1 ELSE score[v]]
      BY <1>1, <1>2
    <2>2. \A v \in User : score[v] \in Int
      BY <1>2
    <2> QED BY <2>1, <2>2
  <1>11. ScoreOfPulls' = PullView!UpdateLeaderboard(ScoreOfPulls, ev[r].by, 1)
    BY <1>7 DEF PullView!UpdateLeaderboard
  <1> QED BY <1>4, <1>9, <1>10, <1>11

\* ... and a command the part of the comments by its points.
LEMMA CommandMovesScore ==
    ASSUME Shared, Summed, NEW u \in User, NEW points \in Int,
           score' = [score EXCEPT ![u] = @ + points], ev' = ev, pullRanked' = pullRanked
    PROVE  /\ Summed'
           /\ ScoreOfPulls' = ScoreOfPulls
           /\ ScoreOfComments' = [ScoreOfComments EXCEPT ![u] = @ + points]
           /\ score' \in [User -> Int]
  <1>1. \A v : Merges(v)' = Merges(v)
    BY DEF Merges
  <1>2. score \in [User -> Int] /\ \A v \in User : Total(Merges(v)) \in Int
    BY TotalTyped DEF Shared, Summed
  <1>3. Summed' /\ ScoreOfPulls' = ScoreOfPulls
    BY <1>1 DEF Summed, ScoreOfPulls
  <1>4. ScoreOfComments' = [v \in User |-> score'[v] - Total(Merges(v))]
    BY <1>1 DEF ScoreOfComments
  <1>5. score' = [v \in User |-> IF v = u THEN score[v] + points ELSE score[v]]
    BY <1>2
  <1>6. ASSUME NEW v \in User
        PROVE  /\ score'[v] \in Int
               /\ score'[v] - Total(Merges(v)) =
                    IF v = u THEN ScoreOfComments[v] + points ELSE ScoreOfComments[v]
    <2>1. score'[v] = IF v = u THEN score[v] + points ELSE score[v]
      BY <1>5
    <2>2. score[v] \in Int /\ Total(Merges(v)) \in Int
      BY <1>2
    <2>3. ScoreOfComments[v] = score[v] - Total(Merges(v))
      BY DEF ScoreOfComments
    <2> QED BY <2>1, <2>2, <2>3
  <1>7. score' \in [User -> Int]
    BY <1>5, <1>6
  <1>8. ScoreOfComments' = [ScoreOfComments EXCEPT ![u] = @ + points]
    BY <1>4, <1>6 DEF ScoreOfComments
  <1> QED BY <1>3, <1>7, <1>8

\* Whoever does neither leaves both parts alone.
LEMMA ScoresKept ==
    ASSUME Shared, Summed, ev' = ev, pullRanked' = pullRanked, score' = score
    PROVE  /\ Summed' /\ ScoreOfPulls' = ScoreOfPulls
           /\ ScoreOfComments' = ScoreOfComments
  <1>1. \A u : Merges(u)' = Merges(u)
    BY DEF Merges
  <1> QED BY <1>1 DEF Summed, ScoreOfPulls, ScoreOfComments

LEMMA DeliveryMovesNoScore ==
    ASSUME Shared, Summed, PullView!IInv, NEW r \in Request, pc[r] = "idle",
           NEW e, ev' = [ev EXCEPT ![r] = e], pullRanked' = pullRanked, score' = score
    PROVE  /\ Summed' /\ ScoreOfPulls' = ScoreOfPulls
           /\ ScoreOfComments' = ScoreOfComments
  <1>1. \A u \in User : HasTotal(Merges(u)') /\ Total(Merges(u)') = Total(Merges(u))
    BY DeliveryRanksNothing
  <1>2. ScoreOfPulls' = [u \in User |-> Total(Merges(u)')]
    BY DEF ScoreOfPulls
  <1>3. ScoreOfComments' = [u \in User |-> score'[u] - Total(Merges(u)')]
    BY DEF ScoreOfComments
  <1> QED BY <1>1, <1>2, <1>3 DEF Summed, ScoreOfPulls, ScoreOfComments
-----------------------------------------------------------------------------
(* The handler of pull requests.                                           *)

PullStep(r) == OnPull!Progress(r) \/ OnPull!Fault(r)

\* The handler's way of moving is the server's.
LEMMA PullWords ==
    ASSUME NEW r \in Request
    PROVE  /\ \A l : OnPull!Goto(r, l) <=> Goto(r, l)
           /\ \A s : OnPull!Answer(r, s) <=> Answer(r, s)
           /\ \A l : Goto(r, l) <=> pc' = [pc EXCEPT ![r] = l]
           /\ \A s : OnPull!Abort(r, s) => Answer(r, s) /\ ev' = ev /\ conn' = conn \ {r}
  BY DEF OnPull!Goto, Goto, OnPull!Answer, Answer, OnPull!Abort, OnPull!EndTransaction

\* A step of the handler moves its request.
LEMMA PullMoves ==
    ASSUME NEW r \in Request, PullStep(r), Shared
    PROVE  Moves(r)
  <1>1. ASSUME \/ OnPull!Ignore(r) \/ OnPull!AddSolutionRefused(r)
               \/ OnPull!NoSolution(r) \/ OnPull!NoRowLeft(r) \/ OnPull!StepFails(r)
        PROVE  Moves(r)
    <2>1. pc[r] # "idle" /\ \E s : OnPull!Abort(r, s)
      BY <1>1 DEF OnPull!Ignore, OnPull!AddSolutionRefused, OnPull!NoSolution,
           OnPull!NoRowLeft, OnPull!StepFails
    <2> QED BY <2>1, PullWords, MovesByAnswer
  <1>2. ASSUME OnPull!Commit(r) \/ OnPull!CommitReplyLost(r)
        PROVE  Moves(r)
    <2>1. /\ pc[r] # "idle" /\ ev' = ev /\ conn' = conn \ {r}
          /\ \E s : OnPull!Answer(r, s)
      BY <1>2 DEF OnPull!Commit, OnPull!CommitReplyLost, OnPull!Install,
           OnPull!EndTransaction
    <2> QED BY <2>1, PullWords, MovesByAnswer
  <1>3. ASSUME \/ OnPull!AddSolution(r) \/ OnPull!CheckIfSolutionExist(r)
               \/ OnPull!Scan(r) \/ OnPull!Apply(r) \/ OnPull!Publish(r)
               \/ OnPull!Rank(r)
        PROVE  Moves(r)
    <2>1. /\ pc[r] # "idle" /\ ev' = ev /\ resp' = resp /\ conn' = conn
          /\ \E l \in {"publish", "scan", "apply", "commit", "rank"} : OnPull!Goto(r, l)
      BY <1>3 DEF OnPull!AddSolution, OnPull!CheckIfSolutionExist, OnPull!Scan,
           OnPull!Apply, OnPull!Publish, OnPull!Rank, OnPull!AppendRecord,
           OnPull!Increment
    <2> QED BY <2>1, PullWords, MovesByGoto
  <1>4. ASSUME OnPull!PublishReplyLost(r) \/ OnPull!RankReplyLost(r)
        PROVE  Moves(r)
    <2>1. /\ pc[r] # "idle" /\ pc' = pc /\ ev' = ev /\ resp' = resp /\ conn' = conn
      BY <1>4 DEF OnPull!PublishReplyLost, OnPull!RankReplyLost,
           OnPull!AppendRecord, OnPull!Increment
    <2> QED BY <2>1, MovesByWaiting
  <1>5. ASSUME OnPull!Begin(r)
        PROVE  Moves(r)
    <2> DEFINE l == CASE ev[r].action = "opened" -> "insert"
                      [] ev[r].action = "merged" -> "check"
                      [] ev[r].action = "dropped" -> "scan"
                      [] OTHER -> "ignore"
    <2>1. l \in {"insert", "check", "scan", "ignore"}
      OBVIOUS
    <2>2. /\ pc[r] # "idle" /\ ev' = ev /\ resp' = resp /\ conn' = conn \cup {r}
          /\ OnPull!Goto(r, l)
      BY <1>5 DEF OnPull!Begin
    <2> HIDE DEF l
    <2> QED BY <2>1, <2>2, PullWords, MovesByGoto
  <1> QED BY <1>1, <1>2, <1>3, <1>4, <1>5 DEF PullStep, OnPull!Progress, OnPull!Fault

\* What the handler reads of an event, of its tables, its stream and the pool
\* is what it sees in its view.
LEMMA PullReads ==
    ASSUME Shared, PullView!IInv, NEW r \in Request, ev[r] \in PullEvents
    PROVE  /\ PcOf(PullEvents)[r] = pc[r] /\ EvOf(PullEvents)[r] = ev[r]
           /\ PullView!RowsWithUrl(ev[r].url) = OnPull!RowsWithUrl(ev[r].url)
           /\ PullView!LockedByOthers(r) = OnPull!LockedByOthers(r)
           /\ PullView!Record(r) = OnPull!Record(r)
           /\ PullView!Cardinality(PullView!RecordsOf(r))
                = OnPull!Cardinality(OnPull!RecordsOf(r))
           /\ OnPull!PoolHasRoom => PullView!PoolHasRoom
  <1>1. PcOf(PullEvents)[r] = pc[r] /\ EvOf(PullEvents)[r] = ev[r]
    BY DEF PcOf, EvOf
  <1>2. PullView!RowsWithUrl(ev[r].url) = OnPull!RowsWithUrl(ev[r].url)
    <2>1. ASSUME NEW id \in rows
          PROVE  EvOf(PullEvents)[id] = ev[id]
      <3>1. id \in Request /\ PcOf(PullEvents)[id] \in {"done", "crashed"}
        BY DEF PullView!IInv, PullView!RowsAreGenuine, PullView!Genuine,
               PullView!Over, PullView!TypeOK
      <3> QED BY <3>1 DEF PcOf, EvOf
    <2> QED BY <2>1 DEF PullView!RowsWithUrl, OnPull!RowsWithUrl
  <1>3. PullView!LockedByOthers(r) = OnPull!LockedByOthers(r)
    BY DEF PullView!LockedByOthers, OnPull!LockedByOthers
  <1>4. PullView!Record(r) = OnPull!Record(r)
    BY <1>1 DEF PullView!Record, OnPull!Record
  <1>5. PullView!RecordsOf(r) = OnPull!RecordsOf(r)
    <2>1. StreamsOf(OfPulls)[PullView!SolutionMerge] = streams[OnPull!SolutionMerge]
      BY DEF StreamsOf, OfPulls, StreamName, SolutionMerge, PullView!SolutionMerge,
             OnPull!SolutionMerge
    <2> QED BY <2>1 DEF PullView!RecordsOf, OnPull!RecordsOf
  <1>6. OnPull!PoolHasRoom => PullView!PoolHasRoom
    BY RoomSeen, SameCounting DEF OnPull!PoolHasRoom, PullView!PoolHasRoom
  <1> QED BY <1>1, <1>2, <1>3, <1>4, <1>5, <1>6, SameCounting

\* What it does is what happens in its view.
LEMMA PullDoes ==
    ASSUME Shared, Summed, PullView!IInv, NEW r \in Request, ev[r] \in PullEvents, ev' = ev
    PROVE  /\ EvOf(PullEvents)' = EvOf(PullEvents)
           /\ \A l : OnPull!Goto(r, l) => PullView!Goto(r, l)
           /\ \A s : OnPull!Answer(r, s) => PullView!Answer(r, s)
           /\ pc' = pc => PcOf(PullEvents)' = PcOf(PullEvents)
           /\ resp' = resp => RespOf(PullEvents)' = RespOf(PullEvents)
           /\ conn' = conn => ConnOf(PullEvents)' = ConnOf(PullEvents)
           /\ conn' = conn \cup {r} => ConnOf(PullEvents)' = ConnOf(PullEvents) \cup {r}
           /\ OnPull!EndTransaction(r) => PullView!EndTransaction(r)
           /\ (UNCHANGED OnPull!valkey) => (UNCHANGED PullView!valkey)
           /\ \A s : OnPull!Abort(r, s) => PullView!Abort(r, s)
           /\ OnPull!AppendRecord(r) => PullView!AppendRecord(r)
           /\ OnPull!Increment(r) => PullView!Increment(r)
  <1>1. /\ EvOf(PullEvents)' = EvOf(PullEvents)
        /\ \A l : OnPull!Goto(r, l) => PullView!Goto(r, l)
        /\ \A s : resp' = [resp EXCEPT ![r] = s] =>
              RespOf(PullEvents)' = [RespOf(PullEvents) EXCEPT ![r] = s]
        /\ pc' = pc => PcOf(PullEvents)' = PcOf(PullEvents)
        /\ resp' = resp => RespOf(PullEvents)' = RespOf(PullEvents)
        /\ conn' = conn => ConnOf(PullEvents)' = ConnOf(PullEvents)
        /\ conn' = conn \cup {r} => ConnOf(PullEvents)' = ConnOf(PullEvents) \cup {r}
        /\ conn' = conn \ {r} => ConnOf(PullEvents)' = ConnOf(PullEvents) \ {r}
    BY Seen DEF OnPull!Goto, PullView!Goto
  <1>2. \A s : OnPull!Answer(r, s) => PullView!Answer(r, s)
    BY <1>1 DEF OnPull!Answer, PullView!Answer
  <1>3. OnPull!EndTransaction(r) => PullView!EndTransaction(r)
    BY <1>1 DEF OnPull!EndTransaction, PullView!EndTransaction
  <1>4. /\ streams' = streams => StreamsOf(OfPulls)' = StreamsOf(OfPulls)
        /\ pullRanked' = pullRanked /\ score' = score => ScoreOfPulls' = ScoreOfPulls
    BY ScoresKept DEF StreamsOf
  <1>5. (UNCHANGED OnPull!valkey) => (UNCHANGED PullView!valkey)
    BY <1>4 DEF OnPull!valkey, PullView!valkey
  <1>6. \A s : OnPull!Abort(r, s) => PullView!Abort(r, s)
    BY <1>1, <1>2, <1>3, <1>5 DEF OnPull!Abort, PullView!Abort, OnPull!table, PullView!table
  <1>7. ASSUME OnPull!AppendRecord(r)
        PROVE  PullView!AppendRecord(r)
    <2>1. /\ streams' = [streams EXCEPT ![SolutionMerge] = Append(@, OnPull!Record(r))]
          /\ SolutionMerge \in StreamName /\ DOMAIN streams = StreamName
          /\ PullView!SolutionMerge = SolutionMerge
      BY <1>7 DEF OnPull!AppendRecord, OnPull!AddToStream, Shared, StreamName,
             OnPull!SolutionMerge, SolutionMerge, PullView!SolutionMerge
    <2>2. StreamsOf(OfPulls)' =
            [StreamsOf(OfPulls) EXCEPT ![SolutionMerge] = Append(@, OnPull!Record(r))]
      BY <2>1 DEF StreamsOf, OfPulls
    <2> QED BY <1>1, <1>4, <1>7, <2>1, <2>2, PullReads
            DEF OnPull!AppendRecord, PullView!AppendRecord, PullView!AddToStream,
                OnPull!table, PullView!table, OnPull!work, PullView!work
  <1>8. ASSUME OnPull!Increment(r)
        PROVE  PullView!Increment(r)
    <2>1. ScoreOfPulls' = PullView!UpdateLeaderboard(ScoreOfPulls, ev[r].by, 1)
      BY <1>8, MergeMovesScore
    <2> QED BY <1>1, <1>4, <1>8, <2>1, PullReads
            DEF OnPull!Increment, PullView!Increment, OnPull!table, PullView!table,
                OnPull!work, PullView!work
  <1> QED BY <1>1, <1>2, <1>3, <1>5, <1>6, <1>7, <1>8

\* So a step of the handler is a step of its view.
LEMMA PullStepIsSeen ==
    ASSUME Shared, Summed, PullView!IInv, NEW r \in Request, ev[r] \in PullEvents,
           PullStep(r)
    PROVE  PullView!Next
  <1>1. ev' = ev
    BY PullMoves DEF Moves
  <1> USE PullReads, PullDoes, <1>1 DEF OnPull!table, PullView!table,
          OnPull!work, PullView!work
  <1>2. OnPull!Begin(r) => PullView!Begin(r)
    BY DEF OnPull!Begin, PullView!Begin
  <1>3. OnPull!Ignore(r) => PullView!Ignore(r)
    BY DEF OnPull!Ignore, PullView!Ignore
  <1>4. /\ OnPull!AddSolution(r) => PullView!AddSolution(r)
        /\ OnPull!AddSolutionRefused(r) => PullView!AddSolutionRefused(r)
    BY DEF OnPull!AddSolution, PullView!AddSolution,
           OnPull!AddSolutionRefused, PullView!AddSolutionRefused
  <1>5. /\ OnPull!CheckIfSolutionExist(r) => PullView!CheckIfSolutionExist(r)
        /\ OnPull!NoSolution(r) => PullView!NoSolution(r)
    BY DEF OnPull!CheckIfSolutionExist, PullView!CheckIfSolutionExist,
           OnPull!NoSolution, PullView!NoSolution
  <1>6. /\ OnPull!Scan(r) => PullView!Scan(r)
        /\ OnPull!Apply(r) => PullView!Apply(r)
        /\ OnPull!NoRowLeft(r) => PullView!NoRowLeft(r)
    BY DEF OnPull!Scan, PullView!Scan, OnPull!Apply, PullView!Apply,
           OnPull!NoRowLeft, PullView!NoRowLeft
  <1>7. /\ OnPull!Publish(r) => PullView!Publish(r)
        /\ OnPull!PublishReplyLost(r) => PullView!PublishReplyLost(r)
    BY DEF OnPull!Publish, PullView!Publish, OnPull!PublishReplyLost,
           PullView!PublishReplyLost
  <1>8. /\ OnPull!Rank(r) => PullView!Rank(r)
        /\ OnPull!RankReplyLost(r) => PullView!RankReplyLost(r)
    BY DEF OnPull!Rank, PullView!Rank, OnPull!RankReplyLost, PullView!RankReplyLost
  <1>9. /\ OnPull!Commit(r) => PullView!Commit(r)
        /\ OnPull!CommitReplyLost(r) => PullView!CommitReplyLost(r)
    BY DEF OnPull!Commit, PullView!Commit, OnPull!CommitReplyLost,
           PullView!CommitReplyLost, OnPull!Install, PullView!Install
  <1>10. OnPull!StepFails(r) => PullView!StepFails(r)
    BY DEF OnPull!StepFails, PullView!StepFails
  <1> QED BY <1>2, <1>3, <1>4, <1>5, <1>6, <1>7, <1>8, <1>9, <1>10
          DEF PullStep, OnPull!Progress, OnPull!Fault, PullView!Progress,
              PullView!Fault, PullView!Next
-----------------------------------------------------------------------------
(* The handler of comments.                                                *)

CommentStep(r) == OnComment!Progress(r) \/ OnComment!Fault(r) \/ OnComment!Lands(r)

\* A call that lands late is that of a comment.
LEMMA LateIsComment ==
    ASSUME CommentView!IInv, NEW r \in Request, OnComment!Lands(r)
    PROVE  pc[r] # "idle" /\ ev[r] \in Comments
  <1>1. r \in inDoubt \/ lateRanks[r] > 0 \/ lateRecords[r] > 0
    BY DEF OnComment!Lands, OnComment!Settles, OnComment!CommitLands,
           OnComment!CommitDropped, OnComment!RankLands, OnComment!RecordLands
  <1>2. PcOf(Comments)[r] # "idle"
    BY <1>1, CommentViewAssumptions, CommentView!LateIsDelivered
  <1> QED BY <1>2 DEF PcOf

\* The handler's way of moving is the server's.
LEMMA CommentWords ==
    ASSUME NEW r \in Request
    PROVE  /\ \A l : OnComment!Goto(r, l) <=> Goto(r, l)
           /\ \A s : OnComment!Answer(r, s) <=> Answer(r, s)
           /\ \A l : Goto(r, l) <=> pc' = [pc EXCEPT ![r] = l]
           /\ OnComment!Abort(r) => Answer(r, 500) /\ ev' = ev /\ conn' = conn \ {r}
           /\ \A role : OnComment!Dispatch(r, role) =>
                 /\ ev' = ev /\ conn' = conn \ {r}
                 /\ \/ \E s : Answer(r, s)
                    \/ resp' = resp /\ \E l \in {"begin", "publish"} : Goto(r, l)
  BY DEF OnComment!Goto, Goto, OnComment!Answer, Answer, OnComment!Abort,
         OnComment!EndTransaction, OnComment!Dispatch

\* A step of the handler moves its request.
LEMMA CommentMoves ==
    ASSUME NEW r \in Request, ev[r] \in Comments, CommentStep(r), Shared,
           CommentView!IInv
    PROVE  Moves(r)
  <1>1. ASSUME \/ OnComment!UpdateRefused(r) \/ OnComment!DispatcherNotRegistered(r)
               \/ OnComment!TransactionFails(r)
        PROVE  Moves(r)
    <2>1. pc[r] # "idle" /\ OnComment!Abort(r)
      BY <1>1 DEF OnComment!UpdateRefused, OnComment!DispatcherNotRegistered,
           OnComment!TransactionFails
    <2> QED BY <2>1, CommentWords, MovesByAnswer
  <1>2. ASSUME OnComment!FindMaintainer(r) \/ OnComment!ParticipantExists(r)
        PROVE  Moves(r)
    <2>1. pc[r] # "idle" /\ \E role : OnComment!Dispatch(r, role)
      BY <1>2 DEF OnComment!FindMaintainer, OnComment!ParticipantExists
    <2> QED BY <2>1, CommentWords, MovesByAnswer, MovesByGoto
  <1>3. ASSUME \/ OnComment!UnknownRepository(r) \/ OnComment!LookupFails(r)
               \/ OnComment!CommitReplyLost(r) \/ OnComment!RankFails(r)
               \/ OnComment!Publish(r) \/ OnComment!PublishFails(r)
        PROVE  Moves(r)
    <2>1. /\ pc[r] # "idle" /\ ev' = ev /\ (conn' = conn \/ conn' = conn \ {r})
          /\ \E s : OnComment!Answer(r, s)
      BY <1>3 DEF OnComment!UnknownRepository, OnComment!LookupFails,
           OnComment!CommitReplyLost, OnComment!RankFails, OnComment!Publish,
           OnComment!PublishFails, OnComment!AppendRecord
    <2> QED BY <2>1, CommentWords, MovesByAnswer
  <1>4. ASSUME \/ OnComment!AcquireForLookup(r) \/ OnComment!NotAMaintainer(r)
               \/ OnComment!Begin(r) \/ OnComment!UpdateUserBounty(r)
               \/ OnComment!AddBountyLog(r) \/ OnComment!Commit(r) \/ OnComment!Rank(r)
        PROVE  Moves(r)
    <2>1. /\ pc[r] # "idle" /\ ev' = ev /\ resp' = resp
          /\ conn' = conn \/ conn' = conn \cup {r} \/ conn' = conn \ {r}
          /\ \E l \in {"query", "account", "update", "insert", "commit", "rank", "publish"} :
                OnComment!Goto(r, l)
      BY <1>4 DEF OnComment!AcquireForLookup, OnComment!NotAMaintainer,
           OnComment!Begin, OnComment!UpdateUserBounty, OnComment!AddBountyLog,
           OnComment!Commit, OnComment!Rank, OnComment!Install,
           OnComment!EndTransaction, OnComment!Increment
    <2> QED BY <2>1, CommentWords, MovesByGoto
  <1>5. ASSUME OnComment!RankReplyLost(r) \/ OnComment!PublishReplyLost(r)
        PROVE  Moves(r)
    <2>1. pc[r] # "idle" /\ pc' = pc /\ ev' = ev /\ resp' = resp /\ conn' = conn
      BY <1>5 DEF OnComment!RankReplyLost, OnComment!PublishReplyLost
    <2> QED BY <2>1, MovesByWaiting
  <1>6. ASSUME OnComment!Lands(r)
        PROVE  Moves(r)
    <2>1. /\ pc' = pc /\ ev' = ev /\ resp' = resp
          /\ conn' = conn \/ conn' = conn \ {r}
      BY <1>6 DEF OnComment!Lands, OnComment!Settles, OnComment!CommitLands,
           OnComment!CommitDropped, OnComment!RankLands, OnComment!RecordLands,
           OnComment!Install, OnComment!EndTransaction, OnComment!Increment,
           OnComment!AppendRecord
    <2> QED BY <1>6, <2>1, LateIsComment, MovesByWaiting
  <1> QED BY <1>1, <1>2, <1>3, <1>4, <1>5, <1>6
          DEF CommentStep, OnComment!Progress, OnComment!Fault

\* The parts of the handler that look at nothing but the payload.
LEMMA SameCommands ==
    /\ CommentView!BountyCommands = OnComment!BountyCommands
    /\ CommentView!BadgeCommands = OnComment!BadgeCommands
    /\ CommentView!ClaimCommands = OnComment!ClaimCommands
    /\ \A c, by : CommentView!parseComment(c, by) = OnComment!parseComment(c, by)
    /\ \A c, roster : CommentView!IsMaintainer(c, roster)
                        <=> OnComment!IsMaintainer(c, roster)
    /\ \A c : CommentView!Amount(c) = OnComment!Amount(c)
    /\ \A c : CommentView!Points(c) = OnComment!Points(c)
    /\ \A sum : CommentView!Fits(sum) <=> OnComment!Fits(sum)
    /\ \A cmd : CommentView!StreamOf(cmd) = OnComment!StreamOf(cmd)
  <1>1. /\ CommentView!BountyCommands = OnComment!BountyCommands
        /\ CommentView!BadgeCommands = OnComment!BadgeCommands
        /\ CommentView!ClaimCommands = OnComment!ClaimCommands
    BY DEF CommentView!BountyCommands, OnComment!BountyCommands,
           CommentView!BadgeCommands, OnComment!BadgeCommands,
           CommentView!ClaimCommands, OnComment!ClaimCommands
  <1>2. \A c : CommentView!WellFormed(c) <=> OnComment!WellFormed(c)
    BY <1>1 DEF CommentView!WellFormed, OnComment!WellFormed
  <1>3. \A c, by : CommentView!parseComment(c, by) = OnComment!parseComment(c, by)
    BY <1>1, <1>2 DEF CommentView!parseComment, OnComment!parseComment
  <1>4. \A c, roster : CommentView!IsMaintainer(c, roster)
                         <=> OnComment!IsMaintainer(c, roster)
    BY DEF CommentView!IsMaintainer, OnComment!IsMaintainer
  <1>5. \A c : CommentView!Amount(c) = OnComment!Amount(c)
    BY DEF CommentView!Amount, OnComment!Amount, CommentView!SignedAmount,
           OnComment!SignedAmount, CommentView!Negate32, OnComment!Negate32,
           CommentView!Int32, OnComment!Int32
  <1>6. \A c : CommentView!Points(c) = OnComment!Points(c)
    BY <1>5 DEF CommentView!Points, OnComment!Points, CommentView!Point, OnComment!Point
  <1>7. \A sum : CommentView!Fits(sum) <=> OnComment!Fits(sum)
    BY DEF CommentView!Fits, OnComment!Fits, CommentView!INT, OnComment!INT
  <1>8. \A cmd : CommentView!StreamOf(cmd) = OnComment!StreamOf(cmd)
    BY <1>1 DEF CommentView!StreamOf, OnComment!StreamOf, CommentView!Bounty,
           OnComment!Bounty, CommentView!AutomaticEvents, OnComment!AutomaticEvents,
           CommentView!IssueClaim, OnComment!IssueClaim
  <1> QED BY <1>1, <1>3, <1>4, <1>5, <1>6, <1>7, <1>8

\* What the handler reads of a payload, of its tables, its streams and the pool
\* is what it sees in its view.
LEMMA CommentReads ==
    ASSUME Shared, NEW r \in Request, ev[r] \in Comments
    PROVE  /\ PcOf(Comments)[r] = pc[r] /\ EvOf(Comments)[r] = ev[r]
           /\ CommentView!CurrentMaintainers = OnComment!CurrentMaintainers
           /\ \A u : CommentView!Free(u) <=> OnComment!Free(u)
           /\ CommentView!LogRow(r) = OnComment!LogRow(r)
           /\ CommentView!Record(r) = OnComment!Record(r)
           /\ CommentView!Cardinality(CommentView!RecordsOf(r, CommentView!StreamOf(ev[r].cmd)))
                = OnComment!Cardinality(OnComment!RecordsOf(r, OnComment!StreamOf(ev[r].cmd)))
           /\ OnComment!PoolHasRoom => CommentView!PoolHasRoom
           /\ ev[r].target \in User /\ OnComment!Points(ev[r]) \in Int
  <1>1. PcOf(Comments)[r] = pc[r] /\ EvOf(Comments)[r] = ev[r]
    BY DEF PcOf, EvOf
  <1>2. /\ CommentView!CurrentMaintainers = OnComment!CurrentMaintainers
        /\ \A u : CommentView!Free(u) <=> OnComment!Free(u)
    BY DEF CommentView!CurrentMaintainers, OnComment!CurrentMaintainers,
           CommentView!Free, OnComment!Free
  <1>3. CommentView!LogRow(r) = OnComment!LogRow(r)
    BY <1>1, SameCommands DEF CommentView!LogRow, OnComment!LogRow
  <1>4. CommentView!Record(r) = OnComment!Record(r)
    BY <1>1, SameCommands DEF CommentView!Record, OnComment!Record
  <1>5. \A key \in StreamName \ OfPulls :
           CommentView!RecordsOf(r, key) = OnComment!RecordsOf(r, key)
    BY DEF CommentView!RecordsOf, OnComment!RecordsOf, StreamsOf
  <1>6. OnComment!StreamOf(ev[r].cmd) \in StreamName \ OfPulls
    BY DEF OnComment!StreamOf, StreamName, OfPulls, OnComment!Bounty,
           OnComment!AutomaticEvents, OnComment!IssueClaim, Bounty,
           AutomaticEvents, IssueClaim, SolutionMerge, OnComment!BountyCommands,
           OnComment!BadgeCommands
  <1>7. OnComment!PoolHasRoom => CommentView!PoolHasRoom
    BY RoomSeen, SameCounting DEF OnComment!PoolHasRoom, CommentView!PoolHasRoom
  <1>8. ev[r].target \in User
    BY HandlersAssumption DEF OnComment!CommentAssumption, OnComment!Comment
  <1>9. OnComment!Points(ev[r]) \in Int
    <2>1. CommentView!Amount(ev[r]) \in CommentView!INT
      BY CommentViewAssumptions, CommentView!AmountInRange
    <2>2. HalfRange \in Nat
      BY HandlersAssumption DEF OnComment!HalfRangeAssumption
    <2>3. OnComment!Amount(ev[r]) \in Int
      BY <2>1, <2>2, SameCommands DEF CommentView!INT
    <2> QED BY <2>3 DEF OnComment!Points, OnComment!Point
  <1> QED BY <1>1, <1>2, <1>3, <1>4, <1>5, <1>6, <1>7, <1>8, <1>9, SameCounting,
             SameCommands

\* What it does is what happens in its view.
LEMMA CommentDoes ==
    ASSUME Shared, Summed, NEW r \in Request, ev[r] \in Comments, ev' = ev,
           pullRanked' = pullRanked
    PROVE  /\ EvOf(Comments)' = EvOf(Comments)
           /\ \A l : OnComment!Goto(r, l) => CommentView!Goto(r, l)
           /\ \A s : OnComment!Answer(r, s) => CommentView!Answer(r, s)
           /\ pc' = pc => PcOf(Comments)' = PcOf(Comments)
           /\ resp' = resp => RespOf(Comments)' = RespOf(Comments)
           /\ conn' = conn => ConnOf(Comments)' = ConnOf(Comments)
           /\ conn' = conn \cup {r} => ConnOf(Comments)' = ConnOf(Comments) \cup {r}
           /\ conn' = conn \ {r} => ConnOf(Comments)' = ConnOf(Comments) \ {r}
           /\ OnComment!EndTransaction(r) => CommentView!EndTransaction(r)
           /\ streams' = streams => UNCHANGED StreamsOf(StreamName \ OfPulls)
           /\ score' = score => UNCHANGED ScoreOfComments
           /\ (UNCHANGED OnComment!valkey) => (UNCHANGED CommentView!valkey)
           /\ OnComment!Abort(r) => CommentView!Abort(r)
           /\ OnComment!AppendRecord(r) => CommentView!AppendRecord(r)
           /\ OnComment!Increment(r) => CommentView!Increment(r)
  <1>1. /\ EvOf(Comments)' = EvOf(Comments)
        /\ \A l : OnComment!Goto(r, l) => CommentView!Goto(r, l)
        /\ \A s : resp' = [resp EXCEPT ![r] = s] =>
              RespOf(Comments)' = [RespOf(Comments) EXCEPT ![r] = s]
        /\ pc' = pc => PcOf(Comments)' = PcOf(Comments)
        /\ resp' = resp => RespOf(Comments)' = RespOf(Comments)
        /\ conn' = conn => ConnOf(Comments)' = ConnOf(Comments)
        /\ conn' = conn \cup {r} => ConnOf(Comments)' = ConnOf(Comments) \cup {r}
        /\ conn' = conn \ {r} => ConnOf(Comments)' = ConnOf(Comments) \ {r}
    BY Seen DEF OnComment!Goto, CommentView!Goto
  <1>2. \A s : OnComment!Answer(r, s) => CommentView!Answer(r, s)
    BY <1>1 DEF OnComment!Answer, CommentView!Answer
  <1>3. OnComment!EndTransaction(r) => CommentView!EndTransaction(r)
    BY <1>1 DEF OnComment!EndTransaction, CommentView!EndTransaction
  <1> DEFINE mine == StreamName \ OfPulls
  <1>4. /\ streams' = streams => StreamsOf(mine)' = StreamsOf(mine)
        /\ score' = score => ScoreOfComments' = ScoreOfComments
    BY ScoresKept DEF StreamsOf
  <1>5. (UNCHANGED OnComment!valkey) => (UNCHANGED CommentView!valkey)
    BY <1>4 DEF OnComment!valkey, CommentView!valkey, OnComment!late, CommentView!late
  <1>6. OnComment!Abort(r) => CommentView!Abort(r)
    BY <1>1, <1>2, <1>3, <1>5
       DEF OnComment!Abort, CommentView!Abort, OnComment!roles, CommentView!roles
  <1>7. ASSUME OnComment!AppendRecord(r)
        PROVE  CommentView!AppendRecord(r)
    <2> DEFINE key == OnComment!StreamOf(ev[r].cmd)
    <2>1. streams' = [streams EXCEPT ![key] = Append(@, OnComment!Record(r))]
      BY <1>7 DEF OnComment!AppendRecord, OnComment!AddToStream
    <2>2. key \in mine /\ DOMAIN streams = StreamName
      BY DEF OnComment!StreamOf, StreamName, OfPulls, OnComment!Bounty,
             OnComment!AutomaticEvents, OnComment!IssueClaim, Bounty,
             AutomaticEvents, IssueClaim, SolutionMerge, Shared
    <2> HIDE DEF key
    <2>3. StreamsOf(mine)' =
            [StreamsOf(mine) EXCEPT ![key] = Append(@, OnComment!Record(r))]
      BY <2>1, <2>2 DEF StreamsOf
    <2>4. CommentView!StreamOf(EvOf(Comments)[r].cmd) = key
      BY CommentReads, SameCommands DEF key
    <2> QED BY <1>1, <1>4, <1>7, <2>3, <2>4, CommentReads
            DEF OnComment!AppendRecord, CommentView!AppendRecord, CommentView!AddToStream,
                OnComment!roles, CommentView!roles, OnComment!store, CommentView!store
  <1>8. ASSUME OnComment!Increment(r)
        PROVE  CommentView!Increment(r)
    <2> DEFINE u == ev[r].target
               p == OnComment!Points(ev[r])
    <2>1. score' = [score EXCEPT ![u] = @ + p]
      BY <1>8 DEF OnComment!Increment, OnComment!UpdateLeaderboard
    <2>2. u \in User /\ p \in Int
      BY CommentReads
    <2>3. /\ EvOf(Comments)[r].target = u
          /\ CommentView!Points(EvOf(Comments)[r]) = p
      BY CommentReads, SameCommands
    <2> HIDE DEF u, p
    <2>4. ScoreOfComments' = [ScoreOfComments EXCEPT ![u] = @ + p]
      BY <2>1, <2>2, CommandMovesScore
    <2> QED BY <1>1, <1>4, <1>8, <2>3, <2>4
            DEF OnComment!Increment, CommentView!Increment,
                CommentView!UpdateLeaderboard, OnComment!roles, CommentView!roles,
                OnComment!store, CommentView!store
  <1> QED BY <1>1, <1>2, <1>3, <1>4, <1>5, <1>6, <1>7, <1>8

\* So a step of the handler is a step of its view.
LEMMA CommentStepIsSeen ==
    ASSUME Shared, Summed, CommentView!IInv, NEW r \in Request, ev[r] \in Comments,
           CommentStep(r), pullRanked' = pullRanked
    PROVE  CommentView!Next
  <1>1. ev' = ev
    BY CommentMoves DEF Moves
  <1> USE CommentReads, CommentDoes, <1>1 DEF OnComment!roles, CommentView!roles,
          OnComment!store, CommentView!store
  <1>2. \A role : OnComment!Dispatch(r, role) => CommentView!Dispatch(r, role)
    <2> SUFFICES ASSUME NEW role, OnComment!Dispatch(r, role)
                 PROVE  CommentView!Dispatch(r, role)
      OBVIOUS
    <2> DEFINE command == OnComment!parseComment(ev[r], role)
    <2>1. CommentView!parseComment(EvOf(Comments)[r], role) = command
      BY SameCommands
    <2>2. /\ conn' = conn \ {r} /\ action' = [action EXCEPT ![r] = command]
          /\ UNCHANGED <<maintainers, trusted>>
          /\ UNCHANGED OnComment!store /\ UNCHANGED OnComment!valkey
      BY DEF OnComment!Dispatch
    <2>3. \/ command = "NoAction" /\ OnComment!Answer(r, 200)
          \/ command = "SyntaxError" /\ OnComment!Answer(r, 500)
          \/ command \in OnComment!BountyCommands /\ OnComment!Goto(r, "begin") /\ UNCHANGED resp
          \/ /\ command \in OnComment!BadgeCommands \cup OnComment!ClaimCommands
             /\ OnComment!Goto(r, "publish") /\ UNCHANGED resp
      BY DEF OnComment!Dispatch
    <2> HIDE DEF command
    <2>4. \/ command = "NoAction" /\ CommentView!Answer(r, 200)
          \/ command = "SyntaxError" /\ CommentView!Answer(r, 500)
          \/ /\ command \in CommentView!BountyCommands
             /\ CommentView!Goto(r, "begin") /\ UNCHANGED RespOf(Comments)
          \/ /\ command \in CommentView!BadgeCommands \cup CommentView!ClaimCommands
             /\ CommentView!Goto(r, "publish") /\ UNCHANGED RespOf(Comments)
      BY <2>3, SameCommands
    <2>5. /\ ConnOf(Comments)' = ConnOf(Comments) \ {r}
          /\ UNCHANGED EvOf(Comments) /\ UNCHANGED CommentView!valkey
          /\ UNCHANGED CommentView!store
      BY <2>2
    <2> QED BY <2>1, <2>2, <2>4, <2>5 DEF CommentView!Dispatch
  <1>3. OnComment!AcquireForLookup(r) => CommentView!AcquireForLookup(r)
    BY DEF OnComment!AcquireForLookup, CommentView!AcquireForLookup
  <1>4. /\ OnComment!FindMaintainer(r) => CommentView!FindMaintainer(r)
        /\ OnComment!NotAMaintainer(r) => CommentView!NotAMaintainer(r)
    BY <1>2, SameCommands DEF OnComment!FindMaintainer, CommentView!FindMaintainer,
           OnComment!NotAMaintainer, CommentView!NotAMaintainer
  <1>5. /\ OnComment!ParticipantExists(r) => CommentView!ParticipantExists(r)
        /\ OnComment!UnknownRepository(r) => CommentView!UnknownRepository(r)
        /\ OnComment!LookupFails(r) => CommentView!LookupFails(r)
    BY <1>2 DEF OnComment!ParticipantExists, CommentView!ParticipantExists,
           OnComment!UnknownRepository, CommentView!UnknownRepository,
           OnComment!LookupFails, CommentView!LookupFails
  <1>6. OnComment!Begin(r) => CommentView!Begin(r)
    BY DEF OnComment!Begin, CommentView!Begin
  <1>7. /\ OnComment!UpdateUserBounty(r) => CommentView!UpdateUserBounty(r)
        /\ OnComment!UpdateRefused(r) => CommentView!UpdateRefused(r)
    BY SameCommands DEF OnComment!UpdateUserBounty, CommentView!UpdateUserBounty,
           OnComment!UpdateRefused, CommentView!UpdateRefused
  <1>8. /\ OnComment!AddBountyLog(r) => CommentView!AddBountyLog(r)
        /\ OnComment!DispatcherNotRegistered(r) => CommentView!DispatcherNotRegistered(r)
        /\ OnComment!TransactionFails(r) => CommentView!TransactionFails(r)
    BY DEF OnComment!AddBountyLog, CommentView!AddBountyLog,
           OnComment!DispatcherNotRegistered, CommentView!DispatcherNotRegistered,
           OnComment!TransactionFails, CommentView!TransactionFails
  <1>9. OnComment!Install(r) => CommentView!Install(r)
    BY DEF OnComment!Install, CommentView!Install
  <1>10. /\ OnComment!Commit(r) => CommentView!Commit(r)
         /\ OnComment!CommitReplyLost(r) => CommentView!CommitReplyLost(r)
    BY <1>9 DEF OnComment!Commit, CommentView!Commit,
           OnComment!CommitReplyLost, CommentView!CommitReplyLost
  <1>13. /\ OnComment!CommitLands(r) => CommentView!CommitLands(r)
         /\ OnComment!CommitDropped(r) => CommentView!CommitDropped(r)
    BY <1>9 DEF OnComment!CommitLands, CommentView!CommitLands,
           OnComment!CommitDropped, CommentView!CommitDropped
  <1>14. /\ OnComment!RankLands(r) => CommentView!RankLands(r)
         /\ OnComment!RecordLands(r) => CommentView!RecordLands(r)
    BY DEF OnComment!RankLands, CommentView!RankLands,
           OnComment!RecordLands, CommentView!RecordLands
  <1>11. /\ OnComment!Rank(r) => CommentView!Rank(r)
         /\ OnComment!RankReplyLost(r) => CommentView!RankReplyLost(r)
         /\ OnComment!RankFails(r) => CommentView!RankFails(r)
    <2>1. OnComment!Rank(r) => CommentView!Rank(r)
      BY DEF OnComment!Rank, CommentView!Rank
    <2>2. OnComment!RankReplyLost(r) => CommentView!RankReplyLost(r)
      BY DEF OnComment!RankReplyLost, CommentView!RankReplyLost
    <2>3. OnComment!RankFails(r) => CommentView!RankFails(r)
      BY DEF OnComment!RankFails, CommentView!RankFails
    <2> QED BY <2>1, <2>2, <2>3
  <1>12. /\ OnComment!Publish(r) => CommentView!Publish(r)
         /\ OnComment!PublishReplyLost(r) => CommentView!PublishReplyLost(r)
         /\ OnComment!PublishFails(r) => CommentView!PublishFails(r)
    <2>1. OnComment!Publish(r) => CommentView!Publish(r)
      BY DEF OnComment!Publish, CommentView!Publish
    <2>2. OnComment!PublishReplyLost(r) => CommentView!PublishReplyLost(r)
      BY DEF OnComment!PublishReplyLost, CommentView!PublishReplyLost
    <2>3. OnComment!PublishFails(r) => CommentView!PublishFails(r)
      BY DEF OnComment!PublishFails, CommentView!PublishFails
    <2> QED BY <2>1, <2>2, <2>3
  <1> QED BY <1>3, <1>4, <1>5, <1>6, <1>7, <1>8, <1>10, <1>11, <1>12, <1>13, <1>14
          DEF CommentStep, OnComment!Progress, OnComment!Fault, OnComment!Lands,
              OnComment!Settles, CommentView!Progress, CommentView!Fault,
              CommentView!Lands, CommentView!Settles, CommentView!Next
-----------------------------------------------------------------------------
(* What a step of one handler does to the views of the others: nothing.    *)

\* A request that moves keeps what the handlers share.
LEMMA SharedByMoves ==
    ASSUME Shared, NEW r \in Request, Moves(r), DOMAIN streams' = StreamName,
           score' \in [User -> Int]
    PROVE  Shared'
  <1>1. conn' \subseteq Request /\ IsFiniteSet(conn')
    BY FS_AddElement, FS_RemoveElement DEF Shared, Moves
  <1>2. ASSUME NEW q \in Request
        PROVE  /\ pc'[q] = "idle" => ev'[q] = NoPayload /\ resp'[q] = 0 /\ q \notin conn'
               /\ pc'[q] \in {"lookup", "query"} => ev'[q] \in Comments
    BY DEF Shared, Moves
  <1> QED BY <1>1, <1>2 DEF Shared, Moves

\* The handler of comments writes to streams of its own.
LEMMA CommentWrites ==
    ASSUME Shared, Summed, CommentView!IInv, NEW r \in Request, ev[r] \in Comments,
           CommentStep(r), pullRanked' = pullRanked
    PROVE  /\ DOMAIN streams' = StreamName /\ score' \in [User -> Int]
           /\ Summed' /\ ScoreOfPulls' = ScoreOfPulls
           /\ StreamsOf(OfPulls)' = StreamsOf(OfPulls)
  <1>1. ev' = ev
    BY CommentMoves DEF Moves
  <1>2. \/ streams' = streams /\ score' = score
        \/ OnComment!Increment(r)
        \/ OnComment!AppendRecord(r)
    BY DEF CommentStep, OnComment!Progress, OnComment!Fault, OnComment!Lands,
           OnComment!Settles, OnComment!CommitLands, OnComment!CommitDropped,
           OnComment!RankLands, OnComment!RecordLands, OnComment!valkey,
           OnComment!AcquireForLookup,
           OnComment!FindMaintainer, OnComment!NotAMaintainer, OnComment!Dispatch,
           OnComment!ParticipantExists, OnComment!UnknownRepository,
           OnComment!LookupFails, OnComment!Begin, OnComment!UpdateUserBounty,
           OnComment!UpdateRefused, OnComment!AddBountyLog,
           OnComment!DispatcherNotRegistered, OnComment!TransactionFails,
           OnComment!Abort, OnComment!Commit, OnComment!CommitReplyLost,
           OnComment!Install, OnComment!Rank, OnComment!RankReplyLost,
           OnComment!RankFails, OnComment!Publish, OnComment!PublishReplyLost,
           OnComment!PublishFails
  <1>3. CASE streams' = streams /\ score' = score
    BY <1>1, <1>3, ScoresKept DEF Shared, StreamsOf
  <1>4. CASE OnComment!Increment(r)
    <2>1. /\ score' = [score EXCEPT ![ev[r].target] = @ + OnComment!Points(ev[r])]
          /\ streams' = streams
      BY <1>4 DEF OnComment!Increment, OnComment!UpdateLeaderboard
    <2>2. ev[r].target \in User /\ OnComment!Points(ev[r]) \in Int
      BY CommentReads
    <2> QED BY <1>1, <2>1, <2>2, CommandMovesScore DEF Shared, StreamsOf
  <1>5. CASE OnComment!AppendRecord(r)
    <2> DEFINE key == OnComment!StreamOf(ev[r].cmd)
    <2>1. /\ streams' = [streams EXCEPT ![key] = Append(@, OnComment!Record(r))]
          /\ score' = score
      BY <1>5 DEF OnComment!AppendRecord, OnComment!AddToStream
    <2>2. key \notin OfPulls
      BY DEF OnComment!StreamOf, OfPulls, OnComment!Bounty,
             OnComment!AutomaticEvents, OnComment!IssueClaim, SolutionMerge
    <2> HIDE DEF key
    <2>3. DOMAIN streams' = StreamName /\ StreamsOf(OfPulls)' = StreamsOf(OfPulls)
      BY <2>1, <2>2 DEF Shared, StreamsOf
    <2> QED BY <1>1, <2>1, <2>3, ScoresKept DEF Shared
  <1> QED BY <1>2, <1>3, <1>4, <1>5

\* So does the handler of pull requests.
LEMMA PullWrites ==
    ASSUME Shared, Summed, PullView!IInv, NEW r \in Request, ev[r] \in PullEvents,
           PullStep(r)
    PROVE  /\ DOMAIN streams' = StreamName /\ score' \in [User -> Int]
           /\ Summed' /\ ScoreOfComments' = ScoreOfComments
           /\ StreamsOf(StreamName \ OfPulls)' = StreamsOf(StreamName \ OfPulls)
  <1> DEFINE others == StreamName \ OfPulls
  <1>1. ev' = ev
    BY PullMoves DEF Moves
  <1>2. \/ UNCHANGED OnPull!valkey
        \/ OnPull!Increment(r)
        \/ OnPull!AppendRecord(r)
    BY DEF PullStep, OnPull!Progress, OnPull!Fault, OnPull!Begin, OnPull!Ignore,
           OnPull!AddSolution, OnPull!AddSolutionRefused, OnPull!CheckIfSolutionExist,
           OnPull!NoSolution, OnPull!Scan, OnPull!Apply, OnPull!NoRowLeft,
           OnPull!Publish, OnPull!PublishReplyLost, OnPull!Rank, OnPull!RankReplyLost,
           OnPull!Commit, OnPull!CommitReplyLost, OnPull!StepFails, OnPull!Abort
  <1>3. CASE UNCHANGED OnPull!valkey
    <2>1. streams' = streams /\ score' = score /\ pullRanked' = pullRanked
      BY <1>3 DEF OnPull!valkey
    <2> QED BY <1>1, <2>1, ScoresKept DEF Shared, StreamsOf
  <1>4. CASE OnPull!Increment(r)
    <2>1. streams' = streams
      BY <1>4 DEF OnPull!Increment
    <2> QED BY <1>4, <2>1, MergeMovesScore DEF Shared, StreamsOf
  <1>5. CASE OnPull!AppendRecord(r)
    <2>1. /\ streams' = [streams EXCEPT ![SolutionMerge] = Append(@, OnPull!Record(r))]
          /\ score' = score /\ pullRanked' = pullRanked
      BY <1>5 DEF OnPull!AppendRecord, OnPull!AddToStream, OnPull!SolutionMerge,
             SolutionMerge
    <2>2. DOMAIN streams' = StreamName /\ StreamsOf(others)' = StreamsOf(others)
      BY <2>1 DEF Shared, StreamsOf, OfPulls
    <2> QED BY <1>1, <2>1, <2>2, ScoresKept DEF Shared
  <1> QED BY <1>2, <1>3, <1>4, <1>5

\* The handler of pings.
PingStep(r) == OnPing!Progress(r) \/ OnPing!Fault(r)

LEMMA PingWords ==
    ASSUME NEW r \in Request
    PROVE  /\ \A l : OnPing!Goto(r, l) <=> pc' = [pc EXCEPT ![r] = l]
           /\ \A s : OnPing!Answer(r, s) <=> Answer(r, s)
           /\ OnPing!Abort(r) => /\ Answer(r, 500) /\ ev' = ev /\ conn' = conn \ {r}
                                 /\ onDisplay' = onDisplay
  BY DEF OnPing!Goto, Goto, OnPing!Answer, Answer, OnPing!Abort, OnPing!EndTransaction

LEMMA PingMoves ==
    ASSUME NEW r \in Request, PingStep(r), Shared
    PROVE  Moves(r)
  <1>1. ASSUME OnPing!NotRegistered(r) \/ OnPing!TransactionFails(r)
        PROVE  Moves(r)
    <2>1. pc[r] # "idle" /\ OnPing!Abort(r)
      BY <1>1 DEF OnPing!NotRegistered, OnPing!TransactionFails
    <2> QED BY <2>1, PingWords, MovesByAnswer
  <1>2. ASSUME OnPing!PanicRecovery(r) \/ OnPing!Commit(r) \/ OnPing!CommitReplyLost(r)
        PROVE  Moves(r)
    <2>1. /\ pc[r] # "idle" /\ ev' = ev /\ (conn' = conn \/ conn' = conn \ {r})
          /\ \E s : OnPing!Answer(r, s)
      BY <1>2 DEF OnPing!PanicRecovery, OnPing!Commit, OnPing!CommitReplyLost,
           OnPing!Install, OnPing!EndTransaction
    <2> QED BY <2>1, PingWords, MovesByAnswer
  <1>3. ASSUME OnPing!Begin(r) \/ OnPing!UpdateRepositoryOnDisplay(r)
        PROVE  Moves(r)
    <2>1. /\ pc[r] # "idle" /\ ev' = ev /\ resp' = resp
          /\ conn' = conn \/ conn' = conn \cup {r}
          /\ \E l \in {"update", "commit"} : OnPing!Goto(r, l)
      BY <1>3 DEF OnPing!Begin, OnPing!UpdateRepositoryOnDisplay
    <2> QED BY <2>1, PingWords, MovesByGoto
  <1> QED BY <1>1, <1>2, <1>3 DEF PingStep, OnPing!Progress, OnPing!Fault
-----------------------------------------------------------------------------
(* Every step of the server is a step of each view, or none.               *)

\* The invariant of the server: each view has the one of its handler.
IInv ==
    /\ Shared /\ Summed
    /\ CommentView!IInv /\ PullView!IInv /\ IssueView!IInv
    /\ PingIsShown

EachSees ==
    /\ CommentView!Next \/ UNCHANGED CommentView!vars
    /\ PullView!Next \/ UNCHANGED PullView!vars
    /\ IssueView!Next \/ UNCHANGED IssueView!vars
    /\ Shared' /\ Summed'

\* What a view consists of.
LEMMA ViewsAre ==
    /\ (UNCHANGED <<PcOf(Comments), EvOf(Comments), RespOf(Comments), ConnOf(Comments)>>)
         /\ ScoreOfComments' = ScoreOfComments
         /\ StreamsOf(StreamName \ OfPulls)' = StreamsOf(StreamName \ OfPulls)
         /\ (UNCHANGED ofComments)
       => UNCHANGED CommentView!vars
    /\ (UNCHANGED <<PcOf(PullEvents), EvOf(PullEvents), RespOf(PullEvents), ConnOf(PullEvents)>>)
         /\ ScoreOfPulls' = ScoreOfPulls
         /\ StreamsOf(OfPulls)' = StreamsOf(OfPulls)
         /\ (UNCHANGED ofPulls)
       => UNCHANGED PullView!vars
    /\ (UNCHANGED <<PcOf(IssueEvents), EvOf(IssueEvents), RespOf(IssueEvents), ConnOf(IssueEvents)>>)
         /\ (UNCHANGED ofIssues)
       => UNCHANGED IssueView!vars
  BY DEF ofComments, ofPulls, ofIssues, CommentView!vars, PullView!vars, IssueView!vars

\* A step of a handler is seen by nobody else.
LEMMA CommentHandled ==
    ASSUME IInv, NEW r \in Request, ev[r] \in Comments, CommentStep(r), ByComment
    PROVE  EachSees
  <1>1. /\ Shared /\ Summed /\ CommentView!IInv
        /\ UNCHANGED ofPulls /\ UNCHANGED ofIssues
    BY DEF IInv, ByComment
  <1>2. pullRanked' = pullRanked
    BY <1>1 DEF ofPulls
  <1>3. Moves(r) /\ ev[r] \notin PullEvents /\ ev[r] \notin IssueEvents
    BY <1>1, CommentMoves, OneKind
  <1>4. CommentView!Next
    BY <1>1, <1>2, CommentStepIsSeen
  <1>5. /\ DOMAIN streams' = StreamName /\ score' \in [User -> Int]
        /\ Summed' /\ ScoreOfPulls' = ScoreOfPulls
        /\ StreamsOf(OfPulls)' = StreamsOf(OfPulls)
    BY <1>1, <1>2, CommentWrites
  <1>6. Shared'
    BY <1>1, <1>3, <1>5, SharedByMoves
  <1>7. UNCHANGED PullView!vars /\ UNCHANGED IssueView!vars
    <2>1. \A kind : ev[r] \notin kind =>
            UNCHANGED <<PcOf(kind), EvOf(kind), RespOf(kind), ConnOf(kind)>>
      BY <1>1, <1>3, Unseen
    <2> QED BY <2>1, <1>1, <1>3, <1>5, ViewsAre
  <1> QED BY <1>4, <1>5, <1>6, <1>7 DEF EachSees

LEMMA PullHandled ==
    ASSUME IInv, NEW r \in Request, ev[r] \in PullEvents, PullStep(r), ByPull
    PROVE  EachSees
  <1>1. Shared /\ Summed /\ PullView!IInv /\ UNCHANGED ofComments /\ UNCHANGED ofIssues
    BY DEF IInv, ByPull
  <1>2. Moves(r) /\ ev[r] \notin Comments /\ ev[r] \notin IssueEvents
    BY <1>1, PullMoves, OneKind
  <1>3. PullView!Next
    BY <1>1, PullStepIsSeen
  <1>4. /\ DOMAIN streams' = StreamName /\ score' \in [User -> Int]
        /\ Summed' /\ ScoreOfComments' = ScoreOfComments
        /\ StreamsOf(StreamName \ OfPulls)' = StreamsOf(StreamName \ OfPulls)
    BY <1>1, PullWrites
  <1>5. Shared'
    BY <1>1, <1>2, <1>4, SharedByMoves
  <1>6. UNCHANGED CommentView!vars /\ UNCHANGED IssueView!vars
    <2>1. \A kind : ev[r] \notin kind =>
            UNCHANGED <<PcOf(kind), EvOf(kind), RespOf(kind), ConnOf(kind)>>
      BY <1>1, <1>2, Unseen
    <2> QED BY <2>1, <1>1, <1>2, <1>4, ViewsAre
  <1> QED BY <1>3, <1>4, <1>5, <1>6 DEF EachSees

\* Who does not write to Valkey leaves both parts of the leaderboard alone.
LEMMA ValkeyKept ==
    ASSUME Shared, Summed, ev' = ev, UNCHANGED valkey, UNCHANGED ofPulls
    PROVE  /\ DOMAIN streams' = StreamName /\ score' \in [User -> Int]
           /\ Summed' /\ ScoreOfComments' = ScoreOfComments /\ ScoreOfPulls' = ScoreOfPulls
           /\ \A keys : StreamsOf(keys)' = StreamsOf(keys)
  <1>1. streams' = streams /\ score' = score /\ pullRanked' = pullRanked
    BY DEF valkey, ofPulls
  <1> QED BY <1>1, ScoresKept DEF Shared, StreamsOf

LEMMA IssueHandled ==
    ASSUME IInv, NEW r \in Request, ev[r] \in IssueEvents, IssueStep(r), ByIssue
    PROVE  EachSees
  <1>1. /\ Shared /\ Summed /\ IssueView!IInv
        /\ UNCHANGED ofComments /\ UNCHANGED ofPulls /\ UNCHANGED valkey
    BY DEF IInv, ByIssue
  <1>2. Moves(r) /\ ev' = ev /\ ev[r] \notin Comments /\ ev[r] \notin PullEvents
    BY <1>1, IssueMoves, OneKind DEF Moves
  <1>3. IssueView!Next
    BY <1>1, IssueStepIsSeen
  <1>4. Shared' /\ Summed'
    BY <1>1, <1>2, ValkeyKept, SharedByMoves
  <1>5. UNCHANGED CommentView!vars /\ UNCHANGED PullView!vars
    <2>1. \A kind : ev[r] \notin kind =>
            UNCHANGED <<PcOf(kind), EvOf(kind), RespOf(kind), ConnOf(kind)>>
      BY <1>1, <1>2, Unseen
    <2> QED BY <2>1, <1>1, <1>2, ValkeyKept, ViewsAre
  <1> QED BY <1>3, <1>4, <1>5 DEF EachSees

LEMMA PingHandled ==
    ASSUME IInv, NEW r \in Request, ev[r] \in Pings, PingStep(r), ByPing
    PROVE  EachSees
  <1>1. /\ Shared /\ Summed /\ UNCHANGED ofComments /\ UNCHANGED ofPulls
        /\ UNCHANGED ofIssues /\ UNCHANGED valkey
    BY DEF IInv, ByPing
  <1>2. /\ Moves(r) /\ ev' = ev /\ ev[r] \notin Comments /\ ev[r] \notin PullEvents
        /\ ev[r] \notin IssueEvents
    BY <1>1, PingMoves, OneKind DEF Moves
  <1>3. Shared' /\ Summed'
    BY <1>1, <1>2, ValkeyKept, SharedByMoves
  <1>4. \A kind : ev[r] \notin kind =>
            UNCHANGED <<PcOf(kind), EvOf(kind), RespOf(kind), ConnOf(kind)>>
    BY <1>1, <1>2, Unseen
  <1>5. /\ UNCHANGED CommentView!vars /\ UNCHANGED PullView!vars
        /\ UNCHANGED IssueView!vars
    BY <1>4, <1>1, <1>2, ValkeyKept, ViewsAre
  <1> QED BY <1>3, <1>5 DEF EachSees

\* A delivery keeps what the handlers share.
LEMMA SharedByDelivery ==
    ASSUME Shared, Summed, PullView!IInv, NEW r \in Request, pc[r] = "idle",
           NEW e, ev' = [ev EXCEPT ![r] = e],
           NEW l, pc' = [pc EXCEPT ![r] = l], l # "idle",
           l \in {"lookup", "query"} => e \in Comments,
           conn' = conn, resp' = resp, streams' = streams, score' = score,
           pullRanked' = pullRanked
    PROVE  /\ Shared' /\ Summed'
           /\ ScoreOfPulls' = ScoreOfPulls /\ ScoreOfComments' = ScoreOfComments
           /\ \A keys : StreamsOf(keys)' = StreamsOf(keys)
  <1>1. Shared'
    BY DEF Shared
  <1> QED BY <1>1, DeliveryMovesNoScore DEF StreamsOf

LEMMA WebhookSeen ==
    ASSUME IInv, NEW r \in Request, Webhook(r)
    PROVE  EachSees
  <1>1. Shared /\ Summed /\ PullView!IInv
    BY DEF IInv
  <1>2. ASSUME NEW e \in Comments, ByComment, OnComment!Deliver(r, e)
        PROVE  EachSees
    <2>1. /\ pc[r] = "idle" /\ ev' = [ev EXCEPT ![r] = e]
          /\ pc' = [pc EXCEPT ![r] = "lookup"] /\ resp' = resp /\ conn' = conn
          /\ trusted' = IF OnComment!IsMaintainer(e, maintainers)
                          THEN trusted \cup {r} ELSE trusted
          /\ UNCHANGED <<maintainers, action>> /\ UNCHANGED OnComment!store
          /\ streams' = streams /\ score' = score /\ ranked' = ranked
          /\ UNCHANGED <<lateRanks, lateRecords>>
          /\ UNCHANGED ofPulls /\ UNCHANGED ofIssues
      BY <1>2 DEF ByComment, OnComment!Deliver, OnComment!Goto, OnComment!valkey,
         OnComment!late
    <2>2. pullRanked' = pullRanked
      BY <2>1 DEF ofPulls
    <2>3. /\ Shared' /\ Summed'
          /\ ScoreOfPulls' = ScoreOfPulls /\ ScoreOfComments' = ScoreOfComments
          /\ \A keys : StreamsOf(keys)' = StreamsOf(keys)
      BY <1>1, <2>1, <2>2, SharedByDelivery
    <2>4. /\ PcOf(Comments)[r] = "idle"
          /\ PcOf(Comments)' = [PcOf(Comments) EXCEPT ![r] = "lookup"]
          /\ EvOf(Comments)' = [EvOf(Comments) EXCEPT ![r] = e]
          /\ UNCHANGED <<RespOf(Comments), ConnOf(Comments)>>
      BY <1>1, <2>1, SeenDelivery, OneKind
    <2>5. CommentView!Deliver(r, e)
      BY <2>1, <2>3, <2>4, SameCommands
         DEF CommentView!Deliver, CommentView!Goto, CommentView!store, OnComment!store,
             CommentView!valkey, CommentView!late
    <2>6. \A kind : e \notin kind /\ NoPayload \notin kind =>
            UNCHANGED <<PcOf(kind), EvOf(kind), RespOf(kind), ConnOf(kind)>>
      BY <1>1, <2>1, SeenDelivery
    <2>7. UNCHANGED PullView!vars /\ UNCHANGED IssueView!vars
      BY <2>1, <2>3, <2>6, OneKind, ViewsAre
    <2> QED BY <2>3, <2>5, <2>7 DEF EachSees, CommentView!Next
  <1>3. ASSUME NEW e \in PullEvents, ByPull, OnPull!Deliver(r, e)
        PROVE  EachSees
    <2>1. /\ pc[r] = "idle" /\ ev' = [ev EXCEPT ![r] = e]
          /\ pc' = [pc EXCEPT ![r] = "begin"] /\ resp' = resp /\ conn' = conn
          /\ UNCHANGED OnPull!table /\ UNCHANGED OnPull!work
          /\ streams' = streams /\ score' = score /\ pullRanked' = pullRanked
          /\ UNCHANGED ofComments /\ UNCHANGED ofIssues
      BY <1>3 DEF ByPull, OnPull!Deliver, OnPull!Goto, OnPull!valkey
    <2>2. /\ Shared' /\ Summed'
          /\ ScoreOfPulls' = ScoreOfPulls /\ ScoreOfComments' = ScoreOfComments
          /\ \A keys : StreamsOf(keys)' = StreamsOf(keys)
      BY <1>1, <2>1, SharedByDelivery
    <2>3. /\ PcOf(PullEvents)[r] = "idle"
          /\ PcOf(PullEvents)' = [PcOf(PullEvents) EXCEPT ![r] = "begin"]
          /\ EvOf(PullEvents)' = [EvOf(PullEvents) EXCEPT ![r] = e]
          /\ UNCHANGED <<RespOf(PullEvents), ConnOf(PullEvents)>>
      BY <1>1, <2>1, SeenDelivery, OneKind
    <2>4. PullView!Deliver(r, e)
      BY <2>1, <2>2, <2>3
         DEF PullView!Deliver, PullView!Goto, PullView!table, OnPull!table,
             PullView!work, OnPull!work, PullView!valkey
    <2>5. \A kind : e \notin kind /\ NoPayload \notin kind =>
            UNCHANGED <<PcOf(kind), EvOf(kind), RespOf(kind), ConnOf(kind)>>
      BY <1>1, <2>1, SeenDelivery
    <2>6. UNCHANGED CommentView!vars /\ UNCHANGED IssueView!vars
      BY <2>1, <2>2, <2>5, OneKind, ViewsAre
    <2> QED BY <2>2, <2>4, <2>6 DEF EachSees, PullView!Next
  <1>4. ASSUME NEW e \in IssueEvents, ByIssue, OnIssue!Deliver(r, e)
        PROVE  EachSees
    <2>1. /\ pc[r] = "idle" /\ ev' = [ev EXCEPT ![r] = e]
          /\ pc' = [pc EXCEPT ![r] = "dispatch"] /\ resp' = resp /\ conn' = conn
          /\ UNCHANGED OnIssue!tables /\ UNCHANGED OnIssue!work
          /\ streams' = streams /\ score' = score
          /\ UNCHANGED ofComments /\ UNCHANGED ofPulls
      BY <1>4 DEF ByIssue, OnIssue!Deliver, OnIssue!Goto, valkey
    <2>2. pullRanked' = pullRanked
      BY <2>1 DEF ofPulls
    <2>3. /\ Shared' /\ Summed'
          /\ ScoreOfPulls' = ScoreOfPulls /\ ScoreOfComments' = ScoreOfComments
          /\ \A keys : StreamsOf(keys)' = StreamsOf(keys)
      BY <1>1, <2>1, <2>2, SharedByDelivery
    <2>4. /\ PcOf(IssueEvents)[r] = "idle"
          /\ PcOf(IssueEvents)' = [PcOf(IssueEvents) EXCEPT ![r] = "dispatch"]
          /\ EvOf(IssueEvents)' = [EvOf(IssueEvents) EXCEPT ![r] = e]
          /\ UNCHANGED <<RespOf(IssueEvents), ConnOf(IssueEvents)>>
      BY <1>1, <2>1, SeenDelivery, OneKind
    <2>5. IssueView!Deliver(r, e)
      BY <2>1, <2>4
         DEF IssueView!Deliver, IssueView!Goto, IssueView!tables, OnIssue!tables,
             IssueView!work, OnIssue!work
    <2>6. \A kind : e \notin kind /\ NoPayload \notin kind =>
            UNCHANGED <<PcOf(kind), EvOf(kind), RespOf(kind), ConnOf(kind)>>
      BY <1>1, <2>1, SeenDelivery
    <2>7. UNCHANGED CommentView!vars /\ UNCHANGED PullView!vars
      BY <2>1, <2>3, <2>6, OneKind, ViewsAre
    <2> QED BY <2>3, <2>5, <2>7 DEF EachSees, IssueView!Next
  <1>5. ASSUME NEW e \in Pings, ByPing, OnPing!Deliver(r, e)
        PROVE  EachSees
    <2>1. /\ pc[r] = "idle" /\ ev' = [ev EXCEPT ![r] = e]
          /\ pc' = [pc EXCEPT ![r] = "begin"] /\ resp' = resp /\ conn' = conn
          /\ streams' = streams /\ score' = score /\ pullRanked' = pullRanked
          /\ UNCHANGED ofComments /\ UNCHANGED ofPulls /\ UNCHANGED ofIssues
      BY <1>5 DEF ByPing, OnPing!Deliver, OnPing!Goto, valkey, ofPulls
    <2>2. /\ Shared' /\ Summed'
          /\ ScoreOfPulls' = ScoreOfPulls /\ ScoreOfComments' = ScoreOfComments
          /\ \A keys : StreamsOf(keys)' = StreamsOf(keys)
      BY <1>1, <2>1, SharedByDelivery
    <2>3. \A kind : e \notin kind /\ NoPayload \notin kind =>
            UNCHANGED <<PcOf(kind), EvOf(kind), RespOf(kind), ConnOf(kind)>>
      BY <1>1, <2>1, SeenDelivery
    <2>4. /\ UNCHANGED CommentView!vars /\ UNCHANGED PullView!vars
          /\ UNCHANGED IssueView!vars
      BY <2>1, <2>2, <2>3, OneKind, ViewsAre
    <2> QED BY <2>2, <2>4 DEF EachSees
  <1> QED BY <1>2, <1>3, <1>4, <1>5 DEF Webhook

\* No handler sees what the router refuses.
LEMMA RefuseSeen ==
    ASSUME IInv, NEW r \in Request, Refuse(r)
    PROVE  EachSees
  <1>1. Shared /\ Summed /\ PullView!IInv
    BY DEF IInv
  <1>2. /\ pc[r] = "idle" /\ ev' = [ev EXCEPT ![r] = Unsupported]
        /\ pc' = [pc EXCEPT ![r] = "done"] /\ resp' = [resp EXCEPT ![r] = 400]
        /\ conn' = conn /\ streams' = streams /\ score' = score
        /\ pullRanked' = pullRanked
        /\ UNCHANGED ofComments /\ UNCHANGED ofPulls /\ UNCHANGED ofIssues
    BY DEF Refuse, Answer, Goto, valkey, ofPulls
  <1>3. /\ Shared' /\ Summed'
        /\ ScoreOfPulls' = ScoreOfPulls /\ ScoreOfComments' = ScoreOfComments
        /\ \A keys : StreamsOf(keys)' = StreamsOf(keys)
    <2>1. Shared'
      BY <1>1, <1>2 DEF Shared
    <2> QED BY <1>1, <1>2, <2>1, DeliveryMovesNoScore DEF StreamsOf
  <1>4. ASSUME NEW kind, Unsupported \notin kind, NoPayload \notin kind
        PROVE  UNCHANGED <<PcOf(kind), EvOf(kind), RespOf(kind), ConnOf(kind)>>
    <2>1. \E s : resp' = [resp EXCEPT ![r] = s]
      BY <1>2
    <2> QED BY <1>1, <1>2, <1>4, <2>1, SeenDelivery
  <1>5. /\ UNCHANGED CommentView!vars /\ UNCHANGED PullView!vars
        /\ UNCHANGED IssueView!vars
    BY <1>2, <1>3, <1>4, OneKind, ViewsAre
  <1> QED BY <1>3, <1>5 DEF EachSees

\* The environment concerns one handler each.
LEMMA EnvironmentSeen ==
    ASSUME IInv, Environment
    PROVE  EachSees
  <1>1. Shared /\ Summed
    BY DEF IInv
  <1>2. ASSUME ByComment, OnComment!MaintainersChange
        PROVE  EachSees
    <2>1. /\ pc' = pc /\ ev' = ev /\ resp' = resp /\ conn' = conn
          /\ UNCHANGED OnComment!store /\ action' = action
          /\ streams' = streams /\ score' = score /\ ranked' = ranked
          /\ UNCHANGED <<lateRanks, lateRecords>>
          /\ UNCHANGED ofPulls /\ UNCHANGED ofIssues
      BY <1>2 DEF ByComment, OnComment!MaintainersChange, OnComment!valkey, OnComment!late
    <2>2. pullRanked' = pullRanked
      BY <2>1 DEF ofPulls
    <2>3. \A kind : UNCHANGED <<PcOf(kind), EvOf(kind), RespOf(kind), ConnOf(kind)>>
      BY <2>1 DEF PcOf, EvOf, RespOf, ConnOf
    <2>4. \A keys : StreamsOf(keys)' = StreamsOf(keys)
      BY <2>1 DEF StreamsOf
    <2>5. Shared'
      BY <1>1, <2>1 DEF Shared
    <2>6. /\ Summed'
          /\ ScoreOfPulls' = ScoreOfPulls /\ ScoreOfComments' = ScoreOfComments
      BY <1>1, <2>1, <2>2, ScoresKept
    <2>7. UNCHANGED PullView!vars /\ UNCHANGED IssueView!vars
      BY <2>1, <2>3, <2>4, <2>6, ViewsAre
    <2>8. {r \in Request : /\ PcOf(Comments)[r] \in {"lookup", "query"}
                           /\ CommentView!IsMaintainer(EvOf(Comments)[r], maintainers')}
            = {r \in Request : /\ pc[r] \in {"lookup", "query"}
                               /\ OnComment!IsMaintainer(ev[r], maintainers')}
      BY <1>1, SameCommands DEF PcOf, EvOf, Shared
    <2>9. CommentView!MaintainersChange
      BY <1>2, <2>1, <2>3, <2>4, <2>6, <2>8
         DEF OnComment!MaintainersChange, CommentView!MaintainersChange,
             OnComment!store, CommentView!store, CommentView!valkey, CommentView!late
    <2> QED BY <2>5, <2>6, <2>7, <2>9 DEF EachSees, CommentView!Next
  <1>3. ASSUME ByIssue, OnIssue!Elapse
        PROVE  EachSees
    <2>1. /\ pc' = pc /\ ev' = ev /\ resp' = resp /\ conn' = conn
          /\ streams' = streams /\ score' = score
          /\ UNCHANGED ofComments /\ UNCHANGED ofPulls
      BY <1>3 DEF ByIssue, OnIssue!Elapse, valkey
    <2>2. pullRanked' = pullRanked
      BY <2>1 DEF ofPulls
    <2>3. \A kind : UNCHANGED <<PcOf(kind), EvOf(kind), RespOf(kind), ConnOf(kind)>>
      BY <2>1 DEF PcOf, EvOf, RespOf, ConnOf
    <2>4. \A keys : StreamsOf(keys)' = StreamsOf(keys)
      BY <2>1 DEF StreamsOf
    <2>5. Shared'
      BY <1>1, <2>1 DEF Shared
    <2>6. /\ Summed'
          /\ ScoreOfPulls' = ScoreOfPulls /\ ScoreOfComments' = ScoreOfComments
      BY <1>1, <2>1, <2>2, ScoresKept
    <2>7. UNCHANGED CommentView!vars /\ UNCHANGED PullView!vars
      BY <2>1, <2>3, <2>4, <2>6, ViewsAre
    <2>8. \A r \in Request : PcOf(IssueEvents)[r] \in {"participant", "scan"} =>
             /\ pc[r] = PcOf(IssueEvents)[r] /\ ev[r] = EvOf(IssueEvents)[r]
             /\ OnIssue!ClaimsOf(ev[r]) = IssueView!ClaimsOf(ev[r])
      BY DEF PcOf, EvOf, OnIssue!ClaimsOf, IssueView!ClaimsOf
    <2>9. PICK c \in claims :
             /\ \A r \in Request :
                   pc[r] \in {"participant", "scan"} /\ ev[r].action = "unassigned"
                     /\ c \in OnIssue!ClaimsOf(ev[r]) => c \in due[r]
             /\ elapsed' = elapsed \cup {c.id}
      BY <1>3 DEF OnIssue!Elapse
    <2>10. \A r \in Request :
              PcOf(IssueEvents)[r] \in {"participant", "scan"}
                /\ EvOf(IssueEvents)[r].action = "unassigned"
                /\ c \in IssueView!ClaimsOf(EvOf(IssueEvents)[r]) => c \in due[r]
      BY <2>8, <2>9
    <2>11. UNCHANGED <<draft, due, snap, touched, issues, claims, booked>>
      BY <1>3 DEF OnIssue!Elapse, OnIssue!work
    <2>12. IssueView!Elapse
      BY <2>3, <2>9, <2>10, <2>11 DEF IssueView!Elapse, IssueView!work
    <2> QED BY <2>5, <2>6, <2>7, <2>12 DEF EachSees, IssueView!Next
  <1>4. ASSUME NEW r \in Request, ByComment, OnComment!Lands(r)
        PROVE  EachSees
    <2>1. ev[r] \in Comments
      BY <1>4, LateIsComment DEF IInv
    <2> QED BY <1>4, <2>1, CommentHandled DEF CommentStep
  <1> QED BY <1>2, <1>3, <1>4 DEF Environment

\* When the process dies, it dies for the handlers that are serving.
LEMMA DeathSeen ==
    ASSUME Shared, ServerDies, NEW kind
    PROVE  /\ EvOf(kind)' = EvOf(kind) /\ RespOf(kind)' = RespOf(kind)
           /\ ConnOf(kind)' = {}
           /\ PcOf(kind)' = [r \in Request |->
                IF PcOf(kind)[r] # "idle" /\ PcOf(kind)[r] \notin {"done", "crashed"}
                  THEN "crashed" ELSE PcOf(kind)[r]]
           /\ (\A r \in Request : PcOf(kind)[r] \in {"idle", "done", "crashed"}) =>
                 PcOf(kind)' = PcOf(kind)
  <1>1. EvOf(kind)' = EvOf(kind) /\ RespOf(kind)' = RespOf(kind) /\ ConnOf(kind)' = {}
    BY DEF ServerDies, EvOf, RespOf, ConnOf
  <1>2. PcOf(kind)' = [r \in Request |->
                IF PcOf(kind)[r] # "idle" /\ PcOf(kind)[r] \notin {"done", "crashed"}
                  THEN "crashed" ELSE PcOf(kind)[r]]
    BY DEF ServerDies, Serving, Over, PcOf, Shared
  <1>3. (\A r \in Request : PcOf(kind)[r] \in {"idle", "done", "crashed"}) =>
           PcOf(kind)' = PcOf(kind)
    BY <1>2 DEF PcOf
  <1> QED BY <1>1, <1>2, <1>3

LEMMA CrashSeen ==
    ASSUME IInv, Crash
    PROVE  EachSees
  <1>1. Shared /\ Summed /\ CommentView!IInv /\ PullView!IInv /\ IssueView!IInv
    BY DEF IInv
  <1>2. /\ ServerDies /\ ev' = ev /\ streams' = streams /\ score' = score
        /\ pullRanked' = pullRanked /\ ranked' = ranked
        /\ rowLock' = [u \in Account |-> rowLock[u] \cap inDoubt']
        /\ pend' = [r \in Request |-> IF r \in inDoubt' THEN pend[r] ELSE 0]
        /\ UNCHANGED <<maintainers, trusted, action, bounty, bountyLog,
                       lateRanks, lateRecords>>
    BY DEF Crash, OnComment!Crash, OnComment!roles, OnComment!valkey, OnComment!late,
           OnPull!Crash, OnPull!valkey, OnComment!ServerDies, ServerDies, OnComment!Serving, Serving,
           OnComment!Over, Over
  <1>3. /\ pullSnap' = [r \in Request |-> {}] /\ pullTouched' = [r \in Request |-> {}]
        /\ UNCHANGED <<rows, merged, pullBooked>>
    BY DEF Crash, OnPull!Crash, OnPull!table
  <1>4. /\ draft' = [r \in Request |-> NoDraft]
        /\ snap' = [r \in Request |-> {}] /\ touched' = [r \in Request |-> {}]
        /\ UNCHANGED <<due, issues, claims, elapsed, booked>>
    BY DEF Crash, OnIssue!Crash, OnIssue!tables
  <1>5. \A keys : StreamsOf(keys)' = StreamsOf(keys)
    BY <1>2 DEF StreamsOf
  <1>6. Summed' /\ ScoreOfPulls' = ScoreOfPulls /\ ScoreOfComments' = ScoreOfComments
    BY <1>1, <1>2, ScoresKept
  <1>7. Shared'
    BY <1>1, <1>2, FS_EmptySet DEF Shared, ServerDies, Serving, Over
  <1>8. \A kind : /\ EvOf(kind)' = EvOf(kind) /\ RespOf(kind)' = RespOf(kind)
                  /\ ConnOf(kind)' = {}
                  /\ PcOf(kind)' = [r \in Request |->
                       IF PcOf(kind)[r] # "idle" /\ PcOf(kind)[r] \notin {"done", "crashed"}
                         THEN "crashed" ELSE PcOf(kind)[r]]
                  /\ (\A r \in Request : PcOf(kind)[r] \in {"idle", "done", "crashed"}) =>
                        PcOf(kind)' = PcOf(kind)
    BY <1>1, <1>2, DeathSeen
  <1>9. CommentView!Next \/ UNCHANGED CommentView!vars
    <2>3. \A r \in Request :
             action[r] \in OnComment!BountyCommands =>
                PcOf(Comments)[r] = pc[r] /\ action[r] \in CommentView!BountyCommands
      <3>1. ASSUME NEW r \in Request, action[r] \in OnComment!BountyCommands
            PROVE  PcOf(Comments)[r] # "idle"
        BY <1>1, <3>1 DEF CommentView!IInv, CommentView!Dispatched, CommentView!Unparsed,
           OnComment!BountyCommands
      <3> QED BY <3>1, SameCommands DEF PcOf
    <2>4. PICK sent \in SUBSET {r \in Request : /\ pc[r] = "commit"
                                                /\ action[r] \in OnComment!BountyCommands} :
             inDoubt' = inDoubt \cup sent
      BY DEF Crash, OnComment!Crash
    <2>5. sent \in SUBSET {r \in Request : /\ PcOf(Comments)[r] = "commit"
                                           /\ action[r] \in CommentView!BountyCommands}
      BY <2>3, <2>4
    <2>1. CASE \E r \in Request : CommentView!Serving(r)
      BY <1>2, <1>5, <1>6, <1>8, <2>1, <2>4, <2>5
         DEF CommentView!Next, CommentView!Crash, CommentView!ServerDies,
             CommentView!Serving, CommentView!Over, CommentView!roles, CommentView!valkey,
             CommentView!late
    <2>2. CASE \A r \in Request : ~CommentView!Serving(r)
      <3>1. \A r \in Request : PcOf(Comments)[r] \in {"idle", "done", "crashed"}
        BY <2>2 DEF CommentView!Serving, CommentView!Over
      <3>2. inDoubt' = inDoubt
        BY <2>4, <2>5, <3>1
      <3>3. ConnOf(Comments) = {} /\ \A u \in Account : rowLock[u] \subseteq inDoubt
        BY <1>1, <3>1
           DEF CommentView!IInv, CommentView!ResourcesMatchProgress, CommentView!Open
      <3>4. \A r \in Request : r \notin inDoubt => pend[r] = 0
        BY <1>1, <3>1 DEF CommentView!IInv, CommentView!SumIsCurrent, CommentView!Open
      <3>5. /\ rowLock \in [Account -> SUBSET Request] /\ DOMAIN pend = Request
            /\ pend = [r \in Request |-> pend[r]]
        BY <1>1 DEF CommentView!IInv, CommentView!TypeOK
      <3>6. rowLock' = rowLock /\ pend' = pend
        BY <1>2, <3>2, <3>3, <3>4, <3>5
      <3> QED BY <1>2, <1>5, <1>6, <1>8, <3>1, <3>2, <3>3, <3>6 DEF CommentView!vars
    <2> QED BY <2>1, <2>2
  <1>10. PullView!Next \/ UNCHANGED PullView!vars
    <2>1. CASE \E r \in Request : PullView!Serving(r)
      BY <1>2, <1>3, <1>5, <1>6, <1>8, <2>1
         DEF PullView!Next, PullView!Crash, PullView!ServerDies, PullView!Serving,
             PullView!Over, PullView!table, PullView!valkey
    <2>2. CASE \A r \in Request : ~PullView!Serving(r)
      <3>1. \A r \in Request : PcOf(PullEvents)[r] \in {"idle", "done", "crashed"}
        BY <2>2 DEF PullView!Serving, PullView!Over
      <3>2. /\ ConnOf(PullEvents) = {}
            /\ \A r \in Request : pullTouched[r] = {} /\ pullSnap[r] = {}
        BY <1>1, <3>1 DEF PullView!IInv, PullView!ResourcesMatchProgress,
           PullView!RowsAreGenuine, PullView!Holding
      <3>3. pullTouched' = pullTouched /\ pullSnap' = pullSnap
        BY <1>1, <1>3, <3>2 DEF PullView!IInv, PullView!TypeOK
      <3> QED BY <1>2, <1>3, <1>5, <1>6, <1>8, <3>1, <3>2, <3>3 DEF PullView!vars
    <2> QED BY <2>1, <2>2
  <1>11. IssueView!Next \/ UNCHANGED IssueView!vars
    <2>1. CASE \E r \in Request : IssueView!Serving(r)
      BY <1>4, <1>8, <2>1
         DEF IssueView!Next, IssueView!Crash, IssueView!ServerDies, IssueView!Serving,
             IssueView!Over, IssueView!tables
    <2>2. CASE \A r \in Request : ~IssueView!Serving(r)
      <3>1. \A r \in Request : PcOf(IssueEvents)[r] \in {"idle", "done", "crashed"}
        BY <2>2 DEF IssueView!Serving, IssueView!Over
      <3>2. /\ ConnOf(IssueEvents) = {}
            /\ \A r \in Request : draft[r] = NoDraft /\ touched[r] = {} /\ snap[r] = {}
        BY <1>1, <3>1 DEF IssueView!IInv, IssueView!Connected, IssueView!Holding,
           IssueView!DraftIsCurrent, IssueView!DraftCurrent,
           IssueView!ClaimsAreCurrent, IssueView!ClaimsCurrent
      <3>3. draft' = draft /\ touched' = touched /\ snap' = snap
        BY <1>1, <1>4, <3>2 DEF IssueView!IInv, IssueView!TypeOK
      <3> QED BY <1>4, <1>8, <3>1, <3>2, <3>3 DEF IssueView!vars
    <2> QED BY <2>1, <2>2
  <1> QED BY <1>6, <1>7, <1>9, <1>10, <1>11 DEF EachSees

\* So every step of the server is a step of each view, or none.
LEMMA StepIsSeen == ASSUME IInv, [Next]_vars PROVE EachSees
  <1>1. ASSUME NEW r \in Request, Handle(r)
        PROVE  EachSees
    BY <1>1, CommentHandled, PullHandled, IssueHandled, PingHandled
       DEF Handle, CommentStep, PullStep, IssueStep, PingStep
  <1>2. ASSUME UNCHANGED vars
        PROVE  EachSees
    <2>1. /\ Shared /\ Summed /\ pc' = pc /\ ev' = ev /\ resp' = resp /\ conn' = conn
          /\ UNCHANGED valkey /\ UNCHANGED ofComments /\ UNCHANGED ofPulls
          /\ UNCHANGED ofIssues
      BY <1>2 DEF vars, IInv
    <2>2. \A kind : UNCHANGED <<PcOf(kind), EvOf(kind), RespOf(kind), ConnOf(kind)>>
      BY <2>1 DEF PcOf, EvOf, RespOf, ConnOf
    <2>3. /\ Summed' /\ ScoreOfComments' = ScoreOfComments /\ ScoreOfPulls' = ScoreOfPulls
          /\ \A keys : StreamsOf(keys)' = StreamsOf(keys)
      BY <2>1, ValkeyKept
    <2>4. Shared'
      BY <2>1 DEF Shared, valkey
    <2> QED BY <2>1, <2>2, <2>3, <2>4, ViewsAre DEF EachSees
  <1> QED BY <1>1, <1>2, WebhookSeen, RefuseSeen, EnvironmentSeen, CrashSeen
          DEF Next, Quiet

\* A repository goes on display by the commit of a ping, and stays there.
LEMMA PingIsShownStep == ASSUME IInv, [Next]_vars PROVE PingIsShown'
  <1>1. Shared /\ PingIsShown /\ CommentView!IInv
    BY DEF IInv
  <1>2. ASSUME NEW r \in Request, ev[r] \in Pings, PingStep(r)
        PROVE  PingIsShown'
    <2>1. Moves(r) /\ ev' = ev
      BY <1>1, <1>2, PingMoves DEF Moves
    <2>2. \/ resp' = resp \/ resp' = [resp EXCEPT ![r] = 500]
          \/ resp' = [resp EXCEPT ![r] = 200] /\ ev[r].repo \in onDisplay'
      BY <1>2, PingWords
         DEF PingStep, OnPing!Progress, OnPing!Fault, OnPing!PanicRecovery,
             OnPing!Begin, OnPing!UpdateRepositoryOnDisplay, OnPing!NotRegistered,
             OnPing!Commit, OnPing!CommitReplyLost, OnPing!TransactionFails,
             OnPing!Install, Answer
    <2>3. onDisplay' = onDisplay \/ onDisplay' = onDisplay \cup {ev[r].repo}
      BY <1>2, PingWords
         DEF PingStep, OnPing!Progress, OnPing!Fault, OnPing!PanicRecovery,
             OnPing!Begin, OnPing!UpdateRepositoryOnDisplay, OnPing!NotRegistered,
             OnPing!Commit, OnPing!CommitReplyLost, OnPing!TransactionFails,
             OnPing!Install
    <2> QED BY <1>1, <1>2, <2>1, <2>2, <2>3 DEF PingIsShown, Shared
  <1>3. ASSUME NEW r \in Request, Moves(r), ev[r] \notin Pings, onDisplay' = onDisplay
        PROVE  PingIsShown'
    BY <1>1, <1>3 DEF PingIsShown, Moves, Shared
  <1>4. ASSUME NEW r \in Request, Handle(r)
        PROVE  PingIsShown'
    <2>1. CASE ByComment /\ ev[r] \in Comments /\ CommentStep(r)
      BY <1>1, <1>3, <2>1, CommentMoves, OneKind DEF ByComment, ofPings
    <2>2. CASE ByPull /\ ev[r] \in PullEvents /\ PullStep(r)
      BY <1>1, <1>3, <2>2, PullMoves, OneKind DEF ByPull, ofPings
    <2>3. CASE ByIssue /\ ev[r] \in IssueEvents /\ IssueStep(r)
      BY <1>1, <1>3, <2>3, IssueMoves, OneKind DEF ByIssue, ofPings
    <2> QED BY <1>2, <1>4, <2>1, <2>2, <2>3
            DEF Handle, CommentStep, PullStep, IssueStep, PingStep
  <1>5. ASSUME NEW r \in Request, pc[r] = "idle", NEW e, ev' = [ev EXCEPT ![r] = e],
               resp' = resp \/ resp' = [resp EXCEPT ![r] = 400], onDisplay' = onDisplay
        PROVE  PingIsShown'
    <2>1. ev[r] = NoPayload /\ resp[r] = 0 /\ NoPayload \notin Pings
      BY <1>1, <1>5, OneKind DEF Shared
    <2> QED BY <1>1, <1>5, <2>1 DEF PingIsShown, Shared
  <1>6. ASSUME NEW r \in Request, Webhook(r) \/ Refuse(r)
        PROVE  PingIsShown'
    <2>1. /\ pc[r] = "idle" /\ onDisplay' = onDisplay
          /\ resp' = resp \/ resp' = [resp EXCEPT ![r] = 400]
          /\ \E e : ev' = [ev EXCEPT ![r] = e]
      BY <1>6 DEF Webhook, Refuse, Answer, ByComment, ByPull, ByIssue, ofPings,
             OnComment!Deliver, OnPull!Deliver, OnIssue!Deliver, OnPing!Deliver
    <2> QED BY <1>5, <2>1
  <1>7. ASSUME ev' = ev, resp' = resp, onDisplay' = onDisplay
        PROVE  PingIsShown'
    BY <1>1, <1>7 DEF PingIsShown
  <1>8. CASE Environment
    <2>1. ASSUME NEW r \in Request, ByComment, OnComment!Lands(r)
          PROVE  PingIsShown'
      <3>1. ev[r] \in Comments
        BY <1>1, <2>1, LateIsComment
      <3>2. Moves(r)
        BY <1>1, <2>1, <3>1, CommentMoves DEF CommentStep
      <3> QED BY <1>3, <2>1, <3>1, <3>2, OneKind DEF ByComment, ofPings
    <2> QED BY <1>7, <1>8, <2>1 DEF Environment, ByComment, ByIssue, ofPings,
              OnComment!MaintainersChange, OnIssue!Elapse
  <1>9. CASE Crash
    BY <1>7, <1>9 DEF Crash, OnPing!Crash, OnPing!ServerDies
  <1>10. CASE UNCHANGED vars
    BY <1>7, <1>10 DEF vars, ofPings
  <1> QED BY <1>4, <1>6, <1>8, <1>9, <1>10 DEF Next, Quiet

\* Nothing is delivered at first.
LEMMA InitIsSeen ==
    ASSUME Init
    PROVE  CommentView!Init /\ PullView!Init /\ IssueView!Init /\ Shared /\ Summed
  <1>1. /\ pc = [r \in Request |-> "idle"] /\ ev = [r \in Request |-> NoPayload]
        /\ resp = [r \in Request |-> 0] /\ conn = {}
        /\ score = [u \in User |-> 0] /\ streams = [key \in StreamName |-> << >>]
    BY DEF Init, OnComment!Init, OnComment!StreamName, StreamName,
           OnComment!IssueClaim, IssueClaim, OnComment!AutomaticEvents, AutomaticEvents,
           OnComment!Bounty, Bounty, OnComment!SolutionMerge, SolutionMerge,
           OnComment!LiveUpdates, LiveUpdates
  <1>2. \A kind : NoPayload \notin kind =>
           /\ PcOf(kind) = [r \in Request |-> "idle"]
           /\ EvOf(kind) = [r \in Request |-> NoPayload]
           /\ RespOf(kind) = [r \in Request |-> 0] /\ ConnOf(kind) = {}
    BY <1>1 DEF PcOf, EvOf, RespOf, ConnOf
  <1>3. \A u : HasTotal(Merges(u)) /\ Total(Merges(u)) = 0
    <2>1. \A u : DOMAIN Merges(u) = {}
      BY <1>1, OneKind DEF Merges
    <2> QED BY <2>1, TotalOfZeros
  <1>4. Shared /\ Summed
    BY <1>1, <1>3, FS_EmptySet DEF Shared, Summed
  <1>5. /\ ScoreOfPulls = [u \in User |-> 0] /\ ScoreOfComments = [u \in User |-> 0]
        /\ \A keys : StreamsOf(keys) = [key \in StreamName |-> << >>]
    BY <1>1, <1>3 DEF ScoreOfPulls, ScoreOfComments, StreamsOf
  <1>6. /\ OnComment!StreamName = StreamName /\ CommentView!StreamName = StreamName
        /\ OnPull!StreamName = StreamName /\ PullView!StreamName = StreamName
    BY DEF OnComment!StreamName, CommentView!StreamName, StreamName,
           OnComment!IssueClaim, CommentView!IssueClaim, IssueClaim,
           OnComment!AutomaticEvents, CommentView!AutomaticEvents, AutomaticEvents,
           OnComment!Bounty, CommentView!Bounty, Bounty,
           OnComment!SolutionMerge, CommentView!SolutionMerge, SolutionMerge,
           OnComment!LiveUpdates, CommentView!LiveUpdates, LiveUpdates,
           OnPull!StreamName, PullView!StreamName, OnPull!IssueClaim, PullView!IssueClaim,
           OnPull!AutomaticEvents, PullView!AutomaticEvents, OnPull!Bounty,
           PullView!Bounty, OnPull!SolutionMerge, PullView!SolutionMerge,
           OnPull!LiveUpdates, PullView!LiveUpdates
  <1>7. CommentView!Init
    BY <1>2, <1>5, <1>6, OneKind DEF Init, OnComment!Init, CommentView!Init
  <1>8. PullView!Init
    BY <1>2, <1>5, <1>6, OneKind DEF Init, OnPull!Init, PullView!Init
  <1>9. IssueView!Init
    BY <1>2, OneKind DEF Init, OnIssue!Init, IssueView!Init
  <1> QED BY <1>4, <1>7, <1>8, <1>9
-----------------------------------------------------------------------------
(* The theorems.                                                           *)

LEMMA InitEstablishes == Init => IInv
  <1> SUFFICES ASSUME Init PROVE IInv
    OBVIOUS
  <1>1. CommentView!IInv
    BY InitIsSeen, CommentViewAssumptions, CommentView!InitEstablishes
  <1>2. PullView!IInv
    BY InitIsSeen, PullViewAssumptions, PullView!InitEstablishes
  <1>3. IssueView!IInv
    BY InitIsSeen, IssueViewAssumptions, IssueView!InitEstablishes
  <1>4. PingIsShown
    BY DEF Init, OnPing!Init, PingIsShown
  <1> QED BY <1>1, <1>2, <1>3, <1>4, InitIsSeen DEF IInv

LEMMA StepPreserves == IInv /\ [Next]_vars => IInv'
  <1> SUFFICES ASSUME IInv, [Next]_vars PROVE IInv'
    OBVIOUS
  <1>1. EachSees /\ PingIsShown'
    BY StepIsSeen, PingIsShownStep
  <1>2. CommentView!IInv'
    BY <1>1, CommentViewAssumptions, CommentView!StepPreserves DEF IInv, EachSees
  <1>3. PullView!IInv'
    BY <1>1, PullViewAssumptions, PullView!StepPreserves DEF IInv, EachSees
  <1>4. IssueView!IInv'
    BY <1>1, IssueViewAssumptions, IssueView!StepPreserves DEF IInv, EachSees
  <1> QED BY <1>1, <1>2, <1>3, <1>4 DEF IInv, EachSees

LEMMA Invariance == Spec => []IInv
  BY InitEstablishes, StepPreserves, PTL DEF Spec

\* Each handler runs in the server as it runs alone: what the three handlers
\* see of the server are executions of their own specifications.
THEOREM CommentsUndisturbed == Spec => CommentView!Spec
  <1>1. Init => CommentView!Init
    BY InitIsSeen
  <1>2. IInv /\ [Next]_vars => [CommentView!Next]_(CommentView!vars)
    BY StepIsSeen DEF EachSees
  <1> QED BY <1>1, <1>2, Invariance, PTL DEF Spec, CommentView!Spec

THEOREM PullsUndisturbed == Spec => PullView!Spec
  <1>1. Init => PullView!Init
    BY InitIsSeen
  <1>2. IInv /\ [Next]_vars => [PullView!Next]_(PullView!vars)
    BY StepIsSeen DEF EachSees
  <1> QED BY <1>1, <1>2, Invariance, PTL DEF Spec, PullView!Spec

THEOREM IssuesUndisturbed == Spec => IssueView!Spec
  <1>1. Init => IssueView!Init
    BY InitIsSeen
  <1>2. IInv /\ [Next]_vars => [IssueView!Next]_(IssueView!vars)
    BY StepIsSeen DEF EachSees
  <1> QED BY <1>1, <1>2, Invariance, PTL DEF Spec, IssueView!Spec

\* A ping that was answered 200 is on display, and nothing else is.
THEOREM PingsAreShown == Spec => []PingIsShown
  <1>1. IInv => PingIsShown
    BY DEF IInv
  <1> QED BY <1>1, Invariance, PTL

\* Bounties keep their promise next to the other handlers: the ledger is the
\* comments' own, and bounty-stream is among the streams they see whole.
LEMMA SamePromise ==
    /\ CommentView!Promise!Init => OnComment!Promise!Init
    /\ [CommentView!Promise!Next]_(CommentView!Promise!promise)
         => [OnComment!Promise!Next]_(OnComment!Promise!promise)
  <1> DEFINE seen == {StreamsOf(StreamName \ OfPulls)[CommentView!Bounty][i].req :
                        i \in DOMAIN StreamsOf(StreamName \ OfPulls)[CommentView!Bounty]}
             announced == {streams[OnComment!Bounty][i].req :
                             i \in DOMAIN streams[OnComment!Bounty]}
  <1>1. seen = announced /\ seen' = announced'
    <2>1. /\ CommentView!Bounty = OnComment!Bounty
          /\ OnComment!Bounty \in StreamName \ OfPulls
      BY DEF CommentView!Bounty, OnComment!Bounty, StreamName, OfPulls, Bounty,
             SolutionMerge
    <2>2. /\ StreamsOf(StreamName \ OfPulls)[OnComment!Bounty] = streams[OnComment!Bounty]
          /\ StreamsOf(StreamName \ OfPulls)'[OnComment!Bounty] = streams'[OnComment!Bounty]
      BY <2>1 DEF StreamsOf
    <2> QED BY <2>1, <2>2
  <1>2. CommentView!INT = OnComment!INT
    BY DEF CommentView!INT, OnComment!INT
  <1> HIDE DEF seen, announced
  <1>3. CommentView!Promise!Init => OnComment!Promise!Init
    BY <1>1 DEF CommentView!Promise!Init, OnComment!Promise!Init, seen, announced
  <1>4. \A r : CommentView!Promise!Booked(r) <=> OnComment!Promise!Booked(r)
    BY DEF CommentView!Promise!Booked, OnComment!Promise!Booked
  <1>5. \A r, u, amount :
           CommentView!Promise!Book(r, u, amount) => OnComment!Promise!Book(r, u, amount)
    BY <1>1, <1>4 DEF CommentView!Promise!Book, OnComment!Promise!Book, seen, announced
  <1>6. \A r : CommentView!Promise!Count(r) => OnComment!Promise!Count(r)
    BY <1>1, <1>4 DEF CommentView!Promise!Count, OnComment!Promise!Count, seen, announced
  <1>7. \A r : CommentView!Promise!Announce(r) => OnComment!Promise!Announce(r)
    BY <1>1 DEF CommentView!Promise!Announce, OnComment!Promise!Announce, seen, announced
  <1>8. CommentView!Promise!Next => OnComment!Promise!Next
    BY <1>2, <1>5, <1>6, <1>7 DEF CommentView!Promise!Next, OnComment!Promise!Next
  <1>9. (UNCHANGED CommentView!Promise!promise) => (UNCHANGED OnComment!Promise!promise)
    BY <1>1 DEF CommentView!Promise!promise, OnComment!Promise!promise, seen, announced
  <1> QED BY <1>3, <1>8, <1>9

\* So do the issues: their tables are their own.
LEMMA SameBoard ==
    /\ IssueView!Board!Init => OnIssue!Board!Init
    /\ [IssueView!Board!Next]_<<issues, claims, elapsed>>
         => [OnIssue!Board!Next]_<<issues, claims, elapsed>>
  <1>1. IssueView!Board!Init => OnIssue!Board!Init
    BY DEF IssueView!Board!Init, OnIssue!Board!Init
  <1>2. IssueView!Board!NewIssue = OnIssue!Board!NewIssue
    BY DEF IssueView!Board!NewIssue, OnIssue!Board!NewIssue
  <1>3. /\ IssueView!Board!RowActions = OnIssue!Board!RowActions
        /\ \A e : IssueView!Board!Parsed(e) <=> OnIssue!Board!Parsed(e)
    BY DEF IssueView!Board!RowActions, OnIssue!Board!RowActions,
           IssueView!Board!Parsed, OnIssue!Board!Parsed
  <1>4. \A row, e : IssueView!Board!Updated(row, e) = OnIssue!Board!Updated(row, e)
    BY DEF IssueView!Board!Updated, OnIssue!Board!Updated,
           IssueView!Board!UpdateIssueDifficulty, OnIssue!Board!UpdateIssueDifficulty,
           IssueView!Board!UpdateIssueBounty, OnIssue!Board!UpdateIssueBounty,
           IssueView!Board!Int32, OnIssue!Board!Int32,
           IssueView!Board!AddIssueTag, OnIssue!Board!AddIssueTag,
           IssueView!Board!CloseIssue, OnIssue!Board!CloseIssue,
           IssueView!Board!OpenIssue, OnIssue!Board!OpenIssue
  <1>5. \A e : IssueView!Board!Accept(e) => OnIssue!Board!Accept(e)
    BY <1>2 DEF IssueView!Board!Accept, OnIssue!Board!Accept
  <1>6. \A e : IssueView!Board!Change(e) => OnIssue!Board!Change(e)
    BY <1>3, <1>4 DEF IssueView!Board!Change, OnIssue!Board!Change
  <1>7. \A e : IssueView!Board!Assign(e) => OnIssue!Board!Assign(e)
    BY DEF IssueView!Board!Assign, OnIssue!Board!Assign
  <1>8. \A e : IssueView!Board!Unassign(e) => OnIssue!Board!Unassign(e)
    BY DEF IssueView!Board!Unassign, OnIssue!Board!Unassign
  <1>9. IssueView!Board!Elapse => OnIssue!Board!Elapse
    BY DEF IssueView!Board!Elapse, OnIssue!Board!Elapse
  <1> QED BY <1>1, <1>5, <1>6, <1>7, <1>8, <1>9
          DEF IssueView!Board!Next, OnIssue!Board!Next

\* The handlers do not break each other's promises: next to the other ones,
\* bounties are booked, counted and announced in this order, once each, and the
\* issues change one event at a time.
THEOREM NobodyInterferes == Spec => PromisesHold
  <1>1. Spec => CommentView!PromiseKept
    BY CommentsUndisturbed, CommentViewAssumptions, CommentView!BountyPromised
  <1>2. Spec => IssueView!OneAtATime
    BY IssuesUndisturbed, IssueViewAssumptions, IssueView!Serializable
  <1>3. CommentView!PromiseKept => OnComment!PromiseKept
    BY SamePromise, PTL DEF CommentView!PromiseKept, OnComment!PromiseKept,
       CommentView!Promise!Spec, OnComment!Promise!Spec
  <1>4. IssueView!OneAtATime => OnIssue!OneAtATime
    BY SameBoard, PTL DEF IssueView!OneAtATime, OnIssue!OneAtATime,
       IssueView!Board!Spec, OnIssue!Board!Spec
  <1> QED BY <1>1, <1>2, <1>3, <1>4 DEF PromisesHold

\* Under the same deliveries, the points for merges are the merges that are
\* committed: whoever was answered 200 is committed and was ranked once.
LEMMA MergesCounted ==
    ASSUME IInv, NEW u \in User,
           \A r \in Request : pullRanked[r] <= 1 /\ (pc[r] # "idle" => resp[r] = 200)
    PROVE  Total(Merges(u)) =
             Cardinality({r \in pullBooked : ev[r].action = "merged" /\ ev[r].by = u})
  <1> DEFINE S == {r \in pullBooked : ev[r].action = "merged" /\ ev[r].by = u}
  <1>1. /\ PullView!TypeOK /\ PullView!RowsAreGenuine /\ PullView!AnnouncedInOrder
        /\ PullView!CommittedIsAnnounced /\ PullView!OkMeansCommitted
        /\ HasTotal(Merges(u)) /\ pullRanked \in [Request -> Nat]
    BY DEF IInv, PullView!IInv, Summed, PullView!TypeOK
  <1>2. ASSUME NEW r \in pullBooked
        PROVE  r \in Request /\ ev[r] \in PullEvents /\ EvOf(PullEvents)[r] = ev[r]
    <2>1. r \in Request /\ PcOf(PullEvents)[r] # "idle"
      BY <1>1 DEF PullView!TypeOK, PullView!RowsAreGenuine, PullView!Over
    <2> QED BY <2>1 DEF PcOf, EvOf
  <1>3. S \subseteq DOMAIN Merges(u)
    BY <1>2 DEF Merges
  <1>4. ASSUME NEW r \in S
        PROVE  pullRanked[r] = 1
    <2>1. r \in Request /\ pullRanked[r] > 0
      BY <1>1, <1>2 DEF PullView!CommittedIsAnnounced
    <2> QED BY <1>1, <2>1
  <1>5. ASSUME NEW r \in Request, ev[r] \in PullEvents, ev[r].by = u, r \notin S
        PROVE  pullRanked[r] = 0
    <2>1. CASE pullRanked[r] > 0
      <3>1. EvOf(PullEvents)[r] = ev[r] /\ RespOf(PullEvents)[r] = resp[r]
        BY <1>5 DEF EvOf, RespOf
      <3>2. pc[r] # "idle" /\ ev[r].action = "merged"
        BY <1>1, <2>1, <3>1 DEF PullView!AnnouncedInOrder, PcOf
      <3>3. r \in pullBooked
        BY <1>1, <3>1, <3>2 DEF PullView!OkMeansCommitted
      <3> QED BY <1>5, <3>2, <3>3
    <2> QED BY <1>1, <2>1
  <1>6. \A r \in DOMAIN Merges(u) : Merges(u)[r] = IF r \in S THEN 1 ELSE 0
    BY <1>4, <1>5 DEF Merges
  <1> QED BY <1>1, <1>3, <1>6, TotalOfOnes

\* ... and there is no drift of the comments.
LEMMA NoDrift ==
    ASSUME IInv, NEW u \in Account,
           \A r \in Request : ranked[r] <= 1 /\ (pc[r] # "idle" => resp[r] = 200)
    PROVE  CommentView!Total(CommentView!Drifts(u)) = 0
  <1>1. /\ CommentView!RowsAreGenuine /\ CommentView!Dispatched
        /\ CommentView!PublishedIsRecorded /\ CommentView!OkMeansEverywhere
        /\ ranked \in [Request -> Nat]
    BY DEF IInv, CommentView!IInv, CommentView!TypeOK
  <1>2. ASSUME NEW r \in Request, PcOf(Comments)[r] # "idle"
        PROVE  ranked[r] = IF CommentView!Recorded(r) THEN 1 ELSE 0
    <2>1. RespOf(Comments)[r] = 200
      BY <1>2 DEF PcOf, RespOf
    <2>2. CASE CommentView!Recorded(r)
      <3>1. action[r] \in CommentView!BountyCommands
        BY <1>1, <2>2 DEF CommentView!Recorded, CommentView!RowsAreGenuine
      <3>2. ranked[r] > 0
        BY <1>1, <2>1, <3>1 DEF CommentView!OkMeansEverywhere, CommentView!BountyCommands
      <3> QED BY <1>1, <2>2, <3>2
    <2>3. CASE ~ CommentView!Recorded(r)
      BY <1>1, <2>3 DEF CommentView!PublishedIsRecorded
    <2> QED BY <2>2, <2>3
  <1>3. ASSUME NEW r \in Request, PcOf(Comments)[r] # "idle"
        PROVE  CommentView!Drift(r) = 0
    <2>1. ev[r] \in Comments /\ EvOf(Comments)[r] = ev[r]
      BY <1>3 DEF PcOf, EvOf
    <2>2. CommentView!Amount(ev[r]) \in CommentView!INT
      BY <2>1, CommentViewAssumptions, CommentView!AmountInRange
    <2>3. CommentView!Amount(ev[r]) \in Int
      BY <2>2, CommentViewAssumptions DEF CommentView!INT, CommentView!HalfRangeAssumption
    <2>4. ranked[r] - (IF CommentView!Recorded(r) THEN 1 ELSE 0) = 0
      BY <1>2, <1>3
    <2> QED BY <2>1, <2>3, <2>4 DEF CommentView!Drift
  <1>4. \A r \in DOMAIN CommentView!Drifts(u) : CommentView!Drifts(u)[r] = 0
    BY <1>3 DEF CommentView!Drifts
  <1> QED BY <1>4, CommentViewAssumptions, CommentView!TotalOfZeros

\* The leaderboard is the ledger plus a thousandth for each committed merge,
\* where nothing failed and nothing was repeated.
THEOREM StoresAgree == Spec => []LeaderboardAgrees
  <1>1. Spec => []CommentView!LeaderboardDrift
    BY CommentsUndisturbed, CommentViewAssumptions, CommentView!DriftIsAccountedFor
  <1>2. ASSUME IInv, CommentView!LeaderboardDrift
        PROVE  LeaderboardAgrees
    <2> SUFFICES ASSUME \A r \in Request : /\ pc[r] # "idle" => resp[r] = 200
                                           /\ ranked[r] <= 1 /\ pullRanked[r] <= 1,
                        NEW u \in Account
                 PROVE  score[u] = Point * bounty[u]
                          + Cardinality({r \in pullBooked :
                                           ev[r].action = "merged" /\ ev[r].by = u})
      BY DEF LeaderboardAgrees
    <2>1. u \in User
      BY CommentViewAssumptions DEF CommentView!CommentAssumption
    <2>2. /\ score[u] \in Int /\ Total(Merges(u)) \in Int
          /\ ScoreOfComments[u] = score[u] - Total(Merges(u))
      BY <1>2, <2>1, TotalTyped DEF IInv, Shared, Summed, ScoreOfComments
    <2>3. ScoreOfComments[u] - Point * bounty[u] = 0
      BY <1>2, NoDrift DEF CommentView!LeaderboardDrift, CommentView!Point, Point
    <2>4. bounty[u] \in Int
      BY <1>2, CommentViewAssumptions DEF IInv, CommentView!IInv, CommentView!TypeOK,
         CommentView!INT, CommentView!HalfRangeAssumption
    <2>5. score[u] = Point * bounty[u] + Total(Merges(u))
      BY <2>2, <2>3, <2>4 DEF Point
    <2> QED BY <1>2, <2>1, <2>5, MergesCounted
  <1> QED BY <1>1, <1>2, Invariance, PTL
=============================================================================
