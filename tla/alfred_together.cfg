\* Three deliveries of any events, one connection.
CONSTANTS
    Request = {r1, r2, r3}
    alice = alice
    pat = pat
    p1 = p1
    i1 = i1
    User = {alice, pat}
    Account = {pat}
    ActiveAccount = {pat}
    Maintainers = {alice}
    Repository = {"repo"}
    RepoUrl = {"repo"}
    Rosters <- Steady
    PullUrl = {p1}
    IssueUrl = {i1}
    Comments <- Bounties
    PullEvents <- Pulls
    IssueEvents <- IssueLife
    Pings <- Hooks
    Unsupported = Unsupported
    NoPayload = NoPayload
    NoRepo = NoRepo
    NotANumber = NotANumber
    NoOne = NoOne
    NoDraft = NoDraft
    Absent = Absent
    HalfRange = 8
    MaxLost = 0
    MaxConns = 1
ACTION_CONSTRAINT Sorted
SPECIFICATION StalledSpec
INVARIANTS LeaderboardAgrees PingIsShown
PROPERTIES PromisesHold AnsweredInTime
