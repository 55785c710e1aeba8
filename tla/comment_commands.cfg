\* Two requests, every kind of comment, lost replies and calls that land late.
CONSTANTS
    Request = {r1, r2}
    alice = alice
    mallory = mallory
    pat = pat
    quinn = quinn
    User <- MCUser
    Account = {pat, alice}
    ActiveAccount = {pat}
    Registered = {alice}
    RepoUrl = {"repo", "unregistered"}
    Rosters <- Changing
    Comments <- AllKinds
    NoComment = NoComment
    HalfRange = 2
    MaxConns = 2
    MaxLost = 1
SYMMETRY Symmetry
SPECIFICATION Spec
INVARIANTS PublishedIsRecorded LeaderboardDrift OkMeansEverywhere OnlyMaintainersPay
PROPERTIES PromiseKept NothingNewAfterAnswer
