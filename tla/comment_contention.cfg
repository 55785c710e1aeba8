\* Three requests on one account, one pooled connection less than requests.
CONSTANTS
    Request = {r1, r2, r3}
    alice = alice
    mallory = mallory
    pat = pat
    quinn = quinn
    User <- MCUser
    Account = {pat, alice}
    ActiveAccount = {pat}
    Registered = {alice}
    RepoUrl = {"repo", "unregistered"}
    Rosters <- Steady
    Comments <- Contention
    NoComment = NoComment
    HalfRange = 2
    MaxConns = 2
    MaxLost = 0
ACTION_CONSTRAINT Sorted
SPECIFICATION FairSpec
INVARIANTS TypeOK LedgerBalanced ResourcesMatchProgress
PROPERTIES Answered
