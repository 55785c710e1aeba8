\* The comment on IssueClaim in pkg/constants.go.
CONSTANTS
    Request = {r1}
    alice = alice
    mallory = mallory
    pat = pat
    quinn = quinn
    User <- MCUser
    Account = {pat, alice}
    ActiveAccount = {pat}
    Registered = {alice}
    RepoUrl = {"repo", "unregistered"}
    Rosters <- Steady
    Comments <- BugOnly
    NoComment = NoComment
    HalfRange = 2
    MaxConns = 2
    MaxLost = 1
SPECIFICATION Spec
INVARIANTS BugMarksOnIssueStream
