\* Four deliveries about one pull request.
CONSTANTS
    Request = {r1, r2, r3, r4}
    pat = pat
    quinn = quinn
    p1 = p1
    p2 = p2
    User = {pat, quinn}
    Account = {pat}
    Registered = {"repo"}
    Url = {p1, p2}
    Events <- OneLife
    NoEvent = NoEvent
    MaxConns = 3
    MaxLost = 0
ACTION_CONSTRAINT Sorted
SPECIFICATION FairSpec
INVARIANTS MergeFollowsOpening NoFlagWithoutRow ResourcesMatchProgress
PROPERTIES Answered
