\* The comment on SolutionMerge in pkg/constants.go.
CONSTANTS
    Request = {r1, r2, r3, r4}
    pat = pat
    p1 = p1
    User = {pat}
    Account = {pat}
    Registered = {"repo"}
    Url = {p1}
    Events <- MCEvents
    NoEvent = NoEvent
    MaxConns = 1
    MaxLost = 0
    TheUrl = p1
    Author = pat
SPECIFICATION LifeSpec
INVARIANTS MergedIsCaptured
