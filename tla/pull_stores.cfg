\* Three deliveries of every kind about two pull requests.
CONSTANTS
    Request = {r1, r2, r3}
    pat = pat
    quinn = quinn
    p1 = p1
    p2 = p2
    User = {pat, quinn}
    Account = {pat}
    Registered = {"repo"}
    Url = {p1, p2}
    Events <- Mixed
    NoEvent = NoEvent
    MaxConns = 3
    MaxLost = 1
SYMMETRY Symmetry
SPECIFICATION Spec
INVARIANTS TypeOK CommittedIsAnnounced OkMeansCommitted
PROPERTIES RowsMove
