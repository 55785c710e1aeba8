\* Four deliveries about one issue, three at a time: assigned and unassigned,
\* accepted and tagged.
CONSTANTS
    Request = {r1, r2, r3, r4}
    i1 = i1
    i2 = i2
    registered = registered
    other = other
    hard = hard
    docs = docs
    pat = pat
    quinn = quinn
    Url = {i1, i2}
    User = {pat, quinn}
    ActiveAccount = {pat}
    Registered = {registered}
    Event <- Contention
    Absent = Absent
    NotANumber = NotANumber
    NoOne = NoOne
    NoEvent = NoEvent
    NoDraft = NoDraft
    HalfRange = 8
    MaxConns = 3
ACTION_CONSTRAINT Sorted
SPECIFICATION FairSpec
INVARIANTS TagsKept UnassignIsComplete ResourcesMatchProgress
PROPERTIES Answered
