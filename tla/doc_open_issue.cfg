\* An issue is accepted, closed and accepted again.
CONSTANTS
    Request = {r1, r2, r3}
    i1 = i1
    i2 = i2
    registered = registered
    other = other
    hard = hard
    docs = docs
    pat = pat
    quinn = quinn
    Url = {i1, i2}
    User = {pat, quinn}
    ActiveAccount = {pat}
    Registered = {registered}
    Event <- Closing
    Absent = Absent
    NotANumber = NotANumber
    NoOne = NoOne
    NoEvent = NoEvent
    NoDraft = NoDraft
    HalfRange = 8
    MaxConns = 1
SPECIFICATION FairSpec
PROPERTIES ReportedOpenIsOpen
