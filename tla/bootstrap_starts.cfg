\* Two servers, three starts, one lost reply.
CONSTANTS
    Process = {p1, p2}
    Structures <- MCStructures
    Shared = {"live-update-stream"}
    Found <- MCFound
    MaxStarts = 3
    MaxLost = 1
SPECIFICATION FairSpec
INVARIANTS ServingMeansReady DummiesAreExplained
PROPERTIES StartsServe
