SPECIFICATION FairSpec
CONSTANTS
    p1 = p1
    p2 = p2
    q = q
    Pkgs = {p1, p2, q}
    Supersedes <- MCSupersedes
    Modular = FALSE
    Builds = {b1}
    NoIndex = NoIndex
    MdKept = 0
    MaxSnapshots = 3
    MaxChanges = 2
    MaxCrashes = 1
    MaxQueryFailures = 0
INVARIANTS
    FreshSnapshotsAreWhole
    LatestIsWhole
    PinnedIsWhole
PROPERTY UpdatesAreListed
CHECK_DEADLOCK FALSE
