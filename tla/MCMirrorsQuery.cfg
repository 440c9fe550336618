SPECIFICATION Spec
CONSTANTS
    p1 = p1
    p2 = p2
    q = q
    Pkgs = {p1, p2, q}
    Supersedes <- MCSupersedes
    Modular = FALSE
    Builds = {b1}
    NoIndex = NoIndex
    MdKept = 58
    MaxSnapshots = 3
    MaxChanges = 1
    MaxCrashes = 0
    MaxQueryFailures = 1
INVARIANTS
    UsedSnapshotStaysWhole
