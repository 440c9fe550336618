CONSTANTS
    c1 = c1
    c2 = c2
    c3 = c3
    c4 = c4
    i1 = i1
    i2 = i2
    i3 = i3
    i4 = i4
    s1 = s1
    NoStream = NoStream
    NoChange = NoChange
    Ids = {i1, i2, i3, i4}
    Streams = {s1}
    Changes = {c1, c2, c3}
    Broken <- MCBroken
    Id <- MCId
    Requires <- MCRequires
    Stream <- MCStream
    MaxFailures = 2
SPECIFICATION FairSpec
INVARIANTS
    NoChangeLeavesUntold
    TesterTestsFirstSection
    RestsOnlyWhenDone
PROPERTIES
    ImplementsInMemory
    EveryChangeIsReported
CHECK_DEADLOCK FALSE
