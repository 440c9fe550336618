CONSTANTS
    c1 = c1
    c2 = c2
    c3 = c3
    c4 = c4
    c5 = c5
    c6 = c6
    i1 = i1
    i2 = i2
    i3 = i3
    i4 = i4
    s1 = s1
    s2 = s2
    NoStream = NoStream
    NoChange = NoChange
    Ids <- MCIds
    Streams <- MCStreams
    Changes <- MCChanges
    Id <- MCId
    Requires <- MCRequires
    Stream <- MCStream
SPECIFICATION Spec
INVARIANTS
    RequirementsFirst
    WaitsWithReason
    FailuresTakeDependants
    OnlyLoopsAreRejected
    BlameIsFirstInStream
