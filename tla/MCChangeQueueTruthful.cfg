CONSTANTS
    c1 = c1
    c2 = c2
    c3 = c3
    c4 = c4
    c5 = c5
    Changes <- MCChanges
    Broken <- MCBroken
SPECIFICATION TruthfulSpec
INVARIANTS
    SuspectsFail
    OnlySoundBatchesPass
    OnlyCulpritsFail
PROPERTIES
    ImplementsGate
