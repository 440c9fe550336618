CONSTANTS
    i1 = i1
    i2 = i2
    i3 = i3
    Ids <- MCIds
    Changes <- MCChanges
    Id <- MCId
    Requires <- MCRequires
    Inputs <- MCInputs
SPECIFICATION FairSearchSpec
INVARIANT FindsTheDependants
PROPERTY Terminates
