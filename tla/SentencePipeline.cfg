SPECIFICATION FairSpec
CONSTANTS
    Sentences = 4
    MaxCancels = 2
INVARIANTS NoOrphan
PROPERTIES KeepsOrder EndedCallLeaves
CHECK_DEADLOCK FALSE
