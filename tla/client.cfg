SPECIFICATION FairSpec
CONSTANTS
    MaxReads = 3
    MaxOthers = 2
    MaxDrops = 1
CHECK_DEADLOCK FALSE
INVARIANTS
    OwnAnswer
    FirstReadServed
PROPERTIES
    ReadReturns
