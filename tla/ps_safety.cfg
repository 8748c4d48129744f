SPECIFICATION FairSpec
CONSTANTS
    Protocols <- OnlyFtso
    History = 1
    MaxRound = 2
    MaxLate = 1
    MaxCrashes = 1
INVARIANTS
    TypeOK
    RootHasData
    LiveDataOnce
    ProofsVerify
    ServedIfPublished
PROPERTIES
    ImplementsPromise
    OldRowsGo
