SPECIFICATION FairSpec
CONSTANTS
    Protocol = "fdc"
    Log <- MCLog
    Own <- MCLog
    Block <- MCBlock
    Round <- MCRound
    StartHeight = 2
    Unset = Unset
    BatchSize = 2
    RetryDelay = 0
    MaxRetry = 1
    MaxHeight = 4
    MaxUnacknowledged = 2
    MaxCrashes = 1
    History = 1
    MaxRound = 2
    MaxLate = 2
    MaxDeleterCrashes = 1
INVARIANTS
    PassedIsStored
PROPERTIES
    LoopImplemented
    OldRowsGo
