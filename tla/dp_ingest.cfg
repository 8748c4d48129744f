SPECIFICATION FairSpec
CONSTANTS
    Log <- MCLog
    Own <- MCOwn
    Block <- MCBlock
    Round <- MCRound
    Unset = Unset
    StartHeight = 2
    BatchSize = 2
    RetryDelay = 1
    Cutoffs = {2, 4}
    MaxRetry = 2
    MaxHeight = 5
    MaxUnacknowledged = 1
    MaxCrashes = 1
INVARIANTS
    TypeOK
    NothingSkipped
    NoRework
    PendingOnce
    QueueOldestFirst
    RetryCountsFailures
PROPERTIES
    DroppedAfterAllRetries
    OnlyOvertakenAbandoned
    ImplementsPromise
    Settles
