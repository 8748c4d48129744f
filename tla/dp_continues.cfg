SPECIFICATION Spec
CONSTANTS
    Log <- LiveLog
    Own <- LiveOwn
    Block <- LiveBlock
    Round <- LiveRound
    Unset = Unset
    StartHeight = 1
    BatchSize = 2
    RetryDelay = 1
    Cutoffs = {2, 4}
    MaxRetry = 2
    MaxHeight = 3
    MaxUnacknowledged = 1
    MaxCrashes = 1
PROPERTIES
    ContinuesWhereItStopped
