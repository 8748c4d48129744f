SPECIFICATION Spec
CONSTANTS
    Log <- MCLog
    Own <- MCOwn
    Block <- MCBlock
    Round <- MCRound
    Unset = Unset
    StartHeight = Unset
    BatchSize = 2
    RetryDelay = 1
    Cutoffs = {2, 4}
    MaxRetry = 2
    MaxHeight = 5
    MaxUnacknowledged = 1
    MaxCrashes = 1
PROPERTIES
    DefaultsToDeployment
