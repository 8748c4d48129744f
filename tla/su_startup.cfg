SPECIFICATION FairSpec
CONSTANTS
    Environments <- MCEnvironments
    Texts <- MCTexts
    Unset = Unset
    Blank = Blank
    None = None
    Workers = {1, 2}
    MaxRelay = 1
INVARIANTS
    TypeOK
    RunsAsConfigured
    RestartFollowsRelay
PROPERTIES
    HealsAfterOutage
