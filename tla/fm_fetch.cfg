SPECIFICATION FairSpec
CONSTANTS
    N = 3
    MaxRound = 2
    Trees <- MCTrees
INVARIANTS
    TypeOK
    StoredHasRootOnChain
    StoredUnderItsRound
PROPERTIES
    OneGoodProviderIsEnough
    AttemptsEnd
