SPECIFICATION FairSpec
CONSTANTS
    t1 = t1
    t2 = t2
    Threads <- MCThreads
    MIN_COOLDOWN = 2
    MAX_COOLDOWN = 7
INVARIANTS
    TypeOK
    GoodCallResets
PROPERTIES
    FailuresSpaced
    RedisUsedAgain
