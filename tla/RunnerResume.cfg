SPECIFICATION FairSpec
CONSTANTS
    a = a  b = b  c = c  d = d  s1 = s1  s2 = s2  t1 = t1
    Models <- ChainModels
    Seeds <- TwoSeeds
    Tests <- OneTest
    Deps <- ChainDeps
    Reads <- ChainReads
    Covers <- ChainCovers
    TestReads <- TestReadsSeed
    Plans <- ChainPlans
    SeedPlans <- TwoSeedPlans
    Concurrency = 2
    MaxAttempts = 2
    MaxEpochs = 2
    MaxDrops = 1
CHECK_DEADLOCK FALSE
INVARIANTS
    RetryBudget
PROPERTIES
    ImplementsContract
    CancelHonoured
    Terminates
