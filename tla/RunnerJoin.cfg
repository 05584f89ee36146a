SPECIFICATION Spec
CONSTANTS
    a = a  b = b  c = c  d = d  s1 = s1  s2 = s2  t1 = t1
    Models <- JoinModels
    Seeds <- OneSeed
    Tests <- OneTest
    Deps <- JoinDeps
    Reads <- JoinReads
    Covers <- JoinCovers
    TestReads <- TestReadsNothing
    Plans <- JoinPlans
    SeedPlans <- OneSeedPlans
    Concurrency = 2
    MaxAttempts = 2
    MaxEpochs = 1
    MaxDrops = 0
CHECK_DEADLOCK FALSE
INVARIANTS
    RunsOnlyOnSatisfied
