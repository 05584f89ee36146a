\* Two operations, one key, two crashes, one failed append.
SPECIFICATION FairSpec
CONSTANTS
    run = run
    test = test
    k1 = k1
    NoKey = NoKey
    NoHash = NoHash
    Requests <- RunAndTest
    Mutating <- OnlyRun
    Keys <- OneKey
    MaxOps = 2
    MaxCrashes = 2
    MaxFaults = 1
INVARIANTS
    OneMutating
    CancelDecides
    WholeJournalNoDuplicate
    AcknowledgedStays
    FirstRestartKeepsHistory
PROPERTIES
    GateIsFreed
    AcknowledgedEnds
CHECK_DEADLOCK FALSE
