SPECIFICATION Spec
CONSTANTS
    m1 = m1  m2 = m2  r1 = r1  r2 = r2
    Models = {m1, m2}
    Candidates = {"c"}
    Main = "main"
    Runs = {r1, r2}
    Selects <- SmallSelects
    Creators = {"create"}
    Auditors = {"diff"}
    Promoters = {"promote"}
    Deleters = {"delete"}
    NoRun = NoRun
    Narrow = {r2}
    Stricter = {r1}
    Verdicts = {"passed"}
    Options <- SmallOptions
    MaxCommits = 4
    MaxAtOnce = 2
    MaxMoves = 1
CHECK_DEADLOCK FALSE
INVARIANTS
    MergesAreVetted
    NoUnseenBreak
    ProvenanceHolds
    MergesHoldTheirRun
    NobodyElsesCatalog
PROPERTIES
    OnlyLateWorkIsLost
