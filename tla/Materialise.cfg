SPECIFICATION Spec
CONSTANTS
    r1 = r1  r2 = r2  c1 = c1  c2 = c2  v1 = v1  v2 = v2
    Runs = {r1, r2}
    Branches = {"dev"}
    Catalogs = {c1, c2}
    Versions = {v1, v2}
    Unknown = Unknown
    MaxRuns = 2
    MaxMoves = 2
SYMMETRY Symmetric
CHECK_DEADLOCK FALSE
INVARIANTS
    RowsTruthful
    RecordedStands
PROPERTIES
    OnlyCurrentIsReused
