SPECIFICATION Spec
CONSTANTS
    x1 = x1  x2 = x2
    Slots = {x1, x2}
    Labels = {"default", "main", "candidate"}
    Shared = {"default", "main"}
    Kinds <- AllKinds
    MaxAttempts = 2
    MaxRows = 2
    MaxMoves = 1
    MaxSteps = 4
SYMMETRY AnySlot
CHECK_DEADLOCK FALSE
INVARIANTS
    RowsAreKept
    RowsAreSingle
    SkippedIsComplete
