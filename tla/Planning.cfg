SPECIFICATION Spec
CONSTANTS
    Files <- SmallFiles
    Override <- SmallOverride
    DefaultNamespace = "default"
    DefaultSchema = "default"
    Seeds <- SmallSeeds
    Readings <- SmallReadings
    Tags <- SmallTags
    Ephemerals <- SmallEphemerals
    Requests <- SmallRequests
    Warehouses <- SmallWarehouses
    Edits <- SmallEdits
CHECK_DEADLOCK FALSE
INVARIANTS
    PlanIsOrdered
    PlanIsClosed
