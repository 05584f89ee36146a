SPECIFICATION Spec
CONSTANTS
    Bases <- SmallBases
    Offers <- SmallOffers
    Movable <- SmallMovable
    MaxEdits = 3
CHECK_DEADLOCK FALSE
INVARIANTS
    OnlyRedirectedAreMissed
    VanishedAreNamed
