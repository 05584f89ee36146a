SPECIFICATION Spec
CONSTANTS
    Models <- SmallModels
    Before <- SmallBefore
    SourceSchema <- SmallSchema
    Lower <- SmallLower
    Designs <- SmallDesigns
    Contents <- SmallContents
CHECK_DEADLOCK FALSE
INVARIANTS
    VersionTellsOutput
    ImpactFindsIt
    LostInputsAreReported
