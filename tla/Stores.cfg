SPECIFICATION Spec
CONSTANTS
    RunOffers <- SmallRuns
    RecordOffers <- SmallRecords
    SeedOffers <- SmallSeeds
    ProgressOffers <- SmallProgress
    PromotionOffers <- SmallPromotions
    EvidenceOffers <- SmallEvidence
    MarkOffers <- SmallMarks
    Typed <- SmallPrefixes
    Legacy <- SmallLegacy
    MaxCalls = 5
CHECK_DEADLOCK FALSE
INVARIANTS
    StoresAgree
    NewestRecordStands
    NewestWatermarkStands
    KeyIsItsRecords
