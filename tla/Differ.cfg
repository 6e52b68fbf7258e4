CONSTANTS
    Configs <- SomeConfigs
    ImagePath <- SomeImagePath
    MaxRuns = 3
    MaxEdits = 2
SPECIFICATION Spec
INVARIANTS
    DiffIsExact
    RecordInOrder
    ComparesWithApplied
    FailsOnlyOnOtherNames
