\* Tools that write what they promise; two syncs may share a run directory.
CONSTANTS
    MaxSyncs = 3
    MaxSecond = 2
    Files <- MC_Files
    Torn = Torn
    ToolsHonest = TRUE
    DistinctSeconds = FALSE
SPECIFICATION Spec
INVARIANTS
    TypeOK
    OkServesOneRun
    OfferedPathsExist
PROPERTIES
    ImplementsRegister
