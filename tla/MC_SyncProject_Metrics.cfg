\* The metrics lose the latest report while the next sync runs.
CONSTANTS
    MaxSyncs = 2
    MaxSecond = 1
    Files <- MC_FewFiles
    Torn = Torn
    ToolsHonest = TRUE
    DistinctSeconds = FALSE
SPECIFICATION Spec
INVARIANTS
    LatestResultExported
