\* After a failed load or refresh the report served is the raw one.
CONSTANTS
    MaxSyncs = 2
    MaxSecond = 1
    Files <- MC_FewFiles
    Torn = Torn
    ToolsHonest = TRUE
    DistinctSeconds = FALSE
SPECIFICATION Spec
INVARIANTS
    ReportPathIsEffective
