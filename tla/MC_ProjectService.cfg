\* Two syncs: one under way when a trigger arrives, and the one that answers it.
CONSTANTS
    Interval = 1
    MaxSyncs = 2
    MaxSecond = 1
    Files <- MC_Files
    Torn = Torn
    ToolsHonest = TRUE
    DistinctSeconds = FALSE
SPECIFICATION FairSpec
INVARIANTS
    TypeOK
    StatusFollowsLoop
PROPERTIES
    SyncFinishes
    TriggerIsServed
