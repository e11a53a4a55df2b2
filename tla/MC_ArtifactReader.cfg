\* Three syncs: one to be seen, one to fail while refreshing, one to go back.
\* Run directories are not shared (see the README for what happens when they
\* are), and tools may exit 0 without writing.
CONSTANTS
    MaxSyncs = 3
    MaxSecond = 3
    Files <- MC_Files
    Torn = Torn
    ToolsHonest = FALSE
    DistinctSeconds = TRUE
SPECIFICATION ReaderSpec
INVARIANTS
    ReaderTypeOK
    IInv
PROPERTIES
    MonotonicReads
