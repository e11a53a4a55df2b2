\* All graphs of up to three edges.
CONSTANTS
    a = a
    b = b
    c = c
    unknown = unknown
    Services <- MC_Services
    Nodes <- MC_Nodes
    Entries <- MC_Entries
    EdgeSets <- MC_EdgeSets
SPECIFICATION FairSpec
INVARIANTS
    TypeOK
    ImpactIsClosure
PROPERTIES
    Terminates
\* The function returns when every endpoint has been evaluated.
CHECK_DEADLOCK FALSE
