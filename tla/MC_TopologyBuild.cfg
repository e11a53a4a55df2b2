SPECIFICATION Spec
CONSTANTS
    a = a
    b = b
    c = c
    Unset = Unset
    Apps <- MC_Apps
    Spans <- MC_Spans
    Inputs <- MC_Inputs
INVARIANTS
    TypeOK
    OverridesWin
    EdgesAreReference
    EveryServiceHasAnEntry
CHECK_DEADLOCK FALSE
