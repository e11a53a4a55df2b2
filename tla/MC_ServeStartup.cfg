SPECIFICATION FairSpec
CONSTANTS
    N = 2
    Installs = {2}
    Ticking = {1}
    MaxRestarts = 1
    MaxSessions = 3
    MaxRevocations = 1
INVARIANTS
    TypeOK
    DeniedOnlyIfRevoked
    OneDashboard
    InstalledIsCurrent
PROPERTY EveryProjectStarts
CHECK_DEADLOCK FALSE
