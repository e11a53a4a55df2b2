\* A project with an interval.
CONSTANT Interval = 1
SPECIFICATION FairSpec
INVARIANTS
    TypeOK
    DroppedTriggerIsCovered
    QueuedReasonIsOwed
PROPERTIES
    ImplementsRequests
    KeepsSyncing
