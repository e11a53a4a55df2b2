\* Reports without profiles.
CONSTANTS
    Endpoints <- MC_Endpoints
    Full = 2
    Absent = Absent
    Reports <- MC_SingleReports
    Unread <- MC_Unread
SPECIFICATION Spec
INVARIANTS
    UnchangedSummaryIsKept
\* The functions return.
CHECK_DEADLOCK FALSE
