\* Reports with two profiles and reports without profiles.
CONSTANTS
    Endpoints <- MC_Endpoints
    Full = 2
    Absent = Absent
    Reports <- MC_Reports
    Unread <- MC_Unread
SPECIFICATION Spec
INVARIANTS
    DocumentIsReport
    GateNeverBetter
    NumbersNeverBetter
    AggregatesNeverPassAnew
    ProfilesStandAlone
    GaugesAgree
\* The functions return.
CHECK_DEADLOCK FALSE
