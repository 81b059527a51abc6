CONSTANTS
    NoFrac = NoFrac
    Absent = Absent
    NoResult = NoResult
    Pending = Pending
    Other = Other
    Reports <- MCReports
SPECIFICATION Spec
INVARIANT CountFromReport
CHECK_DEADLOCK FALSE
