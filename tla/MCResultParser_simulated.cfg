CONSTANTS
    NoFrac = NoFrac
    Absent = Absent
    NoResult = NoResult
    Pending = Pending
    Other = Other
    Reports <- MCSimulatedReports
SPECIFICATION Spec
INVARIANT SimulatedOutputParsed
CHECK_DEADLOCK FALSE
