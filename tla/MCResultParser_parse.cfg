CONSTANTS
    NoFrac = NoFrac
    Absent = Absent
    NoResult = NoResult
    Pending = Pending
    Other = Other
    Reports <- MCReports
SPECIFICATION Spec
INVARIANT TypeOK
INVARIANT FieldsFromReport
CHECK_DEADLOCK FALSE
PROPERTY ParseIsLastMatch
