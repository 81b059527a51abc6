CONSTANTS
    Benchmarks = {b1, b2}
    TotalSteps <- MCTotalSteps
    DefaultMaxStored <- MCDefaultMaxStored
    MaxStoredChoices <- MCMaxStoredChoicesNoTrim
    MaxStorageFailures = 0
SPECIFICATION Spec
INVARIANT OneFinalNotice
