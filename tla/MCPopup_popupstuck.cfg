CONSTANTS
    Benchmarks = {b1}
    TotalSteps <- MCTotalSteps
    DefaultMaxStored <- MCDefaultMaxStored
    MaxStoredChoices <- MCMaxStoredChoicesNoTrim
    MaxStorageFailures = 0
    NoId = NoId
    NoReply = NoReply
    MaxPopupOpens = 1
SPECIFICATION PopupFairSpec
PROPERTY PopupRunEnds
