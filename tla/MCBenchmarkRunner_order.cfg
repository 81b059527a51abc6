CONSTANTS
    Benchmarks = {b1, b2}
    TotalSteps <- MCTotalSteps
    DefaultMaxStored <- MCDefaultMaxStored
    MaxStoredChoices <- MCMaxStoredChoices
    MaxStorageFailures = 3
SYMMETRY BenchmarkSymmetry
SPECIFICATION Spec
INVARIANT TypeOK
INVARIANT StoredNewestFirst
INVARIANT HistoryInductive
INVARIANT SentFinalOnlyIfFinal
INVARIANT RunningBookkeeping
PROPERTY FinalStatusSticks
