CONSTANTS
    Benchmarks = {b1, b2}
    TotalSteps <- MCTotalSteps
    DefaultMaxStored <- MCDefaultMaxStored
    MaxStoredChoices <- MCMaxStoredChoices
    MaxStorageFailures = 2
SPECIFICATION FairSpec
PROPERTY EveryBenchmarkSettles
