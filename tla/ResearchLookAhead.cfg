\* The experiments alone: what the labels of a rolling window read.
SPECIFICATION ResearchSpec
CONSTANTS
    Scripts <- MCValidate
    TestedPlans <- MCPlans
    LastBar = 6
    PageLimit = 2
    MaxBatches = 3
    Overlap = 1
    Datasets = {6, 7, 9, 11, 12, 13, 14, 17}
    Horizon = 2
    Embargo = 2
    Splits = 3
    MinTrain = 3
    MinCalibration = 2
    MinTest = 2
    TrainWindow = 4
    CalibrationWindow = 2
    TestWindow = 3
    Lookback = 2
    Stride = 2
    Bars = 6
    Moves <- MCMoves
    Weights <- MCWeights
    Cost = 1
    InitialEquity = 20
    MinEquity = 2
    StopPercent = 40
    MaxHolding = 2
    Unit = 2
    MaxExposure = 3
    MaxRuns = 2
    MaxSurprises = 2
CHECK_DEADLOCK FALSE
INVARIANT WindowsUseThePast
