\* The model runner and the ensemble runner on one account, one kill, one repeat.
SPECIFICATION FairSpec
CONSTANTS
    model = model
    ensemble = ensemble
    Runners <- MCRunners
    Ensemble <- MCEnsemble
    Bars <- MCBars
    InitialEquity = 1000
    Leverage = 3
    EntryPercent = 90
    Fee = 1
    Slip = 1
    StopDistance = 10
    TakeDistance = 16
    TrailDistance = 12
    MaxHolding = 2
    MaxLosses = 1
    PauseBars = 2
    MaxDailyLoss = 150
    BarsPerDay = 3
    MinRebalance = 120
    Concurrent = FALSE
    MaxCandles = 3
    MaxFaults = 1
INVARIANTS TypeOK OrdersExplainAccount OncePerCandle StopHonoured
PROPERTIES BreakerHolds StopsOnlyTighten KeepsUp
CHECK_DEADLOCK FALSE
