SPECIFICATION GateSpec
CONSTANTS
    s1 = s1
    s2 = s2
    Scripts <- MCScripts
    Kinds <- MCKinds
    Configs <- MCConfigs
    Items <- MCItems
    Marks <- MCMarks
    Reports <- MCReports
    Quantities <- MCQuantities
    Equities <- MCEquities
    InitialEquity = 1
    Holdings <- MCHoldings
    MaxChanges = 1
    MaxFailures = 1
CHECK_DEADLOCK FALSE
INVARIANTS
    GateTypeOK
    NoConcernOverlooked
    ReviewExcludesGate
