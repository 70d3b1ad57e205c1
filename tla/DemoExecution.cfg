SPECIFICATION Spec
CONSTANTS
    r1 = r1
    r2 = r2
    Runs <- MCRuns
    Targets <- MCTargets
    Cap = 2
    MinRebalance = 1
    MaxBlind = 1
    MaxPosition = 4
    MaxResting = 2
SYMMETRY MCSymmetry
INVARIANTS
    TypeOK
    LongOnly
    ExposureBound
    NakedBound
