SPECIFICATION RecoverySpec
CONSTANTS
    first = first
    second = second
    stop = stop
    limit = limit
    Runs <- MCRuns
    Commands <- MCCommands
    Orders <- MCOrders
    Protective <- MCProtective
    MinProtective = 1
    Quantities = {0, 1}
    Positions = {0, 1, 2}
    MaxIterations <- MCIterations
    MaxChanges = 1
    MaxFaults = 1
CHECK_DEADLOCK FALSE
INVARIANTS
    RecoveryTypeOK
    SteadyMismatchReported
    TroubleHasAlert
