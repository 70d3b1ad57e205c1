\* Two submitters of one intent, one after the other or overlapping; one kill.
SPECIFICATION FairSpec
CONSTANTS
    s1 = s1
    s2 = s2
    plain = plain
    own = own
    Submitters <- MCTwoSubmitters
    Intents <- MCPlain
    OwnId = {}
    MaxAttempts = 2
    Outcomes <- AllOutcomes
    MaxRuns = 3
    MaxCrashes = 1
INVARIANTS TypeOK WriteAhead SubmittedIsLive AuditCoversResult ExposureBound
PROPERTIES ImplementsLedger PendingResolves
CHECK_DEADLOCK FALSE
