\* A lost reply, then a refusal: the documented unknown state is not recorded.
SPECIFICATION Spec
CONSTANTS
    s1 = s1
    s2 = s2
    plain = plain
    own = own
    Submitters <- MCOneSubmitter
    Intents <- MCPlain
    OwnId = {}
    MaxAttempts = 2
    Outcomes <- MCUninterrupted
    MaxRuns = 1
    MaxCrashes = 0
INVARIANT NetworkErrorIsNotFailure
CHECK_DEADLOCK FALSE
