SPECIFICATION ServicesSpec
CONSTANTS
    browser = browser
    command = command
    Sessions <- MCSessions
    Dashboard <- MCDashboard
    Listeners <- MCListeners
    MaxStarts = 2
    MaxRequests = 2
    MaxTimeouts = 1
    MaxCandle = 1
    MaxReconnects = 1
    MaxDownloads = 1
CONSTRAINT UntilDoubtful
CHECK_DEADLOCK FALSE
INVARIANTS
    ServicesTypeOK
    RecordedIsReal
    DatasetWhole
    EndedIsTold
