\* One listener follows the stream of an entry and its exit order; one event is lost.
SPECIFICATION FairSpec
CONSTANTS
    entry = entry
    exit = exit
    l1 = l1
    l2 = l2
    Orders <- MCBoth
    Reducing <- MCExit
    Qty = 2
    Listeners <- MCOneListener
    MaxMessages = 3
    MaxLost = 1
    MaxReplays = 0
INVARIANTS TypeOK MirrorsExchange
PROPERTIES OnlyForward EndIsLearned
CHECK_DEADLOCK FALSE
