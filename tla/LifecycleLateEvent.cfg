\* An old partial fill is fed again after the order was filled.
SPECIFICATION Spec
CONSTANTS
    entry = entry
    exit = exit
    l1 = l1
    l2 = l2
    Orders <- MCEntry
    Reducing = {}
    Qty = 2
    Listeners <- MCOneListener
    MaxMessages = 10
    MaxLost = 0
    MaxReplays = 1
INVARIANT LateEventIsWarned
CHECK_DEADLOCK FALSE
