\* Two listeners write the same tables; old events are fed again, one is lost.
SPECIFICATION Spec
CONSTANTS
    entry = entry
    exit = exit
    l1 = l1
    l2 = l2
    Orders <- MCEntry
    Reducing = {}
    Qty = 2
    Listeners <- MCTwoListeners
    MaxMessages = 2
    MaxLost = 1
    MaxReplays = 1
SYMMETRY MCSymmetry
INVARIANTS LifecycleExplained NoPhantomFill FillsAccounted
CHECK_DEADLOCK FALSE
