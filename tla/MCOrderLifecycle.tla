------------------------ MODULE MCOrderLifecycle --------------------------
(***************************************************************************)
(* Instances of OrderLifecycle for TLC.                                    *)
(***************************************************************************)
EXTENDS OrderLifecycle, TLC

CONSTANTS entry, exit, l1, l2

MCEntry == {entry}
MCBoth == {entry, exit}
MCExit == {exit}
MCOneListener == {l1}
MCTwoListeners == {l1, l2}

MCSymmetry == Permutations({l1, l2})
===========================================================================
