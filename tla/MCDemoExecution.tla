--------------------------- MODULE MCDemoExecution ---------------------------
EXTENDS DemoExecution, TLC

CONSTANTS r1, r2

MCRuns == {r1, r2}
MCSymmetry == Permutations(MCRuns)
MCTargets == {0, 3}
==============================================================================
