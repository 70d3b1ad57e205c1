---------------------------- MODULE MCLocalServices ----------------------------
EXTENDS LocalServices

CONSTANTS browser, command

MCSessions == {browser, command}
MCDashboard == {browser}
MCListeners == Pids

\* What follows the first overlap of two requests is not explored.
UntilDoubtful == ~ doubtful
===============================================================================
