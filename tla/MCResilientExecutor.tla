----------------------- MODULE MCResilientExecutor ------------------------
(***************************************************************************)
(* Instances of ResilientExecutor for TLC.                                 *)
(***************************************************************************)
EXTENDS ResilientExecutor

CONSTANTS s1, s2, plain, own

MCTwoSubmitters == {s1, s2}
MCOneSubmitter == {s1}
MCPlain == {plain}
MCBoth == {plain, own}
MCOwn == {own}

MCUninterrupted == AllOutcomes \ {"interrupted"}
===========================================================================
