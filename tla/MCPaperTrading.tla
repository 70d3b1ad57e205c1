-------------------------- MODULE MCPaperTrading --------------------------
(***************************************************************************)
(* An instance of PaperTrading for TLC: a model runner and an ensemble     *)
(* runner on a handful of candles chosen to make each branch of a step     *)
(* happen.  Prices are around 100 and one ATR is 4.                        *)
(***************************************************************************)
EXTENDS PaperTrading

CONSTANTS model, ensemble

MCRunners == {model, ensemble}
MCEnsemble == {ensemble}

MCBar(c, h, l, p, t, x) ==
    [close |-> c, high |-> h, low |-> l, prob |-> p, trend |-> t, target |-> x]

MCBars ==
    { MCBar(100, 101, 99, "buy", TRUE, 2),     \* both runners want a position
      MCBar(112, 113, 104, "exit", FALSE, 1),  \* a rise: the trailing stop moves
      MCBar(97, 101, 85, "buy", TRUE, 0) }     \* the range reaches the stop
===========================================================================
