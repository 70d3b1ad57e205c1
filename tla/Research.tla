------------------------------ MODULE Research ------------------------------
(***************************************************************************)
(* The research side, one script of it at a time: a downloader and its     *)
(* audit, an experiment that cuts the dataset into folds, a backtest, or    *)
(* the whole research pipeline.  They share no state while they run (the    *)
(* pipeline keeps of the others only the reports they leave), so a          *)
(* behaviour chooses one, and the state of the other three stays what it    *)
(* was at the start.                                                        *)
(***************************************************************************)
EXTENDS CandleHistory, FoldValidation, Backtest, ResearchPipeline

CONSTANTS
  Scripts,     \* which of the four
  TestedPlans  \* the experiments of FoldValidation

ASSUME ResearchAssumption ==
  /\ Scripts \subseteq {"download", "validate", "backtest", "pipeline"}
  /\ TestedPlans \subseteq Plans

VARIABLE script
researchVars == <<script, candleVars, foldVars, backtestVars, pipelineVars>>

CandlesUnused ==
  CandleInit /\ now = 1
    /\ feed = [source |-> "forwards", endpoint |-> "klines", full |-> FALSE]
FoldsUnused ==
  FoldInit({[scheme |-> "dated", rows |-> 1, validFrom |-> 0, testFrom |-> 0]})
BacktestUnused == BacktestInit /\ setup = [rules |-> <<"always">>, sizing |-> "fixed"]

ResearchInit ==
  /\ script \in Scripts
  /\ IF script = "download" THEN CandleInit ELSE CandlesUnused
  /\ IF script = "validate" THEN FoldInit(TestedPlans) ELSE FoldsUnused
  /\ IF script = "backtest" THEN BacktestInit ELSE BacktestUnused
  /\ PipelineInit

Download ==
  /\ script = "download" /\ CandleNext
  /\ UNCHANGED <<script, foldVars, backtestVars, pipelineVars>>
Validate ==
  /\ script = "validate" /\ FoldNext
  /\ UNCHANGED <<script, candleVars, backtestVars, pipelineVars>>
RunBacktest ==
  /\ script = "backtest" /\ BacktestNext
  /\ UNCHANGED <<script, candleVars, foldVars, pipelineVars>>
RunPipeline ==
  /\ script = "pipeline" /\ PipelineNext
  /\ UNCHANGED <<script, candleVars, foldVars, backtestVars>>

ResearchNext == Download \/ Validate \/ RunBacktest \/ RunPipeline

ResearchSpec == ResearchInit /\ [][ResearchNext]_researchVars
=============================================================================
