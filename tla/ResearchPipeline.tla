-------------------------- MODULE ResearchPipeline --------------------------
(***************************************************************************)
(* scripts/run_safe_research_pipeline.py: the research scripts run one      *)
(* after the other as processes that meet in files, and                     *)
(* research/model_admission.py, which reads the reports of the others and   *)
(* decides which candidate may enter paper trading.                         *)
(*                                                                          *)
(* A script fails because a file it reads is missing, because of its own    *)
(* error, or by any exception, before or after it wrote its report.  Of a   *)
(* report only the bands matter that the admission policy scores: "best",   *)
(* "weak", or "none" for a metric that is not in the file.                  *)
(***************************************************************************)
EXTENDS Integers, Sequences, FiniteSetsExt

CONSTANTS
  MaxRuns,     \* runs of the pipeline
  MaxSurprises \* exceptions without a cause in the model, and unusual reports

ASSUME PipelineAssumption == {MaxRuns, MaxSurprises} \subseteq Nat

VARIABLES
  runs,        \* runs started so far
  job,         \* the run in progress, or NoJob
  files,       \* [candles, dataset, calibrated]: the run whose data they hold
  evidence,    \* source -> its latest report
  leaderboard, \* the latest admission: [run, failed, rows], or Nothing
  snapshot,    \* the decisions last appended to the admission snapshots
  changes,     \* daily_admission_changes.csv: the sources in it
  surprises    \* how many there were
pipelineVars ==
  <<runs, job, files, evidence, leaderboard, snapshot, changes, surprises>>

NoJob == [phase |-> "idle"]
Nothing == [run |-> 0]

-----------------------------------------------------------------------------
(* SAFE_STEPS; a script that writes a report the admission reads has the    *)
(* name of that source.                                                     *)
SafeSteps == <<
  "deploy_check", "data_quality", "build_features", "train_model",
  "model_diagnostics", "train_calibrated", "signal_confidence",
  "calibrated_ml", "wf_calibration", "model_backends", "model_library",
  "wf_library", "v27_report", "sequence_backends", "sequence_models",
  "sequence_walk_forward", "v28_report", "admission", "v29_report",
  "paper_health", "signal_hit_rate", "daily_operations", "v30_report",
  "v26_report", "purged_cv", "strategy_library", "parameter_search",
  "ensemble", "market_realism", "audit_package">>

StepsOf(download) == (IF download THEN <<"download">> ELSE <<>>) \o SafeSteps
Step == StepsOf(job.download)[job.at]

FixedSplit == {"model_library", "sequence_models"}
SequenceModels == {"sequence_models", "sequence_walk_forward"}
Walks == {"wf_library", "wf_calibration", "sequence_walk_forward"}
Models == FixedSplit \cup Walks
Strategies == {"parameter_search", "ensemble", "calibrated_ml"}
Sources == Models \cup Strategies

-----------------------------------------------------------------------------
(* The reports a script can end with, by the columns admission looks for.   *)
Report(status, quality, performance, trades, folds, risk) ==
  [status |-> status, quality |-> quality, performance |-> performance,
   trades |-> trades, folds |-> folds, risk |-> risk]

(* No usable fold: a summary with zero folds and no metrics.                *)
EmptyReport == Report("ok", "none", "none", "none", "few", "none")

(* The columns of the sequence reports are not the ones admission reads; of *)
(* a walk-forward without folds the summary has no row.  overfit_risk_score *)
(* is 0 or at least 6 (the policy asks for 0.65), and 100 if the candidate  *)
(* raised.                                                                  *)
UsualReport(source) ==
  CASE source = "model_library"   -> Report("ok", "best", "none", "none", "none", "none")
    [] source \in {"wf_library", "wf_calibration"} ->
         Report("ok", "best", "best", "many", "many", "none")
    [] source = "sequence_models" -> Report("ok", "none", "none", "none", "none", "none")
    [] source = "sequence_walk_forward" ->
         Report("ok", "none", "none", "none", "many", "none")
    [] source = "parameter_search" -> Report("ok", "none", "best", "many", "none", "weak")
    [] source \in {"ensemble", "calibrated_ml"} ->
         Report("ok", "none", "best", "many", "none", "none")

UnusualReports(source) ==
  CASE source = "wf_library" ->
         {Report("ok", "weak", "best", "many", "many", "none"),
          Report("failed", "none", "none", "none", "few", "none"), EmptyReport}
    [] source = "wf_calibration" -> {EmptyReport}
    [] source = "sequence_walk_forward" ->
         {Report("no_folds", "none", "none", "none", "none", "none")}
    [] source = "parameter_search" ->
         {Report("ok", "none", "best", "many", "none", "best"),
          Report("raised", "none", "none", "none", "none", "weak")}
    [] source \in {"ensemble", "calibrated_ml"} ->
         {Report("ok", "none", "best", "few", "none", "none")}
    [] OTHER -> {}

(* save_walk_forward_calibration_report writes its summary before its       *)
(* backtest and once more after it.                                         *)
TornReport == Report("ok", "best", "none", "none", "many", "none")

-----------------------------------------------------------------------------
(* _metric_score: the points of a band, and what blocks a candidate.        *)
Points(band, best, weak, none) ==
  CASE band \in {"best", "many"} -> best
    [] band \in {"weak", "few"}  -> weak
    [] OTHER                     -> none

Clip(score) == Max({0, Min({score, 100})})
Accepted(row) == row.status # "failed"

MetricScore(source, row) ==
  Clip(35
       + (IF Accepted(row) THEN 0 ELSE -45)
       + Points(row.quality, 38, -26, IF source \in Models THEN -8 ELSE 0)
       + Points(row.performance, 44, -31, 0)
       + Points(row.trades, 7, -12, 0)
       + Points(row.folds, 6, -8, IF source \in Walks THEN -8 ELSE 0)
       + Points(row.risk, 8, -16, 0))

Insufficient(row) == row.performance = "none" /\ row.quality = "none"
\* Mutant of Blocked: few trades only cost points.
BlockedWhateverTrades(source, row) ==
  \/ ~Accepted(row) \/ row.performance = "weak" \/ row.risk = "weak"
  \/ Insufficient(row)

Blocked(source, row) ==
  \/ ~Accepted(row)
  \/ row.performance = "weak"                \* drawdown too large
  \/ row.trades = "few" /\ source \notin FixedSplit \cup SequenceModels
  \/ row.risk = "weak"
  \/ Insufficient(row)

(* apply_admission_policy                                                   *)
CappedScore(source, row) ==
  Min({MetricScore(source, row)}
      \cup (IF source \in FixedSplit THEN {52} ELSE {})
      \cup (IF source \in SequenceModels THEN {50} ELSE {}))

Decision(source, row) ==
  LET score == CappedScore(source, row)
  IN IF Blocked(source, row) THEN "rejected"
     ELSE IF score >= 60 /\ source \notin FixedSplit \cup SequenceModels
          THEN "paper_candidate_pool"
     ELSE IF score >= 42 THEN "watchlist"
     ELSE IF score >= 20 THEN "research_only"
     ELSE "rejected"

(* collect_candidate_universe: every report that can be read and has a row. *)
Candidates == {s \in Sources : evidence[s].report.status \notin {"missing", "no_folds"}}

Admit ==
  leaderboard' =
    [run |-> runs, failed |-> job.failed,
     rows |-> [s \in Candidates |->
       [run |-> evidence[s].run, data |-> evidence[s].data,
        report |-> evidence[s].report,
        decision |-> Decision(s, evidence[s].report)]]]

(* build_admission_snapshot: the changes file is only written when a        *)
(* decision differs from that of the last snapshot.                         *)
Decisions == [s \in DOMAIN leaderboard.rows |-> leaderboard.rows[s].decision]
Changed ==
  {s \in DOMAIN Decisions : s \notin DOMAIN snapshot \/ Decisions[s] # snapshot[s]}

DailyReport ==
  IF leaderboard = Nothing \/ DOMAIN leaderboard.rows = {}
  THEN UNCHANGED <<snapshot, changes>>
  ELSE /\ snapshot' = Decisions
       /\ changes' = IF DOMAIN snapshot = {} \/ Changed = {} THEN changes ELSE Changed

-----------------------------------------------------------------------------
(* What makes a script raise.                                               *)
DatasetSteps ==
  {"train_model", "model_diagnostics", "train_calibrated", "signal_confidence",
   "purged_cv", "strategy_library"} \cup Sources

StatusOf(source) == evidence[source].report.status

InputMissing ==
  \/ Step \in {"data_quality", "build_features"} /\ files.candles = 0
  \/ Step \in DatasetSteps /\ files.dataset = 0
  \/ Step \in {"signal_confidence", "calibrated_ml"} /\ files.calibrated = 0
  \/ Step = "ensemble" /\ StatusOf("parameter_search") \in {"missing", "raised"}
  \/ Step = "market_realism" /\ StatusOf("ensemble") = "missing"
  \/ Step = "v28_report" /\ StatusOf("sequence_walk_forward") = "no_folds"

Record(report) ==
  evidence' = [evidence EXCEPT
    ![Step] = [run |-> runs, data |-> files.dataset, report |-> report]]

(* The work of the step, and what else the script of a source can do: of a  *)
(* dataset shorter than its windows the sequence walk-forward writes no     *)
(* table, and the old one stays.                                            *)
Work ==
  /\ files' = CASE Step = "download"         -> [files EXCEPT !.candles = runs]
                [] Step = "build_features"   -> [files EXCEPT !.dataset = runs]
                [] Step = "train_calibrated" -> [files EXCEPT !.calibrated = files.dataset]
                [] OTHER                     -> files
  /\ IF Step \in Sources THEN Record(UsualReport(Step)) ELSE UNCHANGED evidence
  /\ IF Step \in {"admission", "v29_report"} THEN Admit ELSE UNCHANGED leaderboard
  /\ IF Step \in {"daily_operations", "v30_report"} THEN DailyReport
     ELSE UNCHANGED <<snapshot, changes>>

OddWork ==
  /\ \/ \E report \in UnusualReports(Step) : Record(report)
     \/ Step = "sequence_walk_forward" /\ UNCHANGED evidence
  /\ UNCHANGED <<files, leaderboard, snapshot, changes>>

NoWork == UNCHANGED <<files, evidence, leaderboard, snapshot, changes>>
Torn ==
  /\ Step = "wf_calibration"
  /\ Record(TornReport)
  /\ UNCHANGED <<files, leaderboard, snapshot, changes>>

(* The exit status of the script decides whether the next one is started.   *)
NextStep == [job EXCEPT !.at = @ + 1]
Running == job # NoJob /\ job.at <= Len(StepsOf(job.download))

StepSucceeds ==
  /\ Running /\ ~InputMissing
  /\ Work
  /\ job' = NextStep
  /\ UNCHANGED <<runs, surprises>>

StepSurprises ==
  /\ Running /\ ~InputMissing /\ Step \in Sources
  /\ surprises < MaxSurprises
  /\ OddWork
  /\ surprises' = surprises + 1
  /\ job' = NextStep
  /\ UNCHANGED runs

StepFailed ==
  job' = IF job.continueOnError
         THEN [NextStep EXCEPT !.failed = @ \cup {Step}] ELSE NoJob

StepLacksInput ==
  /\ Running /\ InputMissing
  /\ NoWork /\ StepFailed
  /\ UNCHANGED <<runs, surprises>>

(* run_purged_embargo_cv.py prints a column its metrics do not have, after  *)
(* saving them, whenever there is a fold.                                   *)
PurgedScriptRaises ==
  /\ Running /\ Step = "purged_cv" /\ ~InputMissing
  /\ NoWork /\ StepFailed
  /\ UNCHANGED <<runs, surprises>>

StepRaises ==
  /\ Running /\ ~InputMissing /\ surprises < MaxSurprises
  /\ NoWork \/ Torn \/ Work
  /\ surprises' = surprises + 1
  /\ StepFailed
  /\ UNCHANGED runs

PipelineStarts ==
  /\ job = NoJob /\ runs < MaxRuns
  /\ runs' = runs + 1
  /\ \E download, continueOnError \in BOOLEAN :
       job' = [phase |-> "running", download |-> download, at |-> 1,
               continueOnError |-> continueOnError, failed |-> {}]
  /\ UNCHANGED <<files, evidence, leaderboard, snapshot, changes, surprises>>

PipelineEnds ==
  /\ job # NoJob /\ ~Running
  /\ job' = NoJob
  /\ UNCHANGED <<runs, files, evidence, leaderboard, snapshot, changes, surprises>>

PipelineInit ==
  /\ runs = 0 /\ job = NoJob /\ surprises = 0
  /\ files = [candles |-> 0, dataset |-> 0, calibrated |-> 0]
  /\ evidence = [s \in Sources |->
       [run |-> 0, data |-> 0, report |-> Report("missing", "none", "none", "none", "none", "none")]]
  /\ leaderboard = Nothing /\ snapshot = <<>> /\ changes = {}

PipelineNext ==
  \/ PipelineStarts \/ StepSucceeds \/ StepSurprises \/ StepLacksInput \/ PurgedScriptRaises
  \/ StepRaises \/ PipelineEnds

-----------------------------------------------------------------------------
(* What a leaderboard is worth.  A candidate enters the paper pool only on  *)
(* walk-forward or backtest evidence with trades, or, if the report of the  *)
(* default walk-forward was torn in the same run, on its probabilities      *)
(* alone.  Every row is of this run and this run's data unless its own      *)
(* script, or the one that builds the data, failed in this run, the         *)
(* sequence walk-forward left its old table, or its script comes after the  *)
(* admission; and the rows of those are always of an earlier run.           *)
LeaderboardEvidence ==
  leaderboard # Nothing =>
    \A s \in DOMAIN leaderboard.rows :
      LET row == leaderboard.rows[s] IN
      /\ row.decision = "paper_candidate_pool" =>
           /\ s \notin FixedSplit \cup SequenceModels
           /\ \/ row.report.trades = "many"
              \/ s = "wf_calibration" /\ s \in leaderboard.failed
      /\ \/ /\ row.run = leaderboard.run
            /\ row.data = leaderboard.run \/ "build_features" \in leaderboard.failed
         \/ s \in leaderboard.failed \cup {"sequence_walk_forward"}
         \/ s \in {"parameter_search", "ensemble"} /\ row.run < leaderboard.run
=============================================================================
