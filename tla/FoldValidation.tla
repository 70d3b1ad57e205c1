--------------------------- MODULE FoldValidation ---------------------------
(***************************************************************************)
(* How the research code cuts a dataset into training and test rows:        *)
(* the purged and embargoed folds of realism/validation.py, the rolling     *)
(* windows of models/walk_forward.py, models/walk_forward_calibration.py    *)
(* and research/sequence_experiments.py, and the dated split of             *)
(* models/train_direction_model.py and models/sequence_dataset.py.          *)
(*                                                                          *)
(* A row is its position in the dataset, windows are counted in rows (the   *)
(* candle file has no holes).  The label of row r is the return from bar r  *)
(* to bar r + Horizon (features/labels.py): training on r looks at that     *)
(* bar.                                                                     *)
(***************************************************************************)
EXTENDS Integers, FiniteSets

CONSTANTS
  Datasets,       \* numbers of rows a dataset may have
  Horizon,        \* labels.horizon_bars
  Embargo,        \* validation.embargo_bars
  Splits,         \* validation.n_splits
  MinTrain,       \* min_train_bars, min_train_sequences
  MinCalibration, \* min_calibration_bars
  MinTest,        \* min_test_bars, min_test_sequences
  TrainWindow, CalibrationWindow, TestWindow,
  Lookback, Stride  \* of the sequence datasets

(* config.yaml: embargo_bars is the horizon of the labels.                  *)
ASSUME FoldAssumption ==
  /\ Datasets \subseteq Nat \ {0}
  /\ {Horizon, Embargo, MinTrain, MinCalibration, MinTest} \subseteq Nat
  /\ {Splits, TrainWindow, CalibrationWindow, TestWindow, Lookback, Stride}
       \subseteq Nat \ {0}
  /\ Embargo >= Horizon

VARIABLES
  plan,     \* the experiment: [scheme, rows, validFrom, testFrom]
  cursor,   \* test_start of the next window
  foldId,   \* fold_id of the next fold
  folds,    \* the folds trained and tested
  skipped,  \* the fold_id of those recorded as skipped
  outcome   \* "running", or "raised" by a model that could not be fitted
foldVars == <<plan, cursor, foldId, folds, skipped, outcome>>

Schemes == {"purged", "walk_forward", "calibrated", "sequence", "dated"}

-----------------------------------------------------------------------------
Earlier(a, b) == IF a <= b THEN a ELSE b

(* build_sequence_dataset: a window of Lookback rows ends at each row kept. *)
Usable ==
  IF plan.scheme = "sequence"
  THEN {r \in Lookback - 1 .. plan.rows - 1 : (r - (Lookback - 1)) % Stride = 0}
  ELSE 0 .. plan.rows - 1

FirstUsable == IF plan.scheme = "sequence" THEN Lookback - 1 ELSE 0

(* The default start leaves room for the first windows; the default end is  *)
(* the last row, which the half-open test windows never reach.              *)
WindowStart(p) ==
  CASE p.scheme = "calibrated" -> TrainWindow + CalibrationWindow
    [] p.scheme = "sequence"   -> Lookback - 1 + TrainWindow
    [] OTHER                   -> TrainWindow
WindowEnd == plan.rows - 1

(* add_future_return_label                                                  *)
LabelBar(row) == row + Horizon

Fold(train, calibration, test) ==
  [id |-> foldId, train |-> train, calibration |-> calibration, test |-> test]

-----------------------------------------------------------------------------
(* make_purged_embargo_folds: equal test blocks, the last one takes the     *)
(* rest; the training rows are those outside the block, its purged past and *)
(* its embargoed future.                                                    *)
EnoughRows == plan.rows >= Splits + MinTrain
FoldSize == LET size == plan.rows \div Splits IN IF size = 0 THEN 1 ELSE size

PurgedTest ==
  foldId * FoldSize ..
    (IF foldId = Splits - 1 THEN plan.rows
     ELSE Earlier(plan.rows, (foldId + 1) * FoldSize)) - 1

\* Mutant of PurgedTrain: training resumes right after the block.
PurgedTrainNoEmbargo ==
  {r \in 0 .. plan.rows - 1 :
     r < foldId * FoldSize - Horizon \/ r >= (foldId + 1) * FoldSize}

PurgedTrain ==
  {r \in 0 .. plan.rows - 1 :
     \/ r < foldId * FoldSize - Horizon
     \/ r >= (IF foldId = Splits - 1 THEN plan.rows
              ELSE Earlier(plan.rows, (foldId + 1) * FoldSize)) + Embargo}

(* A model fitted to one class has no probability of the other: the metrics *)
(* raise and the script ends.                                               *)
PurgedFold ==
  /\ plan.scheme = "purged" /\ outcome = "running"
  /\ EnoughRows /\ foldId < Splits
  /\ IF PurgedTest = {} \/ Cardinality(PurgedTrain) < MinTrain
     THEN UNCHANGED <<folds, outcome>>
     ELSE \/ /\ folds' = folds \cup {Fold(PurgedTrain, {}, PurgedTest)}
             /\ UNCHANGED outcome
          \/ outcome' = "raised" /\ UNCHANGED folds
  /\ foldId' = foldId + 1
  /\ UNCHANGED <<plan, cursor, skipped>>

-----------------------------------------------------------------------------
(* One turn of the window loops.  The calibration window, where there is    *)
(* one, lies between the training and the test window.                      *)
Windowed == plan.scheme \in {"walk_forward", "calibrated", "sequence"}
TestEnd == Earlier(cursor + TestWindow, WindowEnd)
CalibrationStart ==
  IF plan.scheme = "calibrated" THEN cursor - CalibrationWindow ELSE cursor

WindowTrain ==
  {r \in Usable : r >= CalibrationStart - TrainWindow /\ r < CalibrationStart}
WindowCalibration == {r \in Usable : r >= CalibrationStart /\ r < cursor}
WindowTest == {r \in Usable : r >= cursor /\ r < TestEnd}

TooSmall ==
  \/ Cardinality(WindowTrain) < MinTrain
  \/ plan.scheme = "walk_forward" /\ WindowTest = {}
  \/ plan.scheme # "walk_forward" /\ Cardinality(WindowTest) < MinTest
  \/ /\ plan.scheme = "calibrated"
     /\ Cardinality(WindowCalibration) < MinCalibration

SkipsRecorded == plan.scheme # "walk_forward"

(* Training labels of one class skip the window where the code looks at     *)
(* them and raise where it does not.  A calibration window of one class     *)
(* only leaves the probabilities uncalibrated (_safe_fit_calibrator).       *)
NextWindow == Windowed /\ outcome = "running" /\ cursor < WindowEnd

SkipWindow ==
  /\ NextWindow
  /\ TooSmall \/ SkipsRecorded      \* the latter: labels of one class
  /\ skipped' = IF SkipsRecorded THEN skipped \cup {foldId} ELSE skipped
  /\ foldId' = IF SkipsRecorded THEN foldId + 1 ELSE foldId
  /\ cursor' = TestEnd
  /\ UNCHANGED <<plan, folds, outcome>>

TestWindowFold ==
  /\ NextWindow /\ ~TooSmall
  /\ folds' = folds \cup {Fold(WindowTrain, WindowCalibration, WindowTest)}
  /\ foldId' = foldId + 1
  /\ cursor' = TestEnd
  /\ UNCHANGED <<plan, skipped, outcome>>

WindowRaises ==
  /\ NextWindow /\ ~TooSmall /\ ~SkipsRecorded
  /\ outcome' = "raised"
  /\ UNCHANGED <<plan, cursor, foldId, folds, skipped>>

-----------------------------------------------------------------------------
(* The dated split: the first fit is judged on the validation rows; the     *)
(* sequence experiments then fit training and validation rows together and  *)
(* judge that fit on the test rows (train_direction_model keeps its first   *)
(* fit, whose training rows are among these).                               *)
DatedTrain == {r \in Usable : r < IF foldId = 0 THEN plan.validFrom ELSE plan.testFrom}
DatedTest ==
  {r \in Usable : IF foldId = 0 THEN r >= plan.validFrom /\ r < plan.testFrom
                                ELSE r >= plan.testFrom}

DatedFold ==
  /\ plan.scheme = "dated" /\ outcome = "running" /\ foldId < 2
  /\ \E oneClass \in BOOLEAN :
       folds' = IF DatedTrain = {} \/ DatedTest = {} \/ oneClass THEN folds
                ELSE folds \cup {Fold(DatedTrain, {}, DatedTest)}
  /\ foldId' = foldId + 1
  /\ UNCHANGED <<plan, cursor, skipped, outcome>>

-----------------------------------------------------------------------------
Plans ==
  {p \in [scheme : Schemes, rows : Datasets, validFrom : Nat, testFrom : Nat] :
     p.validFrom <= p.testFrom /\ p.testFrom <= p.rows}

FoldInit(plans) ==
  /\ plan \in plans
  /\ cursor = WindowStart(plan)
  /\ foldId = 0
  /\ folds = {} /\ skipped = {}
  /\ outcome = "running"

FoldNext ==
  PurgedFold \/ SkipWindow \/ TestWindowFold \/ WindowRaises \/ DatedFold

FoldSpec == FoldInit(Plans) /\ [][FoldNext]_foldVars

-----------------------------------------------------------------------------
FoldTypeOK ==
  /\ plan \in Plans
  /\ cursor \in Nat /\ foldId \in Nat
  /\ \A f \in folds :
       /\ f.id \in Nat
       /\ {f.train, f.calibration, f.test} \subseteq SUBSET (0 .. plan.rows - 1)
  /\ skipped \subseteq Nat
  /\ outcome \in {"running", "raised"}

(* In the purged folds the label of a training row and that of a test row   *)
(* never read the same bar or cross.  The other schemes keep apart the rows *)
(* only, never what their labels read: a fold's training rows come before   *)
(* its calibration rows, and those before its test rows.  With every scheme *)
(* no row is tested by two folds, so that the joined predictions hold one   *)
(* probability per row.                                                     *)
FoldsKeptApart ==
  /\ plan.scheme = "purged" =>
       \A f \in folds : \A r \in f.train, t \in f.test :
         LabelBar(r) < t \/ LabelBar(t) < r
  /\ plan.scheme # "purged" =>
       \A f \in folds : \A t \in f.test :
         /\ \A r \in f.train : r < t /\ \A c \in f.calibration : r < c
         /\ \A c \in f.calibration : c < t
  /\ \A f, g \in folds : f.id # g.id => f.test \cap g.test = {}

(* What the docstrings of models/walk_forward.py:42 and                     *)
(* models/walk_forward_calibration.py:33-35 say: the model and the          *)
(* calibrator that are judged on a window are fitted to nothing that window *)
(* shows, the prices their labels were computed from included.              *)
WindowsUseThePast ==
  plan.scheme \in {"walk_forward", "calibrated"} =>
    \A f \in folds : \A r \in f.train \cup f.calibration, t \in f.test : LabelBar(r) < t
=============================================================================
