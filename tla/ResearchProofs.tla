--------------------------- MODULE ResearchProofs ---------------------------
(***************************************************************************)
(* The research side, for every dataset, clock and size of window, page or  *)
(* holding limit:                                                           *)
(*   - no fold of an experiment is judged on what it was trained on         *)
(*     (FoldValidation);                                                    *)
(*   - no rule keeps a position longer than its holding limit, and the      *)
(*     trades explain what the equity gained or lost (Backtest);            *)
(*   - the downloaders leave no hole in the candle file, and OKX no bar of  *)
(*     half its values but the last (CandleHistory);                        *)
(*   - a leaderboard rests on the evidence its comment names                *)
(*     (ResearchPipeline).                                                  *)
(* Each is an invariant of its component's steps; a behaviour of Research   *)
(* takes the steps of one component, and leaves those of the others alone.  *)
(***************************************************************************)
EXTENDS Research, FiniteSetTheorems, SequenceTheorems, WellFoundedInduction, TLAPS

-----------------------------------------------------------------------------
(* The folds.  The inductive invariant adds to FoldsKeptApart where the     *)
(* rows tested so far end: before the block or window that comes next.      *)

(* Rows tested so far lie before the next purged block or window; a dated   *)
(* experiment tests its validation rows first and later rows then.          *)
TestedBefore ==
  \A f \in folds : \A t \in f.test :
    /\ plan.scheme = "purged" /\ foldId < Splits => t < foldId * FoldSize
    /\ Windowed => t < cursor
    /\ plan.scheme = "dated" => t < plan.testFrom \/ foldId > 1

(* A fold keeps its number, and all later folds get another.                *)
Numbered == \A f \in folds : f.id < foldId

TrainedApart ==
  /\ plan.scheme = "purged" =>
       \A f \in folds : \A r \in f.train, t \in f.test :
         LabelBar(r) < t \/ LabelBar(t) < r
  /\ plan.scheme # "purged" =>
       \A f \in folds : \A t \in f.test :
         /\ \A r \in f.train : r < t /\ \A c \in f.calibration : r < c
         /\ \A c \in f.calibration : c < t

TestedOnce == \A f, g \in folds : f.id # g.id => f.test \cap g.test = {}

FoldInv ==
  /\ FoldTypeOK
  /\ Numbered /\ TestedBefore /\ TrainedApart /\ TestedOnce

-----------------------------------------------------------------------------
(* The sizes the loops compute are numbers, and the next window starts      *)
(* where the last one ended or later.                                       *)
LEMMA Sizes ==
  ASSUME FoldTypeOK
  PROVE  /\ plan.rows \in Nat \ {0}
         /\ WindowEnd \in Nat
         /\ FoldSize \in Nat \ {0}
         /\ foldId * FoldSize \in Nat
         /\ (foldId + 1) * FoldSize = foldId * FoldSize + FoldSize
         /\ Usable \subseteq 0 .. plan.rows - 1
         /\ plan.validFrom \in Nat /\ plan.testFrom \in Nat
         /\ plan.validFrom <= plan.testFrom
         /\ plan.scheme \in Schemes
<1>1. /\ plan.rows \in Datasets /\ plan.validFrom \in Nat /\ plan.testFrom \in Nat
      /\ plan.validFrom <= plan.testFrom /\ plan.scheme \in Schemes
  BY DEF FoldTypeOK, Plans
<1>2. plan.rows \in Nat \ {0}
  BY <1>1, FoldAssumption DEF FoldAssumption
<1>3. FoldSize \in Nat \ {0}
  <2>1. Splits \in Nat \ {0}
    BY FoldAssumption DEF FoldAssumption
  <2>2. plan.rows \div Splits \in Nat
    BY <1>2, <2>1
  <2>. QED  BY <2>2 DEF FoldSize
<1>4. foldId \in Nat
  BY DEF FoldTypeOK
<1>5. foldId * FoldSize \in Nat
  BY <1>3, <1>4
<1>6. (foldId + 1) * FoldSize = foldId * FoldSize + FoldSize
  BY <1>3, <1>4
<1>7. Usable \subseteq 0 .. plan.rows - 1
  <2>1. Lookback - 1 \in Nat
    BY FoldAssumption DEF FoldAssumption
  <2>. QED  BY <1>2, <2>1 DEF Usable
<1>. QED  BY <1>1, <1>2, <1>3, <1>5, <1>6, <1>7 DEF WindowEnd

LEMMA NextTestEnd ==
  ASSUME FoldTypeOK, NextWindow
  PROVE  /\ TestEnd \in Nat
         /\ cursor < TestEnd
<1>1. /\ WindowEnd \in Nat /\ cursor \in Nat /\ cursor < WindowEnd
  BY Sizes DEF FoldTypeOK, NextWindow
<1>2. TestWindow \in Nat \ {0}
  BY FoldAssumption DEF FoldAssumption
<1>. QED  BY <1>1, <1>2 DEF TestEnd, Earlier

(* Purge and embargo keep the labels of the training rows out of the block  *)
(* and those of the block out of the training rows; a block starts where    *)
(* the one before it ended.                                                 *)
LEMMA PurgedRows ==
  ASSUME FoldTypeOK, foldId < Splits
  PROVE  /\ PurgedTrain \subseteq 0 .. plan.rows - 1
         /\ PurgedTest \subseteq 0 .. plan.rows - 1
         /\ \A t \in PurgedTest :
              /\ t >= foldId * FoldSize
              /\ foldId + 1 < Splits => t < (foldId + 1) * FoldSize
         /\ \A r \in PurgedTrain, t \in PurgedTest :
              LabelBar(r) < t \/ LabelBar(t) < r
<1>. DEFINE Start == foldId * FoldSize
            Stop == IF foldId = Splits - 1 THEN plan.rows
                    ELSE Earlier(plan.rows, (foldId + 1) * FoldSize)
<1>1. /\ Start \in Nat /\ FoldSize \in Nat /\ plan.rows \in Nat
      /\ (foldId + 1) * FoldSize = Start + FoldSize
      /\ foldId \in Nat
  BY Sizes DEF FoldTypeOK
<1>2. /\ Horizon \in Nat /\ Embargo \in Nat /\ Embargo >= Horizon
      /\ Splits \in Nat
  BY FoldAssumption DEF FoldAssumption
<1>3. /\ Stop \in Nat /\ Stop <= plan.rows
      /\ foldId + 1 < Splits => Stop <= Start + FoldSize
  BY <1>1, <1>2 DEF Earlier
<1>4. PurgedTest = Start .. Stop - 1
  BY DEF PurgedTest
<1>5. PurgedTrain = {r \in 0 .. plan.rows - 1 :
                       r < Start - Horizon \/ r >= Stop + Embargo}
  BY DEF PurgedTrain
<1>. HIDE DEF Start, Stop
<1>6. PurgedTest \subseteq 0 .. plan.rows - 1
  BY <1>1, <1>3, <1>4
<1>7. \A t \in PurgedTest :
        t >= Start /\ (foldId + 1 < Splits => t < Start + FoldSize)
  BY <1>1, <1>3, <1>4
<1>8. ASSUME NEW r \in PurgedTrain, NEW t \in PurgedTest
      PROVE  LabelBar(r) < t \/ LabelBar(t) < r
  BY <1>1, <1>2, <1>3, <1>4, <1>5 DEF LabelBar
<1>9. PurgedTrain \subseteq 0 .. plan.rows - 1
  BY <1>5
<1>. QED  BY <1>1, <1>6, <1>7, <1>8, <1>9 DEF Start

(* In a window loop training rows come before calibration rows, these       *)
(* before the test rows, and these lie between the cursor and its next      *)
(* place.                                                                   *)
LEMMA WindowRows ==
  ASSUME FoldTypeOK, NextWindow
  PROVE  /\ WindowTrain \subseteq 0 .. plan.rows - 1
         /\ WindowCalibration \subseteq 0 .. plan.rows - 1
         /\ WindowTest \subseteq 0 .. plan.rows - 1
         /\ \A t \in WindowTest : cursor <= t /\ t < TestEnd
         /\ \A r \in WindowTrain, t \in WindowTest : r < t
         /\ \A r \in WindowTrain, c \in WindowCalibration : r < c
         /\ \A c \in WindowCalibration, t \in WindowTest : c < t
<1>1. /\ Usable \subseteq 0 .. plan.rows - 1 /\ plan.rows \in Nat
      /\ cursor \in Nat /\ TestEnd \in Nat
  BY Sizes, NextTestEnd DEF FoldTypeOK
<1>2. CalibrationStart \in Int /\ CalibrationStart <= cursor
  <2>1. CalibrationWindow \in Nat
    BY FoldAssumption DEF FoldAssumption
  <2>. QED  BY <1>1, <2>1 DEF CalibrationStart
<1>3. \A r \in Usable : r \in Int
  BY <1>1
<1>4. /\ WindowTrain \subseteq Usable /\ \A r \in WindowTrain : r < CalibrationStart
      /\ WindowCalibration \subseteq Usable
      /\ \A c \in WindowCalibration : CalibrationStart <= c /\ c < cursor
      /\ WindowTest \subseteq Usable
      /\ \A t \in WindowTest : cursor <= t /\ t < TestEnd
  BY <1>1, <1>2, <1>3 DEF WindowTrain, WindowCalibration, WindowTest
<1>5. \A r \in WindowTrain, t \in WindowTest : r < t
  BY <1>1, <1>2, <1>3, <1>4
<1>6. \A r \in WindowTrain, c \in WindowCalibration : r < c
  BY <1>2, <1>3, <1>4
<1>7. \A c \in WindowCalibration, t \in WindowTest : c < t
  BY <1>1, <1>3, <1>4
<1>. QED  BY <1>1, <1>4, <1>5, <1>6, <1>7

LEMMA DatedRows ==
  ASSUME FoldTypeOK
  PROVE  /\ DatedTrain \subseteq 0 .. plan.rows - 1
         /\ DatedTest \subseteq 0 .. plan.rows - 1
         /\ \A r \in DatedTrain, t \in DatedTest : r < t
         /\ \A t \in DatedTest : IF foldId = 0 THEN t < plan.testFrom
                                               ELSE t >= plan.testFrom
<1>1. /\ Usable \subseteq 0 .. plan.rows - 1 /\ plan.rows \in Nat
      /\ plan.validFrom \in Nat /\ plan.testFrom \in Nat
      /\ plan.validFrom <= plan.testFrom
  BY Sizes
<1>2. \A r \in Usable : r \in Int
  BY <1>1
<1>3. DatedTrain \subseteq Usable /\ DatedTest \subseteq Usable
  BY DEF DatedTrain, DatedTest
<1>4. \A t \in DatedTest : IF foldId = 0 THEN t >= plan.validFrom /\ t < plan.testFrom
                                         ELSE t >= plan.testFrom
  BY DEF DatedTest
<1>5. \A r \in DatedTrain : r < IF foldId = 0 THEN plan.validFrom ELSE plan.testFrom
  BY DEF DatedTrain
<1>6. \A r \in DatedTrain, t \in DatedTest : r < t
  <2>1. CASE foldId = 0
    BY <1>1, <1>2, <1>3, <1>4, <1>5, <2>1
  <2>2. CASE foldId # 0
    BY <1>1, <1>2, <1>3, <1>4, <1>5, <2>2
  <2>. QED  BY <2>1, <2>2
<1>7. \A t \in DatedTest : IF foldId = 0 THEN t < plan.testFrom
                                         ELSE t >= plan.testFrom
  BY <1>4
<1>. QED  BY <1>1, <1>3, <1>6, <1>7

-----------------------------------------------------------------------------
(* Adding a fold.                                                           *)

(* A new fold that leaks nothing and tests rows no fold has tested yet      *)
(* keeps the parts of the invariant about the folds.                        *)
LEMMA AddFold ==
  ASSUME FoldInv,
         NEW train, NEW calibration, NEW test,
         plan' = plan, foldId' = foldId + 1,
         folds' = folds \cup {Fold(train, calibration, test)},
         {train, calibration, test} \subseteq SUBSET (0 .. plan.rows - 1),
         plan.scheme = "purged" =>
           \A r \in train, t \in test : LabelBar(r) < t \/ LabelBar(t) < r,
         plan.scheme # "purged" =>
           /\ \A r \in train, t \in test : r < t
           /\ \A r \in train, c \in calibration : r < c
           /\ \A c \in calibration, t \in test : c < t,
         \A f \in folds : \A t \in f.test : t \notin test
  PROVE  /\ \A f \in folds' :
              /\ f.id \in Nat
              /\ {f.train, f.calibration, f.test} \subseteq SUBSET (0 .. plan'.rows - 1)
         /\ Numbered' /\ TrainedApart' /\ TestedOnce'
<1>. DEFINE new == Fold(train, calibration, test)
<1>1. /\ new.id = foldId /\ new.train = train /\ new.test = test
      /\ new.calibration = calibration
  BY DEF Fold
<1>2. foldId \in Nat /\ \A f \in folds : f.id \in Nat /\ f.id < foldId
  BY DEF FoldInv, FoldTypeOK, Numbered
<1>3. folds' = folds \cup {new}
  OBVIOUS
<1>. HIDE DEF new
<1>4. \A f \in folds' :
        /\ f.id \in Nat
        /\ {f.train, f.calibration, f.test} \subseteq SUBSET (0 .. plan'.rows - 1)
  BY <1>1, <1>2, <1>3 DEF FoldInv, FoldTypeOK
<1>5. Numbered'
  BY <1>1, <1>2, <1>3 DEF Numbered
<1>6. TrainedApart'
  BY <1>1, <1>3 DEF FoldInv, TrainedApart, LabelBar
<1>7. TestedOnce'
  <2>. SUFFICES ASSUME NEW f \in folds', NEW g \in folds', f.id # g.id
                PROVE  f.test \cap g.test = {}
    BY DEF TestedOnce
  <2>1. CASE f \in folds /\ g \in folds
    BY <2>1 DEF FoldInv, TestedOnce
  <2>2. CASE f = new /\ g \in folds
    BY <1>1, <2>2
  <2>3. CASE f \in folds /\ g = new
    BY <1>1, <2>3
  <2>. QED  BY <1>3, <2>1, <2>2, <2>3
<1>. QED  BY <1>4, <1>5, <1>6, <1>7

-----------------------------------------------------------------------------
LEMMA FoldInvInit == FoldInit(Plans) => FoldInv
<1>. SUFFICES ASSUME FoldInit(Plans) PROVE FoldInv
  OBVIOUS
<1>1. plan \in Plans /\ folds = {} /\ skipped = {} /\ foldId = 0
      /\ outcome = "running" /\ cursor = WindowStart(plan)
  BY DEF FoldInit
<1>2. WindowStart(plan) \in Nat
  <2>1. /\ TrainWindow \in Nat /\ CalibrationWindow \in Nat /\ Lookback - 1 \in Nat
    BY FoldAssumption DEF FoldAssumption
  <2>. QED  BY <2>1 DEF WindowStart
<1>. QED
  BY <1>1, <1>2 DEF FoldInv, FoldTypeOK, Numbered, TestedBefore, TrainedApart, TestedOnce

LEMMA PurgedFoldKeeps == FoldInv /\ PurgedFold => FoldInv'
<1>. SUFFICES ASSUME FoldInv, PurgedFold PROVE FoldInv'
  OBVIOUS
<1>. USE DEF FoldInv
<1>1. /\ plan.scheme = "purged" /\ foldId < Splits /\ foldId \in Nat
      /\ foldId' = foldId + 1 /\ plan' = plan /\ cursor' = cursor /\ skipped' = skipped
      /\ FoldTypeOK
  BY DEF PurgedFold, FoldTypeOK
<1>2. FoldSize' = FoldSize /\ ~Windowed'
  BY <1>1 DEF FoldSize, Windowed
<1>3. Splits \in Nat
  BY FoldAssumption DEF FoldAssumption
<1>4. CASE folds' = folds
  <2>1. outcome' \in {"running", "raised"}
    BY <1>1 DEF PurgedFold, FoldTypeOK
  <2>2. FoldTypeOK'
    BY <1>1, <1>4, <2>1 DEF FoldTypeOK
  <2>3. Numbered'
    BY <1>1, <1>4 DEF Numbered, FoldTypeOK
  <2>4. TestedBefore'
    <3>. SUFFICES ASSUME NEW f \in folds, NEW t \in f.test, foldId' < Splits
                  PROVE  t < foldId' * FoldSize
      BY <1>1, <1>2, <1>4 DEF TestedBefore
    <3>1. t < foldId * FoldSize
      BY <1>1 DEF TestedBefore
    <3>2. t \in Int
      BY <1>1 DEF FoldTypeOK
    <3>. QED  BY <1>1, <3>1, <3>2, Sizes
  <2>5. TrainedApart' /\ TestedOnce'
    BY <1>1, <1>4 DEF TrainedApart, TestedOnce, LabelBar
  <2>. QED  BY <2>2, <2>3, <2>4, <2>5
<1>5. CASE folds' = folds \cup {Fold(PurgedTrain, {}, PurgedTest)} /\ outcome' = outcome
  <2>1. \A f \in folds : \A t \in f.test : t < foldId * FoldSize /\ t \in Int
    BY <1>1 DEF TestedBefore, FoldTypeOK
  <2>2. \A t \in PurgedTest : t >= foldId * FoldSize
    BY <1>1, PurgedRows
  <2>3. foldId * FoldSize \in Nat /\ plan.rows \in Nat
    BY <1>1, Sizes
  <2>4. PurgedTest \subseteq Int
    BY <1>1, PurgedRows
  <2>5. \A f \in folds : \A t \in f.test : t \notin PurgedTest
    BY <2>1, <2>2, <2>3, <2>4
  <2>6. {PurgedTrain, {}, PurgedTest} \subseteq SUBSET (0 .. plan.rows - 1)
    BY <1>1, PurgedRows
  <2>7. \A r \in PurgedTrain, t \in PurgedTest : LabelBar(r) < t \/ LabelBar(t) < r
    BY <1>1, PurgedRows
  <2>8. /\ \A f \in folds' :
             /\ f.id \in Nat
             /\ {f.train, f.calibration, f.test} \subseteq SUBSET (0 .. plan'.rows - 1)
        /\ Numbered' /\ TrainedApart' /\ TestedOnce'
    BY <1>1, <1>5, <2>5, <2>6, <2>7, AddFold
  <2>9. FoldTypeOK'
    BY <1>1, <1>5, <2>8 DEF FoldTypeOK
  <2>10. TestedBefore'
    <3>. SUFFICES ASSUME NEW f \in folds', NEW t \in f.test, foldId' < Splits
                  PROVE  t < foldId' * FoldSize
      BY <1>1, <1>2 DEF TestedBefore
    <3>1. CASE f \in folds
      BY <1>1, <2>1, <3>1, Sizes
    <3>2. CASE f = Fold(PurgedTrain, {}, PurgedTest)
      <4>1. t \in PurgedTest
        BY <3>2 DEF Fold
      <4>. QED  BY <1>1, <4>1, PurgedRows
    <3>. QED  BY <1>5, <3>1, <3>2
  <2>. QED  BY <2>8, <2>9, <2>10
<1>. QED  BY <1>4, <1>5 DEF PurgedFold

LEMMA SkipWindowKeeps == FoldInv /\ SkipWindow => FoldInv'
<1>. SUFFICES ASSUME FoldInv, SkipWindow PROVE FoldInv'
  OBVIOUS
<1>. USE DEF FoldInv
<1>1. /\ NextWindow /\ folds' = folds /\ plan' = plan /\ outcome' = outcome
      /\ cursor' = TestEnd /\ FoldTypeOK /\ foldId \in Nat
      /\ foldId' \in {foldId, foldId + 1} /\ skipped' \in {skipped, skipped \cup {foldId}}
  BY DEF SkipWindow, FoldTypeOK
<1>2. TestEnd \in Nat /\ cursor < TestEnd /\ cursor \in Nat
  BY <1>1, NextTestEnd DEF FoldTypeOK
<1>3. Windowed /\ Windowed' /\ plan.scheme \notin {"purged", "dated"}
  BY <1>1 DEF NextWindow, Windowed
<1>4. FoldTypeOK'
  BY <1>1, <1>2 DEF FoldTypeOK
<1>5. Numbered'
  BY <1>1 DEF Numbered, FoldTypeOK
<1>6. TestedBefore'
  <2>1. \A f \in folds : \A t \in f.test : t < cursor /\ t \in Int
    BY <1>1, <1>3 DEF TestedBefore, FoldTypeOK
  <2>. QED  BY <1>1, <1>2, <1>3, <2>1 DEF TestedBefore
<1>7. TrainedApart' /\ TestedOnce'
  BY <1>1 DEF TrainedApart, TestedOnce, LabelBar
<1>. QED  BY <1>4, <1>5, <1>6, <1>7

LEMMA TestWindowFoldKeeps == FoldInv /\ TestWindowFold => FoldInv'
<1>. SUFFICES ASSUME FoldInv, TestWindowFold PROVE FoldInv'
  OBVIOUS
<1>. USE DEF FoldInv
<1>1. /\ NextWindow /\ plan' = plan /\ outcome' = outcome /\ skipped' = skipped
      /\ cursor' = TestEnd /\ FoldTypeOK /\ foldId \in Nat /\ foldId' = foldId + 1
      /\ folds' = folds \cup {Fold(WindowTrain, WindowCalibration, WindowTest)}
  BY DEF TestWindowFold, FoldTypeOK
<1>2. TestEnd \in Nat /\ cursor < TestEnd /\ cursor \in Nat
  BY <1>1, NextTestEnd DEF FoldTypeOK
<1>3. Windowed /\ Windowed' /\ plan.scheme \notin {"purged", "dated"}
  BY <1>1 DEF NextWindow, Windowed
<1>4. \A f \in folds : \A t \in f.test : t < cursor /\ t \in Int
  BY <1>1, <1>3 DEF TestedBefore, FoldTypeOK
<1>5. WindowTest \subseteq Int /\ \A t \in WindowTest : cursor <= t /\ t < TestEnd
  BY <1>1, WindowRows
<1>6. \A f \in folds : \A t \in f.test : t \notin WindowTest
  BY <1>2, <1>4, <1>5
<1>7. {WindowTrain, WindowCalibration, WindowTest} \subseteq SUBSET (0 .. plan.rows - 1)
  BY <1>1, WindowRows
<1>8. /\ \A f \in folds' :
           /\ f.id \in Nat
           /\ {f.train, f.calibration, f.test} \subseteq SUBSET (0 .. plan'.rows - 1)
      /\ Numbered' /\ TrainedApart' /\ TestedOnce'
  <2>1. /\ \A r \in WindowTrain, t \in WindowTest : r < t
        /\ \A r \in WindowTrain, c \in WindowCalibration : r < c
        /\ \A c \in WindowCalibration, t \in WindowTest : c < t
    BY <1>1, WindowRows
  <2>. QED  BY <1>1, <1>3, <1>6, <1>7, <2>1, AddFold
<1>9. FoldTypeOK'
  BY <1>1, <1>2, <1>8 DEF FoldTypeOK
<1>10. TestedBefore'
  <2>. SUFFICES ASSUME NEW f \in folds', NEW t \in f.test PROVE t < TestEnd
    BY <1>1, <1>3 DEF TestedBefore
  <2>1. CASE f \in folds
    BY <1>2, <1>4, <2>1
  <2>2. CASE f = Fold(WindowTrain, WindowCalibration, WindowTest)
    BY <1>5, <2>2 DEF Fold
  <2>. QED  BY <1>1, <2>1, <2>2
<1>. QED  BY <1>8, <1>9, <1>10

LEMMA DatedFoldKeeps == FoldInv /\ DatedFold => FoldInv'
<1>. SUFFICES ASSUME FoldInv, DatedFold PROVE FoldInv'
  OBVIOUS
<1>. USE DEF FoldInv
<1>1. /\ plan.scheme = "dated" /\ foldId < 2 /\ foldId \in Nat /\ FoldTypeOK
      /\ foldId' = foldId + 1 /\ plan' = plan /\ cursor' = cursor
      /\ skipped' = skipped /\ outcome' = outcome
  BY DEF DatedFold, FoldTypeOK
<1>2. ~Windowed'
  BY <1>1 DEF Windowed
<1>3. plan.testFrom \in Nat
  BY <1>1, Sizes
<1>4. \A f \in folds : \A t \in f.test : t < plan.testFrom /\ t \in Int
  BY <1>1 DEF TestedBefore, FoldTypeOK
<1>5. CASE folds' = folds
  <2>1. FoldTypeOK' /\ Numbered'
    BY <1>1, <1>5 DEF FoldTypeOK, Numbered
  <2>2. TestedBefore'
    BY <1>1, <1>2, <1>4, <1>5 DEF TestedBefore
  <2>3. TrainedApart' /\ TestedOnce'
    BY <1>1, <1>5 DEF TrainedApart, TestedOnce, LabelBar
  <2>. QED  BY <2>1, <2>2, <2>3
<1>6. CASE folds' = folds \cup {Fold(DatedTrain, {}, DatedTest)}
  <2>1. {DatedTrain, {}, DatedTest} \subseteq SUBSET (0 .. plan.rows - 1)
    BY <1>1, DatedRows
  <2>2. \A f \in folds : \A t \in f.test : t \notin DatedTest
    <3>1. CASE foldId = 0
      BY <1>1, <3>1 DEF Numbered, FoldTypeOK
    <3>2. CASE foldId # 0
      <4>1. \A t \in DatedTest : t >= plan.testFrom /\ t \in Int
        BY <1>1, <2>1, <3>2, DatedRows
      <4>. QED  BY <1>3, <1>4, <4>1
    <3>. QED  BY <3>1, <3>2
  <2>3. \A r \in DatedTrain, t \in DatedTest : r < t
    BY <1>1, DatedRows
  <2>4. /\ \A f \in folds' :
             /\ f.id \in Nat
             /\ {f.train, f.calibration, f.test} \subseteq SUBSET (0 .. plan'.rows - 1)
        /\ Numbered' /\ TrainedApart' /\ TestedOnce'
    BY <1>1, <1>6, <2>1, <2>2, <2>3, AddFold
  <2>5. FoldTypeOK'
    BY <1>1, <2>4 DEF FoldTypeOK
  <2>6. TestedBefore'
    <3>. SUFFICES ASSUME NEW f \in folds', NEW t \in f.test, foldId = 0
                  PROVE  t < plan.testFrom
      BY <1>1, <1>2 DEF TestedBefore
    <3>1. CASE f \in folds
      BY <1>4, <3>1
    <3>2. CASE f = Fold(DatedTrain, {}, DatedTest)
      <4>1. t \in DatedTest
        BY <3>2 DEF Fold
      <4>. QED  BY <1>1, <4>1, DatedRows
    <3>. QED  BY <1>6, <3>1, <3>2
  <2>. QED  BY <2>4, <2>5, <2>6
<1>. QED  BY <1>5, <1>6 DEF DatedFold

LEMMA FoldInvStep == FoldInv /\ [FoldNext]_foldVars => FoldInv'
<1>. SUFFICES ASSUME FoldInv, [FoldNext]_foldVars PROVE FoldInv'
  OBVIOUS
<1>1. CASE PurgedFold
  BY <1>1, PurgedFoldKeeps
<1>2. CASE SkipWindow
  BY <1>2, SkipWindowKeeps
<1>3. CASE TestWindowFold
  BY <1>3, TestWindowFoldKeeps
<1>4. CASE WindowRaises
  BY <1>4 DEF FoldInv, WindowRaises, FoldTypeOK, Numbered, TestedBefore, TrainedApart,
              TestedOnce, FoldSize, Windowed, LabelBar
<1>5. CASE DatedFold
  BY <1>5, DatedFoldKeeps
<1>6. CASE UNCHANGED foldVars
  BY <1>6 DEF foldVars, FoldInv, FoldTypeOK, Numbered, TestedBefore, TrainedApart,
              TestedOnce, FoldSize, Windowed, LabelBar
<1>. QED  BY <1>1, <1>2, <1>3, <1>4, <1>5, <1>6 DEF FoldNext

(* Every reachable state has the declared types, for any dataset and any    *)
(* window sizes.                                                            *)
THEOREM FoldTypeCorrect == FoldSpec => []FoldTypeOK
<1>1. FoldInv => FoldTypeOK
  BY DEF FoldInv
<1>. QED  BY FoldInvInit, FoldInvStep, <1>1, PTL DEF FoldSpec

(* make_purged_embargo_folds and the window loops, for every dataset,       *)
(* horizon, embargo at least as long, number of splits and window size: the *)
(* purged folds keep the labels of training and test rows apart, the other  *)
(* schemes the order of their rows, and no row is tested twice.             *)
THEOREM FoldsApart == FoldSpec => []FoldsKeptApart
<1>1. FoldInv => FoldsKeptApart
  BY DEF FoldInv, FoldsKeptApart, TrainedApart, TestedOnce
<1>. QED  BY FoldInvInit, FoldInvStep, <1>1, PTL DEF FoldSpec

-----------------------------------------------------------------------------
(* A set of numbers that is not empty has a least element. *)
LEMMA LeastElement ==
  ASSUME NEW S \in SUBSET Nat, S # {}
  PROVE  /\ Min(S) \in S
         /\ \A x \in S : Min(S) <= x
<1>. DEFINE Below == {0 .. x : x \in S}
<1>1. Below \subseteq FiniteSubsetsOf(Nat) /\ Below # {}
  <2>1. ASSUME NEW x \in S
        PROVE  0 .. x \in FiniteSubsetsOf(Nat)
    BY FS_Interval DEF FiniteSubsetsOf
  <2>. QED  BY <2>1
<1>. HIDE DEF Below
<1>2. PICK B \in Below : \A C \in Below : ~(<<C, B>> \in StrictSubsetOrdering(Nat))
  <2>1. IsWellFoundedOn(StrictSubsetOrdering(Nat), FiniteSubsetsOf(Nat))
    BY FS_StrictSubsetOrderingWellFounded
  <2>. QED  BY <1>1, <2>1, WFMin
<1>3. PICK x \in S : B = 0 .. x
  BY DEF Below
<1>4. ASSUME NEW y \in S
      PROVE  x <= y
  <2>1. /\ 0 .. y \in Below /\ x \in Nat /\ y \in Nat
        /\ 0 .. y \in SUBSET Nat /\ 0 .. x \in SUBSET Nat
    BY DEF Below
  <2>2. ~(0 .. y \subseteq 0 .. x /\ 0 .. y # 0 .. x)
    BY <1>2, <1>3, <2>1 DEF StrictSubsetOrdering
  <2>3. CASE y < x
    <3>1. 0 .. y \subseteq 0 .. x
      BY <2>1, <2>3
    <3>2. x \in 0 .. x /\ x \notin 0 .. y
      BY <2>1, <2>3
    <3>. QED  BY <2>2, <3>1, <3>2
  <2>. QED  BY <2>1, <2>3
<1>5. \E m \in S : \A y \in S : m <= y
  BY <1>4
<1>. QED  BY <1>5 DEF Min

-----------------------------------------------------------------------------
(* Backtests.  A rule with a holding limit is a machine that counts closes; *)
(* the rows of the result follow it one bar later.                          *)
Limited == setup.sizing = "fixed" /\ setup.rules[1] \notin StatelessRules
Rows == [exposure : {0, Unit}, equity : Int, stopped : BOOLEAN]

LimitedTypes ==
  /\ 1 \in DOMAIN machines
  /\ machines[1] \in [held : BOOLEAN, bars : Nat]
  /\ target = IF machines[1].held THEN Unit ELSE 0
  /\ peak \in Int
  /\ result \in Seq(Rows)

(* A machine that is in position for so many closes has its last flat row   *)
(* as many rows back, and it is not yet at its limit.                       *)
HeldSince ==
  machines[1].held =>
    /\ machines[1].bars < MaxHolding
    /\ Len(result) - machines[1].bars >= 1
    /\ result[Len(result) - machines[1].bars].exposure = 0

(* In more rows than the limit one is flat.                                 *)
FlatWithin(i) == \E j \in i .. i + MaxHolding : result[j].exposure = 0
NoLongRun == \A i \in DOMAIN result : i + MaxHolding <= Len(result) => FlatWithin(i)

TradesExtracted == trades # <<>> => trades.found = {TradeFrom(i) : i \in Entries}

HoldInv == Limited => LimitedTypes /\ HeldSince /\ NoLongRun /\ TradesExtracted

LEMMA MaxPair ==
  ASSUME NEW a \in Int, NEW b \in Int
  PROVE  Max({a, b}) \in {a, b}
<1>1. \E x \in {a, b} : \A y \in {a, b} : x >= y
  OBVIOUS
<1>. QED  BY <1>1 DEF Max

LEMMA UnitType == /\ Unit \in Nat \ {0} /\ MaxHolding \in Nat \ {0} /\ Cost \in Nat
                  /\ InitialEquity \in Int /\ Moves \subseteq Int
BY BacktestAssumption DEF BacktestAssumption

(* What the machine of such a rule does at a close, and the next exposure.  *)
LEMMA LimitedDecision ==
  ASSUME Limited, LimitedTypes, DecideTarget, UNCHANGED setup
  PROVE  /\ 1 \in DOMAIN machines'
         /\ machines'[1] \in [held : BOOLEAN, bars : Nat]
         /\ target' = IF machines'[1].held THEN Unit ELSE 0
         /\ machines'[1].held /\ ~machines[1].held => machines'[1].bars = 0
         /\ machines'[1].held /\ machines[1].held =>
              /\ machines'[1].bars = machines[1].bars + 1
              /\ machines[1].bars + 1 < MaxHolding
<1>1. PICK bars \in [DOMAIN machines -> Exclusive \cup SqueezeBars] :
        /\ machines' = [i \in DOMAIN machines |->
                          AdvanceRule(setup.rules[i], machines[i], bars[i])]
        /\ target' \in Targets(machines')
  BY DEF DecideTarget
<1>2. 1 \in DOMAIN machines /\ setup.rules[1] \notin StatelessRules
  BY DEF Limited, LimitedTypes
<1>3. /\ machines'[1] = Advance(machines[1], bars[1])
      /\ 1 \in DOMAIN machines'
  BY <1>1, <1>2 DEF AdvanceRule
<1>4. bars[1].enter \in BOOLEAN /\ bars[1].exit \in BOOLEAN
  <2>1. bars[1] \in Exclusive \/ bars[1] \in SqueezeBars
    BY <1>1, <1>2
  <2>2. CASE bars[1] \in Exclusive
    <3>1. PICK enter \in BOOLEAN, exit \in BOOLEAN :
            bars[1] = [enter |-> enter, exit |-> exit]
      BY <2>2, Zenon DEF Exclusive
    <3>. QED  BY <3>1
  <2>3. CASE bars[1] \in SqueezeBars
    BY <2>3 DEF SqueezeBars
  <2>. QED  BY <2>1, <2>2, <2>3
<1>5. target' = IF machines'[1].held THEN Unit ELSE 0
  BY <1>1 DEF Targets, Limited
<1>6. machines[1] \in [held : BOOLEAN, bars : Nat] /\ MaxHolding \in Nat
  BY UnitType DEF LimitedTypes
<1>7. CASE ~machines[1].held
  <2>1. machines'[1] = [held |-> bars[1].enter, bars |-> 0]
    BY <1>3, <1>7 DEF Advance
  <2>. QED  BY <1>3, <1>4, <1>5, <1>7, <2>1
<1>8. CASE machines[1].held
  <2>1. CASE bars[1].exit \/ machines[1].bars + 1 >= MaxHolding
    <3>1. machines'[1] = [held |-> FALSE, bars |-> 0]
      BY <1>3, <1>8, <2>1 DEF Advance, Flat
    <3>. QED  BY <1>3, <1>5, <3>1
  <2>2. CASE ~(bars[1].exit \/ machines[1].bars + 1 >= MaxHolding)
    <3>1. machines'[1] = [machines[1] EXCEPT !.bars = @ + 1]
      BY <1>3, <1>8, <2>2 DEF Advance
    <3>2. /\ machines'[1] \in [held : BOOLEAN, bars : Nat]
          /\ machines'[1].bars = machines[1].bars + 1
      BY <3>1, <1>6
    <3>. QED  BY <1>3, <1>5, <1>6, <1>8, <2>2, <3>2
  <2>. QED  BY <2>1, <2>2
<1>. QED  BY <1>6, <1>7, <1>8

(* RunBar, first row or any other: one more row, with the exposure decided  *)
(* at the close before.                                                     *)
LEMMA RowAppended ==
  ASSUME Limited, LimitedTypes, RunBar
  PROVE  /\ peak' \in Int
         /\ \E row \in Rows :
              /\ result' = Append(result, row)
              /\ row.exposure = IF result = <<>> THEN 0 ELSE target
<1>1. /\ result \in Seq(Rows) /\ peak \in Int /\ target \in {0, Unit}
      /\ setup.sizing = "fixed"
  BY DEF LimitedTypes, Limited
<1>2. CASE result = <<>>
  <2>. DEFINE first == [exposure |-> 0, equity |-> InitialEquity, stopped |-> FALSE]
  <2>1. result' = <<first>> /\ peak' = peak
    BY <1>2 DEF RunBar
  <2>2. first \in Rows /\ first.exposure = 0
    BY UnitType DEF Rows
  <2>3. result' = Append(result, first)
    BY <1>2, <2>1
  <2>. QED  BY <1>1, <1>2, <2>1, <2>2, <2>3
<1>3. CASE result # <<>>
  <2>1. PICK move \in Moves :
          /\ result' = Append(result,
               [exposure |-> target, equity |-> EngineStep(move).equity,
                stopped |-> EngineStep(move).stopped])
          /\ peak' = EngineStep(move).peak
    BY <1>3 DEF RunBar
  <2>2. Last \in Rows
    <3>1. Len(result) \in 1 .. Len(result)
      BY <1>1, <1>3
    <3>. QED  BY <1>1, <3>1 DEF Last
  <2>3. Last.equity \in Int /\ Last.exposure \in {0, Unit} /\ Last.stopped \in BOOLEAN
    BY <2>2 DEF Rows
  <2>4. Change(move) \in Int
    <3>1. move \in Int /\ Unit \in Nat /\ Cost \in Nat
      BY UnitType
    <3>2. Distance(target, Last.exposure) \in Int
      BY <1>1, <2>3, <3>1 DEF Distance
    <3>. QED  BY <1>1, <3>1, <3>2 DEF Change
  <2>5. EngineStep(move) \in [equity : Int, peak : Int, stopped : BOOLEAN]
    <3>1. CASE Last.stopped
      BY <1>1, <2>3, <3>1 DEF EngineStep
    <3>2. CASE ~Last.stopped
      <4>. DEFINE equity == Last.equity + Change(move)
                  high == Max({peak, equity})
                  kept == Max({equity, 0})
      <4>1. equity \in Int
        BY <2>3, <2>4
      <4>2. high \in Int /\ kept \in Int
        BY <1>1, <4>1, MaxPair
      <4>3. DrawdownStop(equity, high) \in BOOLEAN
        BY DEF DrawdownStop
      <4>4. EngineStep(move) =
              [equity |-> kept, peak |-> high, stopped |-> DrawdownStop(equity, high)]
        BY <1>1, <3>2 DEF EngineStep, FixedStep
      <4>. HIDE DEF equity, high, kept
      <4>. QED  BY <4>2, <4>3, <4>4
    <3>. QED  BY <3>1, <3>2
  <2>. DEFINE row == [exposure |-> target, equity |-> EngineStep(move).equity,
                      stopped |-> EngineStep(move).stopped]
  <2>6. row \in Rows /\ row.exposure = target
    BY <1>1, <2>5 DEF Rows
  <2>7. peak' \in Int
    BY <2>1, <2>5
  <2>. QED  BY <1>3, <2>1, <2>6, <2>7
<1>. QED  BY <1>2, <1>3

LEMMA HoldInvInit == BacktestInit => HoldInv
<1>. SUFFICES ASSUME BacktestInit, Limited
              PROVE  LimitedTypes /\ HeldSince /\ NoLongRun /\ TradesExtracted
  BY DEF HoldInv
<1>1. 1 \in DOMAIN setup.rules
  BY DEF BacktestInit, LibraryTests, ThresholdTests, EnsembleTests, ConfidenceTests,
         Limited
<1>2. machines[1] = Flat
  BY <1>1 DEF BacktestInit
<1>3. 1 \in DOMAIN machines
  BY <1>1 DEF BacktestInit
<1>4. LimitedTypes
  BY <1>2, <1>3, UnitType DEF BacktestInit, LimitedTypes, Flat
<1>5. HeldSince
  BY <1>2 DEF HeldSince, Flat
<1>6. NoLongRun
  BY DEF BacktestInit, NoLongRun
<1>7. TradesExtracted
  BY DEF BacktestInit, TradesExtracted
<1>. QED  BY <1>4, <1>5, <1>6, <1>7

LEMMA RunBarKeeps ==
  ASSUME Limited, HoldInv, RunBar
  PROVE  (LimitedTypes /\ HeldSince /\ NoLongRun /\ TradesExtracted)'
<1>1. LimitedTypes /\ HeldSince /\ NoLongRun
  BY DEF HoldInv
<1>2. PICK row \in Rows :
        /\ result' = Append(result, row)
        /\ row.exposure = IF result = <<>> THEN 0 ELSE target
  BY <1>1, RowAppended
<1>3. peak' \in Int
  BY <1>1, RowAppended
<1>4. /\ 1 \in DOMAIN machines'
      /\ machines'[1] \in [held : BOOLEAN, bars : Nat]
      /\ target' = IF machines'[1].held THEN Unit ELSE 0
      /\ machines'[1].held /\ ~machines[1].held => machines'[1].bars = 0
      /\ machines'[1].held /\ machines[1].held =>
           /\ machines'[1].bars = machines[1].bars + 1
           /\ machines[1].bars + 1 < MaxHolding
  BY <1>1, LimitedDecision DEF RunBar
<1>. DEFINE n == Len(result)
            m == machines[1]
<1>5. /\ result \in Seq(Rows) /\ n \in Nat
      /\ m.held \in BOOLEAN /\ m.bars \in Nat
      /\ target = IF m.held THEN Unit ELSE 0
      /\ MaxHolding \in Nat \ {0} /\ Unit \in Nat \ {0}
  BY <1>1, UnitType DEF LimitedTypes
<1>6. /\ result' \in Seq(Rows) /\ Len(result') = n + 1
      /\ \A i \in 1 .. n : result'[i] = result[i]
      /\ result'[n + 1] = row
  BY <1>2, <1>5
<1>7. ~m.held => row.exposure = 0
  BY <1>2, <1>5
<1>8. LimitedTypes'
  BY <1>3, <1>4, <1>6 DEF LimitedTypes
<1>9. ASSUME machines'[1].held
      PROVE  /\ machines'[1].bars < MaxHolding
             /\ Len(result') - machines'[1].bars >= 1
             /\ result'[Len(result') - machines'[1].bars].exposure = 0
  <2>2. CASE ~m.held
    <3>1. machines'[1].bars = 0
      BY <1>4, <1>9, <2>2
    <3>. QED  BY <1>5, <1>6, <1>7, <2>2, <3>1
  <2>3. CASE m.held
    <3>1. /\ n - m.bars >= 1 /\ result[n - m.bars].exposure = 0
      BY <1>1, <2>3 DEF HeldSince
    <3>2. /\ machines'[1].bars = m.bars + 1 /\ m.bars + 1 < MaxHolding
      BY <1>4, <1>9, <2>3
    <3>3. n + 1 - machines'[1].bars = n - m.bars /\ n - m.bars \in 1 .. n
      BY <1>5, <3>1, <3>2
    <3>4. result'[n - m.bars] = result[n - m.bars]
      BY <1>6, <3>3
    <3>5. machines'[1].bars < MaxHolding
      BY <3>2
    <3>6. Len(result') - machines'[1].bars = n - m.bars
      BY <1>5, <1>6, <3>2
    <3>. QED  BY <3>1, <3>4, <3>5, <3>6
  <2>. QED  BY <1>5, <2>2, <2>3
<1>10. NoLongRun'
  <2>1. SUFFICES ASSUME NEW i \in 1 .. n + 1, i + MaxHolding <= n + 1
                 PROVE  \E j \in i .. i + MaxHolding : result'[j].exposure = 0
    BY <1>6 DEF NoLongRun, FlatWithin
  <2>2. CASE i + MaxHolding <= n
    <3>1. i \in DOMAIN result
      BY <1>5, <2>2
    <3>2. PICK j \in i .. i + MaxHolding : result[j].exposure = 0
      BY <1>1, <2>2, <3>1 DEF NoLongRun, FlatWithin
    <3>3. j \in 1 .. n
      BY <1>5, <2>2, <3>1
    <3>. QED  BY <1>6, <3>2, <3>3
  <2>3. CASE i + MaxHolding = n + 1
    <3>1. CASE ~m.held
      <4>1. n + 1 \in i .. i + MaxHolding
        BY <1>5, <2>3
      <4>. QED  BY <1>6, <1>7, <3>1, <4>1
    <3>2. CASE m.held
      <4>1. /\ m.bars < MaxHolding
            /\ n - m.bars >= 1 /\ result[n - m.bars].exposure = 0
        BY <1>1, <3>2 DEF HeldSince
      <4>2. n - m.bars \in i .. i + MaxHolding /\ n - m.bars \in 1 .. n
        BY <1>5, <2>3, <4>1
      <4>. QED  BY <1>6, <4>1, <4>2
    <3>. QED  BY <1>5, <3>1, <3>2
  <2>. QED  BY <1>5, <2>1, <2>2, <2>3
<1>11. TradesExtracted'
  BY DEF RunBar, TradesExtracted
<1>12. HeldSince'
  BY <1>9 DEF HeldSince
<1>. QED  BY <1>8, <1>10, <1>11, <1>12

LEMMA HoldInvStep == HoldInv /\ [BacktestNext]_backtestVars => HoldInv'
<1>. SUFFICES ASSUME HoldInv, [BacktestNext]_backtestVars, Limited'
              PROVE  (LimitedTypes /\ HeldSince /\ NoLongRun /\ TradesExtracted)'
  BY DEF HoldInv
<1>1. setup' = setup
  BY DEF BacktestNext, backtestVars, RunBar, ExtractTrades
<1>2. Limited
  BY <1>1 DEF Limited
<1>3. CASE RunBar
  BY <1>2, <1>3, RunBarKeeps
<1>4. CASE ExtractTrades
  <2>1. /\ UNCHANGED <<setup, machines, target, peak, result>>
        /\ trades' = [found |-> {TradeFrom(i) : i \in Entries}]
    BY <1>4 DEF ExtractTrades
  <2>2. (LimitedTypes /\ HeldSince /\ NoLongRun)'
    BY <1>2, <2>1 DEF HoldInv, LimitedTypes, HeldSince, NoLongRun, FlatWithin
  <2>3. TradesExtracted'
    BY <2>1 DEF TradesExtracted, TradeFrom, Entries, ExitRow, FlatAfter
  <2>. QED  BY <2>2, <2>3
<1>5. CASE UNCHANGED backtestVars
  <2>1. UNCHANGED <<setup, machines, target, peak, result, trades>>
    BY <1>5 DEF backtestVars
  <2>2. (LimitedTypes /\ HeldSince /\ NoLongRun)'
    BY <1>2, <2>1 DEF HoldInv, LimitedTypes, HeldSince, NoLongRun, FlatWithin
  <2>3. TradesExtracted'
    <3>1. TradesExtracted
      BY <1>2 DEF HoldInv
    <3>2. {TradeFrom(i) : i \in Entries}' = {TradeFrom(i) : i \in Entries}
      BY <2>1 DEF TradeFrom, Entries, ExitRow, FlatAfter
    <3>. QED  BY <2>1, <3>1, <3>2 DEF TradesExtracted
  <2>. QED  BY <2>2, <2>3
<1>. QED  BY <1>3, <1>4, <1>5 DEF BacktestNext

LEMMA TradesBounded == HoldInv => HoldingBounded
<1>. SUFFICES ASSUME HoldInv, trades # <<>>, Limited, NEW t \in trades.found
              PROVE  t.holding <= MaxHolding
  BY DEF HoldingBounded, Limited
<1>1. PICK i \in Entries : t = TradeFrom(i)
  BY DEF HoldInv, TradesExtracted
<1>2. /\ result \in Seq(Rows) /\ NoLongRun /\ Len(result) \in Nat
      /\ MaxHolding \in Nat \ {0}
      /\ DOMAIN result = 1 .. Len(result)
  BY UnitType DEF HoldInv, LimitedTypes
<1>3. i \in 1 .. Len(result) /\ result[i].exposure > 0
  BY <1>2 DEF Entries
<1>4. t.holding = ExitRow(i) - i
  BY <1>1 DEF TradeFrom
<1>5. FlatAfter(i) \in SUBSET Nat
  BY <1>2 DEF FlatAfter
<1>6. CASE i + MaxHolding <= Len(result)
  <2>1. PICK j \in i .. i + MaxHolding : result[j].exposure = 0
    BY <1>2, <1>3, <1>6 DEF NoLongRun, FlatWithin
  <2>2. j # i /\ j \in 1 .. Len(result)
    BY <1>2, <1>3, <1>6, <2>1
  <2>3. j \in FlatAfter(i)
    BY <1>2, <1>3, <2>1, <2>2 DEF FlatAfter
  <2>4. Min(FlatAfter(i)) \in Nat /\ Min(FlatAfter(i)) <= j
    BY <1>5, <2>3, LeastElement
  <2>5. ExitRow(i) = Min(FlatAfter(i))
    BY <2>3 DEF ExitRow
  <2>. QED  BY <1>2, <1>3, <1>4, <2>1, <2>4, <2>5
<1>7. CASE i + MaxHolding > Len(result)
  <2>1. ExitRow(i) \in 1 .. Len(result)
    <3>1. CASE FlatAfter(i) = {}
      BY <1>2, <1>3, <3>1 DEF ExitRow
    <3>2. CASE FlatAfter(i) # {}
      <4>1. Min(FlatAfter(i)) \in FlatAfter(i)
        BY <1>5, <3>2, LeastElement
      <4>. QED  BY <1>2, <3>2, <4>1 DEF ExitRow, FlatAfter
    <3>. QED  BY <3>1, <3>2
  <2>. QED  BY <1>2, <1>3, <1>4, <1>7, <2>1
<1>. QED  BY <1>2, <1>3, <1>6, <1>7

-----------------------------------------------------------------------------
(* Totals.  Every set that holds 0 and the successor of what it holds     *)
(* holds every natural: induction for a set instead of an operator.         *)
LEMMA InductiveSet ==
  ASSUME NEW S, 0 \in S, \A n \in Nat : n \in S => n + 1 \in S
  PROVE  Nat \subseteq S
<1>. DEFINE Left == Nat \ S
<1>. SUFFICES ASSUME Left # {}
              PROVE  FALSE
  OBVIOUS
<1>1. Left \in SUBSET Nat
  OBVIOUS
<1>. HIDE DEF Left
<1>2. Min(Left) \in Left /\ \A x \in Left : Min(Left) <= x
  BY <1>1, LeastElement
<1>3. Min(Left) - 1 \in Nat /\ Min(Left) - 1 \notin Left
  BY <1>2 DEF Left
<1>4. (Min(Left) - 1) + 1 \in S
  BY <1>3 DEF Left
<1>. QED  BY <1>2, <1>4 DEF Left

(* s holds the sums of the first k values of v, for every k up to n.        *)
Sums(v, n, s) == /\ s \in [0 .. n -> Int]
                 /\ s = [k \in 0 .. n |-> IF k = 0 THEN 0 ELSE s[k - 1] + v[k]]

LEMMA SumsExist ==
  ASSUME NEW v, NEW n \in Nat, \A k \in 1 .. n : v[k] \in Int
  PROVE  \E s : Sums(v, n, s)
<1>. DEFINE S == {m \in Nat : m <= n => \E s : Sums(v, m, s)}
<1>1. 0 \in S
  <2>. DEFINE s == [k \in 0 .. 0 |-> 0]
  <2>1. s \in [0 .. 0 -> Int]
    OBVIOUS
  <2>2. s = [k \in 0 .. 0 |-> IF k = 0 THEN 0 ELSE s[k - 1] + v[k]]
    OBVIOUS
  <2>. HIDE DEF s
  <2>. QED  BY <2>1, <2>2 DEF Sums
<1>2. ASSUME NEW m \in Nat, m \in S
      PROVE  m + 1 \in S
  <2>1. SUFFICES ASSUME m + 1 <= n
                 PROVE  \E s : Sums(v, m + 1, s)
    OBVIOUS
  <2>2. PICK s : Sums(v, m, s)
    BY <1>2, <2>1
  <2>. DEFINE t == [k \in 0 .. m + 1 |-> IF k = m + 1 THEN s[m] + v[m + 1] ELSE s[k]]
  <2>3. t \in [0 .. m + 1 -> Int]
    BY <2>1, <2>2 DEF Sums
  <2>4. \A k \in 0 .. m + 1 : t[k] = IF k = 0 THEN 0 ELSE t[k - 1] + v[k]
    <3>1. TAKE k \in 0 .. m + 1
    <3>2. CASE k = m + 1
      BY <3>2, k - 1 = m
    <3>3. CASE k # m + 1
      <4>1. k \in 0 .. m /\ (k # 0 => k - 1 \in 0 .. m)
        BY <3>3
      <4>2. s[k] = IF k = 0 THEN 0 ELSE s[k - 1] + v[k]
        BY <2>2, <4>1 DEF Sums
      <4>3. t[k] = s[k] /\ (k # 0 => t[k - 1] = s[k - 1])
        BY <3>3, <4>1
      <4>. QED  BY <4>2, <4>3
    <3>. QED  BY <3>2, <3>3
  <2>. HIDE DEF t
  <2>5. t = [k \in 0 .. m + 1 |-> IF k = 0 THEN 0 ELSE t[k - 1] + v[k]]
    BY <2>3, <2>4
  <2>. QED  BY <2>3, <2>5 DEF Sums
<1>. HIDE DEF S
<1>3. n \in S
  BY <1>1, <1>2, InductiveSet
<1>. QED  BY <1>3 DEF S

LEMMA SumsAgree ==
  ASSUME NEW v, NEW w, NEW n \in Nat, NEW m \in Nat, n <= m,
         \A k \in 1 .. n : v[k] = w[k],
         NEW s, NEW t, Sums(v, n, s), Sums(w, m, t)
  PROVE  s[n] = t[n]
<1>. DEFINE S == {k \in Nat : k <= n => s[k] = t[k]}
<1>1. 0 \in S
  BY DEF Sums
<1>2. ASSUME NEW k \in Nat, k \in S
      PROVE  k + 1 \in S
  <2>1. SUFFICES ASSUME k + 1 <= n
                 PROVE  s[k + 1] = t[k + 1]
    OBVIOUS
  <2>2. s[k + 1] = s[k] + v[k + 1]
    <3>1. k + 1 \in 0 .. n /\ k + 1 # 0 /\ (k + 1) - 1 = k
      BY <2>1
    <3>. QED  BY <3>1 DEF Sums
  <2>3. t[k + 1] = t[k] + w[k + 1]
    <3>1. k + 1 \in 0 .. m /\ k + 1 # 0 /\ (k + 1) - 1 = k
      BY <2>1
    <3>. QED  BY <3>1 DEF Sums
  <2>4. s[k] = t[k] /\ v[k + 1] = w[k + 1]
    BY <1>2, <2>1
  <2>. QED  BY <2>2, <2>3, <2>4
<1>. HIDE DEF S
<1>3. n \in S
  BY <1>1, <1>2, InductiveSet
<1>. QED  BY <1>3 DEF S

LEMMA TotalSums ==
  ASSUME NEW v, NEW n \in Nat, \A k \in 1 .. n : v[k] \in Int
  PROVE  \E s : Sums(v, n, s) /\ Total(v, n) = s[n]
<1>. DEFINE s == CHOOSE s : s = [k \in 0 .. n |-> IF k = 0 THEN 0 ELSE s[k - 1] + v[k]]
<1>1. Total(v, n) = s[n]
  BY DEF Total
<1>2. \E t : Sums(v, n, t)
  BY SumsExist
<1>3. s = [k \in 0 .. n |-> IF k = 0 THEN 0 ELSE s[k - 1] + v[k]]
  BY <1>2 DEF Sums
<1>. HIDE DEF s
<1>. DEFINE S == {k \in Nat : k <= n => s[k] \in Int}
<1>4. 0 \in S
  BY <1>3
<1>5. ASSUME NEW k \in Nat, k \in S
      PROVE  k + 1 \in S
  <2>1. SUFFICES ASSUME k + 1 <= n
                 PROVE  s[k + 1] \in Int
    OBVIOUS
  <2>2. k + 1 \in 0 .. n /\ k + 1 # 0 /\ (k + 1) - 1 = k /\ k + 1 \in 1 .. n
    BY <2>1
  <2>3. s[k + 1] = s[k] + v[k + 1]
    BY <1>3, <2>2
  <2>4. s[k] \in Int /\ v[k + 1] \in Int
    BY <1>5, <2>1, <2>2
  <2>. QED  BY <2>3, <2>4
<1>. HIDE DEF S
<1>6. Nat \subseteq S
  BY <1>4, <1>5, InductiveSet
<1>7. s \in [0 .. n -> Int]
  BY <1>3, <1>6 DEF S
<1>. QED  BY <1>1, <1>3, <1>7 DEF Sums

(* A total over nothing is 0, and each value adds itself.                   *)
LEMMA TotalOfNone == ASSUME NEW v PROVE Total(v, 0) = 0
<1>1. \A k \in 1 .. 0 : v[k] \in Int
  OBVIOUS
<1>2. PICK s : Sums(v, 0, s) /\ Total(v, 0) = s[0]
  BY <1>1, TotalSums
<1>. QED  BY <1>2 DEF Sums

LEMMA TotalAdds ==
  ASSUME NEW v, NEW n \in Nat, \A k \in 1 .. n + 1 : v[k] \in Int
  PROVE  /\ Total(v, n) \in Int /\ Total(v, n + 1) \in Int
         /\ Total(v, n + 1) = Total(v, n) + v[n + 1]
<1>1. PICK s : Sums(v, n, s) /\ Total(v, n) = s[n]
  BY TotalSums
<1>2. PICK t : Sums(v, n + 1, t) /\ Total(v, n + 1) = t[n + 1]
  BY TotalSums
<1>3. s[n] = t[n]
  BY <1>1, <1>2, SumsAgree
<1>4. n + 1 \in 0 .. n + 1 /\ n + 1 # 0 /\ (n + 1) - 1 = n /\ n \in 0 .. n
  OBVIOUS
<1>5. t[n + 1] = t[n] + v[n + 1]
  BY <1>2, <1>4 DEF Sums
<1>6. s[n] \in Int /\ t[n + 1] \in Int
  BY <1>1, <1>2, <1>4 DEF Sums
<1>. QED  BY <1>1, <1>2, <1>3, <1>5, <1>6

-----------------------------------------------------------------------------
(* The curve.  What the trade table rests on: the first row is flat, with   *)
(* the initial equity; a flat row keeps the equity of the flat row before   *)
(* it; and the trades are extracted when the rows are complete.             *)
Curve == [exposure : Nat, equity : Nat, stopped : BOOLEAN]

CurveTypes ==
  /\ setup.sizing \in {"fixed", "dynamic", "confidence"}
  /\ setup.sizing = "dynamic" => machines \in Seq({machines[1], machines[2]})
                                 /\ Len(machines) = 2
  /\ target \in Nat
  /\ result \in Seq(Curve)

StartsFlat ==
  result # <<>> => result[1].exposure = 0 /\ result[1].equity = InitialEquity

FlatStays ==
  \A i \in 2 .. Len(result) :
    result[i - 1].exposure = 0 /\ result[i].exposure = 0 =>
      result[i].equity = result[i - 1].equity

CurveInv ==
  /\ CurveTypes /\ StartsFlat /\ FlatStays
  /\ trades # <<>> => Len(result) = Bars
  /\ TradesExtracted

LEMMA MaxOfZero ==
  ASSUME NEW a \in Int
  PROVE  Max({a, 0}) \in Nat /\ (a >= 0 => Max({a, 0}) = a)
<1>1. PICK x \in {a, 0} : \A y \in {a, 0} : x >= y
  OBVIOUS
<1>2. Max({a, 0}) \in {a, 0} /\ \A y \in {a, 0} : Max({a, 0}) >= y
  BY <1>1 DEF Max
<1>. QED  BY <1>2

LEMMA MinPair ==
  ASSUME NEW a \in Nat, NEW b \in Nat
  PROVE  Min({a, b}) \in Nat
BY LeastElement

LEMMA ScoreIsNatural ==
  ASSUME NEW ms, DOMAIN ms = 1 .. 2, Len(ms) = 2
  PROVE  Score(ms) \in Nat
<1>. DEFINE v == [i \in DOMAIN ms |-> IF ms[i].held THEN Weights[i] ELSE 0]
<1>1. Weights[1] \in Nat /\ Weights[2] \in Nat
  <2>1. Weights \in Seq(Nat \ {0}) /\ Len(Weights) = 2
    BY BacktestAssumption DEF BacktestAssumption
  <2>2. \A i \in 1 .. Len(Weights) : Weights[i] \in Nat \ {0}
    BY <2>1, ElementOfSeq
  <2>3. 1 \in 1 .. Len(Weights) /\ 2 \in 1 .. Len(Weights)
    BY <2>1
  <2>. QED  BY <2>2, <2>3
<1>2. v[1] \in Nat /\ v[2] \in Nat
  BY <1>1
<1>3. Score(ms) = Total(v, 2)
  BY DEF Score
<1>. HIDE DEF v
<1>4. \A k \in 1 .. 0 + 1 : v[k] \in Int
  BY <1>2
<1>5. \A k \in 1 .. 1 + 1 : v[k] \in Int
  BY <1>2
<1>6. Total(v, 0) = 0
  BY TotalOfNone
<1>7. Total(v, 0 + 1) = Total(v, 0) + v[0 + 1]
  BY <1>4, TotalAdds
<1>8. Total(v, 1 + 1) = Total(v, 1) + v[1 + 1]
  BY <1>5, TotalAdds
<1>. QED  BY <1>2, <1>3, <1>6, <1>7, <1>8

(* No setup decides an exposure below zero.                                 *)
LEMMA TargetIsNatural ==
  ASSUME CurveTypes, DecideTarget, UNCHANGED setup
  PROVE  /\ target' \in Nat
         /\ setup.sizing = "dynamic" =>
              machines' \in Seq({machines'[1], machines'[2]}) /\ Len(machines') = 2
<1>1. PICK bars \in [DOMAIN machines -> Exclusive \cup SqueezeBars] :
        /\ machines' = [i \in DOMAIN machines |->
                          AdvanceRule(setup.rules[i], machines[i], bars[i])]
        /\ target' \in Targets(machines')
  BY DEF DecideTarget
<1>2. Unit \in Nat /\ MaxExposure \in Nat
  BY BacktestAssumption DEF BacktestAssumption
<1>3. CASE setup.sizing = "fixed"
  <2>1. target' \in {IF machines'[1].held THEN Unit ELSE 0}
    BY <1>1, <1>3 DEF Targets
  <2>. QED  BY <1>2, <1>3, <2>1
<1>4. CASE setup.sizing = "dynamic"
  <2>1. DOMAIN machines = 1 .. 2
    BY <1>4 DEF CurveTypes
  <2>2. DOMAIN machines' = 1 .. 2
    BY <1>1, <2>1
  <2>3. machines' \in Seq({machines'[1], machines'[2]}) /\ Len(machines') = 2
    BY <1>1, <2>1
  <2>4. Score(machines') \in Nat
    BY <2>2, <2>3, ScoreIsNatural
  <2>5. target' \in DynamicExposures(machines')
    BY <1>1, <1>4 DEF Targets
  <2>6. target' = 0 \/ \E multiplier \in 1 .. 2 : target' = Capped(Score(machines') * multiplier)
    BY <2>5 DEF DynamicExposures
  <2>7. ASSUME NEW multiplier \in 1 .. 2
        PROVE  Capped(Score(machines') * multiplier) \in Nat
    <3>1. Score(machines') * multiplier \in Nat
      BY <2>4
    <3>. QED  BY <1>2, <3>1, MinPair DEF Capped
  <2>. QED  BY <2>3, <2>6, <2>7
<1>5. CASE setup.sizing = "confidence"
  <2>1. target' \in ConfidenceExposures
    BY <1>1, <1>5 DEF Targets
  <2>2. PICK tier \in 0 .. 3 : target' = Capped(tier)
    BY <2>1 DEF ConfidenceExposures
  <2>. QED  BY <1>2, <1>5, <2>2, MinPair DEF Capped
<1>. QED  BY <1>3, <1>4, <1>5 DEF CurveTypes

(* A row more: the first is flat at the initial equity, and a flat row      *)
(* after a flat one costs and earns nothing.                                *)
LEMMA CurveRow ==
  ASSUME CurveTypes, RunBar
  PROVE  \E row \in Curve :
           /\ result' = Append(result, row)
           /\ result = <<>> => row.exposure = 0 /\ row.equity = InitialEquity
           /\ result # <<>> /\ Last.exposure = 0 /\ row.exposure = 0 =>
                row.equity = Last.equity
<1>1. result \in Seq(Curve) /\ target \in Nat
  BY DEF CurveTypes
<1>2. CASE result = <<>>
  <2>. DEFINE first == [exposure |-> 0, equity |-> InitialEquity, stopped |-> FALSE]
  <2>1. result' = <<first>>
    BY <1>2 DEF RunBar
  <2>2. first \in Curve
    BY BacktestAssumption DEF BacktestAssumption, Curve
  <2>3. result' = Append(result, first)
    BY <1>2, <2>1
  <2>. QED  BY <1>2, <2>2, <2>3
<1>3. CASE result # <<>>
  <2>1. PICK move \in Moves :
          result' = Append(result,
            [exposure |-> target, equity |-> EngineStep(move).equity,
             stopped |-> EngineStep(move).stopped])
    BY <1>3 DEF RunBar
  <2>2. Last \in Curve
    <3>1. Len(result) \in 1 .. Len(result)
      BY <1>1, <1>3
    <3>. QED  BY <1>1, <3>1 DEF Last
  <2>3. Last.equity \in Nat /\ Last.exposure \in Nat /\ Last.stopped \in BOOLEAN
    BY <2>2 DEF Curve
  <2>4. /\ Change(move) \in Int
        /\ target = 0 /\ Last.exposure = 0 => Change(move) = 0
    <3>1. move \in Int /\ Cost \in Nat
      BY UnitType
    <3>2. /\ Distance(target, Last.exposure) \in Int
          /\ target = 0 /\ Last.exposure = 0 => Distance(target, Last.exposure) = 0
      BY <1>1, <2>3 DEF Distance
    <3>3. Cost * Distance(target, Last.exposure) \in Int /\ target * move \in Int
      BY <1>1, <3>1, <3>2
    <3>4. Change(move) \in Int
      BY <3>3 DEF Change
    <3>5. ASSUME target = 0, Last.exposure = 0
          PROVE  Change(move) = 0
      <4>1. target * move = 0 /\ Cost * Distance(target, Last.exposure) = 0
        BY <3>1, <3>2, <3>5
      <4>. QED  BY <4>1 DEF Change
    <3>. QED  BY <3>4, <3>5
  <2>. DEFINE equity == Last.equity + Change(move)
              kept == Max({equity, 0})
  <2>5. /\ kept \in Nat
        /\ target = 0 /\ Last.exposure = 0 => kept = Last.equity
    <3>1. equity \in Int
      BY <2>3, <2>4
    <3>2. kept \in Nat /\ (equity >= 0 => kept = equity)
      BY <3>1, MaxOfZero
    <3>3. ASSUME target = 0, Last.exposure = 0
          PROVE  equity = Last.equity /\ equity >= 0
      BY <2>3, <2>4, <3>3
    <3>. HIDE DEF equity, kept
    <3>. QED  BY <3>2, <3>3
  <2>6. /\ EngineStep(move).stopped \in BOOLEAN
        /\ EngineStep(move).equity \in {Last.equity, kept}
    <3>1. CASE Last.stopped
      BY <3>1 DEF EngineStep
    <3>2. CASE ~Last.stopped /\ setup.sizing = "fixed"
      <4>1. EngineStep(move) = FixedStep(move)
        BY <3>2 DEF EngineStep
      <4>. QED  BY <4>1 DEF FixedStep, DrawdownStop
    <3>3. CASE ~Last.stopped /\ setup.sizing # "fixed"
      <4>1. EngineStep(move) = DynamicStep(move)
        BY <3>3 DEF EngineStep
      <4>. QED  BY <4>1 DEF DynamicStep, DrawdownStop
    <3>. QED  BY <3>1, <3>2, <3>3
  <2>. HIDE DEF kept
  <2>. DEFINE row == [exposure |-> target, equity |-> EngineStep(move).equity,
                      stopped |-> EngineStep(move).stopped]
  <2>7. row \in Curve
    BY <1>1, <2>3, <2>5, <2>6 DEF Curve
  <2>8. row.exposure = target /\ row.equity \in {Last.equity, kept}
    BY <2>6
  <2>. QED  BY <1>3, <2>1, <2>5, <2>7, <2>8
<1>. QED  BY <1>2, <1>3

LEMMA CurveInvInit == BacktestInit => CurveInv
<1>. SUFFICES ASSUME BacktestInit
              PROVE  CurveInv
  OBVIOUS
<1>1. /\ setup \in LibraryTests \cup ThresholdTests \cup EnsembleTests \cup ConfidenceTests
      /\ machines = [i \in DOMAIN setup.rules |-> Flat]
      /\ target = 0 /\ result = <<>> /\ trades = <<>>
  BY DEF BacktestInit
<1>2. setup.sizing \in {"fixed", "dynamic", "confidence"}
  BY <1>1 DEF LibraryTests, ThresholdTests, EnsembleTests, ConfidenceTests
<1>3. setup.sizing = "dynamic" =>
        machines \in Seq({machines[1], machines[2]}) /\ Len(machines) = 2
  <2>1. SUFFICES ASSUME setup.sizing = "dynamic"
                 PROVE  machines \in Seq({machines[1], machines[2]}) /\ Len(machines) = 2
    OBVIOUS
  <2>2. setup = [rules |-> <<"squeeze", "trend">>, sizing |-> "dynamic"]
    BY <1>1, <2>1 DEF LibraryTests, ThresholdTests, EnsembleTests, ConfidenceTests
  <2>3. DOMAIN setup.rules = 1 .. 2
    BY <2>2
  <2>. QED  BY <1>1, <2>3
<1>4. CurveTypes
  BY <1>1, <1>2, <1>3 DEF CurveTypes
<1>. QED  BY <1>1, <1>4 DEF CurveInv, StartsFlat, FlatStays, TradesExtracted

LEMMA CurveRunBar == CurveInv /\ RunBar => CurveInv'
<1>. SUFFICES ASSUME CurveInv, RunBar
              PROVE  CurveInv'
  OBVIOUS
<1>1. /\ CurveTypes /\ StartsFlat /\ FlatStays
      /\ DecideTarget /\ setup' = setup /\ trades' = trades /\ trades = <<>>
  BY DEF CurveInv, RunBar
<1>2. PICK row \in Curve :
        /\ result' = Append(result, row)
        /\ result = <<>> => row.exposure = 0 /\ row.equity = InitialEquity
        /\ result # <<>> /\ Last.exposure = 0 /\ row.exposure = 0 =>
             row.equity = Last.equity
  BY <1>1, CurveRow
<1>3. /\ target' \in Nat
      /\ setup.sizing = "dynamic" =>
           machines' \in Seq({machines'[1], machines'[2]}) /\ Len(machines') = 2
  BY <1>1, TargetIsNatural
<1>. DEFINE n == Len(result)
<1>4. /\ result \in Seq(Curve) /\ n \in Nat
      /\ result' \in Seq(Curve) /\ Len(result') = n + 1
      /\ \A i \in 1 .. n : result'[i] = result[i]
      /\ result'[n + 1] = row
      /\ result = <<>> <=> n = 0
  BY <1>1, <1>2 DEF CurveTypes
<1>5. CurveTypes'
  BY <1>1, <1>3, <1>4 DEF CurveTypes
<1>6. StartsFlat'
  <2>1. CASE n = 0
    BY <1>2, <1>4, <2>1 DEF StartsFlat
  <2>2. CASE n # 0
    <3>1. result'[1] = result[1] /\ result # <<>>
      BY <1>4, <2>2
    <3>. QED  BY <1>1, <3>1 DEF StartsFlat
  <2>. QED  BY <2>1, <2>2
<1>7. FlatStays'
  <2>1. SUFFICES ASSUME NEW i \in 2 .. n + 1,
                        result'[i - 1].exposure = 0, result'[i].exposure = 0
                 PROVE  result'[i].equity = result'[i - 1].equity
    BY <1>4 DEF FlatStays
  <2>2. CASE i <= n
    <3>1. result'[i] = result[i] /\ result'[i - 1] = result[i - 1] /\ i \in 2 .. n
      BY <1>4, <2>2
    <3>. QED  BY <1>1, <2>1, <3>1 DEF FlatStays
  <2>3. CASE i = n + 1
    <3>1. i - 1 = n /\ n \in 1 .. n /\ result # <<>>
      BY <1>4, <2>3
    <3>2. result'[i - 1] = Last /\ result'[i] = row
      BY <1>4, <2>3, <3>1 DEF Last
    <3>. QED  BY <1>2, <2>1, <3>1, <3>2
  <2>. QED  BY <1>4, <2>2, <2>3
<1>. QED  BY <1>1, <1>5, <1>6, <1>7 DEF CurveInv, TradesExtracted

LEMMA CurveInvStep == CurveInv /\ [BacktestNext]_backtestVars => CurveInv'
<1>. SUFFICES ASSUME CurveInv, [BacktestNext]_backtestVars
              PROVE  CurveInv'
  OBVIOUS
<1>1. CASE RunBar
  BY <1>1, CurveRunBar
<1>2. CASE ExtractTrades
  <2>1. /\ UNCHANGED <<setup, machines, target, peak, result>>
        /\ trades' = [found |-> {TradeFrom(i) : i \in Entries}]
        /\ Len(result) = Bars
    BY <1>2 DEF ExtractTrades
  <2>2. TradesExtracted'
    BY <2>1 DEF TradesExtracted, TradeFrom, Entries, ExitRow, FlatAfter
  <2>3. (CurveTypes /\ StartsFlat /\ FlatStays)'
    BY <2>1 DEF CurveInv, CurveTypes, StartsFlat, FlatStays
  <2>. QED  BY <2>1, <2>2, <2>3 DEF CurveInv
<1>3. CASE UNCHANGED backtestVars
  <2>1. UNCHANGED <<setup, machines, target, peak, result, trades>>
    BY <1>3 DEF backtestVars
  <2>2. (CurveTypes /\ StartsFlat /\ FlatStays)'
    BY <2>1 DEF CurveInv, CurveTypes, StartsFlat, FlatStays
  <2>3. TradesExtracted'
    <3>1. {TradeFrom(i) : i \in Entries}' = {TradeFrom(i) : i \in Entries}
      BY <2>1 DEF TradeFrom, Entries, ExitRow, FlatAfter
    <3>. QED  BY <2>1, <3>1 DEF CurveInv, TradesExtracted
  <2>. QED  BY <2>1, <2>2, <2>3 DEF CurveInv
<1>. QED  BY <1>1, <1>2, <1>3 DEF BacktestNext

(* Of two rows in position one after the other, a trade that is open at one *)
(* is open at the other; the first flat row after a position ends its trade. *)
LEMMA ExitRows ==
  ASSUME CurveTypes, NEW i \in 1 .. Len(result), result[i].exposure # 0
  PROVE  /\ ExitRow(i) \in i .. Len(result)
         /\ i = Len(result) => ExitRow(i) = i
         /\ i < Len(result) =>
              ExitRow(i) = IF result[i + 1].exposure = 0 THEN i + 1 ELSE ExitRow(i + 1)
<1>. DEFINE n == Len(result)
<1>1. result \in Seq(Curve) /\ n \in Nat /\ DOMAIN result = 1 .. n
  BY DEF CurveTypes
<1>2. FlatAfter(i) \in SUBSET Nat
  BY <1>1 DEF FlatAfter
<1>3. FlatAfter(i) # {} => Min(FlatAfter(i)) \in FlatAfter(i)
                           /\ \A x \in FlatAfter(i) : Min(FlatAfter(i)) <= x
  BY <1>2, LeastElement
<1>4. ExitRow(i) \in i .. n
  <2>1. CASE FlatAfter(i) = {}
    BY <1>1, <2>1 DEF ExitRow
  <2>2. CASE FlatAfter(i) # {}
    BY <1>1, <1>3, <2>2 DEF ExitRow, FlatAfter
  <2>. QED  BY <2>1, <2>2
<1>5. ASSUME i = n
      PROVE  ExitRow(i) = i
  BY <1>1, <1>4, <1>5
<1>6. ASSUME i < n
      PROVE  ExitRow(i) = IF result[i + 1].exposure = 0 THEN i + 1 ELSE ExitRow(i + 1)
  <2>1. CASE result[i + 1].exposure = 0
    <3>1. i + 1 \in FlatAfter(i)
      BY <1>1, <1>6, <2>1 DEF FlatAfter
    <3>2. Min(FlatAfter(i)) \in FlatAfter(i) /\ Min(FlatAfter(i)) <= i + 1
      BY <1>3, <3>1
    <3>3. Min(FlatAfter(i)) \in 1 .. n /\ Min(FlatAfter(i)) > i
      BY <1>1, <3>2 DEF FlatAfter
    <3>4. Min(FlatAfter(i)) = i + 1
      BY <1>1, <3>2, <3>3
    <3>. QED  BY <2>1, <3>1, <3>4 DEF ExitRow
  <2>2. CASE result[i + 1].exposure # 0
    <3>1. ASSUME NEW j \in 1 .. n, result[j].exposure = 0
          PROVE  j > i <=> j > i + 1
      BY <1>1, <2>2, <3>1
    <3>2. FlatAfter(i) = FlatAfter(i + 1)
      BY <1>1, <3>1 DEF FlatAfter
    <3>. QED  BY <2>2, <3>2 DEF ExitRow
  <2>. QED  BY <2>1, <2>2
<1>. QED  BY <1>4, <1>5, <1>6

(* The equity a row leaves behind once the trade open in it has ended.      *)
Settles(k) == IF result[k].exposure = 0 THEN k ELSE ExitRow(k)

LEMMA TradesAccount ==
  ASSUME CurveInv, trades # <<>>, NEW i \in 1 .. Bars
  PROVE  ExplainedAt(i) =
           IF i \in Entries
           THEN result[ExitRow(i)].equity - result[i].equity
                + result[i].equity - result[i - 1].equity
           ELSE 0
<1>1. trades.found = {TradeFrom(j) : j \in Entries}
  BY DEF CurveInv, TradesExtracted
<1>2. \A j : TradeFrom(j).entry = j
  BY DEF TradeFrom
<1>3. CASE i \in Entries
  <2>1. EnteredAt(i) = {TradeFrom(i)}
    BY <1>1, <1>2, <1>3 DEF EnteredAt
  <2>2. (CHOOSE t \in EnteredAt(i) : TRUE) = TradeFrom(i) /\ EnteredAt(i) # {}
    BY <2>1
  <2>3. TradeFrom(i).pnl = result[ExitRow(i)].equity - result[i].equity
    BY DEF TradeFrom
  <2>. QED  BY <1>3, <2>2, <2>3 DEF ExplainedAt
<1>4. CASE i \notin Entries
  <2>1. EnteredAt(i) = {}
    BY <1>1, <1>2, <1>4 DEF EnteredAt
  <2>. QED  BY <1>4, <2>1 DEF ExplainedAt
<1>. QED  BY <1>3, <1>4

LEMMA CurveExplained == CurveInv => TradesExplainEquity
<1>. SUFFICES ASSUME CurveInv, trades # <<>>
              PROVE  /\ \A t, u \in trades.found : t.entry = u.entry => t = u
                     /\ result[Bars].equity - InitialEquity =
                          Total([i \in 1 .. Bars |-> ExplainedAt(i)], Bars)
  BY DEF TradesExplainEquity
<1>1. /\ CurveTypes /\ StartsFlat /\ FlatStays
      /\ trades.found = {TradeFrom(i) : i \in Entries}
  BY DEF CurveInv, TradesExtracted
<1>2. /\ result \in Seq(Curve) /\ Len(result) = Bars /\ Bars \in Nat \ {0}
      /\ DOMAIN result = 1 .. Bars
  BY BacktestAssumption DEF CurveInv, CurveTypes, BacktestAssumption
<1>3. /\ result[1].exposure = 0 /\ result[1].equity = InitialEquity
      /\ InitialEquity \in Nat
  BY <1>1, <1>2, BacktestAssumption DEF StartsFlat, BacktestAssumption
<1>4. \A i \in 1 .. Bars : result[i].exposure \in Nat /\ result[i].equity \in Nat
  <2>1. TAKE i \in 1 .. Bars
  <2>2. result[i] \in Curve
    BY <1>2
  <2>. QED  BY <2>2 DEF Curve
<1>5. \A t, u \in trades.found : t.entry = u.entry => t = u
  BY <1>1 DEF TradeFrom
<1>. DEFINE v == [i \in 1 .. Bars |-> ExplainedAt(i)]
            S == {k \in Nat : 1 <= k /\ k <= Bars =>
                    Total(v, k) = result[Settles(k)].equity - InitialEquity}
<1>6. \A i \in 1 .. Bars :
        i \in Entries <=> i # 1 /\ result[i].exposure # 0 /\ result[i - 1].exposure = 0
  <2>1. TAKE i \in 1 .. Bars
  <2>2. result[i].exposure > 0 <=> result[i].exposure # 0
    BY <1>4
  <2>. QED  BY <1>2, <1>3, <2>2 DEF Entries
<1>7. \A i \in 1 .. Bars : Settles(i) \in 1 .. Bars
  <2>1. TAKE i \in 1 .. Bars
  <2>2. CASE result[i].exposure = 0
    BY <2>2 DEF Settles
  <2>3. CASE result[i].exposure # 0
    <3>1. ExitRow(i) \in i .. Bars
      BY <1>1, <1>2, <2>3, ExitRows
    <3>. QED  BY <2>3, <3>1 DEF Settles
  <2>. QED  BY <2>2, <2>3
<1>8. \A i \in 1 .. Bars :
        v[i] = IF i \in Entries
               THEN result[Settles(i)].equity - result[i - 1].equity ELSE 0
  <2>1. TAKE i \in 1 .. Bars
  <2>2. v[i] = ExplainedAt(i)
    OBVIOUS
  <2>3. CASE i \in Entries
    <3>1. /\ i \in 1 .. Bars /\ i - 1 \in 1 .. Bars /\ result[i].exposure # 0
      BY <1>2, <1>6, <2>3
    <3>2. ExplainedAt(i) = result[ExitRow(i)].equity - result[i].equity
                           + result[i].equity - result[i - 1].equity
      BY <2>3, TradesAccount
    <3>3. Settles(i) = ExitRow(i)
      BY <3>1 DEF Settles
    <3>4. /\ result[Settles(i)].equity \in Nat /\ result[i].equity \in Nat
          /\ result[i - 1].equity \in Nat
      BY <1>4, <1>7, <3>1
    <3>. HIDE DEF v
    <3>. QED  BY <2>2, <2>3, <3>2, <3>3, <3>4
  <2>4. CASE i \notin Entries
    <3>1. ExplainedAt(i) = 0
      BY <2>4, TradesAccount
    <3>. HIDE DEF v
    <3>. QED  BY <2>2, <2>4, <3>1
  <2>. QED  BY <2>3, <2>4
<1>. HIDE DEF v
<1>9. \A i \in 1 .. Bars : v[i] \in Int
  <2>1. TAKE i \in 1 .. Bars
  <2>2. CASE i \in Entries
    <3>1. i - 1 \in 1 .. Bars
      BY <1>2, <1>6, <2>2
    <3>2. result[Settles(i)].equity \in Nat /\ result[i - 1].equity \in Nat
      BY <1>4, <1>7, <3>1
    <3>. QED  BY <1>8, <2>2, <3>2
  <2>3. CASE i \notin Entries
    BY <1>8, <2>3
  <2>. QED  BY <2>2, <2>3
<1>10. 0 \in S
  OBVIOUS
<1>11. ASSUME NEW k \in Nat, k \in S
       PROVE  k + 1 \in S
  <2>1. SUFFICES ASSUME k + 1 <= Bars
                 PROVE  Total(v, k + 1) = result[Settles(k + 1)].equity - InitialEquity
    OBVIOUS
  <2>2. /\ Total(v, k) \in Int
        /\ Total(v, k + 1) = Total(v, k) + v[k + 1]
    <3>1. \A j \in 1 .. k + 1 : v[j] \in Int
      BY <1>2, <1>9, <2>1
    <3>. QED  BY <3>1, TotalAdds
  <2>3. k + 1 \in 1 .. Bars
    BY <1>2, <2>1
  <2>4. CASE k = 0
    <3>1. v[1] = 0
      BY <1>6, <1>8, <2>3, <2>4
    <3>2. Settles(1) = 1
      BY <1>3 DEF Settles
    <3>3. Total(v, 0) = 0
      BY TotalOfNone
    <3>. QED  BY <1>3, <2>2, <2>4, <3>1, <3>2, <3>3
  <2>5. CASE k # 0
    <3>1. k \in 1 .. Bars /\ k < Bars
      BY <1>2, <2>1, <2>5
    <3>2. Total(v, k) = result[Settles(k)].equity - InitialEquity
      BY <1>2, <1>11, <3>1
    <3>3. /\ result[k].equity \in Nat /\ result[k + 1].equity \in Nat
          /\ result[Settles(k)].equity \in Nat /\ result[Settles(k + 1)].equity \in Nat
      BY <1>4, <1>7, <2>3, <3>1
    <3>4. v[k + 1] = result[Settles(k + 1)].equity - result[Settles(k)].equity
      <4>1. CASE k + 1 \in Entries
        <5>1. result[k].exposure = 0
          BY <1>6, <2>3, <4>1
        <5>2. Settles(k) = k
          BY <5>1 DEF Settles
        <5>3. v[k + 1] = result[Settles(k + 1)].equity - result[(k + 1) - 1].equity
          BY <1>8, <2>3, <4>1
        <5>. QED  BY <5>2, <5>3
      <4>2. CASE k + 1 \notin Entries
        <5>1. v[k + 1] = 0
          BY <1>8, <2>3, <4>2
        <5>2. result[Settles(k + 1)].equity = result[Settles(k)].equity
          <6>1. CASE result[k].exposure = 0
            <7>1. result[k + 1].exposure = 0
              BY <1>6, <2>3, <3>1, <4>2, <6>1
            <7>2. Settles(k) = k /\ Settles(k + 1) = k + 1
              BY <6>1, <7>1 DEF Settles
            <7>3. k + 1 \in 2 .. Len(result) /\ (k + 1) - 1 = k
              BY <1>2, <3>1
            <7>4. result[k + 1].equity = result[k].equity
              BY <1>1, <6>1, <7>1, <7>3 DEF FlatStays
            <7>. QED  BY <7>2, <7>4
          <6>2. CASE result[k].exposure # 0
            <7>1. ExitRow(k) = IF result[k + 1].exposure = 0 THEN k + 1 ELSE ExitRow(k + 1)
              BY <1>1, <1>2, <3>1, <6>2, ExitRows
            <7>. QED  BY <6>2, <7>1 DEF Settles
          <6>. QED  BY <6>1, <6>2
        <5>. QED  BY <3>3, <5>1, <5>2
      <4>. QED  BY <4>1, <4>2
    <3>. QED  BY <1>3, <2>2, <3>2, <3>3, <3>4
  <2>. QED  BY <2>4, <2>5
<1>. HIDE DEF S
<1>12. Bars \in S
  BY <1>2, <1>10, <1>11, InductiveSet
<1>13. Total(v, Bars) = result[Settles(Bars)].equity - InitialEquity
  BY <1>2, <1>12 DEF S
<1>14. Settles(Bars) = Bars
  <2>1. CASE result[Bars].exposure = 0
    BY <2>1 DEF Settles
  <2>2. CASE result[Bars].exposure # 0
    <3>1. ExitRow(Bars) = Bars
      BY <1>1, <1>2, <2>2, ExitRows
    <3>. QED  BY <2>2, <3>1 DEF Settles
  <2>. QED  BY <2>1, <2>2
<1>15. Total([i \in 1 .. Bars |-> ExplainedAt(i)], Bars) = Total(v, Bars)
  BY DEF v
<1>. QED  BY <1>5, <1>13, <1>14, <1>15

-----------------------------------------------------------------------------
(* Downloads.  Top is the newest bar the exchange serves at this moment.    *)
Top == IF feed.endpoint = "history-candles" THEN now - 1 ELSE now

FileWhole ==
  /\ \E a, z \in Nat : a >= 1 /\ z <= Top /\ Stored = a .. z
  /\ feed.source = "okx" =>
       \A b \in Stored : file[b] = "open" =>
         feed.endpoint = "candles" /\ \A c \in Stored : c <= b
  /\ audit # "fail"

FetchFields == {"phase", "since", "rows", "cursor", "batches"}
FetchTypes ==
  /\ fetch = [f \in FetchFields |-> fetch[f]]
  /\ fetch.phase \in {"paging", "fetched"}
  /\ fetch.since \in Nat \ {0} /\ fetch.cursor \in Nat \ {0}
  /\ fetch.batches \in Nat

(* Forwards, the rows read so far continue the file without a gap.          *)
Continues ==
  /\ \A b \in Stored : b < fetch.since
  /\ Stored # {} => fetch.since - 1 \in Stored
  /\ Stored = {} => fetch.since = 1
  /\ fetch.since <= fetch.cursor
  /\ DOMAIN fetch.rows = fetch.since .. fetch.cursor - 1
  /\ DOMAIN fetch.rows \subseteq Served

(* Backwards, they reach from the cursor to the newest bar t of the first   *)
(* page, which is no older than the file; only t can be unfinished.  While  *)
(* the loop goes on the pages were full and the start is not reached.       *)
ReachesTo(t) ==
  /\ fetch.cursor <= t /\ t <= Top
  /\ DOMAIN fetch.rows = fetch.cursor .. t
  /\ \A b \in Stored : b <= t
  /\ \A b \in fetch.cursor .. t :
       fetch.rows[b] = "open" => b = t /\ feed.endpoint = "candles"
  /\ fetch.phase = "paging" =>
       /\ fetch.cursor > fetch.since
       /\ t + 1 = fetch.cursor + fetch.batches * PageLimit
  /\ fetch.phase = "fetched" => fetch.cursor <= fetch.since

Backwards ==
  /\ Stored # {} => \E b \in Stored : fetch.since <= b
  /\ Stored = {} => fetch.since = 1
  /\ \/ /\ fetch.batches = 0 /\ fetch.phase = "paging"
        /\ DOMAIN fetch.rows = {} /\ fetch.cursor = LastBar + 1
     \/ /\ fetch.phase = "fetched" /\ DOMAIN fetch.rows = {} /\ Stored = {}
     \/ \E t \in Nat : ReachesTo(t)

FetchInv ==
  \/ fetch = Idle
  \/ /\ FetchTypes
     /\ feed.source = "forwards" => Continues
     /\ feed.source = "okx" => Backwards

CandleInv ==
  /\ feed \in Feeds /\ now \in 1 .. LastBar
  /\ FileWhole /\ FetchInv

-----------------------------------------------------------------------------
LEMMA PageType == /\ PageLimit \in Nat \ {0} /\ MaxBatches \in Nat \ {0}
                  /\ LastBar \in Nat \ {0, 1} /\ Overlap \in Nat
                  /\ MaxBatches * PageLimit >= LastBar
BY PagesCoverHistory DEF PagesCoverHistory

LEMMA IntervalEnds ==
  ASSUME NEW a \in Nat, NEW z \in Nat, a <= z
  PROVE  Min(a .. z) = a /\ Max(a .. z) = z
<1>1. \A x \in a .. z : (\A y \in a .. z : x <= y) <=> x = a
  OBVIOUS
<1>2. \A x \in a .. z : (\A y \in a .. z : x >= y) <=> x = z
  OBVIOUS
<1>3. a \in a .. z /\ z \in a .. z
  OBVIOUS
<1>. QED  BY <1>1, <1>2, <1>3 DEF Min, Max

LEMMA OldestPage ==
  ASSUME NEW a \in Nat, NEW z \in Nat, a <= z
  PROVE  \E m \in Nat : a <= m /\ m <= z /\ Oldest(a .. z) = a .. m
<1>1. PageLimit \in Nat \ {0}
  BY PageType
<1>2. ASSUME NEW b \in a .. z
      PROVE  Cardinality({c \in a .. z : c <= b}) = b - a + 1
  <2>1. {c \in a .. z : c <= b} = a .. b
    OBVIOUS
  <2>2. Cardinality(a .. b) = IF a > b THEN 0 ELSE b - a + 1
    BY FS_Interval
  <2>3. ~(a > b)
    OBVIOUS
  <2>4. Cardinality(a .. b) = b - a + 1
    BY <2>2, <2>3
  <2>. QED  BY <2>1, <2>4
<1>. DEFINE m == IF z <= a + PageLimit - 1 THEN z ELSE a + PageLimit - 1
<1>3. m \in Nat /\ a <= m /\ m <= z
  BY <1>1
<1>4. \A b \in a .. z : b - a + 1 <= PageLimit <=> b <= m
  BY <1>1
<1>. HIDE DEF m
<1>5. ASSUME NEW b \in a .. z
      PROVE  Cardinality({c \in a .. z : c <= b}) <= PageLimit <=> b \in a .. m
  <2>1. Cardinality({c \in a .. z : c <= b}) = b - a + 1
    BY <1>2
  <2>2. b \in a .. m <=> b <= m
    BY <1>3
  <2>. QED  BY <1>4, <2>1, <2>2
<1>6. Oldest(a .. z) = a .. m
  <2>1. a .. m \subseteq a .. z
    BY <1>3
  <2>. QED  BY <1>5, <2>1 DEF Oldest
<1>. QED  BY <1>3, <1>6

LEMMA NewestPage ==
  ASSUME NEW h \in Nat \ {0}
  PROVE  \E m \in Nat : /\ 1 <= m /\ m <= h
                        /\ Newest(1 .. h) = m .. h
                        /\ Cardinality(m .. h) = h - m + 1
                        /\ h - m + 1 # PageLimit => m = 1
<1>1. PageLimit \in Nat \ {0}
  BY PageType
<1>2. ASSUME NEW b \in 1 .. h
      PROVE  Cardinality({c \in 1 .. h : c >= b}) = h - b + 1
  <2>1. {c \in 1 .. h : c >= b} = b .. h
    OBVIOUS
  <2>2. Cardinality(b .. h) = IF b > h THEN 0 ELSE h - b + 1
    BY FS_Interval
  <2>. QED  BY <2>1, <2>2
<1>. DEFINE m == IF h <= PageLimit THEN 1 ELSE h - PageLimit + 1
<1>3. m \in Nat /\ 1 <= m /\ m <= h /\ (h - m + 1 # PageLimit => m = 1)
  BY <1>1
<1>4. \A b \in 1 .. h : h - b + 1 <= PageLimit <=> b >= m
  BY <1>1
<1>. HIDE DEF m
<1>5. Newest(1 .. h) = m .. h
  BY <1>2, <1>3, <1>4 DEF Newest
<1>6. Cardinality(m .. h) = h - m + 1
  <2>1. Cardinality(m .. h) = IF m > h THEN 0 ELSE h - m + 1
    BY <1>3, FS_Interval
  <2>. QED  BY <1>3, <2>1
<1>. QED  BY <1>3, <1>5, <1>6

LEMMA ServedTop ==
  ASSUME CandleInv
  PROVE  /\ Top \in Nat /\ Top <= LastBar /\ Top <= now /\ now \in Nat
         /\ Served = 1 .. Top
         /\ Top = now => feed.endpoint # "history-candles"
BY PageType DEF CandleInv, Top, Served

(* merge_ohlcv: the rows of both, the new ones where both have one.         *)
LEMMA Merged ==
  ASSUME NEW f, NEW g
  PROVE  /\ DOMAIN MergeOhlcv(f, g) = DOMAIN f \cup DOMAIN g
         /\ \A b \in DOMAIN g : MergeOhlcv(f, g)[b] = g[b]
         /\ \A b \in DOMAIN f \ DOMAIN g : MergeOhlcv(f, g)[b] = f[b]
BY DEF MergeOhlcv

(* The rows after one more page.                                            *)
LEMMA RowsRead ==
  ASSUME NEW rows, NEW page, NEW read, read = MergeOhlcv(rows, Reading(page))
  PROVE  /\ DOMAIN read = DOMAIN rows \cup page
         /\ \A b \in page : read[b] = "open" => ~(b < now)
         /\ \A b \in DOMAIN rows \ page : read[b] = rows[b]
<1>1. DOMAIN Reading(page) = page
  BY DEF Reading
<1>2. \A b \in page : Reading(page)[b] = "open" => ~(b < now)
  BY DEF Reading
<1>3. /\ DOMAIN MergeOhlcv(rows, Reading(page)) = DOMAIN rows \cup DOMAIN Reading(page)
      /\ \A b \in DOMAIN Reading(page) :
           MergeOhlcv(rows, Reading(page))[b] = Reading(page)[b]
      /\ \A b \in DOMAIN rows \ DOMAIN Reading(page) :
           MergeOhlcv(rows, Reading(page))[b] = rows[b]
  BY Merged, Zenon
<1>. QED  BY <1>1, <1>2, <1>3
LEMMA CandleInvInit == CandleInit => CandleInv
<1>. SUFFICES ASSUME CandleInit
              PROVE  CandleInv
  OBVIOUS
<1>1. feed \in Feeds /\ now \in 1 .. LastBar /\ FetchInv
  BY PageType DEF CandleInit, FetchInv
<1>2. Stored = {} /\ audit # "fail"
  BY DEF CandleInit, Stored
<1>3. Top \in Nat
  BY <1>1 DEF Top
<1>4. \E a, z \in Nat : a >= 1 /\ z <= Top /\ Stored = a .. z
  <2>1. 1 \in Nat /\ 0 \in Nat /\ 1 .. 0 = {}
    OBVIOUS
  <2>. QED  BY <1>2, <1>3, <2>1
<1>. QED  BY <1>1, <1>2, <1>4 DEF CandleInv, FileWhole

LEMMA FileEnds ==
  ASSUME CandleInv, Stored # {}
  PROVE  \E a, z \in Nat : /\ 1 <= a /\ a <= z /\ z <= Top
                           /\ Stored = a .. z
                           /\ FirstStored = a /\ LastStored = z
<1>1. PICK a \in Nat, z \in Nat : a >= 1 /\ z <= Top /\ Stored = a .. z
  BY DEF CandleInv, FileWhole
<1>2. a <= z
  BY <1>1
<1>3. FirstStored = a /\ LastStored = z
  BY <1>1, <1>2, IntervalEnds DEF FirstStored, LastStored
<1>. QED  BY <1>1, <1>2, <1>3

(* Since: right after the file, or at a bar of the file or before it.       *)
LEMMA SinceType ==
  ASSUME CandleInv
  PROVE  /\ Since \in Nat \ {0}
         /\ Stored = {} => Since = 1
         /\ feed.source = "forwards" /\ Stored # {} =>
              Since = LastStored + 1
         /\ feed.source = "okx" /\ Stored # {} => \E b \in Stored : Since <= b
<1>1. CASE Stored = {}
  BY <1>1 DEF Since
<1>2. CASE Stored # {}
  <2>1. PICK a \in Nat, z \in Nat :
          /\ 1 <= a /\ a <= z /\ Stored = a .. z /\ LastStored = z
    BY <1>2, FileEnds
  <2>2. z \in Stored /\ z \in Nat \ {0}
    BY <2>1
  <2>3. CASE feed.source = "forwards"
    BY <1>2, <2>1, <2>2, <2>3 DEF Since
  <2>4. CASE feed.source # "forwards" /\ feed.full
    BY <1>2, <2>1, <2>2, <2>4 DEF Since
  <2>5. CASE feed.source # "forwards" /\ ~feed.full
    <3>1. Overlap \in Nat
      BY PageType
    <3>2. Max({1, z - Overlap}) \in {1, z - Overlap}
          /\ Max({1, z - Overlap}) >= 1
      <4>1. \E x \in {1, z - Overlap} : \A y \in {1, z - Overlap} : x >= y
        BY <2>2, <3>1
      <4>. QED  BY <4>1 DEF Max
    <3>3. Since = Max({1, z - Overlap})
      BY <1>2, <2>1, <2>5 DEF Since
    <3>4. Since \in Nat \ {0} /\ Since <= z
      BY <2>2, <3>1, <3>2, <3>3
    <3>. QED  BY <1>2, <2>2, <2>5, <3>4
  <2>. QED  BY <2>3, <2>4, <2>5
<1>. QED  BY <1>1, <1>2

LEMMA BeginUpdateKeeps == CandleInv /\ BeginUpdate => FetchInv'
<1>. SUFFICES ASSUME CandleInv, BeginUpdate
              PROVE  FetchInv'
  OBVIOUS
<1>1. /\ fetch' = [phase |-> "paging", since |-> Since, rows |-> <<>>,
                   cursor |-> IF feed.source = "forwards" THEN Since ELSE LastBar + 1,
                   batches |-> 0]
      /\ UNCHANGED <<feed, now, file>>
  BY DEF BeginUpdate
<1>2. /\ Since \in Nat \ {0} /\ LastBar + 1 \in Nat \ {0}
  BY SinceType, PageType
<1>3. FetchTypes'
  BY <1>1, <1>2 DEF FetchTypes, FetchFields
<1>4. /\ fetch'.since = Since /\ DOMAIN fetch'.rows = {}
      /\ fetch'.cursor = IF feed.source = "forwards" THEN Since ELSE LastBar + 1
      /\ fetch'.batches = 0 /\ fetch'.phase = "paging"
      /\ Stored' = Stored /\ feed' = feed
  BY <1>1 DEF Stored
<1>5. ASSUME feed.source = "forwards"
      PROVE  Continues'
  <2>1. DOMAIN fetch'.rows = fetch'.since .. fetch'.cursor - 1
    BY <1>2, <1>4, <1>5
  <2>2. CASE Stored = {}
    BY <1>2, <1>4, <1>5, <2>1, <2>2, SinceType DEF Continues
  <2>3. CASE Stored # {}
    <3>1. PICK a \in Nat, z \in Nat :
            /\ 1 <= a /\ a <= z /\ Stored = a .. z /\ LastStored = z
      BY <2>3, FileEnds
    <3>2. Since = z + 1
      BY <1>5, <2>3, <3>1, SinceType
    <3>3. (\A b \in Stored : b < Since) /\ Since - 1 \in Stored
      BY <3>1, <3>2
    <3>. QED  BY <1>2, <1>4, <1>5, <2>1, <2>3, <3>3 DEF Continues
  <2>. QED  BY <2>2, <2>3
<1>6. ASSUME feed.source = "okx"
      PROVE  Backwards'
  BY <1>4, <1>6, SinceType DEF Backwards
<1>. QED  BY <1>3, <1>4, <1>5, <1>6 DEF FetchInv
(* A page forwards starts at the cursor, one backwards ends before it.      *)
LEMMA ForwardPageKeeps == CandleInv /\ ForwardPage => FetchInv'
<1>. SUFFICES ASSUME CandleInv, ForwardPage
              PROVE  FetchInv'
  OBVIOUS
<1>. DEFINE page == Oldest({b \in Served : b >= fetch.cursor})
            more == Cardinality(page) = PageLimit
<1>1. /\ fetch' = [fetch EXCEPT
           !.rows = MergeOhlcv(@, Reading(page)),
           !.cursor = IF page = {} THEN @ ELSE Max(page) + 1,
           !.batches = @ + 1,
           !.phase = IF more THEN "paging" ELSE "fetched"]
      /\ UNCHANGED <<feed, now, file>>
      /\ feed.source = "forwards" /\ fetch # Idle
  BY DEF ForwardPage, Paging
<1>2. FetchTypes /\ Continues
  BY <1>1 DEF CandleInv, FetchInv
<1>3. /\ fetch = [f \in FetchFields |-> fetch[f]]
      /\ fetch.since \in Nat \ {0} /\ fetch.cursor \in Nat \ {0} /\ fetch.batches \in Nat
  BY <1>2 DEF FetchTypes
<1>4. /\ Top \in Nat /\ Served = 1 .. Top
  BY ServedTop
<1>5. {b \in Served : b >= fetch.cursor} = fetch.cursor .. Top
  BY <1>3, <1>4
<1>6. \/ page = {} /\ fetch.cursor > Top
      \/ \E m \in Nat : /\ fetch.cursor <= m /\ m <= Top
                        /\ page = fetch.cursor .. m /\ Max(page) = m
  <2>1. CASE fetch.cursor > Top
    <3>1. fetch.cursor .. Top = {}
      BY <1>3, <1>4, <2>1
    <3>. QED  BY <1>5, <2>1, <3>1 DEF Oldest
  <2>2. CASE fetch.cursor <= Top
    <3>1. PICK m \in Nat : /\ fetch.cursor <= m /\ m <= Top
                           /\ Oldest(fetch.cursor .. Top) = fetch.cursor .. m
      BY <1>3, <1>4, <2>2, OldestPage
    <3>2. Max(fetch.cursor .. m) = m
      BY <1>3, <3>1, IntervalEnds
    <3>3. page = fetch.cursor .. m
      BY <1>5, <3>1
    <3>. HIDE DEF page, more
    <3>. QED  BY <3>1, <3>2, <3>3
  <2>3. fetch.cursor > Top \/ fetch.cursor <= Top
    BY <1>3, <1>4
  <2>. HIDE DEF page, more
  <2>. QED  BY <2>1, <2>2, <2>3, Zenon
<1>. HIDE DEF page, more
<1>0. fetch' = [f \in FetchFields |-> fetch'[f]]
  BY <1>1, <1>3 DEF FetchFields
<1>7. /\ fetch'.since = fetch.since
      /\ fetch'.rows = MergeOhlcv(fetch.rows, Reading(page))
      /\ fetch'.cursor = IF page = {} THEN fetch.cursor ELSE Max(page) + 1
      /\ fetch'.batches = fetch.batches + 1
      /\ fetch'.phase = IF more THEN "paging" ELSE "fetched"
  BY <1>1, <1>3 DEF FetchFields
<1>8. /\ DOMAIN fetch'.rows = DOMAIN fetch.rows \cup page
      /\ \A b \in page : fetch'.rows[b] = "open" => ~(b < now)
      /\ \A b \in DOMAIN fetch.rows \ page : fetch'.rows[b] = fetch.rows[b]
  BY <1>7, RowsRead, Zenon
<1>9. /\ fetch'.cursor \in Nat \ {0} /\ fetch.since <= fetch'.cursor
      /\ DOMAIN fetch'.rows = fetch.since .. fetch'.cursor - 1
      /\ DOMAIN fetch'.rows \subseteq Served
  <2>1. /\ fetch.since <= fetch.cursor
        /\ DOMAIN fetch.rows = fetch.since .. fetch.cursor - 1
        /\ DOMAIN fetch.rows \subseteq Served
    BY <1>2 DEF Continues
  <2>2. CASE page = {}
    BY <1>3, <1>7, <1>8, <2>1, <2>2
  <2>3. CASE page # {}
    <3>1. PICK m \in Nat : /\ fetch.cursor <= m /\ m <= Top
                           /\ page = fetch.cursor .. m /\ Max(page) = m
      BY <1>6, <2>3
    <3>2. fetch'.cursor = m + 1
      BY <1>7, <2>3, <3>1
    <3>3. DOMAIN fetch'.rows = (fetch.since .. fetch.cursor - 1) \cup (fetch.cursor .. m)
      BY <1>8, <2>1, <3>1
    <3>4. (fetch.since .. fetch.cursor - 1) \cup (fetch.cursor .. m) = fetch.since .. m
      BY <1>3, <2>1, <3>1
    <3>5. page \subseteq Served
      BY <1>3, <1>4, <3>1
    <3>. QED  BY <1>3, <1>8, <2>1, <3>1, <3>2, <3>3, <3>4, <3>5
  <2>. QED  BY <2>2, <2>3
<1>10. FetchTypes'
  BY <1>0, <1>3, <1>7, <1>9 DEF FetchTypes
<1>11. Continues'
  <2>1. Stored' = Stored /\ Served' = Served
    BY <1>1 DEF Stored, Served
  <2>. QED  BY <1>2, <1>7, <1>9, <2>1 DEF Continues
<1>12. feed' = feed /\ feed.source # "okx"
  BY <1>1
<1>. QED  BY <1>10, <1>11, <1>12 DEF FetchInv

LEMMA BackwardPageKeeps == CandleInv /\ BackwardPage => FetchInv'
<1>. SUFFICES ASSUME CandleInv, BackwardPage
              PROVE  FetchInv'
  OBVIOUS
<1>. DEFINE page == Newest({b \in Served : b < fetch.cursor})
            more == Cardinality(page) = PageLimit /\ Min(page) > fetch.since
<1>1. /\ fetch' = [fetch EXCEPT
           !.rows = MergeOhlcv(@, Reading(page)),
           !.cursor = IF page = {} THEN @ ELSE Min(page),
           !.batches = @ + 1,
           !.phase = IF more THEN "paging" ELSE "fetched"]
      /\ UNCHANGED <<feed, now, file>>
      /\ feed.source = "okx" /\ fetch # Idle /\ fetch.phase = "paging"
  BY DEF BackwardPage, Paging
<1>2. FetchTypes /\ Backwards
  BY <1>1 DEF CandleInv, FetchInv
<1>3. /\ fetch = [f \in FetchFields |-> fetch[f]]
      /\ fetch.since \in Nat \ {0} /\ fetch.cursor \in Nat \ {0} /\ fetch.batches \in Nat
  BY <1>2 DEF FetchTypes
<1>4. /\ Top \in Nat /\ Top <= LastBar /\ Top <= now /\ now \in Nat
      /\ Served = 1 .. Top /\ (Top = now => feed.endpoint # "history-candles")
      /\ LastBar \in Nat /\ PageLimit \in Nat \ {0}
      /\ feed.endpoint # "history-candles" => feed.endpoint = "candles"
  BY <1>1, ServedTop, PageType DEF CandleInv, Feeds
<1>. DEFINE h == IF Top < fetch.cursor THEN Top ELSE fetch.cursor - 1
<1>5. {b \in Served : b < fetch.cursor} = 1 .. h /\ h \in Nat
  BY <1>3, <1>4
<1>. HIDE DEF h
<1>6. \/ h = 0 /\ page = {} /\ ~more
      \/ \E m \in Nat : /\ 1 <= m /\ m <= h
                        /\ page = m .. h /\ Min(page) = m
                        /\ more => h - m + 1 = PageLimit /\ m > fetch.since
                        /\ ~more => m = 1 \/ m <= fetch.since
  <2>1. CASE h = 0
    <3>1. 1 .. h = {}
      BY <2>1
    <3>2. page = {}
      BY <1>5, <3>1 DEF Newest
    <3>3. Cardinality(page) = 0
      BY <3>2, FS_EmptySet
    <3>. QED  BY <1>4, <2>1, <3>2, <3>3
  <2>2. CASE h # 0
    <3>1. PICK m \in Nat : /\ 1 <= m /\ m <= h
                           /\ Newest(1 .. h) = m .. h
                           /\ Cardinality(m .. h) = h - m + 1
                           /\ h - m + 1 # PageLimit => m = 1
      BY <1>5, <2>2, NewestPage
    <3>2. Min(m .. h) = m
      BY <1>5, <3>1, IntervalEnds
    <3>3. page = m .. h
      BY <1>5, <3>1
    <3>4. more <=> h - m + 1 = PageLimit /\ m > fetch.since
      BY <3>1, <3>2, <3>3
    <3>5. ~(m > fetch.since) => m <= fetch.since
      BY <1>3, <3>1
    <3>. QED  BY <3>1, <3>2, <3>3, <3>4, <3>5
  <2>. QED  BY <2>1, <2>2
<1>. HIDE DEF page, more
<1>0. fetch' = [f \in FetchFields |-> fetch'[f]]
  BY <1>1, <1>3 DEF FetchFields
<1>7. /\ fetch'.since = fetch.since
      /\ fetch'.rows = MergeOhlcv(fetch.rows, Reading(page))
      /\ fetch'.cursor = IF page = {} THEN fetch.cursor ELSE Min(page)
      /\ fetch'.batches = fetch.batches + 1
      /\ fetch'.phase = IF more THEN "paging" ELSE "fetched"
  BY <1>1, <1>3 DEF FetchFields
<1>8. /\ DOMAIN fetch'.rows = DOMAIN fetch.rows \cup page
      /\ \A b \in page : fetch'.rows[b] = "open" => ~(b < now)
      /\ \A b \in DOMAIN fetch.rows \ page : fetch'.rows[b] = fetch.rows[b]
  BY <1>7, RowsRead, Zenon
<1>9. /\ Stored' = Stored /\ feed' = feed /\ Top' = Top
      /\ fetch'.batches \in Nat
  <2>1. Stored' = Stored /\ feed' = feed /\ Top' = Top
    BY <1>1 DEF Stored, Top
  <2>2. fetch'.batches \in Nat
    BY <1>3, <1>7
  <2>. QED  BY <2>1, <2>2
<1>10. \A b \in Stored : b \in Nat /\ b <= Top /\ b >= 1
  BY <1>4 DEF CandleInv, FileWhole
<1>11. /\ Stored # {} => \E b \in Stored : fetch.since <= b
       /\ Stored = {} => fetch.since = 1
       /\ \/ /\ fetch.batches = 0
             /\ DOMAIN fetch.rows = {} /\ fetch.cursor = LastBar + 1
          \/ \E t \in Nat : ReachesTo(t)
  BY <1>1, <1>2 DEF Backwards
<1>12. CASE page = {}
  <2>1. h = 0 /\ ~more
    BY <1>5, <1>6, <1>12
  <2>2. fetch'.phase = "fetched" /\ fetch'.cursor = fetch.cursor
    BY <1>7, <1>12, <2>1
  <2>3. CASE fetch.batches = 0 /\ DOMAIN fetch.rows = {} /\ fetch.cursor = LastBar + 1
    <3>1. Top = 0
      BY <1>4, <2>1, <2>3 DEF h
    <3>2. Stored = {}
      BY <1>4, <1>10, <3>1
    <3>3. DOMAIN fetch'.rows = {}
      BY <1>8, <1>12, <2>3
    <3>4. Backwards'
      BY <1>7, <1>9, <1>11, <2>2, <3>2, <3>3 DEF Backwards
    <3>5. FetchTypes'
      BY <1>0, <1>3, <1>7, <1>9, <2>2 DEF FetchTypes
    <3>. QED  BY <1>1, <1>9, <3>4, <3>5 DEF FetchInv
  <2>4. ASSUME NEW t \in Nat, ReachesTo(t)
        PROVE  FALSE
    <3>1. fetch.cursor > fetch.since /\ fetch.cursor <= t /\ t <= Top
      BY <1>1, <2>4 DEF ReachesTo
    <3>. QED  BY <1>3, <1>4, <2>1, <3>1 DEF h
  <2>. QED  BY <1>11, <2>3, <2>4
<1>13. CASE page # {}
  <2>1. PICK m \in Nat : /\ 1 <= m /\ m <= h
                         /\ page = m .. h /\ Min(page) = m
                         /\ more => h - m + 1 = PageLimit /\ m > fetch.since
                         /\ ~more => m = 1 \/ m <= fetch.since
    BY <1>6, <1>13
  <2>2. /\ fetch'.cursor = m
        /\ fetch'.phase = "paging" => h + 1 = m + PageLimit /\ m > fetch.since
        /\ fetch'.phase = "fetched" => m <= fetch.since
        /\ fetch'.phase \in {"paging", "fetched"}
    BY <1>3, <1>4, <1>5, <1>7, <1>13, <2>1
  <2>3. FetchTypes'
    BY <1>0, <1>3, <1>7, <1>9, <2>1, <2>2 DEF FetchTypes
  <2>5. \A b \in m .. h : fetch'.rows[b] = "open" => b >= now
    BY <1>4, <1>5, <1>8, <2>1
  <2>6. \E t \in Nat : ReachesTo(t)'
    <3>1. CASE fetch.batches = 0 /\ DOMAIN fetch.rows = {} /\ fetch.cursor = LastBar + 1
      <4>1. h = Top
        BY <1>4, <3>1 DEF h
      <4>2. DOMAIN fetch'.rows = m .. h
        BY <1>8, <2>1, <3>1
      <4>3. \A b \in m .. h : fetch'.rows[b] = "open" => b = h /\ feed.endpoint = "candles"
        BY <1>4, <2>1, <2>5, <4>1
      <4>4. fetch'.batches * PageLimit = PageLimit
        BY <1>4, <1>7, <3>1
      <4>5. PICK t \in Nat : t = h
        BY <1>5
      <4>6. ReachesTo(t)'
        <5>1. fetch'.cursor <= t /\ t <= Top' /\ DOMAIN fetch'.rows = fetch'.cursor .. t
          BY <1>4, <1>9, <2>1, <2>2, <4>1, <4>2, <4>5
        <5>2. \A b \in Stored' : b <= t
          BY <1>9, <1>10, <4>1, <4>5
        <5>3. \A b \in fetch'.cursor .. t :
                fetch'.rows[b] = "open" => b = t /\ feed'.endpoint = "candles"
          BY <1>9, <2>2, <4>3, <4>5
        <5>4. fetch'.phase = "paging" =>
                /\ fetch'.cursor > fetch'.since
                /\ t + 1 = fetch'.cursor + fetch'.batches * PageLimit
          BY <1>7, <2>2, <4>4, <4>5
        <5>5. fetch'.phase = "fetched" => fetch'.cursor <= fetch'.since
          BY <1>7, <2>2
        <5>. QED  BY <5>1, <5>2, <5>3, <5>4, <5>5 DEF ReachesTo
      <4>. QED  BY <4>6
    <3>2. ASSUME NEW t \in Nat, ReachesTo(t)
          PROVE  ReachesTo(t)'
      <4>1. /\ fetch.cursor <= t /\ t <= Top
            /\ DOMAIN fetch.rows = fetch.cursor .. t
            /\ \A b \in Stored : b <= t
            /\ \A b \in fetch.cursor .. t :
                 fetch.rows[b] = "open" => b = t /\ feed.endpoint = "candles"
            /\ fetch.cursor > fetch.since
            /\ t + 1 = fetch.cursor + fetch.batches * PageLimit
        BY <1>1, <3>2 DEF ReachesTo
      <4>2. h = fetch.cursor - 1
        BY <1>3, <1>4, <4>1 DEF h
      <4>3. DOMAIN fetch'.rows = m .. t
        <5>1. (fetch.cursor .. t) \cup (m .. fetch.cursor - 1) = m .. t
          BY <1>3, <2>1, <4>1, <4>2
        <5>. QED  BY <1>8, <2>1, <4>1, <4>2, <5>1
      <4>4. ASSUME NEW b \in m .. t, fetch'.rows[b] = "open"
            PROVE  b = t /\ feed.endpoint = "candles"
        <5>1. CASE b \in m .. h
          <6>1. b >= now
            BY <2>5, <4>4, <5>1
          <6>2. b <= fetch.cursor - 1 /\ b \in Nat
            BY <1>3, <2>1, <4>2, <5>1
          <6>. QED  BY <1>3, <1>4, <4>1, <6>1, <6>2
        <5>2. CASE b \notin m .. h
          <6>1. b \in fetch.cursor .. t
            BY <1>3, <2>1, <4>1, <4>2, <5>2
          <6>2. b \in DOMAIN fetch.rows \ page
            BY <2>1, <4>1, <5>2, <6>1
          <6>3. fetch'.rows[b] = fetch.rows[b]
            BY <1>8, <6>2
          <6>. QED  BY <4>1, <4>4, <6>1, <6>3
        <5>. QED  BY <5>1, <5>2
      <4>5. fetch'.batches * PageLimit = fetch.batches * PageLimit + PageLimit
        BY <1>3, <1>4, <1>7
      <4>6. fetch'.phase = "paging" => t + 1 = m + fetch'.batches * PageLimit
        <5>1. fetch.batches * PageLimit \in Nat
          BY <1>3, <1>4
        <5>2. ASSUME fetch'.phase = "paging"
              PROVE  fetch.cursor = m + PageLimit
          BY <1>3, <1>4, <2>1, <2>2, <4>2, <5>2
        <5>. QED  BY <1>3, <1>4, <4>1, <4>5, <5>1, <5>2
      <4>7. m <= t
        BY <1>3, <2>1, <4>1, <4>2
      <4>. QED  BY <1>7, <1>9, <2>2, <4>1, <4>3, <4>4, <4>6, <4>7 DEF ReachesTo
    <3>. QED  BY <1>11, <3>1, <3>2
  <2>7. Backwards'
    BY <1>7, <1>9, <1>11, <2>6 DEF Backwards
  <2>. QED  BY <1>1, <1>9, <2>3, <2>7 DEF FetchInv
<1>. QED  BY <1>12, <1>13

(* SaveRows: the rows kept continue the file forwards, or reach from a bar  *)
(* of the file, or from the start, to a bar no older than the file.         *)
LEMMA SaveRowsKeeps == CandleInv /\ SaveRows => FileWhole'
<1>. SUFFICES ASSUME CandleInv, SaveRows
              PROVE  FileWhole'
  OBVIOUS
<1>. DEFINE kept == {c \in DOMAIN fetch.rows : c >= fetch.since}
            new == [b \in kept |-> fetch.rows[b]]
<1>1. /\ file' = MergeOhlcv(file, new)
      /\ UNCHANGED <<feed, now, audit>>
      /\ fetch # Idle /\ (fetch.phase = "fetched" \/ fetch.batches = MaxBatches)
  BY DEF SaveRows
<1>2. /\ FetchTypes /\ audit # "fail"
      /\ feed.source = "forwards" => Continues
      /\ feed.source = "okx" => Backwards
      /\ feed.source = "okx" =>
           \A b \in Stored : file[b] = "open" =>
             feed.endpoint = "candles" /\ \A c \in Stored : c <= b
  BY <1>1 DEF CandleInv, FetchInv, FileWhole
<1>3. /\ fetch.since \in Nat \ {0} /\ fetch.cursor \in Nat \ {0} /\ fetch.batches \in Nat
  BY <1>2 DEF FetchTypes
<1>4. /\ Top \in Nat /\ Top <= LastBar /\ Served = 1 .. Top
      /\ LastBar \in Nat /\ PageLimit \in Nat /\ MaxBatches \in Nat \ {0}
      /\ MaxBatches * PageLimit >= LastBar
  BY ServedTop, PageType
<1>5. /\ Stored' = Stored \cup kept
      /\ \A b \in kept : file'[b] = fetch.rows[b]
      /\ \A b \in Stored \ kept : file'[b] = file[b]
      /\ feed' = feed /\ Top' = Top /\ audit' = audit
  <2>1. DOMAIN new = kept /\ \A b \in kept : new[b] = fetch.rows[b]
    OBVIOUS
  <2>2. /\ DOMAIN MergeOhlcv(file, new) = DOMAIN file \cup DOMAIN new
        /\ \A b \in DOMAIN new : MergeOhlcv(file, new)[b] = new[b]
        /\ \A b \in DOMAIN file \ DOMAIN new : MergeOhlcv(file, new)[b] = file[b]
    BY Merged, Zenon
  <2>. HIDE DEF kept, new
  <2>3. /\ Stored' = Stored \cup kept
        /\ \A b \in kept : file'[b] = fetch.rows[b]
        /\ \A b \in Stored \ kept : file'[b] = file[b]
    BY <1>1, <2>1, <2>2 DEF Stored
  <2>4. feed' = feed /\ Top' = Top /\ audit' = audit
    BY <1>1 DEF Top
  <2>. QED  BY <2>3, <2>4
<1>6. PICK a \in Nat, z \in Nat : a >= 1 /\ z <= Top /\ Stored = a .. z
  BY DEF CandleInv, FileWhole
<1>. HIDE DEF kept, new
<1>7. CASE feed.source = "forwards"
  <2>1. /\ \A b \in Stored : b < fetch.since
        /\ Stored # {} => fetch.since - 1 \in Stored
        /\ fetch.since <= fetch.cursor
        /\ DOMAIN fetch.rows = fetch.since .. fetch.cursor - 1
        /\ DOMAIN fetch.rows \subseteq Served
        /\ Stored = {} => fetch.since = 1
    BY <1>2, <1>7 DEF Continues
  <2>2. kept = fetch.since .. fetch.cursor - 1
    BY <1>3, <2>1 DEF kept
  <2>3. \E x, y \in Nat : x >= 1 /\ y <= Top /\ Stored \cup kept = x .. y
    <3>1. CASE kept = {}
      BY <1>6, <3>1
    <3>2. CASE kept # {} /\ Stored = {}
      <4>1. fetch.cursor - 1 \in Nat /\ fetch.cursor - 1 \in kept
        BY <1>3, <2>1, <2>2, <3>2
      <4>2. fetch.cursor - 1 <= Top
        BY <1>4, <2>1, <2>2, <4>1
      <4>. QED  BY <1>3, <2>2, <3>2, <4>1, <4>2
    <3>3. CASE kept # {} /\ Stored # {}
      <4>1. fetch.cursor - 1 \in Nat /\ fetch.cursor - 1 \in kept
        BY <1>3, <2>1, <2>2, <3>3
      <4>2. fetch.cursor - 1 <= Top
        BY <1>4, <2>1, <2>2, <4>1
      <4>3. a <= z /\ fetch.since = z + 1
        BY <1>3, <1>6, <2>1, <3>3
      <4>4. (a .. z) \cup (z + 1 .. fetch.cursor - 1) = a .. fetch.cursor - 1
        BY <1>3, <2>1, <4>3
      <4>. QED  BY <1>6, <2>2, <4>1, <4>2, <4>3, <4>4
    <3>. QED  BY <3>1, <3>2, <3>3
  <2>. QED  BY <1>2, <1>5, <1>7, <2>3 DEF FileWhole
<1>8. CASE feed.source = "okx"
  <2>1. /\ Stored # {} => \E b \in Stored : fetch.since <= b
        /\ Stored = {} => fetch.since = 1
    BY <1>2, <1>8 DEF Backwards
  <2>2. CASE DOMAIN fetch.rows = {} /\ Stored = {}
    <3>1. kept = {}
      BY <2>2 DEF kept
    <3>. QED  BY <1>2, <1>5, <1>6, <2>2, <3>1 DEF FileWhole
  <2>3. ASSUME NEW t \in Nat, ReachesTo(t)
        PROVE  FileWhole'
    <3>1. /\ fetch.cursor <= t /\ t <= Top
          /\ DOMAIN fetch.rows = fetch.cursor .. t
          /\ \A b \in Stored : b <= t
          /\ \A b \in fetch.cursor .. t :
               fetch.rows[b] = "open" => b = t /\ feed.endpoint = "candles"
      BY <2>3 DEF ReachesTo
    <3>2. fetch.cursor <= fetch.since
      <4>1. CASE fetch.phase = "fetched"
        BY <2>3, <4>1 DEF ReachesTo
      <4>2. CASE fetch.phase = "paging"
        <5>1. t + 1 = fetch.cursor + MaxBatches * PageLimit /\ fetch.cursor > fetch.since
          BY <1>1, <2>3, <4>2 DEF ReachesTo
        <5>2. MaxBatches * PageLimit \in Nat
          BY <1>4
        <5>. QED  BY <1>3, <1>4, <3>1, <5>1, <5>2
      <4>. QED  BY <1>2, <4>1, <4>2 DEF FetchTypes
    <3>3. kept = fetch.since .. t
      BY <1>3, <3>1, <3>2 DEF kept
    <3>4. \E x \in Nat : x >= 1 /\ Stored \cup kept = x .. t
      <4>1. CASE Stored = {}
        BY <1>3, <3>3, <4>1
      <4>2. CASE Stored # {}
        <5>1. fetch.since <= z /\ a <= z /\ z <= t
          BY <1>3, <1>6, <2>1, <3>1, <4>2
        <5>2. CASE a <= fetch.since
          <6>1. (a .. z) \cup (fetch.since .. t) = a .. t
            BY <1>3, <5>1, <5>2
          <6>. QED  BY <1>6, <3>3, <6>1
        <5>3. CASE a > fetch.since
          <6>1. (a .. z) \cup (fetch.since .. t) = fetch.since .. t
            BY <1>3, <1>6, <5>1, <5>3
          <6>. QED  BY <1>3, <1>6, <3>3, <6>1
        <5>. QED  BY <1>3, <5>2, <5>3
      <4>. QED  BY <4>1, <4>2
    <3>5. ASSUME NEW b \in Stored \cup kept, file'[b] = "open"
          PROVE  feed.endpoint = "candles" /\ \A c \in Stored \cup kept : c <= b
      <4>1. CASE b \in kept
        <5>1. fetch.rows[b] = "open" /\ b \in fetch.cursor .. t
          BY <1>3, <1>5, <3>2, <3>3, <3>5, <4>1
        <5>2. b = t /\ feed.endpoint = "candles"
          BY <3>1, <5>1
        <5>. QED  BY <1>3, <3>1, <3>3, <5>2
      <4>2. CASE b \notin kept
        <5>1. b \in Stored /\ file[b] = "open"
          BY <1>5, <3>5, <4>2
        <5>2. \A c \in Stored : c <= b
          BY <1>2, <1>8, <5>1
        <5>3. fetch.since <= b
          <6>1. PICK c \in Stored : fetch.since <= c
            BY <2>1, <5>1
          <6>2. c <= b /\ c \in Nat /\ b \in Nat
            BY <1>6, <5>1, <5>2, <6>1
          <6>. QED  BY <1>3, <6>1, <6>2
        <5>4. b \in kept
          BY <1>3, <1>6, <3>1, <3>3, <5>1, <5>3
        <5>. QED  BY <4>2, <5>4
      <4>. QED  BY <4>1, <4>2
    <3>6. \E x, y \in Nat : x >= 1 /\ y <= Top /\ Stored \cup kept = x .. y
      BY <3>1, <3>4
    <3>. QED  BY <1>2, <1>5, <3>5, <3>6 DEF FileWhole
  <2>4. fetch.batches # 0 \/ fetch.phase # "paging"
    BY <1>1, <1>4
  <2>. QED  BY <1>2, <1>8, <2>2, <2>3, <2>4 DEF Backwards
<1>. QED  BY <1>7, <1>8 DEF CandleInv, Feeds
(* BarCloses: what holds with one bar fewer served holds with one more.     *)
LEMMA BarClosesKeeps == CandleInv /\ BarCloses => CandleInv'
<1>. SUFFICES ASSUME CandleInv, BarCloses
              PROVE  CandleInv'
  OBVIOUS
<1>1. /\ now' = now + 1 /\ now < LastBar /\ UNCHANGED <<feed, file, fetch, audit>>
      /\ Stored' = Stored
  BY DEF BarCloses, Stored
<1>2. /\ Top \in Nat /\ Served = 1 .. Top /\ now \in Nat
  BY ServedTop
<1>3. Top' = Top + 1
  BY <1>1, <1>2 DEF Top
<1>4. Served \subseteq Served'
  BY <1>1, <1>2 DEF Served, CandleInv
<1>5. feed' \in Feeds /\ now' \in 1 .. LastBar
  BY <1>1, PageType DEF CandleInv
<1>6. FileWhole'
  <2>1. PICK a \in Nat, z \in Nat : a >= 1 /\ z <= Top /\ Stored = a .. z
    BY DEF CandleInv, FileWhole
  <2>2. z <= Top + 1
    BY <1>2, <2>1
  <2>. QED  BY <1>1, <1>3, <2>1, <2>2 DEF CandleInv, FileWhole
<1>7. FetchInv'
  <2>1. CASE fetch = Idle
    BY <1>1, <2>1 DEF FetchInv
  <2>2. CASE FetchTypes /\ feed.source = "forwards" /\ Continues
    <3>1. FetchTypes'
      BY <1>1, <2>2 DEF FetchTypes
    <3>2. Continues'
      BY <1>1, <1>4, <2>2 DEF Continues
    <3>. QED  BY <1>1, <2>2, <3>1, <3>2 DEF FetchInv
  <2>3. CASE FetchTypes /\ feed.source = "okx" /\ Backwards
    <3>1. FetchTypes'
      BY <1>1, <2>3 DEF FetchTypes
    <3>2. ASSUME NEW t \in Nat, ReachesTo(t)
          PROVE  ReachesTo(t)'
      <4>1. t <= Top + 1
        BY <1>2, <3>2 DEF ReachesTo
      <4>. QED  BY <1>1, <1>3, <3>2, <4>1 DEF ReachesTo
    <3>3. Backwards'
      BY <1>1, <2>3, <3>2 DEF Backwards
    <3>. QED  BY <1>1, <2>3, <3>1, <3>3 DEF FetchInv
  <2>. QED  BY <2>1, <2>2, <2>3 DEF CandleInv, FetchInv, Feeds
<1>. QED  BY <1>5, <1>6, <1>7 DEF CandleInv

(* An audit of a file without holes passes.                                 *)
LEMMA AuditPasses ==
  ASSUME CandleInv, Stored # {}
  PROVE  QualityStatus = "pass"
<1>1. PICK a \in Nat, z \in Nat :
        Stored = a .. z /\ FirstStored = a /\ LastStored = z
  BY FileEnds
<1>2. MissingCandles = {}
  BY <1>1 DEF MissingCandles
<1>. QED  BY <1>2 DEF QualityStatus

LEMMA CandleInvStep == CandleInv /\ [CandleNext]_candleVars => CandleInv'
<1>. SUFFICES ASSUME CandleInv, [CandleNext]_candleVars
              PROVE  CandleInv'
  OBVIOUS
<1>1. ASSUME UNCHANGED <<feed, now, file>>, audit' # "fail", FetchInv'
      PROVE  CandleInv'
  <2>1. Stored' = Stored /\ Top' = Top
    BY <1>1 DEF Stored, Top
  <2>2. FileWhole'
    BY <1>1, <2>1 DEF CandleInv, FileWhole
  <2>. QED  BY <1>1, <2>2 DEF CandleInv
<1>2. audit # "fail"
  BY DEF CandleInv, FileWhole
<1>3. CASE BeginUpdate
  BY <1>1, <1>2, <1>3, BeginUpdateKeeps DEF BeginUpdate
<1>4. CASE ForwardPage
  BY <1>1, <1>2, <1>4, ForwardPageKeeps DEF ForwardPage
<1>5. CASE BackwardPage
  BY <1>1, <1>2, <1>5, BackwardPageKeeps DEF BackwardPage
<1>6. CASE RequestFails
  BY <1>1, <1>2, <1>6 DEF RequestFails, FetchInv
<1>7. CASE SaveRows
  <2>1. fetch' = Idle /\ feed' = feed /\ now' = now
    BY <1>7 DEF SaveRows
  <2>2. FetchInv'
    BY <2>1 DEF FetchInv
  <2>. QED  BY <1>7, <2>1, <2>2, SaveRowsKeeps DEF CandleInv
<1>8. CASE AuditFile
  <2>1. audit' # "fail" /\ UNCHANGED <<feed, now, file, fetch>>
    BY <1>8, AuditPasses DEF AuditFile
  <2>2. FetchInv'
    <3>1. Stored' = Stored /\ Top' = Top /\ Served' = Served
      BY <2>1 DEF Stored, Top, Served
    <3>2. fetch' = Idle
      BY <1>8 DEF AuditFile
    <3>. QED  BY <3>2 DEF FetchInv
  <2>. QED  BY <1>1, <2>1, <2>2
<1>9. CASE BarCloses
  BY <1>9, BarClosesKeeps
<1>10. CASE UNCHANGED candleVars
  <2>1. UNCHANGED <<feed, now, file, fetch, audit>>
    BY <1>10 DEF candleVars
  <2>2. Stored' = Stored /\ Top' = Top /\ Served' = Served
    BY <2>1 DEF Stored, Top, Served
  <2>3. FetchInv'
    BY <2>1, <2>2 DEF CandleInv, FetchInv, FetchTypes, Continues, Backwards, ReachesTo
  <2>. QED  BY <1>1, <1>2, <2>1, <2>3
<1>. QED  BY <1>3, <1>4, <1>5, <1>6, <1>7, <1>8, <1>9, <1>10 DEF CandleNext

LEMMA FileIsSound == CandleInv => CandleFileSound
<1>. SUFFICES ASSUME CandleInv
              PROVE  CandleFileSound
  OBVIOUS
<1>1. Stored # {} => Stored = FirstStored .. LastStored
  BY FileEnds
<1>2. ASSUME feed.source = "okx", NEW b \in Stored, file[b] = "open"
      PROVE  b = LastStored /\ feed.endpoint = "candles"
  <2>1. feed.endpoint = "candles" /\ \A c \in Stored : c <= b
    BY <1>2 DEF CandleInv, FileWhole
  <2>2. PICK a \in Nat, z \in Nat : a <= z /\ Stored = a .. z /\ LastStored = z
    BY <1>2, FileEnds
  <2>3. z \in Stored /\ b <= z /\ b \in Nat
    BY <1>2, <2>2
  <2>4. z <= b
    BY <2>1, <2>3
  <2>. QED  BY <2>1, <2>2, <2>3, <2>4
<1>3. audit # "fail"
  BY DEF CandleInv, FileWhole
<1>. QED  BY <1>1, <1>2, <1>3 DEF CandleFileSound

-----------------------------------------------------------------------------
(* The pipeline.  Done are the steps behind the one that runs now.          *)
Done == {StepsOf(job.download)[k] : k \in 1 .. job.at - 1}
BeforeAdmission == Sources \ {"parameter_search", "ensemble"}

Missing == Report("missing", "none", "none", "none", "none", "none")
ReportsOf(source) ==
  {Missing, UsualReport(source)} \cup UnusualReports(source)
  \cup {r \in {TornReport} : source = "wf_calibration"}

EvidenceTypes ==
  /\ runs \in Nat
  /\ files = [f \in {"candles", "dataset", "calibrated"} |-> files[f]]
  /\ files.dataset \in Nat
  /\ evidence = [s \in Sources |-> evidence[s]]
  /\ \A s \in Sources : /\ evidence[s].run \in Nat /\ evidence[s].run <= runs
                        /\ evidence[s].report \in ReportsOf(s)

JobFields == {"phase", "download", "at", "continueOnError", "failed"}
JobTypes ==
  /\ job = [f \in JobFields |-> job[f]]
  /\ job.download \in BOOLEAN /\ job.at \in Nat \ {0}

(* The evidence of a step behind is of this run and whole, and of this      *)
(* run's data, unless a script failed; that of the two steps behind the     *)
(* admission is of an earlier run until they are reached.                   *)
FreshDataset ==
  "build_features" \in Done =>
    files.dataset = runs \/ "build_features" \in job.failed

Fresh(s) ==
  /\ evidence[s].run = runs
  /\ evidence[s].report # TornReport
  /\ evidence[s].data = runs \/ "build_features" \in job.failed

FreshBehind ==
  \A s \in Sources : s \in Done =>
    Fresh(s) \/ s \in job.failed \/ s = "sequence_walk_forward"

StaleAhead ==
  \A s \in {"parameter_search", "ensemble"} : s \notin Done => evidence[s].run < runs

PipelineInv ==
  /\ EvidenceTypes
  /\ job = NoJob \/ (JobTypes /\ FreshDataset /\ FreshBehind /\ StaleAhead)
  /\ LeaderboardEvidence

-----------------------------------------------------------------------------
(* Where the steps of interest stand in the list.                           *)
LEMMA SafeOrder ==
  ASSUME NEW i \in 1 .. 30
  PROVE  /\ SafeSteps[i] \in Sources => i > 3
         /\ SafeSteps[i] \in {"admission", "v29_report"} => i \in 18 .. 19
         /\ SafeSteps[i] \in {"parameter_search", "ensemble"} => i > 19
BY DEF SafeSteps, Sources, Models, Strategies, FixedSplit, Walks

LEMMA SafePlaces ==
  /\ Len(SafeSteps) = 30
  /\ SafeSteps[3] = "build_features"
  /\ SafeSteps[8] = "calibrated_ml" /\ SafeSteps[9] = "wf_calibration"
  /\ SafeSteps[11] = "model_library" /\ SafeSteps[12] = "wf_library"
  /\ SafeSteps[15] = "sequence_models" /\ SafeSteps[16] = "sequence_walk_forward"
BY DEF SafeSteps

LEMMA PoolEvidence ==
  ASSUME NEW s \in Sources, NEW r \in ReportsOf(s), r.status # "missing",
         Decision(s, r) = "paper_candidate_pool"
  PROVE  /\ s \notin FixedSplit \cup SequenceModels
         /\ r.trades = "many" \/ (s = "wf_calibration" /\ r = TornReport)
<1>1. ~Blocked(s, r) /\ s \notin FixedSplit \cup SequenceModels
  BY DEF Decision
<1>2. /\ r.status # "failed" /\ r.trades # "few" /\ r.risk # "weak"
      /\ ~(r.performance = "none" /\ r.quality = "none")
  BY <1>1 DEF Blocked, Accepted, Insufficient
<1>3. s \in {"wf_library", "wf_calibration", "parameter_search", "ensemble", "calibrated_ml"}
  BY <1>1 DEF Sources, Models, Strategies, FixedSplit, Walks, SequenceModels
<1>. DEFINE Goal == r.trades = "many" \/ (s = "wf_calibration" /\ r = TornReport)
<1>4. ASSUME s = "wf_library"
      PROVE  Goal
  <2>1. r \in {Missing,
               Report("ok", "best", "best", "many", "many", "none"),
               Report("ok", "weak", "best", "many", "many", "none"),
               Report("failed", "none", "none", "none", "few", "none"),
               EmptyReport}
    BY <1>4 DEF ReportsOf, UsualReport, UnusualReports
  <2>. QED  BY <1>2, <1>4, <2>1 DEF Missing, Report, EmptyReport
<1>5. ASSUME s = "wf_calibration"
      PROVE  Goal
  <2>1. r \in {Missing,
               Report("ok", "best", "best", "many", "many", "none"),
               EmptyReport,
               TornReport}
    BY <1>5 DEF ReportsOf, UsualReport, UnusualReports
  <2>. QED  BY <1>2, <1>5, <2>1 DEF Missing, Report, EmptyReport
<1>6. ASSUME s = "parameter_search"
      PROVE  Goal
  <2>1. r \in {Missing,
               Report("ok", "none", "best", "many", "none", "weak"),
               Report("ok", "none", "best", "many", "none", "best"),
               Report("raised", "none", "none", "none", "none", "weak")}
    BY <1>6 DEF ReportsOf, UsualReport, UnusualReports
  <2>. QED  BY <1>2, <1>6, <2>1 DEF Missing, Report, EmptyReport
<1>7. ASSUME s = "ensemble"
      PROVE  Goal
  <2>1. r \in {Missing,
               Report("ok", "none", "best", "many", "none", "none"),
               Report("ok", "none", "best", "few", "none", "none")}
    BY <1>7 DEF ReportsOf, UsualReport, UnusualReports
  <2>. QED  BY <1>2, <1>7, <2>1 DEF Missing, Report, EmptyReport
<1>8. ASSUME s = "calibrated_ml"
      PROVE  Goal
  <2>1. r \in {Missing,
               Report("ok", "none", "best", "many", "none", "none"),
               Report("ok", "none", "best", "few", "none", "none")}
    BY <1>8 DEF ReportsOf, UsualReport, UnusualReports
  <2>. QED  BY <1>2, <1>8, <2>1 DEF Missing, Report, EmptyReport
<1>. QED  BY <1>1, <1>3, <1>4, <1>5, <1>6, <1>7, <1>8

LEMMA NotTorn ==
  ASSUME NEW s \in Sources, NEW r \in {UsualReport(s)} \cup UnusualReports(s)
  PROVE  r # TornReport /\ r \in ReportsOf(s)
<1>1. r \in ReportsOf(s)
  BY DEF ReportsOf
<1>. DEFINE Odd == {Report("ok", "best", "none", "none", "none", "none"),
                   Report("ok", "best", "best", "many", "many", "none"),
                   Report("ok", "weak", "best", "many", "many", "none"),
                   Report("failed", "none", "none", "none", "few", "none"),
                   Report("ok", "none", "none", "none", "few", "none"),
                   Report("ok", "none", "none", "none", "none", "none"),
                   Report("ok", "none", "none", "none", "many", "none"),
                   Report("no_folds", "none", "none", "none", "none", "none"),
                   Report("ok", "none", "best", "many", "none", "weak"),
                   Report("ok", "none", "best", "many", "none", "best"),
                   Report("raised", "none", "none", "none", "none", "weak"),
                   Report("ok", "none", "best", "many", "none", "none"),
                   Report("ok", "none", "best", "few", "none", "none")}
<1>2. s \in {"model_library", "sequence_models", "sequence_walk_forward", "wf_library",
            "wf_calibration", "parameter_search", "ensemble", "calibrated_ml"}
  BY DEF Sources, Models, Strategies, FixedSplit, Walks
<1>3. r \in Odd
  BY <1>2 DEF UsualReport, UnusualReports, EmptyReport
<1>4. r # TornReport
  BY <1>3 DEF Report, TornReport
<1>. QED  BY <1>1, <1>4

(* The steps are the thirty, behind the download where there is one.        *)
LEMMA ThirtySteps == SafeSteps \in Seq({SafeSteps[i] : i \in 1 .. 30}) /\ Len(SafeSteps) = 30
<1>1. DOMAIN SafeSteps = 1 .. 30 /\ Len(SafeSteps) = 30
  BY DEF SafeSteps
<1>2. SafeSteps = [i \in 1 .. 30 |-> SafeSteps[i]]
  BY DEF SafeSteps
<1>. DEFINE T == SafeSteps
<1>3. T = [i \in 1 .. 30 |-> T[i]]
  BY <1>2
<1>4. Len(T) = 30
  BY <1>1
<1>. HIDE DEF T
<1>5. T \in Seq({T[i] : i \in 1 .. 30})
  BY <1>3
<1>. QED  BY <1>4, <1>5 DEF T

LEMMA Prepended ==
  ASSUME NEW N, NEW e \in N, NEW T \in Seq(N)
  PROVE  /\ Len(<<e>> \o T) = Len(T) + 1
         /\ (<<e>> \o T)[1] = e
         /\ \A i \in 1 .. Len(T) : (<<e>> \o T)[i + 1] = T[i]
<1>. DEFINE E == <<e>>
<1>1. E \in Seq(N) /\ Len(E) = 1 /\ E[1] = e
  OBVIOUS
<1>. HIDE DEF E
<1>2. /\ Len(E \o T) = Len(E) + Len(T)
      /\ \A i \in 1 .. Len(E) + Len(T) :
           (E \o T)[i] = IF i <= Len(E) THEN E[i] ELSE T[i - Len(E)]
  BY <1>1, ConcatProperties, Zenon
<1>3. Len(T) \in Nat
  OBVIOUS
<1>4. Len(E \o T) = Len(T) + 1 /\ (E \o T)[1] = e
  BY <1>1, <1>2, <1>3
<1>5. ASSUME NEW i \in 1 .. Len(T)
      PROVE  (E \o T)[i + 1] = T[i]
  <2>1. /\ i + 1 \in 1 .. Len(E) + Len(T) /\ ~(i + 1 <= Len(E))
        /\ (i + 1) - Len(E) = i
    BY <1>1, <1>3
  <2>. QED  BY <1>2, <2>1
<1>. QED  BY <1>4, <1>5 DEF E

LEMMA StepPlace ==
  ASSUME JobTypes
  PROVE  \E off \in 0 .. 1 :
           /\ Len(StepsOf(job.download)) = 30 + off
           /\ \A i \in 1 .. 30 : StepsOf(job.download)[i + off] = SafeSteps[i]
           /\ off = 1 => StepsOf(job.download)[1] = "download"
<1>. DEFINE Names == {"download"} \cup {SafeSteps[i] : i \in 1 .. 30}
            T == SafeSteps
<1>1. T \in Seq(Names) /\ Len(T) = 30
  <2>1. {T[i] : i \in 1 .. 30} \subseteq Names
    OBVIOUS
  <2>. HIDE DEF Names, T
  <2>2. T \in Seq({T[i] : i \in 1 .. 30}) /\ Len(T) = 30
    BY ThirtySteps DEF T
  <2>. QED  BY <2>1, <2>2
<1>2. "download" \in Names
  OBVIOUS
<1>. HIDE DEF Names, T
<1>3. CASE job.download
  <2>1. StepsOf(job.download) = <<"download">> \o T
    BY <1>3 DEF StepsOf, T
  <2>2. /\ Len(<<"download">> \o T) = Len(T) + 1
        /\ (<<"download">> \o T)[1] = "download"
        /\ \A i \in 1 .. Len(T) : (<<"download">> \o T)[i + 1] = T[i]
    <3>. DEFINE d == "download"
    <3>1. T \in Seq(Names) /\ d \in Names
      BY <1>1, <1>2
    <3>. HIDE DEF d
    <3>2. /\ Len(<<d>> \o T) = Len(T) + 1
          /\ (<<d>> \o T)[1] = d
          /\ \A i \in 1 .. Len(T) : (<<d>> \o T)[i + 1] = T[i]
      BY <3>1, Prepended
    <3>. QED  BY <3>2 DEF d
  <2>. DEFINE P == <<"download">> \o T
  <2>3. Len(P) = Len(T) + 1 /\ P[1] = "download" /\ \A i \in 1 .. Len(T) : P[i + 1] = T[i]
    BY <2>2
  <2>. HIDE DEF P
  <2>4. Len(P) = 30 + 1 /\ P[1] = "download" /\ \A i \in 1 .. 30 : P[i + 1] = T[i]
    BY <1>1, <2>3
  <2>5. StepsOf(job.download) = P
    BY <2>1 DEF P
  <2>6. /\ Len(StepsOf(job.download)) = 30 + 1
        /\ \A i \in 1 .. 30 : StepsOf(job.download)[i + 1] = SafeSteps[i]
        /\ StepsOf(job.download)[1] = "download"
    BY <2>4, <2>5 DEF T
  <2>. QED  BY <2>6
<1>4. CASE ~job.download
  <2>1. StepsOf(job.download) = <<>> \o T
    BY <1>4 DEF StepsOf, T
  <2>2. /\ Len(<<>> \o T) = 30 + 0
        /\ \A i \in 1 .. 30 : (<<>> \o T)[i + 0] = T[i]
    BY <1>1
  <2>3. /\ Len(StepsOf(job.download)) = 30 + 0
        /\ \A i \in 1 .. 30 : StepsOf(job.download)[i + 0] = SafeSteps[i]
    BY <2>1, <2>2 DEF T
  <2>. QED  BY <2>3
<1>. QED  BY <1>3, <1>4

LEMMA Placed ==
  ASSUME JobTypes, Running
  PROVE  /\ Step \in Sources => "build_features" \in Done
         /\ Step \in {"admission", "v29_report"} =>
              /\ BeforeAdmission \subseteq Done
              /\ "parameter_search" \notin Done /\ "ensemble" \notin Done
<1>. DEFINE steps == StepsOf(job.download)
<1>1. PICK off \in 0 .. 1 :
        /\ Len(steps) = 30 + off
        /\ \A i \in 1 .. 30 : steps[i + off] = SafeSteps[i]
        /\ off = 1 => steps[1] = "download"
  BY StepPlace
<1>0. off = 0 \/ off = 1
  OBVIOUS
<1>2. job.at \in 1 .. 30 + off /\ job.at \in Nat \ {0} /\ Step = steps[job.at]
  <2>1. Step = steps[job.at]
    BY DEF Step
  <2>2. job.at <= Len(steps)
    BY DEF Running
  <2>3. job.at \in Nat \ {0}
    BY DEF JobTypes
  <2>. HIDE DEF steps
  <2>4. CASE off = 0
    <3>1. Len(steps) = 30
      BY <1>1, <2>4
    <3>2. job.at \in 1 .. 30
      BY <2>2, <2>3, <3>1
    <3>. QED  BY <2>1, <2>3, <2>4, <3>2
  <2>5. CASE off = 1
    <3>1. Len(steps) = 31
      BY <1>1, <2>5
    <3>2. job.at \in 1 .. 31
      BY <2>2, <2>3, <3>1
    <3>. QED  BY <2>1, <2>3, <2>5, <3>2
  <2>. QED  BY <1>0, <2>4, <2>5
<1>3. Done = {steps[k] : k \in 1 .. job.at - 1}
  BY DEF Done
<1>. HIDE DEF steps
<1>. USE <1>0
<1>4. ASSUME NEW k \in 1 .. 30 + off
      PROVE  \/ steps[k] = "download" /\ k = 1
             \/ k - off \in 1 .. 30 /\ steps[k] = SafeSteps[k - off]
  <2>1. CASE k = 1 /\ off = 1
    BY <1>1, <2>1
  <2>2. CASE ~(k = 1 /\ off = 1)
    <3>1. CASE off = 0
      <4>1. k \in 1 .. 30 /\ k - off = k /\ k + off = k
        BY <3>1
      <4>. QED  BY <1>1, <4>1
    <3>2. CASE off = 1
      <4>1. k \in 2 .. 31
        BY <2>2, <3>2
      <4>2. k - off \in 1 .. 30 /\ (k - off) + off = k
        BY <3>2, <4>1
      <4>. QED  BY <1>1, <4>2
    <3>. QED  BY <1>0, <3>1, <3>2
  <2>. QED  BY <2>1, <2>2
<1>5. ASSUME NEW i \in 1 .. 30, i < job.at - off
      PROVE  SafeSteps[i] \in Done
  <2>1. i + off \in 1 .. (job.at - 1)
    BY <1>2, <1>5
  <2>. QED  BY <1>1, <1>3, <2>1
<1>6. ASSUME Step # "download"
      PROVE  job.at - off \in 1 .. 30 /\ Step = SafeSteps[job.at - off]
  BY <1>2, <1>4, <1>6
<1>7. ASSUME Step \in Sources
      PROVE  "build_features" \in Done
  <2>1. Step # "download"
    BY <1>7 DEF Sources, Models, Strategies, FixedSplit, Walks
  <2>2. job.at - off \in 1 .. 30 /\ job.at - off > 3
    BY <1>6, <1>7, <2>1, SafeOrder
  <2>3. SafeSteps[3] \in Done
    BY <1>5, <2>2
  <2>. QED  BY <2>3, SafePlaces
<1>8. ASSUME Step \in {"admission", "v29_report"}
      PROVE  /\ BeforeAdmission \subseteq Done
             /\ "parameter_search" \notin Done /\ "ensemble" \notin Done
  <2>1. job.at - off \in 18 .. 19
    BY <1>6, <1>8, SafeOrder
  <2>2. \A i \in 1 .. 16 : SafeSteps[i] \in Done
    BY <1>5, <2>1
  <2>3. BeforeAdmission = {"calibrated_ml", "wf_calibration", "model_library",
                           "wf_library", "sequence_models", "sequence_walk_forward"}
    BY DEF BeforeAdmission, Sources, Models, Strategies, FixedSplit, Walks
  <2>4. BeforeAdmission \subseteq Done
    <3>1. {SafeSteps[8], SafeSteps[9], SafeSteps[11], SafeSteps[12], SafeSteps[15],
           SafeSteps[16]} \subseteq Done
      BY <2>2
    <3>. QED  BY <2>3, <3>1, SafePlaces
  <2>5. ASSUME NEW s \in {"parameter_search", "ensemble"}, s \in Done
        PROVE  FALSE
    <3>1. PICK k \in 1 .. job.at - 1 : s = steps[k]
      BY <1>3, <2>5
    <3>2. k \in 1 .. 30 + off /\ k < job.at
      BY <1>0, <1>2
    <3>3. k - off \in 1 .. 30 /\ s = SafeSteps[k - off]
      BY <1>4, <2>5, <3>1, <3>2
    <3>4. k - off > 19
      BY <3>3, SafeOrder
    <3>. QED  BY <1>0, <1>2, <2>1, <3>2, <3>4
  <2>. QED  BY <2>4, <2>5
<1>. QED  BY <1>7, <1>8

LEMMA DoneGrows ==
  ASSUME JobTypes, job'.download = job.download, job'.at = job.at + 1
  PROVE  Done' = Done \cup {Step}
<1>1. job.at \in Nat \ {0}
  BY DEF JobTypes
<1>2. 1 .. job'.at - 1 = (1 .. job.at - 1) \cup {job.at}
  BY <1>1
<1>. QED  BY <1>2 DEF Done, Step

-----------------------------------------------------------------------------
(* What a step of a run does to what the invariant speaks of, whichever     *)
(* script it is and however the script ends.                                *)
Marked == [NextStep EXCEPT !.failed = @ \cup {Step}]

StepEffect ==
  /\ runs' = runs
  /\ files' = [f \in {"candles", "dataset", "calibrated"} |-> files'[f]]
  /\ files'.dataset \in {files.dataset, runs}
  /\ \/ evidence' = evidence
     \/ Step \in Sources /\ \E r \in ReportsOf(Step) : Record(r)
  /\ \/ leaderboard' = leaderboard
     \/ Step \in {"admission", "v29_report"} /\ Admit
  /\ \/ job' = NoJob
     \/ job' = Marked
     \/ /\ job' = NextStep
        /\ Step = "build_features" => files'.dataset = runs
        /\ Step \in Sources =>
             \/ Step = "sequence_walk_forward"
             \/ \E r \in ReportsOf(Step) : r # TornReport /\ Record(r)

LEMMA AdmissionSound ==
  ASSUME PipelineInv, Running, Step \in {"admission", "v29_report"}, Admit
  PROVE  LeaderboardEvidence'
<1>1. JobTypes /\ FreshBehind /\ StaleAhead /\ EvidenceTypes
  BY DEF PipelineInv, Running
<1>2. BeforeAdmission \subseteq Done /\ "parameter_search" \notin Done /\ "ensemble" \notin Done
  BY <1>1, Placed
<1>3. /\ leaderboard'.run = runs /\ leaderboard'.failed = job.failed
      /\ leaderboard'.rows = [s \in Candidates |->
           [run |-> evidence[s].run, data |-> evidence[s].data,
            report |-> evidence[s].report,
            decision |-> Decision(s, evidence[s].report)]]
  BY DEF Admit
<1>. DEFINE row(s) == leaderboard'.rows[s]
<1>4. ASSUME NEW s \in Candidates
      PROVE  /\ row(s).decision = "paper_candidate_pool" =>
                  /\ s \notin FixedSplit \cup SequenceModels
                  /\ \/ row(s).report.trades = "many"
                     \/ s = "wf_calibration" /\ s \in leaderboard'.failed
             /\ \/ /\ row(s).run = leaderboard'.run
                   /\ row(s).data = leaderboard'.run \/ "build_features" \in leaderboard'.failed
                \/ s \in leaderboard'.failed \cup {"sequence_walk_forward"}
                \/ s \in {"parameter_search", "ensemble"} /\ row(s).run < leaderboard'.run
  <2>1. /\ row(s).run = evidence[s].run /\ row(s).data = evidence[s].data
        /\ row(s).report = evidence[s].report
        /\ row(s).decision = Decision(s, evidence[s].report)
    BY <1>3
  <2>. HIDE DEF row
  <2>2. s \in Sources /\ evidence[s].report.status # "missing"
    BY DEF Candidates
  <2>3. evidence[s].report \in ReportsOf(s)
    BY <1>1, <2>2 DEF EvidenceTypes
  <2>4. s \in BeforeAdmission \/ s \in {"parameter_search", "ensemble"}
    BY <2>2 DEF BeforeAdmission
  <2>5. s \in BeforeAdmission => Fresh(s) \/ s \in job.failed \/ s = "sequence_walk_forward"
    BY <1>1, <1>2, <2>2 DEF FreshBehind
  <2>6. s \in {"parameter_search", "ensemble"} => evidence[s].run < runs
    BY <1>1, <1>2 DEF StaleAhead
  <2>7. ASSUME row(s).decision = "paper_candidate_pool"
        PROVE  /\ s \notin FixedSplit \cup SequenceModels
               /\ \/ row(s).report.trades = "many"
                  \/ s = "wf_calibration" /\ s \in leaderboard'.failed
    <3>1. /\ s \notin FixedSplit \cup SequenceModels
          /\ \/ evidence[s].report.trades = "many"
             \/ s = "wf_calibration" /\ evidence[s].report = TornReport
      <4>1. Decision(s, evidence[s].report) = "paper_candidate_pool"
        BY <2>1, <2>7
      <4>. DEFINE r == evidence[s].report
      <4>2. r \in ReportsOf(s) /\ r.status # "missing" /\ Decision(s, r) = "paper_candidate_pool"
        BY <2>2, <2>3, <4>1
      <4>. HIDE DEF r
      <4>3. /\ s \notin FixedSplit \cup SequenceModels
            /\ r.trades = "many" \/ (s = "wf_calibration" /\ r = TornReport)
        BY <2>2, <4>2, PoolEvidence
      <4>. QED  BY <4>3 DEF r
    <3>2. ASSUME s = "wf_calibration", evidence[s].report = TornReport
          PROVE  s \in job.failed
      <4>1. s \in BeforeAdmission /\ s # "sequence_walk_forward"
        BY <2>4, <3>2
      <4>. QED  BY <2>5, <3>2, <4>1 DEF Fresh
    <3>. QED  BY <1>3, <2>1, <3>1, <3>2
  <2>8. \/ /\ row(s).run = leaderboard'.run
           /\ row(s).data = leaderboard'.run \/ "build_features" \in leaderboard'.failed
        \/ s \in leaderboard'.failed \cup {"sequence_walk_forward"}
        \/ s \in {"parameter_search", "ensemble"} /\ row(s).run < leaderboard'.run
    BY <1>3, <2>1, <2>4, <2>5, <2>6 DEF Fresh
  <2>. QED  BY <2>7, <2>8
<1>5. DOMAIN leaderboard'.rows = Candidates
  BY <1>3
<1>. QED  BY <1>4, <1>5 DEF LeaderboardEvidence

LEMMA EvidenceKept ==
  ASSUME PipelineInv, Running, StepEffect
  PROVE  EvidenceTypes'
<1>1. EvidenceTypes
  BY DEF PipelineInv
<1>2. runs' \in Nat /\ files'.dataset \in Nat
  BY <1>1 DEF EvidenceTypes, StepEffect
<1>3. /\ evidence' = [s \in Sources |-> evidence'[s]]
      /\ \A s \in Sources : /\ evidence'[s].run \in Nat /\ evidence'[s].run <= runs
                            /\ evidence'[s].report \in ReportsOf(s)
  <2>1. CASE evidence' = evidence
    BY <1>1, <2>1 DEF EvidenceTypes
  <2>2. CASE Step \in Sources /\ \E r \in ReportsOf(Step) : Record(r)
    <3>1. PICK r \in ReportsOf(Step) : Record(r)
      BY <2>2
    <3>. DEFINE e == [run |-> runs, data |-> files.dataset, report |-> r]
    <3>2. e.run = runs /\ e.report = r
      OBVIOUS
    <3>3. evidence' = [evidence EXCEPT ![Step] = e]
      BY <3>1 DEF Record
    <3>. HIDE DEF e
    <3>4. \A s \in Sources : evidence'[s] = IF s = Step THEN e ELSE evidence[s]
      BY <1>1, <3>3 DEF EvidenceTypes
    <3>5. evidence' = [s \in Sources |-> evidence'[s]]
      BY <1>1, <3>3 DEF EvidenceTypes
    <3>. QED  BY <1>1, <2>2, <3>1, <3>2, <3>4, <3>5 DEF EvidenceTypes
  <2>. QED  BY <2>1, <2>2 DEF StepEffect
<1>. QED  BY <1>2, <1>3 DEF EvidenceTypes, StepEffect

LEMMA JobKept ==
  ASSUME PipelineInv, Running, StepEffect, job' # NoJob
  PROVE  JobTypes' /\ FreshDataset' /\ FreshBehind' /\ StaleAhead'
<1>1. JobTypes /\ FreshDataset /\ FreshBehind /\ StaleAhead /\ EvidenceTypes
  BY DEF PipelineInv, Running
<1>2. job' = Marked \/ job' = NextStep
  BY DEF StepEffect
<1>3. /\ job' = [f \in JobFields |-> job'[f]]
      /\ job'.download = job.download /\ job'.at = job.at + 1
      /\ job'.failed \in {job.failed, job.failed \cup {Step}}
      /\ job' = Marked => job'.failed = job.failed \cup {Step}
  BY <1>1, <1>2 DEF JobTypes, JobFields, Marked, NextStep
<1>4. JobTypes'
  BY <1>1, <1>3 DEF JobTypes
<1>5. Done' = Done \cup {Step}
  BY <1>1, <1>3, DoneGrows
<1>6. runs' = runs /\ files'.dataset \in {files.dataset, runs}
  BY DEF StepEffect
<1>7. FreshDataset'
  <2>1. ASSUME "build_features" \in Done'
        PROVE  files'.dataset = runs \/ "build_features" \in job'.failed
    <3>1. CASE "build_features" \in Done
      BY <1>1, <1>3, <1>6, <3>1 DEF FreshDataset
    <3>2. CASE Step = "build_features"
      BY <1>2, <1>3, <3>2 DEF StepEffect
    <3>. QED  BY <1>5, <2>1, <3>1, <3>2
  <2>. QED  BY <1>6, <2>1 DEF FreshDataset
<1>. DEFINE e(r) == [run |-> runs, data |-> files.dataset, report |-> r]
<1>8. ASSUME NEW s \in Sources, s # Step
      PROVE  evidence'[s] = evidence[s]
  <2>1. evidence' = evidence \/ \E r : evidence' = [evidence EXCEPT ![Step] = e(r)]
    BY DEF StepEffect, Record
  <2>. HIDE DEF e
  <2>. QED  BY <1>1, <1>8, <2>1 DEF EvidenceTypes
<1>9. FreshBehind'
  <2>1. ASSUME NEW s \in Sources, s \in Done, s # Step
        PROVE  Fresh(s)' \/ s \in job'.failed \/ s = "sequence_walk_forward"
    <3>1. evidence'[s] = evidence[s]
      BY <1>8, <2>1
    <3>2. Fresh(s) \/ s \in job.failed \/ s = "sequence_walk_forward"
      BY <1>1, <2>1 DEF FreshBehind
    <3>. QED  BY <1>3, <1>6, <3>1, <3>2 DEF Fresh
  <2>2. ASSUME NEW s \in Sources, s = Step
        PROVE  Fresh(s)' \/ s \in job'.failed \/ s = "sequence_walk_forward"
    <3>1. CASE job' = Marked
      BY <1>3, <2>2, <3>1
    <3>2. CASE job' = NextStep /\ job' # Marked /\ Step # "sequence_walk_forward"
      <4>1. PICK r \in ReportsOf(Step) : r # TornReport /\ Record(r)
        BY <2>2, <3>2 DEF StepEffect
      <4>2. evidence' = [evidence EXCEPT ![Step] = e(r)]
        BY <4>1 DEF Record
      <4>3. e(r).run = runs /\ e(r).data = files.dataset /\ e(r).report = r
        OBVIOUS
      <4>. HIDE DEF e
      <4>4. evidence'[Step] = e(r)
        BY <1>1, <2>2, <4>2 DEF EvidenceTypes
      <4>5. files.dataset = runs \/ "build_features" \in job.failed
        BY <1>1, <2>2, Placed DEF FreshDataset
      <4>. QED  BY <1>3, <1>6, <2>2, <4>1, <4>3, <4>4, <4>5 DEF Fresh
    <3>. QED  BY <1>2, <2>2, <3>1, <3>2
  <2>. QED  BY <1>5, <2>1, <2>2 DEF FreshBehind
<1>10. StaleAhead'
  <2>1. ASSUME NEW s \in {"parameter_search", "ensemble"}, s \notin Done'
        PROVE  evidence'[s].run < runs'
    <3>1. s \in Sources /\ s # Step /\ s \notin Done
      BY <1>5, <2>1 DEF Sources, Strategies
    <3>. QED  BY <1>1, <1>6, <1>8, <3>1 DEF StaleAhead
  <2>. QED  BY <2>1 DEF StaleAhead
<1>. QED  BY <1>4, <1>7, <1>9, <1>10

LEMMA EffectKeeps == PipelineInv /\ Running /\ StepEffect => PipelineInv'
<1>. SUFFICES ASSUME PipelineInv, Running, StepEffect
              PROVE  PipelineInv'
  OBVIOUS
<1>1. EvidenceTypes'
  BY EvidenceKept
<1>2. job' = NoJob \/ (JobTypes' /\ FreshDataset' /\ FreshBehind' /\ StaleAhead')
  BY JobKept
<1>3. LeaderboardEvidence'
  <2>1. CASE leaderboard' = leaderboard
    BY <2>1 DEF PipelineInv, LeaderboardEvidence
  <2>2. CASE Step \in {"admission", "v29_report"} /\ Admit
    BY <2>2, AdmissionSound
  <2>. QED  BY <2>1, <2>2 DEF StepEffect
<1>. QED  BY <1>1, <1>2, <1>3 DEF PipelineInv

LEMMA WorkFiles ==
  ASSUME EvidenceTypes, Work
  PROVE  /\ files' = [f \in {"candles", "dataset", "calibrated"} |-> files'[f]]
         /\ files'.dataset \in {files.dataset, runs}
         /\ Step = "build_features" => files'.dataset = runs
<1>1. \/ Step # "build_features" /\ \E c : files' = [files EXCEPT !.candles = c]
      \/ Step = "build_features" /\ files' = [files EXCEPT !.dataset = runs]
      \/ Step # "build_features" /\ \E c : files' = [files EXCEPT !.calibrated = c]
      \/ Step # "build_features" /\ files' = files
  BY DEF Work
<1>2. files = [f \in {"candles", "dataset", "calibrated"} |-> files[f]]
  BY DEF EvidenceTypes
<1>. QED  BY <1>1, <1>2

LEMMA SucceedsEffect == PipelineInv /\ StepSucceeds => Running /\ StepEffect
<1>. SUFFICES ASSUME PipelineInv, StepSucceeds
              PROVE  Running /\ StepEffect
  OBVIOUS
<1>1. Running /\ Work /\ job' = NextStep /\ runs' = runs
  BY DEF StepSucceeds
<1>2. EvidenceTypes
  BY DEF PipelineInv
<1>3. /\ files' = [f \in {"candles", "dataset", "calibrated"} |-> files'[f]]
      /\ files'.dataset \in {files.dataset, runs}
      /\ Step = "build_features" => files'.dataset = runs
  BY <1>1, <1>2, WorkFiles
<1>4. Step \in Sources => \E r \in ReportsOf(Step) : r # TornReport /\ Record(r)
  BY <1>1, NotTorn DEF Work
<1>5. Step \notin Sources => evidence' = evidence
  BY <1>1 DEF Work
<1>6. leaderboard' = leaderboard \/ (Step \in {"admission", "v29_report"} /\ Admit)
  BY <1>1 DEF Work
<1>. QED  BY <1>1, <1>3, <1>4, <1>5, <1>6 DEF StepEffect

LEMMA SurprisesEffect == PipelineInv /\ StepSurprises => Running /\ StepEffect
<1>. SUFFICES ASSUME PipelineInv, StepSurprises
              PROVE  Running /\ StepEffect
  OBVIOUS
<1>1. /\ Running /\ Step \in Sources /\ OddWork /\ job' = NextStep /\ runs' = runs
      /\ files' = files /\ leaderboard' = leaderboard
  BY DEF StepSurprises, OddWork
<1>2. EvidenceTypes
  BY DEF PipelineInv
<1>3. \/ Step = "sequence_walk_forward" /\ evidence' = evidence
      \/ \E r \in ReportsOf(Step) : r # TornReport /\ Record(r)
  BY <1>1, NotTorn DEF OddWork
<1>4. Step # "build_features"
  BY <1>1 DEF Sources, Models, Strategies, FixedSplit, Walks
<1>5. /\ files' = [f \in {"candles", "dataset", "calibrated"} |-> files'[f]]
      /\ files'.dataset = files.dataset
  BY <1>1, <1>2 DEF EvidenceTypes
<1>. QED  BY <1>1, <1>3, <1>4, <1>5 DEF StepEffect

(* A failed step, whatever it had done.                                     *)
LEMMA FailedEffect ==
  ASSUME PipelineInv, Running, NoWork \/ Torn \/ Work, StepFailed, runs' = runs
  PROVE  StepEffect
<1>1. EvidenceTypes
  BY DEF PipelineInv
<1>2. job' = NoJob \/ job' = Marked
  BY DEF StepFailed, Marked
<1>3. CASE NoWork
  <2>1. files' = files /\ evidence' = evidence /\ leaderboard' = leaderboard
    BY <1>3 DEF NoWork
  <2>2. /\ files' = [f \in {"candles", "dataset", "calibrated"} |-> files'[f]]
        /\ files'.dataset = files.dataset
    BY <1>1, <2>1 DEF EvidenceTypes
  <2>. QED  BY <1>2, <2>1, <2>2 DEF StepEffect
<1>4. CASE Torn
  <2>1. /\ files' = files /\ leaderboard' = leaderboard
        /\ Step = "wf_calibration" /\ Record(TornReport)
    BY <1>4 DEF Torn
  <2>2. /\ files' = [f \in {"candles", "dataset", "calibrated"} |-> files'[f]]
        /\ files'.dataset = files.dataset
    BY <1>1, <2>1 DEF EvidenceTypes
  <2>3. Step \in Sources /\ TornReport \in ReportsOf(Step)
    BY <2>1 DEF Sources, Models, Walks, ReportsOf
  <2>. QED  BY <1>2, <2>1, <2>2, <2>3 DEF StepEffect
<1>5. CASE Work
  <2>1. /\ files' = [f \in {"candles", "dataset", "calibrated"} |-> files'[f]]
        /\ files'.dataset \in {files.dataset, runs}
    BY <1>1, <1>5, WorkFiles
  <2>2. \/ evidence' = evidence
        \/ Step \in Sources /\ \E r \in ReportsOf(Step) : Record(r)
    BY <1>5, NotTorn DEF Work
  <2>3. leaderboard' = leaderboard \/ (Step \in {"admission", "v29_report"} /\ Admit)
    BY <1>5 DEF Work
  <2>. QED  BY <1>2, <2>1, <2>2, <2>3 DEF StepEffect
<1>. QED  BY <1>3, <1>4, <1>5

LEMMA RaisedEffect ==
  PipelineInv /\ (StepLacksInput \/ PurgedScriptRaises \/ StepRaises) => Running /\ StepEffect
BY FailedEffect DEF StepLacksInput, PurgedScriptRaises, StepRaises

LEMMA StartKeeps == PipelineInv /\ PipelineStarts => PipelineInv'
<1>. SUFFICES ASSUME PipelineInv, PipelineStarts
              PROVE  PipelineInv'
  OBVIOUS
<1>1. /\ runs' = runs + 1 /\ files' = files /\ evidence' = evidence
      /\ leaderboard' = leaderboard
  BY DEF PipelineStarts
<1>2. PICK download \in BOOLEAN, continueOnError \in BOOLEAN :
        job' = [phase |-> "running", download |-> download, at |-> 1,
                continueOnError |-> continueOnError, failed |-> {}]
  BY DEF PipelineStarts
<1>3. EvidenceTypes /\ LeaderboardEvidence
  BY DEF PipelineInv
<1>4. runs \in Nat /\ \A s \in Sources : evidence[s].run \in Nat /\ evidence[s].run <= runs
  BY <1>3 DEF EvidenceTypes
<1>5. EvidenceTypes'
  <2>1. runs' \in Nat /\ \A s \in Sources : evidence'[s].run <= runs'
    BY <1>1, <1>4
  <2>. QED  BY <1>1, <1>3, <2>1 DEF EvidenceTypes
<1>6. JobTypes'
  <2>1. job' = [f \in JobFields |-> job'[f]]
    BY <1>2 DEF JobFields
  <2>2. job'.download \in BOOLEAN /\ job'.at \in Nat \ {0}
    BY <1>2
  <2>. QED  BY <2>1, <2>2 DEF JobTypes
<1>7. Done' = {}
  <2>1. job'.at = 1
    BY <1>2
  <2>. QED  BY <2>1 DEF Done
<1>8. StaleAhead'
  <2>1. ASSUME NEW s \in {"parameter_search", "ensemble"}
        PROVE  evidence'[s].run < runs'
    <3>1. s \in Sources
      BY DEF Sources, Strategies
    <3>. QED  BY <1>1, <1>4, <3>1
  <2>. QED  BY <2>1 DEF StaleAhead
<1>9. LeaderboardEvidence'
  BY <1>1, <1>3 DEF LeaderboardEvidence
<1>. QED  BY <1>5, <1>6, <1>7, <1>8, <1>9 DEF PipelineInv, FreshDataset, FreshBehind

LEMMA PipelineInvInit == PipelineInit => PipelineInv
<1>. SUFFICES ASSUME PipelineInit
              PROVE  PipelineInv
  OBVIOUS
<1>1. runs = 0 /\ job = NoJob /\ leaderboard = Nothing
  BY DEF PipelineInit
<1>2. files = [f \in {"candles", "dataset", "calibrated"} |-> files[f]] /\ files.dataset = 0
  BY DEF PipelineInit
<1>3. /\ evidence = [s \in Sources |-> evidence[s]]
      /\ \A s \in Sources : evidence[s].run = 0 /\ evidence[s].report = Missing
  BY DEF PipelineInit, Missing
<1>4. \A s \in Sources : Missing \in ReportsOf(s)
  BY DEF ReportsOf
<1>5. EvidenceTypes
  BY <1>1, <1>2, <1>3, <1>4 DEF EvidenceTypes
<1>. QED  BY <1>1, <1>5 DEF PipelineInv, LeaderboardEvidence

LEMMA PipelineInvStep == PipelineInv /\ [PipelineNext]_pipelineVars => PipelineInv'
<1>. SUFFICES ASSUME PipelineInv, [PipelineNext]_pipelineVars
              PROVE  PipelineInv'
  OBVIOUS
<1>1. CASE PipelineStarts
  BY <1>1, StartKeeps
<1>2. CASE StepSucceeds
  BY <1>2, SucceedsEffect, EffectKeeps
<1>3. CASE StepSurprises
  BY <1>3, SurprisesEffect, EffectKeeps
<1>4. CASE StepLacksInput \/ PurgedScriptRaises \/ StepRaises
  BY <1>4, RaisedEffect, EffectKeeps
<1>5. CASE PipelineEnds
  <2>1. /\ job' = NoJob
        /\ runs' = runs /\ files' = files /\ evidence' = evidence
        /\ leaderboard' = leaderboard
    BY <1>5 DEF PipelineEnds
  <2>2. EvidenceTypes'
    BY <2>1 DEF PipelineInv, EvidenceTypes
  <2>. QED  BY <2>1, <2>2 DEF PipelineInv, LeaderboardEvidence
<1>6. CASE UNCHANGED pipelineVars
  <2>1. /\ runs' = runs /\ job' = job /\ files' = files /\ evidence' = evidence
        /\ leaderboard' = leaderboard
    BY <1>6 DEF pipelineVars
  <2>2. EvidenceTypes' /\ LeaderboardEvidence'
    BY <2>1 DEF PipelineInv, EvidenceTypes, LeaderboardEvidence
  <2>3. JobTypes => JobTypes' /\ Done' = Done
    BY <2>1 DEF JobTypes, Done
  <2>4. FreshDataset /\ JobTypes => FreshDataset'
    BY <2>1, <2>3 DEF FreshDataset
  <2>5. FreshBehind /\ StaleAhead /\ JobTypes => FreshBehind' /\ StaleAhead'
    BY <2>1, <2>3 DEF FreshBehind, StaleAhead, Fresh
  <2>. QED  BY <2>1, <2>2, <2>3, <2>4, <2>5 DEF PipelineInv
<1>. QED  BY <1>1, <1>2, <1>3, <1>4, <1>5, <1>6 DEF PipelineNext

-----------------------------------------------------------------------------
(* A behaviour of Research starts with every component in a state it may    *)
(* start in, and its steps are steps of the components or leave them alone. *)
LEMMA ResearchStarts ==
  ResearchInit => CandleInit /\ BacktestInit /\ PipelineInit
BY DEF ResearchInit, CandlesUnused, BacktestUnused

LEMMA ResearchSteps ==
  [ResearchNext]_researchVars =>
    /\ [CandleNext]_candleVars
    /\ [FoldNext]_foldVars
    /\ [BacktestNext]_backtestVars
    /\ [PipelineNext]_pipelineVars
BY DEF ResearchNext, researchVars, Download, Validate, RunBacktest, RunPipeline

(* Experiments keep FoldInv, and nothing else trains or tests a fold.       *)
FoldsInv ==
  /\ script = "validate" => FoldInv
  /\ script # "validate" => folds = {}

LEMMA FoldsInvInit == ResearchInit => FoldsInv
<1>. SUFFICES ASSUME ResearchInit
              PROVE  FoldsInv
  OBVIOUS
<1>1. CASE script = "validate"
  <2>1. FoldInit(Plans)
    BY <1>1, ResearchAssumption DEF ResearchAssumption, ResearchInit, FoldInit
  <2>. QED  BY <1>1, <2>1, FoldInvInit DEF FoldsInv
<1>2. CASE script # "validate"
  BY <1>2 DEF ResearchInit, FoldsUnused, FoldInit, FoldsInv
<1>. QED  BY <1>1, <1>2

LEMMA FoldsInvStep == FoldsInv /\ [ResearchNext]_researchVars => FoldsInv'
<1>. SUFFICES ASSUME FoldsInv, [ResearchNext]_researchVars
              PROVE  FoldsInv'
  OBVIOUS
<1>1. script' = script
  BY DEF ResearchNext, researchVars, Download, Validate, RunBacktest, RunPipeline
<1>2. [FoldNext]_foldVars
  BY ResearchSteps
<1>3. CASE script = "validate"
  BY <1>1, <1>2, <1>3, FoldInvStep DEF FoldsInv
<1>4. CASE script # "validate"
  <2>1. folds' = folds
    BY <1>4 DEF ResearchNext, researchVars, Download, Validate, RunBacktest,
                RunPipeline, foldVars
  <2>. QED  BY <1>1, <1>4, <2>1 DEF FoldsInv
<1>. QED  BY <1>3, <1>4

(* The property of the folds in the behaviours of all research scripts.     *)
THEOREM ResearchFoldsApart == ResearchSpec => []FoldsKeptApart
<1>1. FoldsInv => FoldsKeptApart
  BY DEF FoldsInv, FoldInv, FoldsKeptApart, TrainedApart, TestedOnce
<1>. QED  BY FoldsInvInit, FoldsInvStep, <1>1, PTL DEF ResearchSpec

(* _stateful_long_signal, probability_signal and extract_long_trades: no    *)
(* trade of a rule with a holding limit lasts longer, for every limit,      *)
(* number of bars, price move, cost and stop.                               *)
THEOREM HoldingLimitKept == ResearchSpec => []HoldingBounded
<1>1. ResearchInit => HoldInv
  BY ResearchStarts, HoldInvInit
<1>2. HoldInv /\ [ResearchNext]_researchVars => HoldInv'
  BY ResearchSteps, HoldInvStep
<1>. QED  BY <1>1, <1>2, TradesBounded, PTL DEF ResearchSpec

(* LeveragedBacktester, DynamicExposureBacktester and extract_long_trades:  *)
(* every trade of the table is the only one of its entry bar, and their     *)
(* profits with the returns of their entry bars are what the equity gained  *)
(* or lost, for every rule and sizing, number of bars, price move, cost,    *)
(* cap and stop.                                                            *)
THEOREM EquityExplained == ResearchSpec => []TradesExplainEquity
<1>1. ResearchInit => CurveInv
  BY ResearchStarts, CurveInvInit
<1>2. CurveInv /\ [ResearchNext]_researchVars => CurveInv'
  BY ResearchSteps, CurveInvStep
<1>. QED  BY <1>1, <1>2, CurveExplained, PTL DEF ResearchSpec

(* The downloaders and the audit: whatever the page size, however the clock *)
(* runs between the requests and whichever of them fail for good, the file  *)
(* has no hole, an audit finds none, and only the last row of an OKX file   *)
(* may hold values of an unfinished bar.                                    *)
THEOREM CandleFileKept == ResearchSpec => []CandleFileSound
<1>1. ResearchInit => CandleInv
  BY ResearchStarts, CandleInvInit
<1>2. CandleInv /\ [ResearchNext]_researchVars => CandleInv'
  BY ResearchSteps, CandleInvStep
<1>. QED  BY <1>1, <1>2, FileIsSound, PTL DEF ResearchSpec

(* model_admission.py over the reports of run_safe_research_pipeline.py: a  *)
(* leaderboard rests on the evidence it names, for every number of runs,    *)
(* with every script failing or not, before or after it wrote its report.   *)
THEOREM LeaderboardBacked == ResearchSpec => []LeaderboardEvidence
<1>1. ResearchInit => PipelineInv
  BY ResearchStarts, PipelineInvInit
<1>2. PipelineInv /\ [ResearchNext]_researchVars => PipelineInv'
  BY ResearchSteps, PipelineInvStep
<1>3. PipelineInv => LeaderboardEvidence
  BY DEF PipelineInv
<1>. QED  BY <1>1, <1>2, <1>3, PTL DEF ResearchSpec
=============================================================================
