------------------------------ MODULE Backtest ------------------------------
(***************************************************************************)
(* A backtest, bar by bar: the entry and exit machines of                   *)
(* strategy/library.py and strategy/ml_strategy.py, the weighted vote and   *)
(* the dynamic exposure of research/ensemble.py, the confidence tiers of    *)
(* research/signal_confidence.py, the two engines of backtest/ and the      *)
(* extraction of trades from their result.                                  *)
(*                                                                          *)
(* Indicators and probabilities are inputs: of a bar only the truth of the  *)
(* conditions a rule reads matters.  Equity is an integer, a price move is  *)
(* the equity it makes or costs at exposure one.                            *)
(***************************************************************************)
EXTENDS Integers, Sequences, FiniteSetsExt, Totals

CONSTANTS
  Bars,          \* bars of the dataset
  Moves,         \* price moves of a bar
  Cost,          \* fee and slippage per unit of turnover
  InitialEquity, MinEquity,
  StopPercent,   \* max_drawdown_stop_fraction, in percent
  MaxHolding,    \* max_holding_bars of every stateful rule
  Unit,          \* margin fraction times leverage
  MaxExposure,   \* max_notional_fraction
  Weights        \* weights of the two candidates of an ensemble

ASSUME BacktestAssumption ==
  /\ {Bars, MaxHolding, Unit, MaxExposure, InitialEquity} \subseteq Nat \ {0}
  /\ {Cost, MinEquity, StopPercent} \subseteq Nat
  /\ Moves \subseteq Int
  /\ Weights \in Seq(Nat \ {0}) /\ Len(Weights) = 2

VARIABLES
  setup,     \* what is tested: [rules, sizing]
  machines,  \* of each rule: [held, bars], in_position and bars_in_position
  target,    \* the exposure decided at the last close
  peak,      \* the highest equity so far
  result,    \* the engine's rows: [exposure, equity, stopped]
  trades     \* the extracted trades, once the result is complete
backtestVars == <<setup, machines, target, peak, result, trades>>

-----------------------------------------------------------------------------
(* What a bar can say to each rule: whether its entry and its exit          *)
(* condition hold.  A breakout and a breakdown, or an RSI below and above   *)
(* its levels, exclude each other; a squeeze breakout above the long        *)
(* average may close under the short one.                                   *)
Exclusive == {[enter |-> FALSE, exit |-> FALSE], [enter |-> TRUE, exit |-> FALSE],
              [enter |-> FALSE, exit |-> TRUE]}
DonchianBars == Exclusive
SqueezeBars == [enter : BOOLEAN, exit : BOOLEAN]
RsiBars == Exclusive

(* probability_signal: the grid skips exit thresholds at or above the buy   *)
(* threshold, and a broken trend both forbids an entry and forces an exit.  *)
ProbabilityBars ==
  {[enter |-> p = "buy" /\ trendOk, exit |-> p = "exit" \/ ~trendOk] :
     p \in {"buy", "between", "exit"}, trendOk \in BOOLEAN}

(* moving average trend, regime filter and buy-and-hold keep no state: the  *)
(* signal is the condition.                                                 *)
StatelessRules == {"trend", "always"}
TrendBars == {[enter |-> on, exit |-> ~on] : on \in BOOLEAN}

BarsOf(rule) ==
  CASE rule = "donchian"    -> DonchianBars
    [] rule = "squeeze"     -> SqueezeBars
    [] rule = "rsi"         -> RsiBars
    [] rule = "probability" -> ProbabilityBars
    [] rule = "trend"       -> TrendBars
    [] rule = "always"      -> {[enter |-> TRUE, exit |-> FALSE]}

(* _stateful_long_signal and probability_signal: entries are looked at only *)
(* when flat, exits and the holding limit only when already in position.    *)
Flat == [held |-> FALSE, bars |-> 0]
\* Mutant of Advance: the limit comes one bar late.
AdvanceLate(m, bar) ==
  IF ~m.held THEN [held |-> bar.enter, bars |-> 0]
  ELSE IF bar.exit \/ m.bars >= MaxHolding THEN Flat
  ELSE [m EXCEPT !.bars = @ + 1]

Advance(m, bar) ==
  IF ~m.held THEN [held |-> bar.enter, bars |-> 0]
  ELSE IF bar.exit \/ m.bars + 1 >= MaxHolding THEN Flat
  ELSE [m EXCEPT !.bars = @ + 1]

AdvanceRule(rule, m, bar) ==
  IF rule \in StatelessRules THEN [held |-> bar.enter, bars |-> 0]
  ELSE Advance(m, bar)

-----------------------------------------------------------------------------
(* The target exposure decided at a close.                                  *)
Capped(exposure) == Min({exposure, MaxExposure})

Score(ms) ==
  Total([i \in DOMAIN ms |-> IF ms[i].held THEN Weights[i] ELSE 0], Len(ms))
TotalWeight(ms) == Total(Weights, Len(ms))

(* vote_threshold is one half of the total weight.                          *)
EnsembleSignal(ms) == 2 * Score(ms) >= TotalWeight(ms)

(* The multipliers of volatility and market regime are positive.            *)
DynamicExposures(ms) ==
  IF EnsembleSignal(ms)
  THEN {Capped(Score(ms) * multiplier) : multiplier \in 1 .. 2}
  ELSE {0}

(* weak, medium, strong; nothing against the trend                          *)
ConfidenceExposures == {Capped(tier) : tier \in 0 .. 3}

Targets(ms) ==
  CASE setup.sizing = "fixed"      -> {IF ms[1].held THEN Unit ELSE 0}
    [] setup.sizing = "dynamic"    -> DynamicExposures(ms)
    [] setup.sizing = "confidence" -> ConfidenceExposures

-----------------------------------------------------------------------------
(* The engines.  The exposure of a bar is the target of the bar before it;  *)
(* a change of exposure is paid for in the same bar; the first row has no   *)
(* return.  A stop freezes the equity, not the position.                    *)
Last == result[Len(result)]
Distance(a, b) == IF a > b THEN a - b ELSE b - a

Change(move) == target * move - Cost * Distance(target, Last.exposure)

DrawdownStop(equity, high) == 100 * (high - equity) >= StopPercent * high

(* LeveragedBacktester.run                                                  *)
FixedStep(move) ==
  LET equity == Last.equity + Change(move)
      high == Max({peak, equity})
  IN [equity |-> Max({equity, 0}), peak |-> high,
      stopped |-> DrawdownStop(equity, high)]

(* DynamicExposureBacktester.run: equity never below zero, and a second     *)
(* stop at a fraction of the initial equity.                                *)
DynamicStep(move) ==
  LET equity == Max({Last.equity + Change(move), 0})
      high == Max({peak, equity})
  IN [equity |-> equity, peak |-> high,
      stopped |-> DrawdownStop(equity, high) \/ equity <= MinEquity]

EngineStep(move) ==
  IF Last.stopped THEN [equity |-> Last.equity, peak |-> peak, stopped |-> TRUE]
  ELSE IF setup.sizing = "fixed" THEN FixedStep(move) ELSE DynamicStep(move)

(* The signals of the close of the bar.                                     *)
DecideTarget ==
  \E bars \in [DOMAIN machines -> Exclusive \cup SqueezeBars] :
    /\ \A i \in DOMAIN machines : bars[i] \in BarsOf(setup.rules[i])
    /\ machines' = [i \in DOMAIN machines |->
                      AdvanceRule(setup.rules[i], machines[i], bars[i])]
    /\ target' \in Targets(machines')

RunBar ==
  /\ Len(result) < Bars /\ trades = <<>>
  /\ IF result = <<>>
     THEN /\ result' = <<[exposure |-> 0, equity |-> InitialEquity,
                          stopped |-> FALSE]>>
          /\ UNCHANGED peak
     ELSE \E move \in Moves :
            LET step == EngineStep(move)
            IN /\ result' = Append(result,
                    [exposure |-> target, equity |-> step.equity,
                     stopped |-> step.stopped])
               /\ peak' = step.peak
  /\ DecideTarget
  /\ UNCHANGED <<setup, trades>>

-----------------------------------------------------------------------------
(* extract_long_trades: a trade runs from the first row in position to the  *)
(* first flat row after it, or to the last row of all, and is measured      *)
(* between the equities of these two rows.                                  *)
Entries ==
  {i \in DOMAIN result :
     result[i].exposure > 0 /\ (i = 1 \/ result[i - 1].exposure = 0)}
FlatAfter(i) == {j \in DOMAIN result : j > i /\ result[j].exposure = 0}
\* Mutant of ExitRow: the last row in position, not the first flat one.
ExitRowInside(i) ==
  IF FlatAfter(i) = {} THEN Len(result) ELSE Min(FlatAfter(i)) - 1

ExitRow(i) == IF FlatAfter(i) = {} THEN Len(result) ELSE Min(FlatAfter(i))

TradeFrom(i) ==
  [entry |-> i, exit |-> ExitRow(i), holding |-> ExitRow(i) - i,
   pnl |-> result[ExitRow(i)].equity - result[i].equity,
   reason |-> IF FlatAfter(i) = {} THEN "end_of_backtest" ELSE "signal_exit"]

ExtractTrades ==
  /\ Len(result) = Bars /\ trades = <<>>
  /\ trades' = [found |-> {TradeFrom(i) : i \in Entries}]
  /\ UNCHANGED <<setup, machines, target, peak, result>>

-----------------------------------------------------------------------------
(* Who tests what.                                                          *)
LibraryTests ==
  {[rules |-> <<rule>>, sizing |-> "fixed"] :
     rule \in {"donchian", "squeeze", "rsi", "trend", "always"}}
ThresholdTests == {[rules |-> <<"probability">>, sizing |-> "fixed"]}
EnsembleTests == {[rules |-> <<"squeeze", "trend">>, sizing |-> "dynamic"]}
ConfidenceTests == {[rules |-> <<>>, sizing |-> "confidence"]}

BacktestInit ==
  /\ setup \in LibraryTests \cup ThresholdTests \cup EnsembleTests \cup ConfidenceTests
  /\ machines = [i \in DOMAIN setup.rules |-> Flat]
  /\ target = 0
  /\ peak = InitialEquity
  /\ result = <<>>
  /\ trades = <<>>

BacktestNext == RunBar \/ ExtractTrades

-----------------------------------------------------------------------------
(* What the trade table says of row i: nothing, or the profit of the trade  *)
(* entered there and the return of its entry bar.                           *)
EnteredAt(i) == {t \in trades.found : t.entry = i}
ExplainedAt(i) ==
  IF EnteredAt(i) = {} THEN 0
  ELSE (CHOOSE t \in EnteredAt(i) : TRUE).pnl
       + result[i].equity - result[i - 1].equity

(* The trade table accounts for the whole curve: what the equity gained or  *)
(* lost over the run is the sum of the trades' profits and of what happened *)
(* in their entry bars (whose cost and first return the table leaves out,   *)
(* although the docstring of extract_long_trades says costs are reflected). *)
(* So no row outside a trade moves the equity, and none is counted twice,   *)
(* also when a stop froze the curve with positions still coming and going.  *)
TradesExplainEquity ==
  trades # <<>> =>
    /\ \A t, u \in trades.found : t.entry = u.entry => t = u
    /\ result[Bars].equity - InitialEquity =
         Total([i \in 1 .. Bars |-> ExplainedAt(i)], Bars)

(* No rule with a holding limit keeps a position longer than the limit:     *)
(* the machine counts closes, the trade table bars of exposure one bar      *)
(* later, and the two agree, re-entries included.                           *)
HoldingBounded ==
  trades # <<>> /\ setup.sizing = "fixed"
  /\ setup.rules[1] \notin StatelessRules =>
    \A t \in trades.found : t.holding <= MaxHolding
=============================================================================
