--------------------------- MODULE PaperTrading ---------------------------
(***************************************************************************)
(* Local paper trading: run_paper_step (the model runner) and              *)
(* run_ensemble_paper_step (the ensemble runner) over one SQLite file.     *)
(*                                                                         *)
(* Both runners wake on the same candles, load the one row of              *)
(* account_state, decide and trade in memory, and then make a commit per   *)
(* table: account, order, execution event or target decision, equity.      *)
(* They may be two processes, may be killed between any two commits and    *)
(* may be run again on a candle (--allow-repeat).  A candle is its index   *)
(* in the dataset; money is in whole units, quantities are rounded up to   *)
(* whole contracts, and a level of 0 stands for None.                      *)
(***************************************************************************)
EXTENDS Integers, Sequences, FiniteSets, Totals

CONSTANTS
    Runners,        \* processes that step the account
    Ensemble,       \* the ensemble runners among them
    Bars,           \* rows the dataset may end with
    InitialEquity,
    Leverage,       \* trading.leverage
    EntryPercent,   \* notional of a model entry, percent of equity
    Fee,            \* per contract
    Slip,           \* slippage per contract
    StopDistance,   \* ATR multiples of the protective levels
    TakeDistance,
    TrailDistance,
    MaxHolding,     \* risk.max_holding_bars
    MaxLosses,      \* risk.pause_after_consecutive_losses, 0 to disable
    PauseBars,      \* risk.pause_bars_after_consecutive_losses
    MaxDailyLoss,   \* risk.max_daily_loss_fraction of the initial equity
    BarsPerDay,
    MinRebalance,   \* ensemble_paper.min_rebalance_notional
    Concurrent,     \* whether the steps of two runners may overlap
    MaxCandles,     \* bound: candles of the dataset
    MaxFaults       \* bound: runners killed and runs with --allow-repeat

ASSUME ConstantsAssumption ==
    /\ Ensemble \subseteq Runners
    /\ Bars \subseteq [close : Nat, high : Nat, low : Nat, prob : STRING, trend : BOOLEAN,
                      target : Nat]
    /\ \A b \in Bars : Slip < b.low /\ b.low <= b.close /\ b.close <= b.high
    /\ {InitialEquity, Leverage, EntryPercent, StopDistance, TakeDistance,
        TrailDistance, BarsPerDay, MaxCandles} \subseteq Nat \ {0}
    /\ Concurrent \in BOOLEAN
    /\ {Fee, Slip, MaxHolding, MaxLosses, PauseBars, MaxDailyLoss, MinRebalance,
        MaxFaults} \subseteq Nat

VARIABLES
    dataset,     \* the candles so far
    account,     \* account_state
    orders,      \* orders
    executions,  \* execution_events: <<candle, action>>
    targets,     \* target_exposure_decisions: candles
    curve,       \* equity_curve: candles
    pc,          \* where each runner is in its step
    mem,         \* the account it works on
    at,          \* the candle it works on
    order,       \* the order it filled
    action,      \* the action it decided
    trades,      \* history: orders whose account row was saved
    crashes,     \* runners killed so far
    repeats      \* forced runs so far

tables == <<account, orders, executions, targets, curve>>
memory == <<pc, mem, at, order, action>>
bounds == <<crashes, repeats>>
vars == <<dataset, account, orders, executions, targets, curve, pc, mem, at, order,
          action, trades, crashes, repeats>>

---------------------------------------------------------------------------
(* The account: PaperAccount                                               *)

NewAccount == [cash |-> InitialEquity, qty |-> 0, entry |-> 0, lev |-> Leverage,
               since |-> 0, bars |-> 0, stop |-> 0, take |-> 0, trail |-> 0, peak |-> 0,
               losses |-> 0, pause |-> 0, day |-> 0, daily |-> 0]

InPosition(a) == a.qty # 0
Equity(a, price) == a.cash + a.qty * (price - a.entry)
Day(c) == 1 + (c \div BarsPerDay)
Max2(x, y) == IF x >= y THEN x ELSE y
Contracts(notional, price) == (notional + price - 1) \div price

\* Faulty variant of ResetPosition: the levels of the closed position stay.
ResetKeepsLevels(a) == [a EXCEPT !.qty = 0, !.entry = 0, !.since = 0, !.bars = 0]

ResetPosition(a) == [a EXCEPT !.qty = 0, !.entry = 0, !.since = 0, !.bars = 0,
                              !.stop = 0, !.take = 0, !.trail = 0, !.peak = 0]

RegisterClosed(a, pnl, c) ==
    [a EXCEPT !.day = Day(c),
              !.daily = (IF a.day = Day(c) THEN a.daily ELSE 0) + pnl,
              !.losses = IF pnl < 0 THEN a.losses + 1 ELSE 0]

---------------------------------------------------------------------------
(* The circuit breaker                                                     *)

CanOpen(a, c) ==
    /\ c >= a.pause
    /\ (IF a.day = Day(c) THEN a.daily ELSE 0) > -MaxDailyLoss

\* Faulty variant of AfterClosedTrade: one loss too many before the pause.
AfterClosedTradeLate(a, pnl, c) ==
    LET b == RegisterClosed(a, pnl, c)
    IN  IF MaxLosses > 0 /\ b.losses > MaxLosses THEN [b EXCEPT !.pause = c + PauseBars] ELSE b

AfterClosedTrade(a, pnl, c) ==
    LET b == RegisterClosed(a, pnl, c)
    IN  IF MaxLosses > 0 /\ b.losses >= MaxLosses THEN [b EXCEPT !.pause = c + PauseBars] ELSE b

---------------------------------------------------------------------------
(* Protective levels: ProtectiveOrderManager                               *)

AttachLevels(a, price) == [a EXCEPT !.stop = price - StopDistance, !.take = price + TakeDistance,
                                    !.trail = price - TrailDistance, !.peak = price]

\* Faulty variant of Trailed: the stop follows the last bar down.
TrailedLoosely(a, bar) == [a EXCEPT !.peak = bar.high, !.trail = bar.high - TrailDistance]

Trailed(a, bar) ==
    LET peak == Max2(a.peak, bar.high)
    IN  [a EXCEPT !.peak = peak, !.trail = Max2(a.trail, peak - TrailDistance)]

\* estimated_long_liquidation_price with the buffer of 5 percent.
LiquidationBuffer(a) == (a.entry * (a.lev - 1) * 105) \div (a.lev * 100)

NoExit == 0

\* Faulty variant of ExitTrigger: stops are compared with the close only.
ExitTriggerOnClose(a, bar) ==
    IF bar.close <= Max2(a.stop, a.trail) THEN Max2(a.stop, a.trail)
    ELSE IF bar.high >= a.take THEN a.take
    ELSE NoExit

\* The price at which the bar closes the position: the buffer before the
\* liquidation price, then the nearest stop hit, then the profit target.
ExitTrigger(a, bar) ==
    LET hit == {s \in {a.stop, a.trail} : bar.low <= s}
    IN  IF bar.low <= LiquidationBuffer(a) THEN Max2(LiquidationBuffer(a), bar.low)
        ELSE IF hit # {} THEN CHOOSE s \in hit : \A t \in hit : t <= s
        ELSE IF bar.high >= a.take THEN a.take
        ELSE NoExit

---------------------------------------------------------------------------
(* The brokers.  A fill is the account after it and the order row.         *)

NoOrder == [side |-> "none", qty |-> 0, money |-> 0, flat |-> FALSE]
Unfilled(a) == [account |-> a, order |-> NoOrder]

BuyWithMarginFraction(a, bar, c) ==
    LET fill == bar.close + Slip
        n == Contracts((Equity(a, bar.close) * EntryPercent) \div 100, fill)
    IN  [account |-> [AttachLevels(a, bar.close) EXCEPT
                        !.cash = a.cash - n * Fee, !.qty = n, !.entry = fill,
                        !.lev = Leverage, !.since = c, !.bars = 0],
         order |-> [side |-> "buy", qty |-> n, money |-> -(n * Fee), flat |-> FALSE]]

CloseLong(a, fill) ==
    LET pnl == a.qty * (fill - a.entry) - a.qty * Fee
    IN  [account |-> ResetPosition([a EXCEPT !.cash = a.cash + pnl]),
         order |-> [side |-> "sell", qty |-> a.qty, money |-> pnl, flat |-> TRUE]]

\* DynamicPaperBroker: buying more keeps the levels and averages the entry.
BuyDelta(a, notional, price, c, bar) ==
    LET fill == price + Slip
        n == Contracts(notional, fill)
        b == IF InPosition(a) THEN a ELSE AttachLevels(a, bar.close)
    IN  [account |-> [b EXCEPT !.cash = a.cash - n * Fee, !.qty = a.qty + n,
                               !.entry = (a.qty * a.entry + n * fill) \div (a.qty + n),
                               !.since = IF a.since = 0 THEN c ELSE a.since],
         order |-> [side |-> "buy", qty |-> n, money |-> -(n * Fee), flat |-> FALSE]]

\* Only a sale that leaves nothing counts as a closed trade.
SellDelta(a, notional, price, c, all) ==
    LET fill == price - Slip
        wanted == Contracts(notional, fill)
        n == IF all \/ wanted > a.qty THEN a.qty ELSE wanted
        pnl == n * (fill - a.entry) - n * Fee
        b == [a EXCEPT !.cash = a.cash + pnl, !.qty = a.qty - n]
    IN  IF n = 0 THEN Unfilled(a)
        ELSE [account |-> IF n = a.qty THEN ResetPosition(RegisterClosed(b, pnl, c)) ELSE b,
              order |-> [side |-> "sell", qty |-> n, money |-> pnl, flat |-> n = a.qty]]

RebalanceToExposure(a, target, price, c, bar) ==
    LET equity == Max2(Equity(a, price), 0)
        delta == equity * target - a.qty * price
    IN  IF equity = 0 \/ (a.qty = 0 /\ target = 0) THEN Unfilled(a)
        ELSE IF target = 0 THEN SellDelta(a, a.qty * price, price, c, TRUE)
        ELSE IF delta < MinRebalance /\ -delta < MinRebalance THEN Unfilled(a)
        ELSE IF delta > 0 THEN BuyDelta(a, delta, price, c, bar)
        ELSE SellDelta(a, -delta, price, c, FALSE)

---------------------------------------------------------------------------
(* What a runner decides on a bar                                          *)

\* bars_held counts a step in position, before anything else.
Aged(a) == IF InPosition(a) THEN [a EXCEPT !.bars = @ + 1] ELSE a

ModelAction(a, bar, c) ==
    IF ~InPosition(a)
    THEN IF bar.prob = "buy" /\ bar.trend /\ CanOpen(a, c) THEN "buy" ELSE "hold_cash"
    ELSE IF \/ ExitTrigger(Trailed(a, bar), bar) # NoExit
            \/ bar.prob = "exit"
            \/ ~bar.trend
            \/ a.bars >= MaxHolding
         THEN "sell" ELSE "hold_position"

\* The account a model step works on: in position the trailing stop has moved.
Managed(a, bar) == IF InPosition(a) THEN Trailed(a, bar) ELSE a

ModelFill(a, act, bar, c) ==
    LET trigger == ExitTrigger(a, bar)
        filled == CloseLong(a, IF trigger # NoExit THEN trigger - Slip ELSE bar.close - Slip)
    IN  IF act = "buy" THEN BuyWithMarginFraction(a, bar, c)
        ELSE IF act = "sell"
        THEN [filled EXCEPT !.account = AfterClosedTrade(@, filled.order.money, c)]
        ELSE Unfilled(a)

EffectiveLeverage(a, bar) ==
    LET equity == Equity(a, bar.close)
    IN  IF InPosition(a) THEN Max2(1, (a.qty * bar.close) \div Max2(equity, 1)) ELSE Leverage

EnsembleFill(a, bar, c) ==
    LET trigger == IF InPosition(a) THEN ExitTrigger(a, bar) ELSE NoExit
        f == IF trigger # NoExit THEN RebalanceToExposure(a, 0, trigger - Slip, c, bar)
             ELSE RebalanceToExposure(a, bar.target, bar.close, c, bar)
    IN  [f EXCEPT !.account.lev = EffectiveLeverage(f.account, bar)]

---------------------------------------------------------------------------
(* The step of a runner, commit by commit                                  *)

PCs == {"idle", "loaded", "fresh", "decided", "saved", "ordered", "logged"}
Actions == {"none", "buy", "sell", "hold_cash", "hold_position", "rebalance"}

Latest == Len(dataset)
LastProcessed == IF curve = {} THEN 0 ELSE CHOOSE c \in curve : \A d \in curve : d <= c

Init ==
    /\ \E b \in Bars : dataset = <<b>>
    /\ account = NewAccount
    /\ orders = <<>>
    /\ executions = {}
    /\ targets = {}
    /\ curve = {}
    /\ pc = [r \in Runners |-> "idle"]
    /\ mem = [r \in Runners |-> NewAccount]
    /\ at = [r \in Runners |-> 0]
    /\ order = [r \in Runners |-> NoOrder]
    /\ action = [r \in Runners |-> "none"]
    /\ trades = <<>>
    /\ crashes = 0
    /\ repeats = 0

\* A new candle closes and the dataset is rebuilt.
NewCandle(b) ==
    /\ Latest < MaxCandles
    /\ dataset' = Append(dataset, b)
    /\ UNCHANGED <<tables, memory, trades, bounds>>

\* No lock is taken: only Concurrent = FALSE keeps the steps apart.
Load(r) ==
    /\ pc[r] = "idle"
    /\ Concurrent \/ \A q \in Runners : pc[q] = "idle"
    /\ mem' = [mem EXCEPT ![r] = account]
    /\ pc' = [pc EXCEPT ![r] = "loaded"]
    /\ UNCHANGED <<dataset, tables, at, order, action, trades, bounds>>

\* Faulty variants of Processed: the last candle counts as new, or the one
\* after it as old.
ProcessedStrictly(r) == IF r \in Ensemble THEN Latest \in targets ELSE Latest < LastProcessed
ProcessedEarly(r) == Latest - 1 <= LastProcessed /\ curve # {}

\* The ensemble runner asks its own table, the model runner the equity curve.
Processed(r) == IF r \in Ensemble THEN Latest \in targets ELSE Latest <= LastProcessed

Forget(r) ==
    /\ pc' = [pc EXCEPT ![r] = "idle"]
    /\ mem' = [mem EXCEPT ![r] = NewAccount]
    /\ at' = [at EXCEPT ![r] = 0]
    /\ order' = [order EXCEPT ![r] = NoOrder]
    /\ action' = [action EXCEPT ![r] = "none"]

Skip(r) ==
    /\ pc[r] = "loaded"
    /\ Processed(r)
    /\ Forget(r)
    /\ UNCHANGED <<dataset, tables, trades, bounds>>

Check(r) ==
    /\ pc[r] = "loaded"
    /\ pc' = [pc EXCEPT ![r] = "fresh"]
    /\ at' = [at EXCEPT ![r] = Latest]
    /\ UNCHANGED <<dataset, tables, mem, order, action, trades, crashes>>

Take(r) == ~Processed(r) /\ repeats' = repeats /\ Check(r)

\* --allow-repeat: the candle is taken although it was processed.
Repeat(r) == Processed(r) /\ crashes + repeats < MaxFaults /\ repeats' = repeats + 1 /\ Check(r)

\* An action that was executed on the candle before is not executed again.
Duplicate(act, c) == act \in {"buy", "sell"} /\ <<c, act>> \in executions

Decide(r) ==
    LET bar == dataset[at[r]]
        c == at[r]
        a == Managed(Aged(mem[r]), bar)
        act == IF r \in Ensemble THEN "rebalance" ELSE ModelAction(Aged(mem[r]), bar, c)
        f == IF r \in Ensemble THEN EnsembleFill(a, bar, c)
             ELSE IF Duplicate(act, c) THEN Unfilled(a)
             ELSE ModelFill(a, act, bar, c)
    IN  /\ pc[r] = "fresh"
        /\ mem' = [mem EXCEPT ![r] = f.account]
        /\ order' = [order EXCEPT ![r] = f.order]
        /\ action' = [action EXCEPT ![r] = act]
        /\ pc' = [pc EXCEPT ![r] = "decided"]
        /\ UNCHANGED <<dataset, tables, at, trades, bounds>>

Trade(r) == [candle |-> at[r], by |-> IF r \in Ensemble THEN "ensemble" ELSE "model",
             side |-> order[r].side, qty |-> order[r].qty, money |-> order[r].money,
             flat |-> order[r].flat]

SaveAccount(r) ==
    /\ pc[r] = "decided"
    /\ account' = mem[r]
    /\ trades' = IF order[r] = NoOrder THEN trades ELSE Append(trades, Trade(r))
    /\ pc' = [pc EXCEPT ![r] = IF order[r] = NoOrder THEN "ordered" ELSE "saved"]
    /\ UNCHANGED <<dataset, orders, executions, targets, curve, mem, at, order, action, bounds>>

\* Faulty variant of AppendOrder: an order of the ensemble runner is not stored.
AppendModelOrder(r) ==
    /\ pc[r] = "saved"
    /\ orders' = IF r \in Ensemble THEN orders ELSE Append(orders, Trade(r))
    /\ pc' = [pc EXCEPT ![r] = "ordered"]
    /\ UNCHANGED <<dataset, account, executions, targets, curve, mem, at, order, action,
                   trades, bounds>>

AppendOrder(r) ==
    /\ pc[r] = "saved"
    /\ orders' = Append(orders, Trade(r))
    /\ pc' = [pc EXCEPT ![r] = "ordered"]
    /\ UNCHANGED <<dataset, account, executions, targets, curve, mem, at, order, action,
                   trades, bounds>>

AppendExecution(r) ==
    /\ pc[r] = "ordered"
    /\ r \notin Ensemble
    /\ executions' = executions \cup {<<at[r], action[r]>>}
    /\ pc' = [pc EXCEPT ![r] = "logged"]
    /\ UNCHANGED <<dataset, account, orders, targets, curve, mem, at, order, action,
                   trades, bounds>>

AppendTarget(r) ==
    /\ pc[r] = "ordered"
    /\ r \in Ensemble
    /\ targets' = targets \cup {at[r]}
    /\ pc' = [pc EXCEPT ![r] = "logged"]
    /\ UNCHANGED <<dataset, account, orders, executions, curve, mem, at, order, action,
                   trades, bounds>>

AppendEquity(r) ==
    /\ pc[r] = "logged"
    /\ curve' = curve \cup {at[r]}
    /\ Forget(r)
    /\ UNCHANGED <<dataset, account, orders, executions, targets, trades, bounds>>

\* The process is killed, or a commit fails: the step is abandoned.
Crash(r) ==
    /\ pc[r] # "idle"
    /\ crashes + repeats < MaxFaults
    /\ crashes' = crashes + 1
    /\ Forget(r)
    /\ UNCHANGED <<dataset, tables, trades, repeats>>

Step(r) ==
    \/ Load(r)
    \/ Skip(r)
    \/ Take(r)
    \/ Decide(r)
    \/ SaveAccount(r)
    \/ AppendOrder(r)
    \/ AppendExecution(r)
    \/ AppendTarget(r)
    \/ AppendEquity(r)

Next ==
    \/ \E b \in Bars : NewCandle(b)
    \/ \E r \in Runners : Step(r) \/ Repeat(r) \/ Crash(r)

Spec == Init /\ [][Next]_vars

\* The loops catch every exception, sleep and run again, and a killed loop is
\* started again: somebody goes on stepping.  No candle has to come.
FairSpec == Spec /\ WF_vars(\E r \in Runners : Step(r))

---------------------------------------------------------------------------
(* Properties                                                              *)

Accounts == [cash : Int, qty : Nat, entry : Nat, lev : Nat \ {0}, since : Nat, bars : Nat,
             stop : Int, take : Nat, trail : Int, peak : Nat, losses : Nat, pause : Nat,
             day : Nat, daily : Int]
Orders == [side : {"none", "buy", "sell"}, qty : Nat, money : Int, flat : BOOLEAN]
Rows == [candle : Nat \ {0}, by : {"model", "ensemble"}, side : {"buy", "sell"},
         qty : Nat \ {0}, money : Int, flat : BOOLEAN]

\* A flat account carries nothing of the position it had.
Coherent(a) ==
    IF InPosition(a) THEN a.entry > 0 /\ a.since > 0 /\ a.trail =< a.peak
    ELSE <<a.entry, a.since, a.bars, a.stop, a.take, a.trail, a.peak>> = <<0, 0, 0, 0, 0, 0, 0>>

\* Types, and the account coherent in the file and in the runners' memory:
\* flat exactly when no field of a position is left (reset_position_state).
TypeOK ==
    /\ dataset \in Seq(Bars) /\ Latest \in 1 .. MaxCandles
    /\ account \in Accounts /\ Coherent(account)
    /\ orders \in Seq(Rows) /\ trades \in Seq(Rows)
    /\ executions \subseteq (1 .. Latest) \X Actions
    /\ targets \subseteq 1 .. Latest /\ curve \subseteq 1 .. Latest
    /\ pc \in [Runners -> PCs]
    /\ mem \in [Runners -> Accounts] /\ \A r \in Runners : Coherent(mem[r])
    /\ at \in [Runners -> 0 .. Latest]
    /\ order \in [Runners -> Orders]
    /\ action \in [Runners -> Actions]
    /\ crashes \in Nat /\ repeats \in Nat /\ crashes + repeats <= MaxFaults

\* What a list of orders adds up to.
Signed(o) == IF o.side = "buy" THEN o.qty ELSE -o.qty
Money(rows) == Total([i \in DOMAIN rows |-> rows[i].money], Len(rows))
Position(rows) == Total([i \in DOMAIN rows |-> Signed(rows[i])], Len(rows))

\* The orders table explains the account row: as long as no step is
\* killed, cash and position are what the stored orders of both
\* runners add up to, whatever was skipped, blocked or repeated.
OrdersExplainAccount ==
    (crashes = 0 /\ \A r \in Runners : pc[r] = "idle") =>
        /\ account.cash = InitialEquity + Money(orders)
        /\ account.qty = Position(orders)

Count(c, kind, sides) ==
    Cardinality({i \in DOMAIN trades : /\ trades[i].candle = c
                                       /\ trades[i].by = kind
                                       /\ trades[i].side \in sides})

\* "avoid repeated decisions on the same latest candle": a runner
\* trades a candle once.  Only a kill between two commits repeats it,
\* and even --allow-repeat makes the model runner buy and sell at most once.
OncePerCandle ==
    \A c \in 1 .. Latest :
        /\ Count(c, "model", {"buy"}) <= 1 + crashes
        /\ Count(c, "model", {"sell"}) <= 1 + crashes
        /\ repeats = 0 => \A k \in {"model", "ensemble"} : Count(c, k, {"buy", "sell"}) <= 1 + crashes

\* A held position survived every bar the runners finished since it was
\* opened: none reached the stop loss or the profit target, and the one just
\* finished did not reach the trailing stop.
StopHonoured ==
    InPosition(account) =>
        /\ \A c \in curve : c > account.since =>
              dataset[c].low > account.stop /\ dataset[c].high < account.take
        /\ \A r \in Runners : (pc[r] = "logged" /\ at[r] > account.since) =>
              dataset[at[r]].low > account.trail

\* The trades that closed a position.
Closes == {i \in DOMAIN trades : trades[i].flat}
ClosesBetween(k, i) == {j \in Closes : k <= j /\ j <= i}
LosesThrough(k, i) == \A j \in ClosesBetween(k, i) : trades[j].money < 0

\* The model closed the last of MaxLosses losing trades in a row less than
\* PauseBars candles before c.
EndsStreak(k, i) ==
    /\ MaxLosses > 0 /\ Cardinality(ClosesBetween(k, i)) >= MaxLosses
    /\ LosesThrough(k, i)
    /\ trades[i].by = "model"
InLossPause(c) ==
    \E k, i \in Closes : EndsStreak(k, i) /\ c < trades[i].candle + PauseBars

\* The result of the trades closed on a day.
LostOn(day) == Total([i \in DOMAIN trades |->
                        IF trades[i].flat /\ Day(trades[i].candle) = day
                        THEN trades[i].money ELSE 0], Len(trades))

ModelEnters == /\ trades' # trades
               /\ trades'[Len(trades')].by = "model"
               /\ trades'[Len(trades')].side = "buy"

\* The model runner opens no position during the pause that follows a streak
\* of losses, nor on a day whose closed trades lost MaxDailyLoss, across
\* kills and restarts and whatever the ensemble runner closed in between.
BreakerHolds ==
    [][ModelEnters =>
          LET c == trades'[Len(trades')].candle
          IN  ~InLossPause(c) /\ LostOn(Day(c)) > -MaxDailyLoss]_vars

\* While a position is held its trailing stop never moves down and its stop
\* loss stays, in whichever runner's hands it is and whatever is added to it.
StopsOnlyTighten ==
    [][(/\ InPosition(account) /\ InPosition(account')
        /\ account'.since = account.since)
       => account'.trail >= account.trail /\ account'.stop = account.stop]_vars

\* The loops keep up: again and again one of the runners has processed the
\* latest candle, after kills in the middle of a candle too.
KeepsUp == []<>(Latest \in targets \cup curve)

===========================================================================
