---------------------------- MODULE DemoExecution ----------------------------
(***************************************************************************)
(* Target-exposure execution against the Binance Futures demo account      *)
(* (exchange/synced_target_execution.py and what it calls): a run reads    *)
(* the position, then the open orders, plans one order and its protective  *)
(* orders from that snapshot, checks the plan and sends the intents one    *)
(* after the other, without a rollback.  Several runs may overlap, the     *)
(* operator's protective-order and cancel scripts run beside them, and the *)
(* exchange fills resting orders whenever it likes.                        *)
(*                                                                         *)
(* Quantities are notional units at the reference price.                   *)
(***************************************************************************)
EXTENDS Integers, FiniteSets, Sequences

CONSTANTS
    Runs,           \* script invocations that may overlap
    Targets,        \* target notionals the signal may ask for
    Cap,            \* broker.safety.max_order_notional_usdt
    MinRebalance,   \* ensemble_demo_execution.min_rebalance_notional
    MaxBlind,       \* bound: runs that send without having read the exchange
    MaxPosition,    \* bound: sizes in the model
    MaxResting      \* bound: orders resting on the exchange

ASSUME RunsAssumption == IsFiniteSet(Runs) /\ Runs # {}
ASSUME TargetsAssumption == Targets \subseteq Nat
MaxTarget == CHOOSE t \in Targets : \A u \in Targets : u <= t

\* The exposure is capped by ensemble_demo_execution.max_exposure.
ASSUME MaxTargetAssumption ==
    MaxTarget \in Targets /\ \A u \in Targets : u <= MaxTarget
ASSUME CapAssumption == Cap \in Nat \ {0}
ASSUME MinRebalanceAssumption == MinRebalance \in Nat \ {0}
ASSUME BoundsAssumption ==
    MaxPosition \in Nat /\ MaxResting \in Nat /\ MaxBlind \in Nat

VARIABLES
    orderType,  \* ensemble_demo_execution.order_type of this deployment
    listed,     \* whether fetch_open_orders returns algo orders too
    position,   \* signed position on the exchange
    buys,       \* resting limit buys: quantity -> how many
    sells,      \* resting reduce-only limit sells: quantity -> how many
    algo,       \* resting conditional (stop, take-profit) orders: same
    pc,         \* where each run is
    fetched,    \* whether a run asked the exchange or took the CLI defaults
    heldQty,    \* the position a run has read
    seesProtection, \* whether its snapshot has a protective order
                    \* (native_protection.min_protective_order_count is 1)
    seesPlain,  \* whether its snapshot has any other open order
    pending,    \* the intents a run has still to send
    blind,      \* history: runs that sent without having read the exchange
    stripped    \* history: the open position has lost its last protective
                \* order to a fill or a cancel since it was opened

exchange == <<position, buys, sells, algo, stripped>>
snapshot == <<fetched, heldQty, seesProtection, seesPlain>>
vars == <<orderType, listed, exchange, pc, snapshot, pending, blind>>

-----------------------------------------------------------------------------
(* Orders.                                                                 *)

Sizes == 1..MaxPosition
Smaller(a, b) == IF a < b THEN a ELSE b
Larger(a, b) == IF a < b THEN b ELSE a

\* ref is the price the safety guard values the intent at, in percent of the
\* reference price.
Intents == [side : {"buy", "sell"}, reduceOnly : BOOLEAN,
            conditional : BOOLEAN, qty : Sizes, ref : {98, 100, 104}]

Buy(q) == [side |-> "buy", reduceOnly |-> FALSE, conditional |-> FALSE,
           qty |-> q, ref |-> 100]

\* Mutant of Sell: the reduce-only flag is forgotten.
SellOpenly(q) == [side |-> "sell", reduceOnly |-> FALSE, conditional |-> FALSE,
                  qty |-> q, ref |-> 100]

Sell(q) == [side |-> "sell", reduceOnly |-> TRUE, conditional |-> FALSE,
            qty |-> q, ref |-> 100]

\* A stop-loss or take-profit order.
Protective(q, ref) == [side |-> "sell", reduceOnly |-> TRUE,
                       conditional |-> TRUE, qty |-> q, ref |-> ref]

\* ExecutionSafetyGuard.validate_order_limits.
WithinCap(i) == i.qty * i.ref <= 100 * Cap

Resting(book) == {q \in Sizes : book[q] > 0}
Count(book) ==
    LET sum[n \in 0..MaxPosition] == IF n = 0 THEN 0 ELSE sum[n-1] + book[n]
    IN  sum[MaxPosition]
Empty == [q \in Sizes |-> 0]

-----------------------------------------------------------------------------
(* The plan and its check.                                                 *)

Action(held, target) ==
    LET delta == target - held
    IN  IF held <= 0 /\ target <= 0 THEN "hold_flat"
        ELSE IF target <= 0 THEN "close"
        ELSE IF delta < MinRebalance /\ -delta < MinRebalance THEN "hold"
        ELSE IF delta > 0 THEN "increase" ELSE "reduce"

\* Mutant of OrderQty: sized by the target, not by the distance to it.
OrderQtyOfTarget(held, target, capped) ==
    LET qty == IF capped THEN Smaller(target, Cap) ELSE target
    IN  IF Action(held, target) = "increase" THEN qty
        ELSE IF Action(held, target) = "reduce" THEN Smaller(held, qty)
        ELSE IF Action(held, target) = "close" THEN Smaller(held, Cap)
        ELSE 0

\* The quantity the plan trades; capped unless the run asked for --no-demo-cap.
OrderQty(held, target, capped) ==
    LET wanted == Larger(target - held, held - target)
        qty == IF capped THEN Smaller(wanted, Cap) ELSE wanted
    IN  IF Action(held, target) = "increase" THEN qty
        ELSE IF Action(held, target) \in {"reduce", "close"} THEN Smaller(held, qty)
        ELSE 0

Order(held, target, capped) ==
    LET qty == OrderQty(held, target, capped)
    IN  IF Action(held, target) = "increase" THEN <<Buy(qty)>>
        ELSE IF Action(held, target) \in {"reduce", "close"} THEN <<Sell(qty)>>
        ELSE <<>>

\* Mutant of Protection: for the position held before the order.
ProtectionOfHeld(held, target, capped) ==
    IF Action(held, target) \in {"increase", "hold"}
    THEN <<Protective(held, 100), Protective(held, 100)>>
    ELSE <<>>

\* Stop and take-profit for the position expected after the order.
Protection(held, target, capped) ==
    LET expected == held + OrderQty(held, target, capped)
    IN  IF expected > 0 /\ Action(held, target) \in {"increase", "hold"}
        THEN <<Protective(expected, 100), Protective(expected, 100)>>
        ELSE <<>>

Plan(held, target, capped, protect) ==
    Order(held, target, capped)
      \o IF protect THEN Protection(held, target, capped) ELSE <<>>

\* Mutant of Blocked: missing protection halts a hold, not an increase.
BlockedWhenHeld(r, action) ==
    \/ heldQty[r] < 0
    \/ heldQty[r] > 0 /\ ~seesProtection[r] /\ action = "hold"
    \/ seesPlain[r]

\* A critical issue of the pre-trade check.
Blocked(r, action) ==
    \/ heldQty[r] < 0
    \/ /\ heldQty[r] > 0
       /\ ~seesProtection[r]
       /\ action \notin {"close", "reduce"}
    \/ seesPlain[r]

-----------------------------------------------------------------------------
(* The exchange.                                                           *)

\* What a reduce-only order of q takes off the position.
Reduction(q) == Smaller(q, Larger(position, 0))

Protected == Resting(sells) # {} \/ Resting(algo) # {}

\* History: a step that takes protective orders away, and one that does not.
Strip == stripped' = (position' > 0 /\ (stripped \/ ~Protected'))
KeepHistory == stripped' = (stripped /\ position' > 0)

\* A market order is filled at once; a reduce-only one needs a position.
Market(i) ==
    /\ ~i.conditional
    /\ orderType = "market"
    /\ \/ /\ i.side = "buy"
          /\ position' = position + i.qty
       \/ /\ i.side = "sell"
          /\ i.reduceOnly => position > 0
          /\ position' = position - IF i.reduceOnly THEN Reduction(i.qty)
                                                    ELSE i.qty
    /\ UNCHANGED <<buys, sells, algo>>

\* A limit order rests until the exchange fills it.
Limit(i) ==
    /\ ~i.conditional
    /\ orderType = "limit"
    /\ \/ /\ i.side = "buy"
          /\ buys' = [buys EXCEPT ![i.qty] = @ + 1]
          /\ UNCHANGED sells
       \/ /\ i.side = "sell"
          /\ sells' = [sells EXCEPT ![i.qty] = @ + 1]
          /\ UNCHANGED buys
    /\ UNCHANGED <<position, algo>>

Conditional(i) ==
    /\ i.conditional
    /\ algo' = [algo EXCEPT ![i.qty] = @ + 1]
    /\ UNCHANGED <<position, buys, sells>>

Accept(i) == (Market(i) \/ Limit(i) \/ Conditional(i)) /\ KeepHistory

FillBuy(q) ==
    /\ q \in Resting(buys)
    /\ buys' = [buys EXCEPT ![q] = @ - 1]
    /\ position' = position + q
    /\ KeepHistory
    /\ UNCHANGED <<sells, algo>>

FillSell(q) ==
    /\ q \in Resting(sells)
    /\ sells' = [sells EXCEPT ![q] = @ - 1]
    /\ position' = position - Reduction(q)
    /\ UNCHANGED <<buys, algo>>
    /\ Strip

Trigger(q) ==
    /\ q \in Resting(algo)
    /\ algo' = [algo EXCEPT ![q] = @ - 1]
    /\ position' = position - Reduction(q)
    /\ UNCHANGED <<buys, sells>>
    /\ Strip

Exchange ==
    /\ \E q \in Sizes : FillBuy(q) \/ FillSell(q) \/ Trigger(q)
    /\ UNCHANGED <<orderType, listed, pc, snapshot, pending, blind>>

-----------------------------------------------------------------------------
(* A run of demo_ensemble_synced_execute.py, or of the unsynced            *)
(* demo_ensemble_target_execute.py.                                        *)

PCs == {"idle", "orders", "plan", "send", "cancelAlgo"}

\* Without --fetch-private a run takes the account for flat, as the defaults of
\* --exchange-qty and --open-order-count say, even if it is to execute.
ReadPosition(r) ==
    /\ pc[r] = "idle"
    /\ \E fetch \in BOOLEAN :
         /\ fetched' = [fetched EXCEPT ![r] = fetch]
         /\ heldQty' = [heldQty EXCEPT ![r] = IF fetch THEN position ELSE 0]
    /\ pc' = [pc EXCEPT ![r] = "orders"]
    /\ UNCHANGED <<orderType, listed, exchange, seesProtection, seesPlain, pending, blind>>

\* classify_open_orders: anything reduce-only or conditional is protective.
ReadOrders(r) ==
    /\ pc[r] = "orders"
    /\ seesProtection' = [seesProtection EXCEPT ![r] =
            fetched[r] /\ (Resting(sells) # {} \/ (listed /\ Resting(algo) # {}))]
    /\ seesPlain' = [seesPlain EXCEPT ![r] = fetched[r] /\ Resting(buys) # {}]
    /\ pc' = [pc EXCEPT ![r] = "plan"]
    /\ UNCHANGED <<orderType, listed, exchange, fetched, heldQty, pending, blind>>

\* The run is over: its snapshot and its plan die with the process.
Over(r) ==
    /\ pc' = [pc EXCEPT ![r] = "idle"]
    /\ fetched' = [fetched EXCEPT ![r] = TRUE]
    /\ heldQty' = [heldQty EXCEPT ![r] = 0]
    /\ seesProtection' = [seesProtection EXCEPT ![r] = FALSE]
    /\ seesPlain' = [seesPlain EXCEPT ![r] = FALSE]
    /\ pending' = [pending EXCEPT ![r] = <<>>]

\* The run goes on to send its plan.
Execute(r, intents) ==
    /\ intents # <<>>
    /\ \A n \in DOMAIN intents : intents[n].qty <= MaxPosition
    /\ pending' = [pending EXCEPT ![r] = intents]
    /\ pc' = [pc EXCEPT ![r] = "send"]

Blindly == blind < MaxBlind /\ blind' = blind + 1

CheckPlan(r) ==
    /\ pc[r] = "plan"
    /\ \E target \in Targets, capped \in BOOLEAN, protect \in BOOLEAN :
         LET held == Larger(heldQty[r], 0)
             intents == Plan(held, target, capped, protect)
         IN  \/ /\ Blocked(r, Action(held, target)) \/ intents = <<>>
                /\ Over(r)
                /\ UNCHANGED blind
             \/ /\ ~Blocked(r, Action(held, target))
                /\ Execute(r, intents)
                /\ IF fetched[r] THEN UNCHANGED blind ELSE Blindly
                /\ UNCHANGED snapshot
    /\ UNCHANGED <<orderType, listed, exchange>>

\* latest_ensemble_target_preview plans on what the paper account holds, which
\* no demo order ever changes; nothing checks the plan.
PlanUnsynced(r) ==
    /\ pc[r] = "idle"
    /\ \E held \in Targets \cup {0}, target \in Targets,
           capped \in BOOLEAN, protect \in BOOLEAN :
         Execute(r, Plan(held, target, capped, protect))
    /\ Blindly
    /\ fetched' = [fetched EXCEPT ![r] = FALSE]
    /\ UNCHANGED <<orderType, listed, exchange, heldQty, seesProtection, seesPlain>>

\* One intent: refused by the guard (the rest is dropped), or accepted.
Send(r) ==
    /\ pc[r] = "send"
    /\ LET i == Head(pending[r])
       IN  \/ /\ ~WithinCap(i)
              /\ Over(r)
              /\ UNCHANGED exchange
           \/ /\ WithinCap(i)
              /\ Count(buys) + Count(sells) + Count(algo) < MaxResting
              /\ Accept(i)
              /\ \/ /\ Len(pending[r]) > 1
                    /\ pending' = [pending EXCEPT ![r] = Tail(@)]
                    /\ UNCHANGED <<pc, snapshot>>
                 \/ Over(r)     \* it was the last, or its answer was lost
    /\ UNCHANGED <<orderType, listed, blind>>

\* A preview, an unconfirmed warning, a refused or failed request, a kill.
Stop(r) ==
    /\ pc[r] # "idle"
    /\ Over(r)
    /\ UNCHANGED <<orderType, listed, exchange, blind>>

-----------------------------------------------------------------------------
(* The operator's scripts.                                                 *)

\* demo_protective_orders_preview.py --execute: stop, then take-profit, each
\* valued at its own trigger price.
PlaceProtection(r) ==
    /\ pc[r] = "idle"
    /\ \E q \in Sizes : pending' =
            [pending EXCEPT ![r] = <<Protective(q, 98), Protective(q, 104)>>]
    /\ pc' = [pc EXCEPT ![r] = "send"]
    /\ UNCHANGED <<orderType, listed, exchange, snapshot, blind>>

\* demo_cancel_open_orders.py --execute: standard orders, then algo orders.
CancelStandard(r) ==
    /\ pc[r] = "idle"
    /\ buys' = Empty
    /\ sells' = Empty
    /\ pc' = [pc EXCEPT ![r] = "cancelAlgo"]
    /\ UNCHANGED <<orderType, listed, position, algo, snapshot, pending, blind>>
    /\ Strip

CancelAlgo(r) ==
    /\ pc[r] = "cancelAlgo"
    /\ algo' = Empty
    /\ Over(r)
    /\ UNCHANGED <<orderType, listed, position, buys, sells, blind>>
    /\ Strip

-----------------------------------------------------------------------------
Init ==
    /\ orderType \in {"market", "limit"}
    /\ listed \in BOOLEAN
    /\ position = 0
    /\ buys = Empty
    /\ sells = Empty
    /\ algo = Empty
    /\ stripped = FALSE
    /\ blind = 0
    /\ pc = [r \in Runs |-> "idle"]
    /\ fetched = [r \in Runs |-> TRUE]
    /\ heldQty = [r \in Runs |-> 0]
    /\ seesProtection = [r \in Runs |-> FALSE]
    /\ seesPlain = [r \in Runs |-> FALSE]
    /\ pending = [r \in Runs |-> <<>>]

Run(r) ==
    \/ ReadPosition(r) \/ ReadOrders(r) \/ CheckPlan(r) \/ PlanUnsynced(r)
    \/ Send(r) \/ Stop(r)
    \/ PlaceProtection(r) \/ CancelStandard(r) \/ CancelAlgo(r)

Next == Exchange \/ \E r \in Runs : Run(r)

Spec == Init /\ [][Next]_vars

-----------------------------------------------------------------------------
(* Properties.                                                             *)

Books == [Sizes -> Nat]

\* Types of the state; every intent to be sent has a positive quantity, as
\* OrderIntent.validate demands (exchange/order_intent.py).
TypeOK ==
    /\ orderType \in {"market", "limit"}
    /\ listed \in BOOLEAN
    /\ position \in Int
    /\ stripped \in BOOLEAN
    /\ blind \in 0..MaxBlind
    /\ buys \in Books /\ sells \in Books /\ algo \in Books
    /\ pc \in [Runs -> PCs]
    /\ fetched \in [Runs -> BOOLEAN]
    /\ heldQty \in [Runs -> Int]
    /\ seesProtection \in [Runs -> BOOLEAN]
    /\ seesPlain \in [Runs -> BOOLEAN]
    /\ pending \in [Runs -> Seq(Intents)]
    /\ \A r \in Runs : pc[r] = "send" => pending[r] # <<>>

\* The system is long-only (pretrade.py, target_position.py): whatever stops,
\* fills and overlapping runs do between a snapshot and the orders planned on
\* it, the position never turns short.
LongOnly == position >= 0

\* The notional that orders planned on an outdated snapshot may add.  Market
\* orders: each run but one may be working from an old position.  Limit
\* orders: besides, the order each run left resting may fill between the two
\* reads of a snapshot and then be in neither of them.  A run that did not
\* look at the exchange at all adds the one order it sends.
Stale ==
    LET runs == Cardinality(Runs)
    IN  Cap * (blind + IF orderType = "market" THEN runs - 1 ELSE 2 * runs - 1)

\* Re-running after a kill or a lost answer never opens the position twice
\* (docs/SAFETY_CHECKLIST.md): the position exceeds the largest target by no
\* more than the overlapping runs and the fills between two reads explain.
ExposureBound == position <= MaxTarget + Stale

\* The pre-trade check halts a position without protective orders (pretrade.py
\* 80-86): one that never had any, because none was asked for or because the
\* guard refused them after the entry, cannot grow beyond its first order.
NakedBound ==
    position > 0 /\ ~Protected /\ ~stripped => position <= Cap + Stale

=============================================================================
