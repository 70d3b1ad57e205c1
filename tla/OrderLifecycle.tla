-------------------------- MODULE OrderLifecycle --------------------------
(***************************************************************************)
(* Ingestion of user-data events: ExchangeStateSynchronizer.ingest_event   *)
(* and the order state machine it drives.                                  *)
(*                                                                         *)
(* The exchange emits one stream of order and account events.  A listener  *)
(* is a process that follows the stream for a number of messages, or a     *)
(* replay script that feeds recorded events to the same database; nothing  *)
(* starts it again but an operator.  ingest_event makes a commit per       *)
(* table: the raw event, the order row, the lifecycle row computed from    *)
(* the row read before it, the transition and the protection plan.         *)
(***************************************************************************)
EXTENDS Integers, Sequences, FiniteSets

CONSTANTS
    Orders,       \* client order ids
    Reducing,     \* the reduce-only ones among them
    Qty,          \* original quantity of every order
    Listeners,    \* processes that ingest
    MaxMessages,  \* --max-messages: a listener closes its socket after so many
    MaxLost,      \* bound: events missed while no socket is open, or cut short
    MaxReplays    \* bound: events fed again by a replay

ASSUME ConstantsAssumption ==
    /\ Reducing \subseteq Orders
    /\ Qty \in Nat \ {0}
    /\ MaxMessages \in Nat \ {0}
    /\ MaxLost \in Nat
    /\ MaxReplays \in Nat

VARIABLES
    status,      \* exchange: status of each order, "NONE" before it exists
    filled,      \* exchange: quantity executed
    position,    \* exchange: contracts held
    emitted,     \* exchange: events sent so far
    cursor,      \* how many of them each listener has received or missed
    left,        \* messages each still takes, 0 when its socket is closed
    pc,          \* where each listener is in ingest_event
    at,          \* index of the event it ingests
    prev,        \* the lifecycle row it loaded
    events,      \* exchange_events: indices of the events recorded
    orderRow,    \* exchange_order_state.order_status
    lifeState,   \* exchange_order_lifecycle.state, "absent" without a row
    lifeFilled,  \* exchange_order_lifecycle.filled_quantity
    lastRow,     \* the last order_state_transitions row of each order
    audited,     \* sum of the filled_quantity_delta of those rows
    snapshot,    \* position_amount of the last position snapshot
    planned,     \* desired quantity of the last protection plan
    lost,        \* events some listener missed or did not finish
    replays      \* events fed again so far

venue == <<status, filled, position, emitted>>
lifecycleRow == <<lifeState, lifeFilled>>
tables == <<events, orderRow, lifeState, lifeFilled, lastRow, audited, snapshot, planned>>
memory == <<left, pc, at, prev>>
bounds == <<lost, replays>>

vars == <<status, filled, position, emitted, cursor, left, pc, at, prev, events, orderRow,
          lifeState, lifeFilled, lastRow, audited, snapshot, planned, lost, replays>>

Statuses == {"NEW", "PARTIALLY_FILLED", "FILLED", "CANCELED", "EXPIRED", "REJECTED", "OTHER"}
ExecTypes == {"NONE", "TRADE", "CANCELED", "EXPIRED", "REJECTED"}

Events == [kind : {"order"}, order : Orders, status : Statuses, exec : ExecTypes, filled : 0 .. Qty]
          \cup [kind : {"account"}, amount : Int]

States == {"new", "partially_filled", "filled", "canceled", "expired", "rejected", "unknown"}

Row == [state : States \cup {"absent"}, filled : Nat]
NoRow == [state |-> "absent", filled |-> 0]

Reasons == {"exchange_event", "partial_fill_detected", "order_ended", "unknown_order_state",
            "unexpected_transition_after_final_state"}

Transition == [previous : {"none", "unknown"}, new : States \cup {"absent"}, reason : Reasons]
NoTransition == [previous |-> "none", new |-> "absent", reason |-> "exchange_event"]

PCs == {"idle", "recorded", "ordered", "loaded", "written", "planning"}

VenueOK ==
    /\ status \in [Orders -> Statuses \cup {"NONE"}]
    /\ filled \in [Orders -> 0 .. Qty]
    /\ position \in Int
    /\ emitted \in Seq(Events)

ListenersOK ==
    /\ cursor \in [Listeners -> 0 .. Len(emitted)]
    /\ left \in [Listeners -> 0 .. MaxMessages]
    /\ pc \in [Listeners -> PCs]
    /\ at \in [Listeners -> Nat]
    /\ prev \in [Listeners -> Row]
    /\ \A l \in Listeners : pc[l] # "idle" =>
          /\ at[l] \in 1 .. Len(emitted)
          /\ pc[l] # "recorded" => emitted[at[l]].kind = "order"

TablesOK ==
    /\ events \subseteq 1 .. Len(emitted)
    /\ orderRow \in [Orders -> Statuses \cup {"NONE"}]
    /\ lifeState \in [Orders -> States \cup {"absent"}]
    /\ lifeFilled \in [Orders -> 0 .. Qty]
    /\ lastRow \in [Orders -> Transition]
    /\ audited \in [Orders -> Nat]
    /\ snapshot \in Int
    /\ planned \in [Orders -> 0 .. Qty]

TypeOK ==
    /\ VenueOK
    /\ ListenersOK
    /\ TablesOK
    /\ lost \subseteq Nat
    /\ replays \in 0 .. MaxReplays

Init ==
    /\ status = [o \in Orders |-> "NONE"]
    /\ filled = [o \in Orders |-> 0]
    /\ position = 0
    /\ emitted = <<>>
    /\ cursor = [l \in Listeners |-> 0]
    /\ left = [l \in Listeners |-> 0]
    /\ pc = [l \in Listeners |-> "idle"]
    /\ at = [l \in Listeners |-> 0]
    /\ prev = [l \in Listeners |-> NoRow]
    /\ events = {}
    /\ orderRow = [o \in Orders |-> "NONE"]
    /\ lifeState = [o \in Orders |-> "absent"]
    /\ lifeFilled = [o \in Orders |-> 0]
    /\ lastRow = [o \in Orders |-> NoTransition]
    /\ audited = [o \in Orders |-> 0]
    /\ snapshot = 0
    /\ planned = [o \in Orders |-> 0]
    /\ lost = {}
    /\ replays = 0

---------------------------------------------------------------------------
(* The exchange                                                            *)

OrderEvent(o, st, x, f) ==
    [kind |-> "order", order |-> o, status |-> st, exec |-> x, filled |-> f]

Accept(o, st) ==
    /\ status[o] = "NONE"
    /\ status' = [status EXCEPT ![o] = st]
    /\ emitted' = Append(emitted, OrderEvent(o, st, "NONE", 0))
    /\ UNCHANGED <<filled, position, cursor, memory, tables, bounds>>

\* A fill changes the position first; a reduce-only order never flips it.
Trade(o, n) ==
    LET total == filled[o] + n
        st == IF total = Qty THEN "FILLED" ELSE "PARTIALLY_FILLED"
        held == IF o \in Reducing THEN position - n ELSE position + n
    IN  /\ status[o] \in {"NEW", "PARTIALLY_FILLED"}
        /\ total <= Qty
        /\ held >= 0
        /\ status' = [status EXCEPT ![o] = st]
        /\ filled' = [filled EXCEPT ![o] = total]
        /\ position' = held
        /\ emitted' = emitted \o << [kind |-> "account", amount |-> held],
                                    OrderEvent(o, st, "TRADE", total) >>
        /\ UNCHANGED <<cursor, memory, tables, bounds>>

\* The order ends unfilled; "OTHER" is a status the code has no name for, and
\* the execution type then says more than the status.
End(o, st, x) ==
    /\ status[o] \in {"NEW", "PARTIALLY_FILLED"}
    /\ st \in {"CANCELED", "EXPIRED", "OTHER"}
    /\ st # "OTHER" => x = st
    /\ status' = [status EXCEPT ![o] = st]
    /\ emitted' = Append(emitted, OrderEvent(o, st, x, filled[o]))
    /\ UNCHANGED <<filled, position, cursor, memory, tables, bounds>>

---------------------------------------------------------------------------
(* The order state machine: apply_event                                    *)

FinalStates == {"filled", "canceled", "expired", "rejected"}

Named == [NEW |-> "new", PARTIALLY_FILLED |-> "partially_filled", FILLED |-> "filled",
          CANCELED |-> "canceled", EXPIRED |-> "expired", REJECTED |-> "rejected"]

\* Faulty variant of Canonical: a status without a name is stored as it is.
CanonicalVerbatim(st, x) == IF st \in DOMAIN Named THEN Named[st] ELSE st

\* canonicalize_order_status: the execution type counts when the status has no name.
Canonical(st, x) ==
    IF st \in DOMAIN Named THEN Named[st]
    ELSE IF x = "TRADE" THEN "partially_filled"
    ELSE IF x \in {"CANCELED", "EXPIRED", "REJECTED"} THEN Named[x]
    ELSE "unknown"

\* lifecycle_from_exchange_order_row asks the lifecycle row for the column
\* order_status, which it does not have: the state it finds is "unknown".
PreviousState(row) == IF row.state = "absent" THEN "none" ELSE "unknown"

\* Faulty variants of TotalFilled: the cumulative quantity is added up again,
\* or the quantity of the last fill is taken for the total.
SummedFilled(e, row) == IF e.filled + row.filled > Qty THEN Qty ELSE e.filled + row.filled
LastFill(e, row) == IF e.filled > row.filled THEN e.filled - row.filled ELSE 0

\* The stream always carries the cumulative quantity, and it is trusted.
TotalFilled(e, row) == e.filled

\* Faulty variant of Delta: without a row to compare with nothing is counted.
DeltaAfterFirst(e, row) == IF row.state = "absent" \/ e.filled < row.filled
                           THEN 0 ELSE e.filled - row.filled

Delta(e, row) == LET d == TotalFilled(e, row) - row.filled IN IF d > 0 THEN d ELSE 0

\* Faulty variant of NewState: a complete fill is taken for a partial one.
NewStateOffByOne(e, row) ==
    LET st == Canonical(e.status, e.exec)
    IN  IF st = "filled" /\ TotalFilled(e, row) <= Qty THEN "partially_filled" ELSE st

NewState(e, row) ==
    LET st == Canonical(e.status, e.exec)
        total == TotalFilled(e, row)
    IN  IF st = "filled" /\ total < Qty THEN "partially_filled"
        ELSE IF st = "unknown" /\ total > row.filled THEN "partially_filled"
        ELSE st

Reason(previous, st) ==
    IF previous \in FinalStates /\ st \notin FinalStates
    THEN "unexpected_transition_after_final_state"
    ELSE IF st = "partially_filled" THEN "partial_fill_detected"
    ELSE IF st \in {"rejected", "expired"} THEN "order_ended"
    ELSE IF st = "unknown" THEN "unknown_order_state"
    ELSE "exchange_event"

\* A partial fill of an entry calls for a protection plan.
NeedsPlan(o, st, f) == st = "partially_filled" /\ o \notin Reducing /\ f > 0

---------------------------------------------------------------------------
(* ingest_event, commit by commit                                          *)

Event(l) == emitted[at[l]]

\* Faulty variant of Record: only account events reach the audit log.
RecordAccountsOnly(l, i) ==
    /\ pc[l] = "idle"
    /\ events' = IF emitted[i].kind = "account" THEN events \cup {i} ELSE events
    /\ pc' = [pc EXCEPT ![l] = "recorded"]
    /\ at' = [at EXCEPT ![l] = i]
    /\ UNCHANGED <<venue, prev, orderRow, lifecycleRow, lastRow, audited, snapshot, planned>>

\* append_exchange_event, for event i.
Record(l, i) ==
    /\ pc[l] = "idle"
    /\ events' = events \cup {i}
    /\ pc' = [pc EXCEPT ![l] = "recorded"]
    /\ at' = [at EXCEPT ![l] = i]
    /\ UNCHANGED <<venue, prev, orderRow, lifecycleRow, lastRow, audited, snapshot, planned>>

\* on_message counts every message; the last one it takes is still ingested.
Receive(l) ==
    /\ left[l] > 0
    /\ cursor[l] < Len(emitted)
    /\ Record(l, cursor[l] + 1)
    /\ cursor' = [cursor EXCEPT ![l] = @ + 1]
    /\ left' = [left EXCEPT ![l] = @ - 1]
    /\ UNCHANGED bounds

\* A process that follows no stream feeds event i.
Replay(l, i) ==
    /\ left[l] = 0
    /\ i \in 1 .. Len(emitted)
    /\ replays < MaxReplays
    /\ replays' = replays + 1
    /\ Record(l, i)
    /\ UNCHANGED <<cursor, left, lost>>

\* upsert_exchange_order_state, or the position snapshot of an account event.
UpsertOrder(l) ==
    /\ pc[l] = "recorded"
    /\ Event(l).kind = "order"
    /\ orderRow' = [orderRow EXCEPT ![Event(l).order] = Event(l).status]
    /\ pc' = [pc EXCEPT ![l] = "ordered"]
    /\ UNCHANGED <<venue, cursor, left, at, prev, events, lifecycleRow, lastRow, audited,
                   snapshot, planned, bounds>>

RecordPosition(l) ==
    /\ pc[l] = "recorded"
    /\ Event(l).kind = "account"
    /\ snapshot' = Event(l).amount
    /\ pc' = [pc EXCEPT ![l] = "idle"]
    /\ UNCHANGED <<venue, cursor, left, at, prev, events, orderRow, lifecycleRow, lastRow,
                   audited, planned, bounds>>

LoadLifecycle(l) ==
    LET o == Event(l).order
    IN  /\ pc[l] = "ordered"
        /\ prev' = [prev EXCEPT ![l] = [state |-> lifeState[o], filled |-> lifeFilled[o]]]
        /\ pc' = [pc EXCEPT ![l] = "loaded"]
        /\ UNCHANGED <<venue, cursor, left, at, tables, bounds>>

UpsertLifecycle(l) ==
    LET e == Event(l)
    IN  /\ pc[l] = "loaded"
        /\ lifeState' = [lifeState EXCEPT ![e.order] = NewState(e, prev[l])]
        /\ lifeFilled' = [lifeFilled EXCEPT ![e.order] = TotalFilled(e, prev[l])]
        /\ pc' = [pc EXCEPT ![l] = "written"]
        /\ UNCHANGED <<venue, cursor, left, at, prev, events, orderRow, lastRow, audited,
                       snapshot, planned, bounds>>

AppendTransition(l) ==
    LET e == Event(l)
        st == NewState(e, prev[l])
        previous == PreviousState(prev[l])
    IN  /\ pc[l] = "written"
        /\ lastRow' = [lastRow EXCEPT ![e.order] =
               [previous |-> previous, new |-> st, reason |-> Reason(previous, st)]]
        /\ audited' = [audited EXCEPT ![e.order] = @ + Delta(e, prev[l])]
        /\ pc' = [pc EXCEPT ![l] =
               IF NeedsPlan(e.order, st, TotalFilled(e, prev[l])) THEN "planning" ELSE "idle"]
        /\ UNCHANGED <<venue, cursor, left, at, prev, events, orderRow, lifecycleRow, snapshot,
                       planned, bounds>>

\* ingest_event passes no open orders: the plan protects the whole quantity.
AppendPlan(l) ==
    LET e == Event(l)
    IN  /\ pc[l] = "planning"
        /\ planned' = [planned EXCEPT ![e.order] = TotalFilled(e, prev[l])]
        /\ pc' = [pc EXCEPT ![l] = "idle"]
        /\ UNCHANGED <<venue, cursor, left, at, prev, events, orderRow, lifecycleRow, lastRow,
                       audited, snapshot, bounds>>

---------------------------------------------------------------------------
(* What may go wrong                                                       *)

\* The script is started, the first time or after it ended: what the exchange
\* sent while no socket was open is not sent again.
Listen(l) ==
    LET missed == cursor[l] + 1 .. Len(emitted)
    IN  /\ left[l] = 0
        /\ pc[l] = "idle"
        /\ Cardinality(lost \cup missed) <= MaxLost
        /\ cursor' = [cursor EXCEPT ![l] = Len(emitted)]
        /\ left' = [left EXCEPT ![l] = MaxMessages]
        /\ lost' = lost \cup missed
        /\ UNCHANGED <<venue, pc, at, prev, tables, replays>>

\* The connection breaks: run_forever returns and the script ends.
Disconnect(l) ==
    /\ left[l] > 0
    /\ pc[l] = "idle"
    /\ left' = [left EXCEPT ![l] = 0]
    /\ UNCHANGED <<venue, cursor, pc, at, prev, tables, bounds>>

\* The process is killed within an event.
Crash(l) ==
    /\ pc[l] # "idle"
    /\ Cardinality(lost) < MaxLost
    /\ left' = [left EXCEPT ![l] = 0]
    /\ pc' = [pc EXCEPT ![l] = "idle"]
    /\ lost' = lost \cup {at[l]}
    /\ UNCHANGED <<venue, cursor, at, prev, tables, replays>>

---------------------------------------------------------------------------

Ingest(l) ==
    \/ Receive(l)
    \/ UpsertOrder(l)
    \/ RecordPosition(l)
    \/ LoadLifecycle(l)
    \/ UpsertLifecycle(l)
    \/ AppendTransition(l)
    \/ AppendPlan(l)

Next ==
    \/ \E o \in Orders, st \in {"NEW", "REJECTED"} : Accept(o, st)
    \/ \E o \in Orders, n \in 1 .. Qty : Trade(o, n)
    \/ \E o \in Orders, st \in Statuses, x \in ExecTypes \ {"TRADE"} : End(o, st, x)
    \/ \E l \in Listeners : Ingest(l) \/ Listen(l) \/ Disconnect(l) \/ Crash(l)
    \/ \E l \in Listeners, i \in 1 .. Len(emitted) : Replay(l, i)

Spec == Init /\ [][Next]_vars

\* A listener whose socket is open takes the next message and ingests it.  No
\* fairness starts the script, and none keeps its connection.
FairSpec == Spec /\ \A l \in Listeners : WF_vars(Ingest(l))

---------------------------------------------------------------------------
(* Properties for any number of listeners, replays, misses and kills       *)

IsOrderEvent(i, o) == emitted[i].kind = "order" /\ emitted[i].order = o

\* The audit log explains the lifecycle table: whatever is interleaved or
\* killed, the row of an order was computed from an event already recorded.
LifecycleExplained ==
    \A o \in Orders : lifeState[o] # "absent" =>
        \E i \in events : IsOrderEvent(i, o) /\ emitted[i].filled = lifeFilled[o]

\* Neither the lifecycle table nor a protection plan ever claims more than
\* the exchange has executed, not even when old events are fed again.
NoPhantomFill ==
    \A o \in Orders : lifeFilled[o] <= filled[o] /\ planned[o] <= filled[o]

\* Fills are not lost from the audit trail: unless an event was cut short, the
\* recorded deltas of an order add up to at least its filled quantity, even
\* when listeners compute them from rows that are already stale.
FillsAccounted ==
    \A o \in Orders :
        lost = {} /\ (\A l \in Listeners : pc[l] = "written" => Event(l).order # o)
        => audited[o] >= lifeFilled[o]

---------------------------------------------------------------------------
(* Properties of a single listener that replays nothing                    *)

\* Everybody has done with the last event of an order, and it was not lost.
UpToDate(o) ==
    \E i \in 1 .. Len(emitted) :
        /\ IsOrderEvent(i, o)
        /\ \A j \in i + 1 .. Len(emitted) : ~IsOrderEvent(j, o)
        /\ i \notin lost
        /\ \A l \in Listeners : cursor[l] >= i /\ pc[l] = "idle"

\* The last event heals whatever was missed before it: the tables then show
\* the exchange's status and quantity, and a partial fill has its plan.
MirrorsExchange ==
    \A o \in Orders : UpToDate(o) =>
        /\ orderRow[o] = status[o]
        /\ lifeFilled[o] = filled[o]
        /\ status[o] # "OTHER" => lifeState[o] = Canonical(status[o], "NONE")
        /\ NeedsPlan(o, lifeState[o], filled[o]) => planned[o] = filled[o]

\* Delivered in order, events never lower a filled quantity and never take an
\* order out of a final state.
OnlyForward ==
    [][\A o \in Orders :
          /\ lifeFilled'[o] >= lifeFilled[o]
          /\ lifeState[o] \in FinalStates => lifeState'[o] = lifeState[o]]_vars

\* The end of an order is eventually in the lifecycle table, unless the very
\* event that tells it was missed or cut short, or a listener stops for good:
\* it closes its socket after max-messages, and nothing starts it again.
EndMissed(o) ==
    \E i \in lost : /\ i <= Len(emitted)
                    /\ IsOrderEvent(i, o)
                    /\ emitted[i].status = status[o]

EndIsLearned ==
    \A o \in Orders, l \in Listeners :
        []<>(left[l] > 0) =>
            ((status[o] \in {"FILLED", "CANCELED", "EXPIRED", "REJECTED"})
                ~> (lifeState[o] \in FinalStates \/ EndMissed(o)))

---------------------------------------------------------------------------
(* What the documentation says                                             *)

\* docs/ORDER_STATE_MACHINE.md section 1: a non-final event after a final
\* state writes a transition that warns of it.
LateEventIsWarned ==
    \A l \in Listeners :
        /\ pc[l] = "planning"
        /\ prev[l].state \in FinalStates
        /\ NewState(Event(l), prev[l]) \notin FinalStates
        => lastRow[Event(l).order].reason = "unexpected_transition_after_final_state"

===========================================================================
