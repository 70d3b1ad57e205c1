----------------------- MODULE OrderLifecycleProofs -----------------------
(***************************************************************************)
(* What OrderLifecycle guarantees for any number of orders, listeners,     *)
(* replays, misses and kills.                                              *)
(***************************************************************************)
EXTENDS OrderLifecycle, FiniteSetTheorems, TLAPS

---------------------------------------------------------------------------
(* Type correctness                                                        *)

LEMMA Emission ==
    ASSUME NEW S, NEW s \in Seq(S), NEW t \in Seq(S)
    PROVE  /\ s \o t \in Seq(S)
           /\ Len(s \o t) = Len(s) + Len(t)
           /\ \A i \in 1 .. Len(s) : (s \o t)[i] = s[i]
           /\ \A i \in 1 .. Len(t) : (s \o t)[Len(s) + i] = t[i]
  OBVIOUS

\* What an order event carries.
LEMMA OrderEventFields ==
    ASSUME NEW e \in Events, e.kind = "order"
    PROVE  /\ e.order \in Orders
           /\ e.status \in Statuses
           /\ e.exec \in ExecTypes
           /\ e.filled \in 0 .. Qty
  BY DEF Events

LEMMA CanonicalType ==
    ASSUME NEW st \in Statuses, NEW x
    PROVE  Canonical(st, x) \in States
  BY DEF Canonical, Named, Statuses, States

\* The state, total and delta computed from an event and a stored row.
LEMMA ComputedRow ==
    ASSUME NEW e \in Events, e.kind = "order", NEW row \in Row, Qty \in Nat
    PROVE  /\ NewState(e, row) \in States
           /\ TotalFilled(e, row) = e.filled
           /\ e.filled \in 0 .. Qty
           /\ Delta(e, row) \in Nat
<1>1. e.filled \in 0 .. Qty /\ Canonical(e.status, e.exec) \in States
  BY OrderEventFields, CanonicalType
<1>2. row.filled \in Nat
  BY DEF Row
<1>3. NewState(e, row) \in States
  BY <1>1 DEF NewState, States
<1>. QED
  BY <1>1, <1>2, <1>3 DEF TotalFilled, Delta

LEMMA TransitionType ==
    ASSUME NEW row, NEW st \in States
    PROVE  [previous |-> PreviousState(row), new |-> st,
            reason |-> Reason(PreviousState(row), st)] \in Transition
  BY DEF Transition, PreviousState, Reason, Reasons

\* The stream only grows, and what it said stays.
Extends == /\ Len(emitted) <= Len(emitted')
           /\ \A i \in 1 .. Len(emitted) : emitted'[i] = emitted[i]

\* A step of the exchange leaves what listeners and tables refer to in place.
LEMMA ListenersKept ==
    ASSUME VenueOK, ListenersOK, TablesOK, VenueOK', Extends,
           UNCHANGED <<cursor, memory, tables>>
    PROVE  ListenersOK' /\ TablesOK'
<1>1. Len(emitted) \in Nat /\ Len(emitted') \in Nat
  BY DEF VenueOK
<1>2. cursor' \in [Listeners -> 0 .. Len(emitted')]
  BY <1>1 DEF ListenersOK, Extends
<1>3. ListenersOK'
  BY <1>1, <1>2 DEF ListenersOK, Extends, memory
<1>4. events' \subseteq 1 .. Len(emitted')
  BY <1>1 DEF TablesOK, Extends, tables
<1>. QED
  BY <1>3, <1>4 DEF TablesOK, tables

\* The exchange's own steps.
Venue ==
    \/ \E o \in Orders, st \in {"NEW", "REJECTED"} : Accept(o, st)
    \/ \E o \in Orders, n \in 1 .. Qty : Trade(o, n)
    \/ \E o \in Orders, st \in Statuses, x \in ExecTypes \ {"TRADE"} : End(o, st, x)

LEMMA VenueSteps ==
    ASSUME VenueOK, Venue
    PROVE  VenueOK' /\ Extends /\ UNCHANGED <<cursor, memory, tables, bounds>>
<1> USE ConstantsAssumption
<1>1. ASSUME NEW o \in Orders, NEW st \in {"NEW", "REJECTED"}, Accept(o, st)
      PROVE  VenueOK' /\ Extends /\ UNCHANGED <<cursor, memory, tables, bounds>>
  <2>1. OrderEvent(o, st, "NONE", 0) \in Events
    BY DEF OrderEvent, Events, Statuses, ExecTypes
  <2>2. emitted' = Append(emitted, OrderEvent(o, st, "NONE", 0))
    BY <1>1 DEF Accept
  <2>3. emitted' \in Seq(Events) /\ Extends
    BY <2>1, <2>2 DEF VenueOK, Extends
  <2>. QED
    BY <1>1, <2>3 DEF Accept, VenueOK, Statuses
<1>2. ASSUME NEW o \in Orders, NEW n \in 1 .. Qty, Trade(o, n)
      PROVE  VenueOK' /\ Extends /\ UNCHANGED <<cursor, memory, tables, bounds>>
  <2> DEFINE total == filled[o] + n
             st == IF total = Qty THEN "FILLED" ELSE "PARTIALLY_FILLED"
             held == IF o \in Reducing THEN position - n ELSE position + n
             two == << [kind |-> "account", amount |-> held], OrderEvent(o, st, "TRADE", total) >>
  <2>1. total \in 0 .. Qty /\ st \in Statuses /\ held \in Int
    BY <1>2 DEF Trade, VenueOK, Statuses
  <2>2. /\ emitted' = emitted \o two
        /\ status' = [status EXCEPT ![o] = st]
        /\ filled' = [filled EXCEPT ![o] = total]
        /\ position' = held
        /\ UNCHANGED <<cursor, memory, tables, bounds>>
    BY <1>2 DEF Trade
  <2> HIDE DEF total, st, held
  <2>3. /\ [kind |-> "account", amount |-> held] \in Events
        /\ OrderEvent(o, st, "TRADE", total) \in Events
    BY <2>1 DEF OrderEvent, Events, ExecTypes
  <2>4. two \in Seq(Events)
    BY <2>3
  <2> HIDE DEF two
  <2>5. emitted' \in Seq(Events) /\ Extends
    BY <2>2, <2>4, Emission DEF VenueOK, Extends
  <2>. QED
    BY <2>1, <2>2, <2>5 DEF VenueOK
<1>3. ASSUME NEW o \in Orders, NEW st \in Statuses, NEW x \in ExecTypes \ {"TRADE"}, End(o, st, x)
      PROVE  VenueOK' /\ Extends /\ UNCHANGED <<cursor, memory, tables, bounds>>
  <2>1. OrderEvent(o, st, x, filled[o]) \in Events
    BY DEF OrderEvent, Events, ExecTypes, VenueOK
  <2>2. emitted' = Append(emitted, OrderEvent(o, st, x, filled[o]))
    BY <1>3 DEF End
  <2>3. emitted' \in Seq(Events) /\ Extends
    BY <2>1, <2>2 DEF VenueOK, Extends
  <2>. QED
    BY <1>3, <2>3 DEF End, VenueOK
<1>. QED
  BY <1>1, <1>2, <1>3 DEF Venue

\* A listener past the first commit works on an order event of the stream.
LEMMA EventAtHand ==
    ASSUME VenueOK, ListenersOK, NEW l \in Listeners, pc[l] # "idle"
    PROVE  /\ Event(l) \in Events
           /\ pc[l] # "recorded" => Event(l).kind = "order"
  BY DEF VenueOK, ListenersOK, Event

LEMMA IngestSteps ==
    ASSUME VenueOK, ListenersOK, TablesOK, NEW l \in Listeners, Ingest(l)
    PROVE  ListenersOK' /\ TablesOK' /\ UNCHANGED <<venue, bounds>>
<1> USE ConstantsAssumption DEF ListenersOK
<1>0. Len(emitted) \in Nat
  BY DEF VenueOK
<1>1. CASE Receive(l)
  <2>1. cursor[l] + 1 \in 1 .. Len(emitted)
    BY <1>0, <1>1 DEF Receive
  <2>2. UNCHANGED <<venue, bounds>>
    BY <1>1 DEF Receive, Record
  <2>3. ListenersOK'
    BY <1>0, <1>1, <2>1 DEF Receive, Record, PCs, venue
  <2>4. TablesOK'
    BY <1>1, <2>1 DEF Receive, Record, TablesOK, venue, lifecycleRow
  <2>. QED
    BY <2>2, <2>3, <2>4
<1>2. CASE UpsertOrder(l)
  <2>1. Event(l).status \in Statuses /\ Event(l).order \in Orders
    BY <1>2, EventAtHand, OrderEventFields DEF UpsertOrder
  <2>2. TablesOK'
    BY <1>2, <2>1 DEF UpsertOrder, TablesOK, venue, lifecycleRow
  <2>3. ListenersOK'
    BY <1>2 DEF UpsertOrder, Event, PCs, venue
  <2>. QED
    BY <1>2, <2>2, <2>3 DEF UpsertOrder
<1>3. CASE RecordPosition(l)
  <2>1. Event(l).amount \in Int
    BY <1>3, EventAtHand DEF RecordPosition, Events
  <2>2. TablesOK'
    BY <1>3, <2>1 DEF RecordPosition, TablesOK, venue, lifecycleRow
  <2>3. ListenersOK'
    BY <1>3 DEF RecordPosition, PCs, venue
  <2>. QED
    BY <1>3, <2>2, <2>3 DEF RecordPosition
<1>4. CASE LoadLifecycle(l)
  <2>1. Event(l).order \in Orders
    BY <1>4, EventAtHand, OrderEventFields DEF LoadLifecycle
  <2>2. [state |-> lifeState[Event(l).order], filled |-> lifeFilled[Event(l).order]] \in Row
    BY <2>1 DEF TablesOK, Row
  <2>3. ListenersOK'
    BY <1>4, <2>2 DEF LoadLifecycle, PCs, venue
  <2>4. TablesOK'
    BY <1>4 DEF LoadLifecycle, TablesOK, tables, venue
  <2>. QED
    BY <1>4, <2>3, <2>4 DEF LoadLifecycle
<1>5. CASE UpsertLifecycle(l)
  <2>1. /\ Event(l).order \in Orders
        /\ NewState(Event(l), prev[l]) \in States
        /\ TotalFilled(Event(l), prev[l]) \in 0 .. Qty
    BY <1>5, EventAtHand, OrderEventFields, ComputedRow DEF UpsertLifecycle
  <2>2. TablesOK'
    BY <1>5, <2>1 DEF UpsertLifecycle, TablesOK, venue
  <2>3. ListenersOK'
    BY <1>5 DEF UpsertLifecycle, PCs, venue
  <2>. QED
    BY <1>5, <2>2, <2>3 DEF UpsertLifecycle
<1>6. CASE AppendTransition(l)
  <2>1. /\ Event(l).order \in Orders
        /\ NewState(Event(l), prev[l]) \in States
        /\ Delta(Event(l), prev[l]) \in Nat
    BY <1>6, EventAtHand, OrderEventFields, ComputedRow DEF AppendTransition
  <2>2. TablesOK'
    BY <1>6, <2>1, TransitionType DEF AppendTransition, TablesOK, venue, lifecycleRow
  <2>3. ListenersOK'
    BY <1>6 DEF AppendTransition, PCs, venue
  <2>. QED
    BY <1>6, <2>2, <2>3 DEF AppendTransition
<1>7. CASE AppendPlan(l)
  <2>1. /\ Event(l).order \in Orders
        /\ TotalFilled(Event(l), prev[l]) \in 0 .. Qty
    BY <1>7, EventAtHand, OrderEventFields, ComputedRow DEF AppendPlan
  <2>2. TablesOK'
    BY <1>7, <2>1 DEF AppendPlan, TablesOK, venue, lifecycleRow
  <2>3. ListenersOK'
    BY <1>7 DEF AppendPlan, PCs, venue
  <2>. QED
    BY <1>7, <2>2, <2>3 DEF AppendPlan
<1>. QED
  BY <1>1, <1>2, <1>3, <1>4, <1>5, <1>6, <1>7 DEF Ingest

\* Every reachable state has the declared types.
THEOREM TypeCorrect == Spec => []TypeOK
<1>1. Init => TypeOK
  BY ConstantsAssumption DEF Init, TypeOK, VenueOK, ListenersOK, TablesOK, PCs, Row, NoRow,
     Transition, NoTransition, Reasons
<1>2. TypeOK /\ [Next]_vars => TypeOK'
  <2> SUFFICES ASSUME TypeOK, [Next]_vars
               PROVE  TypeOK'
    OBVIOUS
  <2>1. CASE Venue
    BY <2>1, VenueSteps, ListenersKept DEF TypeOK, bounds
  <2>2. ASSUME NEW l \in Listeners, Ingest(l)
        PROVE  TypeOK'
    BY <2>2, IngestSteps DEF TypeOK, VenueOK, venue, bounds
  <2>3. ASSUME NEW l \in Listeners, Listen(l) \/ Disconnect(l)
        PROVE  TypeOK'
    <3>1. Len(emitted) \in 0 .. Len(emitted) /\ MaxMessages \in 0 .. MaxMessages
      BY ConstantsAssumption DEF TypeOK, VenueOK
    <3>2. cursor[l] + 1 .. Len(emitted) \subseteq Nat
      BY DEF TypeOK, VenueOK, ListenersOK
    <3>3. ListenersOK' /\ lost' \subseteq Nat /\ replays' = replays
      <4>1. CASE Listen(l)
        BY <4>1, <3>1, <3>2 DEF Listen, TypeOK, ListenersOK, venue
      <4>2. CASE Disconnect(l)
        BY <4>2, ConstantsAssumption DEF Disconnect, TypeOK, ListenersOK, venue, bounds
      <4>. QED
        BY <2>3, <4>1, <4>2
    <3>4. UNCHANGED <<venue, tables>>
      BY <2>3 DEF Listen, Disconnect
    <3>. QED
      BY <3>3, <3>4 DEF TypeOK, VenueOK, TablesOK, venue, tables
  <2>4. ASSUME NEW l \in Listeners, Crash(l)
        PROVE  TypeOK'
    <3>1. lost' \subseteq Nat
      BY <2>4 DEF Crash, TypeOK, ListenersOK
    <3>2. 0 \in 0 .. MaxMessages
      BY ConstantsAssumption
    <3>3. ListenersOK'
      BY <2>4, <3>2 DEF Crash, TypeOK, ListenersOK, venue, PCs
    <3>. QED
      BY <2>4, <3>1, <3>3 DEF Crash, TypeOK, VenueOK, TablesOK, venue, tables
  <2>5. ASSUME NEW l \in Listeners, NEW i \in 1 .. Len(emitted), Replay(l, i)
        PROVE  TypeOK'
    <3>1. ListenersOK'
      BY <2>5 DEF Replay, Record, TypeOK, VenueOK, ListenersOK, venue, PCs
    <3>2. TablesOK'
      BY <2>5 DEF Replay, Record, TypeOK, TablesOK, venue, lifecycleRow
    <3>. QED
      BY <2>5, <3>1, <3>2, ConstantsAssumption DEF Replay, Record, TypeOK, VenueOK, venue
  <2>6. CASE UNCHANGED vars
    BY <2>6 DEF vars, TypeOK, VenueOK, ListenersOK, TablesOK
  <2>. QED
    BY <2>1, <2>2, <2>3, <2>4, <2>5, <2>6 DEF Next, Venue
<1>. QED
  BY <1>1, <1>2, PTL DEF Spec

---------------------------------------------------------------------------
(* The tables never claim a fill the exchange has not made                 *)

\* NoPhantomFill rests on the stream: no event, however old, reports more
\* than has been executed by now.
EventsTrue ==
    \A i \in 1 .. Len(emitted) :
        emitted[i].kind = "order" => emitted[i].filled <= filled[emitted[i].order]

LEMMA VenueTrue ==
    ASSUME TypeOK, EventsTrue, Venue
    PROVE  EventsTrue' /\ (\A o \in Orders : filled[o] <= filled'[o])
<1> USE ConstantsAssumption
<1>0. VenueOK' /\ Extends /\ Len(emitted) \in Nat
  BY VenueSteps DEF TypeOK, VenueOK
<1>1. ASSUME NEW o \in Orders, NEW st, NEW x, NEW f \in 0 .. Qty,
             emitted' = Append(emitted, OrderEvent(o, st, x, f)), f <= filled[o],
             UNCHANGED filled
      PROVE  EventsTrue' /\ (\A p \in Orders : filled[p] <= filled'[p])
  BY <1>1 DEF EventsTrue, OrderEvent, TypeOK, VenueOK
<1>2. ASSUME NEW o \in Orders, NEW n \in 1 .. Qty, Trade(o, n)
      PROVE  EventsTrue' /\ (\A p \in Orders : filled[p] <= filled'[p])
  <2> DEFINE total == filled[o] + n
             st == IF total = Qty THEN "FILLED" ELSE "PARTIALLY_FILLED"
             held == IF o \in Reducing THEN position - n ELSE position + n
             account == [kind |-> "account", amount |-> held]
             order == OrderEvent(o, st, "TRADE", total)
  <2>1. /\ emitted' = emitted \o << account, order >>
        /\ filled' = [filled EXCEPT ![o] = total]
        /\ total \in Nat
    BY <1>2 DEF Trade, TypeOK, VenueOK
  <2>2. /\ account.kind = "account"
        /\ order.order = o
        /\ order.filled = total
    BY DEF OrderEvent
  <2> HIDE DEF account, order
  <2>3. /\ Len(emitted') = Len(emitted) + 2
        /\ \A i \in 1 .. Len(emitted) : emitted'[i] = emitted[i]
        /\ emitted'[Len(emitted) + 1] = account
        /\ emitted'[Len(emitted) + 2] = order
    BY <2>1, <1>0 DEF TypeOK, VenueOK
  <2>4. \A p \in Orders : filled[p] <= filled'[p]
    BY <2>1 DEF TypeOK, VenueOK
  <2>5. ASSUME NEW i \in 1 .. Len(emitted'), emitted'[i].kind = "order"
        PROVE  emitted'[i].filled <= filled'[emitted'[i].order]
    <3>1. CASE i \in 1 .. Len(emitted)
      <4>1. emitted'[i] = emitted[i] /\ emitted[i] \in Events
        BY <3>1, <2>3 DEF TypeOK, VenueOK
      <4>2. emitted[i].order \in Orders /\ emitted[i].filled \in Nat
        BY <4>1, <2>5, OrderEventFields
      <4>3. /\ emitted[i].filled <= filled[emitted[i].order]
            /\ filled[emitted[i].order] \in Nat
            /\ filled'[emitted[i].order] \in Nat
        BY <4>1, <4>2, <3>1, <2>5, <1>0 DEF EventsTrue, TypeOK, VenueOK
      <4>. QED
        BY <4>1, <4>2, <4>3, <2>4
    <3>2. CASE i = Len(emitted) + 1
      BY <3>2, <2>2, <2>3, <2>5
    <3>3. CASE i = Len(emitted) + 2
      <4>1. filled'[o] = total
        BY <2>1 DEF TypeOK, VenueOK
      <4>. QED
        BY <4>1, <3>3, <2>1, <2>2, <2>3
    <3>. QED
      BY <3>1, <3>2, <3>3, <2>3, <1>0
  <2>. QED
    BY <2>4, <2>5 DEF EventsTrue
<1>3. ASSUME NEW o \in Orders, NEW st \in {"NEW", "REJECTED"}, Accept(o, st)
      PROVE  EventsTrue' /\ (\A p \in Orders : filled[p] <= filled'[p])
  BY <1>1, <1>3 DEF Accept, TypeOK, VenueOK
<1>4. ASSUME NEW o \in Orders, NEW st \in Statuses, NEW x \in ExecTypes \ {"TRADE"}, End(o, st, x)
      PROVE  EventsTrue' /\ (\A p \in Orders : filled[p] <= filled'[p])
  BY <1>1, <1>4 DEF End, TypeOK, VenueOK
<1>. QED
  BY <1>2, <1>3, <1>4 DEF Venue

\* Whatever is replayed, interleaved or killed, the lifecycle table and the
\* protection plans stay within what the exchange has executed.
THEOREM FillsAreReal == Spec => []NoPhantomFill
<1> DEFINE Inv == EventsTrue /\ NoPhantomFill
<1>1. Init => Inv
  BY ConstantsAssumption DEF Init, EventsTrue, NoPhantomFill
<1>2. TypeOK /\ Inv /\ [Next]_vars => Inv'
  <2> SUFFICES ASSUME TypeOK, Inv, [Next]_vars
               PROVE  Inv'
    OBVIOUS
  <2>1. CASE Venue
    <3>1. UNCHANGED <<lifeFilled, planned>> /\ VenueOK'
      BY <2>1, VenueSteps DEF TypeOK, tables
    <3>2. EventsTrue' /\ (\A o \in Orders : filled[o] <= filled'[o])
      BY <2>1, VenueTrue
    <3>. QED
      BY <3>1, <3>2 DEF NoPhantomFill, TypeOK, VenueOK, TablesOK
  <2>2. ASSUME UNCHANGED <<venue, lifeFilled, planned>>
        PROVE  Inv'
    BY <2>2 DEF EventsTrue, NoPhantomFill, venue
  <2>3. ASSUME NEW l \in Listeners, pc[l] \in {"loaded", "planning"}
        PROVE  /\ Event(l).order \in Orders
               /\ TotalFilled(Event(l), prev[l]) <= filled[Event(l).order]
    <3>1. /\ Event(l) \in Events
          /\ Event(l).kind = "order"
          /\ at[l] \in 1 .. Len(emitted)
      BY <2>3, EventAtHand DEF TypeOK, ListenersOK
    <3>2. Event(l).filled <= filled[Event(l).order]
      BY <3>1 DEF EventsTrue, Event
    <3>. QED
      BY <3>1, <3>2, OrderEventFields DEF TotalFilled
  <2>4. ASSUME NEW l \in Listeners, UpsertLifecycle(l)
        PROVE  Inv'
    <3>1. /\ UNCHANGED <<venue, planned>>
          /\ pc[l] = "loaded"
          /\ lifeFilled' = [lifeFilled EXCEPT ![Event(l).order] = TotalFilled(Event(l), prev[l])]
      BY <2>4 DEF UpsertLifecycle
    <3>2. NoPhantomFill'
      BY <3>1, <2>3 DEF NoPhantomFill, TypeOK, TablesOK, venue
    <3>. QED
      BY <3>1, <3>2 DEF EventsTrue, venue
  <2>5. ASSUME NEW l \in Listeners, AppendPlan(l)
        PROVE  Inv'
    <3>1. /\ UNCHANGED <<venue, lifeFilled>>
          /\ pc[l] = "planning"
          /\ planned' = [planned EXCEPT ![Event(l).order] = TotalFilled(Event(l), prev[l])]
      BY <2>5 DEF AppendPlan, lifecycleRow
    <3>2. NoPhantomFill'
      BY <3>1, <2>3 DEF NoPhantomFill, TypeOK, TablesOK, venue
    <3>. QED
      BY <3>1, <3>2 DEF EventsTrue, venue
  <2>6. ASSUME NEW l \in Listeners, Ingest(l)
        PROVE  Inv'
    <3>1. CASE Receive(l) \/ UpsertOrder(l) \/ RecordPosition(l) \/ LoadLifecycle(l)
               \/ AppendTransition(l)
      BY <3>1, <2>2 DEF Receive, Record, UpsertOrder, RecordPosition, LoadLifecycle,
         AppendTransition, lifecycleRow, tables
    <3>. QED
      BY <3>1, <2>4, <2>5, <2>6 DEF Ingest
  <2>7. ASSUME NEW l \in Listeners, Listen(l) \/ Disconnect(l) \/ Crash(l)
        PROVE  Inv'
    BY <2>7, <2>2 DEF Listen, Disconnect, Crash, tables
  <2>8. ASSUME NEW l \in Listeners, NEW i \in 1 .. Len(emitted), Replay(l, i)
        PROVE  Inv'
    BY <2>8, <2>2 DEF Replay, Record, lifecycleRow
  <2>9. CASE UNCHANGED vars
    BY <2>9, <2>2 DEF vars, venue
  <2>. QED
    BY <2>1, <2>6, <2>7, <2>8, <2>9 DEF Next, Venue
<1>. QED
  BY <1>1, <1>2, TypeCorrect, PTL DEF Spec

---------------------------------------------------------------------------
(* The audit log explains the lifecycle table                              *)

\* Every reachable lifecycle row was computed from an event recorded before.
THEOREM LifecycleAudited == Spec => []LifecycleExplained
<1> DEFINE Begun == \A l \in Listeners : pc[l] # "idle" => at[l] \in events
           Inv == Begun /\ LifecycleExplained
<1>1. Init => Inv
  BY DEF Init, LifecycleExplained
<1>2. TypeOK /\ Inv /\ [Next]_vars => Inv'
  <2> SUFFICES ASSUME TypeOK, Inv, [Next]_vars
               PROVE  Inv'
    OBVIOUS
  \* The log and the stream grow, and the rows stay.
  <2>1. ASSUME events \subseteq events', Extends, UNCHANGED lifecycleRow
        PROVE  LifecycleExplained'
    <3> SUFFICES ASSUME NEW o \in Orders, lifeState'[o] # "absent"
                 PROVE  \E i \in events' : IsOrderEvent(i, o)' /\ emitted'[i].filled = lifeFilled'[o]
      BY DEF LifecycleExplained
    <3>1. PICK i \in events : IsOrderEvent(i, o) /\ emitted[i].filled = lifeFilled[o]
      BY <2>1 DEF LifecycleExplained, lifecycleRow
    <3>2. emitted'[i] = emitted[i]
      BY <2>1 DEF Extends, TypeOK, TablesOK
    <3>. QED
      BY <2>1, <3>1, <3>2 DEF IsOrderEvent, lifecycleRow
  <2>2. ASSUME UNCHANGED venue
        PROVE  Extends
    BY <2>2 DEF venue, Extends, TypeOK, VenueOK
  <2>3. CASE Venue
    BY <2>1, <2>3, VenueSteps DEF TypeOK, memory, tables, lifecycleRow
  <2>4. ASSUME NEW l \in Listeners, NEW i, Record(l, i)
        PROVE  Inv'
    BY <2>1, <2>2, <2>4 DEF Record, TypeOK, ListenersOK
  <2>5. ASSUME NEW l \in Listeners, UpsertLifecycle(l)
        PROVE  Inv'
    <3>1. /\ pc[l] = "loaded"
          /\ at[l] \in events
          /\ IsOrderEvent(at[l], Event(l).order)
          /\ Event(l).order \in Orders
      BY <2>5, EventAtHand, OrderEventFields
      DEF UpsertLifecycle, IsOrderEvent, Event, TypeOK, ListenersOK
    <3>2. /\ lifeState' = [lifeState EXCEPT ![Event(l).order] = NewState(Event(l), prev[l])]
          /\ lifeFilled' = [lifeFilled EXCEPT ![Event(l).order] = emitted[at[l]].filled]
          /\ UNCHANGED <<venue, events, at>>
          /\ pc' = [pc EXCEPT ![l] = "written"]
      BY <2>5 DEF UpsertLifecycle, TotalFilled, Event
    <3>3. LifecycleExplained'
      BY <3>1, <3>2 DEF LifecycleExplained, IsOrderEvent, venue, TypeOK, TablesOK
    <3>. QED
      BY <3>1, <3>2, <3>3 DEF TypeOK, ListenersOK
  <2>6. ASSUME NEW l \in Listeners,
               UpsertOrder(l) \/ RecordPosition(l) \/ LoadLifecycle(l) \/ AppendTransition(l)
               \/ AppendPlan(l) \/ Listen(l) \/ Disconnect(l) \/ Crash(l)
        PROVE  Inv'
    <3>1. /\ UNCHANGED <<venue, events, at, lifecycleRow>>
          /\ \A k \in Listeners : pc'[k] # "idle" => pc[k] # "idle"
      BY <2>6 DEF UpsertOrder, RecordPosition, LoadLifecycle, AppendTransition, AppendPlan,
         Listen, Disconnect, Crash, tables, memory, lifecycleRow, TypeOK, ListenersOK
    <3>. QED
      BY <2>1, <2>2, <3>1
  <2>7. CASE UNCHANGED vars
    BY <2>1, <2>2, <2>7 DEF vars, venue, lifecycleRow
  <2>. QED
    BY <2>3, <2>4, <2>5, <2>6, <2>7 DEF Next, Venue, Ingest, Receive, Replay
<1>. QED
  BY <1>1, <1>2, TypeCorrect, PTL DEF Spec

---------------------------------------------------------------------------
(* Fills are not lost from the audit trail                                 *)

\* Listener l works on order o from a row it has read.
Computing(l, o) == pc[l] \in {"loaded", "written"} /\ Event(l).order = o

\* Contract u of order o is in the lifecycle row, or in a row somebody read.
Claimed(o, u) ==
    \/ u < lifeFilled[o]
    \/ \E l \in Listeners : Computing(l, o) /\ u < prev[l].filled

\* Somebody who has written the lifecycle row is about to count contract u.
Owed(o, u) ==
    \E l \in Listeners :
        /\ pc[l] = "written" /\ Event(l).order = o
        /\ prev[l].filled <= u /\ u < Event(l).filled

\* The contracts in C are counted in the audit trail, and every claimed one is
\* among them or owed.
Counted(o, C) ==
    /\ Cardinality(C) <= audited[o]
    /\ \A u \in 0 .. Qty - 1 : Claimed(o, u) => u \in C \/ Owed(o, u)

\* The deltas are a sum; what makes them enough is which contracts they count.
AccountInv ==
    lost = {} => \A o \in Orders : \E C \in SUBSET (0 .. Qty - 1) : Counted(o, C)

\* A transition row counts the contracts from the row read to the event's total.
LEMMA CountInterval ==
    ASSUME NEW C \in SUBSET (0 .. Qty - 1), NEW n \in Nat, Cardinality(C) <= n,
           NEW a \in Nat, NEW b \in 0 .. Qty
    PROVE  /\ C \cup (a .. b - 1) \in SUBSET (0 .. Qty - 1)
           /\ Cardinality(C \cup (a .. b - 1)) <= n + (IF b - a > 0 THEN b - a ELSE 0)
<1> USE ConstantsAssumption
<1>1. IsFiniteSet(0 .. Qty - 1)
  BY FS_Interval
<1>2. IsFiniteSet(C)
  BY <1>1, FS_Subset
<1>3. /\ IsFiniteSet(a .. b - 1)
      /\ Cardinality(a .. b - 1) = IF a > b - 1 THEN 0 ELSE (b - 1) - a + 1
  <2>1. a \in Int /\ b - 1 \in Int
    OBVIOUS
  <2>. QED
    BY <2>1, FS_Interval
<1>4. /\ Cardinality(C) \in Nat
      /\ IsFiniteSet(C \cap (a .. b - 1))
      /\ Cardinality(C \cap (a .. b - 1)) \in Nat
  BY <1>2, FS_Intersection, FS_CardinalityType
<1>5. Cardinality(C \cup (a .. b - 1)) =
        Cardinality(C) + Cardinality(a .. b - 1) - Cardinality(C \cap (a .. b - 1))
  BY <1>2, <1>3, FS_Union
<1>. QED
  BY <1>3, <1>4, <1>5

\* A step that leaves the rows and the stream, what is claimed and what is owed.
LEMMA CountingStays ==
    ASSUME TypeOK, AccountInv, lost' = lost, UNCHANGED <<lifeFilled, audited>>,
           \A l \in Listeners, o \in Orders :
              /\ Computing(l, o)' => \/ Computing(l, o) /\ prev'[l] = prev[l]
                                     \/ prev'[l].filled = lifeFilled[o]
              /\ pc[l] = "written" =>
                    pc'[l] = "written" /\ prev'[l] = prev[l] /\ Event(l)' = Event(l)
    PROVE  AccountInv'
<1> SUFFICES ASSUME lost = {}, NEW o \in Orders, NEW C \in SUBSET (0 .. Qty - 1), Counted(o, C)
             PROVE  Counted(o, C)'
  BY DEF AccountInv
<1>1. ASSUME NEW u \in 0 .. Qty - 1, Claimed(o, u)'
      PROVE  Claimed(o, u)
  BY <1>1 DEF Claimed
<1>2. ASSUME NEW u \in 0 .. Qty - 1, Owed(o, u)
      PROVE  Owed(o, u)'
  BY <1>2 DEF Owed
<1>. QED
  BY <1>1, <1>2 DEF Counted

\* Unless an event was missed or cut short, the recorded deltas of an order
\* add up to its filled quantity at least, whatever rows they were computed
\* from and however many listeners and replays there are.
THEOREM FillsAudited == Spec => []FillsAccounted
<1>1. Init => AccountInv
  <2> SUFFICES ASSUME Init, NEW o \in Orders
               PROVE  Counted(o, {})
    BY DEF AccountInv
  <2>. QED
    BY FS_EmptySet, ConstantsAssumption DEF Init, Counted, Claimed, Computing
<1>2. TypeOK /\ AccountInv /\ [Next]_vars => AccountInv'
  <2> SUFFICES ASSUME TypeOK, AccountInv, [Next]_vars
               PROVE  AccountInv'
    OBVIOUS
  <2>1. CASE Venue
    <3>1. Extends /\ UNCHANGED <<cursor, memory, tables, bounds>>
      BY <2>1, VenueSteps DEF TypeOK
    <3>2. \A l \in Listeners : pc[l] # "idle" => Event(l)' = Event(l)
      BY <3>1 DEF Extends, Event, memory, TypeOK, ListenersOK
    <3>. QED
      BY <3>1, <3>2, CountingStays DEF Computing, memory, tables, bounds
  <2>2. ASSUME NEW l \in Listeners, NEW i, Record(l, i), lost' = lost
        PROVE  AccountInv'
    <3>1. \A k \in Listeners : pc'[k] \in {"loaded", "written"} \/ pc[k] \in {"loaded", "written"} =>
             pc'[k] = pc[k] /\ at'[k] = at[k]
      BY <2>2 DEF Record, TypeOK, ListenersOK
    <3>2. UNCHANGED <<emitted, prev, lifeFilled, audited>>
      BY <2>2 DEF Record, venue, lifecycleRow
    <3>. QED
      BY <2>2, <3>1, <3>2, CountingStays DEF Computing, Event
  <2>3. ASSUME NEW l \in Listeners,
               UpsertOrder(l) \/ RecordPosition(l) \/ LoadLifecycle(l) \/ AppendPlan(l)
        PROVE  AccountInv'
    <3>1. UNCHANGED <<emitted, at, lifeFilled, audited, lost>>
      BY <2>3 DEF UpsertOrder, RecordPosition, LoadLifecycle, AppendPlan, venue, tables,
         lifecycleRow, bounds
    <3>2. \A k \in Listeners : pc[k] = "written" => pc'[k] = "written" /\ prev'[k] = prev[k]
      BY <2>3 DEF UpsertOrder, RecordPosition, LoadLifecycle, AppendPlan, TypeOK, ListenersOK
    <3>3. ASSUME NEW k \in Listeners, NEW o \in Orders, Computing(k, o)'
          PROVE  \/ Computing(k, o) /\ prev'[k] = prev[k]
                 \/ prev'[k].filled = lifeFilled[o]
      <4>1. CASE LoadLifecycle(l) /\ k = l
        BY <3>1, <3>3, <4>1 DEF LoadLifecycle, Computing, Event, TypeOK, ListenersOK
      <4>2. CASE ~(LoadLifecycle(l) /\ k = l)
        BY <2>3, <3>1, <3>3, <4>2 DEF UpsertOrder, RecordPosition, LoadLifecycle, AppendPlan,
           Computing, Event, TypeOK, ListenersOK
      <4>. QED
        BY <4>1, <4>2
    <3>. QED
      BY <3>1, <3>2, <3>3, CountingStays DEF Event
  <2>4. ASSUME NEW l \in Listeners, UpsertLifecycle(l)
        PROVE  AccountInv'
    <3> SUFFICES ASSUME lost = {}, NEW o \in Orders, NEW C \in SUBSET (0 .. Qty - 1), Counted(o, C)
                 PROVE  Counted(o, C)'
      BY <2>4 DEF AccountInv, UpsertLifecycle, bounds
    <3>1. /\ UNCHANGED <<emitted, at, prev, audited>>
          /\ pc[l] = "loaded" /\ pc'[l] = "written"
          /\ \A k \in Listeners : k # l => pc'[k] = pc[k]
          /\ Event(l).order \in Orders
          /\ Event(l).filled \in 0 .. Qty
          /\ lifeFilled' = [lifeFilled EXCEPT ![Event(l).order] = Event(l).filled]
      BY <2>4, EventAtHand, OrderEventFields
      DEF UpsertLifecycle, TotalFilled, venue, TypeOK, ListenersOK
    <3>2. \A k \in Listeners : Event(k)' = Event(k) /\ (Computing(k, o)' <=> Computing(k, o))
      BY <3>1 DEF Computing, Event
    <3>3. ASSUME NEW u \in 0 .. Qty - 1, Owed(o, u)
          PROVE  Owed(o, u)'
      BY <3>1, <3>2, <3>3 DEF Owed
    <3>4. ASSUME NEW u \in 0 .. Qty - 1, Claimed(o, u)'
          PROVE  Claimed(o, u) \/ Owed(o, u)'
      <4>1. CASE \E k \in Listeners : Computing(k, o)' /\ u < prev'[k].filled
        BY <4>1, <3>1, <3>2 DEF Claimed
      <4>2. CASE u < lifeFilled'[o]
        <5>1. CASE Event(l).order # o
          BY <4>2, <5>1, <3>1 DEF Claimed, TypeOK, TablesOK
        <5>2. CASE Event(l).order = o
          <6>1. u < Event(l).filled
            BY <4>2, <5>2, <3>1 DEF TypeOK, TablesOK
          <6>2. prev[l].filled \in Nat
            BY DEF TypeOK, ListenersOK, Row
          <6>3. CASE u < prev[l].filled
            BY <6>3, <5>2, <3>1 DEF Claimed, Computing
          <6>4. CASE prev[l].filled <= u
            BY <6>1, <6>4, <5>2, <3>1, <3>2 DEF Owed
          <6>. QED
            BY <6>2, <6>3, <6>4
        <5>. QED
          BY <5>1, <5>2
      <4>. QED
        BY <3>4, <4>1, <4>2 DEF Claimed
    <3>. QED
      BY <3>1, <3>3, <3>4 DEF Counted
  <2>5. ASSUME NEW l \in Listeners, AppendTransition(l)
        PROVE  AccountInv'
    <3> SUFFICES ASSUME lost = {}, NEW o \in Orders
                 PROVE  \E C \in SUBSET (0 .. Qty - 1) : Counted(o, C)'
      BY <2>5 DEF AccountInv, AppendTransition, bounds
    <3>1. PICK C \in SUBSET (0 .. Qty - 1) : Counted(o, C)
      BY DEF AccountInv
    <3>2. /\ UNCHANGED <<emitted, at, prev, lifeFilled>>
          /\ pc[l] = "written" /\ pc'[l] \in {"planning", "idle"}
          /\ \A k \in Listeners : k # l => pc'[k] = pc[k]
          /\ Event(l) \in Events /\ Event(l).kind = "order"
          /\ Event(l).order \in Orders
          /\ Event(l).filled \in 0 .. Qty
          /\ audited' = [audited EXCEPT ![Event(l).order] = @ + Delta(Event(l), prev[l])]
      BY <2>5, EventAtHand, OrderEventFields
      DEF AppendTransition, venue, lifecycleRow, TypeOK, ListenersOK
    <3>3. \A k \in Listeners : Event(k)' = Event(k) /\ (Computing(k, o)' => Computing(k, o))
      BY <3>2 DEF Computing, Event
    <3>4. \A u : Claimed(o, u)' => Claimed(o, u)
      BY <3>2, <3>3 DEF Claimed
    <3>5. CASE Event(l).order # o
      <4>1. \A u : Owed(o, u) => Owed(o, u)'
        BY <3>2, <3>3, <3>5 DEF Owed
      <4>2. audited'[o] = audited[o]
        BY <3>2, <3>5 DEF TypeOK, TablesOK
      <4>. QED
        BY <3>1, <3>4, <4>1, <4>2 DEF Counted
    <3>6. CASE Event(l).order = o
      <4> DEFINE a == prev[l].filled
                 b == Event(l).filled
                 D == C \cup (a .. b - 1)
      <4>1. a \in Nat /\ b \in 0 .. Qty /\ audited[o] \in Nat
        BY <3>2 DEF TypeOK, ListenersOK, TablesOK, Row
      <4>2. audited'[o] = audited[o] + (IF b - a > 0 THEN b - a ELSE 0)
        BY <3>2, <3>6 DEF Delta, TotalFilled, TypeOK, TablesOK
      <4>3. D \in SUBSET (0 .. Qty - 1) /\ Cardinality(D) <= audited'[o]
        <5>1. Cardinality(C) <= audited[o]
          BY <3>1 DEF Counted
        <5>. QED
          BY <4>1, <4>2, <5>1, CountInterval
      <4>4. ASSUME NEW u \in 0 .. Qty - 1, Claimed(o, u)'
            PROVE  u \in D \/ Owed(o, u)'
        <5>1. u \in C \/ Owed(o, u)
          BY <3>1, <3>4, <4>4 DEF Counted
        <5>2. CASE Owed(o, u)
          <6>1. PICK k \in Listeners : /\ pc[k] = "written" /\ Event(k).order = o
                                       /\ prev[k].filled <= u /\ u < Event(k).filled
            BY <5>2 DEF Owed
          <6>2. CASE k = l
            BY <6>1, <6>2, <4>1
          <6>3. CASE k # l
            BY <6>1, <6>3, <3>2, <3>3 DEF Owed
          <6>. QED
            BY <6>2, <6>3
        <5>. QED
          BY <5>1, <5>2
      <4>. QED
        BY <4>3, <4>4 DEF Counted
    <3>. QED
      BY <3>5, <3>6
  <2>6. ASSUME NEW l \in Listeners, Listen(l) \/ Disconnect(l) \/ Crash(l)
        PROVE  AccountInv'
    <3>1. CASE lost' # {}
      BY <3>1 DEF AccountInv
    <3>2. CASE lost' = {}
      <4>1. lost' = lost /\ UNCHANGED <<venue, pc, at, prev, tables>>
        BY <2>6, <3>2 DEF Listen, Disconnect, Crash, bounds
      <4>. QED
        BY <4>1, CountingStays DEF Computing, Event, venue, tables
    <3>. QED
      BY <3>1, <3>2
  <2>7. CASE UNCHANGED vars
    BY <2>7, CountingStays DEF vars, Computing, Event
  <2>. QED
    BY <2>1, <2>2, <2>3, <2>4, <2>5, <2>6, <2>7
    DEF Next, Venue, Ingest, Receive, Replay, bounds
<1>3. TypeOK /\ AccountInv => FillsAccounted
  <2> SUFFICES ASSUME TypeOK, AccountInv, NEW o \in Orders, lost = {},
                      \A l \in Listeners : pc[l] = "written" => Event(l).order # o
               PROVE  audited[o] >= lifeFilled[o]
    BY DEF FillsAccounted
  <2>1. PICK C \in SUBSET (0 .. Qty - 1) : Counted(o, C)
    BY DEF AccountInv
  <2>2. lifeFilled[o] \in 0 .. Qty /\ audited[o] \in Nat
    BY DEF TypeOK, TablesOK
  <2>3. 0 .. lifeFilled[o] - 1 \subseteq C
    BY <2>1, <2>2, ConstantsAssumption DEF Counted, Claimed, Owed
  <2>4. IsFiniteSet(C)
    <3>1. IsFiniteSet(0 .. Qty - 1)
      BY ConstantsAssumption, FS_Interval
    <3>. QED
      BY <3>1, FS_Subset
  <2>5. Cardinality(0 .. lifeFilled[o] - 1) = lifeFilled[o]
    <3>1. 0 \in Int /\ lifeFilled[o] - 1 \in Int
      BY <2>2
    <3>2. Cardinality(0 .. lifeFilled[o] - 1) =
            IF 0 > lifeFilled[o] - 1 THEN 0 ELSE (lifeFilled[o] - 1) - 0 + 1
      BY <3>1, FS_Interval
    <3>. QED
      BY <2>2, <3>2
  <2>6. Cardinality(0 .. lifeFilled[o] - 1) <= Cardinality(C) /\ Cardinality(C) \in Nat
    BY <2>3, <2>4, FS_Subset, FS_CardinalityType
  <2>7. Cardinality(C) <= audited[o]
    BY <2>1 DEF Counted
  <2>. QED
    BY <2>2, <2>5, <2>6, <2>7
<1>. QED
  BY <1>1, <1>2, <1>3, TypeCorrect, PTL DEF Spec

---------------------------------------------------------------------------
(* What the stream says of an order, in order                              *)

Open == {"NEW", "PARTIALLY_FILLED"}

\* The latest of the first n events about order o.
LatestOf(o, i, n) == IsOrderEvent(i, o) /\ \A j \in i + 1 .. n : ~IsOrderEvent(j, o)

\* Every event but the last of an order finds it open, quantities only grow,
\* and the last one tells what the exchange holds.
StreamInv ==
    /\ \A o \in Orders : status[o] = "NONE" =>
          filled[o] = 0 /\ \A i \in 1 .. Len(emitted) : ~IsOrderEvent(i, o)
    /\ \A o \in Orders, i \in 1 .. Len(emitted) : IsOrderEvent(i, o) =>
          /\ emitted[i].status = "FILLED" => emitted[i].filled = Qty
          /\ emitted[i].status \in Open \/ emitted[i].status = status[o]
          /\ emitted[i].filled <= filled[o]
          /\ LatestOf(o, i, Len(emitted)) =>
                emitted[i].status = status[o] /\ emitted[i].filled = filled[o]
    /\ \A o \in Orders, j \in 1 .. Len(emitted), i \in 1 .. Len(emitted) :
          IsOrderEvent(i, o) /\ IsOrderEvent(j, o) /\ i < j =>
             emitted[i].status \in Open /\ emitted[i].filled <= emitted[j].filled

\* The exchange reports a change of order o, after at most account events.
Reports(o, st, f) ==
    /\ Len(emitted) < Len(emitted')
    /\ \A i \in Len(emitted) + 1 .. Len(emitted') - 1 : emitted'[i].kind # "order"
    /\ emitted'[Len(emitted')].kind = "order"
    /\ emitted'[Len(emitted')].order = o
    /\ emitted'[Len(emitted')].status = st
    /\ emitted'[Len(emitted')].filled = f
    /\ status[o] \in Open \cup {"NONE"}
    /\ filled[o] <= f
    /\ st = "FILLED" => f = Qty
    /\ status' = [status EXCEPT ![o] = st]
    /\ filled' = [filled EXCEPT ![o] = f]

LEMMA StreamGrows ==
    ASSUME TypeOK, StreamInv, VenueOK', Extends, NEW o \in Orders,
           NEW st, NEW f \in 0 .. Qty, Reports(o, st, f)
    PROVE  StreamInv'
<1> DEFINE n == Len(emitted)
           m == Len(emitted')
<1> USE DEF Reports
<1>1. n \in Nat /\ m \in Nat
  BY DEF TypeOK, VenueOK
<1>2. ASSUME NEW p \in Orders, NEW i \in 1 .. m, IsOrderEvent(i, p)'
      PROVE  \/ i \in 1 .. n /\ IsOrderEvent(i, p) /\ emitted'[i] = emitted[i]
             \/ i = m /\ p = o
  BY <1>1, <1>2 DEF IsOrderEvent, Extends
<1>3. ASSUME NEW p \in Orders, NEW i \in 1 .. n, IsOrderEvent(i, p)
      PROVE  /\ IsOrderEvent(i, p)'
             /\ emitted'[i] = emitted[i]
             /\ emitted[i].filled \in 0 .. Qty
  BY <1>1, <1>3, OrderEventFields DEF IsOrderEvent, Extends, TypeOK, VenueOK
<1>4. /\ status'[o] = st /\ filled'[o] = f
      /\ \A p \in Orders : p # o => status'[p] = status[p] /\ filled'[p] = filled[p]
      /\ \A p \in Orders : filled[p] \in 0 .. Qty
  BY DEF TypeOK, VenueOK
<1>5. st # "NONE"
  <2>1. emitted'[m] \in Events /\ emitted'[m].kind = "order"
    BY <1>1 DEF VenueOK
  <2>. QED
    BY <2>1, OrderEventFields DEF Statuses
<1>6. ASSUME NEW i \in 1 .. n, IsOrderEvent(i, o)
      PROVE  emitted[i].status \in Open /\ emitted[i].filled <= f
  BY <1>3, <1>4, <1>6 DEF StreamInv
<1>7. ASSUME NEW p \in Orders, status'[p] = "NONE"
      PROVE  filled'[p] = 0 /\ \A i \in 1 .. m : ~IsOrderEvent(i, p)'
  BY <1>1, <1>2, <1>4, <1>5, <1>7 DEF StreamInv
<1>8. ASSUME NEW p \in Orders, NEW i \in 1 .. m, IsOrderEvent(i, p)'
      PROVE  /\ emitted'[i].status = "FILLED" => emitted'[i].filled = Qty
             /\ emitted'[i].status \in Open \/ emitted'[i].status = status'[p]
             /\ emitted'[i].filled <= filled'[p]
             /\ LatestOf(p, i, Len(emitted))' => emitted'[i].status = status'[p] /\ emitted'[i].filled = filled'[p]
  <2>1. CASE i = m /\ p = o
    BY <2>1, <1>4
  <2>2. CASE i \in 1 .. n /\ IsOrderEvent(i, p) /\ p = o
    <3>1. ~LatestOf(p, i, Len(emitted))'
      <4>1. m \in i + 1 .. m /\ IsOrderEvent(Len(emitted), p)'
        BY <2>2, <1>1 DEF IsOrderEvent
      <4>. QED
        BY <4>1 DEF LatestOf
    <3>. QED
      BY <2>2, <3>1, <1>3, <1>4, <1>6 DEF StreamInv
  <2>3. CASE i \in 1 .. n /\ IsOrderEvent(i, p) /\ p # o
    <3>1. LatestOf(p, i, Len(emitted))' => LatestOf(p, i, n)
      BY <2>3, <1>1, <1>3 DEF LatestOf
    <3>. QED
      BY <2>3, <3>1, <1>3, <1>4 DEF StreamInv
  <2>. QED
    BY <1>2, <1>8, <2>1, <2>2, <2>3
<1>9. ASSUME NEW p \in Orders, NEW j \in 1 .. m, NEW i \in 1 .. m,
             IsOrderEvent(i, p)', IsOrderEvent(j, p)', i < j
      PROVE  emitted'[i].status \in Open /\ emitted'[i].filled <= emitted'[j].filled
  <2>1. i \in 1 .. n /\ IsOrderEvent(i, p) /\ emitted'[i] = emitted[i]
    BY <1>1, <1>2, <1>9
  <2>2. CASE j = m /\ p = o
    BY <2>1, <2>2, <1>6
  <2>3. CASE j \in 1 .. n /\ IsOrderEvent(j, p) /\ emitted'[j] = emitted[j]
    BY <2>1, <2>3, <1>9 DEF StreamInv
  <2>. QED
    BY <1>2, <1>9, <2>2, <2>3
<1>. QED
  BY <1>7, <1>8, <1>9 DEF StreamInv

\* Whatever the listeners do, the stream tells each order's story in order.
LEMMA StreamOrdered == Spec => []StreamInv
<1>1. Init => StreamInv
  BY DEF Init, StreamInv
<1>2. TypeOK /\ StreamInv /\ [Next]_vars => StreamInv'
  <2> SUFFICES ASSUME TypeOK, StreamInv, [Next]_vars
               PROVE  StreamInv'
    OBVIOUS
  <2> USE ConstantsAssumption
  <2>1. ASSUME Venue
        PROVE  VenueOK' /\ Extends
    BY <2>1, VenueSteps DEF TypeOK
  <2>2. ASSUME NEW e, emitted' = Append(emitted, e)
        PROVE  /\ Len(emitted') = Len(emitted) + 1
               /\ Len(emitted) \in Nat
               /\ emitted'[Len(emitted) + 1] = e
    BY <2>2 DEF TypeOK, VenueOK
  <2>3. ASSUME NEW o \in Orders, NEW st \in {"NEW", "REJECTED"}, Accept(o, st)
        PROVE  StreamInv'
    <3>1. /\ Venue /\ status[o] = "NONE"
          /\ status' = [status EXCEPT ![o] = st] /\ UNCHANGED filled
          /\ emitted' = Append(emitted, OrderEvent(o, st, "NONE", 0))
      BY <2>3 DEF Venue, Accept
    <3>2. filled[o] = 0
      BY <3>1 DEF StreamInv
    <3>3. filled' = [filled EXCEPT ![o] = 0]
      BY <3>1, <3>2 DEF TypeOK, VenueOK
    <3>4. Reports(o, st, 0)
      <4> DEFINE e == OrderEvent(o, st, "NONE", 0)
      <4>1. e.kind = "order" /\ e.order = o /\ e.status = st /\ e.filled = 0
        BY DEF OrderEvent
      <4> HIDE DEF e
      <4>2. /\ Len(emitted') = Len(emitted) + 1
            /\ Len(emitted) \in Nat
            /\ emitted'[Len(emitted) + 1] = e
        BY <2>2, <3>1 DEF e
      <4>3. /\ Len(emitted) < Len(emitted')
            /\ \A i \in Len(emitted) + 1 .. Len(emitted') - 1 : emitted'[i].kind # "order"
        BY <4>2
      <4>4. emitted'[Len(emitted')] = e
        BY <4>2
      <4>. QED
        <5>1. status[o] \in Open \cup {"NONE"} /\ filled[o] <= 0
          BY <3>1, <3>2
        <5>2. st # "FILLED"
          BY <2>3
        <5>. QED
          BY <3>1, <3>3, <4>1, <4>3, <4>4, <5>1, <5>2 DEF Reports
    <3>. QED
      BY <2>1, <3>1, <3>4, StreamGrows
  <2>4. ASSUME NEW o \in Orders, NEW st \in Statuses, NEW x \in ExecTypes \ {"TRADE"}, End(o, st, x)
        PROVE  StreamInv'
    <3>1. /\ Venue /\ status[o] \in Open /\ st # "FILLED"
          /\ status' = [status EXCEPT ![o] = st] /\ UNCHANGED filled
          /\ emitted' = Append(emitted, OrderEvent(o, st, x, filled[o]))
      BY <2>4 DEF Venue, End, Open
    <3>2. filled' = [filled EXCEPT ![o] = filled[o]] /\ filled[o] \in 0 .. Qty
      BY <3>1 DEF TypeOK, VenueOK
    <3>3. Reports(o, st, filled[o])
      <4> DEFINE e == OrderEvent(o, st, x, filled[o])
      <4>1. e.kind = "order" /\ e.order = o /\ e.status = st /\ e.filled = filled[o]
        BY DEF OrderEvent
      <4> HIDE DEF e
      <4>2. /\ Len(emitted') = Len(emitted) + 1
            /\ Len(emitted) \in Nat
            /\ emitted'[Len(emitted) + 1] = e
        BY <2>2, <3>1 DEF e
      <4>3. /\ Len(emitted) < Len(emitted')
            /\ \A i \in Len(emitted) + 1 .. Len(emitted') - 1 : emitted'[i].kind # "order"
        BY <4>2
      <4>4. emitted'[Len(emitted')] = e
        BY <4>2
      <4>. QED
        <5>1. status[o] \in Open \cup {"NONE"} /\ filled[o] <= filled[o]
          BY <3>1, <3>2
        <5>. QED
          BY <3>1, <3>2, <4>1, <4>3, <4>4, <5>1 DEF Reports
    <3>. QED
      BY <2>1, <3>1, <3>2, <3>3, StreamGrows
  <2>5. ASSUME NEW o \in Orders, NEW k \in 1 .. Qty, Trade(o, k)
        PROVE  StreamInv'
    <3> DEFINE total == filled[o] + k
               st == IF total = Qty THEN "FILLED" ELSE "PARTIALLY_FILLED"
               held == IF o \in Reducing THEN position - k ELSE position + k
               account == [kind |-> "account", amount |-> held]
               order == OrderEvent(o, st, "TRADE", total)
    <3>1. /\ Venue
          /\ status[o] \in Open
          /\ total \in 0 .. Qty
          /\ filled[o] <= total
      <4>1. Venue
        BY <2>5 DEF Venue
      <4>2. filled[o] \in 0 .. Qty /\ total <= Qty /\ status[o] \in Open
        BY <2>5 DEF Trade, Open, TypeOK, VenueOK
      <4>. QED
        BY <4>1, <4>2
    <3>2. /\ st = "FILLED" => total = Qty
          /\ status' = [status EXCEPT ![o] = st]
          /\ filled' = [filled EXCEPT ![o] = total]
          /\ emitted' = emitted \o << account, order >>
      BY <2>5 DEF Trade
    <3>3. /\ account.kind = "account" /\ order.kind = "order" /\ order.order = o
          /\ order.filled = total /\ order.status = st
      BY DEF OrderEvent
    <3> HIDE DEF account, order, total, st
    <3>4. /\ Len(emitted) \in Nat
          /\ Len(emitted') = Len(emitted) + 2
          /\ emitted'[Len(emitted) + 1] = account
          /\ emitted'[Len(emitted) + 2] = order
      BY <3>2 DEF TypeOK, VenueOK
    <3>5. /\ Len(emitted) < Len(emitted')
          /\ emitted'[Len(emitted')] = order
          /\ \A i \in Len(emitted) + 1 .. Len(emitted') - 1 : i = Len(emitted) + 1
      BY <3>4
    <3>6. Reports(o, st, total)
      BY <3>1, <3>2, <3>3, <3>4, <3>5 DEF Reports
    <3>. QED
      BY <2>1, <3>1, <3>6, StreamGrows
  <2>6. ASSUME UNCHANGED venue
        PROVE  StreamInv'
    BY <2>6 DEF venue, StreamInv, LatestOf, IsOrderEvent
  <2>7. ASSUME NEW l \in Listeners, Ingest(l) \/ Listen(l) \/ Disconnect(l) \/ Crash(l)
        PROVE  UNCHANGED venue
    BY <2>7, IngestSteps DEF TypeOK, Listen, Disconnect, Crash
  <2>8. ASSUME NEW l \in Listeners, NEW i \in 1 .. Len(emitted), Replay(l, i)
        PROVE  UNCHANGED venue
    BY <2>8 DEF Replay, Record
  <2>9. CASE UNCHANGED vars
    BY <2>6, <2>9 DEF vars, venue
  <2>. QED
    BY <2>3, <2>4, <2>5, <2>6, <2>7, <2>8, <2>9 DEF Next
<1>. QED
  BY <1>1, <1>2, TypeCorrect, PTL DEF Spec

---------------------------------------------------------------------------
(* One listener that replays nothing                                       *)

OneListener == \E l : Listeners = {l}

\* The listener has not written the lifecycle row of the event at hand yet.
BeforeRow(l) == pc[l] \in {"recorded", "ordered", "loaded"}

\* The row of order o was computed from event i, which was handled before the
\* one at hand; a row in a final state was computed from a final event.
RowFrom(o, i, l) ==
    /\ i \in 1 .. cursor[l]
    /\ BeforeRow(l) => i < at[l]
    /\ IsOrderEvent(i, o)
    /\ lifeFilled[o] = emitted[i].filled
    /\ emitted[i].status \in Open => lifeState[o] \notin FinalStates

\* A single listener works on the event its cursor points to, and the rows
\* come from events it has handled.
FollowInv ==
    \A l \in Listeners :
        /\ pc[l] # "idle" => at[l] = cursor[l]
        /\ pc[l] \in {"written", "planning"} =>
              lifeState[Event(l).order] = NewState(Event(l), prev[l])
        /\ \A o \in Orders :
              \/ lifeFilled[o] = 0 /\ lifeState[o] = "absent"
              \/ \E i \in 1 .. cursor[l] : RowFrom(o, i, l)

\* What the state machine makes of an event of the stream.
LEMMA OpenStaysOpen ==
    ASSUME NEW e, NEW row, e.status \in Open
    PROVE  NewState(e, row) \notin FinalStates
  BY DEF NewState, Canonical, Named, Open, FinalStates

LEMMA NamedState ==
    ASSUME NEW e \in Events, e.kind = "order", e.status # "OTHER", NEW row,
           e.status = "FILLED" => e.filled = Qty
    PROVE  NewState(e, row) = Canonical(e.status, "NONE")
<1> USE ConstantsAssumption
<1>1. e.status \in Statuses \ {"OTHER"}
  BY OrderEventFields
<1>2. /\ Canonical(e.status, e.exec) = Canonical(e.status, "NONE")
      /\ Canonical(e.status, e.exec) # "unknown"
      /\ Canonical(e.status, e.exec) = "filled" => e.status = "FILLED"
  BY <1>1 DEF Canonical, Named, Statuses
<1>. QED
  BY <1>2 DEF NewState, TotalFilled

\* A single listener without replays: what each step of the others leaves.
LEMMA FollowStays ==
    ASSUME TypeOK, FollowInv, VenueOK', Extends, UNCHANGED <<lifeFilled, lifeState>>,
           \A l \in Listeners :
              /\ cursor[l] <= cursor'[l] /\ cursor'[l] \in Nat
              /\ pc'[l] # "idle" => at'[l] = cursor'[l]
              /\ BeforeRow(l)' => \/ BeforeRow(l) /\ at'[l] = at[l]
                                  \/ at'[l] = cursor[l] + 1
              /\ pc'[l] \in {"written", "planning"} =>
                    /\ pc[l] \in {"written", "planning"}
                    /\ at'[l] = at[l] /\ prev'[l] = prev[l]
    PROVE  FollowInv'
<1> SUFFICES ASSUME NEW l \in Listeners
             PROVE  FollowInv!(l)'
  BY DEF FollowInv
<1>1. Len(emitted) \in Nat /\ cursor[l] \in 0 .. Len(emitted)
  BY DEF TypeOK, VenueOK, ListenersOK
<1>2. pc'[l] \in {"written", "planning"} =>
         lifeState'[Event(l)'.order] = NewState(Event(l)', prev'[l])
  <2> SUFFICES ASSUME pc'[l] \in {"written", "planning"}
               PROVE  lifeState'[Event(l)'.order] = NewState(Event(l)', prev'[l])
    OBVIOUS
  <2>1. /\ pc[l] \in {"written", "planning"}
        /\ at'[l] = at[l] /\ prev'[l] = prev[l]
    OBVIOUS
  <2>2. at[l] \in 1 .. Len(emitted)
    BY <2>1 DEF TypeOK, ListenersOK
  <2>3. Event(l)' = Event(l)
    BY <2>1, <2>2 DEF Event, Extends
  <2>4. lifeState[Event(l).order] = NewState(Event(l), prev[l])
    BY <2>1 DEF FollowInv
  <2>. QED
    BY <2>1, <2>3, <2>4 DEF NewState, TotalFilled
<1>3. ASSUME NEW o \in Orders, NEW i \in 1 .. cursor[l], RowFrom(o, i, l)
      PROVE  i \in 1 .. cursor'[l] /\ RowFrom(o, i, l)'
  BY <1>1, <1>3 DEF RowFrom, IsOrderEvent, Extends
<1>. QED
  BY <1>2, <1>3 DEF FollowInv

\* Between events the cursor moves; only UpsertLifecycle writes a row.
LEMMA FollowStep ==
    ASSUME ConstantsAssumption, OneListener, MaxReplays = 0,
           TypeOK, StreamInv, FollowInv, [Next]_vars
    PROVE  /\ FollowInv'
           /\ \A o \in Orders :
                 /\ lifeFilled'[o] >= lifeFilled[o]
                 /\ lifeState[o] \in FinalStates => lifeState'[o] = lifeState[o]
<1> DEFINE Forward == \A o \in Orders :
                          /\ lifeFilled'[o] >= lifeFilled[o]
                          /\ lifeState[o] \in FinalStates => lifeState'[o] = lifeState[o]
<1>1. ASSUME UNCHANGED <<lifeFilled, lifeState>>
      PROVE  Forward
  BY <1>1 DEF TypeOK, TablesOK
<1>2. ASSUME UNCHANGED venue
      PROVE  VenueOK' /\ Extends
  BY <1>2 DEF venue, TypeOK, VenueOK, Extends
<1>3. CASE Venue
  <2>1. VenueOK' /\ Extends /\ UNCHANGED <<cursor, memory, tables, bounds>>
    BY <1>3, VenueSteps DEF TypeOK
  <2>2. FollowInv'
    BY <2>1, FollowStays DEF memory, tables, FollowInv, BeforeRow, TypeOK, ListenersOK
  <2>. QED
    BY <1>1, <2>1, <2>2 DEF tables
<1>4. ASSUME NEW l \in Listeners, Receive(l)
      PROVE  FollowInv' /\ Forward
  <2>1. /\ UNCHANGED <<venue, lifeFilled, lifeState, prev>>
        /\ cursor' = [cursor EXCEPT ![l] = @ + 1]
        /\ pc' = [pc EXCEPT ![l] = "recorded"]
        /\ at' = [at EXCEPT ![l] = cursor[l] + 1]
    BY <1>4 DEF Receive, Record, lifecycleRow
  <2>2. \A k \in Listeners : k = l
    BY DEF OneListener
  <2>3. FollowInv'
    BY <1>2, <2>1, <2>2, FollowStays DEF BeforeRow, TypeOK, ListenersOK
  <2>. QED
    BY <1>1, <2>1, <2>3
<1>5. ASSUME NEW l \in Listeners,
             UpsertOrder(l) \/ RecordPosition(l) \/ LoadLifecycle(l) \/ AppendTransition(l)
             \/ AppendPlan(l) \/ Listen(l) \/ Disconnect(l) \/ Crash(l)
      PROVE  FollowInv' /\ Forward
  <2>1. UNCHANGED <<venue, lifeFilled, lifeState>>
    BY <1>5 DEF UpsertOrder, RecordPosition, LoadLifecycle, AppendTransition, AppendPlan,
       Listen, Disconnect, Crash, tables, lifecycleRow
  <2>2. \A k \in Listeners : k = l
    BY DEF OneListener
  <2>3. /\ cursor[l] <= cursor'[l] /\ cursor'[l] \in Nat
        /\ pc'[l] # "idle" => at'[l] = cursor'[l]
        /\ BeforeRow(l)' => BeforeRow(l) /\ at'[l] = at[l]
        /\ pc'[l] \in {"written", "planning"} =>
              pc[l] \in {"written", "planning"} /\ at'[l] = at[l] /\ prev'[l] = prev[l]
    <3>1. CASE Listen(l) \/ Disconnect(l)
      BY <3>1 DEF Listen, Disconnect, BeforeRow, TypeOK, VenueOK, ListenersOK
    <3>2. CASE Crash(l)
      BY <3>2 DEF Crash, BeforeRow, TypeOK, ListenersOK
    <3>3. CASE UpsertOrder(l) \/ RecordPosition(l) \/ LoadLifecycle(l)
      BY <3>3 DEF UpsertOrder, RecordPosition, LoadLifecycle, BeforeRow, FollowInv,
         TypeOK, ListenersOK
    <3>4. CASE AppendTransition(l) \/ AppendPlan(l)
      BY <3>4 DEF AppendTransition, AppendPlan, BeforeRow, FollowInv, TypeOK, ListenersOK
    <3>. QED
      BY <1>5, <3>1, <3>2, <3>3, <3>4
  <2>4. FollowInv'
    BY <1>2, <2>1, <2>2, <2>3, FollowStays
  <2>. QED
    BY <1>1, <2>1, <2>4
<1>6. ASSUME NEW l \in Listeners, UpsertLifecycle(l)
      PROVE  FollowInv' /\ Forward
  <2>1. /\ pc[l] = "loaded" /\ Event(l).kind = "order"
        /\ Event(l) \in Events
        /\ at[l] = cursor[l] /\ at[l] \in 1 .. Len(emitted)
    BY <1>6, EventAtHand DEF UpsertLifecycle, TypeOK, ListenersOK, FollowInv
  <2>2. PICK o \in Orders, i \in 1 .. Len(emitted), e \in Events :
           o = Event(l).order /\ i = at[l] /\ e = Event(l)
    BY <2>1, OrderEventFields
  <2>3. /\ pc'[l] = "written"
        /\ lifeState'[o] = NewState(e, prev[l]) /\ lifeFilled'[o] = e.filled
        /\ \A p \in Orders \ {o} : lifeState'[p] = lifeState[p] /\ lifeFilled'[p] = lifeFilled[p]
        /\ UNCHANGED <<venue, cursor, at, prev>>
        /\ \A k \in Listeners : k = l
    BY <1>6, <2>2 DEF UpsertLifecycle, TotalFilled, TypeOK, ListenersOK, TablesOK, OneListener
  <2>4. /\ e.filled \in 0 .. Qty
        /\ Len(emitted) \in Nat
        /\ IsOrderEvent(i, o) /\ e = emitted[i]
    BY <2>1, <2>2, OrderEventFields DEF Event, IsOrderEvent, TypeOK, VenueOK
  <2>5. Event(l)' = e
    BY <2>2, <2>3 DEF Event, venue
  <2>6. i \in 1 .. cursor'[l] /\ RowFrom(o, i, l)'
    <3>1. e.status \in Open => NewState(e, prev[l]) \notin FinalStates
      BY OpenStaysOpen
    <3>2. i \in 1 .. cursor[l]
      BY <2>1, <2>2
    <3>. QED
      BY <2>3, <2>4, <3>1, <3>2 DEF RowFrom, BeforeRow, IsOrderEvent, venue
  <2>7. ASSUME NEW p \in Orders \ {o}, NEW j \in 1 .. cursor[l], RowFrom(p, j, l)
        PROVE  RowFrom(p, j, l)'
    BY <2>3, <2>7 DEF RowFrom, BeforeRow, IsOrderEvent, venue
  <2>8. FollowInv'
    <3>1. at'[l] = cursor'[l] /\ lifeState'[Event(l)'.order] = NewState(Event(l)', prev'[l])
      BY <2>1, <2>2, <2>3, <2>5
    <3>2. ASSUME NEW p \in Orders
          PROVE  \/ lifeFilled'[p] = 0 /\ lifeState'[p] = "absent"
                 \/ \E j \in 1 .. cursor'[l] : RowFrom(p, j, l)'
      <4>1. CASE p = o
        BY <4>1, <2>6
      <4>2. CASE p # o
        BY <4>2, <2>3, <2>7 DEF FollowInv
      <4>. QED
        BY <4>1, <4>2
    <3>. QED
      BY <2>3, <3>1, <3>2 DEF FollowInv
  <2>9. e.filled >= lifeFilled[o] /\ (lifeState[o] \in FinalStates => NewState(e, prev[l]) = lifeState[o])
    <3>1. CASE lifeFilled[o] = 0 /\ lifeState[o] = "absent"
      BY <3>1, <2>4 DEF FinalStates
    <3>2. CASE \E j \in 1 .. cursor[l] : RowFrom(o, j, l)
      <4>1. PICK j \in 1 .. cursor[l] : RowFrom(o, j, l)
        BY <3>2
      <4>2. /\ j < i /\ j \in 1 .. Len(emitted) /\ IsOrderEvent(j, o)
            /\ lifeFilled[o] = emitted[j].filled
        BY <2>1, <2>2, <4>1 DEF RowFrom, BeforeRow
      <4>3. emitted[j].status \in Open /\ emitted[j].filled <= e.filled
        BY <2>4, <4>2 DEF StreamInv
      <4>4. emitted[j].filled \in Nat
        BY <4>2, OrderEventFields DEF IsOrderEvent, TypeOK, VenueOK
      <4>5. lifeState[o] \notin FinalStates
        BY <4>1, <4>3 DEF RowFrom
      <4>. QED
        BY <2>4, <4>2, <4>3, <4>4, <4>5
    <3>. QED
      BY <3>1, <3>2 DEF FollowInv
  <2>10. Forward
    BY <2>3, <2>9 DEF TypeOK, TablesOK
  <2>. QED
    BY <2>8, <2>10
<1>7. ASSUME NEW l \in Listeners, NEW i \in 1 .. Len(emitted), Replay(l, i)
      PROVE  FALSE
  BY <1>7 DEF Replay, TypeOK
<1>8. CASE UNCHANGED vars
  <2>1. FollowInv'
    BY <1>8, <1>2, FollowStays DEF vars, venue, FollowInv, BeforeRow, TypeOK, ListenersOK
  <2>. QED
    BY <1>1, <1>8, <2>1 DEF vars
<1>. QED
  BY <1>3, <1>4, <1>5, <1>6, <1>7, <1>8 DEF Next, Venue, Ingest

LEMMA Followed == OneListener /\ MaxReplays = 0 /\ Spec => []FollowInv
<1> SUFFICES ASSUME OneListener, MaxReplays = 0
             PROVE  Spec => []FollowInv
  OBVIOUS
<1>1. Init => FollowInv
  BY DEF Init, FollowInv
<1>2. TypeOK /\ StreamInv /\ FollowInv /\ [Next]_vars => FollowInv'
  BY FollowStep, ConstantsAssumption
<1>. QED
  BY <1>1, <1>2, TypeCorrect, StreamOrdered, PTL DEF Spec

\* A single listener that replays nothing never lowers a filled quantity and
\* never takes an order out of a final state, whatever it misses and whenever
\* it is killed.
THEOREM MovesForward == OneListener /\ MaxReplays = 0 /\ Spec => OnlyForward
<1> SUFFICES ASSUME OneListener, MaxReplays = 0
             PROVE  Spec => OnlyForward
  OBVIOUS
<1>1. TypeOK /\ StreamInv /\ FollowInv /\ [Next]_vars
      => [\A o \in Orders :
             /\ lifeFilled'[o] >= lifeFilled[o]
             /\ lifeState[o] \in FinalStates => lifeState'[o] = lifeState[o]]_vars
  BY FollowStep, ConstantsAssumption
<1>. QED
  BY <1>1, TypeCorrect, StreamOrdered, Followed, PTL DEF Spec, OnlyForward

\* The tables show event i of order o: its status, its quantity and the plan.
RowShown(o, i) ==
    /\ lifeFilled[o] = emitted[i].filled
    /\ emitted[i].status # "OTHER" => lifeState[o] = Canonical(emitted[i].status, "NONE")

AllShown(o, i) ==
    /\ orderRow[o] = emitted[i].status
    /\ RowShown(o, i)
    /\ NeedsPlan(o, lifeState[o], emitted[i].filled) => planned[o] = emitted[i].filled

\* As far as listener l has handled event i, the tables show it.
Shown(o, i, l) ==
    /\ pc[l] = "idle" \/ at[l] # i => AllShown(o, i)
    /\ pc[l] \in {"ordered", "loaded", "written", "planning"} => orderRow[o] = emitted[i].status
    /\ pc[l] \in {"written", "planning"} => RowShown(o, i)

\* Among the events the listener has taken from the stream, the tables show
\* the latest of every order, unless that one was lost.
ShownInv ==
    \A l \in Listeners, o \in Orders : \A i \in 1 .. cursor[l] :
        LatestOf(o, i, cursor[l]) /\ i \notin lost => Shown(o, i, l)

LEMMA ShownStep ==
    ASSUME ConstantsAssumption, OneListener, MaxReplays = 0,
           TypeOK, StreamInv, FollowInv, ShownInv, [Next]_vars
    PROVE  ShownInv'
<1> SUFFICES ASSUME NEW l \in Listeners, NEW o \in Orders,
                    NEW i, i \in 1 .. cursor'[l],
                    LatestOf(o, i, cursor[l])', i \notin lost'
             PROVE  Shown(o, i, l)'
  BY DEF ShownInv
<1>0. /\ Len(emitted) \in Nat
      /\ cursor[l] \in 0 .. Len(emitted)
      /\ \A k \in Listeners : k = l
      /\ pc[l] # "idle" => at[l] = cursor[l]
      /\ pc[l] \notin {"idle", "recorded"} => Event(l) \in Events /\ IsOrderEvent(cursor[l], Event(l).order)
  <2>1. pc[l] # "idle" => at[l] = cursor[l] /\ at[l] \in 1 .. Len(emitted)
    BY DEF FollowInv, TypeOK, ListenersOK
  <2>. QED
    BY <2>1, EventAtHand DEF OneListener, TypeOK, VenueOK, ListenersOK, IsOrderEvent, Event
\* A step that keeps the event among those taken, and the tables for it.
<1>1. ASSUME i \in 1 .. cursor[l], LatestOf(o, i, cursor[l]), i \notin lost
      PROVE  /\ Shown(o, i, l)
             /\ pc[l] = "idle" \/ i # cursor[l] => AllShown(o, i)
  <2>1. Shown(o, i, l)
    BY <1>1 DEF ShownInv
  <2>. QED
    BY <1>0, <2>1 DEF Shown
<1>2. CASE Venue
  <2>1. Extends /\ UNCHANGED <<cursor, memory, tables, bounds>>
    BY <1>2, VenueSteps DEF TypeOK
  <2>2. /\ i \in 1 .. cursor[l] /\ i \notin lost
        /\ emitted'[i] = emitted[i]
        /\ \A j \in 1 .. cursor[l] : emitted'[j] = emitted[j]
    BY <1>0, <2>1 DEF Extends, bounds
  <2>3. LatestOf(o, i, cursor[l])
    BY <1>0, <2>1, <2>2 DEF LatestOf, IsOrderEvent
  <2>. QED
    BY <1>1, <2>1, <2>2, <2>3 DEF Shown, AllShown, RowShown, memory, tables
<1>3. ASSUME cursor'[l] \in Nat, cursor[l] <= cursor'[l],
             UNCHANGED <<emitted, orderRow, lifeState, lifeFilled, planned>>,
             lost \subseteq lost', pc[l] = "idle",
             i > cursor[l] => pc'[l] = "recorded" /\ at'[l] = i
      PROVE  Shown(o, i, l)'
  <2>1. CASE i > cursor[l]
    BY <1>3, <2>1 DEF Shown
  <2>2. CASE ~(i > cursor[l])
    <3>1. i \in 1 .. cursor[l] /\ LatestOf(o, i, cursor[l]) /\ i \notin lost
      BY <1>0, <1>3, <2>2 DEF LatestOf, IsOrderEvent
    <3>2. AllShown(o, i)'
      BY <1>1, <1>3, <3>1 DEF AllShown, RowShown
    <3>. QED
      BY <3>2 DEF Shown, AllShown
  <2>. QED
    BY <2>1, <2>2
<1>4. CASE Receive(l)
  <2>1. /\ cursor'[l] = cursor[l] + 1
        /\ pc[l] = "idle" /\ pc'[l] = "recorded" /\ at'[l] = cursor[l] + 1
        /\ lost' = lost
        /\ UNCHANGED <<emitted, orderRow, lifeState, lifeFilled, planned>>
    BY <1>4 DEF Receive, Record, bounds, venue, lifecycleRow, TypeOK, ListenersOK
  <2>2. i > cursor[l] => i = cursor[l] + 1
    BY <1>0, <2>1
  <2>. QED
    BY <1>0, <1>3, <2>1, <2>2
<1>5. CASE Listen(l) \/ Disconnect(l)
  <2>1. /\ pc[l] = "idle"
        /\ UNCHANGED <<emitted, orderRow, lifeState, lifeFilled, planned>>
    BY <1>5 DEF Listen, Disconnect, venue, tables
  <2>2. CASE Listen(l)
    <3>1. /\ cursor'[l] = Len(emitted)
          /\ lost' = lost \cup (cursor[l] + 1 .. Len(emitted))
      BY <2>2 DEF Listen, TypeOK, ListenersOK
    <3>2. ~(i > cursor[l])
      BY <1>0, <3>1
    <3>. QED
      BY <1>0, <1>3, <2>1, <3>1, <3>2
  <2>3. CASE Disconnect(l)
    <3>1. cursor'[l] = cursor[l] /\ lost' = lost
      BY <2>3 DEF Disconnect, bounds
    <3>2. ~(i > cursor[l])
      BY <1>0, <3>1
    <3>. QED
      BY <1>0, <1>3, <2>1, <3>1, <3>2
  <2>. QED
    BY <1>5, <2>2, <2>3
<1>6. ASSUME UNCHANGED <<emitted, cursor, lost, at>>, pc[l] # "idle"
      PROVE  /\ i \in 1 .. cursor[l] /\ i \notin lost
             /\ LatestOf(o, i, cursor[l])
             /\ Shown(o, i, l)
             /\ i # cursor[l] => AllShown(o, i)
             /\ i = cursor[l] => /\ pc[l] # "recorded" => o = Event(l).order
                                 /\ Event(l) = emitted[i] /\ Event(l).kind = "order"
                                 /\ at[l] = i
             /\ i # cursor[l] /\ pc[l] # "recorded" => o # Event(l).order
             /\ Event(l).kind = "order" /\ i # cursor[l] => o # Event(l).order
  <2>1. i \in 1 .. cursor[l] /\ i \notin lost /\ LatestOf(o, i, cursor[l])
    BY <1>6 DEF LatestOf, IsOrderEvent
  <2>2. i # cursor[l] => ~IsOrderEvent(cursor[l], o)
    BY <1>0, <2>1 DEF LatestOf
  <2>. QED
    BY <1>0, <1>1, <1>6, <2>1, <2>2 DEF LatestOf, IsOrderEvent, Event
<1>7. CASE UpsertOrder(l)
  <2>1. /\ UNCHANGED <<emitted, cursor, lost, at, lifeState, lifeFilled, planned>>
        /\ pc[l] = "recorded" /\ pc'[l] = "ordered"
        /\ Event(l).kind = "order"
        /\ orderRow' = [orderRow EXCEPT ![Event(l).order] = Event(l).status]
    BY <1>7 DEF UpsertOrder, venue, lifecycleRow, bounds, TypeOK, ListenersOK
  <2>2. CASE i = cursor[l]
    <3>1. Event(l) = emitted[i] /\ o = Event(l).order
      BY <1>6, <2>1, <2>2 DEF LatestOf, IsOrderEvent
    <3>. QED
      BY <1>0, <2>1, <2>2, <3>1 DEF Shown, TypeOK, TablesOK
  <2>3. CASE i # cursor[l]
    <3>1. AllShown(o, i) /\ o # Event(l).order
      BY <1>6, <2>1, <2>3
    <3>2. AllShown(o, i)'
      BY <2>1, <3>1 DEF AllShown, RowShown, TypeOK, TablesOK
    <3>. QED
      BY <3>2 DEF Shown, AllShown
  <2>. QED
    BY <2>2, <2>3
<1>8. CASE RecordPosition(l)
  <2>1. /\ UNCHANGED <<emitted, cursor, lost, at, orderRow, lifeState, lifeFilled, planned>>
        /\ pc[l] = "recorded" /\ Event(l).kind = "account"
    BY <1>8 DEF RecordPosition, venue, lifecycleRow, bounds
  <2>2. AllShown(o, i)
    BY <1>6, <2>1
  <2>3. AllShown(o, i)'
    BY <2>1, <2>2 DEF AllShown, RowShown
  <2>. QED
    BY <2>3 DEF Shown, AllShown
<1>9. CASE LoadLifecycle(l)
  <2>1. /\ UNCHANGED <<emitted, cursor, lost, at, orderRow, lifeState, lifeFilled, planned>>
        /\ pc[l] = "ordered" /\ pc'[l] = "loaded"
    BY <1>9 DEF LoadLifecycle, venue, tables, bounds, TypeOK, ListenersOK
  <2>2. Shown(o, i, l)
    BY <1>6, <2>1
  <2>. QED
    BY <2>1, <2>2 DEF Shown, AllShown, RowShown
<1>10. CASE UpsertLifecycle(l)
  <2>1. /\ UNCHANGED <<emitted, cursor, lost, at, orderRow, planned>>
        /\ pc[l] = "loaded" /\ pc'[l] = "written"
        /\ lifeState' = [lifeState EXCEPT ![Event(l).order] = NewState(Event(l), prev[l])]
        /\ lifeFilled' = [lifeFilled EXCEPT ![Event(l).order] = Event(l).filled]
    BY <1>10 DEF UpsertLifecycle, TotalFilled, venue, bounds, TypeOK, ListenersOK
  <2>2. CASE i = cursor[l]
    <3>1. /\ Event(l) = emitted[i] /\ o = Event(l).order /\ at'[l] = i
          /\ Event(l) \in Events /\ Event(l).kind = "order"
          /\ orderRow[o] = emitted[i].status
      BY <1>0, <1>6, <2>1, <2>2 DEF Shown
    <3>2. Event(l).status = "FILLED" => Event(l).filled = Qty
      BY <1>0, <1>6, <2>1, <3>1 DEF StreamInv, LatestOf
    <3>3. Event(l).status # "OTHER" => NewState(Event(l), prev[l]) = Canonical(Event(l).status, "NONE")
      BY <3>1, <3>2, NamedState
    <3>4. RowShown(o, i)'
      BY <2>1, <3>1, <3>3 DEF RowShown, TypeOK, TablesOK
    <3>. QED
      BY <2>1, <3>1, <3>4 DEF Shown
  <2>3. CASE i # cursor[l]
    <3>1. AllShown(o, i) /\ o # Event(l).order
      BY <1>6, <2>1, <2>3
    <3>2. AllShown(o, i)'
      BY <2>1, <3>1 DEF AllShown, RowShown, TypeOK, TablesOK
    <3>. QED
      BY <3>2 DEF Shown, AllShown
  <2>. QED
    BY <2>2, <2>3
<1>11. CASE AppendTransition(l)
  <2>1. /\ UNCHANGED <<emitted, cursor, lost, at, orderRow, planned, lifeState, lifeFilled>>
        /\ pc[l] = "written"
        /\ pc'[l] = IF NeedsPlan(Event(l).order, NewState(Event(l), prev[l]), Event(l).filled)
                    THEN "planning" ELSE "idle"
    BY <1>11 DEF AppendTransition, TotalFilled, venue, lifecycleRow, bounds, TypeOK, ListenersOK
  <2>2. CASE i = cursor[l]
    <3>1. /\ Event(l) = emitted[i] /\ o = Event(l).order /\ at'[l] = i
          /\ orderRow[o] = emitted[i].status
          /\ RowShown(o, i)
          /\ lifeState[o] = NewState(Event(l), prev[l])
      BY <1>6, <2>1, <2>2 DEF Shown, FollowInv
    <3>2. RowShown(o, i)' /\ orderRow'[o] = emitted'[i].status
      BY <2>1, <3>1 DEF RowShown
    <3>3. pc'[l] = "idle" => AllShown(o, i)'
      BY <2>1, <3>1, <3>2 DEF AllShown
    <3>. QED
      BY <3>1, <3>2, <3>3 DEF Shown
  <2>3. CASE i # cursor[l]
    <3>1. AllShown(o, i)
      BY <1>6, <2>1, <2>3
    <3>2. AllShown(o, i)'
      BY <2>1, <3>1 DEF AllShown, RowShown
    <3>. QED
      BY <3>2 DEF Shown, AllShown
  <2>. QED
    BY <2>2, <2>3
<1>12. CASE AppendPlan(l)
  <2>1. /\ UNCHANGED <<emitted, cursor, lost, at, orderRow, lifeState, lifeFilled>>
        /\ pc[l] = "planning"
        /\ planned' = [planned EXCEPT ![Event(l).order] = Event(l).filled]
    BY <1>12 DEF AppendPlan, TotalFilled, venue, lifecycleRow, bounds
  <2>2. CASE i = cursor[l]
    <3>1. /\ Event(l) = emitted[i] /\ o = Event(l).order
          /\ orderRow[o] = emitted[i].status
          /\ RowShown(o, i)
      BY <1>6, <2>1, <2>2 DEF Shown
    <3>2. AllShown(o, i)'
      BY <2>1, <3>1 DEF AllShown, RowShown, TypeOK, TablesOK
    <3>. QED
      BY <3>2 DEF Shown, AllShown
  <2>3. CASE i # cursor[l]
    <3>1. AllShown(o, i) /\ o # Event(l).order
      BY <1>6, <2>1, <2>3
    <3>2. AllShown(o, i)'
      BY <2>1, <3>1 DEF AllShown, RowShown, TypeOK, TablesOK
    <3>. QED
      BY <3>2 DEF Shown, AllShown
  <2>. QED
    BY <2>2, <2>3
<1>13. CASE Crash(l)
  <2>1. /\ UNCHANGED <<emitted, cursor, at, orderRow, lifeState, lifeFilled, planned>>
        /\ pc[l] # "idle" /\ lost' = lost \cup {at[l]}
    BY <1>13 DEF Crash, venue, tables
  <2>2. i \in 1 .. cursor[l] /\ LatestOf(o, i, cursor[l]) /\ i \notin lost /\ i # cursor[l]
    BY <1>0, <2>1 DEF LatestOf, IsOrderEvent
  <2>3. AllShown(o, i)'
    BY <1>1, <2>1, <2>2 DEF AllShown, RowShown
  <2>. QED
    BY <2>3 DEF Shown, AllShown
<1>14. ASSUME NEW k \in Listeners, NEW j \in 1 .. Len(emitted), Replay(k, j)
       PROVE  FALSE
  BY <1>14 DEF Replay, TypeOK
<1>15. CASE UNCHANGED vars
  <2>1. i \in 1 .. cursor[l] /\ LatestOf(o, i, cursor[l]) /\ i \notin lost
    BY <1>15 DEF vars, LatestOf, IsOrderEvent
  <2>. QED
    BY <1>1, <1>15, <2>1 DEF vars, Shown, AllShown, RowShown
<1>. QED
  BY <1>0, <1>2, <1>4, <1>5, <1>7, <1>8, <1>9, <1>10, <1>11, <1>12, <1>13, <1>14, <1>15
  DEF Next, Venue, Ingest

\* A single listener that replays nothing heals whatever it missed: once it
\* has done with the last event of an order, the tables mirror the exchange.
THEOREM ExchangeMirrored == OneListener /\ MaxReplays = 0 /\ Spec => []MirrorsExchange
<1> SUFFICES ASSUME OneListener, MaxReplays = 0
             PROVE  Spec => []MirrorsExchange
  OBVIOUS
<1>1. Init => ShownInv
  BY DEF Init, ShownInv
<1>2. TypeOK /\ StreamInv /\ FollowInv /\ ShownInv /\ [Next]_vars => ShownInv'
  BY ShownStep, ConstantsAssumption
<1>3. TypeOK /\ StreamInv /\ ShownInv => MirrorsExchange
  <2> SUFFICES ASSUME TypeOK, StreamInv, ShownInv, NEW l \in Listeners,
                      NEW o \in Orders, NEW i \in 1 .. Len(emitted),
                      LatestOf(o, i, Len(emitted)), i \notin lost,
                      cursor[l] >= i, pc[l] = "idle"
               PROVE  /\ orderRow[o] = status[o]
                      /\ lifeFilled[o] = filled[o]
                      /\ status[o] # "OTHER" => lifeState[o] = Canonical(status[o], "NONE")
                      /\ NeedsPlan(o, lifeState[o], filled[o]) => planned[o] = filled[o]
    BY DEF MirrorsExchange, UpToDate, LatestOf, OneListener
  <2>1. cursor[l] \in 0 .. Len(emitted) /\ Len(emitted) \in Nat
    BY DEF TypeOK, VenueOK, ListenersOK
  <2>2. i \in 1 .. cursor[l] /\ LatestOf(o, i, cursor[l])
    BY <2>1 DEF LatestOf
  <2>3. AllShown(o, i)
    BY <2>2 DEF ShownInv, Shown
  <2>4. emitted[i].status = status[o] /\ emitted[i].filled = filled[o]
    BY DEF StreamInv, LatestOf
  <2>. QED
    BY <2>3, <2>4 DEF AllShown, RowShown
<1>. QED
  BY <1>1, <1>2, <1>3, TypeCorrect, StreamOrdered, Followed, PTL DEF Spec

===========================================================================
