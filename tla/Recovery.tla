------------------------------- MODULE Recovery -------------------------------
(***************************************************************************)
(* Reconciliation of the local paper account with the exchange             *)
(* (src/exchange/sync.py, recovery.py, recovery_executor.py), the demo      *)
(* supervisor around it (src/daemon/supervisor.py), the service runner     *)
(* around that (src/deploy) and the alerts they send.  Four scripts run a  *)
(* pass: demo_sync_once ("sync"), demo_auto_recovery_once ("recover"),     *)
(* demo_supervisor_loop ("loop") and run_demo_service ("service").         *)
(*                                                                         *)
(* A pass reads the account, the exchange position and the open orders one *)
(* after the other, compares them, and records what it found; nothing it   *)
(* does reaches the exchange.  Any read, insert or delivery may raise.     *)
(***************************************************************************)
EXTENDS Integers, Sequences, FiniteSets, FiniteSetsExt, SequencesExt

CONSTANTS
    Runs,           \* executions of a script
    Commands,       \* run -> the <<script, source>> it may be started with
    Orders,         \* orders that may be open at the exchange ...
    Protective,     \* ... and those that are reduce-only or conditional
    MinProtective,  \* native_protection.min_protective_order_count
    Quantities,     \* quantities the paper account may hold
    Positions,      \* contracts the exchange position may have, signed
    MaxIterations,  \* run -> its --max-iterations
    MaxChanges,     \* bound: changes of the account and at the exchange
    MaxFaults       \* bound: exceptions and killed processes

Scripts == {"sync", "recover", "loop", "service"}
\* --fetch-private, no argument, or a simulated exchange given as arguments.
Sources == {"private", "local_only", "simulated"}

ASSUME RecoveryAssumption ==
    /\ Commands \in [Runs -> SUBSET (Scripts \X Sources)]
    /\ IsFiniteSet(Orders) /\ Protective \subseteq Orders
    /\ Quantities \subseteq Nat /\ Positions \subseteq Int
    /\ {0} \subseteq Quantities \cap Positions
    /\ MinProtective \in Nat /\ MaxIterations \in [Runs -> Nat \ {0}]
    /\ MaxChanges \in Nat /\ MaxFaults \in Nat

VARIABLES
    local,        \* quantity of the paper account
    position,     \* contracts of the exchange position, signed
    open,         \* open orders at the exchange
    run,          \* run -> its script, the step it is at and what it has read
    tables,       \* rows of reconciliation_runs, recovery_actions and alerts
    heartbeats,   \* table daemon_heartbeats
    statusFile,   \* the heartbeat the runtime status file shows, 0 for none
    changes, faults,
    steady        \* history: run -> the troubles there have been since its pass began

recoveryVars == <<local, position, open, run, tables, heartbeats, statusFile,
                  changes, faults, steady>>
world == <<local, position, open, changes>>

Abs(q) == IF q < 0 THEN -q ELSE q

-----------------------------------------------------------------------------
(* compare_local_and_exchange_state.                                       *)

\* The account without the position, the position without the account, two
\* quantities, a position without its protective orders.
ConcernNames == {"ghost", "orphan", "drift", "naked"}

\* Mutant of Concerns: every open order passes for a protective one.
ConcernsAnyOrder(l, q, orders) ==
    {c \in ConcernNames :
        CASE c = "ghost"  -> l > 0 /\ q = 0
          [] c = "orphan" -> q # 0 /\ l = 0
          [] c = "drift"  -> q # 0 /\ l > 0 /\ l # Abs(q)
          [] c = "naked"  -> q # 0 /\ Cardinality(orders) < MinProtective}

\* Quantities are compared without their sign.
Concerns(l, q, orders) ==
    {c \in ConcernNames :
        CASE c = "ghost"  -> l > 0 /\ q = 0
          [] c = "orphan" -> q # 0 /\ l = 0
          [] c = "drift"  -> q # 0 /\ l > 0 /\ l # Abs(q)
          [] c = "naked"  -> q # 0 /\ Cardinality(orders \cap Protective) < MinProtective}

\* The warnings, in the order the code looks for them.
Warnings(found) ==
    LET Warning(c) == IF c \in found THEN <<c>> ELSE <<>>
    IN  Warning("ghost") \o Warning("orphan") \o Warning("drift") \o Warning("naked")

\* actions_from_recovery: one action per warning, "continue" when there is none.
\* Without an exchange snapshot the only warning is that nothing was compared.
Actions(r) ==
    IF r.source = "local_only" THEN <<"review">>
    ELSE LET found == Concerns(r.local, r.position, r.open)
         IN  IF found = {} THEN <<"continue">> ELSE Warnings(found)

ReportStatus(actions) ==
    CASE actions = <<"continue">> -> "ok"
      [] actions = <<"review">>   -> "local_only"
      [] OTHER                    -> "warning"

\* execute_action: none of the actions a report can hold is ever executed.
Outcome(action) ==
    CASE action \in {"orphan", "drift"} -> "blocked"
      [] action = "naked"               -> "manual_required"
      [] OTHER                          -> "record_only"

-----------------------------------------------------------------------------
(* Steps of a run.                                                         *)

Asleep == [script |-> "none", source |-> "none", pc |-> "off", iteration |-> 0,
           local |-> 0, position |-> 0, open |-> {}, todo |-> <<>>, report |-> "none",
           raised |-> FALSE, seen |-> 0, unread |-> FALSE]

Supervised(r) == run[r].script \in {"loop", "service"}
At(r, pc) == run[r].pc = pc
Goto(r, pc) == run' = [run EXCEPT ![r].pc = pc]
Row(r, what) == [run |-> r, iteration |-> run[r].iteration, what |-> what]
Insert(table, row) == tables' = [tables EXCEPT ![table] = @ \cup {row}]
Beat(r, status) == heartbeats' = Append(heartbeats, Row(r, status))

\* What follows the last action of a report.
AfterActions(r) == IF Supervised(r) THEN "beat" ELSE "returned"
\* What follows an iteration of run_once.
AfterIteration(r) == IF run[r].script = "service" THEN "status" ELSE "asleep"

\* What is wrong between the account and the exchange at one moment.
Troubles(l, q, orders) ==
    {c \in {"mismatch", "naked"} :
        CASE c = "mismatch" -> l # Abs(q)
          [] c = "naked"    -> q # 0 /\ Cardinality(orders \cap Protective) < MinProtective}

BeginPass(r, record) ==
    /\ run' = [run EXCEPT ![r] = [record EXCEPT !.pc = "account", !.raised = FALSE]]
    /\ steady' = [steady EXCEPT ![r] = IF record.source = "private"
                                       THEN Troubles(local, position, open) ELSE {}]

Launch(r, script, source) ==
    /\ At(r, "off")
    /\ <<script, source>> \in Commands[r]
    /\ LET record == [run[r] EXCEPT !.script = script, !.source = source, !.iteration = 1]
       IN  IF script = "service"
           THEN /\ run' = [run EXCEPT ![r] = [record EXCEPT !.pc = "preflight"]]
                /\ UNCHANGED steady
           ELSE BeginPass(r, record)
    /\ UNCHANGED <<world, tables, heartbeats, statusFile, faults>>

\* DeploymentHealthChecker.run: a failed check ends the service unless it is
\* told to go on; the alert it wants to send has no sender, so it ends with
\* another exception and without the alert.
Preflight(r, check, skip) ==
    /\ At(r, "preflight")
    /\ IF check = "fail" /\ ~ skip
       THEN Goto(r, "dead") /\ UNCHANGED steady
       ELSE BeginPass(r, run[r])
    /\ UNCHANGED <<world, tables, heartbeats, statusFile, faults>>

ReadAccount(r) ==
    /\ At(r, "account")
    /\ run' = [run EXCEPT ![r].local = local,
                          ![r].pc = IF run[r].source = "private" THEN "position" ELSE "report"]
    /\ UNCHANGED <<world, tables, heartbeats, statusFile, faults, steady>>

ReadPosition(r) ==
    /\ At(r, "position")
    /\ run' = [run EXCEPT ![r].position = position, ![r].pc = "orders"]
    /\ UNCHANGED <<world, tables, heartbeats, statusFile, faults, steady>>

\* The open orders are fetched; they and the position are stored.
ReadOrders(r) ==
    /\ At(r, "orders")
    /\ run' = [run EXCEPT ![r].open = open, ![r].pc = "report"]
    /\ UNCHANGED <<world, tables, heartbeats, statusFile, faults, steady>>

\* The row of the pass.  A simulated exchange is whatever the arguments say.
RecordReport(r, q, orders) ==
    LET read == IF run[r].source = "simulated"
                THEN [run[r] EXCEPT !.position = q, !.open = orders] ELSE run[r]
        actions == Actions(read)
    IN  /\ At(r, "report")
        /\ run[r].source # "simulated" => q = 0 /\ orders = {}
        /\ Insert("reconciliations", Row(r, actions))
        /\ run' = [run EXCEPT ![r] =
                     [read EXCEPT !.local = 0, !.position = 0, !.open = {},
                                  !.todo = actions, !.report = ReportStatus(actions),
                                  !.pc = IF read.script = "sync" THEN "returned" ELSE "act"]]
        /\ UNCHANGED <<world, heartbeats, statusFile, faults, steady>>

\* _record_result: the row of an action comes before its alert.
Act(r) ==
    LET action == Head(run[r].todo)
    IN  /\ At(r, "act") /\ run[r].todo # <<>>
        /\ Insert("recoveries", Row(r, <<action, Outcome(action)>>))
        /\ run' = [run EXCEPT ![r].todo = Tail(@),
                              ![r].pc = IF action # "continue" THEN "alert" ELSE "act"]
        /\ UNCHANGED <<world, heartbeats, statusFile, faults, steady>>

\* The alert of an action: that its row cannot be stored is passed over.
AlertAction(r) ==
    /\ At(r, "alert")
    /\ Goto(r, "act")
    /\ \/ Insert("alerts", Row(r, "action")) /\ UNCHANGED faults
       \/ faults < MaxFaults /\ faults' = faults + 1 /\ UNCHANGED tables
    /\ UNCHANGED <<world, heartbeats, statusFile, steady>>

EndActions(r) ==
    /\ At(r, "act") /\ run[r].todo = <<>>
    /\ Goto(r, AfterActions(r))
    /\ UNCHANGED <<world, tables, heartbeats, statusFile, faults, steady>>

BeatStatus(report) == IF report \in {"ok", "local_only"} THEN "ok" ELSE "warning"

Heartbeat(r) ==
    LET status == BeatStatus(run[r].report)
    IN  /\ At(r, "beat")
        /\ Beat(r, status)
        /\ Goto(r, IF status = "ok" THEN AfterIteration(r) ELSE "warn")
        /\ UNCHANGED <<world, tables, statusFile, faults, steady>>

\* Mutant of Warn: its row is passed over like that of an action.
WarnBestEffort(r) ==
    /\ At(r, "warn")
    /\ Goto(r, AfterIteration(r))
    /\ \/ Insert("alerts", Row(r, "warning")) /\ UNCHANGED faults
       \/ faults < MaxFaults /\ faults' = faults + 1 /\ UNCHANGED tables
    /\ UNCHANGED <<world, heartbeats, statusFile, steady>>

Warn(r) ==
    /\ At(r, "warn")
    /\ Insert("alerts", Row(r, "warning"))
    /\ Goto(r, AfterIteration(r))
    /\ UNCHANGED <<world, heartbeats, statusFile, faults, steady>>

\* Something raises: the exchange does not answer, the database is locked, the
\* alert cannot be written.  run_once catches it, the other scripts end.
Raise(r) ==
    /\ run[r].pc \in {"account", "position", "orders", "report", "act", "alert", "beat", "warn"}
    /\ faults < MaxFaults /\ faults' = faults + 1
    /\ run' = [run EXCEPT ![r] = [Asleep EXCEPT
                  !.script = run[r].script, !.source = run[r].source,
                  !.iteration = run[r].iteration, !.raised = TRUE,
                  !.pc = IF Supervised(r) THEN "except_beat" ELSE "dead"]]
    /\ UNCHANGED <<world, tables, heartbeats, statusFile, steady>>

ErrorBeat(r) ==
    /\ At(r, "except_beat")
    /\ Beat(r, "error")
    /\ Goto(r, "except_alert")
    /\ UNCHANGED <<world, tables, statusFile, faults, steady>>

ErrorAlert(r) ==
    /\ At(r, "except_alert")
    /\ Insert("alerts", Row(r, "error"))
    /\ Goto(r, AfterIteration(r))
    /\ UNCHANGED <<world, heartbeats, statusFile, faults, steady>>

\* After each iteration the service reads the tables; one that cannot be read
\* counts as empty, and the status then shows no heartbeat ...
BuildStatus(r) ==
    /\ At(r, "status")
    /\ \/ run' = [run EXCEPT ![r].seen = Len(heartbeats), ![r].unread = FALSE, ![r].pc = "write"]
          /\ UNCHANGED faults
       \/ /\ faults < MaxFaults /\ faults' = faults + 1
          /\ run' = [run EXCEPT ![r].seen = 0, ![r].unread = TRUE, ![r].pc = "write"]
    /\ UNCHANGED <<world, tables, heartbeats, statusFile, steady>>

\* ... and writes the status file.
WriteStatus(r) ==
    /\ At(r, "write")
    /\ statusFile' = run[r].seen
    /\ run' = [run EXCEPT ![r].seen = 0, ![r].pc = "asleep"]
    /\ UNCHANGED <<world, tables, heartbeats, faults, steady>>

\* Mutant of Wake: one iteration more than asked for.
WakeOnceMore(r) ==
    /\ At(r, "asleep")
    /\ IF run[r].iteration <= MaxIterations[r]
       THEN BeginPass(r, [run[r] EXCEPT !.iteration = @ + 1])
       ELSE Goto(r, "returned") /\ UNCHANGED steady
    /\ UNCHANGED <<world, tables, heartbeats, statusFile, faults>>

\* run_loop: one iteration after the other.
Wake(r) ==
    /\ At(r, "asleep")
    /\ IF run[r].iteration < MaxIterations[r]
       THEN BeginPass(r, [run[r] EXCEPT !.iteration = @ + 1])
       ELSE Goto(r, "returned") /\ UNCHANGED steady
    /\ UNCHANGED <<world, tables, heartbeats, statusFile, faults>>

\* The process is killed, or raises where nobody catches it.
Die(r) ==
    /\ run[r].pc \notin {"off", "dead", "returned"}
    /\ faults < MaxFaults /\ faults' = faults + 1
    /\ Goto(r, "dead")
    /\ UNCHANGED <<world, tables, heartbeats, statusFile, steady>>

-----------------------------------------------------------------------------
(* The account and the exchange go on meanwhile.  Two quantities that differ *)
(* before a change and after it are two troubles, not one that lasts.       *)

StillSteady(l, q, orders) ==
    steady' = [r \in Runs |->
        {c \in steady[r] \cap Troubles(l, q, orders) :
            c = "mismatch" => l = local /\ q = position}]

World(l, q, orders) ==
    /\ changes < MaxChanges /\ changes' = changes + 1
    /\ local' = l /\ position' = q /\ open' = orders
    /\ StillSteady(l, q, orders)
    /\ UNCHANGED <<run, tables, heartbeats, statusFile, faults>>

Trade(l) == l # local /\ World(l, position, open)
Fill(q) == q # position /\ World(local, q, open)
PlaceOrCancel(o) == World(local, position, IF o \in open THEN open \ {o} ELSE open \cup {o})

-----------------------------------------------------------------------------
(* Specification.                                                          *)

RecoveryInit ==
    /\ local \in Quantities /\ position \in Positions /\ open \in SUBSET Orders
    /\ run = [r \in Runs |-> Asleep]
    /\ tables = [reconciliations |-> {}, recoveries |-> {}, alerts |-> {}]
    /\ heartbeats = <<>> /\ statusFile = 0
    /\ changes = 0 /\ faults = 0
    /\ steady = [r \in Runs |-> {}]

RunStep(r) ==
    \/ \E script \in Scripts, source \in Sources : Launch(r, script, source)
    \/ \E check \in {"pass", "fail"}, skip \in BOOLEAN : Preflight(r, check, skip)
    \/ ReadAccount(r) \/ ReadPosition(r) \/ ReadOrders(r)
    \/ \E q \in Positions, orders \in SUBSET Protective : RecordReport(r, q, orders)
    \/ Act(r) \/ AlertAction(r) \/ EndActions(r)
    \/ Heartbeat(r) \/ Warn(r) \/ Raise(r) \/ ErrorBeat(r) \/ ErrorAlert(r)
    \/ BuildStatus(r) \/ WriteStatus(r) \/ Wake(r) \/ Die(r)

RecoveryNext ==
    \/ \E r \in Runs : RunStep(r)
    \/ \E l \in Quantities : Trade(l)
    \/ \E q \in Positions : Fill(q)
    \/ \E o \in Orders : PlaceOrCancel(o)

RecoverySpec == RecoveryInit /\ [][RecoveryNext]_recoveryVars

-----------------------------------------------------------------------------
(* Properties.                                                             *)

Steps == {"off", "preflight", "account", "position", "orders", "report", "act", "alert",
          "beat", "warn", "except_beat", "except_alert", "status", "write", "asleep", "returned", "dead"}
ActionNames == ConcernNames \cup {"review", "continue"}

RecoveryTypeOK ==
    /\ local \in Quantities /\ position \in Positions /\ open \subseteq Orders
    /\ run \in [Runs ->
         [script : Scripts \cup {"none"},
          source : Sources \cup {"none"},
          pc : Steps, iteration : Nat, local : Quantities, position : Positions,
          open : SUBSET Orders, todo : Seq(ActionNames),
          report : {"none", "ok", "local_only", "warning"}, raised : BOOLEAN,
          seen : Nat, unread : BOOLEAN]]
    /\ \A r \in Runs : run[r].iteration <= MaxIterations[r]
    /\ heartbeats \in Seq([run : Runs, iteration : Nat,
                           what : {"ok", "warning", "error"}])
    /\ statusFile \in 0..Len(heartbeats)
    /\ changes \in 0..MaxChanges /\ faults \in 0..MaxFaults
    /\ steady \in [Runs -> SUBSET {"mismatch", "naked"}]

\* The beats of a run's present iteration.
Beats(r) == {n \in DOMAIN heartbeats :
                heartbeats[n].run = r /\ heartbeats[n].iteration = run[r].iteration}

Finished(r) == run[r].pc \in {"asleep", "returned"}

\* The concerns a trouble may be reported as.
ReportedAs(trouble) == IF trouble = "naked" THEN {"naked"} ELSE {"ghost", "orphan", "drift"}

\* Whatever trades and fills happen while a pass reads: quantities that differed
\* between the account and the exchange, or a position without its protective
\* orders, from the beginning of a private pass to its end are in its report,
\* have their recovery action recorded, and keep the heartbeat from saying ok.
SteadyMismatchReported ==
    \A r \in Runs :
        Finished(r) /\ run[r].source = "private" /\ ~ run[r].raised =>
            \A trouble \in steady[r] : \E c \in ReportedAs(trouble) :
                /\ \E row \in tables.reconciliations :
                       row.run = r /\ row.iteration = run[r].iteration /\ c \in Range(row.what)
                /\ run[r].script # "sync" => Row(r, <<c, Outcome(c)>>) \in tables.recoveries
                /\ Supervised(r) => \A n \in Beats(r) : heartbeats[n].what = "warning"

\* A supervisor that goes to sleep or returns has left a heartbeat of its
\* iteration; the last one says error when anything raised, and an alert is
\* stored for it unless it says ok.  Unless two services write it, the status
\* file never shows an older one: it shows this one or a later one, or none at
\* all when the heartbeats could not be read for it.
TroubleHasAlert ==
    \A r \in Runs :
        Supervised(r) /\ Finished(r) =>
            /\ Beats(r) # {}
            /\ LET last == heartbeats[Max(Beats(r))]
               IN  /\ last.what # "ok" => last \in tables.alerts
                   /\ run[r].raised => last.what = "error"
            /\ (\A s \in Runs : run[s].script = "service" <=> s = r) =>
                   IF run[r].unread THEN statusFile = 0 ELSE statusFile >= Max(Beats(r))
===============================================================================
