------------------------------- MODULE LiveGate -------------------------------
(***************************************************************************)
(* What an operator consults before real money is traded (src/live): the   *)
(* live safety gate, the pre-live validation report, the shadow monitor    *)
(* and the pre-live review, each a script that reads files, the database   *)
(* and its own copy of the configuration one after the other, while the    *)
(* operator, the kill switch command, the paper loop and other copies of   *)
(* these scripts write them.                                               *)
(*                                                                         *)
(* A script is a sequence of steps (Program); a step reads or writes one   *)
(* file or table.  Files are rewritten in place: truncated, then filled.   *)
(* Tables that are only appended to and read by nobody (events, audits,    *)
(* reports) are left out.  A script may be killed anywhere: it then takes   *)
(* no further step, which the specification allows everywhere.             *)
(***************************************************************************)
EXTENDS Integers, Sequences

CONSTANTS
    Scripts,     \* script invocations, which may overlap
    Kinds,       \* bound: the programs each of them may be
    Configs,     \* configurations config.yaml may hold: sets of switches on
    Items,       \* keys of the checklist
    Marks,       \* bound: what prelive_checklist_mark.py writes
    Reports,     \* live_trading.required_reports
    Quantities,  \* positions, exposures: those further apart than the tolerances
    Equities,    \* equities, likewise; 0 is none at all
    InitialEquity, \* trading.initial_equity
    Holdings,    \* bound: positions that earlier runs have left
    MaxChanges,  \* bound: changes made beside the scripts
    MaxFailures  \* bound: reads of the database that fail

Pass == "pass"
Warn == "warn"
Blocked == "blocked"
Statuses == {Pass, Warn, Blocked}

LaunchSwitches == {"master_enable", "environment_live", "allow_live_trading"}
Switches == LaunchSwitches
    \cup {"leverage_capped", "readonly_guards", "readonly_key_present", "no_literal_secret"}
Evidence == Reports \cup {"demo_days"}
Accepted == {"approved", "pass", "waived"}
ItemStatuses == Accepted \cup {"pending", "failed", "warn", "blocked"}

ASSUME ConfigsAssumption == Configs \subseteq SUBSET Switches
ASSUME MarksAssumption == Marks \subseteq ItemStatuses
ASSUME QuantitiesAssumption ==
    /\ 0 \in Quantities /\ {0, InitialEquity} \subseteq Equities
    /\ Holdings \subseteq [live : Quantities, snapshot : Quantities,
                          account : Quantities, target : Quantities]
ASSUME BoundsAssumption == MaxChanges \in Nat /\ MaxFailures \in Nat

VARIABLES
    config,         \* config.yaml, the environment's keys included
    killFile,       \* the kill switch file: "on", "off", "none" when it is
                    \* missing or torn
    validationFile, \* status in the pre-live validation report, or "none"
    monitorFile,    \* status in shadow_drift_report.json, or "none"
    evidence,       \* reports that exist, and whether the demo ran long enough
    hard,           \* what the hard circuit says of the equity curve
    unknown,        \* an order of the lifecycle table is in state unknown
    checklist,      \* checklist rows: item -> status
    approval,       \* decision of the newest approval row, or "none"
    live,           \* the real account: position, equity, orders left open
    snapshot,       \* newest shadow snapshot: source, position, equity, open orders, age
    account,        \* paper account: position, equity, age
    target,         \* newest target decision: exposure, age
    kind,           \* the script a process runs, "none" before it starts
    cfg,            \* the configuration it loaded
    todo,           \* the steps it has still to take
    left,           \* evidence it has still to look at
    seen,           \* what it read of the snapshot and of the account
    found,          \* statuses of the checks it made, per report
    outcome,        \* its verdict, "none" before
    lost,           \* scripts that could not read a table they check
    steady,         \* history: concerns that have held since it started
    changes, failures

files == <<killFile, validationFile, monitorFile>>
tables == <<checklist, approval, snapshot>>
world == <<config, evidence, hard, unknown, live, account, target>>
memory == <<kind, cfg, todo, left, seen, found, outcome, lost>>
vars == <<files, tables, world, memory, steady, changes, failures>>

Nothing == [gate |-> {}, monitor |-> {}, own |-> {}]
Ages == {"absent", "fresh", "stale"}
NoRow == [qty |-> 0, age |-> "absent"]
NoAccount == [qty |-> 0, equity |-> 0, age |-> "absent"]
Snapshot(from, acc) ==
    [source |-> from, qty |-> acc.qty, equity |-> acc.equity, orders |-> acc.orders,
     age |-> IF from = "none" THEN "absent" ELSE "fresh"]
Flat == [qty |-> 0, equity |-> InitialEquity, orders |-> FALSE]
NoSnapshot == Snapshot("none", Flat)

\* Mutant of Overall: the word for a blocked item is used for the report.
OverallItemWord(S) ==
    IF Blocked \in S THEN "block" ELSE IF Warn \in S THEN Warn ELSE Pass

Overall(S) == IF Blocked \in S THEN Blocked ELSE IF Warn \in S THEN Warn ELSE Pass

BlockIf(cond) == IF cond THEN Blocked ELSE Pass
WarnIf(cond) == IF cond THEN Warn ELSE Pass

-----------------------------------------------------------------------------
(* Programs.                                                               *)

GateSteps == <<"kill", "validation", "circuit", "unknown">>
CompareSteps == <<"snapshot", "account", "target", "monitor_verdict", "monitor_fill">>

Program == [
    gate           |-> GateSteps \o <<"gate_verdict">>,
    readiness      |-> <<"evidence">> \o GateSteps \o <<"readiness_verdict">>,
    validate       |-> <<"evidence", "validation_verdict", "validation_fill">>,
    monitor        |-> <<"refresh">> \o CompareSteps,
    review         |-> <<"defaults", "monitor_report">> \o GateSteps
                       \o <<"payload", "circuit_again", "checklist", "approval", "review_verdict">>,
    review_refresh |-> <<"defaults", "refresh">> \o CompareSteps \o GateSteps
                       \o <<"payload", "circuit_again", "checklist", "approval", "review_verdict">>,
    trigger        |-> <<"kill_truncate", "kill_on">>,
    clear          |-> <<"kill_truncate", "kill_off">>]

ASSUME KindsAssumption == Kinds \in [Scripts -> SUBSET DOMAIN Program]

Reviews == {"review", "review_refresh"}
At(p, step) == todo[p] # <<>> /\ Head(todo[p]) = step
Proceed(p) == todo' = [todo EXCEPT ![p] = Tail(@)]
Note(p, report, S) == found' = [found EXCEPT ![p][report] = @ \cup S]

Forget(p) == seen' = [seen EXCEPT ![p] = [snapshot |-> NoSnapshot, account |-> NoAccount]]

\* The verdict ends the script; what it had read is dropped.
Conclude(p, status) ==
    /\ outcome' = [outcome EXCEPT ![p] = status]
    /\ todo' = [todo EXCEPT ![p] = <<>>]
    /\ found' = [found EXCEPT ![p] = Nothing]
    /\ Forget(p)

\* The checks of the gate that need only the loaded configuration; the
\* confirmation phrase is long enough in every configuration.
GateConfigChecks(c) ==
    {BlockIf(~ (LaunchSwitches \subseteq c)), BlockIf("leverage_capped" \notin c)}

\* Mutant of Audit: only what reads the account is looked at, not what the
\* configuration switches on or gives away.
AuditCredentialsOnly(c) ==
    {WarnIf("readonly_key_present" \notin c), BlockIf("readonly_guards" \notin c)}

\* ApiPermissionAuditor.audit: live switches must be off, no key pasted into the
\* configuration, shadow mode read-only.
Audit(c) ==
    {BlockIf("master_enable" \in c \/ "allow_live_trading" \in c),
     WarnIf("readonly_key_present" \notin c),
     BlockIf("no_literal_secret" \notin c),
     BlockIf("readonly_guards" \notin c)}

Start(p, k) ==
    /\ kind[p] = "none"
    /\ kind' = [kind EXCEPT ![p] = k]
    /\ cfg' = [cfg EXCEPT ![p] = config]
    /\ todo' = [todo EXCEPT ![p] = Program[k]]
    /\ left' = [left EXCEPT ![p] = IF k \in {"validate", "readiness"} THEN Evidence ELSE {}]
    /\ found' = [found EXCEPT ![p].own = IF k \in Reviews THEN Audit(config) ELSE {}]
    /\ UNCHANGED <<files, tables, world, seen, outcome, lost, changes, failures>>

-----------------------------------------------------------------------------
(* The gate (LiveSafetyGate.evaluate).                                     *)

\* The first of the three reads of the file decides the status.
ReadKillSwitch(p) ==
    /\ At(p, "kill")
    /\ Proceed(p)
    /\ Note(p, "gate", GateConfigChecks(cfg[p]) \cup {BlockIf(killFile = "on")})
    /\ UNCHANGED <<files, tables, world, kind, cfg, left, seen, outcome, lost, changes, failures>>

ReadValidation(p) ==
    /\ At(p, "validation")
    /\ Proceed(p)
    /\ Note(p, "gate", {BlockIf(validationFile # Pass)})
    /\ UNCHANGED <<files, tables, world, kind, cfg, left, seen, outcome, lost, changes, failures>>

\* Within a review the hard circuit is evaluated twice, each time from the table.
ReadCircuit(p) ==
    /\ At(p, "circuit") \/ At(p, "circuit_again")
    /\ Proceed(p)
    /\ Note(p, IF At(p, "circuit") THEN "gate" ELSE "own", {hard})
    /\ UNCHANGED <<files, tables, world, kind, cfg, left, seen, outcome, lost, changes, failures>>

\* A table that cannot be read is an empty curve, which only warns.
ReadCircuitFails(p) ==
    /\ At(p, "circuit") \/ At(p, "circuit_again")
    /\ failures < MaxFailures
    /\ Proceed(p)
    /\ Note(p, IF At(p, "circuit") THEN "gate" ELSE "own", {Warn})
    /\ lost' = lost \cup {p}
    /\ failures' = failures + 1
    /\ UNCHANGED <<files, tables, world, kind, cfg, left, seen, outcome, changes>>

CountUnknown(p) ==
    /\ At(p, "unknown")
    /\ Proceed(p)
    /\ Note(p, "gate", {BlockIf(unknown)})
    /\ UNCHANGED <<files, tables, world, kind, cfg, left, seen, outcome, lost, changes, failures>>

\* Any exception (a locked database) counts as no unknown order.
CountUnknownFails(p) ==
    /\ At(p, "unknown")
    /\ failures < MaxFailures
    /\ Proceed(p)
    /\ Note(p, "gate", {Pass})
    /\ lost' = lost \cup {p}
    /\ failures' = failures + 1
    /\ UNCHANGED <<files, tables, world, kind, cfg, left, seen, outcome, changes>>

\* live_gate_check.py prints and saves the verdict.
GateVerdict(p) ==
    /\ At(p, "gate_verdict")
    /\ Conclude(p, Overall(found[p].gate))
    /\ UNCHANGED <<files, tables, world, kind, cfg, left, lost, changes, failures>>

\* v2_live_readiness_report.py: a gate that only warns is a pass, and the kill
\* switch is read once more.
ReadinessVerdict(p) ==
    /\ At(p, "readiness_verdict")
    /\ Conclude(p, BlockIf(\/ Overall(found[p].gate) = Blocked
                           \/ Overall(found[p].own) # Pass
                           \/ killFile = "on"))
    /\ UNCHANGED <<files, tables, world, kind, cfg, left, lost, changes, failures>>

-----------------------------------------------------------------------------
(* The validation report (PreLiveValidationBuilder.build).                 *)

\* Mutant of LookAtEvidence: the length of the demo is never compared.
LookAtReports(p, e) ==
    /\ At(p, "evidence") \/ At(p, "payload")
    /\ e \in left[p]
    /\ left' = [left EXCEPT ![p] = @ \ {e}]
    /\ Note(p, "own", {BlockIf(e # "demo_days" /\ e \notin evidence)})
    /\ IF left[p] = {e} THEN Proceed(p) ELSE UNCHANGED todo
    /\ UNCHANGED <<files, tables, world, kind, cfg, seen, outcome, lost, changes, failures>>

\* One required report, or the length of the demo's equity curve.
LookAtEvidence(p, e) ==
    /\ At(p, "evidence") \/ At(p, "payload")
    /\ e \in left[p]
    /\ left' = [left EXCEPT ![p] = @ \ {e}]
    /\ Note(p, "own", {BlockIf(e \notin evidence)})
    /\ IF left[p] = {e} THEN Proceed(p) ELSE UNCHANGED todo
    /\ UNCHANGED <<files, tables, world, kind, cfg, seen, outcome, lost, changes, failures>>

\* build_prelive_validation_report.py: write_text truncates, then writes.
ValidationVerdict(p) ==
    /\ At(p, "validation_verdict")
    /\ Proceed(p)
    /\ validationFile' = "none"
    /\ UNCHANGED <<killFile, monitorFile, tables, world, kind, cfg, left, seen,
                   found, outcome, lost, changes, failures>>

ValidationFill(p) ==
    /\ At(p, "validation_fill")
    /\ validationFile' = Overall(found[p].own)
    /\ Conclude(p, Overall(found[p].own))
    /\ UNCHANGED <<killFile, monitorFile, tables, world, kind, cfg, left, lost, changes, failures>>

-----------------------------------------------------------------------------
(* The shadow monitor (ShadowLivePaperMonitor).                            *)

\* maybe_refresh_shadow_snapshot: a private snapshot of the account with
\* --fetch-live-readonly, which a review without --refresh-shadow ignores.
Fetch(p) ==
    /\ At(p, "refresh") /\ kind[p] # "review"
    /\ Proceed(p)
    /\ snapshot' = Snapshot("private", live)
    /\ UNCHANGED <<files, checklist, approval, world, kind, cfg, left, seen, found,
                   outcome, lost, changes, failures>>

\* Without --fetch-live-readonly an offline preview is stored when the table
\* is empty or cannot be read; another script may have filled it before the
\* row is written.
OfflineLook(p) ==
    /\ At(p, "refresh")
    /\ \/ snapshot.source # "none" /\ Proceed(p) /\ UNCHANGED failures
       \/ /\ \/ snapshot.source = "none" /\ UNCHANGED failures
             \/ failures < MaxFailures /\ failures' = failures + 1
          /\ todo' = [todo EXCEPT ![p] = <<"offline_append">> \o Tail(@)]
    /\ UNCHANGED <<files, tables, world, kind, cfg, left, seen, found, outcome,
                   lost, changes>>

Offline == Snapshot("offline", Flat)

OfflineAppend(p) ==
    /\ At(p, "offline_append")
    /\ Proceed(p)
    /\ snapshot' = Offline
    /\ UNCHANGED <<files, checklist, approval, world, kind, cfg, left, seen, found,
                   outcome, lost, changes, failures>>

\* An offline snapshot passes: shadow_monitor.allow_offline_shadow_snapshot is on.
CompareSnapshot(p) ==
    /\ At(p, "snapshot")
    /\ Proceed(p)
    /\ seen' = [seen EXCEPT ![p].snapshot = snapshot]
    /\ Note(p, "monitor", {BlockIf(snapshot.source = "none"), WarnIf(snapshot.age = "stale"),
                           WarnIf(snapshot.orders /\ snapshot.qty = 0)})
    /\ UNCHANGED <<files, tables, world, kind, cfg, left, outcome, lost, changes, failures>>

\* The two equities are compared too, unless the paper account has none left.
CompareAccount(p) ==
    LET shadow == seen[p].snapshot
        drift == \/ shadow.qty # account.qty
                 \/ account.equity # 0 /\ shadow.equity # account.equity
    IN  /\ At(p, "account")
        /\ Proceed(p)
        /\ seen' = [seen EXCEPT ![p].account = account]
        /\ Note(p, "monitor",
                {BlockIf(account.age = "absent"), WarnIf(account.age = "stale"),
                 WarnIf(shadow.source # "none" /\ account.age # "absent" /\ drift)})
        /\ UNCHANGED <<files, tables, world, kind, cfg, left, outcome, lost, changes, failures>>

\* The snapshot and the account are both compared with the decision.
CompareTarget(p) ==
    /\ At(p, "target")
    /\ Proceed(p)
    /\ Note(p, "monitor",
            {WarnIf(target.age # "fresh"),
             WarnIf(/\ target.age # "absent"
                    /\ {seen[p].snapshot.qty, seen[p].account.qty} # {target.qty})})
    /\ UNCHANGED <<files, tables, world, kind, cfg, left, seen, outcome, lost, changes, failures>>

\* build_report also evaluates the gate, whose answer it only displays.
MonitorVerdict(p) ==
    /\ At(p, "monitor_verdict")
    /\ Proceed(p)
    /\ monitorFile' = "none"
    /\ Forget(p)
    /\ UNCHANGED <<killFile, validationFile, tables, world, kind, cfg, left,
                   found, outcome, lost, changes, failures>>

\* The report is written and, in a review, becomes one of its checks.
MonitorFill(p) ==
    LET status == Overall(found[p].monitor)
    IN  /\ At(p, "monitor_fill")
        /\ monitorFile' = status
        /\ IF kind[p] \in Reviews
           THEN /\ Proceed(p)
                /\ found' = [found EXCEPT ![p].own = @ \cup {status}, ![p].monitor = {}]
                /\ UNCHANGED <<seen, outcome>>
           ELSE Conclude(p, status)
        /\ UNCHANGED <<killFile, validationFile, tables, world, kind, cfg, left, lost,
                       changes, failures>>

-----------------------------------------------------------------------------
(* The review (PreLiveReviewBuilder.build).                                *)

\* initialize_default_checklist adds the rows that are missing, as pending.
WithDefaults(rows) == [i \in Items |-> IF i \in DOMAIN rows THEN rows[i] ELSE "pending"]

AddDefaults(p) ==
    /\ At(p, "defaults")
    /\ Proceed(p)
    /\ checklist' = WithDefaults(checklist)
    /\ UNCHANGED <<files, approval, snapshot, world, kind, cfg, left, seen, found,
                   outcome, lost, changes, failures>>

\* Without --refresh-shadow the last report is taken whatever its age; one is
\* built, offline, when there is none.
ReadMonitorReport(p) ==
    /\ At(p, "monitor_report")
    /\ IF monitorFile = "none"
       THEN /\ todo' = [todo EXCEPT ![p] = <<"refresh">> \o CompareSteps \o Tail(@)]
            /\ UNCHANGED found
       ELSE /\ Proceed(p)
            /\ Note(p, "own", {monitorFile})
    /\ UNCHANGED <<files, tables, world, kind, cfg, left, seen, outcome, lost, changes, failures>>

\* The gate's answer becomes a check that never blocks, then the validation
\* report is read, or its checks are made in memory when there is none.
ReadPayload(p) ==
    /\ At(p, "payload")
    /\ left[p] = {}
    /\ LET gate == WarnIf(Overall(found[p].gate) = Warn)
       IN  IF validationFile = "none"
           THEN /\ found' = [found EXCEPT ![p].own = @ \cup {gate}, ![p].gate = {}]
                /\ left' = [left EXCEPT ![p] = Evidence]
                /\ UNCHANGED todo
           ELSE /\ found' = [found EXCEPT ![p].own = @ \cup {gate, validationFile},
                                          ![p].gate = {}]
                /\ Proceed(p)
                /\ UNCHANGED left
    /\ UNCHANGED <<files, tables, world, kind, cfg, seen, outcome, lost, changes, failures>>

LoadChecklist(p) ==
    /\ At(p, "checklist")
    /\ Proceed(p)
    /\ Note(p, "own", {BlockIf(\E i \in DOMAIN checklist : checklist[i] \notin Accepted)})
    /\ UNCHANGED <<files, tables, world, kind, cfg, left, seen, outcome, lost, changes, failures>>

\* prelive_manual_approval.py stores no row without the phrase, so only the
\* decision is left to look at.
LatestApproval(p) ==
    /\ At(p, "approval")
    /\ Proceed(p)
    /\ Note(p, "own", {BlockIf(approval # "approve")})
    /\ UNCHANGED <<files, tables, world, kind, cfg, left, seen, outcome, lost, changes, failures>>

ReviewVerdict(p) ==
    /\ At(p, "review_verdict")
    /\ Conclude(p, Overall(found[p].own))
    /\ UNCHANGED <<files, tables, world, kind, cfg, left, lost, changes, failures>>

-----------------------------------------------------------------------------
(* The kill switch command (KillSwitch.trigger and clear).                 *)

KillSwitchTruncate(p) ==
    /\ At(p, "kill_truncate")
    /\ Proceed(p)
    /\ killFile' = "none"
    /\ UNCHANGED <<validationFile, monitorFile, tables, world, kind, cfg, left, seen,
                   found, outcome, lost, changes, failures>>

KillSwitchFill(p) ==
    /\ At(p, "kill_on") \/ At(p, "kill_off")
    /\ killFile' = IF At(p, "kill_on") THEN "on" ELSE "off"
    /\ Conclude(p, BlockIf(At(p, "kill_on")))
    /\ UNCHANGED <<validationFile, monitorFile, tables, world, kind, cfg, left, lost,
                   changes, failures>>

-----------------------------------------------------------------------------
(* What happens beside the scripts.                                        *)

Change == changes < MaxChanges /\ changes' = changes + 1
Quiet == UNCHANGED <<files, memory, failures>>

EditConfig(c) ==
    /\ Change
    /\ config' = c
    /\ Quiet
    /\ UNCHANGED <<tables, evidence, hard, unknown, live, account, target>>

\* The paper loop takes a decision, follows it or not, and marks its equity.
PaperStep(q, e, t, h) ==
    /\ Change
    /\ account' = [qty |-> q, equity |-> e, age |-> "fresh"]
    /\ target' = [qty |-> t, age |-> "fresh"]
    /\ hard' = h
    /\ Quiet
    /\ UNCHANGED <<tables, config, evidence, unknown, live>>

\* The real account trades or leaves an order open, an order's state gets lost or is resolved, a
\* report is written or removed.
Elsewhere ==
    /\ Change
    /\ \/ /\ \E q \in Quantities, e \in Equities : live' = [live EXCEPT !.qty = q, !.equity = e]
          /\ UNCHANGED <<unknown, evidence>>
       \/ live' = [live EXCEPT !.orders = ~ @] /\ UNCHANGED <<unknown, evidence>>
       \/ unknown' = ~ unknown /\ UNCHANGED <<live, evidence>>
       \/ /\ \E e \in Evidence :
                 evidence' = IF e \in evidence THEN evidence \ {e} ELSE evidence \cup {e}
          /\ UNCHANGED <<live, unknown>>
    /\ Quiet
    /\ UNCHANGED <<tables, config, hard, account, target>>

Aged(row) == IF row.age = "fresh" THEN [row EXCEPT !.age = "stale"] ELSE row

\* Nothing is written for longer than the limits of shadow_monitor.
GrowOld ==
    /\ Change
    /\ snapshot' = Aged(snapshot)
    /\ account' = Aged(account)
    /\ target' = Aged(target)
    /\ Quiet
    /\ UNCHANGED <<checklist, approval, config, evidence, hard, unknown, live>>

\* prelive_checklist_mark.py, which adds missing rows first.
MarkItem(i, status) ==
    /\ Change
    /\ checklist' = [WithDefaults(checklist) EXCEPT ![i] = status]
    /\ Quiet
    /\ UNCHANGED <<approval, snapshot, world>>

\* prelive_checklist_init.py --reset, one transaction.
ResetChecklist ==
    /\ Change
    /\ checklist' = [i \in Items |-> "pending"]
    /\ Quiet
    /\ UNCHANGED <<approval, snapshot, world>>

\* prelive_manual_approval.py: approve_small_live or approve_shadow_only, or
\* one of the two refusals.
Decide(decision) ==
    /\ Change
    /\ approval' = decision
    /\ Quiet
    /\ UNCHANGED <<checklist, snapshot, world>>

\* shadow_live_readonly_check.py, with or without --fetch-private.
ReadonlyCheck ==
    /\ Change
    /\ snapshot' \in {Offline, Snapshot("private", live)}
    /\ Quiet
    /\ UNCHANGED <<checklist, approval, world>>

-----------------------------------------------------------------------------
(* Specification.                                                          *)

GateReads(p) ==
    \/ ReadKillSwitch(p) \/ ReadValidation(p) \/ ReadCircuit(p)
    \/ ReadCircuitFails(p) \/ CountUnknown(p) \/ CountUnknownFails(p)
    \/ GateVerdict(p) \/ ReadinessVerdict(p)

ValidationStep(p) ==
    \/ \E e \in Evidence : LookAtEvidence(p, e)
    \/ ValidationVerdict(p) \/ ValidationFill(p)

MonitorStep(p) ==
    \/ Fetch(p) \/ OfflineLook(p) \/ OfflineAppend(p)
    \/ CompareSnapshot(p) \/ CompareAccount(p) \/ CompareTarget(p)
    \/ MonitorVerdict(p) \/ MonitorFill(p)

ReviewStep(p) ==
    \/ AddDefaults(p) \/ ReadMonitorReport(p) \/ ReadPayload(p)
    \/ LoadChecklist(p) \/ LatestApproval(p) \/ ReviewVerdict(p)

ScriptStep(p) ==
    \/ \E k \in Kinds[p] : Start(p, k)
    \/ GateReads(p) \/ ValidationStep(p) \/ MonitorStep(p) \/ ReviewStep(p)
    \/ KillSwitchTruncate(p) \/ KillSwitchFill(p)

OutsideStep ==
    \/ \E c \in Configs : EditConfig(c)
    \/ \E q, t \in Quantities, e \in Equities, h \in {Pass, Blocked} : PaperStep(q, e, t, h)
    \/ Elsewhere \/ GrowOld \/ ResetChecklist \/ ReadonlyCheck
    \/ \E i \in Items, s \in Marks : MarkItem(i, s)
    \/ \E d \in {"approve", "refuse"} : Decide(d)

Flag(name, cond) == IF cond THEN {<<"state", name>>} ELSE {}
Each(class, names) == {<<class, n>> : n \in names}

\* docs/LIVE_SAFETY_SHADOW_MODE.md, lines 73 to 81: what forbids live orders.
GateConcerns(p) ==
    Each("off", (LaunchSwitches \cup {"leverage_capped"}) \ cfg[p])
    \cup Flag("kill_switch", killFile = "on")
    \cup Flag("validation", validationFile # Pass)
    \cup Flag("hard_circuit", hard = Blocked /\ p \notin lost)
    \cup Flag("unknown_order", unknown /\ p \notin lost)

\* Two values that differ: a drift is the same only while both stay as they are.
Gap(name, a, b) == IF a = b THEN {} ELSE {<<name, a, b>>}

\* docs/SHADOW_MONITORING.md, lines 70 to 74.
MonitorConcerns ==
    Flag("snapshot", snapshot.age # "fresh")
    \cup Flag("account", account.age # "fresh")
    \cup Flag("target", target.age # "fresh")
    \cup Flag("orders", snapshot.orders /\ snapshot.qty = 0)
    \cup Gap("drift", snapshot.qty, account.qty)
    \cup (IF account.equity = 0 THEN {}
          ELSE Gap("equity", snapshot.equity, account.equity))
    \cup (IF target.age = "absent" THEN {}
          ELSE Gap("exposure", snapshot.qty, target.qty)
               \cup Gap("paper_exposure", account.qty, target.qty))

\* docs/PRELIVE_OPERATOR_WORKFLOW.md, lines 9 to 13 and 70 to 74.
ReviewConcerns(p) ==
    Each("off", {"readonly_guards", "readonly_key_present", "no_literal_secret"} \ cfg[p])
    \cup Each("on", {"master_enable", "allow_live_trading"} \cap cfg[p])
    \cup Each("item", {i \in DOMAIN checklist : checklist[i] \notin Accepted})
    \cup Flag("approval", approval # "approve")
    \cup Flag("circuit", hard # Pass)
    \cup Flag("validation", validationFile = Blocked)
    \cup Each("evidence", IF validationFile = "none" THEN Evidence \ evidence ELSE {})
    \cup (IF kind[p] = "review_refresh" THEN MonitorConcerns
          ELSE Flag("monitor", monitorFile \in {Warn, Blocked}))

Concerns(p) ==
    CASE kind[p] = "gate" -> GateConcerns(p) \cup Flag("no_curve", hard = Warn)
      [] kind[p] = "readiness" ->
             GateConcerns(p) \cup Each("evidence", Evidence \ evidence)
      [] kind[p] = "validate" -> Each("evidence", Evidence \ evidence)
      [] kind[p] = "monitor" -> MonitorConcerns
      [] kind[p] \in Reviews -> ReviewConcerns(p)
      [] OTHER -> {}

\* History: a concern stays in steady[p] while it holds; the set is dropped
\* with a verdict that is not a pass.
Remember ==
    steady' = [p \in Scripts |->
        IF outcome'[p] \notin {"none", Pass} THEN {}
        ELSE IF kind[p] = "none" THEN Concerns(p)'
        ELSE steady[p] \cap Concerns(p)']

\* A new installation, or one whose evidence, reports, checklist, approval and
\* accounts earlier runs have put in order.
GateInit ==
    /\ config \in Configs
    /\ killFile = "none"
    /\ unknown = FALSE
    /\ \E ready \in BOOLEAN, held \in Holdings :
           /\ ready \/ \A part \in DOMAIN held : held[part] = 0
           /\ live = [Flat EXCEPT !.qty = held.live]
           /\ hard = IF ready THEN Pass ELSE Warn
           /\ validationFile = IF ready THEN Pass ELSE "none"
           /\ monitorFile = IF ready THEN Pass ELSE "none"
           /\ evidence = IF ready THEN Evidence ELSE {}
           /\ checklist = [i \in IF ready THEN Items ELSE {} |-> "approved"]
           /\ approval = IF ready THEN "approve" ELSE "none"
           /\ snapshot = IF ready THEN Snapshot("private", [Flat EXCEPT !.qty = held.snapshot])
                         ELSE NoSnapshot
           /\ account = IF ready THEN [qty |-> held.account, equity |-> InitialEquity,
                                       age |-> "fresh"]
                        ELSE NoAccount
           /\ target = IF ready THEN [qty |-> held.target, age |-> "fresh"] ELSE NoRow
    /\ kind = [p \in Scripts |-> "none"]
    /\ cfg = [p \in Scripts |-> {}]
    /\ todo = [p \in Scripts |-> <<>>]
    /\ left = [p \in Scripts |-> {}]
    /\ seen = [p \in Scripts |-> [snapshot |-> NoSnapshot, account |-> NoAccount]]
    /\ found = [p \in Scripts |-> Nothing]
    /\ outcome = [p \in Scripts |-> "none"]
    /\ lost = {} /\ changes = 0 /\ failures = 0
    /\ steady = [p \in Scripts |-> {}]

GateNext == ((\E p \in Scripts : ScriptStep(p)) \/ OutsideStep) /\ Remember

GateSpec == GateInit /\ [][GateNext]_vars

-----------------------------------------------------------------------------
(* Properties.                                                             *)

GateTypeOK ==
    /\ config \in SUBSET Switches
    /\ killFile \in {"on", "off", "none"}
    /\ {validationFile, monitorFile} \subseteq Statuses \cup {"none"}
    /\ evidence \subseteq Evidence /\ hard \in Statuses
    /\ unknown \in BOOLEAN /\ live \in [qty : Quantities, equity : Equities, orders : BOOLEAN]
    /\ DOMAIN checklist \subseteq Items
    /\ \A i \in DOMAIN checklist : checklist[i] \in ItemStatuses
    /\ approval \in {"none", "approve", "refuse"}
    /\ snapshot \in [source : {"none", "offline", "private"}, qty : Quantities,
                    equity : Equities, orders : BOOLEAN, age : Ages]
    /\ account \in [qty : Quantities, equity : Equities, age : Ages]
    /\ target \in [qty : Quantities, age : Ages]
    /\ kind \in [Scripts -> DOMAIN Program \cup {"none"}]
    /\ cfg \in [Scripts -> SUBSET Switches]
    /\ found \in [Scripts -> [gate : SUBSET Statuses, monitor : SUBSET Statuses,
                              own : SUBSET Statuses]]
    /\ outcome \in [Scripts -> Statuses \cup {"none"}]
    /\ left \in [Scripts -> SUBSET Evidence]
    /\ lost \subseteq Scripts

\* A concern that held from the start of a script to its verdict is never
\* overlooked: whatever is written beside it, in whatever order it reads, a
\* gate, readiness report, validation, monitor or review that passes saw no
\* concern of its documented list hold all the time.  The reads are not one
\* transaction: a concern that comes and goes may be missed, and so may two
\* accounts that always differ by changing amounts (the snapshot and the paper
\* account are read one after the other); the concern is that the same two
\* values differ.
NoConcernOverlooked == \A p \in Scripts : outcome[p] = Pass => steady[p] = {}

\* The review passes only while real trading is switched off and the gate only
\* when it is switched on: no configuration passes both, somebody must edit the
\* configuration after the review (and then no review can confirm it).
ReviewExcludesGate ==
    \A p, q \in Scripts :
        /\ kind[p] \in Reviews /\ kind[q] = "gate"
        /\ outcome[p] = Pass /\ outcome[q] = Pass
        => cfg[p] # cfg[q]
===============================================================================
