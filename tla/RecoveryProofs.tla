--------------------------- MODULE RecoveryProofs ---------------------------
(***************************************************************************)
(* What Recovery guarantees for any number of runs of the four scripts,    *)
(* iterations, changes of the account or the exchange, and exceptions.     *)
(***************************************************************************)
EXTENDS Recovery, TLAPS

---------------------------------------------------------------------------
(* The operators of the model                                              *)

LEMMA ConcatRange ==
    ASSUME NEW S, NEW s \in Seq(S), NEW t \in Seq(S)
    PROVE  /\ s \o t \in Seq(S)
           /\ Range(s \o t) = Range(s) \cup Range(t)
<1>1. /\ s \o t \in Seq(S)
      /\ DOMAIN (s \o t) = 1 .. Len(s) + Len(t)
      /\ \A i \in 1 .. Len(s) : (s \o t)[i] = s[i]
      /\ \A i \in 1 .. Len(t) : (s \o t)[Len(s) + i] = t[i]
      /\ Len(s) \in Nat /\ Len(t) \in Nat
      /\ DOMAIN s = 1 .. Len(s) /\ DOMAIN t = 1 .. Len(t)
  OBVIOUS
<1>2. ASSUME NEW i \in 1 .. Len(s) + Len(t)
      PROVE  (s \o t)[i] \in Range(s) \cup Range(t)
  <2>1. CASE i <= Len(s)
    BY <1>1, <2>1 DEF Range
  <2>2. CASE ~ i <= Len(s)
    <3>1. i - Len(s) \in 1 .. Len(t) /\ Len(s) + (i - Len(s)) = i
      BY <1>1, <2>2
    <3>2. (s \o t)[i] = t[i - Len(s)]
      BY <1>1, <3>1
    <3> QED  BY <1>1, <3>1, <3>2 DEF Range
  <2> QED  BY <2>1, <2>2
<1>3. Range(s \o t) \subseteq Range(s) \cup Range(t)
  BY <1>1, <1>2 DEF Range
<1>4. Range(s) \subseteq Range(s \o t)
  BY <1>1 DEF Range
<1>5. ASSUME NEW i \in 1 .. Len(t)
      PROVE  t[i] \in Range(s \o t)
  <2>1. Len(s) + i \in 1 .. Len(s) + Len(t)
    BY <1>1
  <2> QED  BY <1>1, <2>1 DEF Range
<1>6. Range(t) \subseteq Range(s \o t)
  BY <1>1, <1>5 DEF Range
<1> QED  BY <1>1, <1>3, <1>4, <1>6

LEMMA WarningsRange ==
    ASSUME NEW found, found \subseteq ConcernNames
    PROVE  /\ Warnings(found) \in Seq(ActionNames)
           /\ Range(Warnings(found)) = found
<1> DEFINE W(c) == IF c \in found THEN <<c>> ELSE <<>>
<1>1. ASSUME NEW c \in ConcernNames
      PROVE  W(c) \in Seq(ActionNames) /\ Range(W(c)) = found \cap {c}
  <2>1. CASE c \in found
    BY <1>1, <2>1 DEF Range, ActionNames
  <2>2. CASE c \notin found
    BY <2>2 DEF Range
  <2> QED  BY <2>1, <2>2
<1>2. /\ "ghost" \in ConcernNames /\ "orphan" \in ConcernNames
      /\ "drift" \in ConcernNames /\ "naked" \in ConcernNames
  BY DEF ConcernNames
<1>3. \A s, t \in Seq(ActionNames) :
         s \o t \in Seq(ActionNames) /\ Range(s \o t) = Range(s) \cup Range(t)
  BY ConcatRange
<1> DEFINE Two == W("ghost") \o W("orphan")
           Three == Two \o W("drift")
           Four == Three \o W("naked")
<1>4. Two \in Seq(ActionNames) /\ Range(Two) = found \cap {"ghost", "orphan"}
  <2> HIDE DEF W
  <2> QED  BY <1>1, <1>2, <1>3
<1>5. Three \in Seq(ActionNames) /\ Range(Three) = found \cap {"ghost", "orphan", "drift"}
  <2> HIDE DEF W, Two
  <2> QED  BY <1>1, <1>2, <1>3, <1>4
<1>6. Four \in Seq(ActionNames)
      /\ Range(Four) = found \cap {"ghost", "orphan", "drift", "naked"}
  <2> HIDE DEF W, Three
  <2> QED  BY <1>1, <1>2, <1>3, <1>5
<1>7. found \cap {"ghost", "orphan", "drift", "naked"} = found
  BY DEF ConcernNames
<1> QED  BY <1>6, <1>7 DEF Warnings

\* A report holds the concerns of what was read, if anything was compared.
LEMMA ActionsOfReport ==
    ASSUME NEW rec
    PROVE  /\ Actions(rec) \in Seq(ActionNames)
           /\ rec.source # "local_only" =>
                \A c \in Concerns(rec.local, rec.position, rec.open) :
                    c \in Range(Actions(rec)) /\ ReportStatus(Actions(rec)) = "warning"
           /\ ReportStatus(Actions(rec)) \in {"ok", "local_only", "warning"}
<1> DEFINE found == Concerns(rec.local, rec.position, rec.open)
<1>1. found \subseteq ConcernNames
  BY DEF Concerns
<1>2. <<"review">> \in Seq(ActionNames) /\ <<"continue">> \in Seq(ActionNames)
  BY DEF ActionNames
<1>3. Warnings(found) \in Seq(ActionNames) /\ Range(Warnings(found)) = found
  BY <1>1, WarningsRange
<1>4. Range(<<"continue">>) = {"continue"} /\ Range(<<"review">>) = {"review"}
  BY DEF Range
<1>5. "continue" \notin found /\ "review" \notin found
  BY <1>1 DEF ConcernNames
<1>6. ASSUME rec.source # "local_only", found # {}
      PROVE  Actions(rec) = Warnings(found) /\ ReportStatus(Actions(rec)) = "warning"
  <2>1. Actions(rec) = Warnings(found)
    BY <1>6 DEF Actions
  <2>2. Warnings(found) # <<"continue">> /\ Warnings(found) # <<"review">>
    BY <1>3, <1>4, <1>5
  <2> QED  BY <2>1, <2>2 DEF ReportStatus
<1>7. ReportStatus(Actions(rec)) \in {"ok", "local_only", "warning"}
  BY DEF ReportStatus
<1>8. Actions(rec) \in Seq(ActionNames)
  BY <1>2, <1>3 DEF Actions
<1> QED  BY <1>3, <1>6, <1>7, <1>8

---------------------------------------------------------------------------
(* What each step does to the record of its run                            *)

RunRecord ==
    [script : Scripts \cup {"none"}, source : Sources \cup {"none"}, pc : Steps,
     iteration : Nat, local : Quantities, position : Positions, open : SUBSET Orders,
     todo : Seq(ActionNames), report : {"none", "ok", "local_only", "warning"},
     raised : BOOLEAN, seen : Nat, unread : BOOLEAN]
BeatRecord == [run : Runs, iteration : Nat, what : {"ok", "warning", "error"}]

\* What a service is about to write to the status file it has read before.
SeenInv == \A r \in Runs : run[r].seen <= Len(heartbeats)
TablesShape ==
    tables = [reconciliations |-> tables.reconciliations,
              recoveries |-> tables.recoveries, alerts |-> tables.alerts]
TypeInv == RecoveryTypeOK /\ SeenInv /\ TablesShape

LEMMA TypesOf ==
    ASSUME TypeInv
    PROVE  /\ run \in [Runs -> RunRecord]
           /\ local \in Quantities /\ position \in Positions /\ open \in SUBSET Orders
           /\ heartbeats \in Seq(BeatRecord) /\ Len(heartbeats) \in Nat
           /\ statusFile \in 0 .. Len(heartbeats) /\ faults \in 0 .. MaxFaults
           /\ steady \in [Runs -> SUBSET {"mismatch", "naked"}]
           /\ \A r \in Runs : /\ run[r].iteration <= MaxIterations[r]
                              /\ run[r].seen <= Len(heartbeats)
           /\ MaxFaults \in Nat /\ MaxIterations \in [Runs -> Nat \ {0}]
           /\ 0 \in Quantities /\ 0 \in Positions
  BY RecoveryAssumption DEF TypeInv, RecoveryTypeOK, SeenInv, RunRecord, BeatRecord

\* Run r goes to step p of the same iteration.
Moved(r, p) ==
    /\ run'[r] \in RunRecord
    /\ run' = [run EXCEPT ![r] = run'[r]]
    /\ run'[r].pc = p
    /\ run'[r].script = run[r].script /\ run'[r].source = run[r].source
    /\ run'[r].iteration = run[r].iteration
SameReport(r) == run'[r].report = run[r].report /\ run'[r].raised = run[r].raised
SameTodo(r) == run'[r].todo = run[r].todo
SameSeen(r) == run'[r].seen = run[r].seen
SameUnread(r) == run'[r].unread = run[r].unread

LEMMA GotoStep ==
    ASSUME TypeInv, NEW r \in Runs, NEW p \in Steps, Goto(r, p)
    PROVE  Moved(r, p) /\ SameReport(r) /\ SameTodo(r) /\ SameSeen(r) /\ SameUnread(r)
<1>1. run \in [Runs -> RunRecord]
  BY TypesOf
<1> QED  BY <1>1 DEF Goto, Moved, SameReport, SameTodo, SameSeen, SameUnread, RunRecord

LEMMA ReadAccountStep ==
    ASSUME TypeInv, NEW r \in Runs, ReadAccount(r)
    PROVE  /\ Moved(r, IF run[r].source = "private" THEN "position" ELSE "report")
           /\ SameReport(r) /\ SameTodo(r) /\ SameSeen(r)
           /\ run'[r].local = local
<1> DEFINE p == IF run[r].source = "private" THEN "position" ELSE "report"
<1>1. p \in Steps
  BY DEF Steps
<1>2. run' = [run EXCEPT ![r].local = local, ![r].pc = p]
  BY DEF ReadAccount
<1>3. run \in [Runs -> RunRecord] /\ local \in Quantities
  BY TypesOf
<1>4. /\ Moved(r, p) /\ SameReport(r) /\ SameTodo(r) /\ SameSeen(r)
      /\ run'[r].local = local
  <2> HIDE DEF p
  <2> QED  BY <1>1, <1>2, <1>3 DEF Moved, SameReport, SameTodo, SameSeen, RunRecord
<1> QED  BY <1>4

LEMMA ReadPositionStep ==
    ASSUME TypeInv, NEW r \in Runs, ReadPosition(r)
    PROVE  /\ Moved(r, "orders") /\ SameReport(r) /\ SameTodo(r) /\ SameSeen(r)
           /\ run'[r].local = run[r].local /\ run'[r].position = position
<1>1. run \in [Runs -> RunRecord] /\ position \in Positions
  BY TypesOf
<1>2. run' = [run EXCEPT ![r].position = position, ![r].pc = "orders"] /\ "orders" \in Steps
  BY DEF ReadPosition, Steps
<1> QED  BY <1>1, <1>2 DEF Moved, SameReport, SameTodo, SameSeen, RunRecord

LEMMA ReadOrdersStep ==
    ASSUME TypeInv, NEW r \in Runs, ReadOrders(r)
    PROVE  /\ Moved(r, "report") /\ SameReport(r) /\ SameTodo(r) /\ SameSeen(r)
           /\ run'[r].local = run[r].local /\ run'[r].position = run[r].position
           /\ run'[r].open = open
<1>1. run \in [Runs -> RunRecord] /\ open \in SUBSET Orders
  BY TypesOf
<1>2. run' = [run EXCEPT ![r].open = open, ![r].pc = "report"] /\ "report" \in Steps
  BY DEF ReadOrders, Steps
<1> QED  BY <1>1, <1>2 DEF Moved, SameReport, SameTodo, SameSeen, RunRecord

LEMMA RecordReportStep ==
    ASSUME TypeInv, NEW r \in Runs, NEW q \in Positions, NEW orders \in SUBSET Protective,
           RecordReport(r, q, orders)
    PROVE  /\ Moved(r, IF run[r].script = "sync" THEN "returned" ELSE "act")
           /\ SameSeen(r) /\ run'[r].raised = run[r].raised
           /\ run[r].source = "private" =>
                /\ run'[r].todo = Actions(run[r])
                /\ run'[r].report = ReportStatus(Actions(run[r]))
                /\ Row(r, Actions(run[r])) \in tables'.reconciliations
<1> DEFINE read == IF run[r].source = "simulated"
                   THEN [run[r] EXCEPT !.position = q, !.open = orders] ELSE run[r]
           todo == Actions(read)
           report == ReportStatus(todo)
           pc == IF read.script = "sync" THEN "returned" ELSE "act"
           new == [read EXCEPT !.local = 0, !.position = 0, !.open = {},
                               !.todo = todo, !.report = report, !.pc = pc]
<1>1. run \in [Runs -> RunRecord] /\ 0 \in Quantities /\ 0 \in Positions
  BY TypesOf
<1>2. orders \in SUBSET Orders
  BY RecoveryAssumption
<1>3. ASSUME run[r].source = "simulated"
      PROVE  /\ [run[r] EXCEPT !.position = q, !.open = orders] \in RunRecord
             /\ [run[r] EXCEPT !.position = q, !.open = orders].script = run[r].script
             /\ [run[r] EXCEPT !.position = q, !.open = orders].source = run[r].source
             /\ [run[r] EXCEPT !.position = q, !.open = orders].iteration = run[r].iteration
             /\ [run[r] EXCEPT !.position = q, !.open = orders].raised = run[r].raised
             /\ [run[r] EXCEPT !.position = q, !.open = orders].seen = run[r].seen
  BY <1>1, <1>2 DEF RunRecord
<1>4. /\ read \in RunRecord /\ read.script = run[r].script /\ read.source = run[r].source
      /\ read.iteration = run[r].iteration /\ read.raised = run[r].raised
      /\ read.seen = run[r].seen
  BY <1>1, <1>3
<1>5. todo \in Seq(ActionNames) /\ report \in {"none", "ok", "local_only", "warning"}
  <2> HIDE DEF read
  <2> QED  BY ActionsOfReport
<1>6. pc \in Steps
  BY DEF Steps
<1>7. run' = [run EXCEPT ![r] = new]
  BY DEF RecordReport
<1>8. /\ new \in RunRecord /\ new.pc = pc
      /\ new.script = read.script /\ new.source = read.source
      /\ new.iteration = read.iteration /\ new.todo = todo
      /\ new.report = report /\ new.raised = read.raised /\ new.seen = read.seen
  <2>1. new = [read EXCEPT !.local = 0, !.position = 0, !.open = {},
                           !.todo = todo, !.report = report, !.pc = pc]
    OBVIOUS
  <2> HIDE DEF new, read, todo, report, pc
  <2> QED  BY <1>1, <1>4, <1>5, <1>6, <2>1 DEF RunRecord
<1>9. run'[r] = new
  BY <1>1, <1>7
<1>10. pc = IF run[r].script = "sync" THEN "returned" ELSE "act"
  <2> HIDE DEF read
  <2> QED  BY <1>4
<1>11. ASSUME run[r].source = "private"
       PROVE  read = run[r] /\ Row(r, Actions(run[r])) \in tables'.reconciliations
  <2>1. read = run[r]
    BY <1>11
  <2>2. tables' = [tables EXCEPT !["reconciliations"] = @ \cup {Row(r, todo)}]
    BY DEF RecordReport, Insert
  <2> HIDE DEF todo
  <2>3. Row(r, todo) \in tables'.reconciliations
    BY <2>2 DEF TypeInv, TablesShape
  <2> QED  BY <2>1, <2>3 DEF todo
<1>12. /\ Moved(r, pc) /\ SameSeen(r) /\ run'[r].raised = run[r].raised
       /\ run'[r].todo = todo /\ run'[r].report = report
  <2> HIDE DEF new, pc, todo, report, read
  <2> QED  BY <1>1, <1>4, <1>7, <1>8, <1>9 DEF Moved, SameSeen
<1> QED
  <2> HIDE DEF new, pc, read
  <2> QED  BY <1>10, <1>11, <1>12

LEMMA ActStep ==
    ASSUME TypeInv, NEW r \in Runs, Act(r)
    PROVE  /\ Moved(r, IF Head(run[r].todo) # "continue" THEN "alert" ELSE "act")
           /\ SameReport(r) /\ SameSeen(r)
           /\ run'[r].todo = Tail(run[r].todo)
<1> DEFINE p == IF Head(run[r].todo) # "continue" THEN "alert" ELSE "act"
           rest == Tail(run[r].todo)
<1>1. run \in [Runs -> RunRecord]
  BY TypesOf
<1>2. p \in Steps
  BY DEF Steps
<1>3. rest \in Seq(ActionNames)
  BY <1>1 DEF Act, RunRecord
<1>4. run' = [run EXCEPT ![r].todo = rest, ![r].pc = p]
  BY DEF Act
<1>5. Moved(r, p) /\ SameReport(r) /\ SameSeen(r) /\ run'[r].todo = rest
  <2> HIDE DEF p, rest
  <2> QED  BY <1>1, <1>2, <1>3, <1>4 DEF Moved, SameReport, SameSeen, RunRecord
<1> QED  BY <1>5

LEMMA AsleepRecord ==
    ASSUME 0 \in Quantities, 0 \in Positions
    PROVE  Asleep \in RunRecord /\ Asleep.seen = 0 /\ Asleep.todo = <<>>
  BY DEF Asleep, RunRecord, Scripts, Sources, Steps

LEMMA RaiseStep ==
    ASSUME TypeInv, NEW r \in Runs, Raise(r)
    PROVE  /\ Moved(r, IF Supervised(r) THEN "except_beat" ELSE "dead")
           /\ run'[r].raised = TRUE /\ run'[r].seen = 0 /\ run'[r].todo = <<>>
<1> DEFINE p == IF Supervised(r) THEN "except_beat" ELSE "dead"
           new == [Asleep EXCEPT !.script = run[r].script, !.source = run[r].source,
                      !.iteration = run[r].iteration, !.raised = TRUE, !.pc = p]
<1>1. run \in [Runs -> RunRecord] /\ 0 \in Quantities /\ 0 \in Positions
  BY TypesOf
<1>2. p \in Steps
  BY DEF Steps
<1>3. run' = [run EXCEPT ![r] = new]
  BY DEF Raise
<1>4. /\ run[r].script \in Scripts \cup {"none"} /\ run[r].source \in Sources \cup {"none"}
      /\ run[r].iteration \in Nat
  BY <1>1 DEF RunRecord
<1>5. /\ new \in RunRecord /\ new.pc = p /\ new.script = run[r].script
      /\ new.source = run[r].source /\ new.iteration = run[r].iteration
      /\ new.raised = TRUE /\ new.seen = 0 /\ new.todo = <<>>
  <2>1. new = [Asleep EXCEPT !.script = run[r].script, !.source = run[r].source,
                      !.iteration = run[r].iteration, !.raised = TRUE, !.pc = p]
    OBVIOUS
  <2> HIDE DEF p, new
  <2> QED  BY <1>1, <1>2, <1>4, <2>1, AsleepRecord DEF RunRecord
<1>6. /\ Moved(r, p) /\ run'[r].raised = TRUE /\ run'[r].seen = 0 /\ run'[r].todo = <<>>
  <2> HIDE DEF p, new
  <2> QED  BY <1>1, <1>3, <1>5 DEF Moved
<1> QED  BY <1>6

LEMMA BuildStatusStep ==
    ASSUME TypeInv, NEW r \in Runs, BuildStatus(r)
    PROVE  /\ Moved(r, "write") /\ SameReport(r) /\ SameTodo(r)
           /\ \/ run'[r].seen = Len(heartbeats) /\ ~ run'[r].unread
              \/ run'[r].seen = 0 /\ run'[r].unread
<1> DEFINE n == Len(heartbeats)
<1>1. run \in [Runs -> RunRecord] /\ n \in Nat /\ 0 \in Nat /\ "write" \in Steps
  BY TypesOf DEF Steps
<1>2. CASE run' = [run EXCEPT ![r].seen = n, ![r].unread = FALSE, ![r].pc = "write"]
  <2> HIDE DEF n
  <2>1. /\ Moved(r, "write") /\ SameReport(r) /\ SameTodo(r)
        /\ run'[r].seen = n /\ ~ run'[r].unread
    BY <1>1, <1>2 DEF Moved, SameReport, SameTodo, RunRecord
  <2> QED  BY <2>1 DEF n
<1>3. CASE run' = [run EXCEPT ![r].seen = 0, ![r].unread = TRUE, ![r].pc = "write"]
  <2>1. /\ Moved(r, "write") /\ SameReport(r) /\ SameTodo(r)
        /\ run'[r].seen = 0 /\ run'[r].unread
    BY <1>1, <1>3 DEF Moved, SameReport, SameTodo, RunRecord
  <2> QED  BY <2>1
<1> QED  BY <1>2, <1>3 DEF BuildStatus

LEMMA WriteStatusStep ==
    ASSUME TypeInv, NEW r \in Runs, WriteStatus(r)
    PROVE  /\ Moved(r, "asleep") /\ SameReport(r) /\ SameTodo(r)
           /\ run'[r].seen = 0 /\ SameUnread(r)
<1>1. run' = [run EXCEPT ![r].seen = 0, ![r].pc = "asleep"] /\ "asleep" \in Steps
  BY DEF WriteStatus, Steps
<1>2. run \in [Runs -> RunRecord]
  BY TypesOf
<1> QED  BY <1>1, <1>2 DEF Moved, SameReport, SameTodo, SameUnread, RunRecord

\* A pass begins with the record it is given.
PassBegun(r, script, source, iteration, seen) ==
    /\ run'[r] \in RunRecord
    /\ run' = [run EXCEPT ![r] = run'[r]]
    /\ run'[r].pc = "account"
    /\ run'[r].script = script /\ run'[r].source = source
    /\ run'[r].iteration = iteration /\ run'[r].seen = seen /\ ~ run'[r].raised
    /\ steady' = [steady EXCEPT ![r] = steady'[r]]
    /\ steady'[r] = IF source = "private" THEN Troubles(local, position, open) ELSE {}

LEMMA BeginPassStep ==
    ASSUME TypeInv, NEW r \in Runs, NEW record \in RunRecord, BeginPass(r, record)
    PROVE  PassBegun(r, record.script, record.source, record.iteration, record.seen)
<1>1. run \in [Runs -> RunRecord] /\ steady \in [Runs -> SUBSET {"mismatch", "naked"}]
  BY TypesOf
<1>2. run'[r] = [record EXCEPT !.pc = "account", !.raised = FALSE] /\ "account" \in Steps
  BY <1>1 DEF BeginPass, Steps
<1>3. /\ run' = [run EXCEPT ![r] = run'[r]]
      /\ steady' = [steady EXCEPT ![r] = steady'[r]]
      /\ steady'[r] = IF record.source = "private"
                      THEN Troubles(local, position, open) ELSE {}
  BY <1>1, <1>2 DEF BeginPass
<1>4. /\ run'[r] \in RunRecord /\ run'[r].pc = "account"
      /\ run'[r].script = record.script /\ run'[r].source = record.source
      /\ run'[r].iteration = record.iteration /\ run'[r].seen = record.seen
      /\ ~ run'[r].raised
  BY <1>2 DEF RunRecord
<1> QED  BY <1>3, <1>4 DEF PassBegun

LEMMA LaunchStep ==
    ASSUME TypeInv, NEW r \in Runs, NEW script \in Scripts, NEW source \in Sources,
           Launch(r, script, source)
    PROVE  \/ /\ script = "service"
              /\ run'[r] \in RunRecord /\ run' = [run EXCEPT ![r] = run'[r]]
              /\ run'[r].pc = "preflight" /\ run'[r].iteration = 1 /\ SameSeen(r)
              /\ run'[r].raised = run[r].raised
              /\ UNCHANGED steady
           \/ script # "service" /\ PassBegun(r, script, source, 1, run[r].seen)
<1> DEFINE record == [run[r] EXCEPT !.script = script, !.source = source, !.iteration = 1]
<1>1. run \in [Runs -> RunRecord]
  BY TypesOf
<1>2. /\ record \in RunRecord
      /\ record.script = script /\ record.source = source /\ record.iteration = 1
      /\ record.seen = run[r].seen /\ record.raised = run[r].raised
  BY <1>1 DEF RunRecord
<1>3. /\ [record EXCEPT !.pc = "preflight"] \in RunRecord
      /\ [record EXCEPT !.pc = "preflight"].pc = "preflight"
      /\ [record EXCEPT !.pc = "preflight"].iteration = 1
      /\ [record EXCEPT !.pc = "preflight"].seen = run[r].seen
      /\ [record EXCEPT !.pc = "preflight"].raised = run[r].raised
  <2> HIDE DEF record
  <2> QED  BY <1>2 DEF RunRecord, Steps
<1>4. CASE script = "service"
  <2>1. run' = [run EXCEPT ![r] = [record EXCEPT !.pc = "preflight"]] /\ UNCHANGED steady
    BY <1>4 DEF Launch
  <2> HIDE DEF record
  <2> QED  BY <1>1, <1>3, <1>4, <2>1 DEF SameSeen
<1>5. CASE script # "service"
  <2>1. BeginPass(r, record)
    BY <1>5 DEF Launch
  <2> HIDE DEF record
  <2> QED  BY <1>2, <1>5, <2>1, BeginPassStep
<1> QED  BY <1>4, <1>5

LEMMA PreflightStep ==
    ASSUME TypeInv, NEW r \in Runs, NEW check, NEW skip, Preflight(r, check, skip)
    PROVE  \/ /\ Moved(r, "dead") /\ SameReport(r) /\ SameTodo(r) /\ SameSeen(r)
              /\ UNCHANGED steady
           \/ PassBegun(r, run[r].script, run[r].source, run[r].iteration, run[r].seen)
<1>1. run[r] \in RunRecord /\ "dead" \in Steps
  BY TypesOf DEF Steps
<1> QED  BY <1>1, GotoStep, BeginPassStep DEF Preflight

LEMMA WakeStep ==
    ASSUME TypeInv, NEW r \in Runs, Wake(r)
    PROVE  \/ /\ Moved(r, "returned") /\ SameReport(r) /\ SameTodo(r) /\ SameSeen(r)
              /\ SameUnread(r) /\ UNCHANGED steady
           \/ /\ run[r].iteration < MaxIterations[r]
              /\ PassBegun(r, run[r].script, run[r].source, run[r].iteration + 1, run[r].seen)
<1> DEFINE record == [run[r] EXCEPT !.iteration = @ + 1]
<1>1. run[r] \in RunRecord /\ "returned" \in Steps
  BY TypesOf DEF Steps
<1>2. /\ record \in RunRecord /\ record.iteration = run[r].iteration + 1
      /\ record.script = run[r].script /\ record.source = run[r].source
      /\ record.seen = run[r].seen
  BY <1>1 DEF RunRecord
<1>3. CASE run[r].iteration < MaxIterations[r]
  <2>1. BeginPass(r, record)
    BY <1>3 DEF Wake
  <2>2. PassBegun(r, record.script, record.source, record.iteration, record.seen)
    <3> HIDE DEF record
    <3> QED  BY <1>2, <2>1, BeginPassStep
  <2>3. PassBegun(r, run[r].script, run[r].source, run[r].iteration + 1, run[r].seen)
    <3> HIDE DEF record
    <3> QED  BY <1>2, <2>2
  <2> QED  BY <1>3, <2>3
<1>4. CASE ~ run[r].iteration < MaxIterations[r]
  BY <1>1, <1>4, GotoStep DEF Wake
<1> QED  BY <1>3, <1>4

LEMMA BeatStep ==
    ASSUME TypeInv, NEW r \in Runs, NEW what \in {"ok", "warning", "error"},
           Beat(r, what)
    PROVE  /\ heartbeats' \in Seq(BeatRecord)
           /\ Len(heartbeats') = Len(heartbeats) + 1
           /\ \A n \in 1 .. Len(heartbeats) : heartbeats'[n] = heartbeats[n]
           /\ heartbeats'[Len(heartbeats) + 1] = Row(r, what)
           /\ Row(r, what) \in BeatRecord
<1>1. heartbeats \in Seq(BeatRecord)
  BY TypesOf
<1>2. Row(r, what) \in BeatRecord
  BY TypesOf DEF Row, BeatRecord, RunRecord
<1> QED  BY <1>1, <1>2 DEF Beat

\* Tables only grow.
TablesGrow ==
    /\ tables.reconciliations \subseteq tables'.reconciliations
    /\ tables.recoveries \subseteq tables'.recoveries
    /\ tables.alerts \subseteq tables'.alerts

LEMMA InsertStep ==
    ASSUME TypeInv, NEW row
    PROVE  /\ Insert("reconciliations", row) =>
                TablesShape' /\ TablesGrow /\ row \in tables'.reconciliations
           /\ Insert("recoveries", row) =>
                TablesShape' /\ TablesGrow /\ row \in tables'.recoveries
           /\ Insert("alerts", row) =>
                TablesShape' /\ TablesGrow /\ row \in tables'.alerts
           /\ UNCHANGED tables => TablesShape' /\ TablesGrow
  BY DEF TypeInv, TablesShape, TablesGrow, Insert

---------------------------------------------------------------------------
(* Type correctness, and what a step of one run leaves to the others       *)

\* Run r changes its own record and what has been steady for it, adds rows, and
\* writes the status file from what it has read.
Own(r) ==
    /\ run' = [run EXCEPT ![r] = run'[r]]
    /\ run'[r] \in RunRecord
    /\ run'[r].iteration <= MaxIterations[r]
    /\ run'[r].seen <= Len(heartbeats)
    /\ run[r].pc # "off" =>
         run'[r].script = run[r].script /\ run[r].iteration <= run'[r].iteration
    /\ UNCHANGED world
    /\ TablesShape' /\ TablesGrow
    /\ UNCHANGED heartbeats \/ \E what \in {"ok", "warning", "error"} : Beat(r, what)
    /\ \/ UNCHANGED statusFile
       \/ At(r, "write") /\ statusFile' = run[r].seen
    /\ faults' \in 0 .. MaxFaults
    /\ steady' = [steady EXCEPT ![r] = steady'[r]]
    /\ steady'[r] \in SUBSET {"mismatch", "naked"}
    /\ \/ UNCHANGED steady
       \/ run'[r].pc = "account" /\ steady'[r] \subseteq Troubles(local, position, open)

LEMMA TroublesType ==
    ASSUME NEW l, NEW q, NEW orders
    PROVE  Troubles(l, q, orders) \in SUBSET {"mismatch", "naked"}
  BY DEF Troubles

\* A step within an iteration.
LEMMA MovedOwn ==
    ASSUME TypeInv, NEW r \in Runs, NEW p, Moved(r, p),
           run'[r].seen <= Len(heartbeats),
           UNCHANGED world, TablesShape', TablesGrow,
           UNCHANGED heartbeats \/ \E what \in {"ok", "warning", "error"} : Beat(r, what),
           UNCHANGED statusFile \/ (At(r, "write") /\ statusFile' = run[r].seen),
           faults' = faults \/ (faults < MaxFaults /\ faults' = faults + 1),
           UNCHANGED steady
    PROVE  Own(r)
<1>1. faults' \in 0 .. MaxFaults
  BY TypesOf
<1>2. steady' = [steady EXCEPT ![r] = steady'[r]] /\ steady'[r] \in SUBSET {"mismatch", "naked"}
  BY TypesOf
<1>3. run'[r].iteration <= MaxIterations[r] /\ run[r].iteration <= run'[r].iteration
  BY TypesOf DEF Moved, RunRecord
<1> QED  BY <1>1, <1>2, <1>3 DEF Own, Moved

\* A step that begins a pass.
LEMMA PassBegunOwn ==
    ASSUME TypeInv, NEW r \in Runs, NEW script, NEW source, NEW iteration \in Nat,
           PassBegun(r, script, source, iteration, run[r].seen),
           iteration <= MaxIterations[r],
           run[r].pc # "off" => script = run[r].script /\ run[r].iteration <= iteration,
           UNCHANGED <<world, tables, heartbeats, statusFile, faults>>
    PROVE  Own(r)
<1>1. TablesShape' /\ TablesGrow
  BY InsertStep
<1>2. steady'[r] \in SUBSET {"mismatch", "naked"}
  BY TroublesType DEF PassBegun
<1>3. run'[r].pc = "account" /\ steady'[r] \subseteq Troubles(local, position, open)
  BY DEF PassBegun
<1> QED  BY <1>1, <1>2, <1>3, TypesOf DEF Own, PassBegun

LEMMA RunStepOwn ==
    ASSUME TypeInv, NEW r \in Runs, RunStep(r)
    PROVE  Own(r)
<1>1. /\ run[r] \in RunRecord /\ run[r].iteration <= MaxIterations[r]
      /\ run[r].seen <= Len(heartbeats) /\ MaxIterations[r] \in Nat \ {0}
      /\ Len(heartbeats) \in Nat /\ run[r].seen \in Nat /\ run[r].iteration \in Nat
      /\ 0 <= Len(heartbeats) /\ Len(heartbeats) <= Len(heartbeats)
  BY TypesOf DEF RunRecord
<1>2. \A p \in Steps : Goto(r, p) => Moved(r, p) /\ SameSeen(r)
  BY GotoStep
<1>3. ASSUME NEW script \in Scripts, NEW source \in Sources, Launch(r, script, source)
      PROVE  Own(r)
  <2>1. UNCHANGED <<world, tables, heartbeats, statusFile, faults>> /\ At(r, "off")
    BY <1>3 DEF Launch
  <2>2. CASE PassBegun(r, script, source, 1, run[r].seen)
    <3>1. run[r].pc = "off" /\ 1 \in Nat /\ 1 <= MaxIterations[r]
      BY <1>1, <2>1 DEF At
    <3> QED  BY <2>1, <2>2, <3>1, PassBegunOwn
  <2>3. CASE /\ run'[r] \in RunRecord /\ run' = [run EXCEPT ![r] = run'[r]]
             /\ run'[r].iteration = 1 /\ SameSeen(r) /\ UNCHANGED steady
    <3>1. TablesShape' /\ TablesGrow
      BY <2>1, InsertStep
    <3>2. steady' = [steady EXCEPT ![r] = steady'[r]]
          /\ steady'[r] \in SUBSET {"mismatch", "naked"} /\ faults' \in 0 .. MaxFaults
      BY <2>1, <2>3, TypesOf
    <3> QED  BY <1>1, <2>1, <2>3, <3>1, <3>2 DEF Own, At, SameSeen
  <2> QED  BY <1>3, <2>2, <2>3, LaunchStep
<1>4. ASSUME NEW check, NEW skip, Preflight(r, check, skip)
      PROVE  Own(r)
  <2>1. UNCHANGED <<world, tables, heartbeats, statusFile, faults>>
    BY <1>4 DEF Preflight
  <2>2. CASE PassBegun(r, run[r].script, run[r].source, run[r].iteration, run[r].seen)
    <3>1. run[r].iteration <= run[r].iteration
      BY <1>1
    <3> QED  BY <1>1, <2>1, <2>2, <3>1, PassBegunOwn
  <2>3. CASE Moved(r, "dead") /\ SameSeen(r) /\ UNCHANGED steady
    BY <1>1, <2>1, <2>3, InsertStep, MovedOwn DEF SameSeen
  <2> QED  BY <1>4, <2>2, <2>3, PreflightStep
<1>5. CASE ReadAccount(r)
  BY <1>1, <1>5, ReadAccountStep, InsertStep, MovedOwn DEF ReadAccount, SameSeen
<1>6. CASE ReadPosition(r)
  BY <1>1, <1>6, ReadPositionStep, InsertStep, MovedOwn DEF ReadPosition, SameSeen
<1>7. CASE ReadOrders(r)
  BY <1>1, <1>7, ReadOrdersStep, InsertStep, MovedOwn DEF ReadOrders, SameSeen
<1>8. ASSUME NEW q \in Positions, NEW orders \in SUBSET Protective, RecordReport(r, q, orders)
      PROVE  Own(r)
  <2>1. TablesShape' /\ TablesGrow
    BY <1>8, InsertStep DEF RecordReport
  <2>2. UNCHANGED <<world, heartbeats, statusFile, faults, steady>>
    BY <1>8 DEF RecordReport
  <2> QED  BY <1>1, <1>8, <2>1, <2>2, RecordReportStep, MovedOwn DEF SameSeen
<1>9. CASE Act(r)
  <2>1. TablesShape' /\ TablesGrow
    BY <1>9, InsertStep DEF Act
  <2> QED  BY <1>1, <1>9, <2>1, ActStep, MovedOwn DEF Act, SameSeen
<1>10. CASE AlertAction(r)
  <2>1. TablesShape' /\ TablesGrow
    BY <1>10, InsertStep DEF AlertAction
  <2> QED  BY <1>1, <1>2, <1>10, <2>1, MovedOwn DEF AlertAction, SameSeen, Steps
<1>11. CASE EndActions(r)
  BY <1>1, <1>2, <1>11, InsertStep, MovedOwn DEF EndActions, AfterActions, SameSeen, Steps
<1>12. CASE Heartbeat(r)
  <2> DEFINE status == BeatStatus(run[r].report)
             p == IF status = "ok" THEN AfterIteration(r) ELSE "warn"
  <2>1. p \in Steps /\ status \in {"ok", "warning", "error"}
    BY DEF BeatStatus, AfterIteration, Steps
  <2>2. /\ Beat(r, status) /\ Goto(r, p)
        /\ UNCHANGED <<world, tables, statusFile, faults, steady>>
    BY <1>12 DEF Heartbeat
  <2>3. Moved(r, p) /\ SameSeen(r) /\ TablesShape' /\ TablesGrow
    BY <1>2, <2>1, <2>2, InsertStep
  <2> HIDE DEF status, p
  <2> QED  BY <1>1, <2>1, <2>2, <2>3, MovedOwn DEF SameSeen
<1>13. CASE Warn(r)
  <2>1. TablesShape' /\ TablesGrow
    BY <1>13, InsertStep DEF Warn
  <2> QED  BY <1>1, <1>2, <1>13, <2>1, MovedOwn DEF Warn, AfterIteration, SameSeen, Steps
<1>14. CASE Raise(r)
  BY <1>1, <1>14, RaiseStep, InsertStep, MovedOwn DEF Raise
<1>15. CASE ErrorBeat(r)
  <2>1. Moved(r, "except_alert") /\ SameSeen(r) /\ TablesShape' /\ TablesGrow
    BY <1>2, <1>15, InsertStep DEF ErrorBeat, Steps
  <2> QED  BY <1>1, <1>15, <2>1, MovedOwn DEF ErrorBeat, SameSeen
<1>16. CASE ErrorAlert(r)
  <2>1. TablesShape' /\ TablesGrow
    BY <1>16, InsertStep DEF ErrorAlert
  <2> QED  BY <1>1, <1>2, <1>16, <2>1, MovedOwn DEF ErrorAlert, AfterIteration, SameSeen, Steps
<1>17. CASE BuildStatus(r)
  BY <1>1, <1>17, BuildStatusStep, InsertStep, MovedOwn DEF BuildStatus
<1>18. CASE WriteStatus(r)
  BY <1>1, <1>18, WriteStatusStep, InsertStep, MovedOwn DEF WriteStatus
<1>19. CASE Wake(r)
  <2>1. UNCHANGED <<world, tables, heartbeats, statusFile, faults>>
    BY <1>19 DEF Wake
  <2>2. CASE /\ run[r].iteration < MaxIterations[r]
             /\ PassBegun(r, run[r].script, run[r].source, run[r].iteration + 1, run[r].seen)
    <3>1. /\ run[r].iteration + 1 \in Nat /\ run[r].iteration + 1 <= MaxIterations[r]
          /\ run[r].iteration <= run[r].iteration + 1
      BY <1>1, <2>2
    <3> QED  BY <2>1, <2>2, <3>1, PassBegunOwn
  <2>3. CASE Moved(r, "returned") /\ SameSeen(r) /\ UNCHANGED steady
    BY <1>1, <2>1, <2>3, InsertStep, MovedOwn DEF SameSeen
  <2> QED  BY <1>19, <2>2, <2>3, WakeStep
<1>20. CASE Die(r)
  BY <1>1, <1>2, <1>20, InsertStep, MovedOwn DEF Die, SameSeen, Steps
<1> QED  BY <1>3, <1>4, <1>5, <1>6, <1>7, <1>8, <1>9, <1>10, <1>11, <1>12, <1>13, <1>14,
            <1>15, <1>16, <1>17, <1>18, <1>19, <1>20 DEF RunStep

LEMMA OwnType ==
    ASSUME TypeInv, NEW r \in Runs, Own(r)
    PROVE  TypeInv'
<1>1. run' \in [Runs -> RunRecord]
  BY TypesOf DEF Own
<1>2. heartbeats' \in Seq(BeatRecord) /\ Len(heartbeats) <= Len(heartbeats')
  <2>1. CASE UNCHANGED heartbeats
    BY <2>1, TypesOf
  <2>2. ASSUME NEW what \in {"ok", "warning", "error"}, Beat(r, what)
        PROVE  heartbeats' \in Seq(BeatRecord) /\ Len(heartbeats) <= Len(heartbeats')
    BY <2>2, BeatStep, TypesOf
  <2> QED  BY <2>1, <2>2 DEF Own
<1>3. \A s \in Runs : run'[s].iteration <= MaxIterations[s] /\ run'[s].seen <= Len(heartbeats)
  BY TypesOf DEF Own
<1>4. Len(heartbeats) \in Nat /\ Len(heartbeats') \in Nat
  BY <1>2, TypesOf
<1>5. \A s \in Runs : run'[s].seen \in Nat /\ run[s].seen \in Nat
  BY <1>1, TypesOf DEF RunRecord
<1>6. SeenInv'
  BY <1>2, <1>3, <1>4, <1>5 DEF SeenInv
<1>7. statusFile' \in 0 .. Len(heartbeats')
  BY <1>2, <1>4, <1>5, TypesOf DEF Own
<1>8. steady' \in [Runs -> SUBSET {"mismatch", "naked"}]
  BY TypesOf DEF Own
<1>9. UNCHANGED <<local, position, open, changes>> /\ faults' \in 0 .. MaxFaults
  BY DEF Own, world
<1>10. RecoveryTypeOK'
  BY <1>1, <1>2, <1>3, <1>7, <1>8, <1>9
     DEF TypeInv, RecoveryTypeOK, RunRecord, BeatRecord
<1> QED  BY <1>6, <1>10 DEF TypeInv, Own

\* The world goes on without touching what the runs hold.
LEMMA WorldType ==
    ASSUME TypeInv, NEW l \in Quantities, NEW q \in Positions, NEW orders \in SUBSET Orders,
           World(l, q, orders)
    PROVE  TypeInv'
<1>1. SeenInv' /\ TablesShape'
  BY DEF World, TypeInv, SeenInv, TablesShape
<1>2. steady' \in [Runs -> SUBSET {"mismatch", "naked"}]
  BY TypesOf DEF World, StillSteady
<1>3. changes' \in 0 .. MaxChanges
  BY RecoveryAssumption DEF World, TypeInv, RecoveryTypeOK
<1> QED  BY <1>1, <1>2, <1>3 DEF World, TypeInv, RecoveryTypeOK

\* A step is one of a run, one of the world, or none.
LEMMA NextCases ==
    ASSUME TypeInv, RecoveryNext
    PROVE  \/ \E r \in Runs : RunStep(r)
           \/ \E l \in Quantities, q \in Positions, orders \in SUBSET Orders :
                 World(l, q, orders)
<1>1. local \in Quantities /\ position \in Positions /\ open \in SUBSET Orders
  BY TypesOf
<1>2. \A o \in Orders : (IF o \in open THEN open \ {o} ELSE open \cup {o}) \in SUBSET Orders
  BY <1>1
<1> QED  BY <1>1, <1>2 DEF RecoveryNext, Trade, Fill, PlaceOrCancel

THEOREM InitType == RecoveryInit => TypeInv
<1>1. RecoveryInit => run \in [Runs -> RunRecord]
  BY RecoveryAssumption, AsleepRecord DEF RecoveryInit
<1> QED  BY <1>1, RecoveryAssumption
         DEF RecoveryInit, TypeInv, RecoveryTypeOK, SeenInv, TablesShape, Asleep, RunRecord

THEOREM NextType == TypeInv /\ [RecoveryNext]_recoveryVars => TypeInv'
<1> SUFFICES ASSUME TypeInv, [RecoveryNext]_recoveryVars PROVE TypeInv'
  OBVIOUS
<1>1. CASE UNCHANGED recoveryVars
  BY <1>1 DEF recoveryVars, TypeInv, RecoveryTypeOK, SeenInv, TablesShape
<1> QED  BY <1>1, NextCases, RunStepOwn, OwnType, WorldType

\* Whatever raises, dies, trades or fills, the account, the tables and the
\* runs keep their types, no run has more iterations than it was told to, and
\* the status file never speaks of heartbeats that are not in the table.
THEOREM TypeCorrect == RecoverySpec => []RecoveryTypeOK
<1>1. TypeInv => RecoveryTypeOK
  BY DEF TypeInv
<1> QED  BY <1>1, InitType, NextType, PTL DEF RecoverySpec

---------------------------------------------------------------------------
(* The inductive invariants                                                *)

Private(r) == run[r].source = "private" /\ ~ run[r].raised

\* While a pass reads, what has lasted since it began is still the case, and
\* what the pass has already read agrees with it.
ReadInv(r) ==
    /\ steady[r] \subseteq Troubles(local, position, open)
    /\ run[r].source = "private" =>
         /\ "mismatch" \in steady[r] =>
              /\ run[r].pc \in {"position", "orders", "report"} => run[r].local = local
              /\ run[r].pc \in {"orders", "report"} => run[r].position = position
         /\ "naked" \in steady[r] =>
              /\ run[r].pc \in {"orders", "report"} => run[r].position # 0
              /\ run[r].pc = "report" =>
                   Cardinality(run[r].open \cap Protective) < MinProtective

Reported == {"act", "alert", "beat", "warn", "status", "write", "asleep", "returned"}
ActedOn == {"beat", "warn", "except_beat", "except_alert", "status", "write", "asleep",
            "returned"}

\* Once a private pass has reported, a trouble that lasts is in its report, and
\* its action is recorded or still to be.
Told(r, trouble, c) ==
    /\ \E row \in tables.reconciliations :
         row.run = r /\ row.iteration = run[r].iteration /\ c \in Range(row.what)
    /\ \/ run[r].script = "sync"
       \/ c \in Range(run[r].todo)
       \/ Row(r, <<c, Outcome(c)>>) \in tables.recoveries
ToldInv(r) ==
    /\ run[r].script # "sync" /\ run[r].pc \in ActedOn => run[r].todo = <<>>
    /\ run[r].pc \in Reported /\ Private(r) =>
         \A trouble \in steady[r] :
            /\ run[r].report = "warning"
            /\ \E c \in ReportedAs(trouble) : Told(r, trouble, c)

Beaten == {"warn", "status", "write", "asleep", "returned"}
Unbeaten == {"off", "preflight", "account", "position", "orders", "report",
             "act", "alert", "beat"}
Excepted == {"except_beat", "except_alert"}

\* A run that is off has no script; only what run_once has caught lets a run go
\* on after it raised; only the service writes the status file.
StepInv(r) ==
    /\ run[r].pc = "off" => run[r].script = "none" /\ run[r].iteration = 0
    /\ run[r].pc \in Excepted => run[r].raised
    /\ run[r].raised => run[r].pc \in Excepted \cup {"status", "write", "asleep", "returned", "dead"}
    /\ run[r].pc \in {"status", "write"} => run[r].script = "service"

\* An iteration has no heartbeat before its first, and that one tells the report.
BeatInv(r) ==
    /\ \A n \in DOMAIN heartbeats :
         heartbeats[n].run = r =>
            /\ heartbeats[n].iteration <= run[r].iteration
            /\ run[r].pc \in Unbeaten => heartbeats[n].iteration # run[r].iteration
    /\ run[r].pc \in Beaten /\ ~ run[r].raised =>
         \A n \in Beats(r) : heartbeats[n].what = BeatStatus(run[r].report)

\* The last heartbeat of an iteration that has one, and what is stored for it.
LastBeat(r, n) == n \in Beats(r) /\ \A m \in Beats(r) : m <= n
Stored(r, beat) ==
    /\ run[r].pc = "warn" => beat = Row(r, "warning")
    /\ run[r].pc = "except_alert" => beat = Row(r, "error")
    /\ run[r].pc \in {"status", "write", "asleep", "returned"} =>
         /\ beat.what # "ok" => beat \in tables.alerts
         /\ run[r].raised => beat.what = "error"
LastInv(r) ==
    Supervised(r) /\ run[r].pc \in Beaten \cup {"except_alert"} =>
        \E n \in Nat : LastBeat(r, n) /\ Stored(r, heartbeats[n])

\* What the only service has written or is about to write.
OnlyService(r) == \A s \in Runs : run[s].script = "service" <=> s = r
Shows(r, k) == IF run[r].unread THEN k = 0 ELSE \A n \in Beats(r) : n <= k
FileInv(r) ==
    OnlyService(r) =>
        /\ run[r].pc = "write" => Shows(r, run[r].seen)
        /\ run[r].pc \in {"asleep", "returned"} => Shows(r, statusFile)

RunInv(r) == ReadInv(r) /\ ToldInv(r) /\ StepInv(r) /\ BeatInv(r) /\ LastInv(r) /\ FileInv(r)
RecoveryInv == \A r \in Runs : RunInv(r)

---------------------------------------------------------------------------
(* Which action brings a run to which step                                 *)

LEMMA Arrival ==
    ASSUME TypeInv, NEW r \in Runs, RunStep(r)
    PROVE  /\ run'[r].pc \notin {"off"}
           /\ run'[r].pc = "position" => ReadAccount(r)
           /\ run'[r].pc = "orders" => ReadPosition(r)
           /\ run'[r].pc = "report" => ReadAccount(r) \/ ReadOrders(r)
           /\ run'[r].pc = "act" => \/ Act(r) \/ AlertAction(r)
                                    \/ \E q \in Positions, orders \in SUBSET Protective :
                                          RecordReport(r, q, orders)
           /\ run'[r].pc = "alert" => Act(r)
           /\ run'[r].pc = "beat" => EndActions(r)
           /\ run'[r].pc = "warn" => Heartbeat(r)
           /\ run'[r].pc = "except_beat" => Raise(r)
           /\ run'[r].pc = "except_alert" => ErrorBeat(r)
           /\ run'[r].pc = "status" => Heartbeat(r) \/ Warn(r) \/ ErrorAlert(r)
           /\ run'[r].pc = "write" => BuildStatus(r)
           /\ run'[r].pc = "asleep" => Heartbeat(r) \/ Warn(r) \/ ErrorAlert(r) \/ WriteStatus(r)
           /\ run'[r].pc = "returned" => \/ EndActions(r) \/ Wake(r)
                                         \/ \E q \in Positions, orders \in SUBSET Protective :
                                               RecordReport(r, q, orders)
           /\ run'[r].pc \notin {"account", "preflight"} =>
                run[r].pc # "off" /\ \E p : Moved(r, p)
           /\ run'[r].pc = "account" => ~ run'[r].raised
<1>1. \A p \in Steps : Goto(r, p) => Moved(r, p)
  BY GotoStep
<1>2. ASSUME NEW script \in Scripts, NEW source \in Sources, Launch(r, script, source)
      PROVE  run'[r].pc = "preflight" \/ (run'[r].pc = "account" /\ ~ run'[r].raised)
  BY <1>2, LaunchStep DEF PassBegun
<1>3. ASSUME NEW check, NEW skip, Preflight(r, check, skip)
      PROVE  \/ run'[r].pc = "account" /\ ~ run'[r].raised
             \/ run'[r].pc = "dead" /\ Moved(r, "dead") /\ run[r].pc # "off"
  BY <1>3, PreflightStep DEF PassBegun, Moved, Preflight, At
<1>4. ASSUME NEW q \in Positions, NEW orders \in SUBSET Protective, RecordReport(r, q, orders)
      PROVE  run'[r].pc \in {"act", "returned"} /\ run[r].pc # "off" /\ \E p : Moved(r, p)
  BY <1>4, RecordReportStep DEF Moved, RecordReport, At
<1>5. CASE ReadAccount(r)
  <2>1. run'[r].pc \in {"position", "report"} /\ run[r].pc # "off" /\ \E p : Moved(r, p)
    <3>1. run[r].pc # "off"
      BY <1>5 DEF ReadAccount, At
    <3> QED  BY <1>5, <3>1, ReadAccountStep DEF Moved
  <2> QED  BY <1>5, <2>1
<1>6. CASE ReadPosition(r)
  BY <1>6, ReadPositionStep DEF Moved, ReadPosition, At
<1>7. CASE ReadOrders(r)
  BY <1>7, ReadOrdersStep DEF Moved, ReadOrders, At
<1>8. CASE Act(r)
  <2>1. run'[r].pc \in {"alert", "act"} /\ run[r].pc # "off" /\ \E p : Moved(r, p)
    <3>1. run[r].pc # "off"
      BY <1>8 DEF Act, At
    <3> QED  BY <1>8, <3>1, ActStep DEF Moved
  <2> QED  BY <1>8, <2>1
<1>9. CASE AlertAction(r)
  BY <1>1, <1>9 DEF Moved, AlertAction, At, Steps
<1>10. CASE EndActions(r)
  BY <1>1, <1>10 DEF Moved, EndActions, At, Steps, AfterActions
<1>11. CASE Heartbeat(r)
  BY <1>1, <1>11 DEF Moved, Heartbeat, At, Steps, AfterIteration
<1>12. CASE Warn(r)
  BY <1>1, <1>12 DEF Moved, Warn, At, Steps, AfterIteration
<1>13. CASE Raise(r)
  <2>1. run'[r].pc \in {"except_beat", "dead"} /\ run[r].pc # "off" /\ \E p : Moved(r, p)
    BY <1>13, RaiseStep DEF Moved, Raise
  <2> QED  BY <1>13, <2>1
<1>14. CASE ErrorBeat(r)
  BY <1>1, <1>14 DEF Moved, ErrorBeat, At, Steps
<1>15. CASE ErrorAlert(r)
  BY <1>1, <1>15 DEF Moved, ErrorAlert, At, Steps, AfterIteration
<1>16. CASE BuildStatus(r)
  <2>1. run'[r].pc = "write" /\ run[r].pc # "off" /\ \E p : Moved(r, p)
    BY <1>16, BuildStatusStep DEF Moved, BuildStatus, At
  <2> QED  BY <1>16, <2>1
<1>17. CASE WriteStatus(r)
  BY <1>17, WriteStatusStep DEF Moved, WriteStatus, At
<1>18. CASE Wake(r)
  <2>1. \/ run'[r].pc = "account" /\ ~ run'[r].raised
        \/ run'[r].pc = "returned" /\ run[r].pc # "off" /\ \E p : Moved(r, p)
    BY <1>18, WakeStep DEF Moved, PassBegun, Wake, At
  <2> QED  BY <1>18, <2>1
<1>19. CASE Die(r)
  BY <1>1, <1>19 DEF Moved, Die, Steps
<1>20. CASE \E script \in Scripts, source \in Sources : Launch(r, script, source)
  BY <1>2, <1>20
<1>21. CASE \E check \in {"pass", "fail"}, skip \in BOOLEAN : Preflight(r, check, skip)
  BY <1>3, <1>21
<1>22. CASE \E q \in Positions, orders \in SUBSET Protective : RecordReport(r, q, orders)
  <2>1. run'[r].pc \in {"act", "returned"} /\ run[r].pc # "off" /\ \E p : Moved(r, p)
    BY <1>4, <1>22
  <2> QED  BY <1>22, <2>1
<1> QED  BY <1>5, <1>6, <1>7, <1>8, <1>9, <1>10, <1>11, <1>12, <1>13, <1>14, <1>15,
            <1>16, <1>17, <1>18, <1>19, <1>20, <1>21, <1>22 DEF RunStep
---------------------------------------------------------------------------
(* Steps of the other runs and of the world                                *)

LEMMA OthersKeepBeats ==
    ASSUME TypeInv, NEW r \in Runs, NEW s \in Runs, s # r, Own(s)
    PROVE  /\ Beats(r)' = Beats(r)
           /\ \A n \in Beats(r) : heartbeats'[n] = heartbeats[n]
           /\ \A n \in DOMAIN heartbeats' : heartbeats'[n].run = r =>
                 n \in DOMAIN heartbeats /\ heartbeats'[n] = heartbeats[n]
<1>1. run'[r] = run[r]
  BY TypesOf DEF Own
<1>2. CASE UNCHANGED heartbeats
  BY <1>1, <1>2 DEF Beats
<1>3. ASSUME NEW what \in {"ok", "warning", "error"}, Beat(s, what)
      PROVE  /\ Beats(r)' = Beats(r)
             /\ \A n \in Beats(r) : heartbeats'[n] = heartbeats[n]
             /\ \A n \in DOMAIN heartbeats' : heartbeats'[n].run = r =>
                   n \in DOMAIN heartbeats /\ heartbeats'[n] = heartbeats[n]
  <2>1. /\ DOMAIN heartbeats = 1 .. Len(heartbeats) /\ Len(heartbeats) \in Nat
        /\ DOMAIN heartbeats' = 1 .. Len(heartbeats) + 1
        /\ \A n \in 1 .. Len(heartbeats) : heartbeats'[n] = heartbeats[n]
        /\ heartbeats'[Len(heartbeats) + 1] = Row(s, what)
    BY <1>3, BeatStep, TypesOf
  <2>2. Row(s, what).run = s
    BY DEF Row
  <2>3. \A n \in DOMAIN heartbeats' : heartbeats'[n].run = r =>
           n \in DOMAIN heartbeats /\ heartbeats'[n] = heartbeats[n]
    BY <2>1, <2>2
  <2>4. \A n \in DOMAIN heartbeats : n \in DOMAIN heartbeats' /\ heartbeats'[n] = heartbeats[n]
    BY <2>1
  <2> QED  BY <1>1, <2>3, <2>4 DEF Beats
<1> QED  BY <1>2, <1>3 DEF Own

LEMMA OthersKeep ==
    ASSUME TypeInv, NEW r \in Runs, NEW s \in Runs, s # r, Own(s), StepInv(s), RunInv(r)
    PROVE  RunInv(r)'
<1>1. run'[r] = run[r] /\ steady'[r] = steady[r]
  BY TypesOf DEF Own
<1>2. UNCHANGED <<local, position, open>> /\ TablesGrow
  BY DEF Own, world
<1>3. /\ Beats(r)' = Beats(r)
      /\ \A n \in Beats(r) : heartbeats'[n] = heartbeats[n]
      /\ \A n \in DOMAIN heartbeats' : heartbeats'[n].run = r =>
            n \in DOMAIN heartbeats /\ heartbeats'[n] = heartbeats[n]
  BY OthersKeepBeats
<1>4. ReadInv(r)'
  BY <1>1, <1>2 DEF RunInv, ReadInv
<1>5. ToldInv(r)'
  <2>1. ASSUME NEW trouble, NEW c, Told(r, trouble, c)
        PROVE  Told(r, trouble, c)'
    BY <1>1, <1>2, <2>1 DEF Told, Row, TablesGrow
  <2> QED  BY <1>1, <2>1 DEF RunInv, ToldInv, Private
<1>6. StepInv(r)'
  BY <1>1 DEF RunInv, StepInv
<1>7. BeatInv(r)'
  BY <1>1, <1>3 DEF RunInv, BeatInv
<1>8. LastInv(r)'
  <2>1. ASSUME NEW n \in Nat, LastBeat(r, n), Stored(r, heartbeats[n])
        PROVE  (LastBeat(r, n) /\ Stored(r, heartbeats[n]))'
    <3>1. n \in Beats(r)
      BY <2>1 DEF LastBeat
    <3>2. heartbeats'[n] = heartbeats[n]
      BY <1>3, <3>1
    <3> QED  BY <1>1, <1>2, <1>3, <2>1, <3>2 DEF LastBeat, Stored, TablesGrow, Row
  <2>2. Supervised(r)' = Supervised(r)
    BY <1>1 DEF Supervised
  <2> QED  BY <1>1, <2>1, <2>2 DEF RunInv, LastInv
<1>9. FileInv(r)'
  <2>1. OnlyService(r)' => OnlyService(r)
    <3>1. \A t \in Runs \ {s} : run'[t] = run[t]
      BY TypesOf DEF Own
    <3>2. run[s].pc = "off" => run[s].script = "none"
      BY DEF StepInv
    <3>3. run[s].pc # "off" => run'[s].script = run[s].script
      BY DEF Own
    <3>4. OnlyService(r)' => run[s].script # "service"
      BY <3>2, <3>3 DEF OnlyService
    <3> QED  BY <3>1, <3>4 DEF OnlyService
  <2>2. OnlyService(r) => UNCHANGED statusFile
    BY DEF OnlyService, Own, StepInv, At
  <2> QED  BY <1>1, <1>3, <2>1, <2>2 DEF RunInv, FileInv, Shows
<1> QED  BY <1>4, <1>5, <1>6, <1>7, <1>8, <1>9 DEF RunInv

LEMMA WorldKeeps ==
    ASSUME TypeInv, NEW r \in Runs, RunInv(r),
           NEW l \in Quantities, NEW q \in Positions, NEW orders \in SUBSET Orders,
           World(l, q, orders)
    PROVE  RunInv(r)'
<1>1. /\ UNCHANGED <<run, tables, heartbeats, statusFile>>
      /\ local' = l /\ position' = q /\ open' = orders
  BY DEF World
<1>2. steady'[r] = {c \in steady[r] \cap Troubles(l, q, orders) :
                       c = "mismatch" => l = local /\ q = position}
  BY DEF World, StillSteady
<1>3. /\ steady'[r] \subseteq steady[r] \cap Troubles(l, q, orders)
      /\ "mismatch" \in steady'[r] => local' = local /\ position' = position
  BY <1>1, <1>2
<1>4. ReadInv(r)'
  BY <1>1, <1>3 DEF RunInv, ReadInv
<1>5. ToldInv(r)'
  <2>1. ASSUME NEW trouble, NEW c, Told(r, trouble, c)
        PROVE  Told(r, trouble, c)'
    BY <1>1, <2>1 DEF Told, Row
  <2> QED  BY <1>1, <1>3, <2>1 DEF RunInv, ToldInv, Private
<1>6. StepInv(r)'
  BY <1>1 DEF RunInv, StepInv
<1>7. Beats(r)' = Beats(r)
  BY <1>1 DEF Beats
<1>8. BeatInv(r)'
  BY <1>1, <1>7 DEF RunInv, BeatInv
<1>9. LastInv(r)'
  BY <1>1, <1>7 DEF RunInv, LastInv, LastBeat, Stored, Supervised, Row
<1>10. FileInv(r)'
  BY <1>1, <1>7 DEF RunInv, FileInv, Shows, OnlyService
<1> QED  BY <1>4, <1>5, <1>6, <1>8, <1>9, <1>10 DEF RunInv

---------------------------------------------------------------------------
(* A trouble that lasts while a pass reads is among the concerns           *)

LEMMA TroubleMeans ==
    ASSUME NEW l, NEW q, NEW orders
    PROVE  /\ "mismatch" \in Troubles(l, q, orders) => l # Abs(q)
           /\ "naked" \in Troubles(l, q, orders) =>
                q # 0 /\ Cardinality(orders \cap Protective) < MinProtective
  BY DEF Troubles

LEMMA ConcernMeans ==
    ASSUME NEW l, NEW q, NEW orders
    PROVE  /\ l > 0 /\ q = 0 => "ghost" \in Concerns(l, q, orders)
           /\ q # 0 /\ l = 0 => "orphan" \in Concerns(l, q, orders)
           /\ q # 0 /\ l > 0 /\ l # Abs(q) => "drift" \in Concerns(l, q, orders)
           /\ q # 0 /\ Cardinality(orders \cap Protective) < MinProtective =>
                "naked" \in Concerns(l, q, orders)
  BY DEF Concerns, ConcernNames

LEMMA MismatchIsConcern ==
    ASSUME NEW l \in Nat, NEW q \in Int, NEW orders, l # Abs(q)
    PROVE  \E c \in {"ghost", "orphan", "drift"} : c \in Concerns(l, q, orders)
<1>1. CASE q = 0
  <2>1. l > 0
    BY <1>1 DEF Abs
  <2> QED  BY <1>1, <2>1, ConcernMeans
<1>2. CASE q # 0 /\ l = 0
  BY <1>2, ConcernMeans
<1>3. CASE q # 0 /\ l # 0
  <2>1. l > 0
    BY <1>3
  <2> QED  BY <1>3, <2>1, ConcernMeans
<1> QED  BY <1>1, <1>2, <1>3
---------------------------------------------------------------------------
(* Steps of the run itself                                                 *)

\* No step before the report loses what has been seen to last.
LEMMA OwnRead ==
    ASSUME TypeInv, NEW r \in Runs, RunStep(r), ReadInv(r)
    PROVE  ReadInv(r)'
<1>1. UNCHANGED <<local, position, open>>
      /\ \/ UNCHANGED steady
         \/ run'[r].pc = "account" /\ steady'[r] \subseteq Troubles(local, position, open)
  BY RunStepOwn DEF Own, world
<1>2. steady'[r] \subseteq Troubles(local', position', open')
  BY <1>1 DEF ReadInv
<1>3. CASE ReadAccount(r)
  <2>1. UNCHANGED steady /\ run'[r].local = local /\ run'[r].source = run[r].source
        /\ run'[r].pc = IF run[r].source = "private" THEN "position" ELSE "report"
    BY <1>3, ReadAccountStep DEF ReadAccount, Moved
  <2> QED  BY <1>1, <1>2, <2>1 DEF ReadInv
<1>4. CASE ReadPosition(r)
  <2>1. /\ UNCHANGED steady /\ run[r].pc = "position" /\ run'[r].pc = "orders"
        /\ run'[r].local = run[r].local /\ run'[r].position = position
        /\ run'[r].source = run[r].source
    BY <1>4, ReadPositionStep DEF ReadPosition, Moved, At
  <2>2. "naked" \in steady[r] => position # 0
    BY TroubleMeans DEF ReadInv
  <2> QED  BY <1>1, <1>2, <2>1, <2>2 DEF ReadInv
<1>5. CASE ReadOrders(r)
  <2>1. /\ UNCHANGED steady /\ run[r].pc = "orders" /\ run'[r].pc = "report"
        /\ run'[r].local = run[r].local /\ run'[r].position = run[r].position
        /\ run'[r].open = open /\ run'[r].source = run[r].source
    BY <1>5, ReadOrdersStep DEF ReadOrders, Moved, At
  <2>2. "naked" \in steady[r] => Cardinality(open \cap Protective) < MinProtective
    BY TroubleMeans DEF ReadInv
  <2> QED  BY <1>1, <1>2, <2>1, <2>2 DEF ReadInv
<1>6. CASE run'[r].pc \notin {"position", "orders", "report"}
  BY <1>2, <1>6 DEF ReadInv
<1> QED  BY <1>3, <1>4, <1>5, <1>6, Arrival

\* The report of a private pass holds every trouble that has lasted.
LEMMA ReportTells ==
    ASSUME TypeInv, NEW r \in Runs, ReadInv(r), At(r, "report"), run[r].source = "private",
           NEW trouble \in steady[r]
    PROVE  /\ ReportStatus(Actions(run[r])) = "warning"
           /\ \E c \in ReportedAs(trouble) : c \in Range(Actions(run[r]))
<1>1. /\ run[r].local \in Nat /\ run[r].position \in Int
      /\ trouble \in {"mismatch", "naked"}
  BY TypesOf, RecoveryAssumption DEF RunRecord
<1>2. \E c \in ReportedAs(trouble) : c \in Concerns(run[r].local, run[r].position, run[r].open)
  <2>1. CASE trouble = "mismatch"
    <3>1. local # Abs(position)
      BY <2>1, TroubleMeans DEF ReadInv
    <3>2. run[r].local # Abs(run[r].position)
      BY <2>1, <3>1 DEF ReadInv, At
    <3> QED  BY <1>1, <2>1, <3>2, MismatchIsConcern DEF ReportedAs
  <2>2. CASE trouble = "naked"
    <3>1. run[r].position # 0 /\ Cardinality(run[r].open \cap Protective) < MinProtective
      BY <2>2 DEF ReadInv, At
    <3> QED  BY <2>2, <3>1, ConcernMeans DEF ReportedAs
  <2> QED  BY <1>1, <2>1, <2>2
<1> QED  BY <1>2, ActionsOfReport

LEMMA OwnTold ==
    ASSUME TypeInv, NEW r \in Runs, RunStep(r), ReadInv(r), StepInv(r), ToldInv(r)
    PROVE  ToldInv(r)'
<1>1. TablesGrow
  BY RunStepOwn DEF Own
\* A step that takes no action and tells nothing.
<1>2. ASSUME NEW p, Moved(r, p), SameReport(r), SameTodo(r), UNCHANGED steady,
             run[r].pc \in Reported,
             p \in ActedOn => run[r].pc \in ActedOn \/ run[r].todo = <<>> \/ run[r].script = "sync"
      PROVE  ToldInv(r)'
  <2>1. ASSUME NEW trouble, NEW c, Told(r, trouble, c)
        PROVE  Told(r, trouble, c)'
    BY <1>1, <1>2, <2>1 DEF Told, Row, TablesGrow, Moved, SameTodo
  <2> QED  BY <1>2, <2>1 DEF ToldInv, Private, Moved, SameReport, SameTodo
<1>3. ASSUME NEW q \in Positions, NEW orders \in SUBSET Protective, RecordReport(r, q, orders)
      PROVE  ToldInv(r)'
  <2>1. /\ Moved(r, IF run[r].script = "sync" THEN "returned" ELSE "act")
        /\ run'[r].raised = run[r].raised
        /\ run[r].source = "private" =>
             /\ run'[r].todo = Actions(run[r])
             /\ run'[r].report = ReportStatus(Actions(run[r]))
             /\ Row(r, Actions(run[r])) \in tables'.reconciliations
        /\ UNCHANGED steady /\ At(r, "report")
    BY <1>3, RecordReportStep DEF RecordReport
  <2>2. ASSUME run[r].source = "private", NEW trouble \in steady[r]
        PROVE  run'[r].report = "warning" /\ \E c \in ReportedAs(trouble) : Told(r, trouble, c)'
    <3>1. PICK c \in ReportedAs(trouble) : c \in Range(Actions(run[r]))
      BY <2>1, <2>2, ReportTells
    <3>2. run'[r].report = "warning"
      BY <2>1, <2>2, ReportTells
    <3>3. /\ Row(r, Actions(run[r])).run = r
          /\ Row(r, Actions(run[r])).iteration = run'[r].iteration
          /\ Row(r, Actions(run[r])).what = Actions(run[r])
      BY <2>1 DEF Row, Moved
    <3>4. Told(r, trouble, c)'
      BY <2>1, <2>2, <3>1, <3>3 DEF Told
    <3> QED  BY <3>2, <3>4
  <2>3. run'[r].script # "sync" => run'[r].pc \notin ActedOn
    BY <2>1 DEF Moved, ActedOn
  <2>4. run'[r].source = run[r].source
    BY <2>1 DEF Moved
  <2> QED  BY <2>1, <2>2, <2>3, <2>4 DEF ToldInv, Private
<1>4. CASE Act(r)
  <2> DEFINE action == Head(run[r].todo)
  <2>1. /\ Moved(r, IF action # "continue" THEN "alert" ELSE "act")
        /\ SameReport(r) /\ run'[r].todo = Tail(run[r].todo)
        /\ At(r, "act") /\ run[r].todo # <<>> /\ UNCHANGED steady
        /\ Insert("recoveries", Row(r, <<action, Outcome(action)>>))
    BY <1>4, ActStep DEF Act
  <2>2. Row(r, <<action, Outcome(action)>>) \in tables'.recoveries
    BY <2>1, InsertStep
  <2>3. run[r].todo \in Seq(ActionNames)
    BY TypesOf DEF RunRecord
  <2>4. \A c \in Range(run[r].todo) : c = action \/ c \in Range(Tail(run[r].todo))
    <3>1. ASSUME NEW i \in DOMAIN run[r].todo, i # 1
          PROVE  /\ i - 1 \in DOMAIN Tail(run[r].todo)
                 /\ Tail(run[r].todo)[i - 1] = run[r].todo[i]
      BY <2>1, <2>3, <3>1
    <3>2. run[r].todo[1] = action
      BY <2>1, <2>3
    <3> QED  BY <3>1, <3>2 DEF Range
  <2>5. ASSUME NEW trouble, NEW c, Told(r, trouble, c)
        PROVE  Told(r, trouble, c)'
    <3>1. \E row \in tables'.reconciliations :
             row.run = r /\ row.iteration = run'[r].iteration /\ c \in Range(row.what)
      BY <1>1, <2>1, <2>5 DEF Told, TablesGrow, Moved
    <3>2. \/ run'[r].script = "sync"
          \/ c \in Range(run'[r].todo)
          \/ Row(r, <<c, Outcome(c)>>) \in tables'.recoveries
      BY <1>1, <2>1, <2>2, <2>4, <2>5 DEF Told, TablesGrow, Moved
    <3>3. Row(r, <<c, Outcome(c)>>)' = Row(r, <<c, Outcome(c)>>)
      BY <2>1 DEF Row, Moved
    <3> QED  BY <3>1, <3>2, <3>3 DEF Told
  <2>6. run'[r].pc \notin ActedOn /\ run[r].pc \in Reported
    BY <2>1 DEF Moved, ActedOn, Reported, At
  <2> QED  BY <2>1, <2>5, <2>6 DEF ToldInv, Private, Moved, SameReport
<1>5. CASE AlertAction(r)
  BY <1>2, <1>5, GotoStep DEF AlertAction, At, Steps, Reported, ActedOn
<1>6. CASE EndActions(r)
  BY <1>2, <1>6, GotoStep DEF EndActions, At, Steps, Reported, AfterActions
<1>7. CASE Heartbeat(r)
  BY <1>2, <1>7, GotoStep DEF Heartbeat, At, Steps, Reported, ActedOn, AfterIteration
<1>8. CASE Warn(r)
  BY <1>2, <1>8, GotoStep DEF Warn, At, Steps, Reported, ActedOn, AfterIteration
<1>9. CASE BuildStatus(r)
  BY <1>2, <1>9, BuildStatusStep DEF BuildStatus, At, Reported, ActedOn
<1>10. CASE WriteStatus(r)
  BY <1>2, <1>10, WriteStatusStep DEF WriteStatus, At, Reported, ActedOn
<1>11. ASSUME Wake(r), run'[r].pc = "returned"
       PROVE  ToldInv(r)'
  <2>1. Moved(r, "returned") /\ SameReport(r) /\ SameTodo(r) /\ UNCHANGED steady
    BY <1>11, WakeStep DEF PassBegun
  <2> QED  BY <1>2, <1>11, <2>1 DEF Wake, At, Reported, ActedOn
<1>12. CASE Raise(r)
  BY <1>12, RaiseStep DEF ToldInv, Private
\* What a caught exception leads to is not private any more.
<1>13. ASSUME NEW p, Moved(r, p), SameReport(r), SameTodo(r), run[r].pc \in Excepted
       PROVE  ToldInv(r)'
  BY <1>13 DEF ToldInv, Private, Moved, SameReport, SameTodo, StepInv, Excepted, ActedOn
<1>14. CASE ErrorBeat(r)
  BY <1>13, <1>14, GotoStep DEF ErrorBeat, At, Steps, Excepted
<1>15. CASE ErrorAlert(r)
  BY <1>13, <1>15, GotoStep DEF ErrorAlert, At, Steps, Excepted, AfterIteration
<1>16. CASE run'[r].pc \notin ActedOn \cup Reported
  BY <1>16 DEF ToldInv
<1> QED
  BY <1>3, <1>4, <1>5, <1>6, <1>7, <1>8, <1>9, <1>10, <1>11, <1>12, <1>14, <1>15, <1>16,
     Arrival DEF ActedOn, Reported

LEMMA OwnStepInv ==
    ASSUME TypeInv, NEW r \in Runs, RunStep(r), StepInv(r)
    PROVE  StepInv(r)'
<1>1. run'[r].pc # "off"
  BY Arrival
<1>2. ASSUME NEW p, Moved(r, p), SameReport(r),
             run[r].raised => p \in Excepted \cup {"status", "write", "asleep", "returned", "dead"},
             p \in Excepted => run[r].raised,
             p \in {"status", "write"} => run[r].script = "service"
      PROVE  StepInv(r)'
  BY <1>1, <1>2 DEF StepInv, Moved, SameReport
<1>3. ASSUME NEW script, NEW source, NEW iteration, NEW seen,
             PassBegun(r, script, source, iteration, seen)
      PROVE  StepInv(r)'
  BY <1>3 DEF StepInv, PassBegun, Excepted
<1>4. ASSUME NEW script \in Scripts, NEW source \in Sources, Launch(r, script, source)
      PROVE  StepInv(r)'
  <2>1. ~ run[r].raised
    BY <1>4 DEF Launch, At, StepInv, Excepted
  <2> QED  BY <1>3, <1>4, <2>1, LaunchStep DEF StepInv, Excepted
<1>5. ASSUME NEW check, NEW skip, Preflight(r, check, skip)
      PROVE  StepInv(r)'
  BY <1>2, <1>3, <1>5, PreflightStep DEF Excepted
<1>6. ASSUME run[r].pc \in {"account", "position", "orders", "report", "act", "alert", "beat", "warn"}
      PROVE  ~ run[r].raised
  BY <1>6 DEF StepInv, Excepted
<1>7. CASE ReadAccount(r)
  <2>1. PICK p : p \in {"position", "report"} /\ Moved(r, p) /\ SameReport(r)
    BY <1>7, ReadAccountStep
  <2> QED  BY <1>2, <1>6, <1>7, <2>1 DEF ReadAccount, At, Excepted
<1>8. CASE ReadPosition(r)
  BY <1>2, <1>6, <1>8, ReadPositionStep DEF ReadPosition, At, Excepted
<1>9. CASE ReadOrders(r)
  BY <1>2, <1>6, <1>9, ReadOrdersStep DEF ReadOrders, At, Excepted
<1>10. ASSUME NEW q \in Positions, NEW orders \in SUBSET Protective, RecordReport(r, q, orders)
       PROVE  StepInv(r)'
  <2>1. run'[r].pc \in {"act", "returned"} /\ run'[r].raised = run[r].raised
    BY <1>10, RecordReportStep DEF Moved
  <2>2. ~ run[r].raised
    BY <1>6, <1>10 DEF RecordReport, At
  <2> QED  BY <2>1, <2>2 DEF StepInv, Excepted
<1>11. CASE Act(r)
  <2>1. run'[r].pc \in {"act", "alert"} /\ run'[r].raised = run[r].raised
    BY <1>11, ActStep DEF Moved, SameReport
  <2>2. ~ run[r].raised
    BY <1>6, <1>11 DEF Act, At
  <2> QED  BY <2>1, <2>2 DEF StepInv, Excepted
<1>12. CASE AlertAction(r)
  BY <1>2, <1>6, <1>12, GotoStep DEF AlertAction, At, Steps, Excepted
<1>13. CASE EndActions(r)
  BY <1>2, <1>6, <1>13, GotoStep DEF EndActions, At, Steps, Excepted, AfterActions
<1>14. CASE Heartbeat(r)
  BY <1>2, <1>6, <1>14, GotoStep DEF Heartbeat, At, Steps, Excepted, AfterIteration
<1>15. CASE Warn(r)
  BY <1>2, <1>6, <1>15, GotoStep DEF Warn, At, Steps, Excepted, AfterIteration
<1>16. CASE Raise(r)
  <2>1. run'[r].raised /\ run'[r].pc \in {"except_beat", "dead"}
    BY <1>16, RaiseStep DEF Moved
  <2> QED  BY <2>1 DEF StepInv, Excepted
<1>17. CASE ErrorBeat(r)
  BY <1>2, <1>17, GotoStep DEF ErrorBeat, At, Steps, Excepted, StepInv
<1>18. CASE ErrorAlert(r)
  BY <1>2, <1>18, GotoStep DEF ErrorAlert, At, Steps, Excepted, AfterIteration
<1>19. CASE BuildStatus(r)
  BY <1>2, <1>19, BuildStatusStep DEF BuildStatus, At, StepInv, Excepted
<1>20. CASE WriteStatus(r)
  BY <1>2, <1>20, WriteStatusStep DEF Excepted
<1>21. CASE Wake(r)
  BY <1>2, <1>3, <1>21, WakeStep DEF Excepted
<1>22. CASE Die(r)
  BY <1>2, <1>22, GotoStep DEF Die, Steps, Excepted
<1> QED  BY <1>4, <1>5, <1>7, <1>8, <1>9, <1>10, <1>11, <1>12, <1>13, <1>14, <1>15, <1>16,
            <1>17, <1>18, <1>19, <1>20, <1>21, <1>22 DEF RunStep
\* The rows of a run that has not yet sent the heartbeat of its iteration.
LEMMA NoBeatsYet ==
    ASSUME TypeInv, NEW r \in Runs, BeatInv(r), run[r].pc \in Unbeaten
    PROVE  Beats(r) = {}
  BY DEF BeatInv, Beats

\* The new row of an own heartbeat.
LEMMA OwnBeatStep ==
    ASSUME TypeInv, NEW r \in Runs, NEW what \in {"ok", "warning", "error"}, Beat(r, what),
           run'[r].iteration = run[r].iteration
    PROVE  /\ Beats(r)' = Beats(r) \cup {Len(heartbeats) + 1}
           /\ DOMAIN heartbeats' = DOMAIN heartbeats \cup {Len(heartbeats) + 1}
           /\ heartbeats'[Len(heartbeats) + 1] = Row(r, what)
           /\ \A n \in DOMAIN heartbeats : /\ heartbeats'[n] = heartbeats[n]
                                           /\ n <= Len(heartbeats) + 1
           /\ Len(heartbeats) + 1 \in Nat /\ Len(heartbeats) + 1 <= Len(heartbeats) + 1
<1>1. /\ DOMAIN heartbeats = 1 .. Len(heartbeats) /\ Len(heartbeats) \in Nat
      /\ DOMAIN heartbeats' = 1 .. Len(heartbeats) + 1
      /\ \A n \in 1 .. Len(heartbeats) : heartbeats'[n] = heartbeats[n]
      /\ heartbeats'[Len(heartbeats) + 1] = Row(r, what)
  BY BeatStep, TypesOf
<1>2. DOMAIN heartbeats' = DOMAIN heartbeats \cup {Len(heartbeats) + 1}
      /\ \A n \in DOMAIN heartbeats : n <= Len(heartbeats) + 1
  BY <1>1
<1>3. Row(r, what).run = r /\ Row(r, what).iteration = run'[r].iteration
  BY DEF Row
<1>4. Beats(r)' = Beats(r) \cup {Len(heartbeats) + 1}
  BY <1>1, <1>2, <1>3 DEF Beats
<1> QED  BY <1>1, <1>2, <1>4

\* A step within an iteration that sends no heartbeat leaves those there are.
LEMMA QuietBeats ==
    ASSUME NEW r \in Runs, UNCHANGED heartbeats, run'[r].iteration = run[r].iteration
    PROVE  Beats(r)' = Beats(r)
  BY DEF Beats

LEMMA OwnBeat ==
    ASSUME TypeInv, NEW r \in Runs, RunStep(r), StepInv(r), BeatInv(r)
    PROVE  BeatInv(r)'
<1>1. /\ run[r].iteration \in Nat /\ run'[r].iteration \in Nat
      /\ \A n \in DOMAIN heartbeats : heartbeats[n].iteration \in Nat
  <2>1. run[r] \in RunRecord /\ run'[r] \in RunRecord /\ heartbeats \in Seq(BeatRecord)
    BY TypesOf, RunStepOwn DEF Own
  <2>2. \A n \in DOMAIN heartbeats : heartbeats[n] \in BeatRecord
    BY <2>1
  <2> QED  BY <2>1, <2>2 DEF RunRecord, BeatRecord
\* A step within an iteration that sends no heartbeat.
<1>2. ASSUME NEW p, Moved(r, p), UNCHANGED heartbeats,
             p \in Unbeaten => run[r].pc \in Unbeaten,
             \/ p \notin Beaten
             \/ run'[r].raised
             \/ run[r].pc \in Unbeaten
             \/ run[r].pc \in Beaten /\ SameReport(r)
      PROVE  BeatInv(r)'
  <2>1. Beats(r)' = Beats(r)
    BY <1>2, QuietBeats DEF Moved
  <2>2. run[r].pc \in Unbeaten => Beats(r) = {}
    BY NoBeatsYet
  <2> QED  BY <1>2, <2>1, <2>2 DEF BeatInv, Moved, SameReport
\* A pass begins.
<1>3. ASSUME UNCHANGED heartbeats, run'[r].pc \notin Beaten,
             \/ run[r].pc = "off"
             \/ run[r].iteration < run'[r].iteration
             \/ run[r].pc \in Unbeaten /\ run'[r].iteration = run[r].iteration
      PROVE  BeatInv(r)'
  <2>1. ASSUME NEW n \in DOMAIN heartbeats, heartbeats[n].run = r
        PROVE  /\ heartbeats[n].iteration <= run'[r].iteration
               /\ heartbeats[n].iteration # run'[r].iteration
    <3>1. /\ heartbeats[n].iteration <= run[r].iteration
          /\ run[r].pc \in Unbeaten => heartbeats[n].iteration # run[r].iteration
      BY <2>1 DEF BeatInv
    <3>2. run[r].pc # "off"
      BY <1>1, <3>1 DEF StepInv, Unbeaten
    <3> QED  BY <1>1, <1>3, <3>1, <3>2
  <2> QED  BY <1>3, <2>1 DEF BeatInv
<1>4. ASSUME NEW script \in Scripts, NEW source \in Sources, Launch(r, script, source)
      PROVE  BeatInv(r)'
  BY <1>3, <1>4, LaunchStep DEF Launch, At, PassBegun, Beaten
<1>5. ASSUME NEW check, NEW skip, Preflight(r, check, skip)
      PROVE  BeatInv(r)'
  <2>1. UNCHANGED heartbeats /\ run[r].pc \in Unbeaten
    BY <1>5 DEF Preflight, At, Unbeaten
  <2>2. CASE Moved(r, "dead")
    BY <1>2, <2>1, <2>2 DEF Beaten
  <2>3. CASE PassBegun(r, run[r].script, run[r].source, run[r].iteration, run[r].seen)
    BY <1>3, <2>1, <2>3 DEF PassBegun, Beaten
  <2> QED  BY <1>5, <2>2, <2>3, PreflightStep
<1>6. CASE ReadAccount(r)
  <2>1. PICK p : p \in {"position", "report"} /\ Moved(r, p)
    BY <1>6, ReadAccountStep
  <2> QED  BY <1>2, <1>6, <2>1 DEF ReadAccount, At, Unbeaten, Beaten
<1>7. CASE ReadPosition(r)
  BY <1>2, <1>7, ReadPositionStep DEF ReadPosition, At, Unbeaten, Beaten
<1>8. CASE ReadOrders(r)
  BY <1>2, <1>8, ReadOrdersStep DEF ReadOrders, At, Unbeaten, Beaten
<1>9. ASSUME NEW q \in Positions, NEW orders \in SUBSET Protective, RecordReport(r, q, orders)
      PROVE  BeatInv(r)'
  <2>1. PICK p : p \in {"act", "returned"} /\ Moved(r, p)
    BY <1>9, RecordReportStep
  <2> QED  BY <1>2, <1>9, <2>1 DEF RecordReport, At, Unbeaten
<1>10. CASE Act(r)
  <2>1. PICK p : p \in {"act", "alert"} /\ Moved(r, p)
    BY <1>10, ActStep
  <2> QED  BY <1>2, <1>10, <2>1 DEF Act, At, Unbeaten
<1>11. CASE AlertAction(r)
  BY <1>2, <1>11, GotoStep DEF AlertAction, At, Unbeaten, Steps
<1>12. CASE EndActions(r)
  BY <1>2, <1>12, GotoStep DEF EndActions, At, Unbeaten, Steps, AfterActions
<1>13. CASE Heartbeat(r)
  <2> DEFINE status == BeatStatus(run[r].report)
             p == IF status = "ok" THEN AfterIteration(r) ELSE "warn"
             n == Len(heartbeats) + 1
  <2>1. p \in Steps /\ p \in Beaten /\ status \in {"ok", "warning", "error"}
    BY DEF BeatStatus, AfterIteration, Steps, Beaten
  <2>2. Beat(r, status) /\ Goto(r, p) /\ run[r].pc \in Unbeaten
    BY <1>13 DEF Heartbeat, At, Unbeaten
  <2>3. Moved(r, p) /\ SameReport(r)
    BY <2>1, <2>2, GotoStep
  <2>4. /\ Beats(r)' = {n}
        /\ DOMAIN heartbeats' = DOMAIN heartbeats \cup {n}
        /\ heartbeats'[n] = Row(r, status)
        /\ \A m \in DOMAIN heartbeats : heartbeats'[m] = heartbeats[m]
    BY <2>1, <2>2, <2>3, OwnBeatStep, NoBeatsYet DEF Moved
  <2>5. /\ Row(r, status).run = r /\ Row(r, status).iteration = run[r].iteration
        /\ Row(r, status).what = BeatStatus(run'[r].report)
    BY <2>3 DEF Row, SameReport
  <2>6. run'[r].pc \notin Unbeaten
    BY <2>1, <2>3 DEF Moved, Beaten, Unbeaten
  <2>7. \A m \in DOMAIN heartbeats' : heartbeats'[m].run = r =>
           heartbeats'[m].iteration <= run'[r].iteration
    BY <1>1, <2>3, <2>4, <2>5 DEF BeatInv, Moved
  <2>8. \A m \in Beats(r)' : heartbeats'[m].what = BeatStatus(run'[r].report)
    BY <2>4, <2>5
  <2> QED  BY <2>6, <2>7, <2>8 DEF BeatInv
<1>14. CASE Warn(r)
  BY <1>2, <1>14, GotoStep DEF Warn, At, Unbeaten, Beaten, Steps, AfterIteration
<1>15. CASE Raise(r)
  <2>1. PICK p : p \in {"except_beat", "dead"} /\ Moved(r, p)
    BY <1>15, RaiseStep
  <2> QED  BY <1>2, <1>15, <2>1 DEF Raise, Unbeaten, Beaten
<1>16. CASE ErrorBeat(r)
  <2> DEFINE n == Len(heartbeats) + 1
  <2>1. Beat(r, "error") /\ Moved(r, "except_alert")
    BY <1>16, GotoStep DEF ErrorBeat, Steps
  <2>2. /\ DOMAIN heartbeats' = DOMAIN heartbeats \cup {n}
        /\ heartbeats'[n] = Row(r, "error")
        /\ \A m \in DOMAIN heartbeats : heartbeats'[m] = heartbeats[m]
    BY <2>1, OwnBeatStep DEF Moved
  <2>3. Row(r, "error").iteration = run[r].iteration
    BY DEF Row
  <2>4. \A m \in DOMAIN heartbeats' : heartbeats'[m].run = r =>
           heartbeats'[m].iteration <= run'[r].iteration
    BY <1>1, <2>1, <2>2, <2>3 DEF BeatInv, Moved
  <2> QED  BY <2>1, <2>4 DEF BeatInv, Moved, Unbeaten, Beaten
<1>17. CASE ErrorAlert(r)
  <2>1. PICK p : p \in {"status", "asleep"} /\ Moved(r, p) /\ SameReport(r)
    BY <1>17, GotoStep DEF ErrorAlert, Steps, AfterIteration
  <2> QED  BY <1>2, <1>17, <2>1 DEF ErrorAlert, At, Unbeaten, SameReport, StepInv, Excepted
<1>18. CASE BuildStatus(r)
  BY <1>2, <1>18, BuildStatusStep DEF BuildStatus, At, Unbeaten, Beaten
<1>19. CASE WriteStatus(r)
  BY <1>2, <1>19, WriteStatusStep DEF WriteStatus, At, Unbeaten, Beaten
<1>20. CASE Wake(r)
  <2>1. UNCHANGED heartbeats /\ run[r].pc \in Beaten
    BY <1>20 DEF Wake, At, Beaten
  <2>2. CASE Moved(r, "returned") /\ SameReport(r)
    BY <1>2, <2>1, <2>2 DEF Unbeaten
  <2>3. CASE PassBegun(r, run[r].script, run[r].source, run[r].iteration + 1, run[r].seen)
    <3>1. run[r].iteration < run'[r].iteration /\ run'[r].pc \notin Beaten
      BY <1>1, <2>3 DEF PassBegun, Beaten
    <3> QED  BY <1>3, <2>1, <3>1
  <2> QED  BY <1>20, <2>2, <2>3, WakeStep
<1>21. CASE Die(r)
  BY <1>2, <1>21, GotoStep DEF Die, Steps, Unbeaten, Beaten
<1> QED  BY <1>4, <1>5, <1>6, <1>7, <1>8, <1>9, <1>10, <1>11, <1>12, <1>13, <1>14, <1>15,
            <1>16, <1>17, <1>18, <1>19, <1>20, <1>21 DEF RunStep

LEMMA OwnLast ==
    ASSUME TypeInv, NEW r \in Runs, RunStep(r), StepInv(r), BeatInv(r), LastInv(r)
    PROVE  LastInv(r)'
<1>1. TablesGrow
  BY RunStepOwn DEF Own
\* A step that keeps the heartbeats, and has them stored if they must be now.
<1>2. ASSUME NEW p, Moved(r, p), SameReport(r), UNCHANGED heartbeats,
             run[r].pc \in Beaten \cup {"except_alert"},
             p \in {"status", "write", "asleep", "returned"},
             run[r].pc = "warn" => ~ run[r].raised /\ Row(r, "warning") \in tables'.alerts,
             run[r].pc = "except_alert" => Row(r, "error") \in tables'.alerts
      PROVE  LastInv(r)'
  <2>1. Supervised(r)' = Supervised(r)
    BY <1>2 DEF Supervised, Moved
  <2>2. Beats(r)' = Beats(r)
    BY <1>2, QuietBeats DEF Moved
  <2>3. ASSUME NEW n \in Nat, LastBeat(r, n), Stored(r, heartbeats[n])
        PROVE  (LastBeat(r, n) /\ Stored(r, heartbeats[n]))'
    <3>1. LastBeat(r, n)'
      BY <2>2, <2>3 DEF LastBeat
    <3>2. /\ heartbeats[n].what # "ok" => heartbeats[n] \in tables'.alerts
          /\ run'[r].raised => heartbeats[n].what = "error"
      <4>1. CASE run[r].pc = "warn"
        BY <1>2, <2>3, <4>1 DEF Stored, SameReport
      <4>2. CASE run[r].pc = "except_alert"
        BY <1>2, <2>3, <4>2 DEF Stored, Row
      <4>3. CASE run[r].pc \in {"status", "write", "asleep", "returned"}
        BY <1>1, <1>2, <2>3, <4>3 DEF Stored, SameReport, TablesGrow
      <4> QED  BY <1>2, <4>1, <4>2, <4>3 DEF Beaten
    <3> QED  BY <1>2, <3>1, <3>2 DEF Stored, Moved
  <2> QED  BY <1>2, <2>1, <2>3 DEF LastInv
<1>3. CASE Heartbeat(r)
  <2> DEFINE status == BeatStatus(run[r].report)
             p == IF status = "ok" THEN AfterIteration(r) ELSE "warn"
  <2> PICK n \in Nat : n = Len(heartbeats) + 1
    BY TypesOf
  <2>1. /\ p \in Steps /\ status \in {"ok", "warning", "error"}
        /\ p # "except_alert" /\ (p = "warn" => status = "warning")
        /\ (p # "warn" => status = "ok")
    BY DEF BeatStatus, AfterIteration, Steps
  <2>2. Beat(r, status) /\ Goto(r, p) /\ run[r].pc \in Unbeaten
    BY <1>3 DEF Heartbeat, At, Unbeaten
  <2>3. Moved(r, p) /\ SameReport(r) /\ ~ run[r].raised
    BY <1>3, <2>1, <2>2, GotoStep DEF StepInv, Heartbeat, At, Excepted
  <2>4. /\ Beats(r)' = {n} /\ heartbeats'[n] = Row(r, status) /\ n \in Nat /\ n <= n
    BY <2>1, <2>2, <2>3, OwnBeatStep, NoBeatsYet DEF Moved
  <2>5. LastBeat(r, n)'
    BY <2>4 DEF LastBeat
  <2>6. /\ Row(r, "warning")' = Row(r, "warning") /\ Row(r, status).what = status
    BY <2>3 DEF Row, Moved
  <2>7. Stored(r, heartbeats[n])'
    BY <2>1, <2>3, <2>4, <2>6 DEF Stored, Moved, SameReport
  <2> QED  BY <2>4, <2>5, <2>7 DEF LastInv
<1>4. CASE ErrorBeat(r)
  <2> PICK n \in Nat : n = Len(heartbeats) + 1
    BY TypesOf
  <2>1. Beat(r, "error") /\ Moved(r, "except_alert")
    BY <1>4, GotoStep DEF ErrorBeat, Steps
  <2>2. /\ Beats(r)' = Beats(r) \cup {n} /\ heartbeats'[n] = Row(r, "error")
        /\ n \in Nat /\ n <= n
        /\ \A m \in DOMAIN heartbeats : m <= n
    BY <2>1, OwnBeatStep DEF Moved
  <2>3. Beats(r) \subseteq DOMAIN heartbeats
    BY DEF Beats
  <2>4. LastBeat(r, n)'
    BY <2>2, <2>3 DEF LastBeat
  <2>5. Row(r, "error")' = Row(r, "error")
    BY <2>1 DEF Row, Moved
  <2>6. Stored(r, heartbeats[n])'
    BY <2>1, <2>2, <2>5 DEF Stored, Moved
  <2> QED  BY <2>2, <2>4, <2>6 DEF LastInv
<1>5. CASE Warn(r)
  <2>1. Row(r, "warning") \in tables'.alerts
    BY <1>5, InsertStep DEF Warn
  <2>2. run[r].pc = "warn" /\ UNCHANGED heartbeats /\ ~ run[r].raised
    BY <1>5 DEF Warn, At, StepInv, Excepted
  <2>3. PICK p : p \in {"status", "asleep"} /\ Moved(r, p) /\ SameReport(r)
    BY <1>5, GotoStep DEF Warn, AfterIteration, Steps
  <2> QED  BY <1>2, <2>1, <2>2, <2>3 DEF Beaten
<1>6. CASE ErrorAlert(r)
  <2>1. Row(r, "error") \in tables'.alerts
    BY <1>6, InsertStep DEF ErrorAlert
  <2>2. run[r].pc = "except_alert" /\ UNCHANGED heartbeats
    BY <1>6 DEF ErrorAlert, At
  <2>3. PICK p : p \in {"status", "asleep"} /\ Moved(r, p) /\ SameReport(r)
    BY <1>6, GotoStep DEF ErrorAlert, AfterIteration, Steps
  <2> QED  BY <1>2, <2>1, <2>2, <2>3
<1>7. CASE BuildStatus(r)
  BY <1>2, <1>7, BuildStatusStep DEF BuildStatus, At, Beaten
<1>8. CASE WriteStatus(r)
  BY <1>2, <1>8, WriteStatusStep DEF WriteStatus, At, Beaten
<1>9. ASSUME Wake(r), run'[r].pc = "returned"
      PROVE  LastInv(r)'
  <2>1. Moved(r, "returned") /\ SameReport(r) /\ UNCHANGED heartbeats /\ run[r].pc = "asleep"
    BY <1>9, WakeStep DEF Wake, At, PassBegun
  <2> QED  BY <1>2, <2>1 DEF Beaten
\* Only an unsupervised run returns from its pass.
<1>10. ASSUME EndActions(r), run'[r].pc = "returned"
       PROVE  LastInv(r)'
  <2>1. PICK p : p = AfterActions(r) /\ p \in Steps /\ Moved(r, p)
    BY <1>10, GotoStep DEF EndActions, AfterActions, Steps
  <2>2. ~ Supervised(r)
    BY <1>10, <2>1 DEF AfterActions, Moved
  <2> QED  BY <2>1, <2>2 DEF LastInv, Supervised, Moved
<1>11. ASSUME NEW q \in Positions, NEW orders \in SUBSET Protective, RecordReport(r, q, orders),
              run'[r].pc = "returned"
       PROVE  LastInv(r)'
  <2>1. run[r].script = "sync" /\ run'[r].script = run[r].script
    BY <1>11, RecordReportStep DEF Moved
  <2> QED  BY <2>1 DEF LastInv, Supervised
<1>12. CASE run'[r].pc \notin Beaten \cup {"except_alert"}
  BY <1>12 DEF LastInv
<1> QED  BY <1>3, <1>4, <1>5, <1>6, <1>7, <1>8, <1>9, <1>10, <1>11, <1>12, Arrival DEF Beaten

LEMMA OwnFile ==
    ASSUME TypeInv, NEW r \in Runs, RunStep(r), StepInv(r), FileInv(r)
    PROVE  FileInv(r)'
<1> DEFINE Now(k) == IF run'[r].unread THEN k = 0 ELSE \A n \in Beats(r)' : n <= k
<1> SUFFICES ASSUME OnlyService(r)'
             PROVE  /\ run'[r].pc = "write" => Now(run'[r].seen)
                    /\ run'[r].pc \in {"asleep", "returned"} => Now(statusFile')
  BY DEF FileInv, Shows
<1>1. run'[r].script = "service"
  BY DEF OnlyService
<1>2. ASSUME run[r].pc # "off"
      PROVE  OnlyService(r)
  <2>1. \A s \in Runs : run'[s].script = run[s].script
    BY <1>2, RunStepOwn, TypesOf DEF Own
  <2> QED  BY <2>1 DEF OnlyService
<1>3. CASE BuildStatus(r)
  <2>1. /\ Moved(r, "write") /\ UNCHANGED heartbeats
        /\ \/ run'[r].seen = Len(heartbeats) /\ ~ run'[r].unread
           \/ run'[r].seen = 0 /\ run'[r].unread
    BY <1>3, BuildStatusStep DEF BuildStatus
  <2>2. heartbeats \in Seq(BeatRecord)
    BY TypesOf
  <2>3. \A n \in DOMAIN heartbeats : n <= Len(heartbeats)
    BY <2>2
  <2> QED  BY <2>1, <2>3 DEF Beats, Moved
<1>4. CASE WriteStatus(r)
  <2>1. /\ Moved(r, "asleep") /\ run[r].pc = "write" /\ UNCHANGED heartbeats
        /\ statusFile' = run[r].seen /\ SameUnread(r)
    BY <1>4, WriteStatusStep DEF WriteStatus, At
  <2>2. Beats(r)' = Beats(r)
    BY <2>1, QuietBeats DEF Moved
  <2> QED  BY <1>2, <2>1, <2>2 DEF FileInv, Shows, SameUnread, Moved
<1>5. ASSUME Wake(r), run'[r].pc = "returned"
      PROVE  Now(statusFile')
  <2>1. /\ Moved(r, "returned") /\ run[r].pc = "asleep"
        /\ UNCHANGED <<heartbeats, statusFile>> /\ SameUnread(r)
    BY <1>5, WakeStep DEF Wake, At, PassBegun
  <2>2. Beats(r)' = Beats(r)
    BY <2>1, QuietBeats DEF Moved
  <2> QED  BY <1>2, <2>1, <2>2 DEF FileInv, Shows, SameUnread
\* The service goes on with its status file.
<1>6. ASSUME run[r].pc # "off"
      PROVE  /\ run[r].script = "service"
             /\ AfterIteration(r) = "status" /\ AfterActions(r) = "beat"
  <2>1. run[r].script = "service"
    BY <1>2, <1>6 DEF OnlyService
  <2> QED  BY <2>1 DEF AfterIteration, AfterActions, Supervised
<1>7. CASE Heartbeat(r)
  <2>1. AfterIteration(r) = "status"
    BY <1>6, <1>7 DEF Heartbeat, At
  <2>2. Goto(r, "status") \/ Goto(r, "warn")
    BY <1>7, <2>1 DEF Heartbeat
  <2> QED  BY <2>2, GotoStep DEF Steps, Moved
<1>8. CASE Warn(r)
  <2>1. Goto(r, "status")
    BY <1>6, <1>8 DEF Warn, At
  <2> QED  BY <2>1, GotoStep DEF Steps, Moved
<1>9. CASE ErrorAlert(r)
  <2>1. Goto(r, "status")
    BY <1>6, <1>9 DEF ErrorAlert, At
  <2> QED  BY <2>1, GotoStep DEF Steps, Moved
<1>10. CASE EndActions(r)
  <2>1. Goto(r, "beat")
    BY <1>6, <1>10 DEF EndActions, At
  <2> QED  BY <2>1, GotoStep DEF Steps, Moved
<1>11. ASSUME NEW q \in Positions, NEW orders \in SUBSET Protective, RecordReport(r, q, orders)
       PROVE  run'[r].pc \notin {"write", "asleep", "returned"}
  <2>1. run[r].script = "service"
    BY <1>6, <1>11 DEF RecordReport, At
  <2> QED  BY <1>11, <2>1, RecordReportStep DEF Moved
<1>12. CASE run'[r].pc \notin {"write", "asleep", "returned"}
  BY <1>12
<1> QED  BY <1>3, <1>4, <1>5, <1>7, <1>8, <1>9, <1>10, <1>11, <1>12, Arrival

---------------------------------------------------------------------------
(* The safety properties                                                   *)

THEOREM InitInv == RecoveryInit => RecoveryInv
<1> SUFFICES ASSUME RecoveryInit, NEW r \in Runs PROVE RunInv(r)
  BY DEF RecoveryInv
<1>1. /\ run[r].script = "none" /\ run[r].source = "none" /\ run[r].pc = "off"
      /\ run[r].iteration = 0 /\ run[r].raised = FALSE
      /\ steady[r] = {} /\ heartbeats = <<>>
  BY DEF RecoveryInit, Asleep
<1>2. ReadInv(r) /\ ToldInv(r)
  BY <1>1 DEF ReadInv, ToldInv, Reported, ActedOn
<1>3. StepInv(r) /\ BeatInv(r)
  BY <1>1 DEF StepInv, BeatInv, Excepted, Beaten
<1>4. LastInv(r) /\ FileInv(r)
  BY <1>1 DEF LastInv, FileInv, Supervised
<1> QED  BY <1>2, <1>3, <1>4 DEF RunInv

THEOREM NextInv ==
    TypeInv /\ RecoveryInv /\ [RecoveryNext]_recoveryVars => RecoveryInv'
<1> SUFFICES ASSUME TypeInv, RecoveryInv, [RecoveryNext]_recoveryVars, NEW r \in Runs
             PROVE  RunInv(r)'
  BY DEF RecoveryInv
<1>1. RunInv(r) /\ \A s \in Runs : StepInv(s)
  BY DEF RecoveryInv, RunInv
<1>2. ASSUME RunStep(r) PROVE RunInv(r)'
  BY <1>1, <1>2, OwnRead, OwnTold, OwnStepInv, OwnBeat, OwnLast, OwnFile DEF RunInv
<1>3. ASSUME NEW s \in Runs, s # r, RunStep(s) PROVE RunInv(r)'
  BY <1>1, <1>3, RunStepOwn, OthersKeep
<1>4. ASSUME NEW l \in Quantities, NEW q \in Positions, NEW orders \in SUBSET Orders,
             World(l, q, orders)
      PROVE  RunInv(r)'
  BY <1>1, <1>4, WorldKeeps
<1>5. CASE UNCHANGED recoveryVars
  BY <1>1, <1>5
     DEF recoveryVars, RunInv, ReadInv, ToldInv, Told, StepInv, BeatInv, LastInv, FileInv,
         Shows, Private, Beats, LastBeat, Stored, Supervised, OnlyService, Row
<1> QED  BY <1>2, <1>3, <1>4, <1>5, NextCases

LEMMA SteadyReported ==
    ASSUME TypeInv, RecoveryInv
    PROVE  SteadyMismatchReported
<1> SUFFICES ASSUME NEW r \in Runs, Finished(r), run[r].source = "private", ~ run[r].raised,
                    NEW trouble \in steady[r]
             PROVE  \E c \in ReportedAs(trouble) :
                      /\ \E row \in tables.reconciliations :
                           row.run = r /\ row.iteration = run[r].iteration
                           /\ c \in Range(row.what)
                      /\ run[r].script # "sync" => Row(r, <<c, Outcome(c)>>) \in tables.recoveries
                      /\ Supervised(r) => \A n \in Beats(r) : heartbeats[n].what = "warning"
  BY DEF SteadyMismatchReported
<1>1. run[r].pc \in {"asleep", "returned"} /\ ToldInv(r) /\ BeatInv(r)
  BY DEF Finished, RecoveryInv, RunInv
<1>2. run[r].report = "warning"
  BY <1>1 DEF ToldInv, Private, Reported
<1>3. PICK c \in ReportedAs(trouble) : Told(r, trouble, c)
  BY <1>1 DEF ToldInv, Private, Reported
<1>4. run[r].script # "sync" => Row(r, <<c, Outcome(c)>>) \in tables.recoveries
  <2>1. run[r].script # "sync" => Range(run[r].todo) = {}
    BY <1>1 DEF ToldInv, ActedOn, Range
  <2> QED  BY <1>3, <2>1 DEF Told
<1>5. \A n \in Beats(r) : heartbeats[n].what = "warning"
  <2>1. BeatStatus(run[r].report) = "warning"
    BY <1>2 DEF BeatStatus
  <2> QED  BY <1>1, <2>1 DEF BeatInv, Beaten
<1> QED  BY <1>3, <1>4, <1>5 DEF Told

\* Whatever trades, fills, deaths and exceptions come between: a difference that
\* lasts through a private pass is in its report, its action is recorded, and no
\* heartbeat of the iteration says ok.
THEOREM MismatchReported == RecoverySpec => []SteadyMismatchReported
<1>1. RecoveryInit => TypeInv /\ RecoveryInv
  BY InitType, InitInv
<1>2. TypeInv /\ RecoveryInv /\ [RecoveryNext]_recoveryVars => (TypeInv /\ RecoveryInv)'
  BY NextType, NextInv
<1>3. TypeInv /\ RecoveryInv => SteadyMismatchReported
  BY SteadyReported
<1> QED  BY <1>1, <1>2, <1>3, PTL DEF RecoverySpec

LEMMA LastIsMax ==
    ASSUME TypeInv, NEW r \in Runs, NEW n \in Nat, LastBeat(r, n)
    PROVE  Max(Beats(r)) = n
<1>1. Beats(r) \subseteq Int
  BY TypesOf DEF Beats
<1>2. n \in Beats(r) /\ \A m \in Beats(r) : n >= m
  BY <1>1 DEF LastBeat
<1>3. \A x \in Beats(r) : (\A m \in Beats(r) : x >= m) => x = n
  BY <1>1, <1>2
<1> QED  BY <1>2, <1>3 DEF Max

LEMMA AlertStored ==
    ASSUME TypeInv, RecoveryInv
    PROVE  TroubleHasAlert
<1> SUFFICES ASSUME NEW r \in Runs, Supervised(r), Finished(r)
             PROVE  /\ Beats(r) # {}
                    /\ LET last == heartbeats[Max(Beats(r))]
                       IN  /\ last.what # "ok" => last \in tables.alerts
                           /\ run[r].raised => last.what = "error"
                    /\ OnlyService(r) =>
                         IF run[r].unread THEN statusFile = 0 ELSE statusFile >= Max(Beats(r))
  BY DEF TroubleHasAlert, OnlyService
<1>1. run[r].pc \in {"asleep", "returned"} /\ LastInv(r) /\ FileInv(r)
  BY DEF Finished, RecoveryInv, RunInv
<1>2. PICK n \in Nat : LastBeat(r, n) /\ Stored(r, heartbeats[n])
  BY <1>1 DEF LastInv, Beaten
<1>3. Max(Beats(r)) = n /\ n \in Beats(r)
  BY <1>2, LastIsMax DEF LastBeat
<1>4. OnlyService(r) => IF run[r].unread THEN statusFile = 0 ELSE statusFile >= n
  BY <1>1, <1>3, TypesOf DEF FileInv, Shows
<1> QED  BY <1>1, <1>2, <1>3, <1>4 DEF Stored

\* Whatever raises and is caught: a supervisor that goes on has left a heartbeat
\* of its iteration, an alert for it unless it says ok, and an error heartbeat if
\* anything raised; and the status file of the only service shows that heartbeat
\* or a later one, or none when it could not read them.
THEOREM TroubleAlerted == RecoverySpec => []TroubleHasAlert
<1>1. RecoveryInit => TypeInv /\ RecoveryInv
  BY InitType, InitInv
<1>2. TypeInv /\ RecoveryInv /\ [RecoveryNext]_recoveryVars => (TypeInv /\ RecoveryInv)'
  BY NextType, NextInv
<1>3. TypeInv /\ RecoveryInv => TroubleHasAlert
  BY AlertStored
<1> QED  BY <1>1, <1>2, <1>3, PTL DEF RecoverySpec
=============================================================================
