--------------------------- MODULE LiveGateProofs ---------------------------
(***************************************************************************)
(* What LiveGate guarantees for any number of overlapping scripts, edits   *)
(* of the configuration, changes beside them and reads that fail.          *)
(***************************************************************************)
EXTENDS LiveGate, TLAPS

---------------------------------------------------------------------------
(* The inductive invariants                                                *)

StepNames ==
    {"kill", "validation", "circuit", "unknown", "gate_verdict", "readiness_verdict",
     "evidence", "validation_verdict", "validation_fill", "refresh", "offline_append",
     "snapshot", "account", "target", "monitor_verdict", "monitor_fill", "defaults",
     "monitor_report", "payload", "circuit_again", "checklist", "approval",
     "review_verdict", "kill_truncate", "kill_on", "kill_off"}
Elements(s) == {s[i] : i \in DOMAIN s}
Rest(p) == Elements(todo[p])
Running(p) == todo[p] # <<>>
Bad(S) == S \cap {Warn, Blocked} # {}
Has(p, name) == <<"state", name>> \in steady[p]
Names(p, class) == \E c \in steady[p] : c[1] = class

\* Steps of a lower stage are never left for after one of a higher: what a
\* comparison needs is read before it, and everything before the verdict.
Stage(step) ==
    IF step \in {"gate_verdict", "readiness_verdict", "review_verdict", "validation_fill",
                 "kill_on", "kill_off"} THEN 7
    ELSE IF step \in {"monitor_fill", "monitor_report"} THEN 5
    ELSE IF step = "monitor_verdict" THEN 4
    ELSE IF step = "target" THEN 3
    ELSE IF step = "account" THEN 2
    ELSE IF step = "snapshot" THEN 1
    ELSE IF step \in {"defaults", "evidence", "refresh", "offline_append"} THEN 0
    ELSE 6
Ordered(s) == \A i, j \in DOMAIN s : i <= j => Stage(s[i]) <= Stage(s[j])

\* The steps only one script, or one kind of script, has.
StepsOfKind(p) ==
    /\ "gate_verdict" \in Rest(p) => kind[p] = "gate"
    /\ "readiness_verdict" \in Rest(p) => kind[p] = "readiness"
    /\ "validation_fill" \in Rest(p) => kind[p] = "validate"
    /\ Rest(p) \cap {"review_verdict", "payload"} # {} => kind[p] \in Reviews
    /\ "monitor_report" \in Rest(p) => kind[p] = "review"
    /\ "monitor_fill" \in Rest(p) => kind[p] \in {"monitor"} \cup Reviews
    /\ Rest(p) \cap {"kill_on", "kill_off"} # {} => kind[p] \in {"trigger", "clear"}

ProgramInv(p) ==
    /\ Ordered(todo[p])
    /\ StepsOfKind(p)
    /\ kind[p] = "none" \/ outcome[p] # "none" => todo[p] = <<>>
    /\ kind[p] = "none" => outcome[p] = "none"
    /\ left[p] # {} => At(p, "evidence") \/ At(p, "payload")

\* Each concern that has held since the script started is still to be read, or
\* one of the checks made has seen it.
GateWatch(p) ==
    LET blocked == Blocked \in found[p].gate
    IN  Running(p) /\ kind[p] \in {"gate", "readiness"} =>
            /\ Names(p, "off") \/ Has(p, "kill_switch") => "kill" \in Rest(p) \/ blocked
            /\ Has(p, "validation") => "validation" \in Rest(p) \/ blocked
            /\ Has(p, "hard_circuit") => "circuit" \in Rest(p) \/ blocked
            /\ Has(p, "unknown_order") => "unknown" \in Rest(p) \/ blocked
            /\ kind[p] = "gate" /\ Has(p, "no_curve") =>
                 "circuit" \in Rest(p) \/ Bad(found[p].gate)

EvidenceWatch(p) ==
    Running(p) /\ kind[p] \in {"readiness", "validate"} =>
        \A e \in Evidence : <<"evidence", e>> \in steady[p] => e \in left[p] \/ Blocked \in found[p].own

\* What the monitor has seen is what has differed all the time.
MonitorNoted(p) ==
    \/ "monitor_fill" \in Rest(p) /\ Bad(found[p].monitor)
    \/ kind[p] = "review_refresh" /\ Bad(found[p].own)
MonitorAhead(p) ==
    Rest(p) \cap {"snapshot", "account", "target"} # {} => "monitor_fill" \in Rest(p)
MonitorSaw(p) ==
    "snapshot" \notin Rest(p) /\ Rest(p) \cap {"account", "target"} # {} =>
        /\ \A c \in steady[p] :
               /\ c[1] \in {"drift", "exposure"} => seen[p].snapshot.qty = c[2]
               /\ c[1] = "equity" => seen[p].snapshot.equity = c[2]
        /\ seen[p].snapshot.source = "none" => Bad(found[p].monitor)
AccountSaw(p) ==
    "account" \notin Rest(p) /\ "target" \in Rest(p) =>
        \A c \in steady[p] : c[1] = "paper_exposure" => seen[p].account.qty = c[2]
AccountGaps(p) == Has(p, "account") \/ Names(p, "drift") \/ Names(p, "equity")
TargetGaps(p) == Has(p, "target") \/ Names(p, "exposure") \/ Names(p, "paper_exposure")
MonitorWatch(p) ==
    Running(p) /\ kind[p] \in {"monitor", "review_refresh"} =>
        /\ Has(p, "snapshot") \/ Has(p, "orders") => "snapshot" \in Rest(p) \/ MonitorNoted(p)
        /\ AccountGaps(p) => "account" \in Rest(p) \/ MonitorNoted(p)
        /\ TargetGaps(p) => "target" \in Rest(p) \/ MonitorNoted(p)
        /\ MonitorSaw(p) /\ AccountSaw(p) /\ MonitorAhead(p)

ReviewWatch(p) ==
    LET noted == Bad(found[p].own)
    IN  Running(p) /\ kind[p] \in Reviews =>
            /\ Audit(cfg[p]) \subseteq found[p].own
            /\ Names(p, "item") => "checklist" \in Rest(p) \/ noted
            /\ Has(p, "approval") => "approval" \in Rest(p) \/ noted
            /\ Has(p, "circuit") => "circuit_again" \in Rest(p) \/ noted
            /\ Has(p, "validation") => ("payload" \in Rest(p) /\ left[p] = {}) \/ noted
            /\ \A e \in Evidence : <<"evidence", e>> \in steady[p] =>
                 ("payload" \in Rest(p) /\ left[p] = {}) \/ e \in left[p] \/ noted
            /\ kind[p] = "review" /\ Has(p, "monitor") => "monitor_report" \in Rest(p) \/ noted

\* The checks of the configuration behind a verdict.
ConfigInv(p) ==
    /\ kind[p] = "gate" /\ Running(p) =>
         "kill" \in Rest(p) \/ GateConfigChecks(cfg[p]) \subseteq found[p].gate
    /\ kind[p] = "gate" /\ outcome[p] = Pass => LaunchSwitches \subseteq cfg[p]
    /\ kind[p] \in Reviews /\ outcome[p] = Pass => "master_enable" \notin cfg[p]

SnapshotInv ==
    /\ snapshot.age = "absent" <=> snapshot.source = "none"
    /\ snapshot.source = "none" => snapshot.qty = 0

ScriptInv(p) ==
    /\ ProgramInv(p) /\ GateWatch(p) /\ EvidenceWatch(p) /\ MonitorWatch(p)
    /\ ReviewWatch(p) /\ ConfigInv(p)
    /\ steady[p] \subseteq Concerns(p)
    /\ outcome[p] = Pass => steady[p] = {}
GateInv == SnapshotInv /\ \A p \in Scripts : ScriptInv(p)

---------------------------------------------------------------------------
(* Types                                                                   *)

LiveType == [qty : Quantities, equity : Equities, orders : BOOLEAN]
SnapshotType == [source : {"none", "offline", "private"}, qty : Quantities,
                 equity : Equities, orders : BOOLEAN, age : Ages]
AccountType == [qty : Quantities, equity : Equities, age : Ages]
RowType == [qty : Quantities, age : Ages]
TypeInv ==
    /\ GateTypeOK
    /\ todo \in [Scripts -> Seq(StepNames)]
    /\ seen \in [Scripts -> [snapshot : SnapshotType, account : AccountType]]

\* The statuses the checks give.
LEMMA StatusWords ==
    ASSUME NEW c, NEW S
    PROVE  /\ Pass \in Statuses /\ Warn \in Statuses /\ Blocked \in Statuses
           /\ BlockIf(c) \in Statuses /\ WarnIf(c) \in Statuses
           /\ Overall(S) \in Statuses
BY DEF Statuses, Pass, Warn, Blocked, BlockIf, WarnIf, Overall

LEMMA AuditWords == ASSUME NEW c PROVE Audit(c) \subseteq Statuses
BY StatusWords DEF Audit

LEMMA ConfigWords == ASSUME NEW c PROVE GateConfigChecks(c) \subseteq Statuses
BY StatusWords DEF GateConfigChecks

\* Snapshots and rows are of their types.
LEMMA Rows ==
    /\ NoRow \in RowType /\ NoAccount \in AccountType
    /\ NoSnapshot \in SnapshotType /\ Offline \in SnapshotType
    /\ \A q \in Quantities : [Flat EXCEPT !.qty = q] \in LiveType
    /\ \A acc \in LiveType :
           Snapshot("private", acc) \in SnapshotType /\ Snapshot("none", acc) \in SnapshotType
    /\ \A row \in RowType : Aged(row) \in RowType
    /\ \A row \in AccountType : Aged(row) \in AccountType
    /\ \A row \in SnapshotType : Aged(row) \in SnapshotType
<1>1. 0 \in Quantities /\ 0 \in Equities /\ InitialEquity \in Equities
  BY QuantitiesAssumption
<1>2. \A q \in Quantities : [Flat EXCEPT !.qty = q] \in LiveType
  BY <1>1 DEF Flat, LiveType
<1>3. \A acc \in LiveType :
          Snapshot("private", acc) \in SnapshotType /\ Snapshot("none", acc) \in SnapshotType
  BY DEF LiveType, SnapshotType, Snapshot, Ages
<1>4. NoSnapshot \in SnapshotType /\ Offline \in SnapshotType
  BY <1>1 DEF Flat, SnapshotType, Snapshot, Ages, NoSnapshot, Offline
<1>5. NoRow \in RowType /\ NoAccount \in AccountType
  BY <1>1 DEF NoRow, NoAccount, RowType, AccountType, Ages
<1>6. \A row \in RowType : Aged(row) \in RowType
  BY DEF RowType, Aged, Ages
<1>7. \A row \in AccountType : Aged(row) \in AccountType
  BY DEF AccountType, Aged, Ages
<1>8. \A row \in SnapshotType : Aged(row) \in SnapshotType
  BY DEF SnapshotType, Aged, Ages
<1> QED
  BY <1>2, <1>3, <1>4, <1>5, <1>6, <1>7, <1>8

---------------------------------------------------------------------------
(* Sequences of steps                                                      *)

\* Taking the first step leaves the others, in their order.
LEMMA TailKeeps ==
    ASSUME NEW s \in Seq(StepNames), s # <<>>
    PROVE  /\ Tail(s) \in Seq(StepNames) /\ Head(s) \in StepNames
           /\ Elements(s) = {Head(s)} \cup Elements(Tail(s))
           /\ Ordered(s) => /\ Ordered(Tail(s))
                            /\ \A step \in Elements(s) : Stage(Head(s)) <= Stage(step)
<1>1. /\ Tail(s) \in Seq(StepNames) /\ Head(s) \in StepNames /\ Head(s) = s[1]
      /\ 1 \in DOMAIN s /\ \A i \in DOMAIN s : 1 <= i
      /\ \A i \in DOMAIN Tail(s) : i + 1 \in DOMAIN s /\ Tail(s)[i] = s[i + 1] /\ i \in Nat
      /\ \A i \in DOMAIN s : i \in Nat /\ (i = 1 \/ i - 1 \in DOMAIN Tail(s))
  OBVIOUS
<1>2. Elements(s) = {Head(s)} \cup Elements(Tail(s))
  <2>1. ASSUME NEW x \in Elements(s) PROVE x \in {Head(s)} \cup Elements(Tail(s))
    <3>1. PICK i \in DOMAIN s : x = s[i]
      BY DEF Elements
    <3>2. CASE i # 1
      <4>1. Tail(s)[i - 1] = s[i] /\ i - 1 \in DOMAIN Tail(s)
        BY <1>1, <3>2
      <4> QED
        BY <3>1, <4>1 DEF Elements
    <3> QED
      BY <1>1, <3>1, <3>2
  <2>2. Elements(Tail(s)) \subseteq Elements(s) /\ Head(s) \in Elements(s)
    BY <1>1 DEF Elements
  <2> QED
    BY <2>1, <2>2
<1>3. ASSUME Ordered(s) PROVE Ordered(Tail(s))
  <2> SUFFICES ASSUME NEW i \in DOMAIN Tail(s), NEW j \in DOMAIN Tail(s), i <= j
               PROVE  Stage(Tail(s)[i]) <= Stage(Tail(s)[j])
    BY DEF Ordered
  <2>1. i + 1 <= j + 1
    BY <1>1
  <2> QED
    BY <1>1, <1>3, <2>1 DEF Ordered
<1>4. ASSUME Ordered(s) PROVE \A step \in Elements(s) : Stage(Head(s)) <= Stage(step)
  BY <1>1, <1>4 DEF Ordered, Elements
<1> QED
  BY <1>1, <1>2, <1>3, <1>4

LEMMA Concatenated ==
    ASSUME NEW s \in Seq(StepNames), NEW t \in Seq(StepNames)
    PROVE  /\ s \o t \in Seq(StepNames)
           /\ Elements(s \o t) = Elements(s) \cup Elements(t)
           /\ /\ Ordered(s) /\ Ordered(t)
              /\ \A x \in Elements(s), y \in Elements(t) : Stage(x) <= Stage(y)
              => Ordered(s \o t)
<1> DEFINE u == s \o t
<1>1. /\ u \in Seq(StepNames)
      /\ \A i \in DOMAIN s : i \in Nat /\ i \in DOMAIN u /\ u[i] = s[i]
      /\ \A i \in DOMAIN t : i \in Nat /\ Len(s) + i \in DOMAIN u /\ u[Len(s) + i] = t[i]
      /\ \A i \in DOMAIN u : i \in Nat /\ (i \in DOMAIN s \/ (i > Len(s) /\ i - Len(s) \in DOMAIN t))
      /\ Len(s) \in Nat
      /\ \A i \in DOMAIN s : i <= Len(s)
  OBVIOUS
<1> HIDE DEF u
<1>2. \A i \in DOMAIN u : \/ i \in DOMAIN s /\ u[i] = s[i]
                          \/ i - Len(s) \in DOMAIN t /\ u[i] = t[i - Len(s)] /\ i > Len(s)
  <2> SUFFICES ASSUME NEW i \in DOMAIN u, i \notin DOMAIN s
               PROVE  i - Len(s) \in DOMAIN t /\ u[i] = t[i - Len(s)] /\ i > Len(s)
    BY <1>1
  <2>1. i \in Nat /\ i > Len(s) /\ i - Len(s) \in DOMAIN t
    BY <1>1
  <2>2. u[Len(s) + (i - Len(s))] = t[i - Len(s)] /\ Len(s) + (i - Len(s)) = i
    BY <1>1, <2>1
  <2> QED
    BY <2>1, <2>2
<1>3. Elements(u) = Elements(s) \cup Elements(t)
  <2>1. Elements(s) \subseteq Elements(u)
    BY <1>1 DEF Elements
  <2>2. Elements(t) \subseteq Elements(u)
    BY <1>1 DEF Elements
  <2>3. Elements(u) \subseteq Elements(s) \cup Elements(t)
    BY <1>2 DEF Elements
  <2> QED
    BY <2>1, <2>2, <2>3
<1>4. ASSUME Ordered(s), Ordered(t),
             \A x \in Elements(s), y \in Elements(t) : Stage(x) <= Stage(y)
      PROVE  Ordered(u)
  <2> SUFFICES ASSUME NEW i \in DOMAIN u, NEW j \in DOMAIN u, i <= j
               PROVE  Stage(u[i]) <= Stage(u[j])
    BY DEF Ordered
  <2>1. CASE i \in DOMAIN s /\ u[i] = s[i] /\ j \in DOMAIN s /\ u[j] = s[j]
    BY <1>4, <2>1 DEF Ordered
  <2>2. CASE /\ i \in DOMAIN s /\ u[i] = s[i]
             /\ j - Len(s) \in DOMAIN t /\ u[j] = t[j - Len(s)]
    BY <1>4, <2>2 DEF Elements
  <2>3. CASE /\ i - Len(s) \in DOMAIN t /\ u[i] = t[i - Len(s)]
             /\ j - Len(s) \in DOMAIN t /\ u[j] = t[j - Len(s)]
    <3>1. i - Len(s) <= j - Len(s)
      BY <1>1
    <3> QED
      BY <1>4, <2>3, <3>1 DEF Ordered
  <2>4. ~ (i > Len(s) /\ j \in DOMAIN s)
    BY <1>1
  <2> QED
    BY <1>2, <2>1, <2>2, <2>3, <2>4
<1> QED
  BY <1>1, <1>3, <1>4 DEF u

\* The parts the programs are made of.
LEMMA Parts ==
    /\ GateSteps \in Seq(StepNames) /\ CompareSteps \in Seq(StepNames)
    /\ Ordered(GateSteps) /\ Ordered(CompareSteps)
    /\ Elements(GateSteps) = {"kill", "validation", "circuit", "unknown"}
    /\ Elements(CompareSteps) =
           {"snapshot", "account", "target", "monitor_verdict", "monitor_fill"}
<1>1. GateSteps \in Seq(StepNames) /\ CompareSteps \in Seq(StepNames)
  BY DEF GateSteps, CompareSteps, StepNames
<1>2. DOMAIN GateSteps = 1..4 /\ DOMAIN CompareSteps = 1..5
  BY DEF GateSteps, CompareSteps
<1>3. Ordered(GateSteps)
  BY <1>2 DEF Ordered, Stage, GateSteps
<1>4. Ordered(CompareSteps)
  BY <1>2 DEF Ordered, Stage, CompareSteps
<1>5. Elements(GateSteps) = {"kill", "validation", "circuit", "unknown"}
  BY <1>2 DEF Elements, GateSteps
<1>6. Elements(CompareSteps) =
          {"snapshot", "account", "target", "monitor_verdict", "monitor_fill"}
  BY <1>2 DEF Elements, CompareSteps
<1> QED
  BY <1>1, <1>3, <1>4, <1>5, <1>6

\* Short sequences.
LEMMA One ==
    ASSUME NEW x \in StepNames
    PROVE  <<x>> \in Seq(StepNames) /\ Ordered(<<x>>) /\ Elements(<<x>>) = {x}
<1>1. Stage(x) <= Stage(x)
  BY DEF Stage
<1> QED
  BY <1>1 DEF Ordered, Elements

LEMMA Two ==
    ASSUME NEW x \in StepNames, NEW y \in StepNames, Stage(x) <= Stage(y)
    PROVE  <<x, y>> \in Seq(StepNames) /\ Ordered(<<x, y>>) /\ Elements(<<x, y>>) = {x, y}
<1> DEFINE s == <<x, y>>
<1>1. s \in Seq(StepNames) /\ DOMAIN s = 1..2 /\ s[1] = x /\ s[2] = y
  OBVIOUS
<1> HIDE DEF s
<1>2. Stage(x) <= Stage(x) /\ Stage(y) <= Stage(y)
  BY DEF Stage
<1>3. Ordered(s)
  BY <1>1, <1>2 DEF Ordered
<1>4. Elements(s) = {x, y}
  BY <1>1 DEF Elements
<1> QED
  BY <1>1, <1>3, <1>4 DEF s

\* What every review ends with.
Closing == <<"payload", "circuit_again", "checklist", "approval", "review_verdict">>
LEMMA ClosingSteps ==
    /\ Closing \in Seq(StepNames) /\ Ordered(Closing)
    /\ Elements(Closing) =
           {"payload", "circuit_again", "checklist", "approval", "review_verdict"}
<1>1. Closing \in Seq(StepNames)
  BY DEF StepNames, Closing
<1>2. DOMAIN Closing = 1..5
  BY DEF Closing
<1>3. Ordered(Closing)
  BY <1>2 DEF Ordered, Stage, Closing
<1>4. Elements(Closing) =
          {"payload", "circuit_again", "checklist", "approval", "review_verdict"}
  BY <1>2 DEF Elements, Closing
<1> QED
  BY <1>1, <1>3, <1>4

\* Steps taken before those of a sequence whose first stage is not lower.
LEMMA Before ==
    ASSUME NEW x \in StepNames, NEW s \in Seq(StepNames), Ordered(s),
           \A y \in Elements(s) : Stage(x) <= Stage(y)
    PROVE  /\ <<x>> \o s \in Seq(StepNames) /\ Ordered(<<x>> \o s) /\ <<x>> \o s # <<>>
           /\ Elements(<<x>> \o s) = {x} \cup Elements(s) /\ Head(<<x>> \o s) = x
<1> DEFINE t == <<x>>
<1>1. t \in Seq(StepNames) /\ Ordered(t) /\ Elements(t) = {x}
  BY One
<1>2. t # <<>> /\ Head(t) = x /\ Len(t) = 1
  OBVIOUS
<1> HIDE DEF t
<1>3. t \o s # <<>> /\ Head(t \o s) = x
  BY <1>1, <1>2
<1> QED
  BY <1>1, <1>3, Concatenated DEF t

LEMMA ComparedThen ==
    ASSUME NEW s \in Seq(StepNames), Ordered(s), \A y \in Elements(s) : Stage(y) >= 5
    PROVE  LET t == <<"refresh">> \o CompareSteps \o s
           IN  /\ t \in Seq(StepNames) /\ Ordered(t) /\ t # <<>>
               /\ Elements(t) = {"refresh", "snapshot", "account", "target",
                                 "monitor_verdict", "monitor_fill"} \cup Elements(s)
<1> DEFINE r == <<"refresh">>
           u == r \o CompareSteps
<1>1. "refresh" \in StepNames /\ Stage("refresh") = 0
  BY DEF StepNames, Stage
<1>2. \A y \in Elements(CompareSteps) : Stage(y) <= 5 /\ 0 <= Stage(y)
  BY Parts DEF Stage
<1>3. /\ u \in Seq(StepNames) /\ Ordered(u) /\ u # <<>>
      /\ Elements(u) = {"refresh"} \cup Elements(CompareSteps)
  BY <1>1, <1>2, Parts, Before
<1>4. \A x \in Elements(u) : Stage(x) \in Int /\ Stage(x) <= 5
  BY <1>1, <1>2, <1>3, Parts DEF Stage
<1>5. \A y \in Elements(s) : Stage(y) \in Int
  BY DEF Stage
<1> HIDE DEF u
<1>6. \A x \in Elements(u), y \in Elements(s) : Stage(x) <= Stage(y)
  BY <1>4, <1>5
<1>7. u \o s # <<>>
  BY <1>3
<1>8. u \o s \in Seq(StepNames) /\ Ordered(u \o s) /\ Elements(u \o s) = Elements(u) \cup Elements(s)
  BY <1>3, <1>6, Concatenated
<1>9. Elements(u \o s) = {"refresh", "snapshot", "account", "target",
                          "monitor_verdict", "monitor_fill"} \cup Elements(s)
  BY <1>3, <1>8, Parts
<1> QED
  BY <1>7, <1>8, <1>9 DEF u

\* The steps a script starts with: in order, with those its verdict needs and
\* without those of the verdicts of other scripts.
ProgramSteps(k) == Elements(Program[k])
GateNames == {"kill", "validation", "circuit", "unknown"}
CompareNames == {"snapshot", "account", "target", "monitor_verdict", "monitor_fill"}
ClosingNames == {"payload", "circuit_again", "checklist", "approval", "review_verdict"}
WellFormed(s) == s \in Seq(StepNames) /\ Ordered(s) /\ s # <<>>

LEMMA GateProgram ==
    WellFormed(Program["gate"]) /\ ProgramSteps("gate") = GateNames \cup {"gate_verdict"}
<1> DEFINE v == <<"gate_verdict">>
<1>1. "gate_verdict" \in StepNames
  BY DEF StepNames
<1>2. v \in Seq(StepNames) /\ Ordered(v) /\ Elements(v) = {"gate_verdict"} /\ v # <<>>
  BY <1>1, One
<1> HIDE DEF v
<1>3. \A x \in Elements(GateSteps), y \in Elements(v) : Stage(x) <= Stage(y)
  BY <1>2, Parts DEF Stage
<1>4. GateSteps \o v # <<>>
  BY <1>2, Parts
<1>5. Program["gate"] = GateSteps \o v
  BY DEF Program, v
<1> QED
  BY <1>2, <1>3, <1>4, <1>5, Parts, Concatenated DEF WellFormed, ProgramSteps, GateNames

LEMMA ReadinessProgram ==
    /\ WellFormed(Program["readiness"]) /\ Head(Program["readiness"]) = "evidence"
    /\ ProgramSteps("readiness") = {"evidence"} \cup GateNames \cup {"readiness_verdict"}
<1> DEFINE v == <<"readiness_verdict">>
           g == <<"evidence">> \o GateSteps
<1>1. "readiness_verdict" \in StepNames /\ "evidence" \in StepNames
  BY DEF StepNames
<1>2. v \in Seq(StepNames) /\ Ordered(v) /\ Elements(v) = {"readiness_verdict"} /\ v # <<>>
  BY <1>1, One
<1>3. \A y \in Elements(GateSteps) : Stage("evidence") <= Stage(y)
  BY Parts DEF Stage
<1>4. /\ g \in Seq(StepNames) /\ Ordered(g) /\ g # <<>> /\ Head(g) = "evidence"
      /\ Elements(g) = {"evidence"} \cup GateNames
  BY <1>1, <1>3, Parts, Before DEF GateNames
<1> HIDE DEF v, g
<1>5. \A x \in Elements(g), y \in Elements(v) : Stage(x) <= Stage(y)
  BY <1>2, <1>4 DEF Stage, GateNames
<1>6. g \o v # <<>> /\ Head(g \o v) = "evidence"
  BY <1>2, <1>4
<1>7. Program["readiness"] = g \o v
  BY DEF Program, v, g
<1> QED
  BY <1>2, <1>4, <1>5, <1>6, <1>7, Concatenated DEF WellFormed, ProgramSteps

LEMMA ValidateProgram ==
    /\ WellFormed(Program["validate"]) /\ Head(Program["validate"]) = "evidence"
    /\ ProgramSteps("validate") = {"evidence", "validation_verdict", "validation_fill"}
<1> DEFINE s == <<"evidence", "validation_verdict", "validation_fill">>
<1>1. s \in Seq(StepNames)
  BY DEF StepNames
<1>2. DOMAIN s = 1..3 /\ s # <<>> /\ Head(s) = "evidence"
  OBVIOUS
<1>3. Ordered(s)
  BY <1>2 DEF Ordered, Stage
<1>4. Elements(s) = {"evidence", "validation_verdict", "validation_fill"}
  BY <1>2 DEF Elements
<1>5. Program["validate"] = s
  BY DEF Program
<1> HIDE DEF s
<1> QED
  BY <1>1, <1>2, <1>3, <1>4, <1>5 DEF WellFormed, ProgramSteps

LEMMA MonitorProgram ==
    /\ WellFormed(Program["monitor"])
    /\ ProgramSteps("monitor") = {"refresh"} \cup CompareNames
<1>1. "refresh" \in StepNames /\ \A y \in Elements(CompareSteps) : Stage("refresh") <= Stage(y)
  BY Parts DEF StepNames, Stage
<1>2. Program["monitor"] = <<"refresh">> \o CompareSteps
  BY DEF Program
<1> QED
  BY <1>1, <1>2, Parts, Before DEF WellFormed, ProgramSteps, CompareNames

LEMMA SwitchPrograms ==
    /\ WellFormed(Program["trigger"]) /\ ProgramSteps("trigger") = {"kill_truncate", "kill_on"}
    /\ WellFormed(Program["clear"]) /\ ProgramSteps("clear") = {"kill_truncate", "kill_off"}
<1>1. {"kill_truncate", "kill_on", "kill_off"} \subseteq StepNames
  BY DEF StepNames
<1>2. Stage("kill_truncate") <= Stage("kill_on") /\ Stage("kill_truncate") <= Stage("kill_off")
  BY DEF Stage
<1>3. /\ Program["trigger"] = <<"kill_truncate", "kill_on">>
      /\ Program["clear"] = <<"kill_truncate", "kill_off">>
  BY DEF Program
<1>4. <<"kill_truncate", "kill_on">> # <<>> /\ <<"kill_truncate", "kill_off">> # <<>>
  OBVIOUS
<1> QED
  BY <1>1, <1>2, <1>3, <1>4, Two DEF WellFormed, ProgramSteps

LEMMA ReviewProgram ==
    /\ WellFormed(Program["review"])
    /\ ProgramSteps("review") = {"defaults", "monitor_report"} \cup GateNames \cup ClosingNames
<1> DEFINE a == <<"defaults", "monitor_report">>
           b == a \o GateSteps
<1>1. {"defaults", "monitor_report"} \subseteq StepNames /\ Stage("defaults") <= Stage("monitor_report")
  BY DEF StepNames, Stage
<1>2. a \in Seq(StepNames) /\ Ordered(a) /\ Elements(a) = {"defaults", "monitor_report"} /\ a # <<>>
  BY <1>1, Two
<1> HIDE DEF a
<1>3. \A x \in Elements(a), y \in Elements(GateSteps) : Stage(x) <= Stage(y)
  BY <1>2, Parts DEF Stage
<1>4. /\ b \in Seq(StepNames) /\ Ordered(b) /\ b # <<>>
      /\ Elements(b) = {"defaults", "monitor_report"} \cup GateNames
  BY <1>2, <1>3, Parts, Concatenated DEF GateNames
<1>5. Program["review"] = b \o Closing
  BY DEF Program, a, Closing
<1> HIDE DEF b
<1>6. \A x \in Elements(b), y \in Elements(Closing) : Stage(x) <= Stage(y)
  BY <1>4, ClosingSteps DEF Stage, GateNames
<1>7. b \o Closing # <<>>
  BY <1>4, ClosingSteps
<1> QED
  BY <1>4, <1>5, <1>6, <1>7, ClosingSteps, Concatenated DEF WellFormed, ProgramSteps, ClosingNames

LEMMA ReviewRefreshProgram ==
    /\ WellFormed(Program["review_refresh"])
    /\ ProgramSteps("review_refresh") =
           {"defaults", "refresh"} \cup CompareNames \cup GateNames \cup ClosingNames
<1> DEFINE a == <<"defaults", "refresh">>
           b == a \o CompareSteps
           c == b \o GateSteps
<1>1. {"defaults", "refresh"} \subseteq StepNames /\ Stage("defaults") <= Stage("refresh")
  BY DEF StepNames, Stage
<1>2. a \in Seq(StepNames) /\ Ordered(a) /\ Elements(a) = {"defaults", "refresh"} /\ a # <<>>
  BY <1>1, Two
<1> HIDE DEF a
<1>3. \A x \in Elements(a), y \in Elements(CompareSteps) : Stage(x) <= Stage(y)
  BY <1>2, Parts DEF Stage
<1>4. /\ b \in Seq(StepNames) /\ Ordered(b) /\ b # <<>>
      /\ Elements(b) = {"defaults", "refresh"} \cup CompareNames
  BY <1>2, <1>3, Parts, Concatenated DEF CompareNames
<1> HIDE DEF b
<1>5. \A x \in Elements(b), y \in Elements(GateSteps) : Stage(x) <= Stage(y)
  BY <1>4, Parts DEF Stage, CompareNames
<1>6. /\ c \in Seq(StepNames) /\ Ordered(c) /\ c # <<>>
      /\ Elements(c) = {"defaults", "refresh"} \cup CompareNames \cup GateNames
  BY <1>4, <1>5, Parts, Concatenated DEF GateNames
<1>7. Program["review_refresh"] = c \o Closing
  BY DEF Program, a, b, Closing
<1> HIDE DEF c
<1>8. \A x \in Elements(c), y \in Elements(Closing) : Stage(x) <= Stage(y)
  BY <1>6, ClosingSteps DEF Stage, GateNames, CompareNames
<1>9. c \o Closing # <<>>
  BY <1>6, ClosingSteps
<1> QED
  BY <1>6, <1>7, <1>8, <1>9, ClosingSteps, Concatenated DEF WellFormed, ProgramSteps, ClosingNames

LEMMA Programs ==
    ASSUME NEW k \in DOMAIN Program
    PROVE  /\ WellFormed(Program[k])
           /\ k \in {"gate", "readiness"} \cup Reviews => GateNames \subseteq ProgramSteps(k)
           /\ k \in {"monitor", "review_refresh"} => CompareNames \subseteq ProgramSteps(k)
           /\ k \in Reviews => ClosingNames \subseteq ProgramSteps(k)
           /\ k = "review" => "monitor_report" \in ProgramSteps(k)
           /\ k \in {"readiness", "validate"} => Head(Program[k]) = "evidence"
           /\ "gate_verdict" \in ProgramSteps(k) => k = "gate"
           /\ "readiness_verdict" \in ProgramSteps(k) => k = "readiness"
           /\ "validation_fill" \in ProgramSteps(k) => k = "validate"
           /\ ProgramSteps(k) \cap {"review_verdict", "payload"} # {} => k \in Reviews
           /\ "monitor_report" \in ProgramSteps(k) => k = "review"
           /\ "monitor_fill" \in ProgramSteps(k) => k \in {"monitor"} \cup Reviews
           /\ ProgramSteps(k) \cap {"kill_on", "kill_off"} # {} => k \in {"trigger", "clear"}
<1>1. k \in {"gate", "readiness", "validate", "monitor", "review", "review_refresh",
             "trigger", "clear"}
  BY DEF Program
<1>2. CASE k = "gate"
  BY <1>2, GateProgram DEF Reviews, GateNames
<1>3. CASE k = "readiness"
  BY <1>3, ReadinessProgram DEF Reviews, GateNames
<1>4. CASE k = "validate"
  BY <1>4, ValidateProgram DEF Reviews
<1>5. CASE k = "monitor"
  BY <1>5, MonitorProgram DEF Reviews, CompareNames
<1>6. CASE k = "review"
  BY <1>6, ReviewProgram DEF Reviews, GateNames, ClosingNames
<1>7. CASE k = "review_refresh"
  BY <1>7, ReviewRefreshProgram DEF Reviews, GateNames, ClosingNames, CompareNames
<1>8. CASE k \in {"trigger", "clear"}
  BY <1>8, SwitchPrograms DEF Reviews
<1> QED
  BY <1>1, <1>2, <1>3, <1>4, <1>5, <1>6, <1>7, <1>8
---------------------------------------------------------------------------
(* One step of a script                                                    *)

ReportNames == {"gate", "monitor", "own"}
FoundType == [gate : SUBSET Statuses, monitor : SUBSET Statuses, own : SUBSET Statuses]

\* A check adds its statuses to one report of its script.
LEMMA Noted ==
    ASSUME TypeInv, NEW p \in Scripts, NEW report \in ReportNames, NEW S \in SUBSET Statuses,
           Note(p, report, S)
    PROVE  /\ found' \in [Scripts -> FoundType]
           /\ \A q \in Scripts \ {p} : found'[q] = found[q]
           /\ found'[p][report] = found[p][report] \cup S
           /\ \A other \in ReportNames \ {report} : found'[p][other] = found[p][other]
<1>1. found \in [Scripts -> FoundType]
  BY DEF TypeInv, GateTypeOK, FoundType
<1>2. found' = [found EXCEPT ![p][report] = @ \cup S]
  BY DEF Note
<1>3. CASE report = "gate"
  BY <1>1, <1>2, <1>3 DEF FoundType, ReportNames
<1>4. CASE report = "monitor"
  BY <1>1, <1>2, <1>4 DEF FoundType, ReportNames
<1>5. CASE report = "own"
  BY <1>1, <1>2, <1>5 DEF FoundType, ReportNames
<1> QED
  BY <1>3, <1>4, <1>5 DEF ReportNames

\* The step at the head is taken, the others stay.
LEMMA Proceeded ==
    ASSUME TypeInv, NEW p \in Scripts, todo[p] # <<>>, Proceed(p)
    PROVE  /\ todo' \in [Scripts -> Seq(StepNames)]
           /\ \A q \in Scripts \ {p} : todo'[q] = todo[q]
           /\ Rest(p)' \subseteq Rest(p) /\ \A step \in Rest(p) : step = Head(todo[p]) \/ step \in Rest(p)'
           /\ Ordered(todo[p]) => Ordered(todo'[p])
<1>1. todo \in [Scripts -> Seq(StepNames)] /\ todo' = [todo EXCEPT ![p] = Tail(@)]
  BY DEF TypeInv, Proceed
<1>2. /\ Tail(todo[p]) \in Seq(StepNames)
      /\ Elements(todo[p]) = {Head(todo[p])} \cup Elements(Tail(todo[p]))
      /\ Ordered(todo[p]) => Ordered(Tail(todo[p]))
  BY <1>1, TailKeeps
<1>3. todo'[p] = Tail(todo[p])
  BY <1>1
<1>4. Rest(p)' = Elements(Tail(todo[p])) /\ Rest(p) = Elements(todo[p])
  BY <1>3 DEF Rest, Elements
<1> QED
  BY <1>1, <1>2, <1>3, <1>4

\* A verdict ends the script.
LEMMA Concluded ==
    ASSUME TypeInv, NEW p \in Scripts, NEW status \in Statuses, Conclude(p, status)
    PROVE  /\ outcome' \in [Scripts -> Statuses \cup {"none"}] /\ outcome'[p] = status
           /\ todo' \in [Scripts -> Seq(StepNames)] /\ todo'[p] = <<>>
           /\ found' \in [Scripts -> FoundType]
           /\ seen' \in [Scripts -> [snapshot : SnapshotType, account : AccountType]]
           /\ \A q \in Scripts \ {p} : /\ outcome'[q] = outcome[q] /\ todo'[q] = todo[q]
                                       /\ found'[q] = found[q] /\ seen'[q] = seen[q]
<1>1. /\ outcome \in [Scripts -> Statuses \cup {"none"}] /\ found \in [Scripts -> FoundType]
      /\ todo \in [Scripts -> Seq(StepNames)]
      /\ seen \in [Scripts -> [snapshot : SnapshotType, account : AccountType]]
  BY DEF TypeInv, GateTypeOK, FoundType
<1>2. /\ outcome' = [outcome EXCEPT ![p] = status] /\ todo' = [todo EXCEPT ![p] = <<>>]
      /\ found' = [found EXCEPT ![p] = Nothing]
      /\ seen' = [seen EXCEPT ![p] = [snapshot |-> NoSnapshot, account |-> NoAccount]]
  BY DEF Conclude, Forget
<1>3. Nothing \in FoundType /\ <<>> \in Seq(StepNames)
  BY DEF Nothing, FoundType
<1>4. [snapshot |-> NoSnapshot, account |-> NoAccount] \in [snapshot : SnapshotType, account : AccountType]
  BY Rows
<1> QED
  BY <1>1, <1>2, <1>3, <1>4

---------------------------------------------------------------------------
(* Types are kept, and a script's step leaves the other scripts alone      *)

WorldType ==
    /\ config \in SUBSET Switches
    /\ killFile \in {"on", "off", "none"}
    /\ validationFile \in Statuses \cup {"none"} /\ monitorFile \in Statuses \cup {"none"}
    /\ evidence \subseteq Evidence /\ hard \in Statuses
    /\ unknown \in BOOLEAN /\ live \in LiveType
    /\ DOMAIN checklist \subseteq Items
    /\ \A i \in DOMAIN checklist : checklist[i] \in ItemStatuses
    /\ approval \in {"none", "approve", "refuse"}
    /\ snapshot \in SnapshotType /\ account \in AccountType /\ target \in RowType
MemoryType ==
    /\ kind \in [Scripts -> DOMAIN Program \cup {"none"}]
    /\ cfg \in [Scripts -> SUBSET Switches]
    /\ found \in [Scripts -> FoundType]
    /\ outcome \in [Scripts -> Statuses \cup {"none"}]
    /\ left \in [Scripts -> SUBSET Evidence]
    /\ lost \subseteq Scripts
    /\ todo \in [Scripts -> Seq(StepNames)]
    /\ seen \in [Scripts -> [snapshot : SnapshotType, account : AccountType]]

LEMMA TypeParts == TypeInv <=> WorldType /\ MemoryType
BY DEF TypeInv, GateTypeOK, WorldType, MemoryType, LiveType, SnapshotType, AccountType, RowType, FoundType
LEMMA TypePartsLater == TypeInv' <=> WorldType' /\ MemoryType'
BY DEF TypeInv, GateTypeOK, WorldType, MemoryType, LiveType, SnapshotType, AccountType, RowType, FoundType

\* A script that takes no step keeps its memory.
Untouched(q) ==
    /\ kind'[q] = kind[q] /\ cfg'[q] = cfg[q] /\ todo'[q] = todo[q] /\ left'[q] = left[q]
    /\ seen'[q] = seen[q] /\ found'[q] = found[q] /\ outcome'[q] = outcome[q]
    /\ q \in lost => q \in lost'
Alone(p) == \A q \in Scripts \ {p} : Untouched(q)

LEMMA StartTypes ==
    ASSUME TypeInv, NEW p \in Scripts, NEW k \in Kinds[p], Start(p, k)
    PROVE  TypeInv' /\ Alone(p)
<1>1. WorldType /\ MemoryType
  BY TypeParts
<1>2. WorldType'
  BY <1>1 DEF WorldType, Start, files, tables, world
<1>3. k \in DOMAIN Program /\ Program[k] \in Seq(StepNames)
  BY KindsAssumption, Programs DEF WellFormed
<1>4. /\ kind' \in [Scripts -> DOMAIN Program \cup {"none"}]
      /\ cfg' \in [Scripts -> SUBSET Switches]
      /\ \A q \in Scripts \ {p} : kind'[q] = kind[q] /\ cfg'[q] = cfg[q]
  BY <1>1, <1>3 DEF WorldType, MemoryType, Start
<1>5. /\ todo' \in [Scripts -> Seq(StepNames)] /\ left' \in [Scripts -> SUBSET Evidence]
      /\ \A q \in Scripts \ {p} : todo'[q] = todo[q] /\ left'[q] = left[q]
  BY <1>1, <1>3 DEF MemoryType, Start
<1>6. /\ found' \in [Scripts -> FoundType]
      /\ \A q \in Scripts \ {p} : found'[q] = found[q]
  <2> DEFINE checks == IF k \in Reviews THEN Audit(config) ELSE {}
  <2>1. checks \in SUBSET Statuses
    BY AuditWords
  <2>2. found' = [found EXCEPT ![p].own = checks]
    BY DEF Start
  <2> HIDE DEF checks
  <2> QED
    BY <1>1, <2>1, <2>2 DEF MemoryType, FoundType
<1>7. MemoryType'
  BY <1>1, <1>4, <1>5, <1>6 DEF MemoryType, Start
<1> QED
  BY <1>2, <1>4, <1>5, <1>6, <1>7, TypePartsLater DEF Alone, Untouched, Start

\* What every check does: it notes statuses and goes on.
LEMMA CheckTypes ==
    ASSUME TypeInv, NEW p \in Scripts, todo[p] # <<>>,
           NEW report \in ReportNames, NEW S \in SUBSET Statuses,
           Note(p, report, S), Proceed(p),
           UNCHANGED <<files, tables, world, kind, cfg, left, outcome>>,
           seen' \in [Scripts -> [snapshot : SnapshotType, account : AccountType]],
           \A q \in Scripts \ {p} : seen'[q] = seen[q],
           lost' \in {lost, lost \cup {p}}
    PROVE  TypeInv' /\ Alone(p)
<1>1. WorldType /\ MemoryType
  BY TypeParts
<1>2. WorldType'
  BY <1>1 DEF WorldType, files, tables, world
<1>3. MemoryType'
  BY <1>1, Noted, Proceeded DEF MemoryType
<1>4. Alone(p)
  BY Noted, Proceeded DEF Alone, Untouched
<1> QED
  BY <1>2, <1>3, <1>4, TypePartsLater

LEMMA GateTypes ==
    ASSUME TypeInv, NEW p \in Scripts, GateReads(p)
    PROVE  TypeInv' /\ Alone(p)
<1>1. WorldType /\ MemoryType
  BY TypeParts
<1> USE DEF At, ReportNames
<1>2. CASE ReadKillSwitch(p)
  <2>1. GateConfigChecks(cfg[p]) \cup {BlockIf(killFile = "on")} \in SUBSET Statuses
    BY ConfigWords, StatusWords
  <2> QED
    BY <1>1, <1>2, <2>1, CheckTypes DEF ReadKillSwitch, MemoryType
<1>3. CASE ReadValidation(p)
  <2>1. {BlockIf(validationFile # Pass)} \in SUBSET Statuses
    BY StatusWords
  <2> QED
    BY <1>1, <1>3, <2>1, CheckTypes DEF ReadValidation, MemoryType
<1>4. CASE ReadCircuit(p)
  <2>1. {hard} \in SUBSET Statuses
    BY <1>1 DEF WorldType
  <2> QED
    BY <1>1, <1>4, <2>1, CheckTypes DEF ReadCircuit, MemoryType
<1>5. CASE ReadCircuitFails(p)
  <2>1. {Warn} \in SUBSET Statuses
    BY StatusWords
  <2> QED
    BY <1>1, <1>5, <2>1, CheckTypes DEF ReadCircuitFails, MemoryType
<1>6. CASE CountUnknown(p)
  <2>1. {BlockIf(unknown)} \in SUBSET Statuses
    BY StatusWords
  <2> QED
    BY <1>1, <1>6, <2>1, CheckTypes DEF CountUnknown, MemoryType
<1>7. CASE CountUnknownFails(p)
  <2>1. {Pass} \in SUBSET Statuses
    BY StatusWords
  <2> QED
    BY <1>1, <1>7, <2>1, CheckTypes DEF CountUnknownFails, MemoryType
<1>8. CASE GateVerdict(p)
  <2>1. Conclude(p, Overall(found[p].gate)) /\ Overall(found[p].gate) \in Statuses
    BY <1>8, StatusWords DEF GateVerdict
  <2>2. WorldType'
    BY <1>1, <1>8 DEF WorldType, GateVerdict, files, tables, world
  <2>3. MemoryType' /\ Alone(p)
    BY <1>1, <1>8, <2>1, Concluded DEF MemoryType, Alone, Untouched, GateVerdict
  <2> QED
    BY <2>2, <2>3, TypePartsLater
<1>9. CASE ReadinessVerdict(p)
  <2> DEFINE status == BlockIf(\/ Overall(found[p].gate) = Blocked
                               \/ Overall(found[p].own) # Pass
                               \/ killFile = "on")
  <2>1. Conclude(p, status) /\ status \in Statuses
    BY <1>9, StatusWords DEF ReadinessVerdict
  <2> HIDE DEF status
  <2>2. WorldType'
    BY <1>1, <1>9 DEF WorldType, ReadinessVerdict, files, tables, world
  <2>3. MemoryType' /\ Alone(p)
    BY <1>1, <1>9, <2>1, Concluded DEF MemoryType, Alone, Untouched, ReadinessVerdict
  <2> QED
    BY <2>2, <2>3, TypePartsLater
<1> QED
  BY <1>2, <1>3, <1>4, <1>5, <1>6, <1>7, <1>8, <1>9 DEF GateReads

LEMMA EvidenceTypes ==
    ASSUME TypeInv, NEW p \in Scripts, NEW e \in Evidence, LookAtEvidence(p, e)
    PROVE  TypeInv' /\ Alone(p)
<1>1. WorldType /\ MemoryType
  BY TypeParts
<1>2. WorldType'
  BY <1>1 DEF WorldType, LookAtEvidence, files, tables, world
<1>3. /\ Note(p, "own", {BlockIf(e \notin evidence)})
      /\ {BlockIf(e \notin evidence)} \in SUBSET Statuses /\ "own" \in ReportNames
  BY StatusWords DEF LookAtEvidence, ReportNames
<1>4. found' \in [Scripts -> FoundType] /\ \A q \in Scripts \ {p} : found'[q] = found[q]
  BY <1>3, Noted
<1>5. todo' \in [Scripts -> Seq(StepNames)] /\ \A q \in Scripts \ {p} : todo'[q] = todo[q]
  <2>1. CASE UNCHANGED todo
    BY <1>1, <2>1 DEF MemoryType
  <2>2. CASE Proceed(p)
    BY <2>2, Proceeded DEF LookAtEvidence, At
  <2> QED
    BY <2>1, <2>2 DEF LookAtEvidence
<1>6. left' \in [Scripts -> SUBSET Evidence] /\ \A q \in Scripts \ {p} : left'[q] = left[q]
  BY <1>1 DEF LookAtEvidence, MemoryType
<1>7. MemoryType' /\ Alone(p)
  BY <1>1, <1>4, <1>5, <1>6 DEF MemoryType, Alone, Untouched, LookAtEvidence
<1> QED
  BY <1>2, <1>7, TypePartsLater

\* What every step does that writes a file or a table and goes on.
LEMMA WriteTypes ==
    ASSUME TypeInv, NEW p \in Scripts, todo[p] # <<>>, Proceed(p), WorldType',
           UNCHANGED <<kind, cfg, left, found, outcome, lost>>,
           seen' \in [Scripts -> [snapshot : SnapshotType, account : AccountType]],
           \A q \in Scripts \ {p} : seen'[q] = seen[q]
    PROVE  TypeInv' /\ Alone(p)
<1>1. MemoryType
  BY TypeParts
<1>2. MemoryType'
  BY <1>1, Proceeded DEF MemoryType
<1>3. Alone(p)
  BY Proceeded DEF Alone, Untouched
<1> QED
  BY <1>2, <1>3, TypePartsLater

\* What every step does that writes a report and is its script's last.
LEMMA EndTypes ==
    ASSUME TypeInv, NEW p \in Scripts, NEW status \in Statuses, Conclude(p, status),
           WorldType', UNCHANGED <<kind, cfg, left, lost>>
    PROVE  TypeInv' /\ Alone(p)
<1>1. MemoryType
  BY TypeParts
<1>2. MemoryType' /\ Alone(p)
  BY <1>1, Concluded DEF MemoryType, Alone, Untouched
<1> QED
  BY <1>2, TypePartsLater

LEMMA ValidationTypes ==
    ASSUME TypeInv, NEW p \in Scripts, ValidationStep(p)
    PROVE  TypeInv' /\ Alone(p)
<1>1. WorldType /\ MemoryType
  BY TypeParts
<1>2. CASE \E e \in Evidence : LookAtEvidence(p, e)
  BY <1>2, EvidenceTypes
<1>3. CASE ValidationVerdict(p)
  <2>1. WorldType'
    BY <1>1, <1>3 DEF WorldType, ValidationVerdict, tables, world
  <2>2. todo[p] # <<>> /\ Proceed(p)
    BY <1>3 DEF ValidationVerdict, At
  <2> QED
    BY <1>1, <1>3, <2>1, <2>2, WriteTypes DEF ValidationVerdict, MemoryType
<1>4. CASE ValidationFill(p)
  <2>1. Overall(found[p].own) \in Statuses
    BY StatusWords
  <2>2. WorldType'
    BY <1>1, <1>4, <2>1 DEF WorldType, ValidationFill, tables, world
  <2> QED
    BY <1>4, <2>1, <2>2, EndTypes DEF ValidationFill
<1> QED
  BY <1>2, <1>3, <1>4 DEF ValidationStep

\* The memory of what was read of the snapshot and the account.
LEMMA Forgotten ==
    ASSUME TypeInv, NEW p \in Scripts, Forget(p)
    PROVE  /\ seen' \in [Scripts -> [snapshot : SnapshotType, account : AccountType]]
           /\ \A q \in Scripts \ {p} : seen'[q] = seen[q]
<1>1. seen \in [Scripts -> [snapshot : SnapshotType, account : AccountType]]
  BY DEF TypeInv
<1>2. [snapshot |-> NoSnapshot, account |-> NoAccount] \in [snapshot : SnapshotType, account : AccountType]
  BY Rows
<1> QED
  BY <1>1, <1>2 DEF Forget

LEMMA ReadingTypes ==
    ASSUME TypeInv, NEW p \in Scripts, OfflineLook(p) \/ CompareSnapshot(p) \/ CompareAccount(p) \/ CompareTarget(p)
    PROVE  TypeInv' /\ Alone(p)
<1>1. WorldType /\ MemoryType
  BY TypeParts
<1>2. CASE OfflineLook(p)
  <2>1. WorldType'
    BY <1>1, <1>2 DEF WorldType, OfflineLook, files, tables, world
  <2>2. /\ todo[p] \in Seq(StepNames) /\ todo[p] # <<>> /\ "offline_append" \in StepNames
        /\ todo \in [Scripts -> Seq(StepNames)]
    BY <1>1, <1>2 DEF MemoryType, OfflineLook, At, StepNames
  <2>3. Tail(todo[p]) \in Seq(StepNames) /\ <<"offline_append">> \in Seq(StepNames)
    BY <2>2, TailKeeps, One
  <2>4. <<"offline_append">> \o Tail(todo[p]) \in Seq(StepNames)
    BY <2>3, Concatenated
  <2>5. todo' \in [Scripts -> Seq(StepNames)] /\ \A q \in Scripts \ {p} : todo'[q] = todo[q]
    <3>1. PICK then \in Seq(StepNames) : todo' = [todo EXCEPT ![p] = then]
      BY <1>2, <2>3, <2>4 DEF OfflineLook, Proceed
    <3> QED
      BY <2>2, <3>1
  <2>6. MemoryType' /\ Alone(p)
    BY <1>1, <1>2, <2>5 DEF MemoryType, Alone, Untouched, OfflineLook
  <2> QED
    BY <2>1, <2>6, TypePartsLater
<1>3. CASE CompareSnapshot(p)
  <2> DEFINE S == {BlockIf(snapshot.source = "none"), WarnIf(snapshot.age = "stale"),
                   WarnIf(snapshot.orders /\ snapshot.qty = 0)}
  <2>1. S \in SUBSET Statuses
    BY StatusWords
  <2>2. todo[p] # <<>> /\ Proceed(p) /\ Note(p, "monitor", S) /\ "monitor" \in ReportNames
    BY <1>3 DEF CompareSnapshot, At, ReportNames
  <2> HIDE DEF S
  <2>3. /\ seen' \in [Scripts -> [snapshot : SnapshotType, account : AccountType]]
        /\ \A q \in Scripts \ {p} : seen'[q] = seen[q]
    BY <1>1, <1>3 DEF WorldType, MemoryType, CompareSnapshot
  <2> QED
    BY <1>3, <2>1, <2>2, <2>3, CheckTypes DEF CompareSnapshot
<1>4. CASE CompareAccount(p)
  <2> DEFINE drift == \/ seen[p].snapshot.qty # account.qty
                      \/ account.equity # 0 /\ seen[p].snapshot.equity # account.equity
             S == {BlockIf(account.age = "absent"), WarnIf(account.age = "stale"),
                   WarnIf(/\ seen[p].snapshot.source # "none"
                          /\ account.age # "absent" /\ drift)}
  <2>1. S \in SUBSET Statuses
    BY StatusWords
  <2>2. todo[p] # <<>> /\ Proceed(p) /\ Note(p, "monitor", S) /\ "monitor" \in ReportNames
    BY <1>4 DEF CompareAccount, At, ReportNames
  <2> HIDE DEF S
  <2>3. /\ seen' \in [Scripts -> [snapshot : SnapshotType, account : AccountType]]
        /\ \A q \in Scripts \ {p} : seen'[q] = seen[q]
    BY <1>1, <1>4 DEF WorldType, MemoryType, CompareAccount
  <2> QED
    BY <1>4, <2>1, <2>2, <2>3, CheckTypes DEF CompareAccount
<1>5. CASE CompareTarget(p)
  <2> DEFINE S == {WarnIf(target.age # "fresh"),
                   WarnIf(/\ target.age # "absent"
                          /\ {seen[p].snapshot.qty, seen[p].account.qty} # {target.qty})}
  <2>1. S \in SUBSET Statuses
    BY StatusWords
  <2>2. todo[p] # <<>> /\ Proceed(p) /\ Note(p, "monitor", S) /\ "monitor" \in ReportNames
    BY <1>5 DEF CompareTarget, At, ReportNames
  <2> HIDE DEF S
  <2> QED
    BY <1>1, <1>5, <2>1, <2>2, CheckTypes DEF CompareTarget, MemoryType
<1> QED
  BY <1>2, <1>3, <1>4, <1>5

LEMMA MonitorTypes ==
    ASSUME TypeInv, NEW p \in Scripts, MonitorStep(p)
    PROVE  TypeInv' /\ Alone(p)
<1>1. WorldType /\ MemoryType
  BY TypeParts
<1>2. CASE Fetch(p)
  <2>1. WorldType'
    BY <1>1, <1>2, Rows DEF WorldType, Fetch, files, world
  <2> QED
    BY <1>1, <1>2, <2>1, WriteTypes DEF Fetch, MemoryType, At
<1>3. CASE OfflineAppend(p)
  <2>1. WorldType'
    BY <1>1, <1>3, Rows DEF WorldType, OfflineAppend, files, world
  <2> QED
    BY <1>1, <1>3, <2>1, WriteTypes DEF OfflineAppend, MemoryType, At
<1>4. CASE MonitorVerdict(p)
  <2>1. WorldType'
    BY <1>1, <1>4 DEF WorldType, MonitorVerdict, tables, world
  <2> QED
    BY <1>1, <1>4, <2>1, WriteTypes, Forgotten DEF MonitorVerdict, At
<1>5. CASE MonitorFill(p)
  <2> DEFINE status == Overall(found[p].monitor)
  <2>1. status \in Statuses
    BY StatusWords
  <2>2. WorldType'
    BY <1>1, <1>5, <2>1 DEF WorldType, MonitorFill, tables, world
  <2>3. CASE kind[p] \in Reviews
    <3>1. /\ found' = [found EXCEPT ![p].own = @ \cup {status}, ![p].monitor = {}]
          /\ Proceed(p) /\ todo[p] # <<>> /\ UNCHANGED <<kind, cfg, left, lost, seen, outcome>>
      BY <1>5, <2>3 DEF MonitorFill, At
    <3> HIDE DEF status
    <3>2. /\ found' \in [Scripts -> FoundType]
          /\ \A q \in Scripts \ {p} : found'[q] = found[q]
      BY <1>1, <2>1, <3>1 DEF MemoryType, FoundType
    <3>3. MemoryType' /\ Alone(p)
      BY <1>1, <3>1, <3>2, Proceeded DEF MemoryType, Alone, Untouched
    <3> QED
      BY <2>2, <3>3, TypePartsLater
  <2>4. CASE kind[p] \notin Reviews
    BY <1>5, <2>1, <2>2, <2>4, EndTypes DEF MonitorFill
  <2> QED
    BY <2>3, <2>4
<1> QED
  BY <1>2, <1>3, <1>4, <1>5, ReadingTypes DEF MonitorStep

LEMMA DefaultRows ==
    ASSUME WorldType
    PROVE  /\ DOMAIN WithDefaults(checklist) = Items
           /\ \A i \in Items : WithDefaults(checklist)[i] \in ItemStatuses
BY DEF WithDefaults, WorldType, ItemStatuses

LEMMA ReviewTypes ==
    ASSUME TypeInv, NEW p \in Scripts, ReviewStep(p)
    PROVE  TypeInv' /\ Alone(p)
<1>1. WorldType /\ MemoryType
  BY TypeParts
<1>2. CASE AddDefaults(p)
  <2>1. WorldType'
    BY <1>1, <1>2, DefaultRows DEF WorldType, AddDefaults, files, world
  <2> QED
    BY <1>1, <1>2, <2>1, WriteTypes DEF AddDefaults, MemoryType, At
<1>3. CASE ReadMonitorReport(p)
  <2>1. WorldType' /\ todo[p] \in Seq(StepNames) /\ todo[p] # <<>>
    BY <1>1, <1>3 DEF WorldType, MemoryType, ReadMonitorReport, files, tables, world, At
  <2>2. CASE monitorFile = "none"
    <3> DEFINE then == <<"refresh">> \o CompareSteps \o Tail(todo[p])
    <3>1. todo' = [todo EXCEPT ![p] = then] /\ UNCHANGED <<kind, cfg, left, seen, found, outcome, lost>>
      BY <1>3, <2>2 DEF ReadMonitorReport
    <3>2. then \in Seq(StepNames)
      <4>1. "refresh" \in StepNames
        BY DEF StepNames
      <4>2. <<"refresh">> \in Seq(StepNames) /\ Tail(todo[p]) \in Seq(StepNames)
        BY <2>1, <4>1, One, TailKeeps
      <4>3. <<"refresh">> \o CompareSteps \in Seq(StepNames)
        BY <4>2, Parts, Concatenated
      <4> QED
        BY <4>2, <4>3, Concatenated
    <3> HIDE DEF then
    <3>3. todo' \in [Scripts -> Seq(StepNames)] /\ \A q \in Scripts \ {p} : todo'[q] = todo[q]
      BY <1>1, <3>1, <3>2 DEF MemoryType
    <3>4. MemoryType' /\ Alone(p)
      BY <1>1, <3>1, <3>3 DEF MemoryType, Alone, Untouched
    <3> QED
      BY <2>1, <3>4, TypePartsLater
  <2>3. CASE monitorFile # "none"
    <3>1. {monitorFile} \in SUBSET Statuses /\ "own" \in ReportNames
      BY <1>1, <2>3 DEF WorldType, ReportNames
    <3> QED
      BY <1>1, <1>3, <2>1, <2>3, <3>1, CheckTypes DEF ReadMonitorReport, MemoryType
  <2> QED
    BY <2>2, <2>3
<1>4. CASE ReadPayload(p)
  <2> DEFINE gate == WarnIf(Overall(found[p].gate) = Warn)
  <2>1. gate \in Statuses
    BY StatusWords
  <2>2. WorldType' /\ todo[p] # <<>> /\ UNCHANGED <<kind, cfg, seen, outcome, lost>>
    BY <1>1, <1>4 DEF WorldType, ReadPayload, files, tables, world, At
  <2>3. CASE validationFile = "none"
    <3>1. /\ found' = [found EXCEPT ![p].own = @ \cup {gate}, ![p].gate = {}]
          /\ left' = [left EXCEPT ![p] = Evidence] /\ todo' = todo
      BY <1>4, <2>3 DEF ReadPayload
    <3> HIDE DEF gate
    <3>2. found' \in [Scripts -> FoundType] /\ \A q \in Scripts \ {p} : found'[q] = found[q]
      BY <1>1, <2>1, <3>1 DEF MemoryType, FoundType
    <3>3. left' \in [Scripts -> SUBSET Evidence] /\ \A q \in Scripts \ {p} : left'[q] = left[q]
      BY <1>1, <3>1 DEF MemoryType
    <3>4. MemoryType' /\ Alone(p)
      BY <1>1, <2>2, <3>1, <3>2, <3>3 DEF MemoryType, Alone, Untouched
    <3> QED
      BY <2>2, <3>4, TypePartsLater
  <2>4. CASE validationFile # "none"
    <3>1. /\ found' = [found EXCEPT ![p].own = @ \cup {gate, validationFile}, ![p].gate = {}]
          /\ Proceed(p) /\ left' = left /\ validationFile \in Statuses
      BY <1>1, <1>4, <2>4 DEF ReadPayload, WorldType
    <3> HIDE DEF gate
    <3>2. found' \in [Scripts -> FoundType] /\ \A q \in Scripts \ {p} : found'[q] = found[q]
      BY <1>1, <2>1, <3>1 DEF MemoryType, FoundType
    <3>3. MemoryType' /\ Alone(p)
      BY <1>1, <2>2, <3>1, <3>2, Proceeded DEF MemoryType, Alone, Untouched
    <3> QED
      BY <2>2, <3>3, TypePartsLater
  <2> QED
    BY <2>3, <2>4
<1>5. CASE LoadChecklist(p)
  <2> DEFINE S == {BlockIf(\E i \in DOMAIN checklist : checklist[i] \notin Accepted)}
  <2>1. S \in SUBSET Statuses
    BY StatusWords
  <2>2. todo[p] # <<>> /\ Proceed(p) /\ Note(p, "own", S) /\ "own" \in ReportNames
    BY <1>5 DEF LoadChecklist, At, ReportNames
  <2> HIDE DEF S
  <2> QED
    BY <1>1, <1>5, <2>1, <2>2, CheckTypes DEF LoadChecklist, MemoryType
<1>6. CASE LatestApproval(p)
  <2>1. {BlockIf(approval # "approve")} \in SUBSET Statuses
    BY StatusWords
  <2> QED
    BY <1>1, <1>6, <2>1, CheckTypes DEF LatestApproval, MemoryType, At, ReportNames
<1>7. CASE ReviewVerdict(p)
  <2>1. WorldType' /\ Overall(found[p].own) \in Statuses
    BY <1>1, <1>7, StatusWords DEF WorldType, ReviewVerdict, files, tables, world
  <2> QED
    BY <1>7, <2>1, EndTypes DEF ReviewVerdict
<1> QED
  BY <1>2, <1>3, <1>4, <1>5, <1>6, <1>7 DEF ReviewStep

LEMMA SwitchTypes ==
    ASSUME TypeInv, NEW p \in Scripts, KillSwitchTruncate(p) \/ KillSwitchFill(p)
    PROVE  TypeInv' /\ Alone(p)
<1>1. WorldType /\ MemoryType
  BY TypeParts
<1>2. CASE KillSwitchTruncate(p)
  <2>1. WorldType'
    BY <1>1, <1>2 DEF WorldType, KillSwitchTruncate, tables, world
  <2> QED
    BY <1>1, <1>2, <2>1, WriteTypes DEF KillSwitchTruncate, MemoryType, At
<1>3. CASE KillSwitchFill(p)
  <2> DEFINE status == BlockIf(At(p, "kill_on"))
  <2>1. status \in Statuses
    BY StatusWords
  <2>2. WorldType'
    BY <1>1, <1>3 DEF WorldType, KillSwitchFill, tables, world
  <2>3. Conclude(p, status) /\ UNCHANGED <<kind, cfg, left, lost>>
    BY <1>3 DEF KillSwitchFill
  <2> HIDE DEF status
  <2> QED
    BY <2>1, <2>2, <2>3, EndTypes
<1> QED
  BY <1>2, <1>3

LEMMA ScriptTypes ==
    ASSUME TypeInv, NEW p \in Scripts, ScriptStep(p)
    PROVE  TypeInv' /\ Alone(p)
BY StartTypes, GateTypes, ValidationTypes, MonitorTypes, ReviewTypes, SwitchTypes DEF ScriptStep

\* Changes beside the scripts leave the memory of all of them alone.
LEMMA OutsideTypes ==
    ASSUME TypeInv, OutsideStep
    PROVE  TypeInv' /\ \A q \in Scripts : Untouched(q)
<1>1. WorldType /\ MemoryType
  BY TypeParts
<1> USE DEF files, tables, world, WorldType
<1>2. CASE \E c \in Configs : EditConfig(c)
  <2>1. Quiet /\ WorldType'
    BY <1>1, <1>2, ConfigsAssumption DEF EditConfig, Quiet
  <2> QED
    BY <1>1, <2>1, TypePartsLater DEF Quiet, memory, MemoryType, Untouched
<1>3. CASE \E q, t \in Quantities, e \in Equities, h \in {Pass, Blocked} : PaperStep(q, e, t, h)
  <2>1. PICK q \in Quantities, t \in Quantities, e \in Equities, h \in {Pass, Blocked} :
                 PaperStep(q, e, t, h)
    BY <1>3
  <2>2. h \in Statuses /\ account' \in AccountType /\ target' \in RowType
    BY <2>1, StatusWords DEF PaperStep, AccountType, RowType, Ages
  <2>3. Quiet /\ WorldType'
    BY <1>1, <2>1, <2>2 DEF PaperStep, Quiet
  <2> QED
    BY <1>1, <2>3, TypePartsLater DEF Quiet, memory, MemoryType, Untouched
<1>4. CASE Elsewhere
  <2>1. live' \in LiveType /\ unknown' \in BOOLEAN /\ evidence' \subseteq Evidence
    <3>1. ASSUME NEW q \in Quantities, NEW e \in Equities,
                 live' = [live EXCEPT !.qty = q, !.equity = e], UNCHANGED <<unknown, evidence>>
          PROVE  live' \in LiveType /\ unknown' \in BOOLEAN /\ evidence' \subseteq Evidence
      BY <1>1, <3>1 DEF LiveType
    <3>a. CASE live' = [live EXCEPT !.orders = ~ @] /\ UNCHANGED <<unknown, evidence>>
      <4>1. (~ live.orders) \in BOOLEAN
        OBVIOUS
      <4>2. live' \in LiveType
        BY <1>1, <3>a, <4>1 DEF LiveType
      <4> QED
        BY <1>1, <3>a, <4>2
    <3>2. CASE unknown' = ~ unknown /\ UNCHANGED <<live, evidence>>
      BY <1>1, <3>2
    <3>3. CASE /\ \E e \in Evidence :
                    evidence' = IF e \in evidence THEN evidence \ {e} ELSE evidence \cup {e}
               /\ UNCHANGED <<live, unknown>>
      BY <1>1, <3>3
    <3> QED
      BY <1>4, <3>1, <3>a, <3>2, <3>3 DEF Elsewhere
  <2>2. Quiet /\ WorldType'
    BY <1>1, <1>4, <2>1 DEF Elsewhere, Quiet
  <2> QED
    BY <1>1, <2>2, TypePartsLater DEF Quiet, memory, MemoryType, Untouched
<1>5. CASE GrowOld
  <2>1. Quiet /\ WorldType'
    BY <1>1, <1>5, Rows DEF GrowOld, Quiet
  <2> QED
    BY <1>1, <2>1, TypePartsLater DEF Quiet, memory, MemoryType, Untouched
<1>6. CASE ResetChecklist
  <2>1. Quiet /\ WorldType'
    BY <1>1, <1>6 DEF ResetChecklist, Quiet, ItemStatuses
  <2> QED
    BY <1>1, <2>1, TypePartsLater DEF Quiet, memory, MemoryType, Untouched
<1>7. CASE ReadonlyCheck
  <2>1. snapshot' \in SnapshotType
    BY <1>1, <1>7, Rows DEF ReadonlyCheck
  <2>2. Quiet /\ WorldType'
    BY <1>1, <1>7, <2>1 DEF ReadonlyCheck, Quiet
  <2> QED
    BY <1>1, <2>2, TypePartsLater DEF Quiet, memory, MemoryType, Untouched
<1>8. CASE \E i \in Items, s \in Marks : MarkItem(i, s)
  <2>1. PICK i \in Items, s \in Marks : MarkItem(i, s)
    BY <1>8
  <2>2. checklist' = [WithDefaults(checklist) EXCEPT ![i] = s]
    BY <2>1 DEF MarkItem
  <2>3. /\ DOMAIN checklist' = Items
        /\ \A n \in Items : checklist'[n] \in ItemStatuses
    BY <1>1, <2>2, DefaultRows, MarksAssumption
  <2>4. Quiet /\ WorldType'
    BY <1>1, <2>1, <2>3 DEF MarkItem, Quiet
  <2> QED
    BY <1>1, <2>4, TypePartsLater DEF Quiet, memory, MemoryType, Untouched
<1>9. CASE \E d \in {"approve", "refuse"} : Decide(d)
  <2>1. Quiet /\ WorldType'
    BY <1>1, <1>9 DEF Decide, Quiet
  <2> QED
    BY <1>1, <2>1, TypePartsLater DEF Quiet, memory, MemoryType, Untouched
<1> QED
  BY <1>2, <1>3, <1>4, <1>5, <1>6, <1>7, <1>8, <1>9 DEF OutsideStep

LEMMA InitTypes == GateInit => TypeInv
<1> SUFFICES ASSUME GateInit PROVE TypeInv
  OBVIOUS
<1>1. PICK ready \in BOOLEAN, held \in Holdings :
        /\ live = [Flat EXCEPT !.qty = held.live]
        /\ hard = IF ready THEN Pass ELSE Warn
        /\ validationFile = IF ready THEN Pass ELSE "none"
        /\ evidence = IF ready THEN Evidence ELSE {}
        /\ checklist = [i \in IF ready THEN Items ELSE {} |-> "approved"]
        /\ approval = IF ready THEN "approve" ELSE "none"
        /\ snapshot = IF ready THEN Snapshot("private", [Flat EXCEPT !.qty = held.snapshot])
                      ELSE NoSnapshot
        /\ account = IF ready THEN [qty |-> held.account, equity |-> InitialEquity, age |-> "fresh"]
                     ELSE NoAccount
        /\ target = IF ready THEN [qty |-> held.target, age |-> "fresh"] ELSE NoRow
  BY DEF GateInit
<1>2. snapshot \in SnapshotType /\ account \in AccountType /\ target \in RowType /\ live \in LiveType
  <2>1. /\ {held.live, held.snapshot, held.account, held.target} \subseteq Quantities
        /\ InitialEquity \in Equities
    BY QuantitiesAssumption
  <2>2. [Flat EXCEPT !.qty = held.live] \in LiveType /\ [Flat EXCEPT !.qty = held.snapshot] \in LiveType
    BY <2>1, Rows
  <2>3. /\ [qty |-> held.account, equity |-> InitialEquity, age |-> "fresh"] \in AccountType
        /\ [qty |-> held.target, age |-> "fresh"] \in RowType
    BY <2>1 DEF AccountType, RowType, Ages
  <2> QED
    BY <1>1, <2>2, <2>3, Rows
<1>3. /\ DOMAIN checklist \subseteq Items
      /\ \A i \in DOMAIN checklist : checklist[i] \in ItemStatuses
  BY <1>1 DEF ItemStatuses, Accepted
<1>4. WorldType
  BY <1>1, <1>2, <1>3, ConfigsAssumption, StatusWords, Rows DEF GateInit, WorldType
<1>5. Nothing \in FoundType /\ <<>> \in Seq(StepNames)
  BY DEF Nothing, FoundType
<1>6. [snapshot |-> NoSnapshot, account |-> NoAccount] \in [snapshot : SnapshotType, account : AccountType]
  BY Rows
<1>7. MemoryType
  BY <1>5, <1>6 DEF GateInit, MemoryType
<1> QED
  BY <1>4, <1>7, TypeParts

LEMMA NextTypes == TypeInv /\ [GateNext]_vars => TypeInv'
<1> SUFFICES ASSUME TypeInv, [GateNext]_vars PROVE TypeInv'
  OBVIOUS
<1>1. CASE UNCHANGED vars
  BY <1>1 DEF vars, files, tables, world, memory, TypeInv, GateTypeOK
<1> QED
  BY <1>1, ScriptTypes, OutsideTypes DEF GateNext

\* Type correctness of the scripts, of what they read and of what they keep.
THEOREM GateTypeCorrect == GateSpec => []GateTypeOK
<1>1. TypeInv => GateTypeOK
  BY DEF TypeInv
<1> QED
  BY <1>1, InitTypes, NextTypes, PTL DEF GateSpec

---------------------------------------------------------------------------
(* What the concerns of a script say                                       *)

LEMMA ConcernsOfKind ==
    ASSUME NEW p \in Scripts
    PROVE  /\ kind[p] = "gate" =>
                Concerns(p) = GateConcerns(p) \cup Flag("no_curve", hard = Warn)
           /\ kind[p] = "readiness" =>
                Concerns(p) = GateConcerns(p) \cup Each("evidence", Evidence \ evidence)
           /\ kind[p] = "validate" => Concerns(p) = Each("evidence", Evidence \ evidence)
           /\ kind[p] = "monitor" => Concerns(p) = MonitorConcerns
           /\ kind[p] \in Reviews => Concerns(p) = ReviewConcerns(p)
           /\ kind[p] \in {"none", "trigger", "clear"} => Concerns(p) = {}
<1>1. ASSUME kind[p] = "gate"
      PROVE  Concerns(p) = GateConcerns(p) \cup Flag("no_curve", hard = Warn)
  <2>1. kind[p] # "readiness" /\ kind[p] # "validate" /\ kind[p] # "monitor" /\ kind[p] \notin Reviews
    BY <1>1 DEF Reviews
  <2> QED
    BY <1>1, <2>1, Zenon DEF Concerns
<1>2. ASSUME kind[p] = "readiness"
      PROVE  Concerns(p) = GateConcerns(p) \cup Each("evidence", Evidence \ evidence)
  <2>1. kind[p] # "gate" /\ kind[p] # "validate" /\ kind[p] # "monitor" /\ kind[p] \notin Reviews
    BY <1>2 DEF Reviews
  <2> QED
    BY <1>2, <2>1, Zenon DEF Concerns
<1>3. ASSUME kind[p] = "validate"
      PROVE  Concerns(p) = Each("evidence", Evidence \ evidence)
  <2>1. kind[p] # "gate" /\ kind[p] # "readiness" /\ kind[p] # "monitor" /\ kind[p] \notin Reviews
    BY <1>3 DEF Reviews
  <2> QED
    BY <1>3, <2>1, Zenon DEF Concerns
<1>4. ASSUME kind[p] = "monitor" PROVE Concerns(p) = MonitorConcerns
  <2>1. kind[p] # "gate" /\ kind[p] # "readiness" /\ kind[p] # "validate" /\ kind[p] \notin Reviews
    BY <1>4 DEF Reviews
  <2> QED
    BY <1>4, <2>1, Zenon DEF Concerns
<1>5. ASSUME kind[p] \in Reviews PROVE Concerns(p) = ReviewConcerns(p)
  <2>1. kind[p] # "gate" /\ kind[p] # "readiness" /\ kind[p] # "validate" /\ kind[p] # "monitor"
    BY <1>5 DEF Reviews
  <2> QED
    BY <1>5, <2>1, Zenon DEF Concerns
<1>6. ASSUME kind[p] \in {"none", "trigger", "clear"} PROVE Concerns(p) = {}
  <2>1. /\ kind[p] # "gate" /\ kind[p] # "readiness" /\ kind[p] # "validate"
        /\ kind[p] # "monitor" /\ kind[p] \notin Reviews
    BY <1>6 DEF Reviews
  <2> QED
    BY <2>1, Zenon DEF Concerns
<1> QED
  BY <1>1, <1>2, <1>3, <1>4, <1>5, <1>6

\* The concerns a gate or a readiness report has remembered, said of the files
\* and tables they are about.
GateTold(p) ==
    steady[p] \subseteq Concerns(p) /\ kind[p] \in {"gate", "readiness"} =>
        /\ Names(p, "off") => ~ (LaunchSwitches \cup {"leverage_capped"} \subseteq cfg[p])
        /\ Has(p, "kill_switch") => killFile = "on"
        /\ Has(p, "validation") => validationFile # Pass
        /\ Has(p, "hard_circuit") => hard = Blocked /\ p \notin lost
        /\ Has(p, "unknown_order") => unknown /\ p \notin lost
        /\ Has(p, "no_curve") => hard = Warn
        /\ \A c \in steady[p] :
               \/ c[1] = "off"
               \/ c \in {<<"state", n>> : n \in {"kill_switch", "validation", "hard_circuit",
                                                 "unknown_order"}}
               \/ c = <<"state", "no_curve">> /\ kind[p] = "gate"
               \/ kind[p] = "readiness" /\ \E e \in Evidence \ evidence : c = <<"evidence", e>>
        /\ \A e : <<"evidence", e>> \in steady[p] => e \in Evidence \ evidence

LEMMA GateTells == \A p \in Scripts : GateTold(p)
<1> SUFFICES ASSUME NEW p \in Scripts, steady[p] \subseteq Concerns(p),
                    kind[p] \in {"gate", "readiness"}
             PROVE  GateTold(p)
  BY DEF GateTold
<1>1. Concerns(p) \subseteq GateConcerns(p) \cup Flag("no_curve", hard = Warn)
                            \cup Each("evidence", Evidence \ evidence)
  BY ConcernsOfKind
<1>2. \A c \in steady[p] :
        \/ \E n \in (LaunchSwitches \cup {"leverage_capped"}) \ cfg[p] : c = <<"off", n>>
        \/ c = <<"state", "kill_switch">> /\ killFile = "on"
        \/ c = <<"state", "validation">> /\ validationFile # Pass
        \/ c = <<"state", "hard_circuit">> /\ hard = Blocked /\ p \notin lost
        \/ c = <<"state", "unknown_order">> /\ unknown /\ p \notin lost
        \/ c = <<"state", "no_curve">> /\ hard = Warn
        \/ \E e \in Evidence \ evidence : c = <<"evidence", e>>
  BY <1>1 DEF GateConcerns, Flag, Each
<1>3. \A c \in steady[p] : c = <<"state", "no_curve">> => kind[p] = "gate"
  BY ConcernsOfKind DEF GateConcerns, Flag, Each
<1>4. \A c \in steady[p] : c[1] = "evidence" => kind[p] = "readiness"
  BY ConcernsOfKind DEF GateConcerns, Flag, Each
<1>5. Names(p, "off") => ~ (LaunchSwitches \cup {"leverage_capped"} \subseteq cfg[p])
  BY <1>2 DEF Names
<1>6. /\ Has(p, "kill_switch") => killFile = "on"
      /\ Has(p, "validation") => validationFile # Pass
      /\ Has(p, "hard_circuit") => hard = Blocked /\ p \notin lost
      /\ Has(p, "unknown_order") => unknown /\ p \notin lost
      /\ Has(p, "no_curve") => hard = Warn
  BY <1>2 DEF Has
<1>7. \A c \in steady[p] :
               \/ c[1] = "off"
               \/ c \in {<<"state", n>> : n \in {"kill_switch", "validation", "hard_circuit",
                                                 "unknown_order"}}
               \/ c = <<"state", "no_curve">> /\ kind[p] = "gate"
               \/ kind[p] = "readiness" /\ \E e \in Evidence \ evidence : c = <<"evidence", e>>
  BY <1>2, <1>3, <1>4
<1>8. \A e : <<"evidence", e>> \in steady[p] => e \in Evidence \ evidence
  BY <1>2
<1> QED
  BY <1>5, <1>6, <1>7, <1>8 DEF GateTold

LEMMA GateTellsLater == (\A p \in Scripts : GateTold(p))'
BY GateTells, PTL

EvidenceTold(p) ==
    steady[p] \subseteq Concerns(p) /\ kind[p] = "validate" =>
        \A c \in steady[p] : \E e \in Evidence \ evidence : c = <<"evidence", e>>

LEMMA EvidenceTells == \A p \in Scripts : EvidenceTold(p)
BY ConcernsOfKind DEF EvidenceTold, Each

LEMMA EvidenceTellsLater == (\A p \in Scripts : EvidenceTold(p))'
BY EvidenceTells, PTL

\* The same of a monitor, and of a review that runs one.
MonitorNames == {"snapshot", "account", "target", "orders"}
GapNames == {"drift", "equity", "exposure", "paper_exposure"}
GapTold(c) ==
    /\ c[1] = "drift" => c[2] = snapshot.qty /\ snapshot.qty # account.qty
    /\ c[1] = "equity" => /\ c[2] = snapshot.equity /\ account.equity # 0
                          /\ snapshot.equity # account.equity
    /\ c[1] = "exposure" => /\ c[2] = snapshot.qty /\ snapshot.qty # target.qty
                            /\ target.age # "absent"
    /\ c[1] = "paper_exposure" => /\ c[2] = account.qty /\ account.qty # target.qty
                                  /\ target.age # "absent"
MonitorTold(p) ==
    steady[p] \subseteq Concerns(p) /\ kind[p] \in {"monitor", "review_refresh"} =>
        /\ Has(p, "snapshot") => snapshot.age # "fresh"
        /\ Has(p, "account") => account.age # "fresh"
        /\ Has(p, "target") => target.age # "fresh"
        /\ Has(p, "orders") => snapshot.orders /\ snapshot.qty = 0
        /\ \A c \in steady[p] : GapTold(c)
        /\ kind[p] = "monitor" =>
               \A c \in steady[p] : c \in {<<"state", n>> : n \in MonitorNames} \/ c[1] \in GapNames

LEMMA MonitorConcernsSay ==
    /\ <<"state", "snapshot">> \in MonitorConcerns => snapshot.age # "fresh"
    /\ <<"state", "account">> \in MonitorConcerns => account.age # "fresh"
    /\ <<"state", "target">> \in MonitorConcerns => target.age # "fresh"
    /\ <<"state", "orders">> \in MonitorConcerns => snapshot.orders /\ snapshot.qty = 0
    /\ \A c \in MonitorConcerns :
          GapTold(c) /\ (c \in {<<"state", n>> : n \in MonitorNames} \/ c[1] \in GapNames)
<1>1. \A c \in MonitorConcerns :
        \/ c = <<"state", "snapshot">> /\ snapshot.age # "fresh"
        \/ c = <<"state", "account">> /\ account.age # "fresh"
        \/ c = <<"state", "target">> /\ target.age # "fresh"
        \/ c = <<"state", "orders">> /\ snapshot.orders /\ snapshot.qty = 0
        \/ c = <<"drift", snapshot.qty, account.qty>> /\ snapshot.qty # account.qty
        \/ /\ c = <<"equity", snapshot.equity, account.equity>> /\ account.equity # 0
           /\ snapshot.equity # account.equity
        \/ /\ c = <<"exposure", snapshot.qty, target.qty>> /\ snapshot.qty # target.qty
           /\ target.age # "absent"
        \/ /\ c = <<"paper_exposure", account.qty, target.qty>> /\ account.qty # target.qty
           /\ target.age # "absent"
  BY DEF MonitorConcerns, Flag, Gap
<1>2. \A c \in MonitorConcerns : c \in {<<"state", n>> : n \in MonitorNames} \/ c[1] \in GapNames
  BY <1>1 DEF MonitorNames, GapNames
<1>3. \A c \in MonitorConcerns : GapTold(c)
  BY <1>1 DEF GapTold
<1>4. /\ <<"state", "snapshot">> \in MonitorConcerns => snapshot.age # "fresh"
      /\ <<"state", "account">> \in MonitorConcerns => account.age # "fresh"
      /\ <<"state", "target">> \in MonitorConcerns => target.age # "fresh"
      /\ <<"state", "orders">> \in MonitorConcerns => snapshot.orders /\ snapshot.qty = 0
  <2>1. \A c \in MonitorConcerns : c[1] = "state" =>
            \/ c[2] = "snapshot" /\ snapshot.age # "fresh"
            \/ c[2] = "account" /\ account.age # "fresh"
            \/ c[2] = "target" /\ target.age # "fresh"
            \/ c[2] = "orders" /\ snapshot.orders /\ snapshot.qty = 0
    BY <1>1
  <2> QED
    BY <2>1
<1> QED
  BY <1>2, <1>3, <1>4

AuditSwitches == {"readonly_guards", "readonly_key_present", "no_literal_secret"}
LEMMA ReviewConcernsSay ==
    ASSUME NEW p \in Scripts, kind[p] \in Reviews, NEW c \in ReviewConcerns(p)
    PROVE  \/ c[1] = "off" /\ ~ (AuditSwitches \subseteq cfg[p])
           \/ c[1] = "on" /\ {"master_enable", "allow_live_trading"} \cap cfg[p] # {}
           \/ c[1] = "item" /\ \E i \in DOMAIN checklist : checklist[i] \notin Accepted
           \/ c = <<"state", "approval">> /\ approval # "approve"
           \/ c = <<"state", "circuit">> /\ hard # Pass
           \/ c = <<"state", "validation">> /\ validationFile = Blocked
           \/ validationFile = "none" /\ \E e \in Evidence \ evidence : c = <<"evidence", e>>
           \/ kind[p] = "review_refresh" /\ c \in MonitorConcerns
           \/ kind[p] = "review" /\ c = <<"state", "monitor">> /\ monitorFile \in {Warn, Blocked}
BY DEF ReviewConcerns, Flag, Each, Reviews, AuditSwitches

LEMMA MonitorTells == \A p \in Scripts : MonitorTold(p)
<1> SUFFICES ASSUME NEW p \in Scripts, steady[p] \subseteq Concerns(p),
                    kind[p] \in {"monitor", "review_refresh"}
             PROVE  MonitorTold(p)
  BY DEF MonitorTold
<1>1. CASE kind[p] = "monitor"
  BY <1>1, ConcernsOfKind, MonitorConcernsSay DEF MonitorTold, Has
<1>2. CASE kind[p] = "review_refresh"
  <2>1. steady[p] \subseteq ReviewConcerns(p) /\ kind[p] \in Reviews
    BY <1>2, ConcernsOfKind DEF Reviews
  <2>2. \A n \in MonitorNames : <<"state", n>> \in steady[p] => <<"state", n>> \in MonitorConcerns
    BY <1>2, <2>1, ReviewConcernsSay DEF MonitorNames
  <2>3. ASSUME NEW c \in steady[p] PROVE GapTold(c)
    <3>1. CASE c \in MonitorConcerns
      BY <3>1, MonitorConcernsSay
    <3>2. CASE c[1] \notin GapNames
      BY <3>2 DEF GapTold, GapNames
    <3> QED
      BY <2>1, <3>1, <3>2, ReviewConcernsSay DEF GapNames
  <2> QED
    BY <1>2, <2>2, <2>3, MonitorConcernsSay DEF MonitorTold, Has, MonitorNames
<1> QED
  BY <1>1, <1>2

\* And of a review.
ReviewTold(p) ==
    steady[p] \subseteq Concerns(p) /\ kind[p] \in Reviews =>
        /\ Names(p, "off") => ~ (AuditSwitches \subseteq cfg[p])
        /\ Names(p, "on") => {"master_enable", "allow_live_trading"} \cap cfg[p] # {}
        /\ Names(p, "item") => \E i \in DOMAIN checklist : checklist[i] \notin Accepted
        /\ Has(p, "approval") => approval # "approve"
        /\ Has(p, "circuit") => hard # Pass
        /\ Has(p, "validation") => validationFile = Blocked
        /\ \A e : <<"evidence", e>> \in steady[p] =>
               validationFile = "none" /\ e \in Evidence \ evidence
        /\ kind[p] = "review" /\ Has(p, "monitor") => monitorFile \in {Warn, Blocked}
        /\ \A c \in steady[p] :
               \/ c[1] \in {"off", "on", "item"}
               \/ c \in {<<"state", n>> : n \in {"approval", "circuit", "validation"}}
               \/ \E e \in Evidence : c = <<"evidence", e>>
               \/ kind[p] = "review" /\ c = <<"state", "monitor">>
               \/ /\ kind[p] = "review_refresh"
                  /\ c \in {<<"state", n>> : n \in MonitorNames} \/ c[1] \in GapNames

LEMMA ReviewTells == \A p \in Scripts : ReviewTold(p)
<1> SUFFICES ASSUME NEW p \in Scripts, steady[p] \subseteq Concerns(p), kind[p] \in Reviews
             PROVE  ReviewTold(p)
  BY DEF ReviewTold
<1>1. steady[p] \subseteq ReviewConcerns(p)
  BY ConcernsOfKind
<1>2. \A c \in steady[p] :
           \/ c[1] = "off" /\ ~ (AuditSwitches \subseteq cfg[p])
           \/ c[1] = "on" /\ {"master_enable", "allow_live_trading"} \cap cfg[p] # {}
           \/ c[1] = "item" /\ \E i \in DOMAIN checklist : checklist[i] \notin Accepted
           \/ c = <<"state", "approval">> /\ approval # "approve"
           \/ c = <<"state", "circuit">> /\ hard # Pass
           \/ c = <<"state", "validation">> /\ validationFile = Blocked
           \/ validationFile = "none" /\ \E e \in Evidence \ evidence : c = <<"evidence", e>>
           \/ /\ kind[p] = "review_refresh"
              /\ c \in {<<"state", n>> : n \in MonitorNames} \/ c[1] \in GapNames
           \/ kind[p] = "review" /\ c = <<"state", "monitor">> /\ monitorFile \in {Warn, Blocked}
  BY <1>1, ReviewConcernsSay, MonitorConcernsSay
<1>3. /\ Names(p, "off") => ~ (AuditSwitches \subseteq cfg[p])
      /\ Names(p, "on") => {"master_enable", "allow_live_trading"} \cap cfg[p] # {}
      /\ Names(p, "item") => \E i \in DOMAIN checklist : checklist[i] \notin Accepted
  BY <1>2 DEF Names, GapNames
<1>4. /\ Has(p, "approval") => approval # "approve"
      /\ Has(p, "circuit") => hard # Pass
      /\ Has(p, "validation") => validationFile = Blocked
      /\ kind[p] = "review" /\ Has(p, "monitor") => monitorFile \in {Warn, Blocked}
  BY <1>2 DEF Has, MonitorNames, GapNames
<1>5. \A e : <<"evidence", e>> \in steady[p] =>
          validationFile = "none" /\ e \in Evidence \ evidence
  BY <1>2 DEF GapNames
<1>6. \A c \in steady[p] :
               \/ c[1] \in {"off", "on", "item"}
               \/ c \in {<<"state", n>> : n \in {"approval", "circuit", "validation"}}
               \/ \E e \in Evidence : c = <<"evidence", e>>
               \/ kind[p] = "review" /\ c = <<"state", "monitor">>
               \/ /\ kind[p] = "review_refresh"
                  /\ c \in {<<"state", n>> : n \in MonitorNames} \/ c[1] \in GapNames
  BY <1>2
<1> QED
  BY <1>3, <1>4, <1>5, <1>6 DEF ReviewTold

LEMMA ReviewTellsLater == (\A p \in Scripts : ReviewTold(p))'
BY ReviewTells, PTL

---------------------------------------------------------------------------
(* What a step changes                                                     *)

\* Concerns are forgotten, never invented, while a script runs.
LEMMA Remembered ==
    ASSUME Remember, NEW p \in Scripts
    PROVE  /\ steady'[p] \subseteq Concerns(p)'
           /\ kind[p] # "none" => steady'[p] \subseteq steady[p]
           /\ outcome'[p] \notin {"none", Pass} => steady'[p] = {}
BY DEF Remember

LEMMA AgedQuantity ==
    /\ \A row \in RowType : Aged(row).qty = row.qty
    /\ \A row \in SnapshotType : /\ Aged(row).qty = row.qty /\ Aged(row).source = row.source
                                 /\ Aged(row).age = "absent" <=> row.age = "absent"
BY DEF Aged, RowType, SnapshotType

LEMMA FreshSnapshots ==
    \A acc \in LiveType :
        LET s == Snapshot("private", acc) IN s.source = "private" /\ s.age = "fresh"
BY DEF Snapshot
LEMMA OfflineSnapshot == Offline.source = "offline" /\ Offline.age = "fresh"
BY DEF Offline, Snapshot

\* A snapshot has an age as soon as there is one.
LEMMA SnapshotKept == ASSUME TypeInv, SnapshotInv, GateNext PROVE SnapshotInv'
<1>1. /\ snapshot \in SnapshotType /\ live \in LiveType
  BY TypeParts DEF WorldType
<1>2. CASE snapshot' = snapshot
  BY <1>2 DEF SnapshotInv
<1>3. CASE snapshot' \in {Offline, Snapshot("private", live)}
  BY <1>1, <1>3, FreshSnapshots, OfflineSnapshot DEF SnapshotInv
<1>4. CASE snapshot' = Aged(snapshot)
  BY <1>1, <1>4, AgedQuantity DEF SnapshotInv
<1>5. snapshot' \in {snapshot, Offline, Snapshot("private", live), Aged(snapshot)}
  <2>1. CASE OutsideStep
    BY <2>1 DEF OutsideStep, EditConfig, PaperStep, Elsewhere, GrowOld, ResetChecklist,
       ReadonlyCheck, MarkItem, Decide, tables
  <2>2. ASSUME NEW p \in Scripts, ScriptStep(p)
        PROVE  snapshot' \in {snapshot, Offline, Snapshot("private", live), Aged(snapshot)}
    <3> USE DEF tables
    <3>1. CASE \E k \in Kinds[p] : Start(p, k)
      BY <3>1 DEF Start
    <3>2. CASE GateReads(p)
      BY <3>2 DEF GateReads, ReadKillSwitch, ReadValidation, ReadCircuit, ReadCircuitFails,
         CountUnknown, CountUnknownFails, GateVerdict, ReadinessVerdict
    <3>3. CASE ValidationStep(p)
      BY <3>3 DEF ValidationStep, LookAtEvidence, ValidationVerdict, ValidationFill
    <3>4. CASE MonitorStep(p)
      BY <3>4 DEF MonitorStep, Fetch, OfflineLook, OfflineAppend, CompareSnapshot, CompareAccount,
         CompareTarget, MonitorVerdict, MonitorFill
    <3>5. CASE ReviewStep(p)
      BY <3>5 DEF ReviewStep, AddDefaults, ReadMonitorReport, ReadPayload, LoadChecklist,
         LatestApproval, ReviewVerdict
    <3>6. CASE KillSwitchTruncate(p) \/ KillSwitchFill(p)
      BY <3>6 DEF KillSwitchTruncate, KillSwitchFill
    <3> QED
      BY <2>2, <3>1, <3>2, <3>3, <3>4, <3>5, <3>6 DEF ScriptStep
  <2> QED
    BY <2>1, <2>2 DEF GateNext
<1> QED
  BY <1>2, <1>3, <1>4, <1>5

---------------------------------------------------------------------------
(* What keeps each part of the invariant                                   *)

\* The steps p has still to take, but for one it takes now.
StillDue(p, step) == step \in Rest(p) => step \in Rest(p)'
SameScript(p) ==
    kind'[p] = kind[p] /\ cfg'[p] = cfg[p] /\ outcome'[p] = outcome[p] /\ Running(p)

LEMMA GateWatchKept ==
    ASSUME NEW p \in Scripts, GateWatch(p), kind'[p] = kind[p], Running(p)' => Running(p),
           steady'[p] \subseteq steady[p],
           kind[p] \in Reviews \/ found[p].gate \subseteq found'[p].gate,
           StillDue(p, "kill") \/ (Names(p, "off")' \/ Has(p, "kill_switch")' => Blocked \in found'[p].gate),
           StillDue(p, "validation") \/ (Has(p, "validation")' => Blocked \in found'[p].gate),
           StillDue(p, "circuit") \/
               /\ Has(p, "hard_circuit")' => Blocked \in found'[p].gate
               /\ Has(p, "no_curve")' => Bad(found'[p].gate),
           StillDue(p, "unknown") \/ (Has(p, "unknown_order")' => Blocked \in found'[p].gate)
    PROVE  GateWatch(p)'
<1> SUFFICES ASSUME Running(p)', kind'[p] \in {"gate", "readiness"} PROVE GateWatch(p)'
  BY DEF GateWatch
<1>1. found[p].gate \subseteq found'[p].gate
  BY DEF Reviews
<1>2. Bad(found[p].gate) => Bad(found'[p].gate)
  BY <1>1 DEF Bad
<1>3. /\ Has(p, "validation")' => Has(p, "validation")
      /\ Has(p, "hard_circuit")' => Has(p, "hard_circuit")
      /\ Has(p, "unknown_order")' => Has(p, "unknown_order")
      /\ Has(p, "no_curve")' => Has(p, "no_curve")
  BY DEF Names, Has
<1>4. Names(p, "off")' => Names(p, "off")
  BY DEF Names
<1>5. Has(p, "kill_switch")' => Has(p, "kill_switch")
  BY DEF Has
<1> QED
  BY <1>1, <1>2, <1>3, <1>4, <1>5 DEF GateWatch, StillDue

LEMMA EvidenceWatchKept ==
    ASSUME NEW p \in Scripts, EvidenceWatch(p), kind'[p] = kind[p], Running(p)' => Running(p),
           steady'[p] \subseteq steady[p],
           \/ kind[p] \notin {"readiness", "validate"}
           \/ Blocked \in found[p].own => Blocked \in found'[p].own,
           \A e \in Evidence : <<"evidence", e>> \in steady'[p] /\ e \in left[p] =>
               e \in left'[p] \/ Blocked \in found'[p].own
    PROVE  EvidenceWatch(p)'
BY DEF EvidenceWatch

LEMMA MonitorWatchKept ==
    ASSUME NEW p \in Scripts, MonitorWatch(p), kind'[p] = kind[p], Running(p)' => Running(p),
           steady'[p] \subseteq steady[p],
           MonitorNoted(p) => MonitorNoted(p)',
           StillDue(p, "snapshot") \/ (Has(p, "snapshot")' \/ Has(p, "orders")' => MonitorNoted(p)'),
           StillDue(p, "account") \/ (AccountGaps(p)' => MonitorNoted(p)'),
           StillDue(p, "target") \/ (TargetGaps(p)' => MonitorNoted(p)'),
           Running(p) /\ MonitorSaw(p) => MonitorSaw(p)',
           Running(p) /\ AccountSaw(p) => AccountSaw(p)',
           Running(p) /\ MonitorAhead(p) => MonitorAhead(p)'
    PROVE  MonitorWatch(p)'
<1> SUFFICES ASSUME Running(p)', kind'[p] \in {"monitor", "review_refresh"} PROVE MonitorWatch(p)'
  BY DEF MonitorWatch
<1>1. Has(p, "snapshot")' \/ Has(p, "orders")' => Has(p, "snapshot") \/ Has(p, "orders")
  BY DEF Has
<1>2. AccountGaps(p)' => AccountGaps(p)
  BY DEF Has, Names, AccountGaps
<1>3. TargetGaps(p)' => TargetGaps(p)
  BY DEF Has, Names, TargetGaps
<1>4. /\ Has(p, "snapshot") \/ Has(p, "orders") => "snapshot" \in Rest(p) \/ MonitorNoted(p)
      /\ AccountGaps(p) => "account" \in Rest(p) \/ MonitorNoted(p)
      /\ TargetGaps(p) => "target" \in Rest(p) \/ MonitorNoted(p)
  BY DEF MonitorWatch
<1>5. /\ Has(p, "snapshot")' \/ Has(p, "orders")' => "snapshot" \in Rest(p)' \/ MonitorNoted(p)'
      /\ AccountGaps(p)' => "account" \in Rest(p)' \/ MonitorNoted(p)'
      /\ TargetGaps(p)' => "target" \in Rest(p)' \/ MonitorNoted(p)'
  BY <1>1, <1>2, <1>3, <1>4 DEF StillDue
<1> QED
  BY <1>5 DEF MonitorWatch

LEMMA ReviewWatchKept ==
    ASSUME NEW p \in Scripts, ReviewWatch(p), kind'[p] = kind[p], cfg'[p] = cfg[p],
           Running(p)' => Running(p), steady'[p] \subseteq steady[p],
           found[p].own \subseteq found'[p].own,
           StillDue(p, "checklist") \/ (Names(p, "item")' => Bad(found'[p].own)),
           StillDue(p, "approval") \/ (Has(p, "approval")' => Bad(found'[p].own)),
           StillDue(p, "circuit_again") \/ (Has(p, "circuit")' => Bad(found'[p].own)),
           ("payload" \in Rest(p) /\ left[p] = {}) =>
               \/ "payload" \in Rest(p)' /\ left'[p] = {}
               \/ /\ Has(p, "validation")' => Bad(found'[p].own)
                  /\ \A e \in Evidence : <<"evidence", e>> \in steady'[p] =>
                         e \in left'[p] \/ Bad(found'[p].own),
           \A e \in Evidence : <<"evidence", e>> \in steady'[p] /\ e \in left[p] =>
               e \in left'[p] \/ Bad(found'[p].own),
           StillDue(p, "monitor_report") \/ (kind[p] = "review" /\ Has(p, "monitor")' => Bad(found'[p].own))
    PROVE  ReviewWatch(p)'
<1> SUFFICES ASSUME Running(p)', kind'[p] \in Reviews PROVE ReviewWatch(p)'
  BY DEF ReviewWatch
<1>1. Bad(found[p].own) => Bad(found'[p].own)
  BY DEF Bad
<1>2. Audit(cfg'[p]) \subseteq found'[p].own
  BY DEF ReviewWatch
<1>3. Names(p, "item")' => Names(p, "item")
  BY DEF Names
<1>4. /\ Has(p, "approval")' => Has(p, "approval")
      /\ Has(p, "circuit")' => Has(p, "circuit")
      /\ Has(p, "validation")' => Has(p, "validation")
      /\ Has(p, "monitor")' => Has(p, "monitor")
  BY DEF Has
<1>5. /\ Names(p, "item")' => "checklist" \in Rest(p)' \/ Bad(found'[p].own)
      /\ Has(p, "approval")' => "approval" \in Rest(p)' \/ Bad(found'[p].own)
      /\ Has(p, "circuit")' => "circuit_again" \in Rest(p)' \/ Bad(found'[p].own)
      /\ kind'[p] = "review" /\ Has(p, "monitor")' => "monitor_report" \in Rest(p)' \/ Bad(found'[p].own)
  BY <1>1, <1>3, <1>4 DEF ReviewWatch, StillDue
<1>6. Has(p, "validation")' => ("payload" \in Rest(p)' /\ left'[p] = {}) \/ Bad(found'[p].own)
  BY <1>1, <1>4 DEF ReviewWatch
<1>7. \A e \in Evidence : <<"evidence", e>> \in steady'[p] =>
          ("payload" \in Rest(p)' /\ left'[p] = {}) \/ e \in left'[p] \/ Bad(found'[p].own)
  BY <1>1 DEF ReviewWatch
<1> QED
  BY <1>2, <1>5, <1>6, <1>7 DEF ReviewWatch

---------------------------------------------------------------------------
(* The invariant is kept by the steps of others                            *)

LEMMA SawKept ==
    ASSUME NEW p \in Scripts, steady'[p] \subseteq steady[p],
           MonitorSaw(p), seen'[p].snapshot = seen[p].snapshot,
           found[p].monitor \subseteq found'[p].monitor,
           "snapshot" \in Rest(p) => "snapshot" \in Rest(p)',
           Rest(p)' \cap {"account", "target"} \subseteq Rest(p)
    PROVE  MonitorSaw(p)'
<1>1. Bad(found[p].monitor) => Bad(found'[p].monitor)
  BY DEF Bad
<1>2. "snapshot" \notin Rest(p)' /\ Rest(p)' \cap {"account", "target"} # {} =>
          "snapshot" \notin Rest(p) /\ Rest(p) \cap {"account", "target"} # {}
  OBVIOUS
<1> QED
  BY <1>1, <1>2 DEF MonitorSaw

LEMMA BystanderKept ==
    ASSUME TypeInv, TypeInv', GateInv, GateNext, NEW p \in Scripts, Untouched(p)
    PROVE  ScriptInv(p)'
<1>1. ScriptInv(p)
  BY DEF GateInv
<1>2. steady'[p] \subseteq Concerns(p)'
  BY Remembered DEF GateNext
<1>3. /\ Rest(p)' = Rest(p) /\ (Running(p)' <=> Running(p))
      /\ \A step \in StepNames : At(p, step)' <=> At(p, step)
  BY DEF Untouched, Rest, Elements, Running, At
<1>4. {"kill", "validation", "circuit", "unknown", "checklist", "approval", "circuit_again",
       "monitor_report", "snapshot", "account", "target", "evidence", "payload"} \subseteq StepNames
  BY DEF StepNames
<1>5. ProgramInv(p)'
  BY <1>1, <1>3, <1>4 DEF ScriptInv, ProgramInv, StepsOfKind, Untouched
<1>6. ConfigInv(p)'
  BY <1>1, <1>3 DEF ScriptInv, ConfigInv, Untouched
<1>7. CASE kind[p] = "none"
  <2>1. ~ Running(p)' /\ outcome'[p] = "none"
    BY <1>1, <1>3, <1>7 DEF ScriptInv, ProgramInv, Untouched, Running
  <2>2. GateWatch(p)' /\ EvidenceWatch(p)' /\ MonitorWatch(p)' /\ ReviewWatch(p)'
    BY <2>1 DEF GateWatch, EvidenceWatch, MonitorWatch, ReviewWatch
  <2> QED
    BY <1>2, <1>5, <1>6, <2>1, <2>2 DEF ScriptInv, Pass
<1>8. CASE kind[p] # "none"
  <2>1. steady'[p] \subseteq steady[p]
    BY <1>8, Remembered DEF GateNext
  <2>2. \A step \in StepNames : StillDue(p, step)
    BY <1>3 DEF StillDue
  <2>3. GateWatch(p)'
    BY <1>1, <1>3, <1>4, <2>1, <2>2, GateWatchKept DEF ScriptInv, Untouched
  <2>4. EvidenceWatch(p)'
    BY <1>1, <1>3, <2>1, EvidenceWatchKept DEF ScriptInv, Untouched
  <2>5. ReviewWatch(p)'
    BY <1>1, <1>3, <1>4, <2>1, <2>2, ReviewWatchKept DEF ScriptInv, Untouched
  <2>6. MonitorWatch(p)'
    <3>1. CASE kind[p] \notin {"monitor", "review_refresh"}
      BY <3>1 DEF MonitorWatch, Untouched
    <3>2. CASE kind[p] \in {"monitor", "review_refresh"}
      <4>1. MonitorSaw(p) => MonitorSaw(p)'
        BY <1>3, <2>1, SawKept DEF Untouched
      <4>a. AccountSaw(p) => AccountSaw(p)'
        BY <1>3, <2>1 DEF AccountSaw, Untouched
      <4>2. MonitorNoted(p) => MonitorNoted(p)'
        BY <1>3 DEF MonitorNoted, Untouched
      <4>3. MonitorAhead(p) => MonitorAhead(p)'
        BY <1>3 DEF MonitorAhead
      <4> QED
        BY <1>1, <1>3, <1>4, <2>1, <2>2, <4>1, <4>a, <4>2, <4>3, MonitorWatchKept DEF ScriptInv, Untouched
    <3> QED
      BY <3>1, <3>2
  <2>7. outcome'[p] = Pass => steady'[p] = {}
    BY <1>1, <2>1 DEF ScriptInv, Untouched
  <2> QED
    BY <1>2, <1>5, <1>6, <2>3, <2>4, <2>5, <2>6, <2>7 DEF ScriptInv
<1> QED
  BY <1>7, <1>8

---------------------------------------------------------------------------
(* The invariant is kept by a script's own steps                           *)

LEMMA StartKept ==
    ASSUME TypeInv, TypeInv', GateInv, GateNext, NEW p \in Scripts, NEW k \in Kinds[p], Start(p, k)
    PROVE  ScriptInv(p)'
<1>1. ScriptInv(p) /\ steady'[p] \subseteq Concerns(p)'
  BY Remembered DEF GateInv, GateNext
<1>2. k \in DOMAIN Program /\ k # "none"
  BY KindsAssumption DEF Program
<1>3. MemoryType
  BY TypeParts
<1>4. /\ kind'[p] = k /\ cfg'[p] = config /\ todo'[p] = Program[k] /\ outcome'[p] = "none"
      /\ left'[p] = IF k \in {"validate", "readiness"} THEN Evidence ELSE {}
      /\ k \in Reviews => found'[p].own = Audit(config)
  <2>1. kind[p] = "none" /\ outcome[p] = "none"
    BY <1>1 DEF Start, ScriptInv, ProgramInv
  <2>2. k \in Reviews => found'[p].own = Audit(config)
    BY <1>3 DEF Start, MemoryType, FoundType
  <2> QED
    BY <1>3, <2>1, <2>2 DEF Start, MemoryType
<1>5. Rest(p)' = ProgramSteps(k) /\ Running(p)' /\ WellFormed(Program[k])
  BY <1>2, <1>4, Programs DEF Rest, Elements, ProgramSteps, Running, WellFormed
<1>6. ProgramInv(p)'
  <2>1. StepsOfKind(p)'
    BY <1>2, <1>4, <1>5, Programs DEF StepsOfKind
  <2>2. left'[p] # {} => At(p, "evidence")'
    BY <1>2, <1>4, <1>5, Programs DEF At, WellFormed
  <2>3. Ordered(todo[p])'
    BY <1>4, <1>5 DEF Ordered, WellFormed
  <2> QED
    BY <1>2, <1>4, <2>1, <2>2, <2>3 DEF ProgramInv
<1>7. GateWatch(p)' /\ ConfigInv(p)'
  BY <1>2, <1>4, <1>5, Programs DEF GateWatch, ConfigInv, GateNames, Pass
<1>8. EvidenceWatch(p)'
  BY <1>4 DEF EvidenceWatch
<1>9. MonitorWatch(p)'
  BY <1>2, <1>4, <1>5, Programs DEF MonitorWatch, MonitorSaw, AccountSaw, MonitorAhead, CompareNames
<1>10. ReviewWatch(p)'
  BY <1>2, <1>4, <1>5, Programs DEF ReviewWatch, Reviews, ClosingNames
<1> QED
  BY <1>1, <1>4, <1>6, <1>7, <1>8, <1>9, <1>10 DEF ScriptInv, Pass

\* The step at the head is of the lowest stage left.
LEMMA HeadFirst ==
    ASSUME TypeInv, NEW p \in Scripts, Ordered(todo[p]), NEW step, At(p, step)
    PROVE  /\ step \in Rest(p) /\ step \in StepNames /\ Running(p)
           /\ \A other \in Rest(p) : Stage(step) <= Stage(other)
<1>1. todo[p] \in Seq(StepNames)
  BY DEF TypeInv
<1> QED
  BY <1>1, TailKeeps DEF At, Rest, Running

\* A script takes its next step and has not come to its verdict.
Onward(p, step) ==
    /\ kind'[p] = kind[p] /\ cfg'[p] = cfg[p] /\ outcome'[p] = outcome[p]
    /\ At(p, step)
    /\ \A other \in StepNames \ {step} : StillDue(p, other)
    /\ Ordered(todo'[p])
    /\ Rest(p)' \subseteq Rest(p) \cup {"refresh", "offline_append"} \cup CompareNames
    /\ kind[p] # "review" => Rest(p)' \subseteq Rest(p) \cup {"refresh", "offline_append"}

\* What the checks of the step find, said of the files and tables it reads.
GateSaw(p, step) ==
    /\ step = "kill" => /\ GateConfigChecks(cfg[p]) \subseteq found'[p].gate
                        /\ killFile = "on" => Blocked \in found'[p].gate
    /\ step = "validation" /\ validationFile # Pass => Blocked \in found'[p].gate
    /\ step = "circuit" => /\ hard = Blocked /\ p \notin lost' => Blocked \in found'[p].gate
                           /\ hard = Warn => Bad(found'[p].gate)
    /\ step = "unknown" /\ unknown /\ p \notin lost' => Blocked \in found'[p].gate
EvidenceSaw(p, step) ==
    /\ \A e \in left[p] : e \in left'[p] \/ e \in evidence \/ Blocked \in found'[p].own
    /\ left'[p] # {} => At(p, "evidence")' \/ At(p, "payload")'
    /\ step # "payload" /\ left[p] = {} => left'[p] = {}
    /\ step = "payload" /\ left[p] = {} =>
           /\ validationFile = Blocked => Bad(found'[p].own)
           /\ validationFile = "none" => left'[p] = Evidence
CompareSaw(p, step) ==
    /\ step \notin {"snapshot", "monitor_verdict"} => seen'[p].snapshot = seen[p].snapshot
    /\ step \notin {"account", "monitor_verdict"} => seen'[p].account = seen[p].account
    /\ step = "snapshot" =>
           /\ seen'[p].snapshot = snapshot
           /\ snapshot.source = "none" => Bad(found'[p].monitor)
           /\ snapshot.age = "stale" => Bad(found'[p].monitor)
           /\ snapshot.orders /\ snapshot.qty = 0 => Bad(found'[p].monitor)
    /\ step = "account" =>
           /\ seen'[p].account = account
           /\ account.age # "fresh" => Bad(found'[p].monitor)
           /\ seen[p].snapshot.source # "none" /\ seen[p].snapshot.qty # account.qty =>
                 Bad(found'[p].monitor)
           /\ (/\ seen[p].snapshot.source # "none" /\ account.equity # 0
               /\ seen[p].snapshot.equity # account.equity) =>
                 Bad(found'[p].monitor)
    /\ step = "target" =>
           /\ target.age # "fresh" => Bad(found'[p].monitor)
           /\ seen[p].snapshot.qty # target.qty /\ target.age # "absent" =>
                 Bad(found'[p].monitor)
           /\ seen[p].account.qty # target.qty /\ target.age # "absent" =>
                 Bad(found'[p].monitor)
ReviewSaw(p, step) ==
    /\ step = "checklist" /\ (\E i \in DOMAIN checklist : checklist[i] \notin Accepted) =>
           Bad(found'[p].own)
    /\ step = "approval" /\ approval # "approve" => Bad(found'[p].own)
    /\ step = "circuit_again" /\ hard # Pass => Bad(found'[p].own)
    /\ step = "monitor_report" /\ monitorFile \in {Warn, Blocked} => Bad(found'[p].own)

LEMMA OnwardProgram ==
    ASSUME TypeInv, NEW p \in Scripts, NEW step, ScriptInv(p), Onward(p, step),
           left'[p] # {} => At(p, "evidence")' \/ At(p, "payload")'
    PROVE  ProgramInv(p)' /\ kind[p] # "none" /\ outcome[p] = "none" /\ outcome'[p] = "none"
<1>1. ProgramInv(p) /\ todo[p] # <<>>
  BY DEF ScriptInv, Onward, At
<1>2. kind[p] # "none" /\ outcome[p] = "none"
  BY <1>1 DEF ProgramInv
<1>3. StepsOfKind(p)'
  BY <1>1 DEF ProgramInv, StepsOfKind, Onward, CompareNames, Reviews
<1>4. Ordered(todo[p])'
  BY DEF Onward, Ordered
<1> QED
  BY <1>1, <1>2, <1>3, <1>4 DEF ProgramInv, Onward

LEMMA OnwardGate ==
    ASSUME TypeInv, NEW p \in Scripts, NEW step, ScriptInv(p), Onward(p, step),
           steady'[p] \subseteq steady[p], steady'[p] \subseteq Concerns(p)',
           outcome'[p] = "none",
           kind[p] \in Reviews \/ found[p].gate \subseteq found'[p].gate, GateSaw(p, step)
    PROVE  GateWatch(p)' /\ ConfigInv(p)'
<1>1. /\ kind'[p] = kind[p] /\ cfg'[p] = cfg[p] /\ Running(p)
      /\ \A other \in StepNames \ {step} : StillDue(p, other)
  BY DEF Onward, At, Running
<1>2. {"kill", "validation", "circuit", "unknown"} \subseteq StepNames
  BY DEF StepNames
<1>3. ASSUME kind[p] \in {"gate", "readiness"} PROVE GateWatch(p)'
  <2>1. GateTold(p) /\ GateTold(p)' /\ steady[p] \subseteq Concerns(p)
    BY GateTells, GateTellsLater DEF ScriptInv
  <2>2. \/ StillDue(p, "kill")
        \/ Names(p, "off")' \/ Has(p, "kill_switch")' => Blocked \in found'[p].gate
    <3> SUFFICES ASSUME step = "kill", Names(p, "off")' \/ Has(p, "kill_switch")'
                 PROVE  Blocked \in found'[p].gate
      BY <1>1, <1>2
    <3>1. CASE Names(p, "off")'
      <4>1. Names(p, "off")
        BY <3>1 DEF Names
      <4>2. Blocked \in GateConfigChecks(cfg[p])
        BY <1>3, <2>1, <4>1 DEF GateTold, GateConfigChecks, BlockIf
      <4> QED
        BY <4>2 DEF GateSaw
    <3>2. CASE Has(p, "kill_switch")'
      BY <1>3, <2>1, <3>2 DEF Has, GateTold, GateSaw
    <3> QED
      BY <3>1, <3>2
  <2>3. StillDue(p, "validation") \/ (Has(p, "validation")' => Blocked \in found'[p].gate)
    BY <1>1, <1>2, <1>3, <2>1 DEF Has, GateTold, GateSaw
  <2>4. \/ StillDue(p, "circuit")
        \/ /\ Has(p, "hard_circuit")' => Blocked \in found'[p].gate
           /\ Has(p, "no_curve")' => Bad(found'[p].gate)
    <3> SUFFICES ASSUME step = "circuit"
                 PROVE  /\ Has(p, "hard_circuit")' => Blocked \in found'[p].gate
                        /\ Has(p, "no_curve")' => Bad(found'[p].gate)
      BY <1>1, <1>2
    <3>1. /\ Has(p, "hard_circuit")' => Has(p, "hard_circuit")
          /\ Has(p, "no_curve")' => Has(p, "no_curve")
      BY DEF Has
    <3>2. Has(p, "hard_circuit")' => p \notin lost'
      BY <1>1, <1>3, <2>1 DEF GateTold
    <3> QED
      BY <1>3, <2>1, <3>1, <3>2 DEF GateTold, GateSaw
  <2>5. StillDue(p, "unknown") \/ (Has(p, "unknown_order")' => Blocked \in found'[p].gate)
    <3> SUFFICES ASSUME step = "unknown", Has(p, "unknown_order")'
                 PROVE  Blocked \in found'[p].gate
      BY <1>1, <1>2
    <3>1. Has(p, "unknown_order") /\ p \notin lost'
      BY <1>1, <1>3, <2>1 DEF Has, GateTold
    <3> QED
      BY <1>3, <2>1, <3>1 DEF GateTold, GateSaw
  <2> QED
    BY <1>1, <2>2, <2>3, <2>4, <2>5, GateWatchKept DEF ScriptInv
<1>4. ASSUME kind[p] \notin {"gate", "readiness"} PROVE GateWatch(p)'
  BY <1>1, <1>4 DEF GateWatch
<1>5. ConfigInv(p)'
  <2>1. kind[p] = "gate" => "kill" \in Rest(p)' \/ GateConfigChecks(cfg[p]) \subseteq found'[p].gate
    <3> SUFFICES ASSUME kind[p] = "gate"
                 PROVE  "kill" \in Rest(p)' \/ GateConfigChecks(cfg[p]) \subseteq found'[p].gate
      OBVIOUS
    <3>1. found[p].gate \subseteq found'[p].gate
      BY DEF Reviews
    <3>2. "kill" \in Rest(p) \/ GateConfigChecks(cfg[p]) \subseteq found[p].gate
      BY <1>1 DEF ScriptInv, ConfigInv
    <3> QED
      BY <1>1, <1>2, <3>1, <3>2 DEF StillDue, GateSaw
  <2> QED
    BY <1>1, <2>1 DEF ConfigInv, Pass
<1> QED
  BY <1>3, <1>4, <1>5

LEMMA OnwardEvidence ==
    ASSUME TypeInv, NEW p \in Scripts, NEW step, ScriptInv(p), Onward(p, step),
           steady'[p] \subseteq steady[p], found[p].own \subseteq found'[p].own,
           EvidenceSaw(p, step)
    PROVE  EvidenceWatch(p)'
<1>1. kind'[p] = kind[p] /\ Running(p)
  BY DEF Onward, At, Running
<1>2. ASSUME kind[p] \in {"readiness", "validate"} PROVE EvidenceWatch(p)'
  <2>1. \A e \in Evidence : <<"evidence", e>> \in steady'[p] => e \notin evidence
    BY <1>2, GateTells, EvidenceTells DEF ScriptInv, GateTold, EvidenceTold
  <2> QED
    BY <1>1, <2>1, EvidenceWatchKept DEF ScriptInv, EvidenceSaw
<1>3. ASSUME kind[p] \notin {"readiness", "validate"} PROVE EvidenceWatch(p)'
  BY <1>1, <1>3 DEF EvidenceWatch
<1> QED
  BY <1>2, <1>3

LEMMA OnwardReview ==
    ASSUME TypeInv, NEW p \in Scripts, NEW step, ScriptInv(p), Onward(p, step),
           steady'[p] \subseteq steady[p], found[p].own \subseteq found'[p].own,
           EvidenceSaw(p, step), ReviewSaw(p, step)
    PROVE  ReviewWatch(p)'
<1>1. /\ kind'[p] = kind[p] /\ cfg'[p] = cfg[p] /\ Running(p)
      /\ \A other \in StepNames \ {step} : StillDue(p, other)
  BY DEF Onward, At, Running
<1>2. {"checklist", "approval", "circuit_again", "payload", "monitor_report"} \subseteq StepNames
  BY DEF StepNames
<1>3. ASSUME kind[p] \in Reviews PROVE ReviewWatch(p)'
  <2>1. ReviewTold(p) /\ steady[p] \subseteq Concerns(p)
    BY ReviewTells DEF ScriptInv
  <2>2. StillDue(p, "checklist") \/ (Names(p, "item")' => Bad(found'[p].own))
    <3>1. Names(p, "item")' => Names(p, "item")
      BY DEF Names
    <3> QED
      BY <1>1, <1>2, <1>3, <2>1, <3>1 DEF ReviewTold, ReviewSaw
  <2>3. StillDue(p, "approval") \/ (Has(p, "approval")' => Bad(found'[p].own))
    BY <1>1, <1>2, <1>3, <2>1 DEF Has, ReviewTold, ReviewSaw
  <2>4. StillDue(p, "circuit_again") \/ (Has(p, "circuit")' => Bad(found'[p].own))
    BY <1>1, <1>2, <1>3, <2>1 DEF Has, ReviewTold, ReviewSaw
  <2>5. \/ StillDue(p, "monitor_report")
        \/ kind[p] = "review" /\ Has(p, "monitor")' => Bad(found'[p].own)
    BY <1>1, <1>2, <1>3, <2>1 DEF Has, ReviewTold, ReviewSaw
  <2>6. ASSUME NEW e \in Evidence, <<"evidence", e>> \in steady'[p]
        PROVE  validationFile = "none" /\ e \notin evidence
    BY <1>3, <2>1, <2>6 DEF ReviewTold
  <2>7. Blocked \in found'[p].own => Bad(found'[p].own)
    BY DEF Bad
  <2>8. \A e \in Evidence : <<"evidence", e>> \in steady'[p] /\ e \in left[p] =>
            e \in left'[p] \/ Bad(found'[p].own)
    BY <2>6, <2>7 DEF EvidenceSaw
  <2>9. "payload" \in Rest(p) /\ left[p] = {} =>
               \/ "payload" \in Rest(p)' /\ left'[p] = {}
               \/ /\ Has(p, "validation")' => Bad(found'[p].own)
                  /\ \A e \in Evidence : <<"evidence", e>> \in steady'[p] =>
                         e \in left'[p] \/ Bad(found'[p].own)
    <3> SUFFICES ASSUME "payload" \in Rest(p), left[p] = {}
                 PROVE  \/ "payload" \in Rest(p)' /\ left'[p] = {}
                        \/ /\ Has(p, "validation")' => Bad(found'[p].own)
                           /\ \A e \in Evidence : <<"evidence", e>> \in steady'[p] =>
                                  e \in left'[p] \/ Bad(found'[p].own)
      OBVIOUS
    <3>1. CASE step # "payload"
      BY <1>1, <1>2, <3>1 DEF StillDue, EvidenceSaw
    <3>2. CASE step = "payload"
      <4>1. Has(p, "validation")' => Bad(found'[p].own)
        BY <1>3, <2>1, <3>2 DEF Has, ReviewTold, EvidenceSaw
      <4>2. \A e \in Evidence : <<"evidence", e>> \in steady'[p] => e \in left'[p]
        BY <2>6, <3>2 DEF EvidenceSaw
      <4> QED
        BY <4>1, <4>2
    <3> QED
      BY <3>1, <3>2
  <2> QED
    BY <1>1, <2>2, <2>3, <2>4, <2>5, <2>8, <2>9, ReviewWatchKept DEF ScriptInv
<1>4. ASSUME kind[p] \notin Reviews PROVE ReviewWatch(p)'
  BY <1>1, <1>4 DEF ReviewWatch
<1> QED
  BY <1>3, <1>4

LEMMA OnwardMonitor ==
    ASSUME TypeInv, TypeInv', SnapshotInv, GateNext,
           NEW p \in Scripts, NEW step, ScriptInv(p), Onward(p, step),
           steady'[p] \subseteq steady[p], steady'[p] \subseteq Concerns(p)',
           found[p].own \subseteq found'[p].own,
           \/ step # "monitor_fill" /\ found[p].monitor \subseteq found'[p].monitor
           \/ /\ step = "monitor_fill"
              /\ kind[p] = "review" \/ (MonitorNoted(p) => MonitorNoted(p)'),
           CompareSaw(p, step)
    PROVE  MonitorWatch(p)'
<1>1. /\ kind'[p] = kind[p] /\ cfg'[p] = cfg[p] /\ Running(p) /\ At(p, step)
      /\ \A other \in StepNames \ {step} : StillDue(p, other)
  BY DEF Onward, At, Running
<1>2. {"snapshot", "account", "target", "monitor_fill"} \subseteq StepNames
  BY DEF StepNames
<1>3. \A other \in Rest(p) : Stage(step) <= Stage(other)
  BY <1>1, HeadFirst DEF ScriptInv, ProgramInv
<1>4. CASE kind[p] \notin {"monitor", "review_refresh"}
  BY <1>1, <1>4 DEF MonitorWatch
<1>5. CASE kind[p] \in {"monitor", "review_refresh"}
  <2>1. /\ MonitorTold(p) /\ steady[p] \subseteq Concerns(p)
        /\ MonitorSaw(p) /\ AccountSaw(p) /\ MonitorAhead(p)
    BY <1>1, <1>5, MonitorTells DEF ScriptInv, MonitorWatch
  <2>2. /\ Has(p, "snapshot")' => snapshot.age # "fresh"
        /\ Has(p, "orders")' => snapshot.orders /\ snapshot.qty = 0
        /\ Has(p, "account")' => account.age # "fresh"
        /\ Has(p, "target")' => target.age # "fresh"
        /\ \A c \in steady'[p] : c \in steady[p] /\ GapTold(c)
    BY <1>5, <2>1 DEF Has, MonitorTold
  <2>3. ASSUME step \in {"snapshot", "account", "target"}
        PROVE  /\ Bad(found'[p].monitor) => MonitorNoted(p)'
               /\ Bad(found[p].monitor) => MonitorNoted(p)'
    <3>1. "monitor_fill" \in Rest(p)
      BY <1>1, <2>1, <2>3, HeadFirst DEF MonitorAhead, ScriptInv, ProgramInv
    <3>2. "monitor_fill" \in Rest(p)' /\ found[p].monitor \subseteq found'[p].monitor
      BY <1>1, <1>2, <2>3, <3>1 DEF StillDue
    <3> QED
      BY <3>2 DEF MonitorNoted, Bad
  <2>a. MonitorNoted(p) => MonitorNoted(p)'
    <3>1. CASE step # "monitor_fill"
      <4>1. "monitor_fill" \in Rest(p) => "monitor_fill" \in Rest(p)'
        BY <1>1, <1>2, <3>1 DEF StillDue
      <4> QED
        BY <1>1, <3>1, <4>1 DEF MonitorNoted, Bad
    <3>2. CASE step = "monitor_fill"
      BY <1>5, <3>2
    <3> QED
      BY <3>1, <3>2
  <2>b. MonitorAhead(p)'
    <3>1. Rest(p)' \cap {"snapshot", "account", "target"} \subseteq Rest(p)
      BY <1>5 DEF Onward
    <3>2. step = "monitor_fill" => Rest(p) \cap {"snapshot", "account", "target"} = {}
      BY <1>3 DEF Stage
    <3> QED
      BY <1>1, <1>2, <2>1, <3>1, <3>2 DEF MonitorAhead, StillDue
  <2>4. StillDue(p, "snapshot") \/ (Has(p, "snapshot")' \/ Has(p, "orders")' => MonitorNoted(p)')
    <3> SUFFICES ASSUME step = "snapshot", Has(p, "snapshot")' \/ Has(p, "orders")'
                 PROVE  MonitorNoted(p)'
      BY <1>1, <1>2
    <3>1. snapshot.age \in Ages
      BY TypeParts DEF WorldType, SnapshotType
    <3>2. snapshot.age = "absent" => snapshot.source = "none"
      BY DEF SnapshotInv
    <3> QED
      BY <2>2, <2>3, <3>1, <3>2 DEF CompareSaw, Ages
  <2>5. StillDue(p, "account") \/ (AccountGaps(p)' => MonitorNoted(p)')
    <3> SUFFICES ASSUME step = "account", AccountGaps(p)' PROVE MonitorNoted(p)'
      BY <1>1, <1>2
    <3>1. "snapshot" \notin Rest(p) /\ "account" \in Rest(p)
      BY <1>1, <1>3, HeadFirst DEF Stage, ScriptInv, ProgramInv
    <3>2. /\ \A c \in steady[p] : /\ c[1] = "drift" => seen[p].snapshot.qty = c[2]
                                  /\ c[1] = "equity" => seen[p].snapshot.equity = c[2]
          /\ seen[p].snapshot.source = "none" => Bad(found[p].monitor)
      BY <2>1, <3>1 DEF MonitorSaw
    <3>3. CASE Has(p, "account")'
      BY <2>2, <2>3, <3>3 DEF CompareSaw
    <3>4. ASSUME NEW c \in steady'[p], c[1] \in {"drift", "equity"} PROVE MonitorNoted(p)'
      <4>1. c \in steady[p] /\ GapTold(c)
        BY <2>2
      <4>2. CASE seen[p].snapshot.source = "none"
        BY <2>3, <3>2, <4>2
      <4>3. CASE seen[p].snapshot.source # "none" /\ c[1] = "drift"
        <5>1. c[2] = snapshot.qty /\ snapshot.qty # account.qty
          BY <4>1, <4>3 DEF GapTold
        <5>2. seen[p].snapshot.qty = c[2]
          BY <3>2, <4>1, <4>3
        <5>3. seen[p].snapshot.qty # account.qty
          BY <5>1, <5>2
        <5>4. Bad(found'[p].monitor)
          BY <4>3, <5>3 DEF CompareSaw
        <5> QED
          BY <2>3, <5>4
      <4>4. CASE seen[p].snapshot.source # "none" /\ c[1] = "equity"
        <5>1. /\ c[2] = snapshot.equity /\ account.equity # 0
              /\ snapshot.equity # account.equity
          BY <4>1, <4>4 DEF GapTold
        <5>2. seen[p].snapshot.equity # account.equity
          BY <3>2, <4>1, <4>4, <5>1
        <5>3. Bad(found'[p].monitor)
          BY <4>4, <5>1, <5>2 DEF CompareSaw
        <5> QED
          BY <2>3, <5>3
      <4> QED
        BY <3>4, <4>2, <4>3, <4>4
    <3> QED
      BY <3>3, <3>4 DEF AccountGaps, Names
  <2>6. StillDue(p, "target") \/ (TargetGaps(p)' => MonitorNoted(p)')
    <3> SUFFICES ASSUME step = "target", TargetGaps(p)' PROVE MonitorNoted(p)'
      BY <1>1, <1>2
    <3>1. "snapshot" \notin Rest(p) /\ "account" \notin Rest(p) /\ "target" \in Rest(p)
      BY <1>1, <1>3, HeadFirst DEF Stage, ScriptInv, ProgramInv
    <3>2. \A c \in steady[p] : /\ c[1] = "exposure" => seen[p].snapshot.qty = c[2]
                               /\ c[1] = "paper_exposure" => seen[p].account.qty = c[2]
      BY <2>1, <3>1 DEF MonitorSaw, AccountSaw
    <3>3. CASE Has(p, "target")'
      BY <2>2, <2>3, <3>3 DEF CompareSaw
    <3>4. ASSUME NEW c \in steady'[p], c[1] \in {"exposure", "paper_exposure"} PROVE MonitorNoted(p)'
      <4>1. c \in steady[p] /\ GapTold(c)
        BY <2>2
      <4>2. CASE c[1] = "exposure"
        <5>1. c[2] = snapshot.qty /\ snapshot.qty # target.qty /\ target.age # "absent"
          BY <4>1, <4>2 DEF GapTold
        <5>2. seen[p].snapshot.qty = c[2]
          BY <3>2, <4>1, <4>2
        <5>3. seen[p].snapshot.qty # target.qty
          BY <5>1, <5>2
        <5>4. Bad(found'[p].monitor)
          BY <5>1, <5>3 DEF CompareSaw
        <5> QED
          BY <2>3, <5>4
      <4>3. CASE c[1] = "paper_exposure"
        <5>1. c[2] = account.qty /\ account.qty # target.qty /\ target.age # "absent"
          BY <4>1, <4>3 DEF GapTold
        <5>2. seen[p].account.qty # target.qty
          BY <3>2, <4>1, <4>3, <5>1
        <5>3. Bad(found'[p].monitor)
          BY <5>1, <5>2 DEF CompareSaw
        <5> QED
          BY <2>3, <5>3
      <4> QED
        BY <3>4, <4>2, <4>3
    <3> QED
      BY <3>3, <3>4 DEF TargetGaps, Names
  <2>7. MonitorSaw(p)'
    <3>1. CASE "snapshot" \in Rest(p)' \/ Rest(p)' \cap {"account", "target"} = {}
      BY <3>1 DEF MonitorSaw
    <3>2. CASE "snapshot" \notin Rest(p)' /\ Rest(p)' \cap {"account", "target"} # {}
      <4>1. Rest(p)' \cap {"account", "target"} \subseteq Rest(p)
        BY <1>5 DEF Onward
      <4>2. step # "monitor_verdict" /\ step # "monitor_fill"
        BY <1>3, <3>2, <4>1 DEF Stage
      <4>3. CASE step # "snapshot"
        <5>1. "snapshot" \in Rest(p) => "snapshot" \in Rest(p)'
          BY <1>1, <1>2, <4>3 DEF StillDue
        <5>2. seen'[p].snapshot = seen[p].snapshot /\ found[p].monitor \subseteq found'[p].monitor
          BY <4>2, <4>3 DEF CompareSaw
        <5> QED
          BY <2>1, <4>1, <5>1, <5>2, SawKept
      <4>4. CASE step = "snapshot"
        <5>1. \A c \in steady'[p] : GapTold(c)
          BY <2>2
        <5> QED
          BY <4>4, <5>1 DEF MonitorSaw, CompareSaw, GapTold
      <4> QED
        BY <4>3, <4>4
    <3> QED
      BY <3>1, <3>2
  <2>8. AccountSaw(p)'
    <3> SUFFICES ASSUME "account" \notin Rest(p)', "target" \in Rest(p)',
                        NEW c \in steady'[p], c[1] = "paper_exposure"
                 PROVE  seen'[p].account.qty = c[2]
      BY DEF AccountSaw
    <3>1. "target" \in Rest(p) /\ step # "monitor_verdict"
      BY <1>3, <1>5 DEF Onward, Stage
    <3>2. CASE step = "account"
      <4>1. GapTold(c)
        BY <2>2
      <4> QED
        BY <3>2, <4>1 DEF CompareSaw, GapTold
    <3>3. CASE step # "account"
      BY <1>1, <1>2, <2>1, <2>2, <3>1, <3>3 DEF CompareSaw, AccountSaw, StillDue
    <3> QED
      BY <3>2, <3>3
  <2> QED
    BY <1>1, <2>4, <2>5, <2>6, <2>7, <2>8, <2>a, <2>b, MonitorWatchKept DEF ScriptInv
<1> QED
  BY <1>4, <1>5

\* The parts together.
LEMMA OnwardKept ==
    ASSUME TypeInv, TypeInv', SnapshotInv, GateNext,
           NEW p \in Scripts, NEW step, ScriptInv(p), Onward(p, step),
           kind[p] \in Reviews \/ found[p].gate \subseteq found'[p].gate,
           found[p].own \subseteq found'[p].own,
           \/ step # "monitor_fill" /\ found[p].monitor \subseteq found'[p].monitor
           \/ /\ step = "monitor_fill"
              /\ kind[p] = "review" \/ (MonitorNoted(p) => MonitorNoted(p)'),
           GateSaw(p, step), EvidenceSaw(p, step), CompareSaw(p, step), ReviewSaw(p, step)
    PROVE  ScriptInv(p)'
<1>1. left'[p] # {} => At(p, "evidence")' \/ At(p, "payload")'
  BY DEF EvidenceSaw
<1>2. ProgramInv(p)' /\ kind[p] # "none" /\ outcome'[p] = "none"
  BY <1>1, OnwardProgram
<1>3. steady'[p] \subseteq steady[p] /\ steady'[p] \subseteq Concerns(p)'
  BY <1>2, Remembered DEF GateNext
<1>4. GateWatch(p)' /\ ConfigInv(p)'
  BY <1>2, <1>3, OnwardGate
<1>5. EvidenceWatch(p)'
  BY <1>3, OnwardEvidence
<1>6. ReviewWatch(p)'
  BY <1>3, OnwardReview
<1>7. MonitorWatch(p)'
  BY <1>3, OnwardMonitor
<1> QED
  BY <1>2, <1>3, <1>4, <1>5, <1>6, <1>7 DEF ScriptInv, Pass

LEMMA ProceedOnward ==
    ASSUME TypeInv, NEW p \in Scripts, NEW step, ScriptInv(p), At(p, step), Proceed(p),
           UNCHANGED <<kind, cfg, outcome>>
    PROVE  Onward(p, step)
<1>1. Ordered(todo[p]) /\ todo[p] # <<>> /\ Head(todo[p]) = step
  BY DEF ScriptInv, ProgramInv, At
<1>2. /\ Rest(p)' \subseteq Rest(p)
      /\ \A other \in Rest(p) : other = step \/ other \in Rest(p)'
      /\ Ordered(todo'[p])
  BY <1>1, Proceeded
<1> QED
  BY <1>2 DEF Onward, StillDue

\* A step that does not look at evidence finds that none is left to look at.
LEMMA QuietEvidence ==
    ASSUME NEW p \in Scripts, NEW step, ScriptInv(p), At(p, step),
           step \notin {"evidence", "payload"}, left'[p] = left[p]
    PROVE  EvidenceSaw(p, step)
BY DEF ScriptInv, ProgramInv, At, EvidenceSaw

\* A check that goes on, up to what it finds.
LEMMA CheckKept ==
    ASSUME TypeInv, TypeInv', GateInv, GateNext, NEW p \in Scripts, NEW step, At(p, step),
           step \notin {"evidence", "payload", "monitor_fill", "monitor_verdict"},
           NEW report \in ReportNames, NEW S \in SUBSET Statuses,
           Note(p, report, S), Proceed(p), UNCHANGED <<kind, cfg, left, outcome>>,
           S \subseteq found'[p][report] => GateSaw(p, step) /\ CompareSaw(p, step) /\ ReviewSaw(p, step)
    PROVE  ScriptInv(p)'
<1>1. SnapshotInv /\ ScriptInv(p)
  BY DEF GateInv
<1>2. /\ found'[p][report] = found[p][report] \cup S
      /\ \A other \in ReportNames \ {report} : found'[p][other] = found[p][other]
  BY Noted
<1>3. /\ found[p]["gate"] \subseteq found'[p]["gate"]
      /\ found[p]["monitor"] \subseteq found'[p]["monitor"]
      /\ found[p]["own"] \subseteq found'[p]["own"]
  BY <1>2 DEF ReportNames
<1>4. Onward(p, step) /\ EvidenceSaw(p, step)
  BY <1>1, ProceedOnward, QuietEvidence
<1>5. GateSaw(p, step) /\ CompareSaw(p, step) /\ ReviewSaw(p, step)
  BY <1>2
<1> QED
  BY <1>1, <1>3, <1>4, <1>5, OnwardKept

\* A step that reads nothing for a verdict.
LEMMA WriteKept ==
    ASSUME TypeInv, TypeInv', GateInv, GateNext, NEW p \in Scripts, NEW step, At(p, step),
           step \in {"validation_verdict", "refresh", "offline_append", "monitor_verdict",
                     "defaults", "kill_truncate"},
           Onward(p, step), left'[p] = left[p], found'[p] = found[p],
           step = "monitor_verdict" \/ seen'[p] = seen[p]
    PROVE  ScriptInv(p)'
<1>1. SnapshotInv /\ ScriptInv(p)
  BY DEF GateInv
<1>2. EvidenceSaw(p, step)
  BY <1>1, QuietEvidence
<1>3. GateSaw(p, step) /\ CompareSaw(p, step) /\ ReviewSaw(p, step)
  BY DEF GateSaw, CompareSaw, ReviewSaw
<1> QED
  BY <1>1, <1>2, <1>3, OnwardKept

LEMMA GateReadsKept ==
    ASSUME TypeInv, TypeInv', GateInv, GateNext, NEW p \in Scripts,
           \/ ReadKillSwitch(p) \/ ReadValidation(p) \/ ReadCircuit(p) \/ ReadCircuitFails(p)
           \/ CountUnknown(p) \/ CountUnknownFails(p)
    PROVE  ScriptInv(p)'
<1>1. hard \in Statuses /\ unknown \in BOOLEAN
  BY TypeParts DEF WorldType
<1> USE DEF ReportNames
<1>2. CASE ReadKillSwitch(p)
  <2> DEFINE S == GateConfigChecks(cfg[p]) \cup {BlockIf(killFile = "on")}
  <2>1. S \in SUBSET Statuses
    BY ConfigWords, StatusWords
  <2>2. ASSUME S \subseteq found'[p]["gate"]
        PROVE  GateSaw(p, "kill") /\ CompareSaw(p, "kill") /\ ReviewSaw(p, "kill")
    BY <1>2, <2>2 DEF ReadKillSwitch, GateSaw, CompareSaw, ReviewSaw, BlockIf
  <2>3. /\ At(p, "kill") /\ Note(p, "gate", S) /\ Proceed(p)
        /\ UNCHANGED <<kind, cfg, left, outcome, seen>>
    BY <1>2 DEF ReadKillSwitch
  <2> HIDE DEF S
  <2> QED
    BY <2>1, <2>2, <2>3, CheckKept
<1>3. CASE ReadValidation(p)
  <2> DEFINE S == {BlockIf(validationFile # Pass)}
  <2>1. S \in SUBSET Statuses
    BY StatusWords
  <2>2. ASSUME S \subseteq found'[p]["gate"]
        PROVE  GateSaw(p, "validation") /\ CompareSaw(p, "validation") /\ ReviewSaw(p, "validation")
    BY <1>3, <2>2 DEF ReadValidation, GateSaw, CompareSaw, ReviewSaw, BlockIf
  <2>3. /\ At(p, "validation") /\ Note(p, "gate", S) /\ Proceed(p)
        /\ UNCHANGED <<kind, cfg, left, outcome, seen>>
    BY <1>3 DEF ReadValidation
  <2> HIDE DEF S
  <2> QED
    BY <2>1, <2>2, <2>3, CheckKept
<1>4. ASSUME NEW S \in SUBSET Statuses, At(p, "circuit"), Note(p, "gate", S), Proceed(p),
             UNCHANGED <<kind, cfg, left, outcome, seen>>,
             S = {hard} \/ (S = {Warn} /\ p \in lost')
      PROVE  ScriptInv(p)'
  <2>1. ASSUME S \subseteq found'[p]["gate"]
        PROVE  GateSaw(p, "circuit") /\ CompareSaw(p, "circuit") /\ ReviewSaw(p, "circuit")
    BY <1>4, <2>1 DEF GateSaw, CompareSaw, ReviewSaw, Bad
  <2> QED
    BY <1>4, <2>1, CheckKept
<1>5. ASSUME NEW S \in SUBSET Statuses, At(p, "circuit_again"), Note(p, "own", S), Proceed(p),
             UNCHANGED <<kind, cfg, left, outcome, seen>>, S = {hard} \/ S = {Warn}
      PROVE  ScriptInv(p)'
  <2>1. ASSUME S \subseteq found'[p]["own"]
        PROVE  /\ GateSaw(p, "circuit_again") /\ CompareSaw(p, "circuit_again")
               /\ ReviewSaw(p, "circuit_again")
    BY <1>1, <1>5, <2>1 DEF GateSaw, CompareSaw, ReviewSaw, Bad, Statuses
  <2> QED
    BY <1>5, <2>1, CheckKept
<1>6. CASE ReadCircuit(p)
  <2>1. {hard} \in SUBSET Statuses
    BY <1>1
  <2> QED
    BY <1>4, <1>5, <1>6, <2>1 DEF ReadCircuit, At
<1>7. CASE ReadCircuitFails(p)
  <2>1. {Warn} \in SUBSET Statuses
    BY StatusWords
  <2> QED
    BY <1>4, <1>5, <1>7, <2>1 DEF ReadCircuitFails, At
<1>8. CASE CountUnknown(p)
  <2> DEFINE S == {BlockIf(unknown)}
  <2>1. S \in SUBSET Statuses
    BY StatusWords
  <2>2. ASSUME S \subseteq found'[p]["gate"]
        PROVE  GateSaw(p, "unknown") /\ CompareSaw(p, "unknown") /\ ReviewSaw(p, "unknown")
    BY <1>8, <2>2 DEF CountUnknown, GateSaw, CompareSaw, ReviewSaw, BlockIf
  <2>3. /\ At(p, "unknown") /\ Note(p, "gate", S) /\ Proceed(p)
        /\ UNCHANGED <<kind, cfg, left, outcome, seen>>
    BY <1>8 DEF CountUnknown
  <2> HIDE DEF S
  <2> QED
    BY <2>1, <2>2, <2>3, CheckKept
<1>9. CASE CountUnknownFails(p)
  <2> DEFINE S == {Pass}
  <2>1. S \in SUBSET Statuses
    BY StatusWords
  <2>2. GateSaw(p, "unknown") /\ CompareSaw(p, "unknown") /\ ReviewSaw(p, "unknown")
    BY <1>9 DEF CountUnknownFails, GateSaw, CompareSaw, ReviewSaw
  <2>3. /\ At(p, "unknown") /\ Note(p, "gate", S) /\ Proceed(p)
        /\ UNCHANGED <<kind, cfg, left, outcome, seen>>
    BY <1>9 DEF CountUnknownFails
  <2> HIDE DEF S
  <2> QED
    BY <2>1, <2>2, <2>3, CheckKept
<1> QED
  BY <1>2, <1>3, <1>6, <1>7, <1>8, <1>9

LEMMA EvidenceKept ==
    ASSUME TypeInv, TypeInv', GateInv, GateNext, NEW p \in Scripts,
           NEW e \in Evidence, LookAtEvidence(p, e)
    PROVE  ScriptInv(p)'
<1>1. SnapshotInv /\ ScriptInv(p)
  BY DEF GateInv
<1>2. PICK step \in {"evidence", "payload"} : At(p, step)
  BY DEF LookAtEvidence
<1>3. /\ Note(p, "own", {BlockIf(e \notin evidence)})
      /\ {BlockIf(e \notin evidence)} \in SUBSET Statuses /\ "own" \in ReportNames
  BY StatusWords DEF LookAtEvidence, ReportNames
<1>4. /\ found'[p]["own"] = found[p]["own"] \cup {BlockIf(e \notin evidence)}
      /\ \A other \in ReportNames \ {"own"} : found'[p][other] = found[p][other]
  BY <1>3, Noted
<1>5. /\ found'[p]["gate"] = found[p]["gate"] /\ found'[p]["monitor"] = found[p]["monitor"]
      /\ found[p]["own"] \subseteq found'[p]["own"]
  BY <1>4 DEF ReportNames
<1>6. left'[p] = left[p] \ {e} /\ e \in left[p]
  BY TypeParts DEF LookAtEvidence, MemoryType
<1>7. Onward(p, step)
  <2>1. CASE Proceed(p)
    BY <1>1, <1>2, <2>1, ProceedOnward DEF LookAtEvidence
  <2>2. CASE UNCHANGED todo
    BY <1>1, <1>2, <2>2 DEF LookAtEvidence, Onward, ScriptInv, ProgramInv, StillDue, Rest, Elements
  <2> QED
    BY <2>1, <2>2 DEF LookAtEvidence
<1>8. EvidenceSaw(p, step)
  <2>1. \A x \in left[p] : x \in left'[p] \/ x \in evidence \/ Blocked \in found'[p].own
    BY <1>4, <1>6 DEF BlockIf
  <2>2. left'[p] # {} => At(p, "evidence")' \/ At(p, "payload")'
    <3> SUFFICES ASSUME left'[p] # {} PROVE At(p, "evidence")' \/ At(p, "payload")'
      OBVIOUS
    <3>1. todo' = todo
      BY <1>6 DEF LookAtEvidence
    <3> QED
      BY <1>2, <3>1 DEF At
  <2> QED
    BY <1>6, <2>1, <2>2 DEF EvidenceSaw
<1>9. GateSaw(p, step) /\ ReviewSaw(p, step)
  BY <1>2 DEF GateSaw, ReviewSaw
<1>10. CompareSaw(p, step)
  BY <1>2 DEF CompareSaw, LookAtEvidence
<1> QED
  BY <1>1, <1>2, <1>5, <1>7, <1>8, <1>9, <1>10, OnwardKept

LEMMA WritesKept ==
    ASSUME TypeInv, TypeInv', GateInv, GateNext, NEW p \in Scripts,
           \/ ValidationVerdict(p) \/ Fetch(p) \/ OfflineLook(p) \/ OfflineAppend(p)
           \/ MonitorVerdict(p) \/ AddDefaults(p) \/ KillSwitchTruncate(p)
    PROVE  ScriptInv(p)'
<1>1. ScriptInv(p) /\ Ordered(todo[p])
  BY DEF GateInv, ScriptInv, ProgramInv
<1>2. ASSUME NEW step \in {"validation_verdict", "refresh", "offline_append", "monitor_verdict",
                           "defaults", "kill_truncate"},
             At(p, step), Proceed(p), UNCHANGED <<kind, cfg, left, found, outcome>>,
             step = "monitor_verdict" \/ seen'[p] = seen[p]
      PROVE  ScriptInv(p)'
  BY <1>1, <1>2, ProceedOnward, WriteKept
<1>3. CASE ValidationVerdict(p)
  BY <1>2, <1>3 DEF ValidationVerdict
<1>4. CASE Fetch(p)
  BY <1>2, <1>4 DEF Fetch
<1>5. CASE OfflineLook(p)
  <2>1. At(p, "refresh") /\ todo[p] # <<>> /\ todo[p] \in Seq(StepNames)
    BY <1>5, TypeParts DEF OfflineLook, At, MemoryType
  <2>2. CASE Proceed(p)
    BY <1>2, <1>5, <2>2 DEF OfflineLook
  <2>3. CASE todo' = [todo EXCEPT ![p] = <<"offline_append">> \o Tail(@)]
    <3> DEFINE rest == Tail(todo[p])
               then == <<"offline_append">> \o rest
    <3>1. todo'[p] = then
      BY <2>3, TypeParts DEF MemoryType
    <3>2. /\ rest \in Seq(StepNames) /\ Ordered(rest)
          /\ Elements(todo[p]) = {"refresh"} \cup Elements(rest)
      BY <1>1, <2>1, TailKeeps DEF At
    <3>3. "offline_append" \in StepNames /\ \A y \in Elements(rest) : Stage("offline_append") <= Stage(y)
      BY DEF StepNames, Stage
    <3> HIDE DEF rest
    <3>4. Ordered(then) /\ Elements(then) = {"offline_append"} \cup Elements(rest)
      BY <3>2, <3>3, Before
    <3> HIDE DEF then
    <3>5. Rest(p)' = {"offline_append"} \cup Elements(rest) /\ Rest(p) = {"refresh"} \cup Elements(rest)
      BY <3>1, <3>2, <3>4 DEF Rest, Elements
    <3>6. /\ \A other \in StepNames \ {"refresh"} : StillDue(p, other)
          /\ Rest(p)' \subseteq Rest(p) \cup {"offline_append"}
      BY <3>5 DEF StillDue
    <3>7. /\ "monitor_fill" \in Rest(p)' => "monitor_fill" \in Rest(p)
          /\ Rest(p)' \cap {"account", "target"} \subseteq Rest(p)
      BY <3>6
    <3>8. Onward(p, "refresh")
      BY <1>5, <2>1, <3>1, <3>4, <3>6, <3>7 DEF Onward, OfflineLook
    <3> QED
      BY <1>5, <2>1, <3>8, WriteKept DEF OfflineLook
  <2> QED
    BY <1>5, <2>2, <2>3 DEF OfflineLook
<1>6. CASE OfflineAppend(p)
  BY <1>2, <1>6 DEF OfflineAppend
<1>7. CASE MonitorVerdict(p)
  BY <1>2, <1>7 DEF MonitorVerdict
<1>8. CASE AddDefaults(p)
  BY <1>2, <1>8 DEF AddDefaults
<1>9. CASE KillSwitchTruncate(p)
  BY <1>2, <1>9 DEF KillSwitchTruncate
<1> QED
  BY <1>3, <1>4, <1>5, <1>6, <1>7, <1>8, <1>9

LEMMA ComparesKept ==
    ASSUME TypeInv, TypeInv', GateInv, GateNext, NEW p \in Scripts,
           CompareSnapshot(p) \/ CompareAccount(p) \/ CompareTarget(p)
    PROVE  ScriptInv(p)'
<1>1. /\ seen \in [Scripts -> [snapshot : SnapshotType, account : AccountType]]
      /\ snapshot \in SnapshotType /\ account \in AccountType /\ target \in RowType
  BY TypeParts DEF WorldType, MemoryType
<1> USE DEF ReportNames
<1>2. CASE CompareSnapshot(p)
  <2> DEFINE S == {BlockIf(snapshot.source = "none"), WarnIf(snapshot.age = "stale"),
                   WarnIf(snapshot.orders /\ snapshot.qty = 0)}
  <2>1. S \in SUBSET Statuses
    BY StatusWords
  <2>2. /\ At(p, "snapshot") /\ Note(p, "monitor", S) /\ Proceed(p)
        /\ UNCHANGED <<kind, cfg, left, outcome>>
        /\ seen'[p].snapshot = snapshot /\ seen'[p].account = seen[p].account
    BY <1>1, <1>2 DEF CompareSnapshot, tables
  <2>3. ASSUME S \subseteq found'[p]["monitor"]
        PROVE  GateSaw(p, "snapshot") /\ CompareSaw(p, "snapshot") /\ ReviewSaw(p, "snapshot")
    <3>1. /\ snapshot.source = "none" => Bad(found'[p].monitor)
          /\ snapshot.age = "stale" => Bad(found'[p].monitor)
          /\ snapshot.orders /\ snapshot.qty = 0 => Bad(found'[p].monitor)
      BY <2>3 DEF BlockIf, WarnIf, Bad
    <3> QED
      BY <2>2, <3>1 DEF GateSaw, CompareSaw, ReviewSaw
  <2> HIDE DEF S
  <2> QED
    BY <2>1, <2>2, <2>3, CheckKept
<1>3. CASE CompareAccount(p)
  <2> DEFINE drift == \/ seen[p].snapshot.qty # account.qty
                      \/ account.equity # 0 /\ seen[p].snapshot.equity # account.equity
             S == {BlockIf(account.age = "absent"), WarnIf(account.age = "stale"),
                   WarnIf(/\ seen[p].snapshot.source # "none"
                          /\ account.age # "absent" /\ drift)}
  <2>1. S \in SUBSET Statuses
    BY StatusWords
  <2>2. /\ At(p, "account") /\ Note(p, "monitor", S) /\ Proceed(p)
        /\ UNCHANGED <<kind, cfg, left, outcome>>
        /\ seen'[p].snapshot = seen[p].snapshot /\ seen'[p].account = account
    BY <1>1, <1>3 DEF CompareAccount
  <2>3. ASSUME S \subseteq found'[p]["monitor"]
        PROVE  GateSaw(p, "account") /\ CompareSaw(p, "account") /\ ReviewSaw(p, "account")
    <3>1. account.age # "fresh" => Bad(found'[p].monitor)
      BY <1>1, <2>3 DEF BlockIf, WarnIf, Bad, AccountType, Ages
    <3>2. seen[p].snapshot.source # "none" /\ drift => Bad(found'[p].monitor)
      BY <2>3, <3>1 DEF WarnIf, Bad
    <3> QED
      BY <2>2, <3>1, <3>2 DEF GateSaw, CompareSaw, ReviewSaw
  <2> HIDE DEF S
  <2> QED
    BY <2>1, <2>2, <2>3, CheckKept
<1>4. CASE CompareTarget(p)
  <2> DEFINE S == {WarnIf(target.age # "fresh"),
                   WarnIf(/\ target.age # "absent"
                          /\ {seen[p].snapshot.qty, seen[p].account.qty} # {target.qty})}
  <2>1. S \in SUBSET Statuses
    BY StatusWords
  <2>2. /\ At(p, "target") /\ Note(p, "monitor", S) /\ Proceed(p)
        /\ UNCHANGED <<kind, cfg, left, outcome, seen>>
    BY <1>4 DEF CompareTarget
  <2>3. ASSUME S \subseteq found'[p]["monitor"]
        PROVE  GateSaw(p, "target") /\ CompareSaw(p, "target") /\ ReviewSaw(p, "target")
    <3>1. target.age # "fresh" => Bad(found'[p].monitor)
      BY <2>3 DEF WarnIf, Bad
    <3>2. ASSUME seen[p].snapshot.qty # target.qty \/ seen[p].account.qty # target.qty,
                 target.age # "absent"
          PROVE  Bad(found'[p].monitor)
      <4>1. {seen[p].snapshot.qty, seen[p].account.qty} # {target.qty}
        BY <3>2
      <4> QED
        BY <2>3, <3>2, <4>1 DEF WarnIf, Bad
    <3> QED
      BY <2>2, <3>1, <3>2 DEF GateSaw, CompareSaw, ReviewSaw
  <2> HIDE DEF S
  <2> QED
    BY <2>1, <2>2, <2>3, CheckKept
<1> QED
  BY <1>2, <1>3, <1>4

LEMMA MonitorReportKept ==
    ASSUME TypeInv, TypeInv', GateInv, GateNext, NEW p \in Scripts, ReadMonitorReport(p)
    PROVE  ScriptInv(p)'
<1>1. SnapshotInv /\ ScriptInv(p) /\ Ordered(todo[p])
  BY DEF GateInv, ScriptInv, ProgramInv
<1>2. At(p, "monitor_report") /\ todo[p] # <<>> /\ todo[p] \in Seq(StepNames)
  BY TypeParts DEF ReadMonitorReport, At, MemoryType
<1>3. UNCHANGED <<kind, cfg, left, outcome, seen>>
  BY DEF ReadMonitorReport
<1>4. CASE monitorFile = "none"
  <2> DEFINE rest == Tail(todo[p])
             then == <<"refresh">> \o CompareSteps \o rest
  <2>1. todo'[p] = then /\ found' = found
    BY <1>4, TypeParts DEF ReadMonitorReport, MemoryType
  <2>2. /\ rest \in Seq(StepNames) /\ Ordered(rest)
        /\ Elements(todo[p]) = {"monitor_report"} \cup Elements(rest)
    BY <1>1, <1>2, TailKeeps DEF At
  <2>3. \A y \in Elements(rest) : Stage(y) >= 5
    <3>1. \A y \in Elements(rest) : Stage("monitor_report") <= Stage(y)
      BY <1>1, <1>2, <2>2, TailKeeps DEF At
    <3> QED
      BY <3>1 DEF Stage
  <2> HIDE DEF rest
  <2>4. /\ Ordered(then)
        /\ Elements(then) = {"refresh"} \cup CompareNames \cup Elements(rest)
    BY <2>2, <2>3, ComparedThen DEF CompareNames
  <2> HIDE DEF then
  <2>5. /\ Rest(p)' = {"refresh"} \cup CompareNames \cup Elements(rest)
        /\ Rest(p) = {"monitor_report"} \cup Elements(rest)
    BY <2>1, <2>2, <2>4 DEF Rest, Elements
  <2>6. kind[p] = "review" /\ kind[p] \in Reviews
    BY <1>1, <2>5 DEF ScriptInv, ProgramInv, StepsOfKind, Reviews
  <2>7. /\ \A other \in StepNames \ {"monitor_report"} : StillDue(p, other)
        /\ Rest(p)' \subseteq Rest(p) \cup {"refresh", "offline_append"} \cup CompareNames
        /\ "snapshot" \in Rest(p)'
    BY <2>5 DEF StillDue, CompareNames
  <2>8. Onward(p, "monitor_report")
    BY <1>2, <1>3, <2>1, <2>4, <2>6, <2>7 DEF Onward
  <2>9. /\ GateSaw(p, "monitor_report") /\ CompareSaw(p, "monitor_report")
        /\ ReviewSaw(p, "monitor_report")
    BY <1>3, <1>4 DEF GateSaw, CompareSaw, ReviewSaw, Warn, Blocked
  <2>10. EvidenceSaw(p, "monitor_report")
    BY <1>1, <1>2, <1>3, QuietEvidence
  <2> QED
    BY <1>1, <2>1, <2>8, <2>9, <2>10, OnwardKept
<1>5. CASE monitorFile # "none"
  <2>1. {monitorFile} \in SUBSET Statuses /\ "own" \in ReportNames
    BY <1>5, TypeParts DEF WorldType, ReportNames
  <2>2. Note(p, "own", {monitorFile}) /\ Proceed(p)
    BY <1>5 DEF ReadMonitorReport
  <2>3. ASSUME {monitorFile} \subseteq found'[p]["own"]
        PROVE  /\ GateSaw(p, "monitor_report") /\ CompareSaw(p, "monitor_report")
               /\ ReviewSaw(p, "monitor_report")
    BY <1>3, <2>3 DEF GateSaw, CompareSaw, ReviewSaw, Bad
  <2> QED
    BY <1>2, <1>3, <2>1, <2>2, <2>3, CheckKept
<1> QED
  BY <1>4, <1>5

\* A report that is not a pass stays one when it becomes a check of the review.
LEMMA OverallBad == ASSUME NEW S PROVE Bad(S) <=> Overall(S) \in {Warn, Blocked}
BY DEF Bad, Overall, Pass, Warn, Blocked

LEMMA PayloadKept ==
    ASSUME TypeInv, TypeInv', GateInv, GateNext, NEW p \in Scripts, ReadPayload(p)
    PROVE  ScriptInv(p)'
<1> DEFINE gate == WarnIf(Overall(found[p].gate) = Warn)
<1>1. SnapshotInv /\ ScriptInv(p)
  BY DEF GateInv
<1>2. At(p, "payload") /\ left[p] = {} /\ UNCHANGED <<kind, cfg, outcome, seen>>
  BY DEF ReadPayload
<1>3. kind[p] \in Reviews
  BY <1>1, <1>2, HeadFirst DEF ScriptInv, ProgramInv, StepsOfKind
<1>4. /\ found \in [Scripts -> FoundType] /\ left \in [Scripts -> SUBSET Evidence]
  BY TypeParts DEF MemoryType
<1>5. Evidence # {}
  BY DEF Evidence
<1>6. /\ found[p].own \subseteq found'[p].own /\ found'[p].monitor = found[p].monitor
      /\ validationFile = Blocked => Bad(found'[p].own)
      /\ validationFile = "none" => left'[p] = Evidence /\ todo' = todo
      /\ validationFile # "none" => left'[p] = {} /\ Proceed(p)
  <2>1. CASE validationFile = "none"
    <3>1. /\ found' = [found EXCEPT ![p].own = @ \cup {gate}, ![p].gate = {}]
          /\ left' = [left EXCEPT ![p] = Evidence] /\ todo' = todo
      BY <2>1 DEF ReadPayload
    <3> HIDE DEF gate
    <3>2. found'[p].own = found[p].own \cup {gate} /\ found'[p].monitor = found[p].monitor
      BY <1>4, <3>1 DEF FoundType
    <3> QED
      BY <1>4, <2>1, <3>1, <3>2 DEF Blocked
  <2>2. CASE validationFile # "none"
    <3>1. /\ found' = [found EXCEPT ![p].own = @ \cup {gate, validationFile}, ![p].gate = {}]
          /\ Proceed(p) /\ left' = left
      BY <2>2 DEF ReadPayload
    <3> HIDE DEF gate
    <3>2. /\ found'[p].own = found[p].own \cup {gate, validationFile}
          /\ found'[p].monitor = found[p].monitor
      BY <1>4, <3>1 DEF FoundType
    <3> QED
      BY <1>2, <2>2, <3>1, <3>2 DEF Bad
  <2> QED
    BY <2>1, <2>2
<1>7. Onward(p, "payload")
  <2>1. CASE todo' = todo
    BY <1>1, <1>2, <2>1 DEF Onward, ScriptInv, ProgramInv, StillDue, Rest, Elements
  <2>2. CASE Proceed(p)
    BY <1>1, <1>2, <2>2, ProceedOnward
  <2> QED
    BY <1>6, <2>1, <2>2
<1>8. EvidenceSaw(p, "payload")
  <2>1. left'[p] # {} => At(p, "payload")'
    <3> SUFFICES ASSUME left'[p] # {} PROVE At(p, "payload")'
      OBVIOUS
    <3>1. todo' = todo
      BY <1>6
    <3> QED
      BY <1>2, <3>1 DEF At
  <2> QED
    BY <1>2, <1>6, <2>1 DEF EvidenceSaw
<1>9. GateSaw(p, "payload") /\ CompareSaw(p, "payload") /\ ReviewSaw(p, "payload")
  BY <1>2 DEF GateSaw, CompareSaw, ReviewSaw
<1> QED
  BY <1>1, <1>3, <1>6, <1>7, <1>8, <1>9, OnwardKept

LEMMA ReviewChecksKept ==
    ASSUME TypeInv, TypeInv', GateInv, GateNext, NEW p \in Scripts,
           LoadChecklist(p) \/ LatestApproval(p)
    PROVE  ScriptInv(p)'
<1> USE DEF ReportNames
<1>1. CASE LoadChecklist(p)
  <2> DEFINE S == {BlockIf(\E i \in DOMAIN checklist : checklist[i] \notin Accepted)}
  <2>1. S \in SUBSET Statuses
    BY StatusWords
  <2>2. /\ At(p, "checklist") /\ Note(p, "own", S) /\ Proceed(p)
        /\ UNCHANGED <<kind, cfg, left, outcome, seen>>
    BY <1>1 DEF LoadChecklist
  <2>3. ASSUME S \subseteq found'[p]["own"]
        PROVE  GateSaw(p, "checklist") /\ CompareSaw(p, "checklist") /\ ReviewSaw(p, "checklist")
    BY <2>2, <2>3 DEF GateSaw, CompareSaw, ReviewSaw, BlockIf, Bad
  <2> HIDE DEF S
  <2> QED
    BY <2>1, <2>2, <2>3, CheckKept
<1>2. CASE LatestApproval(p)
  <2> DEFINE S == {BlockIf(approval # "approve")}
  <2>1. S \in SUBSET Statuses
    BY StatusWords
  <2>2. /\ At(p, "approval") /\ Note(p, "own", S) /\ Proceed(p)
        /\ UNCHANGED <<kind, cfg, left, outcome, seen>>
    BY <1>2 DEF LatestApproval
  <2>3. ASSUME S \subseteq found'[p]["own"]
        PROVE  GateSaw(p, "approval") /\ CompareSaw(p, "approval") /\ ReviewSaw(p, "approval")
    BY <2>2, <2>3 DEF GateSaw, CompareSaw, ReviewSaw, BlockIf, Bad
  <2> HIDE DEF S
  <2> QED
    BY <2>1, <2>2, <2>3, CheckKept
<1> QED
  BY <1>1, <1>2

LEMMA ReviewFillKept ==
    ASSUME TypeInv, TypeInv', GateInv, GateNext, NEW p \in Scripts, MonitorFill(p),
           kind[p] \in Reviews
    PROVE  ScriptInv(p)'
<1> DEFINE status == Overall(found[p].monitor)
<1>1. SnapshotInv /\ ScriptInv(p) /\ found \in [Scripts -> FoundType]
  BY TypeParts DEF GateInv, MemoryType
<1>2. /\ At(p, "monitor_fill") /\ Proceed(p) /\ UNCHANGED <<kind, cfg, left, outcome, seen>>
      /\ found' = [found EXCEPT ![p].own = @ \cup {status}, ![p].monitor = {}]
  BY DEF MonitorFill
<1>3. Bad(found[p].monitor) => Bad({status})
  BY OverallBad DEF Bad
<1> HIDE DEF status
<1>4. found'[p].own = found[p].own \cup {status} /\ found'[p].gate = found[p].gate
  BY <1>1, <1>2 DEF FoundType
<1>5. kind[p] = "review" \/ (MonitorNoted(p) => MonitorNoted(p)')
  BY <1>2, <1>3, <1>4 DEF MonitorNoted, Bad, Reviews
<1>6. Onward(p, "monitor_fill") /\ EvidenceSaw(p, "monitor_fill")
  BY <1>1, <1>2, ProceedOnward, QuietEvidence
<1>7. /\ GateSaw(p, "monitor_fill") /\ CompareSaw(p, "monitor_fill")
      /\ ReviewSaw(p, "monitor_fill")
  BY <1>2 DEF GateSaw, CompareSaw, ReviewSaw
<1> QED
  BY <1>1, <1>4, <1>5, <1>6, <1>7, OnwardKept

---------------------------------------------------------------------------
(* Verdicts                                                                *)

\* At a verdict nothing is left to read, so what was remembered was noted.
LEMMA LastStep ==
    ASSUME TypeInv, NEW p \in Scripts, ScriptInv(p),
           NEW step \in {"gate_verdict", "readiness_verdict", "validation_fill", "review_verdict",
                         "monitor_fill", "kill_on", "kill_off"},
           At(p, step)
    PROVE  /\ Running(p) /\ left[p] = {} /\ step \in Rest(p) /\ outcome[p] = "none"
           /\ Rest(p) \cap {"snapshot", "account", "target"} = {}
           /\ step # "monitor_fill" =>
                Rest(p) \cap (GateNames \cup ClosingNames \cup {"monitor_report", "monitor_fill"})
                    \subseteq {"review_verdict"}
<1>1. Ordered(todo[p]) /\ ProgramInv(p) /\ todo[p] # <<>>
  BY DEF ScriptInv, ProgramInv, At
<1>2. /\ step \in Rest(p) /\ Running(p) /\ \A other \in Rest(p) : Stage(step) <= Stage(other)
  BY <1>1, HeadFirst
<1>3. left[p] = {} /\ outcome[p] = "none"
  BY <1>1 DEF ProgramInv, At
<1>4. Stage(step) >= 5
  BY DEF Stage
<1>5. step # "monitor_fill" => Stage(step) >= 7
  BY DEF Stage
<1>6. Rest(p) \cap {"snapshot", "account", "target"} = {}
  BY <1>2, <1>4 DEF Stage
<1>7. ASSUME step # "monitor_fill",
             NEW other \in Rest(p) \cap (GateNames \cup ClosingNames \cup {"monitor_report", "monitor_fill"})
      PROVE  other = "review_verdict"
  <2>1. Stage(other) >= 7
    BY <1>2, <1>5, <1>7 DEF Stage
  <2> QED
    BY <2>1, <1>7 DEF Stage, GateNames, ClosingNames
<1> QED
  BY <1>2, <1>3, <1>6, <1>7

LEMMA GatePasses ==
    ASSUME NEW p \in Scripts, ScriptInv(p), Running(p), kind[p] \in {"gate", "readiness"},
           left[p] = {}, Rest(p) \cap GateNames = {},
           Blocked \notin found[p].gate,
           kind[p] = "gate" => ~ Bad(found[p].gate),
           kind[p] = "readiness" => Blocked \notin found[p].own
    PROVE  steady[p] = {}
<1>1. GateTold(p) /\ steady[p] \subseteq Concerns(p) /\ GateWatch(p) /\ EvidenceWatch(p)
  BY GateTells DEF ScriptInv
<1>2. /\ ~ Names(p, "off") /\ ~ Has(p, "kill_switch") /\ ~ Has(p, "validation")
      /\ ~ Has(p, "hard_circuit") /\ ~ Has(p, "unknown_order")
      /\ kind[p] = "gate" => ~ Has(p, "no_curve")
  BY <1>1 DEF GateWatch, GateNames
<1>3. kind[p] = "readiness" => \A e \in Evidence : <<"evidence", e>> \notin steady[p]
  BY <1>1 DEF EvidenceWatch
<1>4. ASSUME NEW c \in steady[p] PROVE FALSE
  BY <1>1, <1>2, <1>3 DEF GateTold, Names, Has
<1> QED
  BY <1>4

LEMMA ValidationPasses ==
    ASSUME NEW p \in Scripts, ScriptInv(p), Running(p), kind[p] = "validate",
           left[p] = {}, Blocked \notin found[p].own
    PROVE  steady[p] = {}
BY EvidenceTells DEF ScriptInv, EvidenceWatch, EvidenceTold

LEMMA MonitorPasses ==
    ASSUME NEW p \in Scripts, ScriptInv(p), Running(p), kind[p] = "monitor",
           Rest(p) \cap {"snapshot", "account", "target"} = {}, ~ Bad(found[p].monitor)
    PROVE  steady[p] = {}
<1>1. MonitorTold(p) /\ steady[p] \subseteq Concerns(p) /\ MonitorWatch(p)
  BY MonitorTells DEF ScriptInv
<1>2. /\ \A n \in MonitorNames : ~ Has(p, n)
      /\ \A n \in GapNames : ~ Names(p, n)
  BY <1>1 DEF MonitorWatch, MonitorNoted, MonitorNames, GapNames, AccountGaps, TargetGaps
<1> QED
  BY <1>1, <1>2 DEF MonitorTold, Has, Names

LEMMA ReviewPasses ==
    ASSUME NEW p \in Scripts, ScriptInv(p), Running(p), kind[p] \in Reviews, left[p] = {},
           Rest(p) \cap {"snapshot", "account", "target", "monitor_report", "monitor_fill"} = {},
           Rest(p) \cap {"checklist", "approval", "circuit_again", "payload"} = {},
           ~ Bad(found[p].own)
    PROVE  steady[p] = {} /\ "master_enable" \notin cfg[p]
<1>1. ReviewTold(p) /\ steady[p] \subseteq Concerns(p) /\ ReviewWatch(p)
  BY ReviewTells DEF ScriptInv
<1>2. Audit(cfg[p]) \cap {Warn, Blocked} = {}
  BY <1>1 DEF ReviewWatch, Bad
<1>3. /\ AuditSwitches \subseteq cfg[p]
      /\ {"master_enable", "allow_live_trading"} \cap cfg[p] = {}
  BY <1>2 DEF Audit, BlockIf, WarnIf, AuditSwitches
<1>4. ~ Names(p, "off") /\ ~ Names(p, "on")
  BY <1>1, <1>3 DEF ReviewTold
<1>5. /\ ~ Names(p, "item") /\ ~ Has(p, "approval") /\ ~ Has(p, "circuit") /\ ~ Has(p, "validation")
      /\ kind[p] = "review" => ~ Has(p, "monitor")
      /\ \A e \in Evidence : <<"evidence", e>> \notin steady[p]
  BY <1>1 DEF ReviewWatch
<1>6. kind[p] = "review_refresh" => /\ \A n \in MonitorNames : ~ Has(p, n)
                                    /\ \A n \in GapNames : ~ Names(p, n)
  BY DEF ScriptInv, MonitorWatch, MonitorNoted, MonitorNames, GapNames, AccountGaps, TargetGaps
<1>7. ASSUME NEW c \in steady[p] PROVE FALSE
  BY <1>1, <1>4, <1>5, <1>6 DEF ReviewTold, Names, Has
<1> QED
  BY <1>3, <1>7

LEMMA ConcludeKept ==
    ASSUME TypeInv, TypeInv', GateInv, GateNext, NEW p \in Scripts,
           NEW step \in {"gate_verdict", "readiness_verdict", "validation_fill", "review_verdict",
                         "monitor_fill", "kill_on", "kill_off"},
           At(p, step), NEW status \in Statuses, Conclude(p, status),
           UNCHANGED <<kind, cfg, left>>,
           status = Pass => steady[p] = {},
           status = Pass /\ kind[p] = "gate" => LaunchSwitches \subseteq cfg[p],
           status = Pass /\ kind[p] \in Reviews => "master_enable" \notin cfg[p]
    PROVE  ScriptInv(p)'
<1>1. ScriptInv(p)
  BY DEF GateInv
<1>2. Running(p) /\ left[p] = {} /\ kind[p] # "none"
  <2>1. Running(p) /\ left[p] = {}
    BY <1>1, LastStep
  <2> QED
    BY <1>1, <2>1 DEF ScriptInv, ProgramInv, Running
<1>3. outcome'[p] = status /\ todo'[p] = <<>> /\ status # "none"
  BY Concluded DEF Statuses, Pass, Warn, Blocked
<1>4. ~ Running(p)' /\ Rest(p)' = {} /\ Ordered(todo[p])'
  BY <1>3 DEF Running, Rest, Elements, Ordered
<1>5. ProgramInv(p)'
  BY <1>2, <1>3, <1>4 DEF ProgramInv, StepsOfKind
<1>6. GateWatch(p)' /\ EvidenceWatch(p)' /\ MonitorWatch(p)' /\ ReviewWatch(p)'
  BY <1>4 DEF GateWatch, EvidenceWatch, MonitorWatch, ReviewWatch
<1>7. ConfigInv(p)'
  BY <1>3, <1>4 DEF ConfigInv
<1>8. steady'[p] \subseteq Concerns(p)' /\ steady'[p] \subseteq steady[p]
  BY <1>2, Remembered DEF GateNext
<1>9. outcome'[p] = Pass => steady'[p] = {}
  BY <1>3, <1>8
<1> QED
  BY <1>5, <1>6, <1>7, <1>8, <1>9 DEF ScriptInv

LEMMA GateVerdictsKept ==
    ASSUME TypeInv, TypeInv', GateInv, GateNext, NEW p \in Scripts,
           GateVerdict(p) \/ ReadinessVerdict(p)
    PROVE  ScriptInv(p)'
<1>1. ScriptInv(p)
  BY DEF GateInv
<1>2. CASE GateVerdict(p)
  <2> DEFINE status == Overall(found[p].gate)
  <2>1. At(p, "gate_verdict") /\ Conclude(p, status) /\ UNCHANGED <<kind, cfg, left>>
    BY <1>2 DEF GateVerdict
  <2>2. status \in Statuses
    BY StatusWords
  <2>3. /\ Running(p) /\ left[p] = {} /\ "gate_verdict" \in Rest(p)
        /\ Rest(p) \cap GateNames = {}
    BY <1>1, <2>1, LastStep DEF GateNames
  <2>4. kind[p] = "gate"
    BY <1>1, <2>3 DEF ScriptInv, ProgramInv, StepsOfKind
  <2>5. ASSUME status = Pass PROVE ~ Bad(found[p].gate)
    BY <2>5, OverallBad DEF Pass, Warn, Blocked
  <2>6. status = Pass => steady[p] = {}
    BY <1>1, <2>3, <2>4, <2>5, GatePasses DEF Bad
  <2>7. status = Pass => LaunchSwitches \subseteq cfg[p]
    <3> SUFFICES ASSUME status = Pass PROVE LaunchSwitches \subseteq cfg[p]
      OBVIOUS
    <3>1. GateConfigChecks(cfg[p]) \subseteq found[p].gate
      BY <1>1, <2>3, <2>4 DEF ScriptInv, ConfigInv, GateNames
    <3> QED
      BY <2>5, <3>1 DEF GateConfigChecks, BlockIf, Bad
  <2> HIDE DEF status
  <2> QED
    BY <2>1, <2>2, <2>4, <2>6, <2>7, ConcludeKept DEF Reviews
<1>3. CASE ReadinessVerdict(p)
  <2> DEFINE status == BlockIf(\/ Overall(found[p].gate) = Blocked
                               \/ Overall(found[p].own) # Pass
                               \/ killFile = "on")
  <2>1. At(p, "readiness_verdict") /\ Conclude(p, status) /\ UNCHANGED <<kind, cfg, left>>
    BY <1>3 DEF ReadinessVerdict
  <2>2. status \in Statuses
    BY StatusWords
  <2>3. /\ Running(p) /\ left[p] = {} /\ "readiness_verdict" \in Rest(p)
        /\ Rest(p) \cap GateNames = {}
    BY <1>1, <2>1, LastStep DEF GateNames
  <2>4. kind[p] = "readiness"
    BY <1>1, <2>3 DEF ScriptInv, ProgramInv, StepsOfKind
  <2>5. ASSUME status = Pass PROVE Blocked \notin found[p].gate /\ Blocked \notin found[p].own
    BY <2>5 DEF BlockIf, Overall, Pass, Warn, Blocked
  <2>6. status = Pass => steady[p] = {}
    BY <1>1, <2>3, <2>4, <2>5, GatePasses
  <2> HIDE DEF status
  <2> QED
    BY <2>1, <2>2, <2>4, <2>6, ConcludeKept DEF Reviews
<1> QED
  BY <1>2, <1>3

LEMMA FillsKept ==
    ASSUME TypeInv, TypeInv', GateInv, GateNext, NEW p \in Scripts,
           \/ ValidationFill(p) \/ ReviewVerdict(p) \/ KillSwitchFill(p)
           \/ MonitorFill(p) /\ kind[p] \notin Reviews
    PROVE  ScriptInv(p)'
<1>1. ScriptInv(p)
  BY DEF GateInv
<1>2. CASE ValidationFill(p)
  <2> DEFINE status == Overall(found[p].own)
  <2>1. At(p, "validation_fill") /\ Conclude(p, status) /\ UNCHANGED <<kind, cfg, left>>
    BY <1>2 DEF ValidationFill
  <2>2. status \in Statuses
    BY StatusWords
  <2>3. Running(p) /\ left[p] = {} /\ "validation_fill" \in Rest(p)
    BY <1>1, <2>1, LastStep
  <2>4. kind[p] = "validate"
    BY <1>1, <2>3 DEF ScriptInv, ProgramInv, StepsOfKind
  <2>5. status = Pass => steady[p] = {}
    BY <1>1, <2>3, <2>4, ValidationPasses DEF Overall, Pass, Blocked
  <2> HIDE DEF status
  <2> QED
    BY <2>1, <2>2, <2>4, <2>5, ConcludeKept DEF Reviews
<1>3. CASE ReviewVerdict(p)
  <2> DEFINE status == Overall(found[p].own)
  <2>1. At(p, "review_verdict") /\ Conclude(p, status) /\ UNCHANGED <<kind, cfg, left>>
    BY <1>3 DEF ReviewVerdict
  <2>2. status \in Statuses
    BY StatusWords
  <2>3. /\ Running(p) /\ left[p] = {} /\ "review_verdict" \in Rest(p)
        /\ Rest(p) \cap {"snapshot", "account", "target", "monitor_report", "monitor_fill"} = {}
        /\ Rest(p) \cap {"checklist", "approval", "circuit_again", "payload"} = {}
    BY <1>1, <2>1, LastStep DEF ClosingNames
  <2>4. kind[p] \in Reviews
    BY <1>1, <2>3 DEF ScriptInv, ProgramInv, StepsOfKind
  <2>5. ASSUME status = Pass PROVE ~ Bad(found[p].own)
    BY <2>5, OverallBad DEF Pass, Warn, Blocked
  <2>6. status = Pass => steady[p] = {} /\ "master_enable" \notin cfg[p]
    BY <1>1, <2>3, <2>4, <2>5, ReviewPasses
  <2> HIDE DEF status
  <2> QED
    BY <2>1, <2>2, <2>4, <2>6, ConcludeKept DEF Reviews
<1>4. CASE KillSwitchFill(p)
  <2> DEFINE status == BlockIf(At(p, "kill_on"))
  <2>1. Conclude(p, status) /\ UNCHANGED <<kind, cfg, left>>
    BY <1>4 DEF KillSwitchFill
  <2>2. status \in Statuses
    BY StatusWords
  <2>3. PICK step \in {"kill_on", "kill_off"} : At(p, step)
    BY <1>4 DEF KillSwitchFill
  <2>4. step \in Rest(p)
    BY <1>1, <2>3, LastStep
  <2>5. kind[p] \in {"trigger", "clear"}
    BY <1>1, <2>4 DEF ScriptInv, ProgramInv, StepsOfKind
  <2>6. steady[p] = {}
    BY <1>1, <2>5, ConcernsOfKind DEF ScriptInv
  <2> HIDE DEF status
  <2> QED
    BY <2>1, <2>2, <2>3, <2>5, <2>6, ConcludeKept DEF Reviews
<1>5. CASE MonitorFill(p) /\ kind[p] \notin Reviews
  <2> DEFINE status == Overall(found[p].monitor)
  <2>1. At(p, "monitor_fill") /\ Conclude(p, status) /\ UNCHANGED <<kind, cfg, left>>
    BY <1>5 DEF MonitorFill
  <2>2. status \in Statuses
    BY StatusWords
  <2>3. /\ Running(p) /\ "monitor_fill" \in Rest(p)
        /\ Rest(p) \cap {"snapshot", "account", "target"} = {}
    BY <1>1, <2>1, LastStep
  <2>4. kind[p] = "monitor"
    BY <1>1, <1>5, <2>3 DEF ScriptInv, ProgramInv, StepsOfKind
  <2>5. ASSUME status = Pass PROVE ~ Bad(found[p].monitor)
    BY <2>5, OverallBad DEF Pass, Warn, Blocked
  <2>6. status = Pass => steady[p] = {}
    BY <1>1, <2>3, <2>4, <2>5, MonitorPasses
  <2> HIDE DEF status
  <2> QED
    BY <2>1, <2>2, <2>4, <2>6, ConcludeKept DEF Reviews
<1> QED
  BY <1>2, <1>3, <1>4, <1>5

---------------------------------------------------------------------------
(* The invariant                                                           *)

LEMMA ScriptKept ==
    ASSUME TypeInv, TypeInv', GateInv, GateNext, NEW p \in Scripts, ScriptStep(p)
    PROVE  ScriptInv(p)'
<1>1. CASE \E k \in Kinds[p] : Start(p, k)
  BY <1>1, StartKept
<1>2. CASE GateReads(p)
  BY <1>2, GateReadsKept, GateVerdictsKept DEF GateReads
<1>3. CASE ValidationStep(p)
  BY <1>3, EvidenceKept, WritesKept, FillsKept DEF ValidationStep
<1>4. CASE MonitorStep(p)
  BY <1>4, WritesKept, ComparesKept, ReviewFillKept, FillsKept DEF MonitorStep
<1>5. CASE ReviewStep(p)
  BY <1>5, WritesKept, MonitorReportKept, PayloadKept, ReviewChecksKept, FillsKept DEF ReviewStep
<1>6. CASE KillSwitchTruncate(p) \/ KillSwitchFill(p)
  BY <1>6, WritesKept, FillsKept
<1> QED
  BY <1>1, <1>2, <1>3, <1>4, <1>5, <1>6 DEF ScriptStep

LEMMA NextKept == TypeInv /\ GateInv /\ [GateNext]_vars => GateInv'
<1> SUFFICES ASSUME TypeInv, GateInv, [GateNext]_vars PROVE GateInv'
  OBVIOUS
<1>1. CASE UNCHANGED vars
  <2>1. SnapshotInv'
    BY <1>1 DEF vars, tables, GateInv, SnapshotInv
  <2>2. ASSUME NEW p \in Scripts PROVE ScriptInv(p)'
    <3>1. ScriptInv(p) /\ UNCHANGED <<files, tables, world, memory, steady>>
      BY <1>1 DEF GateInv, vars
    <3>2. Concerns(p)' = Concerns(p)
      BY <3>1 DEF Concerns, GateConcerns, MonitorConcerns, ReviewConcerns, files, tables, world, memory
    <3>3. ProgramInv(p)' /\ GateWatch(p)' /\ EvidenceWatch(p)'
      BY <3>1 DEF memory, ScriptInv, ProgramInv, StepsOfKind, GateWatch, EvidenceWatch, Rest,
         Running, Has, Names, At, Ordered, Elements
    <3>4. MonitorWatch(p)'
      BY <3>1 DEF memory, tables, ScriptInv, MonitorWatch, MonitorNoted, MonitorSaw, AccountSaw,
         MonitorAhead, AccountGaps, TargetGaps, Rest, Running, Has, Names, Elements
    <3>5. ReviewWatch(p)' /\ ConfigInv(p)'
      BY <3>1 DEF memory, ScriptInv, ReviewWatch, ConfigInv, Rest, Running, Has, Names, Elements
    <3> QED
      BY <3>1, <3>2, <3>3, <3>4, <3>5 DEF ScriptInv, memory
  <2> QED
    BY <2>1, <2>2 DEF GateInv
<1>2. CASE GateNext
  <2>1. TypeInv' /\ SnapshotInv'
    BY <1>2, NextTypes, SnapshotKept DEF GateInv
  <2>2. CASE \E p \in Scripts : ScriptStep(p)
    <3>1. PICK p \in Scripts : ScriptStep(p)
      BY <2>2
    <3>2. ScriptInv(p)'
      BY <1>2, <2>1, <3>1, ScriptKept
    <3>3. ASSUME NEW q \in Scripts, q # p PROVE ScriptInv(q)'
      <4>1. Untouched(q)
        BY <3>1, <3>3, ScriptTypes DEF Alone
      <4> QED
        BY <1>2, <2>1, <4>1, BystanderKept
    <3> QED
      BY <2>1, <3>2, <3>3 DEF GateInv
  <2>3. CASE OutsideStep
    <3>1. \A q \in Scripts : Untouched(q)
      BY <2>3, OutsideTypes
    <3> QED
      BY <1>2, <2>1, <3>1, BystanderKept DEF GateInv
  <2> QED
    BY <1>2, <2>2, <2>3 DEF GateNext
<1> QED
  BY <1>1, <1>2

LEMMA InitKept == GateInit => GateInv
<1> SUFFICES ASSUME GateInit PROVE GateInv
  OBVIOUS
<1>1. SnapshotInv
  <2>1. PICK ready \in BOOLEAN, held \in Holdings :
          snapshot = IF ready THEN Snapshot("private", [Flat EXCEPT !.qty = held.snapshot])
                     ELSE NoSnapshot
    BY DEF GateInit
  <2> QED
    BY <2>1 DEF SnapshotInv, Snapshot, NoSnapshot, Flat
<1>2. ASSUME NEW p \in Scripts PROVE ScriptInv(p)
  <2>1. /\ kind[p] = "none" /\ todo[p] = <<>> /\ outcome[p] = "none" /\ left[p] = {}
        /\ steady[p] = {}
    BY DEF GateInit
  <2>2. ~ Running(p) /\ Rest(p) = {} /\ Ordered(todo[p])
    BY <2>1 DEF Running, Rest, Elements, Ordered
  <2>3. ProgramInv(p)
    BY <2>1, <2>2 DEF ProgramInv, StepsOfKind
  <2>4. /\ GateWatch(p) /\ EvidenceWatch(p) /\ MonitorWatch(p) /\ ReviewWatch(p) /\ ConfigInv(p)
    BY <2>1, <2>2 DEF GateWatch, EvidenceWatch, MonitorWatch, ReviewWatch, ConfigInv, Pass, Reviews
  <2> QED
    BY <2>1, <2>3, <2>4 DEF ScriptInv
<1> QED
  BY <1>1, <1>2 DEF GateInv

LEMMA GateInvariant == GateSpec => [](TypeInv /\ GateInv)
BY InitTypes, NextTypes, InitKept, NextKept, PTL DEF GateSpec

\* For any number of overlapping scripts and any changes beside them: a gate, a
\* readiness report, a validation, a monitor or a review that passes has
\* overlooked no concern of its documented list that held from its start to
\* its verdict.
THEOREM NothingOverlooked == GateSpec => []NoConcernOverlooked
<1>1. GateInv => NoConcernOverlooked
  BY DEF GateInv, ScriptInv, NoConcernOverlooked
<1> QED
  BY <1>1, GateInvariant, PTL

\* No configuration passes both the review, which asks for the live switches
\* to be off, and the live gate, which asks for them to be on.
THEOREM ReviewAndGateExclude == GateSpec => []ReviewExcludesGate
<1>1. GateInv => ReviewExcludesGate
  <2> SUFFICES ASSUME GateInv, NEW p \in Scripts, NEW q \in Scripts,
                      kind[p] \in Reviews, kind[q] = "gate",
                      outcome[p] = Pass, outcome[q] = Pass
               PROVE  cfg[p] # cfg[q]
    BY DEF ReviewExcludesGate
  <2>1. "master_enable" \notin cfg[p] /\ LaunchSwitches \subseteq cfg[q]
    BY DEF GateInv, ScriptInv, ConfigInv
  <2> QED
    BY <2>1 DEF LaunchSwitches
<1> QED
  BY <1>1, GateInvariant, PTL

=============================================================================
