------------------------ MODULE PaperTradingProofs ------------------------
(***************************************************************************)
(* What paper trading guarantees for every dataset, price, limit and       *)
(* number of runners, killed and repeated as often as one likes.           *)
(***************************************************************************)
EXTENDS PaperTrading, FiniteSetTheorems, TLAPS

---------------------------------------------------------------------------
(* The inductive invariants                                                *)

IsSequence(s) == s \in Seq({s[i] : i \in DOMAIN s})
AtWork(r) == pc[r] \notin {"idle", "loaded"}

\* Types, of everything but money.
ControlOK ==
    /\ dataset \in Seq(Bars) /\ Latest \in 1 .. MaxCandles
    /\ IsSequence(trades)
    /\ executions \subseteq (1 .. Latest) \X Actions
    /\ targets \subseteq 1 .. Latest /\ curve \subseteq 1 .. Latest
    /\ curve # {} => \E c \in curve : \A d \in curve : d <= c
    /\ pc \in [Runners -> PCs]
    /\ at \in [Runners -> 0 .. Latest] /\ \A r \in Runners : AtWork(r) => at[r] \in 1 .. Latest
    /\ action \in [Runners -> Actions]
    /\ order = [r \in Runners |-> order[r]] /\ mem = [r \in Runners |-> mem[r]]
    /\ crashes \in Nat /\ repeats \in Nat /\ crashes + repeats <= MaxFaults

\* Steps kept apart never overlap; what one of them writes is of its candle,
\* the newest there is.
OneAtATime == \A q, r \in Runners : pc[q] # "idle" /\ pc[r] # "idle" => q = r
NewestTaken ==
    \A r \in Runners : AtWork(r) =>
        /\ \A d \in curve \cup targets : d <= at[r]
        /\ \A e \in executions : e[1] <= at[r]

\* A model order is filled for the action it logs, once per action and candle;
\* without --allow-repeat a candle is taken only if it was not processed.
OrderOfAction ==
    \A r \in Runners \ Ensemble :
        pc[r] \in {"decided", "saved", "ordered"} /\ order[r] # NoOrder =>
            /\ order[r].side = action[r] /\ action[r] \in {"buy", "sell"}
            /\ pc[r] = "decided" => <<at[r], action[r]>> \notin executions
SideOfOrder ==
    \A r \in Runners \cap Ensemble :
        pc[r] \in {"decided", "saved", "ordered"} /\ order[r] # NoOrder =>
            order[r].side \in {"buy", "sell"}
TakenOnce ==
    repeats = 0 => \A r \in Runners :
        /\ r \notin Ensemble /\ AtWork(r) => \A d \in curve : d < at[r]
        /\ r \in Ensemble /\ pc[r] \in {"fresh", "decided", "saved", "ordered"} =>
             at[r] \notin targets

\* A trade that is counted has been logged, is on its way to be, or a kill
\* came between.
Underway(r, c, stages) == pc[r] \in stages /\ at[r] = c /\ order[r] # NoOrder
Once(cond) == crashes + (IF cond THEN 1 ELSE 0)
ActionsCounted ==
    \A c \in Nat, side \in {"buy", "sell"} :
        Count(c, "model", {side}) <=
            Once(\/ <<c, side>> \in executions
                 \/ \E r \in Runners \ Ensemble :
                       Underway(r, c, {"saved", "ordered"}) /\ action[r] = side)
CandlesCounted ==
    repeats = 0 => \A c \in Nat :
        /\ Count(c, "model", {"buy", "sell"}) <=
             Once(\/ \E d \in curve : c <= d
                  \/ \E r \in Runners \ Ensemble : Underway(r, c, {"saved", "ordered", "logged"}))
        /\ Count(c, "ensemble", {"buy", "sell"}) <=
             Once(\/ c \in targets
                  \/ \E r \in Runners \cap Ensemble : Underway(r, c, {"saved", "ordered"}))

ControlInv ==
    /\ ControlOK /\ OneAtATime /\ NewestTaken /\ OrderOfAction /\ SideOfOrder /\ TakenOnce
    /\ ActionsCounted /\ CandlesCounted

\* What became of the levels since the account was loaded.
Tightened(a, b) ==
    InPosition(a) /\ InPosition(b) /\ b.since = a.since => b.trail >= a.trail /\ b.stop = a.stop
MemoryFollows ==
    \A r \in Runners :
        /\ pc[r] \in {"loaded", "fresh"} => mem[r] = account
        /\ pc[r] = "decided" => Tightened(account, mem[r])
        /\ pc[r] \in {"saved", "ordered", "logged"} => mem[r] = account

\* The bars a position has survived.
Survived(a) ==
    InPosition(a) => \A c \in curve : c > a.since =>
        dataset[c].low > a.stop /\ dataset[c].high < a.take
SurvivedNow(a, c) ==
    InPosition(a) /\ c > a.since =>
        dataset[c].low > a.stop /\ dataset[c].low > a.trail /\ dataset[c].high < a.take
SoldSince(a) ==
    \A e \in executions : e[2] = "sell" /\ InPosition(a) => a.since >= e[1]
StopInv ==
    /\ Survived(account) /\ SoldSince(account)
    /\ \A r \in Runners :
           /\ pc[r] = "decided" => Survived(mem[r]) /\ SoldSince(mem[r])
           /\ pc[r] \in {"decided", "saved", "ordered", "logged"} => SurvivedNow(mem[r], at[r])
           /\ /\ r \notin Ensemble /\ pc[r] \in {"decided", "saved", "ordered"}
              /\ action[r] = "sell" /\ InPosition(mem[r])
              => mem[r].since >= at[r]

\* The account with which the model enters is worth a contract, and an account
\* that leaves a position the ensemble holds is worth something at the price
\* that closes it.
Managing(r) == Managed(Aged(mem[r]), dataset[at[r]])
EntriesFunded ==
    \A r \in Runners \ Ensemble :
        LET bar == dataset[at[r]]
        IN  pc[r] = "fresh" /\ ModelAction(Aged(mem[r]), bar, at[r]) = "buy" =>
                Equity(mem[r], bar.close) * EntryPercent >= 100
ExitsSolvent ==
    \A r \in Runners \cap Ensemble : pc[r] = "fresh" /\ InPosition(mem[r]) =>
        LET trigger == ExitTrigger(Managing(r), dataset[at[r]])
        IN  trigger # NoExit => Equity(Managing(r), trigger - Slip) > 0

---------------------------------------------------------------------------
(* Counting trades                                                         *)

LEMMA Appended ==
    ASSUME NEW s, IsSequence(s), NEW e
    PROVE  /\ IsSequence(Append(s, e)) /\ Len(s) \in Nat /\ DOMAIN s = 1 .. Len(s)
           /\ DOMAIN Append(s, e) = 1 .. Len(s) + 1
           /\ \A i \in DOMAIN s : Append(s, e)[i] = s[i]
           /\ Append(s, e)[Len(s) + 1] = e
<1> DEFINE old == {s[i] : i \in DOMAIN s}
           S == old \cup {e}
           t == Append(s, e)
<1>1. s \in Seq(old)
  BY DEF IsSequence
<1> HIDE DEF old
<1>2. s \in Seq(S) /\ e \in S
  BY <1>1
<1> HIDE DEF S
<1>3. /\ t \in Seq(S) /\ Len(t) = Len(s) + 1 /\ Len(s) \in Nat /\ DOMAIN s = 1 .. Len(s)
      /\ DOMAIN t = 1 .. Len(s) + 1 /\ \A i \in DOMAIN s : t[i] = s[i]
      /\ t[Len(s) + 1] = e
  BY <1>2
<1> HIDE DEF t
<1>4. t \in Seq({t[i] : i \in DOMAIN t})
  <2> DEFINE T == {t[i] : i \in DOMAIN t}
  <2>1. \A i \in 1 .. Len(t) : t[i] \in T
    BY <1>3
  <2>2. t = [i \in 1 .. Len(t) |-> t[i]] /\ Len(t) \in Nat
    BY <1>3
  <2> HIDE DEF T
  <2> QED
    BY <2>1, <2>2 DEF T
<1> QED
  BY <1>3, <1>4 DEF IsSequence, t

LEMMA Counts ==
    ASSUME NEW c, NEW kind, NEW sides, IsSequence(trades)
    PROVE  Count(c, kind, sides) \in Nat
<1>1. DOMAIN trades = 1 .. Len(trades) /\ Len(trades) \in Nat
  BY Appended
<1>2. IsFiniteSet(DOMAIN trades)
  BY <1>1, FS_Interval
<1> QED
  BY <1>2, FS_Subset, FS_CardinalityType DEF Count

LEMMA CountsOneMore ==
    ASSUME NEW c, NEW kind, NEW sides, IsSequence(trades), NEW e, trades' = Append(trades, e)
    PROVE  Count(c, kind, sides)' =
               Count(c, kind, sides) + (IF e.candle = c /\ e.by = kind /\ e.side \in sides THEN 1 ELSE 0)
<1> DEFINE Hit(s, i) == s[i].candle = c /\ s[i].by = kind /\ s[i].side \in sides
           old == {i \in DOMAIN trades : Hit(trades, i)}
           new == {i \in DOMAIN trades' : Hit(trades', i)}
           n == Len(trades) + 1
<1>1. /\ DOMAIN trades = 1 .. Len(trades) /\ Len(trades) \in Nat
      /\ DOMAIN trades' = 1 .. Len(trades) + 1
      /\ \A i \in DOMAIN trades : trades'[i] = trades[i]
      /\ trades'[n] = e
  BY Appended
<1>2. IsFiniteSet(old)
  <2>1. IsFiniteSet(DOMAIN trades)
    BY <1>1, FS_Interval
  <2> QED
    BY <2>1, FS_Subset
<1>3. n \notin old
  BY <1>1
<1>4. Count(c, kind, sides) = Cardinality(old) /\ Count(c, kind, sides)' = Cardinality(new)
  BY DEF Count
<1>5. CASE Hit(trades', n)
  <2>1. new = old \cup {n}
    BY <1>1, <1>5
  <2>2. Cardinality(old \cup {n}) = Cardinality(old) + 1
    BY <1>2, <1>3, FS_AddElement
  <2> QED
    BY <1>1, <1>4, <1>5, <2>1, <2>2
<1>6. CASE ~ Hit(trades', n)
  <2>1. new = old
    BY <1>1, <1>6
  <2>2. Cardinality(old) \in Nat
    BY <1>2, FS_CardinalityType
  <2>3. ~ (e.candle = c /\ e.by = kind /\ e.side \in sides)
    BY <1>1, <1>6
  <2> HIDE DEF old, new
  <2> QED
    BY <1>4, <2>1, <2>2, <2>3
<1> QED
  BY <1>5, <1>6

---------------------------------------------------------------------------
(* The steps of a runner                                                   *)

Acts(r) == Step(r) \/ Repeat(r) \/ Crash(r)
WorkOf(r) == /\ pc'[r] = pc[r] /\ at'[r] = at[r] /\ order'[r] = order[r]
             /\ action'[r] = action[r] /\ mem'[r] = mem[r]

LEMMA ModelActions == \A a, bar, c : ModelAction(a, bar, c) \in {"buy", "sell", "hold_cash", "hold_position"}
BY DEF ModelAction

\* The memory of the runners after a step: only that of the runner changes.
LEMMA StepFrame ==
    ASSUME ControlOK, NEW r \in Runners, Acts(r)
    PROVE  /\ dataset' = dataset
           /\ pc' \in [Runners -> PCs] /\ action' \in [Runners -> Actions]
           /\ at' \in [Runners -> 0 .. Latest]
           /\ order' = [q \in Runners |-> order'[q]] /\ mem' = [q \in Runners |-> mem'[q]]
           /\ \A q \in Runners \ {r} : WorkOf(q)
<1>1. /\ pc \in [Runners -> PCs] /\ action \in [Runners -> Actions] /\ at \in [Runners -> 0 .. Latest]
      /\ order = [q \in Runners |-> order[q]] /\ mem = [q \in Runners |-> mem[q]]
      /\ Latest \in Nat /\ Latest >= 1
  BY DEF ControlOK
<1>2. CASE Forget(r) /\ dataset' = dataset
  <2>1. /\ pc' = [pc EXCEPT ![r] = "idle"] /\ mem' = [mem EXCEPT ![r] = NewAccount]
        /\ at' = [at EXCEPT ![r] = 0] /\ order' = [order EXCEPT ![r] = NoOrder]
        /\ action' = [action EXCEPT ![r] = "none"]
    BY <1>2 DEF Forget
  <2>2. /\ pc' \in [Runners -> PCs] /\ action' \in [Runners -> Actions]
        /\ at' \in [Runners -> 0 .. Latest]
    BY <1>1, <2>1 DEF PCs, Actions
  <2>3. order' = [q \in Runners |-> order'[q]] /\ mem' = [q \in Runners |-> mem'[q]]
    BY <1>1, <2>1
  <2>4. \A q \in Runners \ {r} : WorkOf(q)
    BY <1>1, <2>1 DEF WorkOf
  <2> QED
    BY <1>2, <2>2, <2>3, <2>4
<1>3. CASE Load(r) \/ Check(r)
  BY <1>1, <1>3 DEF Load, Check, WorkOf, PCs
<1>4. CASE Decide(r)
  <2> DEFINE c == at[r]
             bar == dataset[c]
             act == IF r \in Ensemble THEN "rebalance" ELSE ModelAction(Aged(mem[r]), bar, c)
             a == Managed(Aged(mem[r]), bar)
             f == IF r \in Ensemble THEN EnsembleFill(a, bar, c)
                  ELSE IF Duplicate(act, c) THEN Unfilled(a)
                  ELSE ModelFill(a, act, bar, c)
  <2>1. act \in Actions
    BY ModelActions DEF Actions
  <2>2. /\ mem' = [mem EXCEPT ![r] = f.account] /\ order' = [order EXCEPT ![r] = f.order]
        /\ action' = [action EXCEPT ![r] = act] /\ pc' = [pc EXCEPT ![r] = "decided"]
        /\ dataset' = dataset /\ at' = at
    BY <1>4 DEF Decide
  <2> HIDE DEF act, f
  <2> QED
    BY <1>1, <2>1, <2>2 DEF WorkOf, PCs
<1>5. CASE SaveAccount(r) \/ AppendOrder(r) \/ AppendExecution(r) \/ AppendTarget(r)
  BY <1>1, <1>5 DEF SaveAccount, AppendOrder, AppendExecution, AppendTarget, WorkOf, PCs
<1> QED
  BY <1>2, <1>3, <1>4, <1>5 DEF Acts, Step, Skip, Take, Repeat, AppendEquity, Crash

\* What a step commits, and where it leaves the runner.
LEMMA StepTells ==
    ASSUME ControlOK, NEW r \in Runners, Acts(r)
    PROVE  \/ Load(r) /\ pc'[r] = "loaded"
           \/ /\ Take(r) \/ Repeat(r)
              /\ pc'[r] = "fresh" /\ at'[r] = Latest
           \/ Decide(r) /\ pc'[r] = "decided" /\ at'[r] = at[r]
           \/ /\ SaveAccount(r) /\ at'[r] = at[r] /\ order'[r] = order[r] /\ action'[r] = action[r]
              /\ pc'[r] = IF order[r] = NoOrder THEN "ordered" ELSE "saved"
           \/ /\ AppendOrder(r) \/ AppendExecution(r) \/ AppendTarget(r)
              /\ at'[r] = at[r] /\ order'[r] = order[r] /\ action'[r] = action[r]
              /\ pc'[r] = IF AppendOrder(r) THEN "ordered" ELSE "logged"
           \/ Skip(r) /\ pc'[r] = "idle"
           \/ AppendEquity(r) /\ pc'[r] = "idle"
           \/ Crash(r) /\ pc'[r] = "idle"
<1>1. /\ pc \in [Runners -> PCs] /\ action \in [Runners -> Actions] /\ at \in [Runners -> 0 .. Latest]
      /\ order = [q \in Runners |-> order[q]] /\ mem = [q \in Runners |-> mem[q]]
  BY DEF ControlOK
<1> QED
  BY <1>1 DEF Acts, Step, Load, Take, Repeat, Check, Decide, SaveAccount, AppendOrder, AppendExecution,
     AppendTarget, AppendEquity, Skip, Crash, Forget

---------------------------------------------------------------------------
(* What is not money has its type after every step                         *)

LEMMA ControlStep ==
    ASSUME ControlOK, NEW r \in Runners, Acts(r)
    PROVE  ControlOK'
<1>1. /\ dataset' = dataset /\ Latest' = Latest
      /\ pc' \in [Runners -> PCs] /\ action' \in [Runners -> Actions]
      /\ at' \in [Runners -> 0 .. Latest]
      /\ order' = [q \in Runners |-> order'[q]] /\ mem' = [q \in Runners |-> mem'[q]]
      /\ \A q \in Runners \ {r} : WorkOf(q)
  BY StepFrame DEF Latest
<1>2. /\ Latest \in 1 .. MaxCandles /\ at \in [Runners -> 0 .. Latest]
      /\ \A q \in Runners : AtWork(q) => at[q] \in 1 .. Latest
      /\ pc \in [Runners -> PCs] /\ action \in [Runners -> Actions]
      /\ Latest \in 1 .. Latest
  BY DEF ControlOK
<1>3. \A q \in Runners : AtWork(q)' => at'[q] \in 1 .. Latest
  <2>1. AtWork(r)' => at'[r] \in 1 .. Latest
    BY StepTells, <1>2 DEF AtWork, Decide, SaveAccount, AppendOrder, AppendExecution, AppendTarget
  <2>2. \A q \in Runners \ {r} : AtWork(q)' => at'[q] \in 1 .. Latest
    BY <1>1, <1>2 DEF AtWork, WorkOf
  <2> QED
    BY <2>1, <2>2
<1>4. IsSequence(trades')
  <2>1. CASE trades' = trades
    BY <2>1 DEF ControlOK
  <2>2. CASE trades' = Append(trades, Trade(r))
    <3>1. IsSequence(trades)
      BY DEF ControlOK
    <3> QED
      BY <2>2, <3>1, Appended
  <2> QED
    BY <2>1, <2>2 DEF Acts, Step, Load, Skip, Take, Repeat, Check, Decide, SaveAccount, AppendOrder,
       AppendExecution, AppendTarget, AppendEquity, Crash
<1>5. /\ executions' \subseteq (1 .. Latest) \X Actions
      /\ targets' \subseteq 1 .. Latest /\ curve' \subseteq 1 .. Latest
      /\ curve' # {} => \E c \in curve' : \A d \in curve' : d <= c
  <2>0. /\ executions \subseteq (1 .. Latest) \X Actions
        /\ targets \subseteq 1 .. Latest /\ curve \subseteq 1 .. Latest
        /\ curve # {} => \E c \in curve : \A d \in curve : d <= c
    BY DEF ControlOK
  <2>1. CASE UNCHANGED <<executions, targets, curve>>
    BY <2>0, <2>1
  <2>2. CASE AppendExecution(r)
    <3>1. at[r] \in 1 .. Latest /\ action[r] \in Actions
      BY <1>2, <2>2 DEF AppendExecution, AtWork
    <3> QED
      BY <2>0, <2>2, <3>1 DEF AppendExecution
  <2>3. CASE AppendTarget(r)
    <3>1. at[r] \in 1 .. Latest
      BY <1>2, <2>3 DEF AppendTarget, AtWork
    <3> QED
      BY <2>0, <2>3, <3>1 DEF AppendTarget
  <2>4. CASE AppendEquity(r)
    <3>1. at[r] \in 1 .. Latest /\ curve' = curve \cup {at[r]}
      BY <1>2, <2>4 DEF AppendEquity, AtWork
    <3>2. CASE curve = {}
      BY <2>0, <2>4, <3>1, <3>2 DEF AppendEquity
    <3>3. CASE curve # {}
      <4>1. PICK c \in curve : \A d \in curve : d <= c
        BY <2>0, <3>3
      <4>2. c \in 1 .. Latest /\ curve \subseteq Nat
        BY <2>0
      <4>3. CASE at[r] <= c
        <5>1. c \in curve' /\ \A d \in curve' : d <= c
          BY <3>1, <4>1, <4>3
        <5> QED
          BY <2>0, <2>4, <3>1, <5>1 DEF AppendEquity
      <4>4. CASE ~ (at[r] <= c)
        <5>1. at[r] \in curve' /\ \A d \in curve' : d <= at[r]
          BY <3>1, <4>1, <4>2, <4>4
        <5> QED
          BY <2>0, <2>4, <3>1, <5>1 DEF AppendEquity
      <4> QED
        BY <4>3, <4>4
    <3> QED
      BY <3>2, <3>3
  <2> QED
    BY <2>1, <2>2, <2>3, <2>4 DEF Acts, Step, Load, Skip, Take, Repeat, Check, Decide, SaveAccount, AppendOrder,
       Crash, tables
<1>6. crashes' \in Nat /\ repeats' \in Nat /\ crashes' + repeats' <= MaxFaults
  <2>1. crashes \in Nat /\ repeats \in Nat /\ crashes + repeats <= MaxFaults /\ MaxFaults \in Nat
    BY ConstantsAssumption DEF ControlOK
  <2>2. \/ crashes' = crashes /\ repeats' = repeats
        \/ crashes + repeats < MaxFaults /\ crashes' = crashes + 1 /\ repeats' = repeats
        \/ crashes + repeats < MaxFaults /\ crashes' = crashes /\ repeats' = repeats + 1
    BY DEF Acts, Step, Load, Skip, Take, Repeat, Check, Decide, SaveAccount, AppendOrder,
       AppendExecution, AppendTarget, AppendEquity, Crash, bounds
  <2> QED
    BY <2>1, <2>2
<1>7. dataset' \in Seq(Bars)
  BY <1>1 DEF ControlOK
<1> QED
  BY <1>1, <1>2, <1>3, <1>4, <1>5, <1>6, <1>7 DEF ControlOK

LEMMA ControlGrows ==
    ASSUME ControlOK, NEW b \in Bars, NewCandle(b)
    PROVE  ControlOK' /\ Latest' = Latest + 1 /\ \A c \in 1 .. Latest : dataset'[c] = dataset[c]
<1>1. dataset \in Seq(Bars) /\ dataset' = Append(dataset, b) /\ Latest < MaxCandles
  BY DEF ControlOK, NewCandle
<1>2. /\ Latest' = Latest + 1 /\ dataset' \in Seq(Bars) /\ Latest \in Nat
      /\ \A c \in 1 .. Latest : dataset'[c] = dataset[c]
  BY <1>1 DEF Latest
<1>3. /\ UNCHANGED tables /\ UNCHANGED memory /\ trades' = trades /\ UNCHANGED bounds
  BY DEF NewCandle
<1>4. 1 .. Latest \subseteq 1 .. Latest' /\ 0 .. Latest \subseteq 0 .. Latest' /\ Latest' \in 1 .. MaxCandles
  <2>1. MaxCandles \in Nat /\ Latest >= 1
    BY ConstantsAssumption DEF ControlOK
  <2> QED
    BY <1>1, <1>2, <2>1
<1>5. at' \in [Runners -> 0 .. Latest']
  BY <1>3, <1>4 DEF ControlOK, memory
<1>6. executions' \subseteq (1 .. Latest') \X Actions /\ targets' \subseteq 1 .. Latest' /\ curve' \subseteq 1 .. Latest'
  BY <1>3, <1>4 DEF ControlOK, tables
<1>7. \A q \in Runners : AtWork(q)' => at'[q] \in 1 .. Latest'
  BY <1>3, <1>4 DEF ControlOK, memory, AtWork
<1>8. /\ IsSequence(trades')
      /\ curve' # {} => \E c \in curve' : \A d \in curve' : d <= c
  BY <1>3 DEF ControlOK, tables, IsSequence
<1>9. /\ pc' \in [Runners -> PCs] /\ action' \in [Runners -> Actions]
      /\ order' = [r \in Runners |-> order'[r]] /\ mem' = [r \in Runners |-> mem'[r]]
      /\ crashes' \in Nat /\ repeats' \in Nat /\ crashes' + repeats' <= MaxFaults
  BY <1>3 DEF ControlOK, memory, bounds
<1> QED
  BY <1>2, <1>4, <1>5, <1>6, <1>7, <1>8, <1>9 DEF ControlOK

LEMMA ControlStands == ControlOK /\ UNCHANGED vars => ControlOK'
BY DEF ControlOK, vars, AtWork, IsSequence, Latest

---------------------------------------------------------------------------
(* Steps that are kept apart                                               *)

\* While a runner steps, no other one is at work.
LEMMA Alone ==
    ASSUME Concurrent = FALSE, ControlOK, OneAtATime, NEW r \in Runners, Acts(r)
    PROVE  \A q \in Runners \ {r} : pc[q] = "idle" /\ pc'[q] = "idle"
<1>1. \A q \in Runners \ {r} : pc[q] = "idle"
  <2>1. CASE Load(r)
    BY <2>1 DEF Load
  <2>2. CASE pc[r] # "idle"
    BY <2>2 DEF OneAtATime
  <2> QED
    BY <2>1, <2>2 DEF Acts, Step, Skip, Take, Repeat, Check, Decide, SaveAccount, AppendOrder,
       AppendExecution, AppendTarget, AppendEquity, Crash
<1> QED
  BY <1>1, StepFrame DEF WorkOf

LEMMA NewestKept ==
    ASSUME Concurrent = FALSE, ControlOK, OneAtATime, NewestTaken, NEW r \in Runners, Acts(r)
    PROVE  OneAtATime' /\ NewestTaken'
<1>1. \A q \in Runners \ {r} : pc'[q] = "idle"
  BY Alone
<1>2. OneAtATime'
  BY <1>1 DEF OneAtATime
<1>3. /\ curve \cup targets \subseteq 1 .. Latest /\ executions \subseteq (1 .. Latest) \X Actions
      /\ AtWork(r) => at[r] \in 1 .. Latest
      /\ Latest \in Nat
  BY DEF ControlOK
<1>4. /\ AtWork(r) => \A d \in curve \cup targets : d <= at[r]
      /\ AtWork(r) => \A e \in executions : e[1] <= at[r]
  BY DEF NewestTaken
<1>5. AtWork(r)' => /\ \A d \in (curve \cup targets)' : d <= at'[r]
                    /\ \A e \in executions' : e[1] <= at'[r]
  <2>1. CASE pc'[r] \in {"idle", "loaded"}
    BY <2>1 DEF AtWork
  <2>2. CASE Take(r) \/ Repeat(r)
    <3>1. at'[r] = Latest /\ UNCHANGED tables
      BY <2>2, StepTells DEF Take, Repeat, Check, Load, Decide, SaveAccount, AppendOrder,
         AppendExecution, AppendTarget, Skip, AppendEquity, Crash, ControlOK
    <3> QED
      BY <1>3, <3>1 DEF tables
  <2>3. CASE Decide(r) \/ SaveAccount(r) \/ AppendOrder(r)
    <3>1. at'[r] = at[r] /\ AtWork(r) /\ UNCHANGED <<curve, targets, executions>>
      BY <2>3 DEF Decide, SaveAccount, AppendOrder, tables, AtWork
    <3> QED
      BY <1>4, <3>1
  <2>4. CASE AppendExecution(r)
    <3>1. at'[r] = at[r] /\ AtWork(r) /\ UNCHANGED <<curve, targets>>
          /\ executions' = executions \cup {<<at[r], action[r]>>}
      BY <2>4 DEF AppendExecution, AtWork
    <3>2. <<at[r], action[r]>>[1] = at[r] /\ at[r] \in Nat
      BY <1>3, <3>1
    <3> QED
      BY <1>4, <3>1, <3>2
  <2>5. CASE AppendTarget(r)
    <3>1. at'[r] = at[r] /\ AtWork(r) /\ UNCHANGED <<curve, executions>>
          /\ targets' = targets \cup {at[r]}
      BY <2>5 DEF AppendTarget, AtWork
    <3> QED
      BY <1>3, <1>4, <3>1
  <2> QED
    BY <2>1, <2>2, <2>3, <2>4, <2>5, StepTells
<1>6. NewestTaken'
  BY <1>1, <1>5 DEF NewestTaken, AtWork
<1> QED
  BY <1>2, <1>6

\* What a decision orders.
LEMMA ModelOrders ==
    ASSUME NEW a, NEW act, NEW bar, NEW c
    PROVE  LET o == ModelFill(a, act, bar, c).order
           IN  o # NoOrder => act \in {"buy", "sell"} /\ o.side = act
<1>1. CASE act = "buy"
  BY <1>1 DEF ModelFill, BuyWithMarginFraction
<1>2. CASE act = "sell"
  BY <1>2 DEF ModelFill, CloseLong
<1>3. CASE act \notin {"buy", "sell"}
  BY <1>3 DEF ModelFill, Unfilled
<1> QED
  BY <1>1, <1>2, <1>3

LEMMA EnsembleOrders ==
    ASSUME NEW a, NEW bar, NEW c
    PROVE  LET o == EnsembleFill(a, bar, c).order
           IN  o # NoOrder => o.side \in {"buy", "sell"}
<1>1. \A target, price : LET o == RebalanceToExposure(a, target, price, c, bar).order
                         IN  o # NoOrder => o.side \in {"buy", "sell"}
  BY DEF RebalanceToExposure, Unfilled, SellDelta, BuyDelta
<1> DEFINE trigger == IF InPosition(a) THEN ExitTrigger(a, bar) ELSE NoExit
           f == IF trigger # NoExit THEN RebalanceToExposure(a, 0, trigger - Slip, c, bar)
                ELSE RebalanceToExposure(a, bar.target, bar.close, c, bar)
<1>2. EnsembleFill(a, bar, c).order = f.order
  BY DEF EnsembleFill
<1> QED
  BY <1>1, <1>2

LEMMA LastIsLast ==
    ASSUME ControlOK
    PROVE  \A d \in curve : d <= LastProcessed
<1>1. CASE curve = {}
  BY <1>1
<1>2. CASE curve # {}
  <2>1. \E c \in curve : \A d \in curve : d <= c
    BY <1>2 DEF ControlOK
  <2> QED
    BY <1>2, <2>1 DEF LastProcessed
<1> QED
  BY <1>1, <1>2

LEMMA OrdersKept ==
    ASSUME Concurrent = FALSE, ControlOK, OneAtATime, OrderOfAction, SideOfOrder, TakenOnce,
           NEW r \in Runners, Acts(r)
    PROVE  OrderOfAction' /\ SideOfOrder' /\ TakenOnce'
<1>1. \A q \in Runners \ {r} : pc'[q] = "idle"
  BY Alone
<1>2. /\ mem = [q \in Runners |-> mem[q]] /\ order = [q \in Runners |-> order[q]]
      /\ pc \in [Runners -> PCs] /\ action \in [Runners -> Actions] /\ at \in [Runners -> 0 .. Latest]
      /\ Latest \in Nat /\ curve \subseteq Nat /\ repeats \in Nat
  BY DEF ControlOK
<1>3. OrderOfAction'
  <2>1. SUFFICES ASSUME r \in Runners \ Ensemble, pc'[r] \in {"decided", "saved", "ordered"},
                        order'[r] # NoOrder
                 PROVE  /\ order'[r].side = action'[r] /\ action'[r] \in {"buy", "sell"}
                        /\ pc'[r] = "decided" => <<at'[r], action'[r]>> \notin executions'
    BY <1>1 DEF OrderOfAction
  <2>2. CASE Decide(r)
    <3> DEFINE c == at[r]
               bar == dataset[c]
               act == ModelAction(Aged(mem[r]), bar, c)
               a == Managed(Aged(mem[r]), bar)
               f == IF Duplicate(act, c) THEN Unfilled(a) ELSE ModelFill(a, act, bar, c)
    <3>1. /\ order' = [order EXCEPT ![r] = f.order] /\ action' = [action EXCEPT ![r] = act]
          /\ at' = at /\ executions' = executions
      BY <2>1, <2>2 DEF Decide, tables
    <3>2. f.order # NoOrder => /\ act \in {"buy", "sell"} /\ f.order.side = act
                               /\ ~ Duplicate(act, c)
      <4>1. CASE Duplicate(act, c)
        BY <4>1 DEF Unfilled
      <4>2. CASE ~ Duplicate(act, c)
        <5> HIDE DEF act, a
        <5> QED
          BY <4>2, ModelOrders
      <4> QED
        BY <4>1, <4>2
    <3> HIDE DEF f, act
    <3>3. order'[r] = f.order /\ action'[r] = act
      BY <1>2, <3>1
    <3> QED
      BY <2>1, <3>1, <3>2, <3>3 DEF Duplicate
  <2>3. CASE SaveAccount(r) \/ AppendOrder(r)
    <3>1. /\ pc[r] \in {"decided", "saved"} /\ order' = order /\ action' = action
          /\ pc'[r] # "decided"
      BY <1>2, <2>3 DEF SaveAccount, AppendOrder
    <3> QED
      BY <2>1, <3>1 DEF OrderOfAction
  <2>4. CASE pc'[r] \notin {"decided", "saved", "ordered"}
    BY <2>1, <2>4
  <2> QED
    BY <1>2, <2>1, <2>2, <2>3, <2>4, StepTells DEF AppendExecution, AppendTarget
<1>4. SideOfOrder'
  <2>1. SUFFICES ASSUME r \in Runners \cap Ensemble, pc'[r] \in {"decided", "saved", "ordered"},
                        order'[r] # NoOrder
                 PROVE  order'[r].side \in {"buy", "sell"}
    BY <1>1 DEF SideOfOrder
  <2>2. CASE Decide(r)
    <3> DEFINE c == at[r]
               bar == dataset[c]
               a == Managed(Aged(mem[r]), bar)
               f == EnsembleFill(a, bar, c)
    <3>1. order' = [order EXCEPT ![r] = f.order]
      BY <2>1, <2>2 DEF Decide
    <3>2. f.order # NoOrder => f.order.side \in {"buy", "sell"}
      BY EnsembleOrders
    <3> HIDE DEF f
    <3> QED
      BY <1>2, <2>1, <3>1, <3>2
  <2>3. CASE SaveAccount(r) \/ AppendOrder(r)
    <3>1. pc[r] \in {"decided", "saved"} /\ order' = order
      BY <2>3 DEF SaveAccount, AppendOrder
    <3> QED
      BY <2>1, <3>1 DEF SideOfOrder
  <2>4. CASE pc'[r] \notin {"decided", "saved", "ordered"}
    BY <2>1, <2>4
  <2> QED
    BY <1>2, <2>1, <2>2, <2>3, <2>4, StepTells DEF AppendExecution, AppendTarget
<1>5. TakenOnce'
  <2>1. SUFFICES ASSUME repeats' = 0
                 PROVE  /\ (r \notin Ensemble /\ AtWork(r)') => \A d \in curve' : d < at'[r]
                        /\ (r \in Ensemble /\ pc'[r] \in {"fresh", "decided", "saved", "ordered"}) =>
                               at'[r] \notin targets'
    BY <1>1 DEF TakenOnce, AtWork
  <2>2. CASE Take(r)
    <3>1. at'[r] = Latest /\ curve' = curve /\ targets' = targets /\ ~ Processed(r)
      BY <1>2, <2>2 DEF Take, Check, tables
    <3>2. CASE r \in Ensemble
      BY <3>1, <3>2 DEF Processed
    <3>3. CASE r \notin Ensemble
      <4>1. ~ (Latest <= LastProcessed)
        BY <3>1, <3>3 DEF Processed
      <4>2. curve = {} \/ LastProcessed \in Nat
        <5>1. curve # {} => \E c \in curve : \A d \in curve : d <= c
          BY DEF ControlOK
        <5> QED
          BY <1>2, <5>1 DEF LastProcessed
      <4>3. \A d \in curve : d < Latest
        BY <1>2, <4>1, <4>2, LastIsLast
      <4> QED
        BY <3>1, <3>3, <4>3
    <3> QED
      BY <3>2, <3>3
  <2>3. CASE Repeat(r)
    BY <1>2, <2>1, <2>3 DEF Repeat
  <2>4. CASE Decide(r) \/ SaveAccount(r) \/ AppendOrder(r)
    <3>1. /\ repeats = 0 /\ curve' = curve /\ targets' = targets /\ at'[r] = at[r] /\ AtWork(r)
          /\ pc[r] \in {"fresh", "decided", "saved", "ordered"}
      BY <2>1, <2>4 DEF Decide, SaveAccount, AppendOrder, tables, bounds, AtWork
    <3> QED
      BY <3>1 DEF TakenOnce
  <2>5. CASE AppendExecution(r) \/ AppendTarget(r)
    <3>1. /\ repeats = 0 /\ curve' = curve /\ at'[r] = at[r] /\ AtWork(r) /\ pc'[r] = "logged"
      BY <1>2, <2>1, <2>5 DEF AppendExecution, AppendTarget, bounds, AtWork
    <3> QED
      BY <3>1 DEF TakenOnce
  <2>6. CASE pc'[r] \in {"idle", "loaded"}
    BY <2>6 DEF AtWork
  <2> QED
    BY <2>2, <2>3, <2>4, <2>5, <2>6, StepTells
<1> QED
  BY <1>3, <1>4, <1>5

\* The trades a step adds: the one the saved account reflects.
LEMMA TradeSaved ==
    ASSUME ControlOK, NEW r \in Runners, Acts(r)
    PROVE  \/ trades' = trades /\ (SaveAccount(r) => order[r] = NoOrder)
           \/ SaveAccount(r) /\ order[r] # NoOrder /\ trades' = Append(trades, Trade(r))
BY DEF Acts, Step, Load, Skip, Take, Repeat, Check, Decide, SaveAccount, AppendOrder,
   AppendExecution, AppendTarget, AppendEquity, Crash

\* What has been logged stays logged.
LEMMA LogsGrow ==
    ASSUME ControlOK, NEW r \in Runners, Acts(r)
    PROVE  /\ executions \subseteq executions' /\ targets \subseteq targets' /\ curve \subseteq curve'
           /\ crashes' = IF Crash(r) THEN crashes + 1 ELSE crashes
           /\ crashes \in Nat
           /\ repeats' = 0 => repeats = 0
<1>1. crashes \in Nat /\ repeats \in Nat
  BY DEF ControlOK
<1> QED
  BY <1>1 DEF Acts, Step, Load, Skip, Take, Repeat, Check, Decide, SaveAccount, AppendOrder,
     AppendExecution, AppendTarget, AppendEquity, Crash, tables, bounds

LEMMA ActionsCountedKept ==
    ASSUME Concurrent = FALSE, ControlOK, OneAtATime, OrderOfAction, ActionsCounted,
           NEW r \in Runners, Acts(r)
    PROVE  ActionsCounted'
<1>1. \A q \in Runners \ {r} : pc[q] = "idle" /\ pc'[q] = "idle"
  BY Alone
<1>2. IsSequence(trades)
  BY DEF ControlOK
<1> SUFFICES ASSUME NEW c \in Nat, NEW side \in {"buy", "sell"}
             PROVE  Count(c, "model", {side})' <=
                      crashes' + (IF \/ <<c, side>> \in executions'
                                     \/ \E q \in Runners \ Ensemble :
                                           /\ Underway(q, c, {"saved", "ordered"})'
                                           /\ action'[q] = side
                                  THEN 1 ELSE 0)
  BY DEF ActionsCounted, Once
<1> DEFINE mine == r \notin Ensemble /\ Underway(r, c, {"saved", "ordered"}) /\ action[r] = side
           logged == <<c, side>> \in executions
           n == Count(c, "model", {side})
<1>3. /\ n <= crashes + (IF logged \/ mine THEN 1 ELSE 0)
      /\ n \in Nat /\ crashes \in Nat
  <2>1. n <= crashes + (IF \/ <<c, side>> \in executions
                           \/ \E q \in Runners \ Ensemble :
                                Underway(q, c, {"saved", "ordered"}) /\ action[q] = side
                        THEN 1 ELSE 0)
    BY DEF ActionsCounted, Once
  <2>2. (\E q \in Runners \ Ensemble : Underway(q, c, {"saved", "ordered"}) /\ action[q] = side) <=> mine
    BY <1>1 DEF Underway
  <2>3. n <= crashes + (IF logged \/ mine THEN 1 ELSE 0)
    BY <2>1, <2>2
  <2>4. n \in Nat
    BY <1>2, Counts
  <2>5. crashes \in Nat
    BY DEF ControlOK
  <2> QED
    BY <2>3, <2>4, <2>5
<1>4. (logged \/ mine) => \/ Crash(r)
                          \/ <<c, side>> \in executions'
                          \/ r \notin Ensemble /\ Underway(r, c, {"saved", "ordered"})' /\ action'[r] = side
  <2>1. CASE logged
    BY <2>1, LogsGrow
  <2>2. CASE mine
    <3>1. pc[r] \in {"saved", "ordered"} /\ r \notin Ensemble /\ at[r] = c /\ order[r] # NoOrder
          /\ action[r] = side
      BY <2>2 DEF Underway
    <3>2. AppendOrder(r) \/ AppendExecution(r) \/ Crash(r)
      BY <3>1 DEF Acts, Step, Load, Skip, Take, Repeat, Check, Decide, SaveAccount, AppendOrder,
         AppendExecution, AppendTarget, AppendEquity, Crash
    <3>3. CASE AppendOrder(r)
      <4>1. pc'[r] = "ordered" /\ at' = at /\ order' = order /\ action' = action
        BY <3>1, <3>3 DEF AppendOrder, ControlOK
      <4> QED
        BY <3>1, <4>1 DEF Underway
    <3>4. CASE AppendExecution(r)
      BY <3>1, <3>4 DEF AppendExecution
    <3> QED
      BY <3>2, <3>3, <3>4
  <2> QED
    BY <2>1, <2>2
<1>5. CASE Count(c, "model", {side})' = n
  <2>1. r \notin Ensemble => r \in Runners \ Ensemble
    OBVIOUS
  <2> HIDE DEF n, logged, mine
  <2> QED
    BY <1>3, <1>4, <1>5, <2>1, LogsGrow
<1>6. CASE Count(c, "model", {side})' # n
  <2>1. SaveAccount(r) /\ order[r] # NoOrder /\ trades' = Append(trades, Trade(r))
    <3>1. trades' = trades => Count(c, "model", {side})' = n
      BY DEF Count
    <3> QED
      BY <1>6, <3>1, TradeSaved
  <2>2. n' = n + (IF Trade(r).candle = c /\ Trade(r).by = "model" /\ Trade(r).side \in {side} THEN 1 ELSE 0)
    BY <1>2, <2>1, CountsOneMore
  <2>3. n' = n + 1 /\ at[r] = c /\ r \notin Ensemble /\ order[r].side = side
    BY <1>3, <1>6, <2>2 DEF Trade
  <2>4. pc[r] = "decided" /\ pc'[r] = "saved" /\ at' = at /\ order' = order /\ action' = action
        /\ executions' = executions /\ crashes' = crashes
    BY <2>1 DEF SaveAccount, ControlOK, bounds
  <2>5. action[r] = side /\ <<c, side>> \notin executions
    BY <2>1, <2>3, <2>4 DEF OrderOfAction
  <2>6. ~ logged /\ ~ mine
    BY <2>4, <2>5 DEF Underway
  <2>7. n <= crashes
    <3> HIDE DEF n, logged, mine
    <3> QED
      BY <1>3, <2>6
  <2>8. Underway(r, c, {"saved", "ordered"})' /\ action'[r] = side /\ r \in Runners \ Ensemble
    BY <2>1, <2>3, <2>4, <2>5 DEF Underway
  <2> HIDE DEF n, logged, mine
  <2>9. n' <= crashes' + 1
    BY <1>3, <2>3, <2>4, <2>7
  <2> QED
    BY <2>8, <2>9 DEF n
<1> QED
  BY <1>5, <1>6

LEMMA CandlesCountedKept ==
    ASSUME Concurrent = FALSE, ControlOK, OneAtATime, TakenOnce, CandlesCounted,
           NEW r \in Runners, Acts(r)
    PROVE  CandlesCounted'
<1>1. \A q \in Runners \ {r} : pc[q] = "idle" /\ pc'[q] = "idle"
  BY Alone
<1>2. /\ IsSequence(trades) /\ crashes \in Nat /\ at[r] \in Nat
      /\ curve \subseteq Nat /\ curve' \subseteq Nat
  <2>1. ControlOK'
    BY ControlStep
  <2> QED
    BY <2>1 DEF ControlOK
<1> SUFFICES ASSUME repeats' = 0, NEW c \in Nat
             PROVE  /\ Count(c, "model", {"buy", "sell"})' <=
                         crashes' + (IF \/ \E d \in curve' : c <= d
                                        \/ \E q \in Runners \ Ensemble :
                                              Underway(q, c, {"saved", "ordered", "logged"})'
                                     THEN 1 ELSE 0)
                    /\ Count(c, "ensemble", {"buy", "sell"})' <=
                         crashes' + (IF \/ c \in targets'
                                        \/ \E q \in Runners \cap Ensemble :
                                              Underway(q, c, {"saved", "ordered"})'
                                     THEN 1 ELSE 0)
  BY DEF CandlesCounted, Once
<1>3. repeats = 0
  BY LogsGrow
<1> DEFINE m == Count(c, "model", {"buy", "sell"})
           e == Count(c, "ensemble", {"buy", "sell"})
           covered == \E d \in curve : c <= d
           decided == c \in targets
           modelling == r \notin Ensemble /\ Underway(r, c, {"saved", "ordered", "logged"})
           targeting == r \in Ensemble /\ Underway(r, c, {"saved", "ordered"})
<1>4. /\ m <= crashes + (IF covered \/ modelling THEN 1 ELSE 0)
      /\ e <= crashes + (IF decided \/ targeting THEN 1 ELSE 0)
      /\ m \in Nat /\ e \in Nat
  <2>1. m <= crashes + (IF \/ covered
                           \/ \E q \in Runners \ Ensemble : Underway(q, c, {"saved", "ordered", "logged"})
                        THEN 1 ELSE 0)
    BY <1>3 DEF CandlesCounted, Once
  <2>2. e <= crashes + (IF \/ decided
                           \/ \E q \in Runners \cap Ensemble : Underway(q, c, {"saved", "ordered"})
                        THEN 1 ELSE 0)
    BY <1>3 DEF CandlesCounted, Once
  <2>3. /\ (\E q \in Runners \ Ensemble : Underway(q, c, {"saved", "ordered", "logged"})) <=> modelling
        /\ (\E q \in Runners \cap Ensemble : Underway(q, c, {"saved", "ordered"})) <=> targeting
    BY <1>1 DEF Underway
  <2>4. m \in Nat /\ e \in Nat
    BY <1>2, Counts
  <2> QED
    BY <2>1, <2>2, <2>3, <2>4
<1>5. (covered \/ modelling) =>
          \/ Crash(r)
          \/ \E d \in curve' : c <= d
          \/ r \in Runners \ Ensemble /\ Underway(r, c, {"saved", "ordered", "logged"})'
  <2>1. CASE covered
    BY <2>1, LogsGrow
  <2>2. CASE modelling
    <3>1. pc[r] \in {"saved", "ordered", "logged"} /\ r \notin Ensemble /\ at[r] = c /\ order[r] # NoOrder
      BY <2>2 DEF Underway
    <3>2. AppendOrder(r) \/ AppendExecution(r) \/ AppendEquity(r) \/ Crash(r)
      BY <3>1 DEF Acts, Step, Load, Skip, Take, Repeat, Check, Decide, SaveAccount, AppendOrder,
         AppendExecution, AppendTarget, AppendEquity, Crash
    <3>3. CASE AppendOrder(r) \/ AppendExecution(r)
      <4>1. pc'[r] \in {"ordered", "logged"} /\ at' = at /\ order' = order
        BY <3>1, <3>3 DEF AppendOrder, AppendExecution, ControlOK
      <4> QED
        BY <3>1, <4>1 DEF Underway
    <3>4. CASE AppendEquity(r)
      <4>1. c \in curve' /\ c <= c
        BY <3>1, <3>4 DEF AppendEquity
      <4> QED
        BY <4>1
    <3> QED
      BY <3>2, <3>3, <3>4
  <2> QED
    BY <2>1, <2>2
<1>6. (decided \/ targeting) =>
          \/ Crash(r)
          \/ c \in targets'
          \/ r \in Runners \cap Ensemble /\ Underway(r, c, {"saved", "ordered"})'
  <2>1. CASE decided
    BY <2>1, LogsGrow
  <2>2. CASE targeting
    <3>1. pc[r] \in {"saved", "ordered"} /\ r \in Ensemble /\ at[r] = c /\ order[r] # NoOrder
      BY <2>2 DEF Underway
    <3>2. AppendOrder(r) \/ AppendTarget(r) \/ Crash(r)
      BY <3>1 DEF Acts, Step, Load, Skip, Take, Repeat, Check, Decide, SaveAccount, AppendOrder,
         AppendExecution, AppendTarget, AppendEquity, Crash
    <3>3. CASE AppendOrder(r)
      <4>1. pc'[r] = "ordered" /\ at' = at /\ order' = order
        BY <3>1, <3>3 DEF AppendOrder, ControlOK
      <4> QED
        BY <3>1, <4>1 DEF Underway
    <3>4. CASE AppendTarget(r)
      BY <3>1, <3>4 DEF AppendTarget
    <3> QED
      BY <3>2, <3>3, <3>4
  <2> QED
    BY <2>1, <2>2
<1>7. CASE trades' = trades
  <2>1. m' = m /\ e' = e
    BY <1>7 DEF Count
  <2>2. m' <= crashes' + (IF \/ \E d \in curve' : c <= d
                             \/ \E q \in Runners \ Ensemble :
                                   Underway(q, c, {"saved", "ordered", "logged"})'
                          THEN 1 ELSE 0)
    <3> HIDE DEF m, covered, modelling
    <3> QED
      BY <1>2, <1>4, <1>5, <2>1, LogsGrow
  <2>3. e' <= crashes' + (IF \/ c \in targets'
                             \/ \E q \in Runners \cap Ensemble : Underway(q, c, {"saved", "ordered"})'
                          THEN 1 ELSE 0)
    <3> HIDE DEF e, decided, targeting
    <3> QED
      BY <1>2, <1>4, <1>6, <2>1, LogsGrow
  <2> QED
    BY <2>2, <2>3
<1>8. CASE SaveAccount(r) /\ order[r] # NoOrder /\ trades' = Append(trades, Trade(r))
  <2>1. /\ pc[r] = "decided" /\ pc'[r] = "saved" /\ at' = at /\ order' = order
        /\ UNCHANGED <<curve, targets, crashes>>
    BY <1>8 DEF SaveAccount, ControlOK, bounds
  <2>2. ~ modelling /\ ~ targeting
    BY <2>1 DEF Underway
  <2>3. /\ m' = m + (IF Trade(r).candle = c /\ Trade(r).by = "model" /\ Trade(r).side \in {"buy", "sell"}
                     THEN 1 ELSE 0)
        /\ e' = e + (IF Trade(r).candle = c /\ Trade(r).by = "ensemble" /\ Trade(r).side \in {"buy", "sell"}
                     THEN 1 ELSE 0)
    BY <1>2, <1>8, CountsOneMore
  <2>4. CASE r \in Ensemble
    <3>1. m' = m
      <4>1. Trade(r).by # "model"
        BY <2>4 DEF Trade
      <4> HIDE DEF m, e
      <4> QED
        BY <1>4, <2>3, <4>1
    <3>2. e' = e \/ (e' = e + 1 /\ at[r] = c)
      <4>1. Trade(r).candle = at[r]
        BY DEF Trade
      <4> HIDE DEF m, e
      <4> QED
        BY <1>4, <2>3, <4>1
    <3>3. at[r] = c => ~ decided
      BY <1>3, <2>1, <2>4 DEF TakenOnce
    <3>4. at[r] = c => r \in Runners \cap Ensemble /\ Underway(r, c, {"saved", "ordered"})'
      BY <1>8, <2>1, <2>4 DEF Underway
    <3>5. (\E d \in curve' : c <= d) <=> covered
      BY <2>1
    <3>6. c \in targets' <=> decided
      BY <2>1
    <3>7. m' <= crashes' + (IF \/ \E d \in curve' : c <= d
                               \/ \E q \in Runners \ Ensemble :
                                     Underway(q, c, {"saved", "ordered", "logged"})'
                            THEN 1 ELSE 0)
      <4> HIDE DEF m, covered, modelling
      <4> QED
        BY <1>2, <1>4, <2>1, <2>2, <3>1, <3>5
    <3>8. e' <= crashes' + (IF \/ c \in targets'
                               \/ \E q \in Runners \cap Ensemble : Underway(q, c, {"saved", "ordered"})'
                            THEN 1 ELSE 0)
      <4> HIDE DEF e, decided, targeting
      <4> QED
        BY <1>2, <1>4, <2>1, <2>2, <3>2, <3>3, <3>4, <3>6
    <3> QED
      BY <3>7, <3>8
  <2>5. CASE r \notin Ensemble
    <3>1. e' = e
      <4>1. Trade(r).by # "ensemble"
        BY <2>5 DEF Trade
      <4> HIDE DEF m, e
      <4> QED
        BY <1>4, <2>3, <4>1
    <3>2. m' = m \/ (m' = m + 1 /\ at[r] = c)
      <4>1. Trade(r).candle = at[r]
        BY DEF Trade
      <4> HIDE DEF m, e
      <4> QED
        BY <1>4, <2>3, <4>1
    <3>3. at[r] = c => ~ covered
      <4>1. \A d \in curve : d < at[r]
        BY <1>3, <2>1, <2>5 DEF TakenOnce, AtWork
      <4> QED
        BY <1>2, <4>1
    <3>4. at[r] = c => r \in Runners \ Ensemble /\ Underway(r, c, {"saved", "ordered", "logged"})'
      BY <1>8, <2>1, <2>5 DEF Underway
    <3>5. (\E d \in curve' : c <= d) <=> covered
      BY <2>1
    <3>6. c \in targets' <=> decided
      BY <2>1
    <3>7. m' <= crashes' + (IF \/ \E d \in curve' : c <= d
                               \/ \E q \in Runners \ Ensemble :
                                     Underway(q, c, {"saved", "ordered", "logged"})'
                            THEN 1 ELSE 0)
      <4> HIDE DEF m, covered, modelling
      <4> QED
        BY <1>2, <1>4, <2>1, <2>2, <3>2, <3>3, <3>4, <3>5
    <3>8. e' <= crashes' + (IF \/ c \in targets'
                               \/ \E q \in Runners \cap Ensemble : Underway(q, c, {"saved", "ordered"})'
                            THEN 1 ELSE 0)
      <4> HIDE DEF e, decided, targeting
      <4> QED
        BY <1>2, <1>4, <2>1, <2>2, <3>1, <3>6
    <3> QED
      BY <3>7, <3>8
  <2> QED
    BY <2>4, <2>5
<1> QED
  BY <1>7, <1>8, TradeSaved

---------------------------------------------------------------------------
(* Once per candle                                                         *)

LEMMA ControlInit == Init => ControlInv
<1> SUFFICES ASSUME Init PROVE ControlInv
  OBVIOUS
<1>1. /\ pc = [r \in Runners |-> "idle"] /\ at = [r \in Runners |-> 0]
      /\ order = [r \in Runners |-> NoOrder] /\ mem = [r \in Runners |-> NewAccount]
      /\ action = [r \in Runners |-> "none"]
      /\ trades = <<>> /\ executions = {} /\ targets = {} /\ curve = {} /\ crashes = 0 /\ repeats = 0
      /\ MaxFaults \in Nat /\ MaxCandles \in Nat \ {0}
  BY ConstantsAssumption DEF Init
<1>2. PICK b \in Bars : dataset = <<b>>
  BY DEF Init
<1>3. dataset \in Seq(Bars) /\ Latest = 1
  BY <1>2 DEF Latest
<1>4. IsSequence(trades) /\ DOMAIN trades = {}
  BY <1>1 DEF IsSequence
<1>5. ControlOK
  BY <1>1, <1>3, <1>4 DEF ControlOK, PCs, Actions, AtWork
<1>6. OneAtATime /\ NewestTaken /\ OrderOfAction /\ SideOfOrder /\ TakenOnce
  BY <1>1 DEF OneAtATime, NewestTaken, OrderOfAction, SideOfOrder, TakenOnce, AtWork
<1>7. \A c, kind, sides : Count(c, kind, sides) = 0
  BY <1>4, FS_EmptySet DEF Count
<1>8. ActionsCounted
  BY <1>1, <1>7 DEF ActionsCounted, Once
<1>9. CandlesCounted
  BY <1>1, <1>7 DEF CandlesCounted, Once
<1> QED
  BY <1>5, <1>6, <1>8, <1>9 DEF ControlInv

LEMMA ControlInvKept == Concurrent = FALSE /\ ControlInv /\ [Next]_vars => ControlInv'
<1> SUFFICES ASSUME Concurrent = FALSE, ControlInv, [Next]_vars
             PROVE  ControlInv'
  OBVIOUS
<1>1. ASSUME NEW r \in Runners, Acts(r) PROVE ControlInv'
  BY <1>1, ControlStep, NewestKept, OrdersKept, ActionsCountedKept, CandlesCountedKept DEF ControlInv
<1>2. ASSUME UNCHANGED <<tables, memory, trades, bounds>>, ControlOK' PROVE ControlInv'
  <2>1. \A c, kind, sides : Count(c, kind, sides)' = Count(c, kind, sides)
    BY <1>2 DEF Count
  <2>2. ActionsCounted' /\ CandlesCounted'
    BY <1>2, <2>1 DEF ControlInv, ActionsCounted, CandlesCounted, Once, Underway, memory, tables, bounds
  <2>3. OneAtATime' /\ NewestTaken' /\ OrderOfAction' /\ SideOfOrder' /\ TakenOnce'
    BY <1>2 DEF ControlInv, OneAtATime, NewestTaken, OrderOfAction, SideOfOrder, TakenOnce, AtWork,
       memory, tables, bounds
  <2> QED
    BY <1>2, <2>2, <2>3 DEF ControlInv
<1>3. ASSUME NEW b \in Bars, NewCandle(b) PROVE ControlInv'
  BY <1>2, <1>3, ControlGrows DEF ControlInv, NewCandle
<1>4. CASE UNCHANGED vars
  BY <1>2, <1>4, ControlStands DEF ControlInv, vars, tables, memory, bounds
<1> QED
  BY <1>1, <1>3, <1>4 DEF Next, Acts

\* A runner trades a candle once.  Proved for every number of runners, any
\* dataset and any history of kills and forced runs, when the steps of two
\* runners do not overlap: only a kill between the account's commit and the
\* commits of the logs lets a candle be traded twice (run_paper_step,
\* run_ensemble_paper_step).
THEOREM OncePerCandleHolds == Concurrent = FALSE => (Spec => []OncePerCandle)
<1> SUFFICES ASSUME Concurrent = FALSE PROVE Spec => []OncePerCandle
  OBVIOUS
<1>1. Init => ControlInv
  BY ControlInit
<1>2. ControlInv /\ [Next]_vars => ControlInv'
  BY ControlInvKept
<1>3. ControlInv => OncePerCandle
  <2> SUFFICES ASSUME ControlInv, NEW c \in 1 .. Latest
               PROVE  /\ Count(c, "model", {"buy"}) <= 1 + crashes
                      /\ Count(c, "model", {"sell"}) <= 1 + crashes
                      /\ repeats = 0 => \A k \in {"model", "ensemble"} :
                                            Count(c, k, {"buy", "sell"}) <= 1 + crashes
    BY DEF OncePerCandle
  <2>1. crashes \in Nat /\ IsSequence(trades) /\ c \in Nat
    BY DEF ControlInv, ControlOK
  <2>2. \A kind, sides : Count(c, kind, sides) \in Nat
    BY <2>1, Counts
  <2>3. ASSUME NEW kind, NEW sides, NEW cond \in BOOLEAN, Count(c, kind, sides) <= Once(cond)
        PROVE  Count(c, kind, sides) <= 1 + crashes
    <3>1. Once(cond) \in Nat /\ Once(cond) <= 1 + crashes
      BY <2>1 DEF Once
    <3> QED
      BY <2>1, <2>2, <2>3, <3>1
  <2>4. /\ Count(c, "model", {"buy"}) <= 1 + crashes
        /\ Count(c, "model", {"sell"}) <= 1 + crashes
    <3> DEFINE cond(side) == \/ <<c, side>> \in executions
                             \/ \E r \in Runners \ Ensemble :
                                   Underway(r, c, {"saved", "ordered"}) /\ action[r] = side
    <3>1. /\ Count(c, "model", {"buy"}) <= Once(cond("buy"))
          /\ Count(c, "model", {"sell"}) <= Once(cond("sell"))
      BY <2>1 DEF ControlInv, ActionsCounted
    <3>2. cond("buy") \in BOOLEAN /\ cond("sell") \in BOOLEAN
      OBVIOUS
    <3> HIDE DEF cond
    <3> QED
      BY <2>3, <3>1, <3>2
  <2>5. repeats = 0 => \A k \in {"model", "ensemble"} : Count(c, k, {"buy", "sell"}) <= 1 + crashes
    <3> DEFINE m == \/ \E d \in curve : c <= d
                    \/ \E r \in Runners \ Ensemble : Underway(r, c, {"saved", "ordered", "logged"})
               e == \/ c \in targets
                    \/ \E r \in Runners \cap Ensemble : Underway(r, c, {"saved", "ordered"})
    <3>1. repeats = 0 => /\ Count(c, "model", {"buy", "sell"}) <= Once(m)
                         /\ Count(c, "ensemble", {"buy", "sell"}) <= Once(e)
      BY <2>1 DEF ControlInv, CandlesCounted
    <3>2. m \in BOOLEAN /\ e \in BOOLEAN
      OBVIOUS
    <3> HIDE DEF m, e
    <3> QED
      BY <2>3, <3>1, <3>2
  <2> QED
    BY <2>4, <2>5
<1> QED
  BY <1>1, <1>2, <1>3, PTL DEF Spec

---------------------------------------------------------------------------
(* What the operations on an account do to its fields                      *)

Fields == {"cash", "qty", "entry", "lev", "since", "bars", "stop", "take", "trail", "peak",
           "losses", "pause", "day", "daily"}
Shaped(a) == a = [f \in Fields |-> a[f]]
Flat(a) == /\ a.qty = 0 /\ a.entry = 0 /\ a.since = 0 /\ a.bars = 0
           /\ a.stop = 0 /\ a.take = 0 /\ a.trail = 0 /\ a.peak = 0
SameLevels(a, b) == b.stop = a.stop /\ b.take = a.take /\ b.trail = a.trail /\ b.peak = a.peak
SameStreak(a, b) == b.losses = a.losses /\ b.pause = a.pause /\ b.day = a.day /\ b.daily = a.daily
Attached(b, price) == /\ b.stop = price - StopDistance /\ b.take = price + TakeDistance
                      /\ b.trail = price - TrailDistance /\ b.peak = price

LEMMA AgedFields ==
    ASSUME NEW a, Shaped(a)
    PROVE  LET b == Aged(a)
           IN  /\ Shaped(b) /\ SameLevels(a, b) /\ SameStreak(a, b)
               /\ b.cash = a.cash /\ b.qty = a.qty /\ b.entry = a.entry /\ b.lev = a.lev
               /\ b.since = a.since /\ b.bars = IF InPosition(a) THEN a.bars + 1 ELSE a.bars
BY DEF Shaped, Fields, Aged, SameLevels, SameStreak

LEMMA TrailedFields ==
    ASSUME NEW a, Shaped(a), NEW bar
    PROVE  LET b == Trailed(a, bar)
           IN  /\ Shaped(b) /\ SameStreak(a, b)
               /\ b.cash = a.cash /\ b.qty = a.qty /\ b.entry = a.entry /\ b.lev = a.lev
               /\ b.since = a.since /\ b.bars = a.bars /\ b.stop = a.stop /\ b.take = a.take
               /\ b.peak = Max2(a.peak, bar.high)
               /\ b.trail = Max2(a.trail, Max2(a.peak, bar.high) - TrailDistance)
BY DEF Shaped, Fields, Trailed, SameStreak

LEMMA ResetFields ==
    ASSUME NEW a, Shaped(a)
    PROVE  LET b == ResetPosition(a)
           IN  Shaped(b) /\ Flat(b) /\ SameStreak(a, b) /\ b.cash = a.cash /\ b.lev = a.lev
BY DEF Shaped, Fields, ResetPosition, SameStreak, Flat

LEMMA ClosedFields ==
    ASSUME NEW a, Shaped(a), NEW pnl, NEW c
    PROVE  LET b == RegisterClosed(a, pnl, c)
           IN  /\ Shaped(b) /\ SameLevels(a, b)
               /\ b.cash = a.cash /\ b.qty = a.qty /\ b.entry = a.entry /\ b.lev = a.lev
               /\ b.since = a.since /\ b.bars = a.bars /\ b.pause = a.pause /\ b.day = Day(c)
               /\ b.daily = (IF a.day = Day(c) THEN a.daily ELSE 0) + pnl
               /\ b.losses = IF pnl < 0 THEN a.losses + 1 ELSE 0
BY DEF Shaped, Fields, RegisterClosed, SameLevels

LEMMA AfterClosedFields ==
    ASSUME NEW a, Shaped(a), NEW pnl, NEW c
    PROVE  LET b == AfterClosedTrade(a, pnl, c)
           IN  /\ Shaped(b) /\ SameLevels(a, b)
               /\ b.cash = a.cash /\ b.qty = a.qty /\ b.entry = a.entry /\ b.lev = a.lev
               /\ b.since = a.since /\ b.bars = a.bars /\ b.day = Day(c)
               /\ b.daily = (IF a.day = Day(c) THEN a.daily ELSE 0) + pnl
               /\ b.losses = IF pnl < 0 THEN a.losses + 1 ELSE 0
               /\ b.pause = IF MaxLosses > 0 /\ b.losses >= MaxLosses THEN c + PauseBars
                            ELSE a.pause
<1> DEFINE d == RegisterClosed(a, pnl, c)
<1>1. AfterClosedTrade(a, pnl, c) = IF MaxLosses > 0 /\ d.losses >= MaxLosses THEN [d EXCEPT !.pause = c + PauseBars] ELSE d
  BY DEF AfterClosedTrade
<1>2. /\ Shaped(d) /\ SameLevels(a, d)
      /\ d.cash = a.cash /\ d.qty = a.qty /\ d.entry = a.entry /\ d.lev = a.lev
      /\ d.since = a.since /\ d.bars = a.bars /\ d.pause = a.pause /\ d.day = Day(c)
      /\ d.daily = (IF a.day = Day(c) THEN a.daily ELSE 0) + pnl
      /\ d.losses = IF pnl < 0 THEN a.losses + 1 ELSE 0
  BY ClosedFields
<1> HIDE DEF d
<1>3. CASE MaxLosses > 0 /\ d.losses >= MaxLosses
  <2> DEFINE b == [d EXCEPT !.pause = c + PauseBars]
  <2>1. /\ Shaped(b) /\ SameLevels(d, b)
        /\ b.cash = d.cash /\ b.qty = d.qty /\ b.entry = d.entry /\ b.lev = d.lev
        /\ b.since = d.since /\ b.bars = d.bars /\ b.day = d.day
        /\ b.daily = d.daily /\ b.losses = d.losses /\ b.pause = c + PauseBars
    BY <1>2 DEF Shaped, Fields, SameLevels
  <2>2. AfterClosedTrade(a, pnl, c) = b
    BY <1>1, <1>3
  <2> HIDE DEF b
  <2>3. MaxLosses > 0 /\ b.losses >= MaxLosses
    BY <1>3, <2>1
  <2> QED
    BY <1>2, <2>1, <2>2, <2>3 DEF SameLevels
<1>4. CASE ~ (MaxLosses > 0 /\ d.losses >= MaxLosses)
  BY <1>1, <1>2, <1>4
<1> QED
  BY <1>3, <1>4

LEMMA LeveredFields ==
    ASSUME NEW f, Shaped(f.account), NEW l,
           f = [account |-> f.account, order |-> f.order]
    PROVE  LET g == [f EXCEPT !.account.lev = l]
               b == g.account
               a == f.account
           IN  /\ g.order = f.order /\ Shaped(b) /\ SameLevels(a, b) /\ SameStreak(a, b) /\ b.lev = l
               /\ b.cash = a.cash /\ b.qty = a.qty /\ b.entry = a.entry
               /\ b.since = a.since /\ b.bars = a.bars
<1> DEFINE a == f.account
           b == [a EXCEPT !.lev = l]
           g == [f EXCEPT !.account.lev = l]
<1>1. g.order = f.order /\ g.account = b
  OBVIOUS
<1>2. /\ Shaped(b) /\ SameLevels(a, b) /\ SameStreak(a, b) /\ b.lev = l
      /\ b.cash = a.cash /\ b.qty = a.qty /\ b.entry = a.entry
      /\ b.since = a.since /\ b.bars = a.bars
  BY DEF Shaped, Fields, SameLevels, SameStreak
<1> HIDE DEF b
<1> QED
  BY <1>1, <1>2

LEMMA AttachedFields ==
    ASSUME NEW a, Shaped(a), NEW price
    PROVE  LET b == AttachLevels(a, price)
           IN  /\ Shaped(b) /\ Attached(b, price) /\ SameStreak(a, b)
               /\ b.cash = a.cash /\ b.qty = a.qty /\ b.entry = a.entry /\ b.lev = a.lev
               /\ b.since = a.since /\ b.bars = a.bars
BY DEF Shaped, Fields, AttachLevels, Attached, SameStreak

LEMMA ModelBuyFields ==
    ASSUME NEW a, Shaped(a), NEW bar, NEW c
    PROVE  LET f == BuyWithMarginFraction(a, bar, c)
               b == f.account
               n == Contracts((Equity(a, bar.close) * EntryPercent) \div 100, bar.close + Slip)
           IN  /\ f = [account |-> f.account, order |-> f.order]
               /\ Shaped(b) /\ Attached(b, bar.close) /\ SameStreak(a, b)
               /\ b.cash = a.cash - n * Fee /\ b.qty = n /\ b.entry = bar.close + Slip
               /\ b.lev = Leverage /\ b.since = c /\ b.bars = 0
               /\ f.order = [side |-> "buy", qty |-> n, money |-> -(n * Fee), flat |-> FALSE]
<1> DEFINE f == BuyWithMarginFraction(a, bar, c)
           n == Contracts((Equity(a, bar.close) * EntryPercent) \div 100, bar.close + Slip)
           d == AttachLevels(a, bar.close)
           b == [d EXCEPT !.cash = a.cash - n * Fee, !.qty = n, !.entry = bar.close + Slip,
                          !.lev = Leverage, !.since = c, !.bars = 0]
           o == [side |-> "buy", qty |-> n, money |-> -(n * Fee), flat |-> FALSE]
<1>1. f = [account |-> b, order |-> o]
  BY DEF BuyWithMarginFraction
<1>2. Shaped(d) /\ Attached(d, bar.close) /\ SameStreak(a, d)
  BY AttachedFields
<1> HIDE DEF n, d
<1>3. /\ Shaped(b) /\ Attached(b, bar.close) /\ SameStreak(a, b)
      /\ b.cash = a.cash - n * Fee /\ b.qty = n /\ b.entry = bar.close + Slip
      /\ b.lev = Leverage /\ b.since = c /\ b.bars = 0
  BY <1>2 DEF Shaped, Fields, Attached, SameStreak
<1> HIDE DEF f, b, o
<1>4. f.account = b /\ f.order = o /\ f = [account |-> f.account, order |-> f.order]
  BY <1>1
<1> QED
  BY <1>3, <1>4 DEF f, n, o

LEMMA ModelSaleFields ==
    ASSUME NEW a, Shaped(a), NEW fill
    PROVE  LET f == CloseLong(a, fill)
               b == f.account
               pnl == a.qty * (fill - a.entry) - a.qty * Fee
           IN  /\ f = [account |-> f.account, order |-> f.order]
               /\ Shaped(b) /\ Flat(b) /\ SameStreak(a, b) /\ b.cash = a.cash + pnl /\ b.lev = a.lev
               /\ f.order = [side |-> "sell", qty |-> a.qty, money |-> pnl, flat |-> TRUE]
<1> DEFINE f == CloseLong(a, fill)
           pnl == a.qty * (fill - a.entry) - a.qty * Fee
           d == [a EXCEPT !.cash = a.cash + pnl]
           b == ResetPosition(d)
           o == [side |-> "sell", qty |-> a.qty, money |-> pnl, flat |-> TRUE]
<1>1. f = [account |-> b, order |-> o]
  BY DEF CloseLong
<1> HIDE DEF pnl
<1>2. Shaped(d) /\ SameStreak(a, d) /\ d.cash = a.cash + pnl /\ d.lev = a.lev
  BY DEF Shaped, Fields, SameStreak
<1> HIDE DEF d
<1>3. Shaped(b) /\ Flat(b) /\ SameStreak(d, b) /\ b.cash = d.cash /\ b.lev = d.lev
  BY <1>2, ResetFields
<1>4. Shaped(b) /\ Flat(b) /\ SameStreak(a, b) /\ b.cash = a.cash + pnl /\ b.lev = a.lev
  BY <1>2, <1>3 DEF SameStreak
<1> HIDE DEF f, b, o
<1>5. f.account = b /\ f.order = o /\ f = [account |-> f.account, order |-> f.order]
  BY <1>1
<1> QED
  BY <1>4, <1>5 DEF f, pnl, o

BoughtMore(a, f, n, price, c, bar) ==
    LET b == f.account
    IN  /\ Shaped(b) /\ SameStreak(a, b)
        /\ IF InPosition(a) THEN SameLevels(a, b) ELSE Attached(b, bar.close)
        /\ b.cash = a.cash - n * Fee /\ b.qty = a.qty + n
        /\ b.entry = (a.qty * a.entry + n * (price + Slip)) \div (a.qty + n)
        /\ b.lev = a.lev /\ b.bars = a.bars
        /\ b.since = IF a.since = 0 THEN c ELSE a.since
        /\ f.order = [side |-> "buy", qty |-> n, money |-> -(n * Fee), flat |-> FALSE]

LEMMA BuyDeltaFields ==
    ASSUME NEW a, Shaped(a), NEW notional, NEW price, NEW c, NEW bar
    PROVE  LET f == BuyDelta(a, notional, price, c, bar)
               n == Contracts(notional, price + Slip)
           IN  /\ f = [account |-> f.account, order |-> f.order]
               /\ BoughtMore(a, f, n, price, c, bar)
<1> DEFINE f == BuyDelta(a, notional, price, c, bar)
           n == Contracts(notional, price + Slip)
           e == (a.qty * a.entry + n * (price + Slip)) \div (a.qty + n)
           s == IF a.since = 0 THEN c ELSE a.since
           d == IF InPosition(a) THEN a ELSE AttachLevels(a, bar.close)
           b == [d EXCEPT !.cash = a.cash - n * Fee, !.qty = a.qty + n, !.entry = e, !.since = s]
           o == [side |-> "buy", qty |-> n, money |-> -(n * Fee), flat |-> FALSE]
<1>1. f = [account |-> b, order |-> o]
  BY DEF BuyDelta
<1>2. /\ Shaped(d) /\ SameStreak(a, d) /\ d.lev = a.lev /\ d.bars = a.bars
      /\ IF InPosition(a) THEN SameLevels(a, d) ELSE Attached(d, bar.close)
  BY AttachedFields DEF SameStreak, SameLevels
<1> HIDE DEF n, d, e, s
<1>3. /\ Shaped(b) /\ SameStreak(a, b)
      /\ IF InPosition(a) THEN SameLevels(a, b) ELSE Attached(b, bar.close)
      /\ b.cash = a.cash - n * Fee /\ b.qty = a.qty + n /\ b.entry = e
      /\ b.lev = a.lev /\ b.bars = a.bars /\ b.since = s
  BY <1>2 DEF Shaped, Fields, Attached, SameLevels, SameStreak
<1> HIDE DEF f, b, o
<1>4. f.account = b /\ f.order = o /\ f = [account |-> f.account, order |-> f.order]
  BY <1>1
<1>5. BoughtMore(a, f, n, price, c, bar)
  BY <1>3, <1>4 DEF BoughtMore, o, e, s
<1> QED
  BY <1>4, <1>5 DEF f, n

SoldAll(a, f, pnl, c) ==
    LET b == f.account
    IN  /\ Shaped(b) /\ Flat(b) /\ b.cash = a.cash + pnl /\ b.lev = a.lev
        /\ b.pause = a.pause /\ b.day = Day(c)
        /\ b.daily = (IF a.day = Day(c) THEN a.daily ELSE 0) + pnl
        /\ b.losses = IF pnl < 0 THEN a.losses + 1 ELSE 0
        /\ f.order = [side |-> "sell", qty |-> a.qty, money |-> pnl, flat |-> TRUE]
SoldSome(a, f, n, pnl) ==
    LET b == f.account
    IN  /\ Shaped(b) /\ SameLevels(a, b) /\ SameStreak(a, b) /\ b.cash = a.cash + pnl
        /\ b.qty = a.qty - n /\ b.entry = a.entry /\ b.lev = a.lev
        /\ b.since = a.since /\ b.bars = a.bars
        /\ f.order = [side |-> "sell", qty |-> n, money |-> pnl, flat |-> FALSE]

LEMMA SellDeltaFields ==
    ASSUME NEW a, Shaped(a), NEW notional, NEW price, NEW c, NEW all \in BOOLEAN
    PROVE  LET f == SellDelta(a, notional, price, c, all)
               wanted == Contracts(notional, price - Slip)
               n == IF all \/ wanted > a.qty THEN a.qty ELSE wanted
               pnl == n * (price - Slip - a.entry) - n * Fee
           IN  /\ f = [account |-> f.account, order |-> f.order]
               /\ n = 0 => f = Unfilled(a)
               /\ n # 0 /\ n = a.qty => SoldAll(a, f, pnl, c)
               /\ n # 0 /\ n # a.qty => SoldSome(a, f, n, pnl)
<1> DEFINE f == SellDelta(a, notional, price, c, all)
           wanted == Contracts(notional, price - Slip)
           n == IF all \/ wanted > a.qty THEN a.qty ELSE wanted
           pnl == n * (price - Slip - a.entry) - n * Fee
           d == [a EXCEPT !.cash = a.cash + pnl, !.qty = a.qty - n]
           o == [side |-> "sell", qty |-> n, money |-> pnl, flat |-> n = a.qty]
           e == RegisterClosed(d, pnl, c)
           b == ResetPosition(e)
<1>1. f = IF n = 0 THEN Unfilled(a) ELSE [account |-> IF n = a.qty THEN b ELSE d, order |-> o]
  BY DEF SellDelta
<1>2. Unfilled(a) = [account |-> Unfilled(a).account, order |-> Unfilled(a).order]
  BY DEF Unfilled
<1> HIDE DEF n, pnl
<1>3. /\ Shaped(d) /\ SameLevels(a, d) /\ SameStreak(a, d) /\ d.cash = a.cash + pnl
      /\ d.qty = a.qty - n /\ d.entry = a.entry /\ d.lev = a.lev
      /\ d.since = a.since /\ d.bars = a.bars
  BY DEF Shaped, Fields, SameLevels, SameStreak
<1> HIDE DEF d
<1>4. /\ Shaped(e) /\ e.cash = d.cash /\ e.lev = d.lev /\ e.pause = d.pause /\ e.day = Day(c)
      /\ e.daily = (IF d.day = Day(c) THEN d.daily ELSE 0) + pnl
      /\ e.losses = IF pnl < 0 THEN d.losses + 1 ELSE 0
  BY <1>3, ClosedFields
<1> HIDE DEF e
<1>5. Shaped(b) /\ Flat(b) /\ SameStreak(e, b) /\ b.cash = e.cash /\ b.lev = e.lev
  BY <1>4, ResetFields
<1> HIDE DEF b, f, o
<1>6. CASE n = 0
  BY <1>1, <1>2, <1>6 DEF f, n
<1>7. CASE n # 0 /\ n = a.qty
  <2>1. f = [account |-> b, order |-> o] /\ o = [side |-> "sell", qty |-> a.qty, money |-> pnl, flat |-> TRUE]
    BY <1>1, <1>7 DEF o
  <2>2. f.account = b /\ f.order = o /\ f = [account |-> f.account, order |-> f.order]
    BY <2>1
  <2>3. SoldAll(a, f, pnl, c)
    BY <1>3, <1>4, <1>5, <2>1, <2>2 DEF SoldAll, SameStreak
  <2> QED
    BY <1>7, <2>2, <2>3 DEF f, n, pnl
<1>8. CASE n # 0 /\ n # a.qty
  <2>1. f = [account |-> d, order |-> o] /\ o = [side |-> "sell", qty |-> n, money |-> pnl, flat |-> FALSE]
    BY <1>1, <1>8 DEF o
  <2>2. f.account = d /\ f.order = o /\ f = [account |-> f.account, order |-> f.order]
    BY <2>1
  <2>3. SoldSome(a, f, n, pnl)
    BY <1>3, <2>1, <2>2 DEF SoldSome
  <2> QED
    BY <1>8, <2>2, <2>3 DEF f, n, pnl
<1> QED
  BY <1>6, <1>7, <1>8

---------------------------------------------------------------------------
(* What a decision does to the levels, whatever the account is worth       *)

Leveled(a) == Shaped(a) /\ a.stop \in Int /\ a.trail \in Int /\ a.peak \in Int

LEMMA ManagedLevels ==
    ASSUME NEW a, Leveled(a), NEW bar \in Bars
    PROVE  LET b == Managed(Aged(a), bar)
           IN  /\ Leveled(b) /\ b.qty = a.qty /\ b.since = a.since
               /\ b.trail >= a.trail /\ b.stop = a.stop
               /\ ~ InPosition(a) => b = a
<1> DEFINE d == Aged(a)
<1>0. bar.high \in Nat /\ TrailDistance \in Nat
  BY ConstantsAssumption
<1>1. Shaped(d) /\ SameLevels(a, d) /\ d.qty = a.qty /\ d.since = a.since
  BY AgedFields DEF Leveled
<1>2. CASE InPosition(a)
  <2> DEFINE b == Trailed(d, bar)
  <2>1. Managed(d, bar) = b
    BY <1>1, <1>2 DEF Managed, InPosition
  <2>2. /\ Shaped(b) /\ b.qty = d.qty /\ b.since = d.since /\ b.stop = d.stop
        /\ b.peak = Max2(d.peak, bar.high)
        /\ b.trail = Max2(d.trail, Max2(d.peak, bar.high) - TrailDistance)
    BY <1>1, TrailedFields
  <2> HIDE DEF b, d
  <2>3. b.peak \in Int /\ b.trail \in Int /\ b.trail >= a.trail
    BY <1>0, <1>1, <2>2 DEF Max2, Leveled, SameLevels
  <2> QED
    BY <1>1, <1>2, <2>1, <2>2, <2>3 DEF Leveled, SameLevels, d
<1>3. CASE ~ InPosition(a)
  <2>1. Managed(d, bar) = a
    BY <1>3 DEF Managed, Aged
  <2> QED
    BY <1>3, <2>1 DEF Leveled
<1> QED
  BY <1>2, <1>3

LEMMA ModelLevels ==
    ASSUME NEW a, Leveled(a), NEW bar \in Bars, NEW act, NEW c, act = "buy" => ~ InPosition(a)
    PROVE  LET b == ModelFill(a, act, bar, c).account
           IN  Leveled(b) /\ Tightened(a, b)
<1>0. bar.close \in Int /\ StopDistance \in Int /\ TrailDistance \in Int
  BY ConstantsAssumption
<1>1. CASE act = "buy"
  <2> DEFINE f == BuyWithMarginFraction(a, bar, c)
  <2>1. ModelFill(a, act, bar, c) = f
    BY <1>1 DEF ModelFill
  <2>2. Shaped(f.account) /\ Attached(f.account, bar.close)
    BY ModelBuyFields DEF Leveled
  <2> HIDE DEF f
  <2> QED
    BY <1>0, <1>1, <2>1, <2>2 DEF Leveled, Tightened, Attached
<1>2. CASE act = "sell"
  <2> DEFINE trigger == ExitTrigger(a, bar)
             fill == IF trigger # NoExit THEN trigger - Slip ELSE bar.close - Slip
             filled == CloseLong(a, fill)
             b == AfterClosedTrade(filled.account, filled.order.money, c)
             g == [filled EXCEPT !.account = b]
  <2>1. ModelFill(a, act, bar, c) = [filled EXCEPT !.account = AfterClosedTrade(@, filled.order.money, c)]
    BY <1>2 DEF ModelFill
  <2> HIDE DEF fill
  <2>2. filled = [account |-> filled.account, order |-> filled.order] /\ Shaped(filled.account) /\ Flat(filled.account)
    BY ModelSaleFields DEF Leveled
  <2> HIDE DEF filled
  <2>3. Shaped(b) /\ SameLevels(filled.account, b) /\ b.qty = filled.account.qty
    BY <2>2, AfterClosedFields
  <2>4. ModelFill(a, act, bar, c).account = b
    BY <2>1, <2>2
  <2> HIDE DEF b
  <2> QED
    BY <2>2, <2>3, <2>4 DEF Leveled, SameLevels, Flat, Tightened, InPosition
<1>3. CASE act \notin {"buy", "sell"}
  <2>1. ModelFill(a, act, bar, c).account = a
    BY <1>3 DEF ModelFill, Unfilled
  <2> QED
    BY <2>1 DEF Leveled, Tightened
<1> QED
  BY <1>1, <1>2, <1>3

LEMMA RebalanceLevels ==
    ASSUME NEW a, Leveled(a), NEW target, NEW price, NEW c, NEW bar \in Bars
    PROVE  LET f == RebalanceToExposure(a, target, price, c, bar)
           IN  /\ f = [account |-> f.account, order |-> f.order]
               /\ Leveled(f.account) /\ Tightened(a, f.account)
<1>0. bar.close \in Int /\ StopDistance \in Int /\ TrailDistance \in Int
  BY ConstantsAssumption
<1> DEFINE f == RebalanceToExposure(a, target, price, c, bar)
           Fine(g) == /\ g = [account |-> g.account, order |-> g.order]
                      /\ Leveled(g.account) /\ Tightened(a, g.account)
<1>1. Fine(Unfilled(a))
  BY DEF Unfilled, Leveled, Tightened
<1>2. ASSUME NEW notional PROVE Fine(BuyDelta(a, notional, price, c, bar))
  <2> DEFINE g == BuyDelta(a, notional, price, c, bar)
  <2>1. /\ g = [account |-> g.account, order |-> g.order]
        /\ BoughtMore(a, g, Contracts(notional, price + Slip), price, c, bar)
    BY BuyDeltaFields DEF Leveled
  <2> HIDE DEF g
  <2>2. Leveled(g.account) /\ Tightened(a, g.account)
    BY <1>0, <2>1 DEF BoughtMore, Leveled, Tightened, SameLevels, Attached
  <2> QED
    BY <2>1, <2>2 DEF g
<1>3. ASSUME NEW notional, NEW all \in BOOLEAN PROVE Fine(SellDelta(a, notional, price, c, all))
  <2> DEFINE g == SellDelta(a, notional, price, c, all)
             wanted == Contracts(notional, price - Slip)
             n == IF all \/ wanted > a.qty THEN a.qty ELSE wanted
             pnl == n * (price - Slip - a.entry) - n * Fee
  <2>1. /\ g = [account |-> g.account, order |-> g.order]
        /\ n = 0 => g = Unfilled(a)
        /\ n # 0 /\ n = a.qty => SoldAll(a, g, pnl, c)
        /\ n # 0 /\ n # a.qty => SoldSome(a, g, n, pnl)
    BY SellDeltaFields DEF Leveled
  <2> HIDE DEF g, n, pnl
  <2>2. CASE g = Unfilled(a)
    BY <1>1, <2>2 DEF g
  <2>3. CASE SoldAll(a, g, pnl, c)
    <3>1. Leveled(g.account) /\ Tightened(a, g.account)
      BY <2>3 DEF SoldAll, Flat, Leveled, Tightened, InPosition
    <3> QED
      BY <2>1, <3>1 DEF g
  <2>4. CASE SoldSome(a, g, n, pnl)
    <3>1. Leveled(g.account) /\ Tightened(a, g.account)
      BY <2>4 DEF SoldSome, SameLevels, Leveled, Tightened
    <3> QED
      BY <2>1, <3>1 DEF g
  <2> QED
    BY <2>1, <2>2, <2>3, <2>4
<1> HIDE DEF Fine
<1>4. Fine(f)
  BY <1>1, <1>2, <1>3 DEF RebalanceToExposure
<1> QED
  BY <1>4 DEF Fine

LEMMA EnsembleLevels ==
    ASSUME NEW a, Leveled(a), NEW bar \in Bars, NEW c
    PROVE  LET b == EnsembleFill(a, bar, c).account
           IN  Leveled(b) /\ Tightened(a, b)
<1> DEFINE trigger == IF InPosition(a) THEN ExitTrigger(a, bar) ELSE NoExit
           f == IF trigger # NoExit THEN RebalanceToExposure(a, 0, trigger - Slip, c, bar)
                ELSE RebalanceToExposure(a, bar.target, bar.close, c, bar)
           g == [f EXCEPT !.account.lev = EffectiveLeverage(f.account, bar)]
<1>1. EnsembleFill(a, bar, c) = g
  BY DEF EnsembleFill
<1>2. f = [account |-> f.account, order |-> f.order] /\ Leveled(f.account) /\ Tightened(a, f.account)
  BY RebalanceLevels
<1> HIDE DEF f
<1>3. /\ Shaped(g.account) /\ SameLevels(f.account, g.account)
      /\ g.account.qty = f.account.qty /\ g.account.since = f.account.since
  BY <1>2, LeveredFields DEF Leveled
<1> HIDE DEF g
<1> QED
  BY <1>1, <1>2, <1>3 DEF Leveled, SameLevels, Tightened, InPosition

---------------------------------------------------------------------------
(* Stops only tighten                                                      *)

LevelInv ==
    /\ ControlInv /\ MemoryFollows
    /\ Leveled(account) /\ \A r \in Runners : Leveled(mem[r])

LEMMA NewIsLeveled == Leveled(NewAccount)
BY DEF NewAccount, Leveled, Shaped, Fields

\* The decision of a runner: the fill of the managed account.
Filled(r) ==
    LET bar == dataset[at[r]]
        c == at[r]
        a == Managed(Aged(mem[r]), bar)
        act == IF r \in Ensemble THEN "rebalance" ELSE ModelAction(Aged(mem[r]), bar, c)
    IN  IF r \in Ensemble THEN EnsembleFill(a, bar, c)
        ELSE IF Duplicate(act, c) THEN Unfilled(a)
        ELSE ModelFill(a, act, bar, c)

LEMMA Decided ==
    ASSUME ControlOK, NEW r \in Runners, Decide(r)
    PROVE  /\ pc[r] = "fresh" /\ pc'[r] = "decided"
           /\ mem'[r] = Filled(r).account /\ order'[r] = Filled(r).order
           /\ r \notin Ensemble => action'[r] = ModelAction(Aged(mem[r]), dataset[at[r]], at[r])
           /\ UNCHANGED <<dataset, tables, at, trades, bounds>>
           /\ at[r] \in 1 .. Latest /\ dataset[at[r]] \in Bars
<1> DEFINE act == IF r \in Ensemble THEN "rebalance" ELSE ModelAction(Aged(mem[r]), dataset[at[r]], at[r])
           f == Filled(r)
<1>1. /\ pc[r] = "fresh" /\ mem' = [mem EXCEPT ![r] = f.account] /\ order' = [order EXCEPT ![r] = f.order]
      /\ action' = [action EXCEPT ![r] = act] /\ pc' = [pc EXCEPT ![r] = "decided"]
      /\ UNCHANGED <<dataset, tables, at, trades, bounds>>
  BY DEF Decide, Filled
<1> HIDE DEF act, f
<1>2. /\ mem = [q \in Runners |-> mem[q]] /\ order = [q \in Runners |-> order[q]]
      /\ pc \in [Runners -> PCs] /\ action \in [Runners -> Actions]
      /\ AtWork(r) => at[r] \in 1 .. Latest
      /\ dataset \in Seq(Bars)
  BY DEF ControlOK
<1>3. at[r] \in 1 .. Latest
  BY <1>1, <1>2 DEF AtWork
<1>4. dataset[at[r]] \in Bars
  BY <1>2, <1>3 DEF Latest
<1>5. mem'[r] = f.account /\ order'[r] = f.order /\ action'[r] = act /\ pc'[r] = "decided"
  BY <1>1, <1>2
<1> QED
  BY <1>1, <1>3, <1>4, <1>5 DEF act, f

LEMMA BuysWhenFlat ==
    ASSUME NEW a, NEW bar, NEW c, ModelAction(a, bar, c) = "buy"
    PROVE  ~ InPosition(a)
BY DEF ModelAction

LEMMA FilledLevels ==
    ASSUME NEW r \in Runners, Leveled(mem[r]), dataset[at[r]] \in Bars
    PROVE  Leveled(Filled(r).account) /\ Tightened(mem[r], Filled(r).account)
<1> DEFINE bar == dataset[at[r]]
           c == at[r]
           a == Managed(Aged(mem[r]), bar)
           act == ModelAction(Aged(mem[r]), bar, c)
           b == Filled(r).account
<1>1. /\ Leveled(a) /\ a.qty = mem[r].qty /\ a.since = mem[r].since
      /\ a.trail >= mem[r].trail /\ a.stop = mem[r].stop
  BY ManagedLevels
<1>2. act = "buy" => ~ InPosition(a)
  <2>1. Aged(mem[r]).qty = mem[r].qty
    BY AgedFields DEF Leveled
  <2> HIDE DEF a
  <2> QED
    BY <1>1, <2>1, BuysWhenFlat DEF InPosition
<1>3. b = IF r \in Ensemble THEN EnsembleFill(a, bar, c).account
          ELSE IF Duplicate(act, c) THEN a
          ELSE ModelFill(a, act, bar, c).account
  BY DEF Filled, Unfilled
<1> HIDE DEF a, act, b
<1>4. Leveled(b) /\ Tightened(a, b)
  <2>1. CASE r \in Ensemble
    BY <1>1, <1>3, <2>1, EnsembleLevels
  <2>2. CASE r \notin Ensemble /\ Duplicate(act, c)
    BY <1>1, <1>3, <2>2 DEF Tightened, Leveled
  <2>3. CASE r \notin Ensemble /\ ~ Duplicate(act, c)
    BY <1>1, <1>2, <1>3, <2>3, ModelLevels
  <2> QED
    BY <2>1, <2>2, <2>3
<1>5. Tightened(mem[r], b)
  BY <1>1, <1>4 DEF Tightened, InPosition, Leveled
<1> QED
  BY <1>4, <1>5 DEF b

LEMMA LevelStep ==
    ASSUME Concurrent = FALSE, LevelInv, NEW r \in Runners, Acts(r)
    PROVE  MemoryFollows' /\ Leveled(account') /\ \A q \in Runners : Leveled(mem'[q])
<1>0. ControlOK /\ OneAtATime /\ MemoryFollows /\ Leveled(account) /\ \A q \in Runners : Leveled(mem[q])
  BY DEF LevelInv, ControlInv
<1>1. \A q \in Runners \ {r} : pc'[q] = "idle" /\ mem'[q] = mem[q]
  BY <1>0, Alone, StepFrame DEF WorkOf
<1>2. /\ mem = [q \in Runners |-> mem[q]] /\ pc \in [Runners -> PCs]
  BY <1>0 DEF ControlOK
<1> DEFINE Follows == /\ pc'[r] \in {"loaded", "fresh"} => mem'[r] = account'
                      /\ pc'[r] = "decided" => Tightened(account', mem'[r])
                      /\ pc'[r] \in {"saved", "ordered", "logged"} => mem'[r] = account'
<1>3. SUFFICES Follows /\ Leveled(account') /\ Leveled(mem'[r])
  <2>1. Follows => MemoryFollows'
    BY <1>1 DEF MemoryFollows
  <2> QED
    BY <1>0, <1>1, <2>1
<1>4. CASE Load(r)
  <2>1. mem'[r] = account /\ account' = account /\ pc'[r] = "loaded"
    BY <1>2, <1>4 DEF Load, tables
  <2> QED
    BY <1>0, <2>1
<1>5. CASE Take(r) \/ Repeat(r)
  <2>1. mem' = mem /\ account' = account /\ pc'[r] = "fresh" /\ pc[r] = "loaded"
    BY <1>2, <1>5 DEF Take, Repeat, Check, tables
  <2> QED
    BY <1>0, <2>1 DEF MemoryFollows
<1>6. CASE Decide(r)
  <2>1. /\ pc[r] = "fresh" /\ pc'[r] = "decided" /\ mem'[r] = Filled(r).account /\ account' = account
        /\ dataset[at[r]] \in Bars
    BY <1>0, <1>6, Decided DEF tables
  <2>2. mem[r] = account
    BY <1>0, <2>1 DEF MemoryFollows
  <2>3. Leveled(Filled(r).account) /\ Tightened(mem[r], Filled(r).account)
    BY <1>0, <2>1, FilledLevels
  <2> QED
    BY <1>0, <2>1, <2>2, <2>3
<1>7. CASE SaveAccount(r)
  <2>1. account' = mem[r] /\ mem' = mem /\ pc'[r] \in {"saved", "ordered"}
    BY <1>2, <1>7 DEF SaveAccount
  <2> QED
    BY <1>0, <2>1
<1>8. CASE AppendOrder(r) \/ AppendExecution(r) \/ AppendTarget(r)
  <2>1. /\ account' = account /\ mem' = mem /\ pc[r] \in {"saved", "ordered"}
        /\ pc'[r] \in {"ordered", "logged"}
    BY <1>2, <1>8 DEF AppendOrder, AppendExecution, AppendTarget
  <2> QED
    BY <1>0, <2>1 DEF MemoryFollows
<1>9. CASE Skip(r) \/ AppendEquity(r) \/ Crash(r)
  <2>1. account' = account /\ mem'[r] = NewAccount /\ pc'[r] = "idle"
    BY <1>2, <1>9 DEF Skip, AppendEquity, Crash, Forget, tables
  <2> QED
    BY <1>0, <2>1, NewIsLeveled
<1> QED
  BY <1>4, <1>5, <1>6, <1>7, <1>8, <1>9 DEF Acts, Step

LEMMA LevelInit == Init => LevelInv
<1> SUFFICES ASSUME Init PROVE LevelInv
  OBVIOUS
<1>1. ControlInv
  BY ControlInit
<1>2. /\ account = NewAccount /\ pc = [r \in Runners |-> "idle"] /\ mem = [r \in Runners |-> NewAccount]
  BY DEF Init
<1> QED
  BY <1>1, <1>2, NewIsLeveled DEF LevelInv, MemoryFollows

LEMMA LevelKept == Concurrent = FALSE /\ LevelInv /\ [Next]_vars => LevelInv'
<1> SUFFICES ASSUME Concurrent = FALSE, LevelInv, [Next]_vars PROVE LevelInv'
  OBVIOUS
<1>1. ControlInv'
  BY ControlInvKept DEF LevelInv
<1>2. ASSUME NEW r \in Runners, Acts(r) PROVE LevelInv'
  BY <1>1, <1>2, LevelStep DEF LevelInv
<1>3. ASSUME UNCHANGED <<tables, memory>> PROVE LevelInv'
  BY <1>1, <1>3 DEF LevelInv, MemoryFollows, tables, memory
<1> QED
  BY <1>2, <1>3 DEF Next, Acts, NewCandle, vars, tables, memory

\* The trailing stop of a position never moves down and its stop loss stays,
\* through every restart, repeat and change of hands, for every price series
\* and even when the account is bankrupt (update_trailing_state,
\* DynamicPaperBroker._buy_delta).
THEOREM StopsTighten == Concurrent = FALSE => (Spec => StopsOnlyTighten)
<1> SUFFICES ASSUME Concurrent = FALSE PROVE Spec => StopsOnlyTighten
  OBVIOUS
<1>1. Init => LevelInv
  BY LevelInit
<1>2. LevelInv /\ [Next]_vars => LevelInv'
  BY LevelKept
<1>3. LevelInv /\ [Next]_vars =>
        [(/\ InPosition(account) /\ InPosition(account')
          /\ account'.since = account.since)
         => account'.trail >= account.trail /\ account'.stop = account.stop]_vars
  <2> SUFFICES ASSUME LevelInv, Next, InPosition(account), InPosition(account'),
                      account'.since = account.since
               PROVE  account'.trail >= account.trail /\ account'.stop = account.stop
    OBVIOUS
  <2>1. CASE account' = account
    BY <2>1 DEF LevelInv, Leveled
  <2>2. ASSUME NEW r \in Runners, SaveAccount(r)
        PROVE  account'.trail >= account.trail /\ account'.stop = account.stop
    <3>1. account' = mem[r] /\ pc[r] = "decided"
      BY <2>2 DEF SaveAccount
    <3> QED
      BY <3>1 DEF LevelInv, MemoryFollows, Tightened
  <2> QED
    BY <2>1, <2>2 DEF Next, Step, NewCandle, Load, Skip, Take, Repeat, Check, Decide, AppendOrder,
       AppendExecution, AppendTarget, AppendEquity, Crash, tables
<1> QED
  BY <1>1, <1>2, <1>3, PTL DEF Spec, StopsOnlyTighten

---------------------------------------------------------------------------
(* Types                                                                   *)

LEMMA AtLeastOne ==
    ASSUME NEW x \in Int, NEW p \in Int, p > 0, x >= p
    PROVE  x \div p \in Nat \ {0}
OBVIOUS

LEMMA Averages ==
    ASSUME NEW q \in Nat, NEW e \in Nat, NEW n \in Nat \ {0}, NEW f \in Nat \ {0}, q > 0 => e > 0
    PROVE  (q * e + n * f) \div (q + n) \in Nat \ {0}
<1>0. \A x, y \in Nat : y > 0 => x * y \in Nat /\ x * y >= x
  OBVIOUS
<1>1. q * e \in Nat /\ q * e >= q
  BY <1>0
<1>2. n * f \in Nat /\ n * f >= n
  BY <1>0
<1> DEFINE x == q * e + n * f
<1>3. x \in Int /\ x >= q + n
  BY <1>1, <1>2
<1> HIDE DEF x
<1>4. x \div (q + n) \in Nat \ {0}
  BY <1>3, AtLeastOne
<1> QED
  BY <1>4 DEF x

Good(a) ==
    /\ a \in Accounts /\ Coherent(a)
    /\ InPosition(a) => a.take > 0
Stored(o) == o = NoOrder \/ (o \in Orders /\ o.side \in {"buy", "sell"} /\ o.qty > 0)

LEMMA GoodFields ==
    ASSUME NEW a, Good(a)
    PROVE  /\ Leveled(a) /\ a.cash \in Int /\ a.daily \in Int
           /\ {a.qty, a.entry, a.since, a.bars, a.take, a.peak, a.losses, a.pause, a.day} \subseteq Nat
           /\ a.lev \in Nat /\ a.lev > 0
           /\ InPosition(a) => a.qty > 0 /\ a.entry > 0 /\ a.since > 0 /\ a.trail <= a.peak /\ a.take > 0
           /\ ~ InPosition(a) => Flat(a)
<1>1. a \in Accounts
  BY DEF Good
<1>2. Shaped(a)
  BY <1>1 DEF Accounts, Shaped, Fields
<1>3. /\ a.cash \in Int /\ a.daily \in Int /\ a.stop \in Int /\ a.trail \in Int
      /\ {a.qty, a.entry, a.since, a.bars, a.take, a.peak, a.losses, a.pause, a.day} \subseteq Nat
      /\ a.lev \in Nat /\ a.lev > 0
  BY <1>1 DEF Accounts
<1>4. InPosition(a) => a.qty > 0 /\ a.entry > 0 /\ a.since > 0 /\ a.trail <= a.peak /\ a.take > 0
  BY <1>3 DEF Good, Coherent, InPosition
<1>5. ~ InPosition(a) => Flat(a)
  <2> SUFFICES ASSUME ~ InPosition(a) PROVE Flat(a)
    OBVIOUS
  <2>1. <<a.entry, a.since, a.bars, a.stop, a.take, a.trail, a.peak>> = <<0, 0, 0, 0, 0, 0, 0>>
    BY DEF Good, Coherent
  <2>2. \A x1, x2, x3, x4, x5, x6, x7 : <<x1, x2, x3, x4, x5, x6, x7>> = <<0, 0, 0, 0, 0, 0, 0>> =>
            x1 = 0 /\ x2 = 0 /\ x3 = 0 /\ x4 = 0 /\ x5 = 0 /\ x6 = 0 /\ x7 = 0
    OBVIOUS
  <2> QED
    BY <2>1, <2>2 DEF Flat, InPosition
<1> QED
  BY <1>2, <1>3, <1>4, <1>5 DEF Leveled

LEMMA GoodFrom ==
    ASSUME NEW a, Shaped(a), {a.cash, a.daily, a.stop, a.trail} \subseteq Int,
           {a.qty, a.entry, a.since, a.bars, a.take, a.peak, a.losses, a.pause, a.day} \subseteq Nat,
           a.lev \in Nat \ {0},
           IF InPosition(a) THEN a.entry > 0 /\ a.since > 0 /\ a.trail <= a.peak /\ a.take > 0
           ELSE Flat(a)
    PROVE  Good(a)
<1>1. a \in Accounts
  BY DEF Accounts, Shaped, Fields
<1>2. Coherent(a)
  BY DEF Coherent, Flat
<1> QED
  BY <1>1, <1>2 DEF Good

LEMMA FlatIsGood ==
    ASSUME NEW a, Shaped(a), Flat(a), {a.cash, a.daily} \subseteq Int, a.lev \in Nat \ {0},
           {a.losses, a.pause, a.day} \subseteq Nat
    PROVE  Good(a)
BY GoodFrom DEF Flat, InPosition

LEMMA NewIsGood == Good(NewAccount)
<1>1. Shaped(NewAccount)
  BY NewIsLeveled DEF Leveled
<1>2. InitialEquity \in Int /\ Leverage \in Nat \ {0}
  BY ConstantsAssumption
<1> QED
  BY <1>1, <1>2, FlatIsGood DEF NewAccount, Flat

LEMMA ManagedIsGood ==
    ASSUME NEW a, Good(a), NEW bar \in Bars
    PROVE  LET b == Managed(Aged(a), bar)
           IN  /\ Good(b) /\ b.qty = a.qty /\ b.since = a.since /\ b.cash = a.cash
               /\ b.stop = a.stop /\ b.take = a.take /\ b.entry = a.entry
               /\ ~ InPosition(a) => b = a
<1> DEFINE d == Aged(a)
<1>0. bar.high \in Nat /\ TrailDistance \in Nat
  BY ConstantsAssumption
<1>1. /\ Leveled(a) /\ a.cash \in Int /\ a.daily \in Int
      /\ {a.qty, a.entry, a.since, a.bars, a.take, a.peak, a.losses, a.pause, a.day} \subseteq Nat
      /\ a.lev \in Nat /\ a.lev > 0
      /\ InPosition(a) => a.qty > 0 /\ a.entry > 0 /\ a.since > 0 /\ a.trail <= a.peak /\ a.take > 0
  BY GoodFields
<1>2. /\ Shaped(d) /\ SameLevels(a, d) /\ SameStreak(a, d)
      /\ d.cash = a.cash /\ d.qty = a.qty /\ d.entry = a.entry /\ d.lev = a.lev
      /\ d.since = a.since /\ d.bars = IF InPosition(a) THEN a.bars + 1 ELSE a.bars
  BY <1>1, AgedFields DEF Leveled
<1>3. CASE InPosition(a)
  <2> DEFINE b == Trailed(d, bar)
  <2>1. Managed(d, bar) = b
    BY <1>2, <1>3 DEF Managed, InPosition
  <2>2. /\ Shaped(b) /\ SameStreak(d, b)
        /\ b.cash = d.cash /\ b.qty = d.qty /\ b.entry = d.entry /\ b.lev = d.lev
        /\ b.since = d.since /\ b.bars = d.bars /\ b.stop = d.stop /\ b.take = d.take
        /\ b.peak = Max2(d.peak, bar.high)
        /\ b.trail = Max2(d.trail, Max2(d.peak, bar.high) - TrailDistance)
    BY <1>2, TrailedFields
  <2> HIDE DEF b, d
  <2>3. b.peak \in Nat /\ b.trail \in Int /\ b.trail <= b.peak
    BY <1>0, <1>1, <1>2, <1>3, <2>2 DEF Max2, Leveled, SameLevels
  <2>4. Good(b)
    BY <1>1, <1>2, <1>3, <2>2, <2>3, GoodFrom DEF Leveled, SameLevels, SameStreak, InPosition
  <2> QED
    BY <1>2, <1>3, <2>1, <2>2, <2>4 DEF SameLevels, d
<1>4. CASE ~ InPosition(a)
  <2>1. Managed(d, bar) = a
    BY <1>4 DEF Managed, Aged
  <2> QED
    BY <1>4, <2>1
<1> QED
  BY <1>3, <1>4

LEMMA BarsArePriced ==
    ASSUME NEW bar \in Bars
    PROVE  /\ {bar.close, bar.high, bar.low, bar.target, Slip, Fee} \subseteq Nat
           /\ Slip < bar.low /\ bar.low <= bar.close /\ bar.close <= bar.high
           /\ bar.close > 0 /\ bar.close + Slip \in Nat \ {0}
           /\ StopDistance \in Nat /\ TakeDistance \in Nat /\ TrailDistance \in Nat
BY ConstantsAssumption

LEMMA EquityIsInt ==
    ASSUME NEW a, Good(a), NEW price \in Int
    PROVE  Equity(a, price) \in Int
<1>1. a.cash \in Int /\ a.qty \in Int /\ a.entry \in Int
  BY GoodFields
<1> QED
  BY <1>1 DEF Equity

LEMMA DaysAreNat == \A c \in Nat : Day(c) \in Nat
<1>1. BarsPerDay \in Nat \ {0}
  BY ConstantsAssumption
<1>2. ASSUME NEW c \in Nat PROVE Day(c) \in Nat
  BY <1>1 DEF Day
<1> QED
  BY <1>2

\* The price that closes a position.
LEMMA TriggersArePrices ==
    ASSUME NEW a, Good(a), InPosition(a), NEW bar \in Bars
    PROVE  /\ ExitTrigger(a, bar) \in Int
           /\ \/ bar.low <= a.stop \/ bar.low <= a.trail \/ bar.high >= a.take
              => ExitTrigger(a, bar) # NoExit
<1> DEFINE buffer == LiquidationBuffer(a)
           hit == {s \in {a.stop, a.trail} : bar.low <= s}
           nearest == CHOOSE s \in hit : \A t \in hit : t <= s
<1>0. /\ bar.low \in Nat /\ bar.low > 0 /\ bar.high \in Nat
      /\ a.stop \in Int /\ a.trail \in Int /\ a.take \in Nat /\ a.take > 0
      /\ a.entry \in Nat /\ a.lev \in Nat /\ a.lev > 0
  BY BarsArePriced, GoodFields DEF Leveled
<1>1. buffer \in Int
  <2>1. a.entry * (a.lev - 1) * 105 \in Int /\ a.lev * 100 \in Nat /\ a.lev * 100 > 0
    BY <1>0
  <2> QED
    BY <2>1 DEF LiquidationBuffer
<1>2. hit # {} => nearest \in hit
  <2>1. hit # {} => \E s \in hit : \A t \in hit : t <= s
    BY <1>0
  <2> HIDE DEF hit
  <2> QED
    BY <2>1
<1>3. ExitTrigger(a, bar) = IF bar.low <= buffer THEN Max2(buffer, bar.low)
                            ELSE IF hit # {} THEN nearest
                            ELSE IF bar.high >= a.take THEN a.take ELSE NoExit
  BY DEF ExitTrigger
<1> HIDE DEF buffer, nearest
<1>4. CASE bar.low <= buffer
  BY <1>0, <1>1, <1>3, <1>4 DEF Max2, NoExit
<1>5. CASE ~ (bar.low <= buffer) /\ hit # {}
  BY <1>0, <1>2, <1>3, <1>5 DEF NoExit
<1>6. CASE ~ (bar.low <= buffer) /\ hit = {}
  <2>1. ~ (bar.low <= a.stop) /\ ~ (bar.low <= a.trail)
    BY <1>6
  <2> QED
    BY <1>0, <1>3, <1>6, <2>1 DEF NoExit
<1> QED
  BY <1>4, <1>5, <1>6

LEMMA ModelBuyIsGood ==
    ASSUME NEW a, Good(a), NEW bar \in Bars, NEW c \in Nat \ {0},
           Equity(a, bar.close) * EntryPercent >= 100
    PROVE  LET f == BuyWithMarginFraction(a, bar, c)
           IN  Good(f.account) /\ Stored(f.order) /\ f.account.since = c
<1> DEFINE f == BuyWithMarginFraction(a, bar, c)
           notional == (Equity(a, bar.close) * EntryPercent) \div 100
           fill == bar.close + Slip
           n == Contracts(notional, fill)
           b == f.account
<1>0. /\ {bar.close, Slip, Fee} \subseteq Nat /\ fill \in Nat \ {0} /\ Leverage \in Nat \ {0}
      /\ StopDistance \in Nat /\ TakeDistance \in Nat /\ TrailDistance \in Nat /\ EntryPercent \in Nat
      /\ bar.close > 0
  BY BarsArePriced, ConstantsAssumption
<1>1. /\ a.cash \in Int /\ a.daily \in Int /\ {a.losses, a.pause, a.day} \subseteq Nat /\ Shaped(a)
  BY GoodFields DEF Leveled
<1>2. notional \in Nat \ {0}
  <2>1. Equity(a, bar.close) * EntryPercent \in Int
    BY <1>0, EquityIsInt
  <2> QED
    BY <2>1, AtLeastOne
<1> HIDE DEF notional
<1>3. n \in Nat \ {0}
  <2>1. notional + fill - 1 >= fill /\ notional + fill - 1 \in Int /\ fill \in Int /\ fill > 0
    BY <1>0, <1>2
  <2> QED
    BY <2>1, AtLeastOne DEF Contracts
<1>4. /\ Shaped(b) /\ Attached(b, bar.close) /\ SameStreak(a, b)
      /\ b.cash = a.cash - n * Fee /\ b.qty = n /\ b.entry = fill
      /\ b.lev = Leverage /\ b.since = c /\ b.bars = 0
      /\ f.order = [side |-> "buy", qty |-> n, money |-> -(n * Fee), flat |-> FALSE]
  BY <1>1, ModelBuyFields DEF notional
<1> HIDE DEF n, f, fill
<1>5. n * Fee \in Int
  BY <1>0, <1>3
<1>6. Stored(f.order)
  BY <1>3, <1>4, <1>5 DEF Stored, Orders
<1>7. Good(b)
  BY <1>0, <1>1, <1>3, <1>4, <1>5, GoodFrom DEF Attached, SameStreak, InPosition
<1> QED
  BY <1>4, <1>6, <1>7 DEF f

LEMMA SoldAllIsGood ==
    ASSUME NEW a, Good(a), InPosition(a), NEW f, NEW pnl \in Int, NEW c \in Nat, SoldAll(a, f, pnl, c)
    PROVE  Good(f.account) /\ Stored(f.order) /\ ~ InPosition(f.account)
<1>1. /\ a.cash \in Int /\ a.daily \in Int /\ {a.losses, a.pause, a.day, a.qty} \subseteq Nat /\ a.qty > 0
      /\ a.lev \in Nat \ {0}
  BY GoodFields
<1>2. Stored(f.order)
  BY <1>1 DEF SoldAll, Stored, Orders
<1>3. Good(f.account)
  BY <1>1, DaysAreNat, FlatIsGood DEF SoldAll
<1> QED
  BY <1>2, <1>3 DEF SoldAll, Flat, InPosition

LEMMA SoldSomeIsGood ==
    ASSUME NEW a, Good(a), InPosition(a), NEW f, NEW pnl \in Int,
           NEW n \in Nat \ {0}, n < a.qty, SoldSome(a, f, n, pnl)
    PROVE  Good(f.account) /\ Stored(f.order)
<1>1. /\ Leveled(a) /\ a.cash \in Int /\ a.daily \in Int
      /\ {a.qty, a.entry, a.since, a.bars, a.take, a.peak, a.losses, a.pause, a.day} \subseteq Nat
      /\ a.lev \in Nat \ {0}
      /\ a.qty > 0 /\ a.entry > 0 /\ a.since > 0 /\ a.trail <= a.peak /\ a.take > 0
  BY GoodFields
<1>2. Stored(f.order)
  BY DEF SoldSome, Stored, Orders
<1>3. Good(f.account)
  BY <1>1, GoodFrom DEF SoldSome, SameLevels, SameStreak, Leveled, InPosition
<1> QED
  BY <1>2, <1>3

LEMMA ModelFillIsGood ==
    ASSUME NEW a, Good(a), NEW bar \in Bars, NEW c \in Nat \ {0}, NEW act,
           act = "buy" => Equity(a, bar.close) * EntryPercent >= 100,
           act = "sell" => InPosition(a)
    PROVE  LET f == ModelFill(a, act, bar, c)
           IN  /\ Good(f.account) /\ Stored(f.order)
               /\ act = "buy" => f.account.since = c
               /\ act = "sell" => ~ InPosition(f.account)
<1>1. CASE act = "buy"
  <2>1. ModelFill(a, act, bar, c) = BuyWithMarginFraction(a, bar, c)
    BY <1>1 DEF ModelFill
  <2> QED
    BY <1>1, <2>1, ModelBuyIsGood
<1>2. CASE act = "sell"
  <2> DEFINE trigger == ExitTrigger(a, bar)
             fill == IF trigger # NoExit THEN trigger - Slip ELSE bar.close - Slip
             filled == CloseLong(a, fill)
             pnl == a.qty * (fill - a.entry) - a.qty * Fee
             b == AfterClosedTrade(filled.account, filled.order.money, c)
             f == [filled EXCEPT !.account = b]
  <2>1. ModelFill(a, act, bar, c) = [filled EXCEPT !.account = AfterClosedTrade(@, filled.order.money, c)]
    BY <1>2 DEF ModelFill
  <2>2. fill \in Int
    BY <1>2, TriggersArePrices, BarsArePriced
  <2>3. /\ a.cash \in Int /\ a.daily \in Int /\ {a.losses, a.pause, a.day, a.qty, a.entry} \subseteq Nat
        /\ a.qty > 0 /\ a.lev \in Nat \ {0} /\ Shaped(a) /\ Fee \in Nat /\ PauseBars \in Nat
    BY <1>2, GoodFields, BarsArePriced, ConstantsAssumption DEF Leveled
  <2> HIDE DEF fill
  <2>4. pnl \in Int
    BY <2>2, <2>3
  <2>5. /\ filled = [account |-> filled.account, order |-> filled.order]
        /\ Shaped(filled.account) /\ Flat(filled.account) /\ SameStreak(a, filled.account)
        /\ filled.account.cash = a.cash + pnl /\ filled.account.lev = a.lev
        /\ filled.order = [side |-> "sell", qty |-> a.qty, money |-> pnl, flat |-> TRUE]
    BY <2>3, ModelSaleFields
  <2> HIDE DEF filled, pnl
  <2>6. /\ Shaped(b) /\ SameLevels(filled.account, b)
        /\ b.cash = filled.account.cash /\ b.qty = filled.account.qty /\ b.entry = filled.account.entry
        /\ b.lev = filled.account.lev
        /\ b.since = filled.account.since /\ b.bars = filled.account.bars /\ b.day = Day(c)
        /\ b.daily = (IF filled.account.day = Day(c) THEN filled.account.daily ELSE 0) + pnl
        /\ b.losses = IF pnl < 0 THEN filled.account.losses + 1 ELSE 0
        /\ b.pause = IF MaxLosses > 0 /\ b.losses >= MaxLosses THEN c + PauseBars
                     ELSE filled.account.pause
    <3>1. filled.order.money = pnl
      BY <2>5
    <3> QED
      BY <2>5, <3>1, AfterClosedFields
  <2>7. ModelFill(a, act, bar, c).account = b /\ ModelFill(a, act, bar, c).order = filled.order
    BY <2>1, <2>5
  <2> HIDE DEF b
  <2>8. Flat(b)
    BY <2>5, <2>6 DEF SameLevels, Flat
  <2>9. Good(b)
    BY <2>3, <2>4, <2>5, <2>6, <2>8, DaysAreNat, FlatIsGood DEF SameStreak
  <2>10. Stored(filled.order)
    BY <2>3, <2>4, <2>5 DEF Stored, Orders
  <2> QED
    BY <1>2, <2>7, <2>8, <2>9, <2>10 DEF Flat, InPosition
<1>3. CASE act \notin {"buy", "sell"}
  <2>1. ModelFill(a, act, bar, c) = Unfilled(a)
    BY <1>3 DEF ModelFill
  <2> QED
    BY <1>3, <2>1 DEF Unfilled, Stored
<1> QED
  BY <1>1, <1>2, <1>3

Sold(a, f) ==
    /\ f = [account |-> f.account, order |-> f.order]
    /\ Good(f.account) /\ Stored(f.order)
    /\ InPosition(f.account) =>
         InPosition(a) /\ f.account.since = a.since /\ SameLevels(a, f.account)

LEMMA SellDeltaIsGood ==
    ASSUME NEW a, Good(a), NEW notional \in Int, NEW price \in Int, NEW c \in Nat, NEW all \in BOOLEAN,
           all \/ (notional >= 0 /\ price - Slip > 0)
    PROVE  LET f == SellDelta(a, notional, price, c, all)
           IN  Sold(a, f) /\ (all => ~ InPosition(f.account))
<1> DEFINE f == SellDelta(a, notional, price, c, all)
           fill == price - Slip
           wanted == Contracts(notional, fill)
           n == IF all \/ wanted > a.qty THEN a.qty ELSE wanted
           pnl == n * (fill - a.entry) - n * Fee
<1>1. /\ a.qty \in Nat /\ a.entry \in Nat /\ Slip \in Nat /\ Fee \in Nat /\ fill \in Int /\ Shaped(a)
  BY GoodFields, ConstantsAssumption DEF Leveled
<1>3. n \in Nat /\ n <= a.qty
  <2>1. CASE all
    BY <1>1, <2>1
  <2>2. CASE ~ all
    <3>1. notional + fill - 1 \in Nat /\ fill \in Nat /\ fill > 0
      BY <1>1, <2>2
    <3>2. wanted \in Nat
      BY <3>1 DEF Contracts
    <3> HIDE DEF wanted
    <3> QED
      BY <1>1, <2>2, <3>2
  <2> QED
    BY <2>1, <2>2
<1>4. all => n = a.qty
  OBVIOUS
<1>5. /\ f = [account |-> f.account, order |-> f.order]
      /\ n = 0 => f = Unfilled(a)
      /\ n # 0 /\ n = a.qty => SoldAll(a, f, pnl, c)
      /\ n # 0 /\ n # a.qty => SoldSome(a, f, n, pnl)
  BY <1>1, SellDeltaFields
<1> HIDE DEF n
<1>6. pnl \in Int
  BY <1>1, <1>3
<1> HIDE DEF f, pnl
<1> SUFFICES Sold(a, f) /\ (all => ~ InPosition(f.account))
  BY DEF f
<1>7. CASE n = 0
  <2>1. f.account = a /\ f.order = NoOrder
    BY <1>5, <1>7 DEF Unfilled
  <2>2. /\ Good(f.account) /\ Stored(f.order)
        /\ f.account.since = a.since /\ SameLevels(a, f.account)
        /\ InPosition(f.account) => InPosition(a)
    BY <2>1 DEF Stored, SameLevels
  <2>3. all => ~ InPosition(f.account)
    BY <1>4, <1>7, <2>1 DEF InPosition
  <2> QED
    BY <1>5, <2>2, <2>3 DEF Sold
<1>8. CASE n # 0 /\ n = a.qty
  <2>1. InPosition(a) /\ SoldAll(a, f, pnl, c)
    BY <1>5, <1>8 DEF InPosition
  <2>2. Good(f.account) /\ Stored(f.order) /\ ~ InPosition(f.account)
    BY <1>6, <2>1, SoldAllIsGood
  <2> QED
    BY <1>5, <2>2 DEF Sold
<1>9. CASE n # 0 /\ n # a.qty
  <2>1. InPosition(a) /\ SoldSome(a, f, n, pnl) /\ n \in Nat \ {0} /\ n < a.qty
    BY <1>1, <1>3, <1>5, <1>9 DEF InPosition
  <2>2. Good(f.account) /\ Stored(f.order)
    BY <1>6, <2>1, SoldSomeIsGood
  <2>3. f.account.since = a.since /\ SameLevels(a, f.account)
    BY <2>1 DEF SoldSome
  <2> QED
    BY <1>4, <1>5, <1>9, <2>1, <2>2, <2>3 DEF Sold
<1> QED
  BY <1>7, <1>8, <1>9

LEMMA BuyDeltaIsGood ==
    ASSUME NEW a, Good(a), NEW notional \in Int, notional > 0, NEW bar \in Bars, NEW c \in Nat \ {0}
    PROVE  LET f == BuyDelta(a, notional, bar.close, c, bar)
           IN  /\ f = [account |-> f.account, order |-> f.order]
               /\ Good(f.account) /\ Stored(f.order)
               /\ InPosition(a) => f.account.since = a.since /\ SameLevels(a, f.account)
               /\ ~ InPosition(a) => f.account.since = c
<1> DEFINE f == BuyDelta(a, notional, bar.close, c, bar)
           fill == bar.close + Slip
           n == Contracts(notional, fill)
           e == (a.qty * a.entry + n * fill) \div (a.qty + n)
           b == f.account
<1>0. /\ {bar.close, Slip, Fee} \subseteq Nat /\ fill \in Nat \ {0} /\ bar.close > 0
      /\ StopDistance \in Nat /\ TakeDistance \in Nat /\ TrailDistance \in Nat
  BY BarsArePriced
<1>1. /\ Leveled(a) /\ a.cash \in Int /\ a.daily \in Int
      /\ {a.qty, a.entry, a.since, a.bars, a.take, a.peak, a.losses, a.pause, a.day} \subseteq Nat
      /\ a.lev \in Nat \ {0}
      /\ InPosition(a) => a.qty > 0 /\ a.entry > 0 /\ a.since > 0 /\ a.trail <= a.peak /\ a.take > 0
      /\ ~ InPosition(a) => Flat(a)
  BY GoodFields
<1>2. n \in Nat \ {0}
  <2>1. notional + fill - 1 >= fill /\ notional + fill - 1 \in Int /\ fill \in Int /\ fill > 0
    BY <1>0
  <2> QED
    BY <2>1, AtLeastOne DEF Contracts
<1>3. e \in Nat \ {0}
  <2>1. a.qty > 0 => a.entry > 0
    BY <1>1 DEF InPosition
  <2> HIDE DEF n, fill
  <2> QED
    BY <1>0, <1>1, <1>2, <2>1, Averages
<1>4. /\ f = [account |-> f.account, order |-> f.order]
      /\ BoughtMore(a, f, n, bar.close, c, bar)
  BY <1>1, BuyDeltaFields DEF Leveled
<1>5. /\ Shaped(b) /\ SameStreak(a, b)
      /\ IF InPosition(a) THEN SameLevels(a, b) ELSE Attached(b, bar.close)
      /\ b.cash = a.cash - n * Fee /\ b.qty = a.qty + n /\ b.entry = e
      /\ b.lev = a.lev /\ b.bars = a.bars
      /\ b.since = IF a.since = 0 THEN c ELSE a.since
      /\ f.order = [side |-> "buy", qty |-> n, money |-> -(n * Fee), flat |-> FALSE]
  BY <1>4 DEF BoughtMore
<1> HIDE DEF n, f, e
<1>6. n * Fee \in Int
  BY <1>0, <1>2
<1>7. Stored(f.order)
  BY <1>2, <1>5, <1>6 DEF Stored, Orders
<1>8. /\ InPosition(a) => b.since = a.since
      /\ ~ InPosition(a) => b.since = c
      /\ b.since \in Nat \ {0} /\ InPosition(b)
  BY <1>1, <1>2, <1>5 DEF Flat, InPosition
<1>9. {b.stop, b.trail} \subseteq Int /\ {b.take, b.peak} \subseteq Nat /\ b.trail <= b.peak /\ b.take > 0
  BY <1>0, <1>1, <1>5 DEF SameLevels, Attached, Leveled
<1>10. Good(b)
  BY <1>1, <1>2, <1>3, <1>5, <1>6, <1>8, <1>9, GoodFrom DEF SameStreak
<1> QED
  BY <1>4, <1>5, <1>7, <1>8, <1>10 DEF f

Rebalanced(a, f, c) ==
    /\ f = [account |-> f.account, order |-> f.order]
    /\ Good(f.account) /\ Stored(f.order)
    /\ InPosition(f.account) =>
         IF InPosition(a) THEN f.account.since = a.since /\ SameLevels(a, f.account)
         ELSE f.account.since = c

LEMMA RebalanceIsGood ==
    ASSUME NEW a, Good(a), NEW bar \in Bars, NEW c \in Nat \ {0}, NEW target \in Nat, NEW price \in Int,
           target = 0 \/ price = bar.close
    PROVE  LET f == RebalanceToExposure(a, target, price, c, bar)
           IN  /\ Rebalanced(a, f, c)
               /\ target = 0 /\ Equity(a, price) > 0 => ~ InPosition(f.account)
<1> DEFINE f == RebalanceToExposure(a, target, price, c, bar)
           worth == Max2(Equity(a, price), 0)
           delta == worth * target - a.qty * price
<1>0. a.qty \in Nat /\ MinRebalance \in Nat /\ Slip \in Nat /\ bar.close - Slip > 0 /\ bar.close \in Nat
  BY GoodFields, BarsArePriced, ConstantsAssumption
<1>2. worth \in Nat
  BY EquityIsInt DEF Max2
<1>3. f = IF worth = 0 \/ (a.qty = 0 /\ target = 0) THEN Unfilled(a)
          ELSE IF target = 0 THEN SellDelta(a, a.qty * price, price, c, TRUE)
          ELSE IF delta < MinRebalance /\ -delta < MinRebalance THEN Unfilled(a)
          ELSE IF delta > 0 THEN BuyDelta(a, delta, price, c, bar)
          ELSE SellDelta(a, -delta, price, c, FALSE)
  BY DEF RebalanceToExposure
<1>4. Rebalanced(a, Unfilled(a), c) /\ Unfilled(a).account = a
  BY DEF Rebalanced, Unfilled, Stored, SameLevels
<1>5. delta \in Int
  BY <1>0, <1>2
<1>6. Equity(a, price) > 0 => worth # 0
  BY EquityIsInt DEF Max2
<1> HIDE DEF worth, delta, f
<1>8. CASE target = 0
  <2>1. CASE worth = 0 \/ a.qty = 0
    BY <1>3, <1>4, <1>6, <1>8, <2>1 DEF f, InPosition
  <2>2. CASE worth # 0 /\ a.qty # 0
    <3>1. f = SellDelta(a, a.qty * price, price, c, TRUE)
      BY <1>3, <1>8, <2>2
    <3>0. a.qty * price \in Int
      BY <1>0
    <3>2. ASSUME NEW all \in BOOLEAN, all
          PROVE  LET g == SellDelta(a, a.qty * price, price, c, all)
                 IN  Sold(a, g) /\ ~ InPosition(g.account)
      BY <3>0, <3>2, SellDeltaIsGood
    <3>3. Sold(a, f) /\ ~ InPosition(f.account)
      BY <3>1, <3>2, Zenon
    <3> QED
      BY <3>3 DEF f, Rebalanced, Sold
  <2> QED
    BY <2>1, <2>2
<1>9. CASE target # 0
  <2>1. price = bar.close
    BY <1>9
  <2>2. CASE f = Unfilled(a)
    BY <1>4, <1>9, <2>2 DEF f
  <2>3. CASE delta > 0 /\ f = BuyDelta(a, delta, price, c, bar)
    BY <1>5, <1>9, <2>1, <2>3, BuyDeltaIsGood DEF f, Rebalanced
  <2>4. CASE ~ (delta > 0) /\ f = SellDelta(a, -delta, price, c, FALSE)
    <3>1. -delta \in Int /\ -delta >= 0 /\ price - Slip > 0
      BY <1>0, <1>5, <2>1, <2>4
    <3>2. ASSUME NEW all \in BOOLEAN PROVE Sold(a, SellDelta(a, -delta, price, c, all))
      BY <3>1, SellDeltaIsGood
    <3>3. Sold(a, f)
      BY <2>4, <3>2, Zenon
    <3> QED
      BY <1>9, <3>3 DEF f, Rebalanced, Sold
  <2> QED
    BY <1>3, <1>9, <2>2, <2>3, <2>4
<1> QED
  BY <1>8, <1>9

LEMMA LeveragesAreNat ==
    ASSUME NEW a, Good(a), NEW bar \in Bars
    PROVE  EffectiveLeverage(a, bar) \in Nat \ {0}
<1> DEFINE equity == Equity(a, bar.close)
           floor == Max2(equity, 1)
           ratio == (a.qty * bar.close) \div floor
<1>1. a.qty \in Nat /\ bar.close \in Nat /\ equity \in Int /\ Leverage \in Nat \ {0}
  BY GoodFields, BarsArePriced, EquityIsInt, ConstantsAssumption
<1> HIDE DEF equity
<1>2. floor \in Nat /\ floor > 0 /\ a.qty * bar.close \in Nat
  BY <1>1 DEF Max2
<1> HIDE DEF floor
<1>3. ratio \in Nat
  BY <1>2
<1> HIDE DEF ratio
<1>4. EffectiveLeverage(a, bar) = IF InPosition(a) THEN Max2(1, ratio) ELSE Leverage
  BY DEF EffectiveLeverage, ratio, floor, equity
<1> QED
  BY <1>1, <1>3, <1>4 DEF Max2

\* What the ensemble runner makes of an account: a sale of everything at a
\* protective price, unless the account is worth nothing there.
LEMMA EnsembleFillIsGood ==
    ASSUME NEW a, Good(a), NEW bar \in Bars, NEW c \in Nat \ {0}
    PROVE  LET f == EnsembleFill(a, bar, c)
               b == f.account
               trigger == ExitTrigger(a, bar)
           IN  /\ Good(b) /\ Stored(f.order)
               /\ InPosition(b) => IF InPosition(a) THEN b.since = a.since /\ SameLevels(a, b)
                                   ELSE b.since = c
               /\ (InPosition(a) /\ trigger # NoExit /\ Equity(a, trigger - Slip) > 0) => ~ InPosition(b)
<1> DEFINE trigger == IF InPosition(a) THEN ExitTrigger(a, bar) ELSE NoExit
           closed == RebalanceToExposure(a, 0, trigger - Slip, c, bar)
           f == IF trigger # NoExit THEN closed
                ELSE RebalanceToExposure(a, bar.target, bar.close, c, bar)
           d == f.account
           g == [f EXCEPT !.account.lev = EffectiveLeverage(d, bar)]
           b == g.account
<1>0. trigger - Slip \in Int /\ bar.target \in Nat /\ bar.close \in Int
  BY TriggersArePrices, BarsArePriced DEF NoExit
<1>1. EnsembleFill(a, bar, c) = g
  BY DEF EnsembleFill
<1>2. /\ Rebalanced(a, closed, c)
      /\ Equity(a, trigger - Slip) > 0 => ~ InPosition(closed.account)
  <2> HIDE DEF trigger
  <2>1. 0 \in Nat
    OBVIOUS
  <2> QED
    BY <1>0, <2>1, RebalanceIsGood
<1>3. Rebalanced(a, RebalanceToExposure(a, bar.target, bar.close, c, bar), c)
  BY <1>0, RebalanceIsGood
<1> HIDE DEF closed
<1>4. /\ Rebalanced(a, f, c)
      /\ (trigger # NoExit /\ Equity(a, trigger - Slip) > 0) => ~ InPosition(d)
  <2> HIDE DEF trigger
  <2> QED
    BY <1>2, <1>3
<1> HIDE DEF f
<1>5. Good(d) /\ Stored(f.order) /\ f = [account |-> f.account, order |-> f.order]
  BY <1>4 DEF Rebalanced
<1>6. EffectiveLeverage(d, bar) \in Nat \ {0}
  BY <1>5, LeveragesAreNat
<1>7. Shaped(d)
  BY <1>5, GoodFields DEF Leveled
<1>8. /\ g.order = f.order /\ Shaped(b) /\ SameLevels(d, b) /\ SameStreak(d, b)
      /\ b.lev = EffectiveLeverage(d, bar)
      /\ b.cash = d.cash /\ b.qty = d.qty /\ b.entry = d.entry
      /\ b.since = d.since /\ b.bars = d.bars
  BY <1>5, <1>7, LeveredFields
<1> HIDE DEF g
<1>9. Good(b)
  <2>1. /\ Leveled(d) /\ d.cash \in Int /\ d.daily \in Int
        /\ {d.qty, d.entry, d.since, d.bars, d.take, d.peak, d.losses, d.pause, d.day} \subseteq Nat
        /\ InPosition(d) => d.qty > 0 /\ d.entry > 0 /\ d.since > 0 /\ d.trail <= d.peak /\ d.take > 0
        /\ ~ InPosition(d) => Flat(d)
    BY <1>5, GoodFields
  <2>2. IF InPosition(b) THEN b.entry > 0 /\ b.since > 0 /\ b.trail <= b.peak /\ b.take > 0
        ELSE Flat(b)
    BY <1>8, <2>1 DEF InPosition, SameLevels, Flat
  <2> QED
    BY <1>6, <1>8, <2>1, <2>2, GoodFrom DEF Leveled, SameLevels, SameStreak
<1>10. /\ InPosition(b) => IF InPosition(a) THEN b.since = a.since /\ SameLevels(a, b)
                           ELSE b.since = c
       /\ (trigger # NoExit /\ Equity(a, trigger - Slip) > 0) => ~ InPosition(b)
  <2> HIDE DEF trigger
  <2> QED
    BY <1>4, <1>8 DEF Rebalanced, InPosition, SameLevels
<1> QED
  BY <1>1, <1>5, <1>8, <1>9, <1>10

LEMMA FilledIsGood ==
    ASSUME ControlOK, EntriesFunded, NEW r \in Runners, Good(mem[r]), Decide(r)
    PROVE  Good(Filled(r).account) /\ Stored(Filled(r).order)
<1> DEFINE bar == dataset[at[r]]
           c == at[r]
           a == Managed(Aged(mem[r]), bar)
           act == ModelAction(Aged(mem[r]), bar, c)
           f == Filled(r)
<1>1. pc[r] = "fresh" /\ at[r] \in 1 .. Latest /\ bar \in Bars
  BY Decided
<1>2. c \in Nat \ {0}
  <2>1. Latest \in Nat
    BY DEF ControlOK
  <2> QED
    BY <1>1, <2>1
<1>3. Good(a) /\ a.qty = mem[r].qty /\ (~ InPosition(mem[r]) => a = mem[r])
  BY <1>1, ManagedIsGood
<1>4. Aged(mem[r]).qty = mem[r].qty
  BY AgedFields, GoodFields DEF Leveled
<1>5. f = IF r \in Ensemble THEN EnsembleFill(a, bar, c)
          ELSE IF Duplicate(act, c) THEN Unfilled(a)
          ELSE ModelFill(a, act, bar, c)
  BY DEF Filled
<1>6. CASE r \in Ensemble
  <2> HIDE DEF a, f, bar
  <2> QED
    BY <1>1, <1>2, <1>3, <1>5, <1>6, EnsembleFillIsGood DEF f
<1>7. CASE r \notin Ensemble /\ Duplicate(act, c)
  BY <1>3, <1>5, <1>7 DEF Unfilled, Stored
<1>8. CASE r \notin Ensemble /\ ~ Duplicate(act, c)
  <2>1. act = "buy" => Equity(a, bar.close) * EntryPercent >= 100
    <3>1. act = "buy" => ~ InPosition(mem[r])
      <4> HIDE DEF a, bar
      <4> QED
        BY <1>4, BuysWhenFlat DEF InPosition
    <3>2. act = "buy" => Equity(mem[r], bar.close) * EntryPercent >= 100
      BY <1>1, <1>8 DEF EntriesFunded
    <3> HIDE DEF act, a
    <3> QED
      BY <1>3, <3>1, <3>2
  <2>2. act = "sell" => InPosition(a)
    <3>1. act = "sell" => InPosition(Aged(mem[r]))
      BY DEF ModelAction
    <3> HIDE DEF a, act
    <3> QED
      BY <1>3, <1>4, <3>1 DEF InPosition
  <2> HIDE DEF a, act, f, bar
  <2>3. Good(ModelFill(a, act, bar, c).account) /\ Stored(ModelFill(a, act, bar, c).order)
    BY <1>1, <1>2, <1>3, <2>1, <2>2, ModelFillIsGood
  <2> QED
    BY <1>5, <1>8, <2>3 DEF f
<1> QED
  BY <1>6, <1>7, <1>8

TypeInv ==
    /\ ControlOK
    /\ Good(account) /\ orders \in Seq(Rows) /\ trades \in Seq(Rows)
    /\ \A r \in Runners : /\ Good(mem[r]) /\ Stored(order[r])
                          /\ pc[r] = "saved" => order[r] # NoOrder

LEMMA TradesAreRows ==
    ASSUME TypeInv, NEW r \in Runners, AtWork(r), order[r] # NoOrder
    PROVE  Trade(r) \in Rows
<1>1. at[r] \in 1 .. Latest /\ Latest \in Nat
  BY DEF TypeInv, ControlOK
<1>2. order[r] \in Orders /\ order[r].side \in {"buy", "sell"} /\ order[r].qty > 0
  BY DEF TypeInv, Stored
<1>3. order[r].qty \in Nat \ {0} /\ order[r].money \in Int /\ order[r].flat \in BOOLEAN
  BY <1>2 DEF Orders
<1> DEFINE by == IF r \in Ensemble THEN "ensemble" ELSE "model"
<1>4. by \in {"model", "ensemble"}
  OBVIOUS
<1>5. at[r] \in Nat \ {0}
  BY <1>1
<1>6. Trade(r) = [candle |-> at[r], by |-> by, side |-> order[r].side, qty |-> order[r].qty,
                  money |-> order[r].money, flat |-> order[r].flat]
  BY DEF Trade
<1> HIDE DEF by
<1> QED
  BY <1>2, <1>3, <1>4, <1>5, <1>6 DEF Rows

LEMMA TypeStep ==
    ASSUME TypeInv, EntriesFunded, NEW r \in Runners, Acts(r)
    PROVE  TypeInv'
<1>1. ControlOK /\ ControlOK'
  BY ControlStep DEF TypeInv
<1>2. /\ pc \in [Runners -> PCs] /\ action \in [Runners -> Actions]
      /\ order = [q \in Runners |-> order[q]] /\ mem = [q \in Runners |-> mem[q]]
  BY <1>1 DEF ControlOK
<1>3. \A q \in Runners \ {r} : WorkOf(q)
  BY <1>1, StepFrame
<1>4. \A q \in Runners \ {r} : /\ Good(mem'[q]) /\ Stored(order'[q])
                               /\ pc'[q] = "saved" => order'[q] # NoOrder
  BY <1>3 DEF TypeInv, WorkOf
<1>5. /\ Good(mem'[r]) /\ Stored(order'[r])
      /\ pc'[r] = "saved" => order'[r] # NoOrder
  <2>1. CASE Load(r)
    <3>1. mem'[r] = account /\ order' = order /\ pc'[r] = "loaded"
      BY <1>2, <2>1 DEF Load
    <3> QED
      BY <3>1 DEF TypeInv
  <2>2. CASE Take(r) \/ Repeat(r)
    <3>1. mem' = mem /\ order' = order /\ pc'[r] = "fresh"
      BY <1>2, <2>2 DEF Take, Repeat, Check
    <3> QED
      BY <3>1 DEF TypeInv
  <2>3. CASE Decide(r)
    BY <1>1, <2>3, Decided, FilledIsGood DEF TypeInv
  <2>4. CASE SaveAccount(r)
    <3>1. mem' = mem /\ order' = order /\ (pc'[r] = "saved" => order[r] # NoOrder)
      BY <1>2, <2>4 DEF SaveAccount
    <3> QED
      BY <3>1 DEF TypeInv
  <2>5. CASE AppendOrder(r) \/ AppendExecution(r) \/ AppendTarget(r)
    <3>1. mem' = mem /\ order' = order /\ pc'[r] # "saved"
      BY <1>2, <2>5 DEF AppendOrder, AppendExecution, AppendTarget
    <3> QED
      BY <3>1 DEF TypeInv
  <2>6. CASE Skip(r) \/ AppendEquity(r) \/ Crash(r)
    <3>1. mem'[r] = NewAccount /\ order'[r] = NoOrder /\ pc'[r] = "idle"
      BY <1>2, <2>6 DEF Skip, AppendEquity, Crash, Forget
    <3> QED
      BY <3>1, NewIsGood DEF Stored
  <2> QED
    BY <2>1, <2>2, <2>3, <2>4, <2>5, <2>6 DEF Acts, Step
<1>6. Good(account')
  <2>1. CASE SaveAccount(r)
    BY <2>1 DEF SaveAccount, TypeInv
  <2>2. CASE account' = account
    BY <2>2 DEF TypeInv
  <2> QED
    BY <2>1, <2>2 DEF Acts, Step, Load, Skip, Take, Repeat, Check, Decide, AppendOrder,
       AppendExecution, AppendTarget, AppendEquity, Crash, tables
<1>7. trades' \in Seq(Rows)
  <2>1. CASE trades' = trades
    BY <2>1 DEF TypeInv
  <2>2. CASE SaveAccount(r) /\ order[r] # NoOrder /\ trades' = Append(trades, Trade(r))
    <3>1. Trade(r) \in Rows
      BY <2>2, TradesAreRows DEF SaveAccount, AtWork
    <3> QED
      BY <2>2, <3>1 DEF TypeInv
  <2> QED
    BY <1>1, <2>1, <2>2, TradeSaved
<1>8. orders' \in Seq(Rows)
  <2>1. CASE orders' = orders
    BY <2>1 DEF TypeInv
  <2>2. CASE AppendOrder(r)
    <3>1. Trade(r) \in Rows
      BY <2>2, TradesAreRows DEF AppendOrder, AtWork, TypeInv
    <3> QED
      BY <2>2, <3>1 DEF TypeInv, AppendOrder
  <2> QED
    BY <2>1, <2>2 DEF Acts, Step, Load, Skip, Take, Repeat, Check, Decide, SaveAccount,
       AppendExecution, AppendTarget, AppendEquity, Crash, tables
<1> QED
  BY <1>1, <1>4, <1>5, <1>6, <1>7, <1>8 DEF TypeInv

LEMMA TypeInit == Init => TypeInv
<1> SUFFICES ASSUME Init PROVE TypeInv
  OBVIOUS
<1>1. ControlOK
  BY ControlInit DEF ControlInv
<1>2. /\ account = NewAccount /\ pc = [r \in Runners |-> "idle"] /\ mem = [r \in Runners |-> NewAccount]
      /\ order = [r \in Runners |-> NoOrder] /\ orders = <<>> /\ trades = <<>>
  BY DEF Init
<1> QED
  BY <1>1, <1>2, NewIsGood DEF TypeInv, Stored

LEMMA TypeKept == EntriesFunded /\ TypeInv /\ [Next]_vars => TypeInv'
<1> SUFFICES ASSUME EntriesFunded, TypeInv, [Next]_vars PROVE TypeInv'
  OBVIOUS
<1>1. ASSUME NEW r \in Runners, Acts(r) PROVE TypeInv'
  BY <1>1, TypeStep
<1>2. ASSUME ControlOK', UNCHANGED <<account, orders, trades, mem, order, pc>> PROVE TypeInv'
  BY <1>2 DEF TypeInv
<1>3. ASSUME NEW b \in Bars, NewCandle(b) PROVE TypeInv'
  BY <1>2, <1>3, ControlGrows DEF TypeInv, NewCandle, tables, memory
<1>4. CASE UNCHANGED vars
  BY <1>2, <1>4, ControlStands DEF TypeInv, vars
<1> QED
  BY <1>1, <1>3, <1>4 DEF Next, Acts

\* The account keeps its types and carries nothing of a closed position, in
\* the file and in every runner's memory, for every price series and set of
\* limits, whether or not the steps of the runners overlap: as long as no
\* entry is made with an account that is not worth a contract
\* (reset_position_state, PaperBroker, DynamicPaperBroker).
THEOREM TypeCorrect == (Spec /\ []EntriesFunded) => []TypeOK
<1>1. Init => TypeInv
  BY TypeInit
<1>2. EntriesFunded /\ TypeInv /\ [Next]_vars => TypeInv'
  BY TypeKept
<1>3. TypeInv => TypeOK
  <2> SUFFICES ASSUME TypeInv PROVE TypeOK
    OBVIOUS
  <2>0. NoOrder \in Orders
    BY DEF NoOrder, Orders
  <2>1. \A r \in Runners : mem[r] \in Accounts /\ Coherent(mem[r]) /\ order[r] \in Orders
    BY <2>0 DEF TypeInv, Good, Stored
  <2>2. mem \in [Runners -> Accounts] /\ order \in [Runners -> Orders]
    BY <2>1 DEF TypeInv, ControlOK
  <2> QED
    BY <2>1, <2>2 DEF TypeInv, TypeOK, ControlOK, Good
<1> QED
  BY <1>1, <1>2, <1>3, PTL DEF Spec

---------------------------------------------------------------------------
(* Stops are honoured                                                      *)

\* A position that is still held after a decision is new, or it is the one
\* the runner loaded and no protective price was reached, or the sale was
\* executed on this candle before.
LEMMA HeldAfterDecision ==
    ASSUME ControlOK, EntriesFunded, ExitsSolvent, NEW r \in Runners, Good(mem[r]), Decide(r),
           InPosition(Filled(r).account)
    PROVE  LET a == Managing(r)
               b == Filled(r).account
               again == r \notin Ensemble /\ action'[r] = "sell"
           IN  /\ \/ b.since = at[r]
                  \/ /\ InPosition(mem[r]) /\ b.since = mem[r].since /\ SameLevels(a, b)
                     /\ again \/ ExitTrigger(a, dataset[at[r]]) = NoExit
               /\ again => <<at[r], "sell">> \in executions /\ b.since = mem[r].since
<1> DEFINE bar == dataset[at[r]]
           c == at[r]
           a == Managed(Aged(mem[r]), bar)
           act == ModelAction(Aged(mem[r]), bar, c)
           f == Filled(r)
           b == f.account
<1>1. /\ pc[r] = "fresh" /\ at[r] \in 1 .. Latest /\ bar \in Bars
      /\ r \notin Ensemble => action'[r] = act
  BY Decided
<1>2. c \in Nat \ {0}
  <2>1. Latest \in Nat
    BY DEF ControlOK
  <2> QED
    BY <1>1, <2>1
<1>3. /\ Good(a) /\ a.qty = mem[r].qty /\ a.since = mem[r].since
      /\ ~ InPosition(mem[r]) => a = mem[r]
  BY <1>1, ManagedIsGood
<1>4. InPosition(Aged(mem[r])) <=> InPosition(mem[r])
  <2>1. Aged(mem[r]).qty = mem[r].qty
    BY AgedFields, GoodFields DEF Leveled
  <2> QED
    BY <2>1 DEF InPosition
<1>5. f = IF r \in Ensemble THEN EnsembleFill(a, bar, c)
          ELSE IF Duplicate(act, c) THEN Unfilled(a)
          ELSE ModelFill(a, act, bar, c)
  BY DEF Filled
<1>6. Managing(r) = a /\ InPosition(b) /\ (InPosition(a) <=> InPosition(mem[r]))
  BY <1>3 DEF Managing, InPosition
<1>7. CASE r \in Ensemble
  <2> DEFINE trigger == ExitTrigger(a, bar)
  <2>1. InPosition(a) /\ trigger # NoExit => Equity(a, trigger - Slip) > 0
    BY <1>1, <1>6, <1>7 DEF ExitsSolvent
  <2> HIDE DEF a, f, bar
  <2>2. /\ IF InPosition(a) THEN b.since = a.since /\ SameLevels(a, b) ELSE b.since = c
        /\ ~ (InPosition(a) /\ trigger # NoExit /\ Equity(a, trigger - Slip) > 0)
    BY <1>1, <1>2, <1>3, <1>5, <1>6, <1>7, EnsembleFillIsGood DEF f
  <2>3. b.since = c \/ /\ InPosition(mem[r]) /\ b.since = mem[r].since /\ SameLevels(a, b)
                       /\ trigger = NoExit
    BY <1>3, <1>6, <2>1, <2>2
  <2> QED
    BY <1>6, <1>7, <2>3 DEF f, a, bar
<1>8. CASE r \notin Ensemble /\ Duplicate(act, c)
  <2>1. b = a /\ InPosition(mem[r]) /\ <<c, act>> \in executions /\ act \in {"buy", "sell"}
    BY <1>5, <1>6, <1>8 DEF Unfilled, Duplicate
  <2>2. act = "sell"
    <3> HIDE DEF a, f
    <3> QED
      BY <1>4, <2>1, BuysWhenFlat
  <2>3. SameLevels(a, b)
    BY <2>1 DEF SameLevels
  <2> HIDE DEF a, f, act
  <2> QED
    BY <1>1, <1>3, <1>6, <1>8, <2>1, <2>2, <2>3 DEF f
<1>9. CASE r \notin Ensemble /\ ~ Duplicate(act, c)
  <2>1. f = ModelFill(a, act, bar, c)
    BY <1>5, <1>9
  <2>2. CASE act = "buy"
    <3>1. b.since = c
      <4>1. Equity(a, bar.close) * EntryPercent >= 100
        <5>1. ~ InPosition(mem[r])
          <6> HIDE DEF a, f, bar
          <6> QED
            BY <1>4, <2>2, BuysWhenFlat
        <5>2. Equity(mem[r], bar.close) * EntryPercent >= 100
          BY <1>1, <1>9, <2>2 DEF EntriesFunded
        <5> HIDE DEF a
        <5> QED
          BY <1>3, <5>1, <5>2
      <4>2. f = BuyWithMarginFraction(a, bar, c)
        BY <2>1, <2>2 DEF ModelFill
      <4> HIDE DEF a, f, bar
      <4> QED
        BY <1>1, <1>2, <1>3, <4>1, <4>2, ModelBuyIsGood DEF f
    <3> HIDE DEF a, f, act
    <3> QED
      BY <1>1, <1>9, <2>2, <3>1 DEF f
  <2>3. CASE act = "sell"
    <3>1. InPosition(a)
      <4>1. InPosition(Aged(mem[r]))
        BY <2>3 DEF ModelAction
      <4> QED
        BY <1>4, <1>6, <4>1
    <3> HIDE DEF a, f, bar, act
    <3>2. ~ InPosition(b)
      BY <1>1, <1>2, <1>3, <2>1, <2>3, <3>1, ModelFillIsGood
    <3> QED
      BY <1>6, <3>2
  <2>4. CASE act \notin {"buy", "sell"}
    <3>1. b = a
      BY <2>1, <2>4 DEF ModelFill, Unfilled
    <3>2. ExitTrigger(a, bar) = NoExit
      <4>1. InPosition(Aged(mem[r])) /\ a = Trailed(Aged(mem[r]), bar)
        BY <1>4, <1>6, <3>1 DEF Managed
      <4>2. ~ (ExitTrigger(Trailed(Aged(mem[r]), bar), bar) # NoExit)
        BY <2>4, <4>1 DEF ModelAction
      <4> QED
        BY <4>1, <4>2
    <3>3. SameLevels(a, b) /\ InPosition(mem[r])
      BY <1>6, <3>1 DEF SameLevels
    <3> HIDE DEF a, f, act
    <3> QED
      BY <1>1, <1>3, <1>6, <1>9, <2>4, <3>1, <3>2, <3>3 DEF f
  <2> QED
    BY <2>2, <2>3, <2>4
<1> QED
  BY <1>7, <1>8, <1>9

HonourInv == LevelInv /\ TypeInv /\ StopInv

\* A decision that keeps a position keeps what the position has survived.
LEMMA DecisionSurvives ==
    ASSUME HonourInv, EntriesFunded, ExitsSolvent, NEW r \in Runners, Decide(r)
    PROVE  LET b == Filled(r).account
           IN  /\ Survived(b) /\ SoldSince(b) /\ SurvivedNow(b, at[r])
               /\ (r \notin Ensemble /\ action'[r] = "sell" /\ InPosition(b)) => b.since >= at[r]
<1> DEFINE b == Filled(r).account
           a == Managing(r)
           bar == dataset[at[r]]
           c == at[r]
<1> SUFFICES ASSUME InPosition(b)
             PROVE  /\ Survived(b) /\ SoldSince(b) /\ SurvivedNow(b, c)
                    /\ (r \notin Ensemble /\ action'[r] = "sell") => b.since >= c
  BY DEF Survived, SoldSince, SurvivedNow
<1>1. /\ ControlOK /\ NewestTaken /\ Good(mem[r]) /\ Good(account)
      /\ Survived(account) /\ SoldSince(account)
  BY DEF HonourInv, LevelInv, ControlInv, TypeInv, StopInv
<1>2. /\ pc[r] = "fresh" /\ c \in 1 .. Latest /\ bar \in Bars /\ Latest \in Nat
  BY <1>1, Decided DEF ControlOK
<1>3. mem[r] = account
  BY <1>2 DEF HonourInv, LevelInv, MemoryFollows
<1>4. /\ Good(b) /\ b.since \in Nat
  <2>1. Good(b)
    BY <1>1, FilledIsGood
  <2> HIDE DEF b
  <2> QED
    BY <2>1, GoodFields
<1>5. /\ \/ b.since = c
         \/ /\ InPosition(mem[r]) /\ b.since = mem[r].since /\ SameLevels(a, b)
            /\ \/ r \notin Ensemble /\ action'[r] = "sell"
               \/ ExitTrigger(a, bar) = NoExit
      /\ (r \notin Ensemble /\ action'[r] = "sell") =>
             <<c, "sell">> \in executions /\ b.since = mem[r].since
  BY <1>1, HeldAfterDecision
<1>6. (\A d \in curve : d <= c) /\ (\A e \in executions : e[1] <= c) /\ curve \subseteq Nat
  BY <1>1, <1>2 DEF NewestTaken, AtWork, ControlOK
<1>7. /\ Good(a) /\ a.stop = mem[r].stop /\ a.take = mem[r].take /\ a.since = mem[r].since
      /\ a.qty = mem[r].qty
  BY <1>1, <1>2, ManagedIsGood DEF Managing
<1> HIDE DEF a, b, bar
<1>8. CASE b.since = c
  <2>0. \A d \in curve : ~ (d > b.since)
    <3>1. c \in Nat
      BY <1>2
    <3> QED
      BY <1>6, <1>8, <3>1
  <2>1. Survived(b)
    BY <2>0 DEF Survived
  <2>2. SoldSince(b)
    BY <1>6, <1>8 DEF SoldSince
  <2>3. SurvivedNow(b, c)
    BY <1>2, <1>8 DEF SurvivedNow
  <2> QED
    BY <1>2, <1>8, <2>1, <2>2, <2>3
<1>9. CASE /\ InPosition(mem[r]) /\ b.since = mem[r].since /\ SameLevels(a, b)
           /\ \/ r \notin Ensemble /\ action'[r] = "sell"
              \/ ExitTrigger(a, bar) = NoExit
  <2>1. InPosition(account) /\ b.since = account.since /\ b.stop = account.stop /\ b.take = account.take
    BY <1>3, <1>7, <1>9 DEF SameLevels
  <2>2. Survived(b)
    BY <1>1, <2>1 DEF Survived
  <2>3. SoldSince(b)
    BY <1>1, <2>1 DEF SoldSince
  <2>4. (r \notin Ensemble /\ action'[r] = "sell") => b.since >= c
    <3>1. <<c, "sell">> \in executions => account.since >= c
      BY <1>1, <2>1 DEF SoldSince
    <3> QED
      BY <1>5, <2>1, <3>1
  <2>5. SurvivedNow(b, c)
    <3>1. CASE ExitTrigger(a, bar) = NoExit
      <4>1. InPosition(a)
        BY <1>7, <1>9 DEF InPosition
      <4>2. ~ (bar.low <= a.stop) /\ ~ (bar.low <= a.trail) /\ ~ (bar.high >= a.take)
        BY <1>2, <1>7, <3>1, <4>1, TriggersArePrices
      <4>3. /\ bar.low \in Nat /\ bar.high \in Nat /\ a.stop \in Int /\ a.trail \in Int /\ a.take \in Nat
        BY <1>2, <1>7, BarsArePriced, GoodFields DEF Leveled
      <4> QED
        BY <1>9, <4>2, <4>3 DEF SurvivedNow, SameLevels, bar
    <3>2. CASE r \notin Ensemble /\ action'[r] = "sell"
      BY <1>2, <1>4, <2>4, <3>2 DEF SurvivedNow
    <3> QED
      BY <1>9, <3>1, <3>2
  <2> QED
    BY <2>2, <2>3, <2>4, <2>5
<1> QED
  BY <1>5, <1>8, <1>9

LEMMA StopStep ==
    ASSUME Concurrent = FALSE, HonourInv, EntriesFunded, ExitsSolvent, NEW r \in Runners, Acts(r)
    PROVE  StopInv'
<1>1. ControlOK /\ OneAtATime /\ MemoryFollows /\ StopInv /\ ControlOK'
  <2>1. ControlOK /\ OneAtATime /\ MemoryFollows /\ StopInv
    BY DEF HonourInv, LevelInv, ControlInv
  <2> QED
    BY <2>1, ControlStep
<1>2. \A q \in Runners \ {r} : pc'[q] = "idle"
  BY <1>1, Alone
<1>3. /\ pc \in [Runners -> PCs] /\ action \in [Runners -> Actions] /\ at \in [Runners -> 0 .. Latest]
      /\ mem = [q \in Runners |-> mem[q]] /\ dataset' = dataset
  BY <1>1, StepFrame DEF ControlOK
<1> DEFINE Mine == /\ pc[r] = "decided" => Survived(mem[r]) /\ SoldSince(mem[r])
                   /\ pc[r] \in {"decided", "saved", "ordered", "logged"} => SurvivedNow(mem[r], at[r])
                   /\ (/\ r \notin Ensemble /\ pc[r] \in {"decided", "saved", "ordered"}
                       /\ action[r] = "sell" /\ InPosition(mem[r]))
                      => mem[r].since >= at[r]
           Ours == Survived(account) /\ SoldSince(account)
<1>4. Mine /\ Ours
  BY <1>1 DEF StopInv
<1>5. SUFFICES Mine' /\ Ours'
  BY <1>2 DEF StopInv
<1>6. CASE pc'[r] \in {"idle", "loaded", "fresh"} /\ UNCHANGED <<account, executions, curve>>
  <2>1. Mine'
    BY <1>6
  <2>2. Ours'
    BY <1>3, <1>4, <1>6 DEF Survived, SoldSince
  <2> QED
    BY <2>1, <2>2
<1>7. CASE Decide(r)
  <2>1. /\ pc'[r] = "decided" /\ mem'[r] = Filled(r).account /\ at' = at
        /\ UNCHANGED <<account, executions, curve>>
    BY <1>1, <1>7, Decided DEF tables
  <2> DEFINE b == Filled(r).account
  <2>2. /\ Survived(b) /\ SoldSince(b) /\ SurvivedNow(b, at[r])
        /\ (r \notin Ensemble /\ action'[r] = "sell" /\ InPosition(b)) => b.since >= at[r]
    BY <1>7, DecisionSurvives
  <2> HIDE DEF b
  <2>3. mem'[r] = b
    BY <2>1 DEF b
  <2>4. Survived(mem[r])' /\ SoldSince(mem[r])' /\ SurvivedNow(mem[r], at[r])'
    BY <1>3, <2>1, <2>2, <2>3 DEF Survived, SoldSince, SurvivedNow
  <2>5. Ours'
    BY <1>3, <1>4, <2>1 DEF Survived, SoldSince
  <2> HIDE DEF Ours
  <2> QED
    BY <2>1, <2>2, <2>3, <2>4, <2>5
<1>8. CASE SaveAccount(r)
  <2>1. /\ account' = mem[r] /\ mem' = mem /\ at' = at /\ action' = action
        /\ pc[r] = "decided" /\ pc'[r] \in {"saved", "ordered"} /\ UNCHANGED <<executions, curve>>
    BY <1>3, <1>8 DEF SaveAccount
  <2>2. Ours'
    BY <1>3, <1>4, <2>1 DEF Survived, SoldSince
  <2>3. Mine'
    BY <1>3, <1>4, <2>1 DEF SurvivedNow
  <2> QED
    BY <2>2, <2>3
<1>9. CASE AppendOrder(r) \/ AppendTarget(r)
  <2>1. /\ account' = account /\ mem' = mem /\ at' = at /\ action' = action
        /\ pc[r] \in {"saved", "ordered"} /\ pc'[r] \in {"ordered", "logged"}
        /\ UNCHANGED <<executions, curve>>
    BY <1>3, <1>9 DEF AppendOrder, AppendTarget
  <2>2. Ours'
    BY <1>3, <1>4, <2>1 DEF Survived, SoldSince
  <2>3. Mine'
    BY <1>3, <1>4, <2>1 DEF SurvivedNow
  <2> QED
    BY <2>2, <2>3
<1>10. CASE AppendExecution(r)
  <2>1. /\ account' = account /\ mem' = mem /\ at' = at /\ action' = action
        /\ pc[r] = "ordered" /\ pc'[r] = "logged" /\ r \notin Ensemble
        /\ executions' = executions \cup {<<at[r], action[r]>>} /\ curve' = curve
    BY <1>3, <1>10 DEF AppendExecution
  <2>2. mem[r] = account
    BY <1>1, <2>1 DEF MemoryFollows
  <2>3. (action[r] = "sell" /\ InPosition(account)) => account.since >= at[r]
    BY <1>4, <2>1, <2>2
  <2>4. SoldSince(account)'
    <3>1. \A e \in executions : (e[2] = "sell" /\ InPosition(account)) => account.since >= e[1]
      BY <1>4 DEF SoldSince
    <3>2. <<at[r], action[r]>>[1] = at[r] /\ <<at[r], action[r]>>[2] = action[r]
      OBVIOUS
    <3>3. \A e \in executions' : (e[2] = "sell" /\ InPosition(account)) => account.since >= e[1]
      BY <2>1, <2>3, <3>1, <3>2
    <3> QED
      BY <2>1, <3>3 DEF SoldSince
  <2>5. Survived(account)'
    BY <1>3, <1>4, <2>1 DEF Survived
  <2>6. Mine'
    BY <1>3, <1>4, <2>1 DEF SurvivedNow
  <2> QED
    BY <2>4, <2>5, <2>6
<1>11. CASE AppendEquity(r)
  <2>1. /\ account' = account /\ curve' = curve \cup {at[r]} /\ executions' = executions
        /\ pc[r] = "logged" /\ pc'[r] = "idle"
    BY <1>3, <1>11 DEF AppendEquity, Forget
  <2>2. mem[r] = account
    BY <1>1, <2>1 DEF MemoryFollows
  <2>3. SurvivedNow(account, at[r])
    BY <1>4, <2>1, <2>2
  <2>4. Survived(account)'
    BY <1>3, <1>4, <2>1, <2>3 DEF Survived, SurvivedNow
  <2>5. SoldSince(account)'
    BY <1>4, <2>1 DEF SoldSince
  <2> QED
    BY <2>1, <2>4, <2>5
<1>12. (Load(r) \/ Take(r) \/ Repeat(r) \/ Skip(r) \/ Crash(r)) =>
           pc'[r] \in {"idle", "loaded", "fresh"} /\ UNCHANGED <<account, executions, curve>>
  BY <1>3 DEF Load, Take, Repeat, Check, Skip, Crash, Forget, tables
<1> QED
  BY <1>6, <1>7, <1>8, <1>9, <1>10, <1>11, <1>12 DEF Acts, Step

LEMMA HonourKept ==
    Concurrent = FALSE /\ EntriesFunded /\ ExitsSolvent /\ HonourInv /\ [Next]_vars => HonourInv'
<1> SUFFICES ASSUME Concurrent = FALSE, EntriesFunded, ExitsSolvent, HonourInv, [Next]_vars
             PROVE  HonourInv'
  OBVIOUS
<1>1. LevelInv' /\ TypeInv'
  BY LevelKept, TypeKept DEF HonourInv
<1>2. ControlOK /\ StopInv
  BY DEF HonourInv, TypeInv
<1>3. ASSUME NEW r \in Runners, Acts(r) PROVE StopInv'
  BY <1>3, StopStep
<1>4. ASSUME NEW b \in Bars, NewCandle(b) PROVE StopInv'
  <2>1. /\ \A c \in 1 .. Latest : dataset'[c] = dataset[c]
        /\ UNCHANGED <<tables, memory>>
    BY <1>2, <1>4, ControlGrows DEF NewCandle
  <2>2. curve \subseteq 1 .. Latest /\ \A r \in Runners : AtWork(r) => at[r] \in 1 .. Latest
    BY <1>2 DEF ControlOK
  <2>3. \A a : (Survived(a) => Survived(a)') /\ (SoldSince(a) => SoldSince(a)')
    BY <2>1, <2>2 DEF Survived, SoldSince, tables
  <2> QED
    BY <1>2, <2>1, <2>2 DEF StopInv, Survived, SoldSince, SurvivedNow, AtWork, tables, memory
<1>5. ASSUME UNCHANGED vars PROVE StopInv'
  BY <1>2, <1>5 DEF StopInv, Survived, SoldSince, SurvivedNow, vars
<1> QED
  BY <1>1, <1>3, <1>4, <1>5 DEF Next, Acts, HonourInv

\* A held position survived every bar since it was opened: no bar a runner
\* finished reached its stop loss or its profit target, and the one just
\* finished did not reach its trailing stop, through kills, repeats and
\* changes of hands (evaluate_long_exit).  An account that is worth nothing
\* is beyond this: the ensemble runner then leaves its position alone.
THEOREM StopsAreHonoured ==
    Concurrent = FALSE => ((Spec /\ []EntriesFunded /\ []ExitsSolvent) => []StopHonoured)
<1> SUFFICES ASSUME Concurrent = FALSE
             PROVE  (Spec /\ []EntriesFunded /\ []ExitsSolvent) => []StopHonoured
  OBVIOUS
<1>1. Init => HonourInv
  <2> SUFFICES ASSUME Init PROVE StopInv
    BY LevelInit, TypeInit DEF HonourInv
  <2>1. account = NewAccount /\ pc = [r \in Runners |-> "idle"] /\ ~ InPosition(NewAccount)
    BY DEF Init, NewAccount, InPosition
  <2> QED
    BY <2>1 DEF StopInv, Survived, SoldSince
<1>2. EntriesFunded /\ ExitsSolvent /\ HonourInv /\ [Next]_vars => HonourInv'
  BY HonourKept
<1>3. HonourInv => StopHonoured
  BY DEF HonourInv, LevelInv, MemoryFollows, StopInv, Survived, SurvivedNow, StopHonoured
<1> QED
  BY <1>1, <1>2, <1>3, PTL DEF Spec

---------------------------------------------------------------------------
(* Totals.  What a recursive sum returns is found by induction over the    *)
(* naturals, which the library offers as well-founded sets of intervals.   *)

\* A set that holds 0 and the successor of each of its naturals holds them
\* all: induction over a set instead of an operator.
LEMMA InductiveSet ==
    ASSUME NEW S, 0 \in S, \A n \in Nat : n \in S => n + 1 \in S
    PROVE  Nat \subseteq S
<1> DEFINE Below == {0 .. x : x \in Nat \ S}
<1> SUFFICES ASSUME Nat \ S # {}
              PROVE  FALSE
  OBVIOUS
<1>1. Below \subseteq FiniteSubsetsOf(Nat) /\ Below # {}
  <2>1. ASSUME NEW x \in Nat
        PROVE  0 .. x \in FiniteSubsetsOf(Nat)
    BY FS_Interval DEF FiniteSubsetsOf
  <2> QED  BY <2>1
<1> HIDE DEF Below
<1>2. PICK B \in Below : \A C \in Below : ~(<<C, B>> \in StrictSubsetOrdering(Nat))
  <2>1. IsWellFoundedOn(StrictSubsetOrdering(Nat), FiniteSubsetsOf(Nat))
    BY FS_StrictSubsetOrderingWellFounded
  <2> QED  BY <1>1, <2>1, WFMin
<1>3. PICK x \in Nat \ S : B = 0 .. x
  BY DEF Below
<1>4. x - 1 \in Nat \ S
  BY <1>3
<1>5. 0 .. (x - 1) \in Below
  BY <1>4 DEF Below
<1>6. 0 .. (x - 1) \subseteq 0 .. x /\ x \in 0 .. x /\ x \notin 0 .. (x - 1)
  BY <1>3
<1>7. <<0 .. (x - 1), 0 .. x>> \in StrictSubsetOrdering(Nat)
  <2>1. 0 .. (x - 1) \in SUBSET Nat /\ 0 .. x \in SUBSET Nat
    OBVIOUS
  <2> QED  BY <1>6, <2>1 DEF StrictSubsetOrdering
<1> QED  BY <1>2, <1>3, <1>5, <1>7

Sums(v, n, s) == /\ s \in [0 .. n -> Int]
                 /\ s = [k \in 0 .. n |-> IF k = 0 THEN 0 ELSE s[k - 1] + v[k]]

LEMMA SumsExist ==
    ASSUME NEW v, NEW n \in Nat, \A k \in 1 .. n : v[k] \in Int
    PROVE  \E s : Sums(v, n, s)
<1> DEFINE S == {m \in Nat : m <= n => \E s : Sums(v, m, s)}
<1>1. 0 \in S
  <2> DEFINE s == [k \in 0 .. 0 |-> 0]
  <2>1. s \in [0 .. 0 -> Int]
    OBVIOUS
  <2>2. s = [k \in 0 .. 0 |-> IF k = 0 THEN 0 ELSE s[k - 1] + v[k]]
    OBVIOUS
  <2> HIDE DEF s
  <2> QED  BY <2>1, <2>2 DEF Sums
<1>2. ASSUME NEW m \in Nat, m \in S
      PROVE  m + 1 \in S
  <2>1. SUFFICES ASSUME m + 1 <= n
                 PROVE  \E s : Sums(v, m + 1, s)
    OBVIOUS
  <2>2. PICK s : Sums(v, m, s)
    BY <1>2, <2>1
  <2> DEFINE t == [k \in 0 .. m + 1 |-> IF k = m + 1 THEN s[m] + v[m + 1] ELSE s[k]]
  <2>3. t \in [0 .. m + 1 -> Int]
    BY <2>1, <2>2 DEF Sums
  <2>4. \A k \in 0 .. m + 1 : t[k] = IF k = 0 THEN 0 ELSE t[k - 1] + v[k]
    <3>1. TAKE k \in 0 .. m + 1
    <3>2. CASE k = m + 1
      BY <3>2, k - 1 = m
    <3>3. CASE k # m + 1
      <4>1. k \in 0 .. m /\ (k # 0 => k - 1 \in 0 .. m)
        BY <3>3
      <4>2. s[k] = IF k = 0 THEN 0 ELSE s[k - 1] + v[k]
        BY <2>2, <4>1 DEF Sums
      <4>3. t[k] = s[k] /\ (k # 0 => t[k - 1] = s[k - 1])
        BY <3>3, <4>1
      <4> QED  BY <4>2, <4>3
    <3> QED  BY <3>2, <3>3
  <2> HIDE DEF t
  <2>5. t = [k \in 0 .. m + 1 |-> IF k = 0 THEN 0 ELSE t[k - 1] + v[k]]
    BY <2>3, <2>4
  <2> QED  BY <2>3, <2>5 DEF Sums
<1> HIDE DEF S
<1>3. n \in S
  BY <1>1, <1>2, InductiveSet
<1> QED  BY <1>3 DEF S

LEMMA SumsAgree ==
    ASSUME NEW v, NEW w, NEW n \in Nat, NEW m \in Nat, n <= m,
           \A k \in 1 .. n : v[k] = w[k],
           NEW s, NEW t, Sums(v, n, s), Sums(w, m, t)
    PROVE  s[n] = t[n]
<1> DEFINE S == {k \in Nat : k <= n => s[k] = t[k]}
<1>1. 0 \in S
  BY DEF Sums
<1>2. ASSUME NEW k \in Nat, k \in S
      PROVE  k + 1 \in S
  <2>1. SUFFICES ASSUME k + 1 <= n
                 PROVE  s[k + 1] = t[k + 1]
    OBVIOUS
  <2>2. s[k + 1] = s[k] + v[k + 1]
    <3>1. k + 1 \in 0 .. n /\ k + 1 # 0 /\ (k + 1) - 1 = k
      BY <2>1
    <3> QED  BY <3>1 DEF Sums
  <2>3. t[k + 1] = t[k] + w[k + 1]
    <3>1. k + 1 \in 0 .. m /\ k + 1 # 0 /\ (k + 1) - 1 = k
      BY <2>1
    <3> QED  BY <3>1 DEF Sums
  <2>4. s[k] = t[k] /\ v[k + 1] = w[k + 1]
    BY <1>2, <2>1
  <2> QED  BY <2>2, <2>3, <2>4
<1> HIDE DEF S
<1>3. n \in S
  BY <1>1, <1>2, InductiveSet
<1> QED  BY <1>3 DEF S

LEMMA TotalSums ==
    ASSUME NEW v, NEW n \in Nat, \A k \in 1 .. n : v[k] \in Int
    PROVE  \E s : Sums(v, n, s) /\ Total(v, n) = s[n]
<1> DEFINE s == CHOOSE s : s = [k \in 0 .. n |-> IF k = 0 THEN 0 ELSE s[k - 1] + v[k]]
<1>1. Total(v, n) = s[n]
  BY DEF Total
<1>2. \E t : Sums(v, n, t)
  BY SumsExist
<1>3. s = [k \in 0 .. n |-> IF k = 0 THEN 0 ELSE s[k - 1] + v[k]]
  BY <1>2 DEF Sums
<1> HIDE DEF s
<1> DEFINE S == {k \in Nat : k <= n => s[k] \in Int}
<1>4. 0 \in S
  BY <1>3
<1>5. ASSUME NEW k \in Nat, k \in S
      PROVE  k + 1 \in S
  <2>1. SUFFICES ASSUME k + 1 <= n
                 PROVE  s[k + 1] \in Int
    OBVIOUS
  <2>2. k + 1 \in 0 .. n /\ k + 1 # 0 /\ (k + 1) - 1 = k /\ k + 1 \in 1 .. n
    BY <2>1
  <2>3. s[k + 1] = s[k] + v[k + 1]
    BY <1>3, <2>2
  <2>4. s[k] \in Int /\ v[k + 1] \in Int
    BY <1>5, <2>1, <2>2
  <2> QED  BY <2>3, <2>4
<1> HIDE DEF S
<1>6. Nat \subseteq S
  BY <1>4, <1>5, InductiveSet
<1>7. s \in [0 .. n -> Int]
  BY <1>3, <1>6 DEF S
<1> QED  BY <1>1, <1>3, <1>7 DEF Sums

\* A total over nothing is 0, each value adds itself, and equal values have
\* equal totals.
LEMMA TotalOfNone == ASSUME NEW v PROVE Total(v, 0) = 0
<1>1. \A k \in 1 .. 0 : v[k] \in Int
  OBVIOUS
<1>2. PICK s : Sums(v, 0, s) /\ Total(v, 0) = s[0]
  BY <1>1, TotalSums
<1> QED  BY <1>2 DEF Sums

LEMMA TotalAdds ==
    ASSUME NEW v, NEW n \in Nat, \A k \in 1 .. n + 1 : v[k] \in Int
    PROVE  /\ Total(v, n) \in Int /\ Total(v, n + 1) \in Int
           /\ Total(v, n + 1) = Total(v, n) + v[n + 1]
<1>1. PICK s : Sums(v, n, s) /\ Total(v, n) = s[n]
  BY TotalSums
<1>2. PICK t : Sums(v, n + 1, t) /\ Total(v, n + 1) = t[n + 1]
  BY TotalSums
<1>3. s[n] = t[n]
  BY <1>1, <1>2, SumsAgree
<1>4. n + 1 \in 0 .. n + 1 /\ n + 1 # 0 /\ (n + 1) - 1 = n /\ n \in 0 .. n
  OBVIOUS
<1>5. t[n + 1] = t[n] + v[n + 1]
  BY <1>2, <1>4 DEF Sums
<1>6. s[n] \in Int /\ t[n + 1] \in Int
  BY <1>1, <1>2, <1>4 DEF Sums
<1> QED  BY <1>1, <1>2, <1>3, <1>5, <1>6

LEMMA TotalOfSame ==
    ASSUME NEW v, NEW w, NEW n \in Nat,
           \A k \in 1 .. n : v[k] \in Int /\ v[k] = w[k]
    PROVE  Total(v, n) = Total(w, n)
<1>1. PICK s : Sums(v, n, s) /\ Total(v, n) = s[n]
  BY TotalSums
<1>2. PICK t : Sums(w, n, t) /\ Total(w, n) = t[n]
  BY TotalSums
<1> QED  BY <1>1, <1>2, SumsAgree

LEMMA TotalExtends ==
    ASSUME NEW v, NEW w, NEW n \in Nat, w[n + 1] \in Int,
           \A k \in 1 .. n : v[k] \in Int /\ v[k] = w[k]
    PROVE  Total(v, n) \in Int /\ Total(w, n + 1) = Total(v, n) + w[n + 1]
<1>1. \A k \in 1 .. n + 1 : w[k] \in Int
  <2>1. \A k \in 1 .. n + 1 : k \in 1 .. n \/ k = n + 1
    OBVIOUS
  <2> QED
    BY <2>1
<1>2. Total(w, n) \in Int /\ Total(w, n + 1) = Total(w, n) + w[n + 1]
  BY <1>1, TotalAdds
<1>3. Total(v, n) = Total(w, n)
  BY TotalOfSame
<1> QED
  BY <1>2, <1>3

---------------------------------------------------------------------------
(* What a decision does to the balance and to the loss streak              *)

By(r) == IF r \in Ensemble THEN "ensemble" ELSE "model"

\* Account b is a settled for order o, of candle c and a runner of a kind.
Settled(a, b, o, c, kind) ==
    /\ b.cash = a.cash + o.money /\ b.qty = a.qty + Signed(o)
    /\ IF o.flat
       THEN /\ b.day = Day(c)
            /\ b.daily = (IF a.day = Day(c) THEN a.daily ELSE 0) + o.money
            /\ b.losses = IF o.money < 0 THEN a.losses + 1 ELSE 0
            /\ b.pause = IF kind = "model" /\ MaxLosses > 0 /\ b.losses >= MaxLosses
                         THEN c + PauseBars ELSE a.pause
       ELSE SameStreak(a, b)

LEMMA UnfilledSettled ==
    ASSUME NEW a, Good(a), NEW c, NEW kind
    PROVE  Settled(a, Unfilled(a).account, Unfilled(a).order, c, kind)
<1>1. a.cash \in Int /\ a.qty \in Int
  BY GoodFields
<1> QED
  BY <1>1 DEF Settled, Unfilled, NoOrder, Signed, SameStreak

LEMMA StoredFields ==
    ASSUME NEW o, Stored(o)
    PROVE  /\ o.money \in Int /\ o.qty \in Nat /\ o.flat \in BOOLEAN /\ Signed(o) \in Int
           /\ o # NoOrder => o.side \in {"buy", "sell"} /\ o.qty > 0
<1>1. CASE o = NoOrder
  BY <1>1 DEF NoOrder, Signed
<1>2. CASE o \in Orders /\ o.side \in {"buy", "sell"} /\ o.qty > 0
  BY <1>2 DEF Orders, Signed
<1> QED
  BY <1>1, <1>2 DEF Stored

LEMMA ModelBuySettled ==
    ASSUME NEW a, Good(a), ~ InPosition(a), NEW bar, NEW c, NEW kind,
           Stored(BuyWithMarginFraction(a, bar, c).order)
    PROVE  LET f == BuyWithMarginFraction(a, bar, c)
           IN  Settled(a, f.account, f.order, c, kind)
<1> DEFINE f == BuyWithMarginFraction(a, bar, c)
           n == Contracts((Equity(a, bar.close) * EntryPercent) \div 100, bar.close + Slip)
<1>1. /\ SameStreak(a, f.account) /\ f.account.cash = a.cash - n * Fee /\ f.account.qty = n
      /\ f.order = [side |-> "buy", qty |-> n, money |-> -(n * Fee), flat |-> FALSE]
  BY GoodFields, ModelBuyFields DEF Leveled
<1>2. f.order.qty \in Nat /\ a.cash \in Int /\ a.qty = 0 /\ Fee \in Nat
  BY StoredFields, GoodFields, ConstantsAssumption DEF InPosition
<1> HIDE DEF f, n
<1>3. n \in Nat
  BY <1>1, <1>2
<1>4. n * Fee \in Int
  BY <1>2, <1>3
<1>5. f.order.money = -(n * Fee) /\ f.order.flat = FALSE /\ Signed(f.order) = n
  BY <1>1 DEF Signed
<1>6. f.account.cash = a.cash + f.order.money
  BY <1>1, <1>2, <1>4, <1>5
<1>7. f.account.qty = a.qty + Signed(f.order)
  BY <1>1, <1>2, <1>3, <1>5
<1> QED
  BY <1>1, <1>5, <1>6, <1>7 DEF Settled, f

LEMMA ModelSaleSettled ==
    ASSUME NEW a, Good(a), NEW bar, NEW c, Stored(ModelFill(a, "sell", bar, c).order)
    PROVE  LET f == ModelFill(a, "sell", bar, c)
           IN  Settled(a, f.account, f.order, c, "model")
<1> DEFINE trigger == ExitTrigger(a, bar)
           fill == IF trigger # NoExit THEN trigger - Slip ELSE bar.close - Slip
           filled == CloseLong(a, fill)
           d == filled.account
           o == filled.order
           b == AfterClosedTrade(d, o.money, c)
           f == ModelFill(a, "sell", bar, c)
<1>1. f = [filled EXCEPT !.account = AfterClosedTrade(@, filled.order.money, c)]
  BY DEF ModelFill
<1>2. Shaped(a) /\ a.cash \in Int /\ a.qty \in Nat
  BY GoodFields DEF Leveled
<1> HIDE DEF fill
<1> DEFINE pnl == a.qty * (fill - a.entry) - a.qty * Fee
<1>3. /\ filled = [account |-> filled.account, order |-> filled.order]
      /\ Shaped(d) /\ Flat(d) /\ SameStreak(a, d) /\ d.cash = a.cash + pnl
      /\ o = [side |-> "sell", qty |-> a.qty, money |-> pnl, flat |-> TRUE]
  BY <1>2, ModelSaleFields
<1> HIDE DEF filled, pnl
<1>4. f.account = b /\ f.order = o
  BY <1>1, <1>3
<1>5. /\ SameLevels(d, b) /\ b.cash = d.cash /\ b.qty = d.qty /\ b.day = Day(c)
      /\ b.daily = (IF d.day = Day(c) THEN d.daily ELSE 0) + o.money
      /\ b.losses = IF o.money < 0 THEN d.losses + 1 ELSE 0
      /\ b.pause = IF MaxLosses > 0 /\ b.losses >= MaxLosses THEN c + PauseBars ELSE d.pause
  BY <1>3, AfterClosedFields
<1> HIDE DEF b, f
<1>6. o.money = pnl /\ o.flat = TRUE /\ Signed(o) = -a.qty
  BY <1>3 DEF Signed
<1>7. b.cash = a.cash + o.money /\ b.qty = a.qty + Signed(o)
  BY <1>2, <1>3, <1>5, <1>6 DEF Flat
<1>8. Settled(a, b, o, c, "model")
  BY <1>3, <1>5, <1>6, <1>7 DEF Settled, SameStreak
<1> QED
  BY <1>4, <1>8 DEF f

LEMMA SellDeltaSettled ==
    ASSUME NEW a, Good(a), NEW notional, NEW price, NEW c, NEW all \in BOOLEAN,
           Stored(SellDelta(a, notional, price, c, all).order)
    PROVE  LET f == SellDelta(a, notional, price, c, all)
           IN  Settled(a, f.account, f.order, c, "ensemble")
<1> DEFINE f == SellDelta(a, notional, price, c, all)
           wanted == Contracts(notional, price - Slip)
           n == IF all \/ wanted > a.qty THEN a.qty ELSE wanted
           pnl == n * (price - Slip - a.entry) - n * Fee
           b == f.account
           o == f.order
<1>1. Shaped(a) /\ a.cash \in Int /\ a.qty \in Nat
  BY GoodFields DEF Leveled
<1>2. /\ n = 0 => f = Unfilled(a)
      /\ n # 0 /\ n = a.qty => SoldAll(a, f, pnl, c)
      /\ n # 0 /\ n # a.qty => SoldSome(a, f, n, pnl)
  BY <1>1, SellDeltaFields
<1>3. o.money \in Int /\ o.qty \in Nat
  BY StoredFields
<1> HIDE DEF f, n, pnl
<1>4. CASE n = 0
  BY <1>2, <1>4, UnfilledSettled DEF f
<1>5. CASE n # 0 /\ n = a.qty
  <2>1. SoldAll(a, f, pnl, c)
    BY <1>2, <1>5
  <2>2. o.money = pnl /\ o.flat = TRUE /\ o.side = "sell" /\ o.qty = a.qty
    BY <2>1 DEF SoldAll
  <2>3. Signed(o) = -a.qty
    BY <2>2 DEF Signed
  <2>4. b.cash = a.cash + o.money /\ b.qty = a.qty + Signed(o)
    BY <1>1, <2>1, <2>2, <2>3 DEF SoldAll, Flat
  <2>5. Settled(a, b, o, c, "ensemble")
    BY <2>1, <2>2, <2>4 DEF Settled, SoldAll
  <2> QED
    BY <2>5 DEF f
<1>6. CASE n # 0 /\ n # a.qty
  <2>1. SoldSome(a, f, n, pnl)
    BY <1>2, <1>6
  <2>2. o.money = pnl /\ o.flat = FALSE /\ o.side = "sell" /\ o.qty = n
    BY <2>1 DEF SoldSome
  <2>3. Signed(o) = -n /\ n \in Nat
    BY <1>3, <2>2 DEF Signed
  <2>4. b.cash = a.cash + o.money /\ b.qty = a.qty + Signed(o)
    BY <1>1, <2>1, <2>2, <2>3 DEF SoldSome
  <2>5. Settled(a, b, o, c, "ensemble")
    BY <2>1, <2>2, <2>4 DEF Settled, SoldSome
  <2> QED
    BY <2>5 DEF f
<1> QED
  BY <1>4, <1>5, <1>6

LEMMA BuyDeltaSettled ==
    ASSUME NEW a, Good(a), NEW notional, NEW price, NEW c, NEW bar, NEW kind,
           Stored(BuyDelta(a, notional, price, c, bar).order)
    PROVE  LET f == BuyDelta(a, notional, price, c, bar)
           IN  Settled(a, f.account, f.order, c, kind)
<1> DEFINE f == BuyDelta(a, notional, price, c, bar)
           n == Contracts(notional, price + Slip)
           b == f.account
           o == f.order
<1>1. Shaped(a) /\ a.cash \in Int /\ a.qty \in Nat /\ Fee \in Nat
  BY GoodFields, ConstantsAssumption DEF Leveled
<1>2. BoughtMore(a, f, n, price, c, bar)
  BY <1>1, BuyDeltaFields
<1>3. o.qty \in Nat
  BY StoredFields
<1> HIDE DEF f, n
<1>4. /\ SameStreak(a, b) /\ b.cash = a.cash - n * Fee /\ b.qty = a.qty + n
      /\ o = [side |-> "buy", qty |-> n, money |-> -(n * Fee), flat |-> FALSE]
  BY <1>2 DEF BoughtMore
<1>5. n \in Nat /\ o.money = -(n * Fee) /\ o.flat = FALSE /\ Signed(o) = n
  BY <1>3, <1>4 DEF Signed
<1>6. n * Fee \in Int
  BY <1>1, <1>5
<1>7. b.cash = a.cash + o.money
  BY <1>1, <1>4, <1>5, <1>6
<1> QED
  BY <1>4, <1>5, <1>7 DEF Settled, f

LEMMA RebalanceSettled ==
    ASSUME NEW a, Good(a), NEW target, NEW price, NEW c, NEW bar,
           Stored(RebalanceToExposure(a, target, price, c, bar).order)
    PROVE  LET f == RebalanceToExposure(a, target, price, c, bar)
           IN  Settled(a, f.account, f.order, c, "ensemble")
<1> DEFINE f == RebalanceToExposure(a, target, price, c, bar)
           worth == Max2(Equity(a, price), 0)
           delta == worth * target - a.qty * price
           Well(g) == Stored(g.order) => Settled(a, g.account, g.order, c, "ensemble")
<1>1. f = IF worth = 0 \/ (a.qty = 0 /\ target = 0) THEN Unfilled(a)
          ELSE IF target = 0 THEN SellDelta(a, a.qty * price, price, c, TRUE)
          ELSE IF delta < MinRebalance /\ -delta < MinRebalance THEN Unfilled(a)
          ELSE IF delta > 0 THEN BuyDelta(a, delta, price, c, bar)
          ELSE SellDelta(a, -delta, price, c, FALSE)
  BY DEF RebalanceToExposure
<1> HIDE DEF f, worth, delta
<1>2. f \in {Unfilled(a), BuyDelta(a, delta, price, c, bar), SellDelta(a, a.qty * price, price, c, TRUE),
             SellDelta(a, -delta, price, c, FALSE)}
  BY <1>1
<1>3. Well(Unfilled(a))
  BY UnfilledSettled
<1>4. Well(BuyDelta(a, delta, price, c, bar))
  BY BuyDeltaSettled
<1>5. ASSUME NEW notional, NEW all \in BOOLEAN PROVE Well(SellDelta(a, notional, price, c, all))
  BY SellDeltaSettled
<1> HIDE DEF Well
<1>6. Well(SellDelta(a, a.qty * price, price, c, TRUE)) /\ Well(SellDelta(a, -delta, price, c, FALSE))
  BY <1>5, Zenon
<1>7. Well(f)
  BY <1>2, <1>3, <1>4, <1>6, Zenon
<1> QED
  BY <1>7 DEF Well, f

LEMMA EnsembleSettled ==
    ASSUME NEW a, Good(a), NEW bar \in Bars, NEW c \in Nat \ {0}
    PROVE  LET f == EnsembleFill(a, bar, c)
           IN  Settled(a, f.account, f.order, c, "ensemble")
<1> DEFINE trigger == IF InPosition(a) THEN ExitTrigger(a, bar) ELSE NoExit
           f == IF trigger # NoExit THEN RebalanceToExposure(a, 0, trigger - Slip, c, bar)
                ELSE RebalanceToExposure(a, bar.target, bar.close, c, bar)
           g == [f EXCEPT !.account.lev = EffectiveLeverage(f.account, bar)]
           Good2(h) == h = [account |-> h.account, order |-> h.order] /\ Leveled(h.account)
           Well(h) == Stored(h.order) => Settled(a, h.account, h.order, c, "ensemble")
<1>1. EnsembleFill(a, bar, c) = g
  BY DEF EnsembleFill
<1>2. Stored(EnsembleFill(a, bar, c).order)
  BY EnsembleFillIsGood
<1>3. f = [account |-> f.account, order |-> f.order] /\ Leveled(f.account)
  BY RebalanceLevels, GoodFields
<1>4. Well(f)
  <2>1. \A t, p : Well(RebalanceToExposure(a, t, p, c, bar))
    BY RebalanceSettled
  <2> HIDE DEF Well
  <2> QED
    BY <2>1, Zenon
<1> HIDE DEF f
<1>5. /\ g.order = f.order /\ SameStreak(f.account, g.account)
      /\ g.account.cash = f.account.cash /\ g.account.qty = f.account.qty
  BY <1>3, LeveredFields DEF Leveled
<1> HIDE DEF g
<1>6. Settled(a, g.account, g.order, c, "ensemble")
  BY <1>1, <1>2, <1>4, <1>5 DEF Settled, SameStreak
<1> QED
  BY <1>1, <1>6

\* What a runner makes of the account it loaded; and the model opens a
\* position only when the circuit breaker of that account lets it.
LEMMA FilledSettled ==
    ASSUME ControlOK, EntriesFunded, NEW r \in Runners, Good(mem[r]), Decide(r)
    PROVE  LET f == Filled(r)
           IN  /\ Settled(mem[r], f.account, f.order, at[r], By(r))
               /\ r \notin Ensemble /\ f.order.side = "buy" => CanOpen(mem[r], at[r])
<1> DEFINE bar == dataset[at[r]]
           c == at[r]
           m == mem[r]
           aged == Aged(m)
           a == Managed(aged, bar)
           act == ModelAction(aged, bar, c)
           f == Filled(r)
<1>1. bar \in Bars /\ c \in 1 .. Latest
  BY Decided
<1>2. c \in Nat \ {0}
  <2>1. Latest \in Nat
    BY DEF ControlOK
  <2> QED
    BY <1>1, <2>1
<1>3. Good(a) /\ Shaped(m)
  BY <1>1, ManagedIsGood, GoodFields DEF Leveled
<1>4. Shaped(aged) /\ aged.cash = m.cash /\ aged.qty = m.qty /\ SameStreak(m, aged)
  BY <1>3, AgedFields
<1>5. a.cash = m.cash /\ a.qty = m.qty /\ SameStreak(m, a)
  <2> HIDE DEF aged
  <2>1. CASE InPosition(aged)
    <3>1. /\ Trailed(aged, bar).cash = aged.cash /\ Trailed(aged, bar).qty = aged.qty
          /\ SameStreak(aged, Trailed(aged, bar))
      BY <1>4, TrailedFields
    <3>2. a = Trailed(aged, bar)
      BY <2>1 DEF Managed
    <3> QED
      BY <1>4, <3>1, <3>2 DEF SameStreak
  <2>2. CASE ~ InPosition(aged)
    BY <1>4, <2>2 DEF Managed
  <2> QED
    BY <2>1, <2>2
<1>6. Stored(f.order)
  BY FilledIsGood
<1>7. f = IF r \in Ensemble THEN EnsembleFill(a, bar, c)
          ELSE IF Duplicate(act, c) THEN Unfilled(a)
          ELSE ModelFill(a, act, bar, c)
  BY DEF Filled
<1>8. act = "buy" => ~ InPosition(aged) /\ CanOpen(aged, c)
  BY DEF ModelAction
<1> HIDE DEF aged, a, act, bar, f
<1>9. /\ Settled(a, f.account, f.order, c, By(r))
      /\ r \notin Ensemble /\ f.order.side = "buy" => act = "buy"
  <2>1. CASE r \in Ensemble
    BY <1>1, <1>2, <1>3, <1>7, <2>1, EnsembleSettled DEF By
  <2>2. CASE r \notin Ensemble /\ (Duplicate(act, c) \/ act \notin {"buy", "sell"})
    <3>1. f = Unfilled(a)
      BY <1>7, <2>2 DEF ModelFill
    <3>2. f.order.side # "buy"
      BY <3>1 DEF Unfilled, NoOrder
    <3> QED
      BY <1>3, <3>1, <3>2, UnfilledSettled
  <2>3. CASE r \notin Ensemble /\ ~ Duplicate(act, c) /\ act = "buy"
    <3>1. f = BuyWithMarginFraction(a, bar, c)
      BY <1>7, <2>3 DEF ModelFill
    <3>2. ~ InPosition(a)
      BY <1>4, <1>5, <1>8, <2>3 DEF InPosition
    <3> QED
      BY <1>3, <1>6, <2>3, <3>1, <3>2, ModelBuySettled
  <2>4. CASE r \notin Ensemble /\ ~ Duplicate(act, c) /\ act = "sell"
    <3>1. f = ModelFill(a, "sell", bar, c)
      BY <1>7, <2>4
    <3>2. f.order.side # "buy"
      BY <3>1, ModelOrders DEF NoOrder
    <3> QED
      BY <1>3, <1>6, <2>4, <3>1, <3>2, ModelSaleSettled DEF By
  <2> QED
    BY <2>1, <2>2, <2>3, <2>4
<1>10. Settled(m, f.account, f.order, c, By(r))
  BY <1>5, <1>9 DEF Settled, SameStreak
<1>11. r \notin Ensemble /\ f.order.side = "buy" => CanOpen(m, c)
  BY <1>4, <1>8, <1>9 DEF CanOpen, SameStreak
<1> QED
  BY <1>10, <1>11 DEF f

---------------------------------------------------------------------------
(* The orders explain the account                                          *)

LEMMA NothingSigned == Signed(NoOrder) = 0 /\ NoOrder.money = 0
<1>1. NoOrder.money = 0 /\ NoOrder.side = "none" /\ NoOrder.qty = 0
  BY DEF NoOrder
<1>2. NoOrder.side # "buy" /\ NoOrder.qty \in Int
  BY <1>1
<1>3. Signed(NoOrder) \in Int /\ Signed(NoOrder) + NoOrder.qty = 0
  BY <1>2 DEF Signed
<1> QED
  BY <1>1, <1>3

LEMMA RowFields ==
    ASSUME NEW t \in Rows
    PROVE  /\ t.money \in Int /\ t.candle \in Nat \ {0} /\ t.flat \in BOOLEAN
           /\ t.by \in {"model", "ensemble"} /\ t.side \in {"buy", "sell"} /\ Signed(t) \in Int
BY DEF Rows, Signed

LEMMA RowsAppended ==
    ASSUME NEW s \in Seq(Rows), NEW e \in Rows
    PROVE  /\ Append(s, e) \in Seq(Rows) /\ Len(Append(s, e)) = Len(s) + 1 /\ Len(s) \in Nat
           /\ DOMAIN s = 1 .. Len(s) /\ DOMAIN Append(s, e) = 1 .. Len(s) + 1
           /\ \A k \in 1 .. Len(s) : Append(s, e)[k] = s[k] /\ s[k] \in Rows
           /\ Append(s, e)[Len(s) + 1] = e
OBVIOUS

LEMMA MoneyAdds ==
    ASSUME NEW s \in Seq(Rows), NEW e \in Rows
    PROVE  /\ Money(s) \in Int /\ Money(Append(s, e)) = Money(s) + e.money
           /\ Position(s) \in Int /\ Position(Append(s, e)) = Position(s) + Signed(e)
<1> DEFINE t == Append(s, e)
           n == Len(s)
<1>1. /\ Len(t) = n + 1 /\ n \in Nat /\ DOMAIN s = 1 .. n /\ DOMAIN t = 1 .. n + 1
      /\ \A k \in 1 .. n : t[k] = s[k] /\ s[k] \in Rows
      /\ t[n + 1] = e
  BY RowsAppended
<1> HIDE DEF t, n
<1>2. Money(s) \in Int /\ Money(t) = Money(s) + e.money
  <2> DEFINE v == [i \in DOMAIN s |-> s[i].money]
             w == [i \in DOMAIN t |-> t[i].money]
  <2>1. /\ w[n + 1] = e.money /\ e.money \in Int
        /\ \A k \in 1 .. n : v[k] \in Int /\ v[k] = w[k]
    BY <1>1, RowFields
  <2>2. Money(s) = Total(v, n) /\ Money(t) = Total(w, n + 1)
    BY <1>1 DEF Money, n
  <2> HIDE DEF v, w
  <2> QED
    BY <1>1, <2>1, <2>2, TotalExtends
<1>3. Position(s) \in Int /\ Position(t) = Position(s) + Signed(e)
  <2> DEFINE v == [i \in DOMAIN s |-> Signed(s[i])]
             w == [i \in DOMAIN t |-> Signed(t[i])]
  <2>1. /\ w[n + 1] = Signed(e) /\ Signed(e) \in Int
        /\ \A k \in 1 .. n : v[k] \in Int /\ v[k] = w[k]
    BY <1>1, RowFields
  <2>2. Position(s) = Total(v, n) /\ Position(t) = Total(w, n + 1)
    BY <1>1 DEF Position, n
  <2> HIDE DEF v, w
  <2> QED
    BY <1>1, <2>1, <2>2, TotalExtends
<1> QED
  BY <1>2, <1>3 DEF t

LEMMA NothingAdds == Money(<<>>) = 0 /\ Position(<<>>) = 0
<1>1. Len(<<>>) = 0
  OBVIOUS
<1> QED
  BY <1>1, TotalOfNone DEF Money, Position

\* A runner that has decided holds the account settled for its order; the
\* model buys only when the circuit breaker of the stored account lets it.
Decisions ==
    \A r \in Runners : pc[r] = "decided" =>
        /\ Settled(account, mem[r], order[r], at[r], By(r))
        /\ r \notin Ensemble /\ order[r].side = "buy" => CanOpen(account, at[r])
SettleInv == LevelInv /\ TypeInv /\ Decisions

LEMMA DecisionsStep ==
    ASSUME Concurrent = FALSE, SettleInv, EntriesFunded, NEW r \in Runners, Acts(r)
    PROVE  Decisions'
<1>1. ControlOK /\ OneAtATime /\ MemoryFollows /\ Good(mem[r])
  BY DEF SettleInv, LevelInv, ControlInv, TypeInv
<1>2. \A q \in Runners \ {r} : pc'[q] = "idle"
  BY <1>1, Alone
<1>3. CASE Decide(r)
  <2>1. /\ pc[r] = "fresh" /\ mem'[r] = Filled(r).account /\ order'[r] = Filled(r).order
        /\ at' = at /\ account' = account
    BY <1>1, <1>3, Decided DEF tables
  <2>2. mem[r] = account
    BY <1>1, <2>1 DEF MemoryFollows
  <2>3. /\ Settled(mem[r], Filled(r).account, Filled(r).order, at[r], By(r))
        /\ r \notin Ensemble /\ Filled(r).order.side = "buy" => CanOpen(mem[r], at[r])
    BY <1>1, <1>3, FilledSettled
  <2> QED
    BY <1>2, <2>1, <2>2, <2>3 DEF Decisions
<1>4. CASE ~ Decide(r)
  <2>1. pc'[r] # "decided"
    BY <1>1, <1>4, StepTells
  <2> QED
    BY <1>2, <2>1 DEF Decisions
<1> QED
  BY <1>3, <1>4

LEMMA SettleInit == Init => SettleInv
<1> SUFFICES ASSUME Init PROVE SettleInv
  OBVIOUS
<1>1. \A r \in Runners : pc[r] = "idle"
  BY DEF Init
<1> QED
  BY <1>1, LevelInit, TypeInit DEF SettleInv, Decisions

LEMMA SettleKept == Concurrent = FALSE /\ EntriesFunded /\ SettleInv /\ [Next]_vars => SettleInv'
<1> SUFFICES ASSUME Concurrent = FALSE, EntriesFunded, SettleInv, [Next]_vars PROVE SettleInv'
  OBVIOUS
<1>1. LevelInv' /\ TypeInv'
  BY LevelKept, TypeKept DEF SettleInv
<1>2. ASSUME NEW r \in Runners, Acts(r) PROVE Decisions'
  BY <1>2, DecisionsStep
<1>3. ASSUME UNCHANGED <<tables, memory>> PROVE Decisions'
  BY <1>3 DEF SettleInv, Decisions, tables, memory
<1> QED
  BY <1>1, <1>2, <1>3 DEF Next, Acts, NewCandle, vars, tables, memory, SettleInv

\* The account is what the trades saved with it add up to.  Without a kill the
\* orders table holds these trades, but for the one on its way.
Balanced(a, rows) == a.cash = InitialEquity + Money(rows) /\ a.qty = Position(rows)
Recorded ==
    crashes = 0 =>
        /\ (\A r \in Runners : pc[r] # "saved") => trades = orders
        /\ \A r \in Runners : pc[r] = "saved" => trades = Append(orders, Trade(r))
BalanceInv == SettleInv /\ Balanced(account, trades) /\ Recorded

LEMMA BalancedStep ==
    ASSUME BalanceInv, NEW r \in Runners, Acts(r)
    PROVE  Balanced(account, trades)'
<1>1. ControlOK /\ TypeInv /\ Balanced(account, trades)
  BY DEF BalanceInv, SettleInv, TypeInv
<1>2. CASE account' = account /\ trades' = trades
  BY <1>1, <1>2 DEF Balanced
<1>3. CASE SaveAccount(r)
  <2> DEFINE o == order[r]
  <2>1. account' = mem[r] /\ pc[r] = "decided"
    BY <1>3 DEF SaveAccount
  <2>2. Settled(account, mem[r], o, at[r], By(r))
    BY <2>1 DEF BalanceInv, SettleInv, Decisions
  <2>3. /\ Good(account) /\ Stored(o) /\ trades \in Seq(Rows)
        /\ account.cash = InitialEquity + Money(trades) /\ account.qty = Position(trades)
    BY <1>1 DEF TypeInv, Balanced
  <2>4. account'.cash = account.cash + o.money /\ account'.qty = account.qty + Signed(o)
    BY <2>1, <2>2 DEF Settled
  <2>5. account.cash \in Int /\ account.qty \in Int /\ InitialEquity \in Int
    BY <2>3, GoodFields, ConstantsAssumption
  <2>6. CASE o = NoOrder
    <3>1. trades' = trades /\ o.money = 0 /\ Signed(o) = 0
      <4>1. trades' = trades
        BY <1>3, <2>6 DEF SaveAccount
      <4> QED
        BY <2>6, <4>1, NothingSigned
    <3> QED
      BY <2>3, <2>4, <2>5, <3>1 DEF Balanced
  <2>7. CASE o # NoOrder
    <3>1. trades' = Append(trades, Trade(r))
      BY <1>3, <2>7 DEF SaveAccount
    <3>2. Trade(r) \in Rows
      BY <1>1, <2>1, <2>7, TradesAreRows DEF AtWork
    <3>3. Trade(r).money = o.money /\ Signed(Trade(r)) = Signed(o)
      BY DEF Trade, Signed
    <3>4. /\ Money(trades) \in Int /\ Money(trades') = Money(trades) + o.money
          /\ Position(trades) \in Int /\ Position(trades') = Position(trades) + Signed(o)
      BY <2>3, <3>1, <3>2, <3>3, MoneyAdds
    <3>5. o.money \in Int /\ Signed(o) \in Int
      BY <2>3, StoredFields
    <3>6. account'.cash = InitialEquity + Money(trades') /\ account'.qty = Position(trades')
      BY <2>3, <2>4, <2>5, <3>4, <3>5
    <3> QED
      BY <3>6 DEF Balanced
  <2> QED
    BY <2>6, <2>7
<1>4. account' = account \/ SaveAccount(r)
  BY DEF Acts, Step, Load, Skip, Take, Repeat, Check, Decide, AppendOrder,
     AppendExecution, AppendTarget, AppendEquity, Crash, tables
<1> QED
  BY <1>1, <1>2, <1>3, <1>4, TradeSaved

LEMMA RecordedStep ==
    ASSUME Concurrent = FALSE, BalanceInv, NEW r \in Runners, Acts(r)
    PROVE  Recorded'
<1>1. ControlOK /\ OneAtATime
  BY DEF BalanceInv, SettleInv, LevelInv, ControlInv
<1>2. \A q \in Runners \ {r} : pc[q] = "idle" /\ pc'[q] = "idle"
  BY <1>1, Alone
<1>3. /\ crashes' = IF Crash(r) THEN crashes + 1 ELSE crashes
      /\ crashes \in Nat
  BY <1>1, LogsGrow
<1> SUFFICES ASSUME crashes' = 0
             PROVE  /\ pc'[r] # "saved" => trades' = orders'
                    /\ pc'[r] = "saved" => trades' = Append(orders', Trade(r)')
  BY <1>2 DEF Recorded
<1>4. crashes = 0 /\ ~ Crash(r)
  BY <1>3
<1>5. /\ pc[r] # "saved" => trades = orders
      /\ pc[r] = "saved" => trades = Append(orders, Trade(r))
  BY <1>2, <1>4 DEF BalanceInv, Recorded
<1>6. CASE SaveAccount(r)
  <2>1. /\ orders' = orders /\ pc[r] = "decided" /\ at'[r] = at[r] /\ order'[r] = order[r]
        /\ pc'[r] = IF order[r] = NoOrder THEN "ordered" ELSE "saved"
        /\ trades' = IF order[r] = NoOrder THEN trades ELSE Append(trades, Trade(r))
    BY <1>1, <1>6 DEF SaveAccount, ControlOK
  <2>2. Trade(r)' = Trade(r)
    BY <2>1 DEF Trade
  <2> QED
    BY <1>5, <2>1, <2>2
<1>7. CASE AppendOrder(r)
  <2>1. pc[r] = "saved" /\ orders' = Append(orders, Trade(r)) /\ trades' = trades /\ pc'[r] = "ordered"
    BY <1>1, <1>7 DEF AppendOrder, ControlOK
  <2> QED
    BY <1>5, <2>1
<1>8. CASE ~ SaveAccount(r) /\ ~ AppendOrder(r)
  <2>1. orders' = orders /\ trades' = trades /\ pc[r] # "saved"
    BY <1>4, <1>8 DEF Acts, Step, Load, Skip, Take, Repeat, Check, Decide,
       AppendExecution, AppendTarget, AppendEquity, tables
  <2>2. pc'[r] # "saved"
    BY <1>1, <1>8, StepTells
  <2> QED
    BY <1>5, <2>1, <2>2
<1> QED
  BY <1>6, <1>7, <1>8

\* The orders table explains the account row: as long as no step is killed,
\* whenever the runners are idle, cash and position are what the stored orders
\* of both add up to, for every dataset, every price and every number of
\* repeats (PaperAccount, ensemble_runner, runner).  Only entries with an
\* account that is not worth a contract are left out.
THEOREM OrdersBalance ==
    Concurrent = FALSE => ((Spec /\ []EntriesFunded) => []OrdersExplainAccount)
<1> SUFFICES ASSUME Concurrent = FALSE
             PROVE  (Spec /\ []EntriesFunded) => []OrdersExplainAccount
  OBVIOUS
<1>1. Init => BalanceInv
  <2> SUFFICES ASSUME Init PROVE Balanced(account, trades) /\ Recorded
    BY SettleInit DEF BalanceInv
  <2>1. /\ account = NewAccount /\ pc = [r \in Runners |-> "idle"] /\ trades = <<>> /\ orders = <<>>
        /\ InitialEquity \in Int
    BY ConstantsAssumption DEF Init
  <2> QED
    BY <2>1, NothingAdds DEF Balanced, Recorded, NewAccount
<1>2. EntriesFunded /\ BalanceInv /\ [Next]_vars => BalanceInv'
  <2> SUFFICES ASSUME EntriesFunded, BalanceInv, [Next]_vars PROVE BalanceInv'
    OBVIOUS
  <2>1. SettleInv'
    BY SettleKept DEF BalanceInv
  <2>2. ASSUME NEW r \in Runners, Acts(r) PROVE BalanceInv'
    BY <2>1, <2>2, BalancedStep, RecordedStep DEF BalanceInv
  <2>3. ASSUME UNCHANGED <<account, orders, pc, at, order, trades, crashes>> PROVE BalanceInv'
    <3>1. \A r : Trade(r)' = Trade(r)
      BY <2>3 DEF Trade
    <3> QED
      BY <2>1, <2>3, <3>1 DEF BalanceInv, Balanced, Recorded
  <2> QED
    BY <2>2, <2>3 DEF Next, Acts, NewCandle, vars, tables, memory, bounds
<1>3. BalanceInv => OrdersExplainAccount
  BY DEF BalanceInv, Balanced, Recorded, OrdersExplainAccount
<1> QED
  BY <1>1, <1>2, <1>3, PTL DEF Spec

---------------------------------------------------------------------------
(* The circuit breaker                                                     *)

LEMMA DaysOrdered ==
    ASSUME NEW c \in Nat, NEW d \in Nat, c <= d
    PROVE  Day(c) \in Nat /\ Day(d) \in Nat /\ Day(c) <= Day(d)
<1>1. BarsPerDay \in Nat \ {0}
  BY ConstantsAssumption
<1>2. \A p \in Nat \ {0} : /\ c \div p \in Nat /\ d \div p \in Nat
                           /\ c \div p <= d \div p
  OBVIOUS
<1> QED
  BY <1>1, <1>2 DEF Day

\* What a saved trade does to the closed trades and to the result of a day.
LEMMA ClosesGrow ==
    ASSUME trades \in Seq(Rows), NEW e \in Rows, trades' = Append(trades, e)
    PROVE  LET n == Len(trades)
           IN  /\ n \in Nat /\ Closes \subseteq 1 .. n /\ DOMAIN trades = 1 .. n
               /\ DOMAIN trades' = 1 .. n + 1 /\ trades'[n + 1] = e
               /\ \A i \in 1 .. n : trades'[i] = trades[i] /\ trades[i] \in Rows
               /\ Closes' = IF e.flat THEN Closes \cup {n + 1} ELSE Closes
<1> DEFINE n == Len(trades)
<1>1. /\ n \in Nat /\ DOMAIN trades = 1 .. n /\ DOMAIN trades' = 1 .. n + 1
      /\ \A k \in 1 .. n : trades'[k] = trades[k] /\ trades[k] \in Rows
      /\ trades'[n + 1] = e
  BY RowsAppended
<1> HIDE DEF n
<1>2. Closes' = IF e.flat THEN Closes \cup {n + 1} ELSE Closes
  <2>1. \A i : i \in DOMAIN trades' <=> (i \in DOMAIN trades \/ i = n + 1)
    BY <1>1
  <2> QED
    BY <1>1, <2>1 DEF Closes
<1>3. Closes \subseteq 1 .. n
  BY <1>1 DEF Closes
<1> QED
  BY <1>1, <1>2, <1>3 DEF n

LEMMA LostAdds ==
    ASSUME trades \in Seq(Rows), NEW e \in Rows, trades' = Append(trades, e), NEW d
    PROVE  /\ LostOn(d) \in Int
           /\ LostOn(d)' = LostOn(d) + (IF e.flat /\ Day(e.candle) = d THEN e.money ELSE 0)
<1> DEFINE n == Len(trades)
           Of(t) == IF t.flat /\ Day(t.candle) = d THEN t.money ELSE 0
           v == [i \in DOMAIN trades |-> Of(trades[i])]
           w == [i \in DOMAIN trades' |-> Of(trades'[i])]
<1>1. /\ n \in Nat /\ DOMAIN trades = 1 .. n /\ DOMAIN trades' = 1 .. n + 1 /\ Len(trades') = n + 1
      /\ \A k \in 1 .. n : trades'[k] = trades[k] /\ trades[k] \in Rows
      /\ trades'[n + 1] = e
  BY RowsAppended
<1>2. \A t \in Rows : Of(t) \in Int
  BY RowFields
<1>3. LostOn(d) = Total(v, n) /\ LostOn(d)' = Total(w, n + 1)
  BY <1>1 DEF LostOn
<1> HIDE DEF n, Of
<1>4. /\ w[n + 1] = Of(e) /\ w[n + 1] \in Int
      /\ \A k \in 1 .. n : v[k] \in Int /\ v[k] = w[k]
  BY <1>1, <1>2
<1> HIDE DEF v, w
<1>5. LostOn(d) \in Int /\ LostOn(d)' = LostOn(d) + Of(e)
  BY <1>1, <1>3, <1>4, TotalExtends
<1> QED
  BY <1>5 DEF Of

\* What the account row knows of the closed trades: how many of the last ones
\* lost, until when the last streak pauses the model, and what the day lost.
\* Trades are not of later candles than the one that is worked on.
ClosesFrom(k) == {j \in Closes : k <= j}
LossesKnown ==
    \A k \in Nat \ {0} : (\A j \in ClosesFrom(k) : trades[j].money < 0) =>
        Cardinality(ClosesFrom(k)) <= account.losses
PausesKnown ==
    \A k, i \in Closes : EndsStreak(k, i) => account.pause >= trades[i].candle + PauseBars
DaysKnown ==
    \A d \in Nat : /\ d = account.day => LostOn(d) = account.daily
                   /\ d > account.day => LostOn(d) = 0
CandlesPast ==
    /\ \A i \in DOMAIN trades : trades[i].candle <= Latest
    /\ \A r \in Runners : AtWork(r) => \A i \in DOMAIN trades : trades[i].candle <= at[r]
DayTaken == account.day = 0 \/ \E i \in Closes : account.day = Day(trades[i].candle)
BreakerKnows == LossesKnown /\ PausesKnown /\ DaysKnown /\ DayTaken
BreakerInv == SettleInv /\ CandlesPast /\ BreakerKnows

\* The day of the account is not after the candle that is worked on.
LEMMA DayIsPast ==
    ASSUME BreakerInv, NEW r \in Runners, AtWork(r)
    PROVE  /\ at[r] \in Nat \ {0} /\ Day(at[r]) \in Nat /\ account.day \in Nat
           /\ account.day <= Day(at[r])
<1>1. /\ TypeInv /\ ControlOK /\ trades \in Seq(Rows) /\ Good(account)
  BY DEF BreakerInv, SettleInv, TypeInv
<1>2. at[r] \in Nat \ {0} /\ account.day \in Nat
  <2>1. at[r] \in 1 .. Latest /\ Latest \in Nat
    BY <1>1 DEF ControlOK
  <2> QED
    BY <1>1, <2>1, GoodFields
<1>3. Day(at[r]) \in Nat
  BY <1>2, DaysAreNat
<1>4. CASE \E i \in Closes : account.day = Day(trades[i].candle)
  <2>1. PICK i \in Closes : account.day = Day(trades[i].candle)
    BY <1>4
  <2>2. i \in DOMAIN trades /\ trades[i] \in Rows
    BY <1>1, <2>1 DEF Closes
  <2>3. trades[i].candle \in Nat /\ trades[i].candle <= at[r]
    BY <2>2, RowFields DEF BreakerInv, CandlesPast
  <2> QED
    BY <1>2, <1>3, <2>1, <2>3, DaysOrdered
<1> QED
  BY <1>2, <1>3, <1>4 DEF BreakerInv, BreakerKnows, DayTaken

LEMMA CandlesStep ==
    ASSUME Concurrent = FALSE, BreakerInv, NEW r \in Runners, Acts(r)
    PROVE  CandlesPast'
<1>1. /\ ControlOK /\ OneAtATime /\ TypeInv /\ trades \in Seq(Rows) /\ CandlesPast
  BY DEF BreakerInv, SettleInv, LevelInv, ControlInv, TypeInv
<1>2. /\ \A q \in Runners \ {r} : pc'[q] = "idle"
      /\ dataset' = dataset /\ Latest' = Latest
  BY <1>1, Alone, StepFrame DEF Latest
<1>3. CASE trades' = trades
  <2>1. AtWork(r)' => \/ at'[r] = Latest
                      \/ AtWork(r) /\ at'[r] = at[r]
    BY <1>1, StepTells DEF AtWork, Decide, SaveAccount, AppendOrder, AppendExecution, AppendTarget
  <2> QED
    BY <1>1, <1>2, <1>3, <2>1 DEF CandlesPast, AtWork
<1>4. CASE SaveAccount(r) /\ order[r] # NoOrder /\ trades' = Append(trades, Trade(r))
  <2>1. pc[r] = "decided" /\ at' = at /\ AtWork(r)
    BY <1>4 DEF SaveAccount, AtWork
  <2>2. Trade(r) \in Rows /\ Trade(r).candle = at[r] /\ at[r] \in 1 .. Latest /\ Latest \in Nat
    BY <1>1, <1>4, <2>1, TradesAreRows DEF Trade, ControlOK
  <2> DEFINE n == Len(trades)
  <2>3. /\ n \in Nat /\ DOMAIN trades = 1 .. n /\ DOMAIN trades' = 1 .. n + 1
        /\ \A k \in 1 .. n : trades'[k] = trades[k]
        /\ trades'[n + 1] = Trade(r)
    BY <1>1, <1>4, <2>2, RowsAppended
  <2> HIDE DEF n
  <2>4. \A i \in DOMAIN trades' : trades'[i].candle <= Latest /\ trades'[i].candle <= at[r]
    <3>1. \A i \in DOMAIN trades' : i \in DOMAIN trades \/ i = n + 1
      BY <2>3
    <3>2. \A i \in DOMAIN trades : trades[i].candle <= Latest /\ trades[i].candle <= at[r]
      BY <1>1, <2>1 DEF CandlesPast
    <3> QED
      BY <2>2, <2>3, <3>1, <3>2
  <2> QED
    BY <1>2, <2>1, <2>4 DEF CandlesPast, AtWork
<1> QED
  BY <1>1, <1>3, <1>4, TradeSaved

LEMMA ClosesFinite ==
    ASSUME trades \in Seq(Rows)
    PROVE  /\ Closes \subseteq Nat
           /\ \A k, i : IsFiniteSet(ClosesFrom(k)) /\ IsFiniteSet(ClosesBetween(k, i))
<1>1. DOMAIN trades = 1 .. Len(trades) /\ Len(trades) \in Nat
  OBVIOUS
<1>2. IsFiniteSet(DOMAIN trades)
  BY <1>1, FS_Interval
<1>3. \A k, i : ClosesFrom(k) \subseteq DOMAIN trades /\ ClosesBetween(k, i) \subseteq DOMAIN trades
  BY DEF ClosesFrom, ClosesBetween, Closes
<1> QED
  BY <1>1, <1>2, <1>3, FS_Subset DEF Closes

\* A trade that closes nothing, and an account whose streak stays.
LEMMA KnowsOpened ==
    ASSUME BreakerInv, TypeInv', NEW e \in Rows, ~ e.flat, trades' = Append(trades, e),
           SameStreak(account, account')
    PROVE  BreakerKnows'
<1> DEFINE n == Len(trades)
<1>0. /\ trades \in Seq(Rows) /\ BreakerKnows /\ Good(account)
  BY DEF BreakerInv, SettleInv, TypeInv
<1>1. /\ n \in Nat /\ Closes \subseteq 1 .. n
      /\ \A i \in 1 .. n : trades'[i] = trades[i] /\ trades[i] \in Rows
      /\ Closes' = Closes
  BY <1>0, ClosesGrow
<1> HIDE DEF n
<1>2. \A i \in Closes : trades'[i] = trades[i]
  BY <1>1
<1>3. /\ \A k : ClosesFrom(k)' = ClosesFrom(k)
      /\ \A k, i : ClosesBetween(k, i)' = ClosesBetween(k, i)
  BY <1>1 DEF ClosesFrom, ClosesBetween
<1>4. /\ account'.losses = account.losses /\ account'.pause = account.pause
      /\ account'.day = account.day /\ account'.daily = account.daily
  BY DEF SameStreak
<1>5. LossesKnown'
  <2>1. \A k : \A j \in ClosesFrom(k) : trades'[j] = trades[j]
    BY <1>2 DEF ClosesFrom
  <2> QED
    BY <1>0, <1>3, <1>4, <2>1 DEF BreakerKnows, LossesKnown
<1>6. PausesKnown'
  <2>1. \A k, i \in Closes : EndsStreak(k, i)' => EndsStreak(k, i)
    <3>1. \A k, i : \A j \in ClosesBetween(k, i) : trades'[j] = trades[j]
      BY <1>2 DEF ClosesBetween
    <3> QED
      BY <1>2, <1>3, <3>1 DEF EndsStreak, LosesThrough
  <2> QED
    BY <1>0, <1>1, <1>2, <1>4, <2>1 DEF BreakerKnows, PausesKnown
<1>7. DaysKnown'
  <2>1. \A d \in Nat : LostOn(d)' = LostOn(d)
    <3>1. TAKE d \in Nat
    <3>2. LostOn(d) \in Int /\ LostOn(d)' = LostOn(d) + 0
      BY <1>0, LostAdds
    <3> QED
      BY <3>2
  <2> QED
    BY <1>0, <1>4, <2>1 DEF BreakerKnows, DaysKnown
<1>8. DayTaken'
  BY <1>0, <1>1, <1>2, <1>4 DEF BreakerKnows, DayTaken
<1> QED
  BY <1>5, <1>6, <1>7, <1>8 DEF BreakerKnows

\* A trade that closes the position, and an account settled for it.
LEMMA KnowsClosed ==
    ASSUME BreakerInv, TypeInv', NEW r \in Runners, AtWork(r), NEW o, o.flat, NEW e \in Rows,
           e.flat, e.money = o.money, e.candle = at[r], e.by = By(r), trades' = Append(trades, e),
           Settled(account, account', o, at[r], By(r))
    PROVE  BreakerKnows'
<1> DEFINE n == Len(trades)
           c == at[r]
<1>0. /\ trades \in Seq(Rows) /\ trades' \in Seq(Rows) /\ BreakerKnows
      /\ Good(account) /\ Good(account')
  BY DEF BreakerInv, SettleInv, TypeInv
<1>1. /\ n \in Nat /\ Closes \subseteq 1 .. n /\ trades'[n + 1] = e
      /\ \A i \in 1 .. n : trades'[i] = trades[i] /\ trades[i] \in Rows
      /\ Closes' = Closes \cup {n + 1}
      /\ DOMAIN trades = 1 .. n
  BY <1>0, ClosesGrow
<1>2. c \in Nat \ {0} /\ Day(c) \in Nat /\ account.day \in Nat /\ account.day <= Day(c)
  BY DayIsPast
<1>3. /\ account.losses \in Nat /\ account'.losses \in Nat /\ account.pause \in Nat
      /\ account'.pause \in Nat /\ account.daily \in Int /\ PauseBars \in Nat /\ MaxLosses \in Nat
  BY <1>0, GoodFields, ConstantsAssumption
<1>4. /\ account'.day = Day(c)
      /\ account'.daily = (IF account.day = Day(c) THEN account.daily ELSE 0) + e.money
      /\ account'.losses = IF e.money < 0 THEN account.losses + 1 ELSE 0
      /\ account'.pause = IF e.by = "model" /\ MaxLosses > 0 /\ account'.losses >= MaxLosses
                          THEN c + PauseBars ELSE account.pause
  BY DEF Settled
<1>5. e.money \in Int /\ e.candle = c
  BY RowFields
<1> HIDE DEF n, c
<1>6. \A i \in Closes : trades'[i] = trades[i] /\ i \in 1 .. n /\ i \in Nat \ {0} /\ i <= n
  <2>1. TAKE i \in Closes
  <2>2. i \in 1 .. n
    BY <1>1
  <2>3. trades'[i] = trades[i]
    BY <1>1, <2>2
  <2>4. i \in Nat \ {0} /\ i <= n
    BY <1>1, <2>2
  <2> QED
    BY <2>2, <2>3, <2>4
<1>7. \A k \in Nat : ClosesFrom(k)' = IF k <= n + 1 THEN ClosesFrom(k) \cup {n + 1} ELSE {}
  <2>1. TAKE k \in Nat
  <2>2. CASE k <= n + 1
    BY <1>1, <2>2 DEF ClosesFrom
  <2>3. CASE ~ (k <= n + 1)
    <3>1. \A j \in Closes \cup {n + 1} : ~ (k <= j)
      BY <1>1, <1>6, <2>3
    <3> QED
      BY <1>1, <2>3, <3>1 DEF ClosesFrom
  <2> QED
    BY <2>2, <2>3
<1>8. LossesKnown'
  <2>1. SUFFICES ASSUME NEW k \in Nat \ {0}, \A j \in ClosesFrom(k)' : trades'[j].money < 0
                 PROVE  Cardinality(ClosesFrom(k)') <= account'.losses
    BY DEF LossesKnown
  <2>2. CASE k <= n + 1
    <3>1. ClosesFrom(k)' = ClosesFrom(k) \cup {n + 1} /\ n + 1 \notin ClosesFrom(k)
      <4>1. n + 1 \notin Closes
        BY <1>1
      <4> QED
        BY <1>7, <2>2, <4>1 DEF ClosesFrom
    <3>2. e.money < 0
      BY <1>1, <2>1, <3>1
    <3>3. \A j \in ClosesFrom(k) : trades[j].money < 0
      <4>1. \A j \in ClosesFrom(k) : trades'[j] = trades[j]
        BY <1>6 DEF ClosesFrom
      <4> QED
        BY <2>1, <3>1, <4>1
    <3>4. Cardinality(ClosesFrom(k)) <= account.losses
      BY <1>0, <3>3 DEF BreakerKnows, LossesKnown
    <3>5. /\ Cardinality(ClosesFrom(k) \cup {n + 1}) = Cardinality(ClosesFrom(k)) + 1
          /\ Cardinality(ClosesFrom(k)) \in Nat
      BY <1>0, <3>1, ClosesFinite, FS_AddElement, FS_CardinalityType
    <3> QED
      BY <1>3, <1>4, <3>1, <3>2, <3>4, <3>5
  <2>3. CASE ~ (k <= n + 1)
    <3>1. ClosesFrom(k)' = {}
      BY <1>7, <2>3
    <3>2. Cardinality(ClosesFrom(k)') = 0
      BY <3>1, FS_EmptySet
    <3> QED
      BY <1>3, <3>2
  <2> QED
    BY <2>2, <2>3
<1>9. PausesKnown'
  <2>1. SUFFICES ASSUME NEW k \in Closes', NEW i \in Closes', EndsStreak(k, i)'
                 PROVE  account'.pause >= trades'[i].candle + PauseBars
    BY DEF PausesKnown
  <2>2. CASE i \in Closes
    <3>1. i \in 1 .. n /\ trades'[i] = trades[i] /\ k \in Nat
      BY <1>1, <1>6, <2>2
    <3>2. ClosesBetween(k, i)' = ClosesBetween(k, i)
      BY <1>1, <3>1 DEF ClosesBetween
    <3>3. EndsStreak(k, i)
      <4>1. \A j \in ClosesBetween(k, i) : trades'[j] = trades[j]
        BY <1>6 DEF ClosesBetween
      <4> QED
        BY <2>1, <3>1, <3>2, <4>1 DEF EndsStreak, LosesThrough
    <3>4. k \in Closes
      <4>1. CASE k = n + 1
        <5>1. ClosesBetween(k, i) = {}
          <6>1. \A j \in Closes : ~ (k <= j /\ j <= i)
            BY <1>1, <1>6, <3>1, <4>1
          <6> QED
            BY <6>1 DEF ClosesBetween
        <5>2. Cardinality(ClosesBetween(k, i)) = 0
          BY <5>1, FS_EmptySet
        <5> QED
          BY <1>3, <3>3, <5>2 DEF EndsStreak
      <4> QED
        BY <1>1, <4>1
    <3>5. account.pause >= trades[i].candle + PauseBars
      BY <1>0, <2>2, <3>3, <3>4 DEF BreakerKnows, PausesKnown
    <3>6. trades[i].candle \in Nat /\ trades[i].candle <= c
      BY <1>1, <3>1, RowFields DEF BreakerInv, CandlesPast, c
    <3> QED
      BY <1>2, <1>3, <1>4, <3>1, <3>5, <3>6
  <2>3. CASE i = n + 1
    <3>1. trades'[i] = e
      BY <1>1, <2>3
    <3>2. k \in Nat \ {0} /\ ClosesBetween(k, i)' = ClosesFrom(k)'
      <4>1. k \in Nat \ {0} /\ \A j \in Closes' : j <= i
        BY <1>1, <1>6, <2>3
      <4> QED
        BY <4>1 DEF ClosesBetween, ClosesFrom
    <3>3. /\ MaxLosses > 0 /\ Cardinality(ClosesFrom(k)') >= MaxLosses
          /\ (\A j \in ClosesFrom(k)' : trades'[j].money < 0) /\ e.by = "model"
      BY <2>1, <3>1, <3>2 DEF EndsStreak, LosesThrough
    <3>4. Cardinality(ClosesFrom(k)') <= account'.losses
      BY <1>8, <3>2, <3>3 DEF LossesKnown
    <3>5. Cardinality(ClosesFrom(k)') \in Nat
      <4>1. IsFiniteSet(ClosesFrom(k) \cup {n + 1}) /\ IsFiniteSet({})
        BY <1>0, ClosesFinite, FS_AddElement, FS_EmptySet
      <4>2. ClosesFrom(k)' \in {ClosesFrom(k) \cup {n + 1}, {}}
        BY <1>7, <3>2
      <4> QED
        BY <4>1, <4>2, FS_CardinalityType
    <3>6. account'.losses >= MaxLosses
      BY <1>3, <3>3, <3>4, <3>5
    <3>7. account'.pause = c + PauseBars
      BY <1>4, <3>3, <3>6
    <3> QED
      BY <1>2, <1>3, <1>5, <3>1, <3>7
  <2> QED
    BY <1>1, <2>2, <2>3
<1>10. DaysKnown'
  <2>1. SUFFICES ASSUME NEW d \in Nat
                 PROVE  /\ d = account'.day => LostOn(d)' = account'.daily
                        /\ d > account'.day => LostOn(d)' = 0
    BY DEF DaysKnown
  <2>2. /\ LostOn(d) \in Int
        /\ LostOn(d)' = LostOn(d) + (IF e.flat /\ Day(e.candle) = d THEN e.money ELSE 0)
    BY <1>0, LostAdds
  <2>3. /\ d = account.day => LostOn(d) = account.daily
        /\ d > account.day => LostOn(d) = 0
    BY <1>0 DEF BreakerKnows, DaysKnown
  <2>4. CASE d = Day(c)
    <3>1. LostOn(d)' = LostOn(d) + e.money
      BY <1>5, <2>2, <2>4
    <3>2. LostOn(d) = IF account.day = d THEN account.daily ELSE 0
      BY <1>2, <2>3, <2>4
    <3> QED
      BY <1>2, <1>4, <2>4, <3>1, <3>2
  <2>5. CASE d > Day(c)
    <3>1. LostOn(d) = 0 /\ LostOn(d)' = LostOn(d) + 0
      BY <1>2, <1>5, <2>2, <2>3, <2>5
    <3> QED
      BY <1>2, <1>4, <2>5, <3>1
  <2> QED
    BY <1>2, <1>4, <2>4, <2>5
<1>11. DayTaken'
  BY <1>1, <1>4, <1>5 DEF DayTaken
<1> QED
  BY <1>8, <1>9, <1>10, <1>11 DEF BreakerKnows

LEMMA KnowsStands ==
    ASSUME BreakerInv, trades' = trades, SameStreak(account, account')
    PROVE  BreakerKnows'
<1>1. /\ BreakerKnows
      /\ account'.losses = account.losses /\ account'.pause = account.pause
      /\ account'.day = account.day /\ account'.daily = account.daily
  BY DEF BreakerInv, SameStreak
<1>2. Closes' = Closes
  BY DEF Closes
<1>3. LossesKnown'
  BY <1>1, <1>2 DEF BreakerKnows, LossesKnown, ClosesFrom
<1>4. PausesKnown'
  BY <1>1, <1>2 DEF BreakerKnows, PausesKnown, EndsStreak, ClosesBetween, LosesThrough
<1>5. DaysKnown'
  <2>1. \A d : LostOn(d)' = LostOn(d)
    BY DEF LostOn
  <2> QED
    BY <1>1, <2>1 DEF BreakerKnows, DaysKnown
<1>6. DayTaken'
  BY <1>1, <1>2 DEF BreakerKnows, DayTaken
<1> QED
  BY <1>3, <1>4, <1>5, <1>6 DEF BreakerKnows

LEMMA KnowsStep ==
    ASSUME BreakerInv, TypeInv', NEW r \in Runners, Acts(r)
    PROVE  BreakerKnows'
<1>1. ControlOK /\ TypeInv
  BY DEF BreakerInv, SettleInv, TypeInv
<1>2. CASE SaveAccount(r)
  <2> DEFINE o == order[r]
  <2>1. account' = mem[r] /\ pc[r] = "decided" /\ AtWork(r)
    BY <1>2 DEF SaveAccount, AtWork
  <2>2. Settled(account, account', o, at[r], By(r))
    BY <2>1 DEF BreakerInv, SettleInv, Decisions
  <2>3. CASE o = NoOrder
    <3>1. trades' = trades /\ ~ o.flat
      BY <1>2, <2>3 DEF SaveAccount, NoOrder
    <3> QED
      BY <2>2, <3>1, KnowsStands DEF Settled
  <2>4. CASE o # NoOrder
    <3> DEFINE e == Trade(r)
    <3>1. trades' = Append(trades, e)
      BY <1>2, <2>4 DEF SaveAccount
    <3>2. e \in Rows
      BY <1>1, <2>1, <2>4, TradesAreRows
    <3>3. e.flat = o.flat /\ e.money = o.money /\ e.candle = at[r] /\ e.by = By(r)
      BY DEF Trade, By
    <3> HIDE DEF e, o
    <3>4. CASE o.flat
      BY <2>1, <2>2, <3>1, <3>2, <3>3, <3>4, KnowsClosed
    <3>5. CASE ~ o.flat
      <4>1. SameStreak(account, account')
        BY <2>2, <3>5 DEF Settled
      <4> QED
        BY <3>1, <3>2, <3>3, <3>5, <4>1, KnowsOpened
    <3> QED
      BY <3>4, <3>5
  <2> QED
    BY <2>3, <2>4
<1>3. CASE ~ SaveAccount(r)
  <2>1. account' = account /\ trades' = trades
    BY <1>3 DEF Acts, Step, Load, Skip, Take, Repeat, Check, Decide, AppendOrder,
       AppendExecution, AppendTarget, AppendEquity, Crash, tables
  <2> QED
    BY <2>1, KnowsStands DEF SameStreak
<1> QED
  BY <1>2, <1>3

LEMMA BreakerInit == Init => BreakerInv
<1> SUFFICES ASSUME Init PROVE CandlesPast /\ BreakerKnows
  BY SettleInit DEF BreakerInv
<1>1. /\ account = NewAccount /\ trades = <<>> /\ pc = [r \in Runners |-> "idle"]
      /\ DOMAIN trades = {} /\ Len(trades) = 0
  BY DEF Init
<1>2. Closes = {}
  BY <1>1 DEF Closes
<1>3. account.losses = 0 /\ account.day = 0 /\ account.daily = 0
  BY <1>1 DEF NewAccount
<1>4. LossesKnown
  <2>1. \A k : ClosesFrom(k) = {}
    BY <1>2 DEF ClosesFrom
  <2>2. Cardinality({}) = 0
    BY FS_EmptySet
  <2> QED
    BY <1>3, <2>1, <2>2 DEF LossesKnown
<1>5. DaysKnown
  <2>1. \A d : LostOn(d) = 0
    BY <1>1, TotalOfNone DEF LostOn
  <2> QED
    BY <1>3, <2>1 DEF DaysKnown
<1>6. PausesKnown /\ DayTaken /\ CandlesPast
  BY <1>1, <1>2, <1>3 DEF PausesKnown, DayTaken, CandlesPast, AtWork
<1> QED
  BY <1>4, <1>5, <1>6 DEF BreakerKnows

LEMMA BreakerKept ==
    Concurrent = FALSE /\ EntriesFunded /\ BreakerInv /\ [Next]_vars => BreakerInv'
<1> SUFFICES ASSUME Concurrent = FALSE, EntriesFunded, BreakerInv, [Next]_vars PROVE BreakerInv'
  OBVIOUS
<1>1. SettleInv' /\ TypeInv' /\ ControlOK
  BY SettleKept DEF BreakerInv, SettleInv, TypeInv
<1>2. ASSUME NEW r \in Runners, Acts(r) PROVE BreakerInv'
  BY <1>1, <1>2, KnowsStep, CandlesStep DEF BreakerInv
<1>3. ASSUME UNCHANGED <<account, trades, pc, at>>, Latest' >= Latest PROVE BreakerInv'
  <2>1. BreakerKnows'
    BY <1>3, KnowsStands DEF SameStreak
  <2>2. CandlesPast'
    <3>1. CandlesPast /\ Latest \in Nat /\ Latest' \in Nat /\ trades \in Seq(Rows)
      BY <1>1 DEF BreakerInv, SettleInv, TypeInv, ControlOK
    <3>2. \A i \in DOMAIN trades : trades[i].candle \in Nat
      <4>1. \A i \in DOMAIN trades : trades[i] \in Rows
        BY <3>1
      <4> QED
        BY <4>1, RowFields
    <3> QED
      BY <1>3, <3>1, <3>2 DEF CandlesPast, AtWork
  <2> QED
    BY <1>1, <2>1, <2>2 DEF BreakerInv
<1>4. ASSUME NEW b \in Bars, NewCandle(b) PROVE BreakerInv'
  <2>1. Latest' >= Latest
    <3>1. dataset \in Seq(Bars) /\ dataset' = Append(dataset, b)
      BY <1>1, <1>4 DEF ControlOK, NewCandle
    <3>2. Len(dataset') = Len(dataset) + 1 /\ Len(dataset) \in Nat
      BY <3>1
    <3> QED
      BY <3>2 DEF Latest
  <2> QED
    BY <1>3, <1>4, <2>1 DEF NewCandle, tables, memory
<1>5. ASSUME UNCHANGED vars PROVE BreakerInv'
  <2>1. Latest' = Latest /\ Latest \in Nat
    BY <1>1, <1>5 DEF vars, Latest, ControlOK
  <2> QED
    BY <1>3, <1>5, <2>1 DEF vars
<1> QED
  BY <1>2, <1>4, <1>5 DEF Next, Acts

\* What the account row knows is what the circuit breaker has to know.
LEMMA EntriesAllowed ==
    ASSUME BreakerInv, NEW r \in Runners, AtWork(r), CanOpen(account, at[r])
    PROVE  ~ InLossPause(at[r]) /\ LostOn(Day(at[r])) > -MaxDailyLoss
<1> DEFINE c == at[r]
           d == Day(c)
<1>1. c \in Nat \ {0} /\ d \in Nat /\ account.day \in Nat /\ account.day <= d
  BY DayIsPast
<1>2. /\ account.pause \in Nat /\ account.daily \in Int /\ PauseBars \in Nat
      /\ trades \in Seq(Rows) /\ BreakerKnows
  BY GoodFields, ConstantsAssumption DEF BreakerInv, SettleInv, TypeInv
<1>3. c >= account.pause /\ (IF account.day = d THEN account.daily ELSE 0) > -MaxDailyLoss
  BY DEF CanOpen
<1> HIDE DEF c, d
<1>4. ~ InLossPause(c)
  <2>1. SUFFICES ASSUME NEW k \in Closes, NEW i \in Closes, EndsStreak(k, i),
                        c < trades[i].candle + PauseBars
                 PROVE  FALSE
    BY DEF InLossPause
  <2>2. account.pause >= trades[i].candle + PauseBars
    BY <1>2, <2>1 DEF BreakerKnows, PausesKnown
  <2>3. trades[i].candle \in Nat
    <3>1. trades[i] \in Rows
      BY <1>2 DEF Closes
    <3> QED
      BY <3>1, RowFields
  <2> QED
    BY <1>1, <1>2, <1>3, <2>1, <2>2, <2>3
<1>5. LostOn(d) > -MaxDailyLoss
  <2>1. /\ d = account.day => LostOn(d) = account.daily
        /\ d > account.day => LostOn(d) = 0
    BY <1>1, <1>2 DEF BreakerKnows, DaysKnown
  <2> QED
    BY <1>1, <1>3, <2>1
<1> QED
  BY <1>4, <1>5 DEF c, d

\* The circuit breaker holds for every dataset, every price and every limit,
\* across kills, repeats and whatever the ensemble runner closed in between:
\* the model opens no position in the pause after a streak of losses, nor on a
\* day whose closed trades lost the limit (can_open_position,
\* update_after_closed_trade, register_closed_trade).
THEOREM BreakerIsKept ==
    Concurrent = FALSE => ((Spec /\ []EntriesFunded) => BreakerHolds)
<1> SUFFICES ASSUME Concurrent = FALSE
             PROVE  (Spec /\ []EntriesFunded) => BreakerHolds
  OBVIOUS
<1>1. Init => BreakerInv
  BY BreakerInit
<1>2. EntriesFunded /\ BreakerInv /\ [Next]_vars => BreakerInv'
  BY BreakerKept
<1>3. BreakerInv /\ [Next]_vars =>
        [ModelEnters =>
           LET c == trades'[Len(trades')].candle
           IN  ~InLossPause(c) /\ LostOn(Day(c)) > -MaxDailyLoss]_vars
  <2> SUFFICES ASSUME BreakerInv, Next, ModelEnters
               PROVE  LET c == trades'[Len(trades')].candle
                      IN  ~InLossPause(c) /\ LostOn(Day(c)) > -MaxDailyLoss
    OBVIOUS
  <2>1. /\ trades' # trades /\ trades'[Len(trades')].by = "model"
        /\ trades'[Len(trades')].side = "buy"
    BY DEF ModelEnters
  <2>2. ControlOK /\ trades \in Seq(Rows) /\ TypeInv
    BY DEF BreakerInv, SettleInv, TypeInv
  <2>3. PICK r \in Runners : Acts(r)
    BY <2>1 DEF Next, Acts, NewCandle
  <2>4. SaveAccount(r) /\ order[r] # NoOrder /\ trades' = Append(trades, Trade(r))
    BY <2>1, <2>2, <2>3, TradeSaved
  <2>5. pc[r] = "decided" /\ AtWork(r)
    BY <2>4 DEF SaveAccount, AtWork
  <2>6. Trade(r) \in Rows
    BY <2>2, <2>4, <2>5, TradesAreRows
  <2>7. trades'[Len(trades')] = Trade(r)
    BY <2>2, <2>4, <2>6, RowsAppended
  <2>8. r \notin Ensemble /\ order[r].side = "buy"
    BY <2>1, <2>7 DEF Trade
  <2>9. CanOpen(account, at[r])
    BY <2>5, <2>8 DEF BreakerInv, SettleInv, Decisions
  <2>10. Trade(r).candle = at[r]
    BY DEF Trade
  <2> QED
    BY <2>5, <2>7, <2>9, <2>10, EntriesAllowed
<1> QED
  BY <1>1, <1>2, <1>3, PTL DEF Spec, BreakerHolds

===========================================================================
