------------------------- MODULE DemoExecutionProofs -------------------------
(***************************************************************************)
(* Proofs about DemoExecution for any runs, targets, cap and bounds.       *)
(***************************************************************************)
EXTENDS DemoExecution, FiniteSetTheorems, TLAPS

-----------------------------------------------------------------------------
(* What a plan is made of.                                                 *)

Positive == Nat \ {0}

\* The action and the quantity of a plan: an increase stays within the target,
\* a sale within the position.
LEMMA OrderFacts ==
    ASSUME NEW held \in Nat, NEW target \in Targets, NEW capped \in BOOLEAN
    PROVE  LET q == OrderQty(held, target, capped)
               a == Action(held, target)
           IN  /\ a = "increase" => q \in Positive /\ held + q <= MaxTarget
               /\ a \in {"reduce", "close"} => q \in Positive
               /\ a \notin {"increase", "reduce", "close"} => q = 0
<1>1. target \in Nat /\ target <= MaxTarget /\ MaxTarget \in Nat
  BY TargetsAssumption, MaxTargetAssumption
<1> DEFINE wanted == Larger(target - held, held - target)
           qty == IF capped THEN Smaller(wanted, Cap) ELSE wanted
<1>2. /\ wanted \in Nat
      /\ target > held => wanted = target - held
      /\ target < held => wanted = held - target
  BY <1>1 DEF Larger
<1>3. /\ qty \in Nat /\ qty <= wanted
      /\ wanted > 0 => qty > 0
  BY <1>2, CapAssumption DEF Smaller
<1> HIDE DEF wanted
<1>4. Action(held, target) = "increase" => target > held
  BY <1>1, MinRebalanceAssumption DEF Action
<1>5. Action(held, target) \in {"reduce", "close"} => target < held
  BY <1>1, MinRebalanceAssumption DEF Action
<1>6. OrderQty(held, target, capped) =
        IF Action(held, target) = "increase" THEN qty
        ELSE IF Action(held, target) \in {"reduce", "close"} THEN Smaller(held, qty)
        ELSE 0
  BY DEF OrderQty, wanted
<1> HIDE DEF qty
<1>7. CASE Action(held, target) = "increase"
  BY <1>1, <1>2, <1>3, <1>4, <1>6, <1>7 DEF Positive
<1>8. CASE Action(held, target) \in {"reduce", "close"}
  <2>1. OrderQty(held, target, capped) = Smaller(held, qty)
    BY <1>6, <1>8
  <2>2. held > 0 /\ qty > 0
    BY <1>1, <1>2, <1>3, <1>5, <1>8
  <2> QED
    BY <1>3, <1>8, <2>1, <2>2 DEF Smaller, Positive
<1>9. CASE Action(held, target) \notin {"increase", "reduce", "close"}
  BY <1>6, <1>9
<1> QED
  BY <1>7, <1>8, <1>9

RawIntents == [side : {"buy", "sell"}, reduceOnly : BOOLEAN,
               conditional : BOOLEAN, qty : Positive, ref : {98, 100, 104}]

\* Every sale of a plan is reduce-only; only its first intent may buy, and
\* never beyond the target.
SoundPlan(s, held) ==
    /\ s \in Seq(RawIntents)
    /\ \A n \in 1..Len(s) :
         /\ s[n].side = "sell" => s[n].reduceOnly
         /\ s[n].side = "buy" => n = 1 /\ held + s[n].qty <= MaxTarget /\ s[n].ref = 100

LEMMA Concatenation ==
    ASSUME NEW S, NEW s \in Seq(S), NEW t \in Seq(S)
    PROVE  /\ s \o t \in Seq(S)
           /\ Len(s \o t) = Len(s) + Len(t)
           /\ Len(s) \in Nat /\ Len(t) \in Nat
           /\ \A n \in 1..(Len(s) + Len(t)) :
                (s \o t)[n] = IF n <= Len(s) THEN s[n] ELSE t[n - Len(s)]
  OBVIOUS

LEMMA PlanSound ==
    ASSUME NEW held \in Nat, NEW target \in Targets, NEW capped \in BOOLEAN,
           NEW protect \in BOOLEAN
    PROVE  LET s == Plan(held, target, capped, protect)
           IN  /\ SoundPlan(s, held)
               /\ \A n \in 1..Len(s) : s[n].side = "buy" => Action(held, target) = "increase"
<1> DEFINE q == OrderQty(held, target, capped)
           a == Action(held, target)
           o == Order(held, target, capped)
           p == IF protect THEN Protection(held, target, capped) ELSE <<>>
<1>1. /\ a = "increase" => q \in Positive /\ held + q <= MaxTarget
      /\ a \in {"reduce", "close"} => q \in Positive
      /\ a \notin {"increase", "reduce", "close"} => q = 0
  BY OrderFacts
<1>2. /\ o \in Seq(RawIntents) /\ Len(o) \in {0, 1}
      /\ Len(o) = 1 => /\ o[1].side = "sell" => o[1].reduceOnly
                       /\ o[1].side = "buy" => /\ held + o[1].qty <= MaxTarget /\ o[1].ref = 100
                                              /\ a = "increase"
  <2>0. o = IF a = "increase" THEN <<Buy(q)>>
            ELSE IF a \in {"reduce", "close"} THEN <<Sell(q)>> ELSE <<>>
    BY DEF Order
  <2> HIDE DEF q, a, o
  <2>1. CASE a = "increase"
    <3>1. Buy(q) \in RawIntents
      BY <1>1, <2>1 DEF Buy, RawIntents
    <3>2. o = <<Buy(q)>>
      BY <2>0, <2>1
    <3>3. Buy(q).side = "buy" /\ Buy(q).qty = q /\ Buy(q).ref = 100
      BY DEF Buy
    <3> QED
      BY <1>1, <2>1, <3>1, <3>2, <3>3
  <2>2. CASE a \in {"reduce", "close"}
    <3>1. Sell(q) \in RawIntents
      BY <1>1, <2>2 DEF Sell, RawIntents
    <3>2. o = <<Sell(q)>>
      BY <2>0, <2>2
    <3>3. Sell(q).side = "sell" /\ Sell(q).reduceOnly
      BY DEF Sell
    <3> QED
      BY <3>1, <3>2, <3>3
  <2>3. CASE a \notin {"increase", "reduce", "close"}
    BY <2>0, <2>3
  <2> QED
    BY <2>1, <2>2, <2>3
<1>3. /\ p \in Seq(RawIntents)
      /\ \A n \in 1..Len(p) : p[n].side = "sell" /\ p[n].reduceOnly
  <2> DEFINE e == held + q
  <2>1. p = <<>> \/ (e > 0 /\ a \in {"increase", "hold"}
                       /\ p = <<Protective(e, 100), Protective(e, 100)>>)
    BY DEF Protection
  <2>2. e > 0 /\ a \in {"increase", "hold"} => e \in Positive
    BY <1>1 DEF Positive
  <2> HIDE DEF e, p, a, q
  <2>3. CASE p = <<>>
    BY <2>3
  <2>4. CASE e \in Positive /\ p = <<Protective(e, 100), Protective(e, 100)>>
    <3>1. Protective(e, 100) \in RawIntents
      BY <2>4 DEF Protective, RawIntents
    <3>2. Protective(e, 100).side = "sell" /\ Protective(e, 100).reduceOnly
      BY DEF Protective
    <3> QED
      BY <2>4, <3>1, <3>2
  <2> QED
    BY <2>1, <2>2, <2>3, <2>4
<1>4. Plan(held, target, capped, protect) = o \o p
  BY DEF Plan
<1> HIDE DEF o, p
<1>5. /\ o \o p \in Seq(RawIntents)
      /\ \A n \in 1..Len(o \o p) :
           /\ (o \o p)[n].side = "sell" => (o \o p)[n].reduceOnly
           /\ (o \o p)[n].side = "buy" =>
                 /\ n = 1 /\ held + (o \o p)[n].qty <= MaxTarget /\ (o \o p)[n].ref = 100
                 /\ a = "increase"
  <2>1. /\ o \o p \in Seq(RawIntents) /\ Len(o \o p) = Len(o) + Len(p)
        /\ Len(o) \in {0, 1} /\ Len(p) \in Nat
        /\ \A n \in 1..(Len(o) + Len(p)) :
             (o \o p)[n] = IF n <= Len(o) THEN o[n] ELSE p[n - Len(o)]
    BY <1>2, <1>3, Concatenation
  <2>2. ASSUME NEW n \in 1..(Len(o) + Len(p))
        PROVE  /\ (o \o p)[n].side = "sell" => (o \o p)[n].reduceOnly
               /\ (o \o p)[n].side = "buy" =>
                 /\ n = 1 /\ held + (o \o p)[n].qty <= MaxTarget /\ (o \o p)[n].ref = 100
                 /\ a = "increase"
    <3>1. CASE n <= Len(o)
      <4>1. n = 1 /\ Len(o) = 1
        BY <2>1, <3>1
      <4>2. (o \o p)[n] = o[1]
        BY <2>1, <3>1, <4>1
      <4> QED
        BY <1>2, <4>1, <4>2
    <3>2. CASE n > Len(o)
      <4>1. n - Len(o) \in 1..Len(p)
        BY <2>1, <3>2
      <4>2. (o \o p)[n] = p[n - Len(o)]
        BY <2>1, <3>2
      <4>3. p[n - Len(o)].side = "sell" /\ p[n - Len(o)].reduceOnly
        BY <1>3, <4>1
      <4> QED
        BY <4>2, <4>3
    <3> QED
      BY <2>1, <3>1, <3>2
  <2> QED
    BY <2>1, <2>2
<1> QED
  BY <1>4, <1>5 DEF SoundPlan

\* A plan that fits the model's sizes is a sequence of its intents.
LEMMA FittingPlan ==
    ASSUME NEW s \in Seq(RawIntents), \A n \in DOMAIN s : s[n].qty <= MaxPosition
    PROVE  s \in Seq(Intents)
<1>1. ASSUME NEW n \in 1..Len(s)
      PROVE  s[n] \in Intents
  <2>1. s[n] \in RawIntents /\ s[n].qty <= MaxPosition
    OBVIOUS
  <2> QED
    BY <2>1, BoundsAssumption DEF RawIntents, Intents, Sizes, Positive
<1> QED
  BY <1>1

-----------------------------------------------------------------------------
(* Type correctness and LongOnly, one invariant: the position stays        *)
(* non-negative because every sale in flight is reduce-only.               *)

ExchangeInv ==
    /\ orderType \in {"market", "limit"}
    /\ listed \in BOOLEAN
    /\ position \in Nat
    /\ stripped \in BOOLEAN
    /\ buys \in Books /\ sells \in Books /\ algo \in Books

RunInv ==
    /\ pc \in [Runs -> PCs]
    /\ fetched \in [Runs -> BOOLEAN]
    /\ heldQty \in [Runs -> Nat]
    /\ seesProtection \in [Runs -> BOOLEAN]
    /\ seesPlain \in [Runs -> BOOLEAN]
    /\ pending \in [Runs -> Seq(Intents)]
    /\ \A r \in Runs : pc[r] = "send" => pending[r] # <<>>
    /\ \A r \in Runs : \A n \in 1..Len(pending[r]) :
         pending[r][n].side = "sell" => pending[r][n].reduceOnly

LongInv == ExchangeInv /\ RunInv

runState == <<pc, snapshot, pending>>

LEMMA ReductionFacts ==
    ASSUME position \in Nat, NEW q \in Sizes
    PROVE  position - Reduction(q) \in Nat
  BY BoundsAssumption DEF Reduction, Smaller, Larger, Sizes

LEMMA SizesPositive == \A q \in Sizes : q \in Nat /\ q > 0
  BY BoundsAssumption DEF Sizes

LEMMA BookFacts ==
    ASSUME NEW book \in Books, NEW q \in Sizes
    PROVE  /\ Empty \in Books
           /\ [book EXCEPT ![q] = @ + 1] \in Books
           /\ q \in Resting(book) => [book EXCEPT ![q] = @ - 1] \in Books
  BY DEF Books, Empty, Resting

LEMMA ExchangeStep ==
    ASSUME LongInv, Exchange
    PROVE  LongInv'
<1>1. PICK q \in Sizes : FillBuy(q) \/ FillSell(q) \/ Trigger(q)
  BY DEF Exchange
<1>2. RunInv'
  BY DEF LongInv, RunInv, Exchange, snapshot
<1>3. orderType' = orderType /\ listed' = listed
  BY DEF Exchange
<1>4. CASE FillBuy(q)
  <2>1. position' \in Nat
    BY <1>4, SizesPositive DEF FillBuy, LongInv, ExchangeInv
  <2>2. buys' \in Books
    BY <1>4, BookFacts DEF FillBuy, LongInv, ExchangeInv
  <2>3. stripped' \in BOOLEAN /\ sells' = sells /\ algo' = algo
    BY <1>4 DEF FillBuy, KeepHistory
  <2> QED
    BY <1>2, <1>3, <2>1, <2>2, <2>3 DEF LongInv, ExchangeInv
<1>5. CASE FillSell(q)
  BY <1>2, <1>3, <1>5, BookFacts, ReductionFacts
     DEF FillSell, Strip, LongInv, ExchangeInv
<1>6. CASE Trigger(q)
  BY <1>2, <1>3, <1>6, BookFacts, ReductionFacts
     DEF Trigger, Strip, LongInv, ExchangeInv
<1> QED
  BY <1>1, <1>4, <1>5, <1>6

\* The exchange stays sound when it accepts a sound intent.
LEMMA AcceptStep ==
    ASSUME ExchangeInv, NEW i \in Intents, i.side = "sell" => i.reduceOnly,
           Accept(i), UNCHANGED <<orderType, listed>>
    PROVE  ExchangeInv'
<1>1. i.qty \in Sizes /\ i.side \in {"buy", "sell"}
  BY DEF Intents
<1>2. stripped' \in BOOLEAN
  BY DEF Accept, KeepHistory
<1>3. CASE Market(i)
  <2>1. position' \in Nat
    <3>1. CASE i.side = "buy"
      BY <1>1, <1>3, <3>1, SizesPositive DEF Market, ExchangeInv
    <3>2. CASE i.side = "sell"
      <4>1. i.reduceOnly
        BY <3>2
      <4>2. position' = position - Reduction(i.qty)
        BY <1>3, <3>2, <4>1 DEF Market
      <4> QED
        BY <1>1, <4>2, ReductionFacts DEF ExchangeInv
    <3> QED
      BY <1>1, <3>1, <3>2
  <2> QED
    BY <1>2, <1>3, <2>1 DEF Market, ExchangeInv
<1>4. CASE Limit(i)
  BY <1>1, <1>2, <1>4, BookFacts DEF Limit, ExchangeInv
<1>5. CASE Conditional(i)
  BY <1>1, <1>2, <1>5, BookFacts DEF Conditional, ExchangeInv
<1> QED
  BY <1>3, <1>4, <1>5 DEF Accept

LEMMA OverStep ==
    ASSUME RunInv, NEW r \in Runs, Over(r)
    PROVE  RunInv'
<1>1. <<>> \in Seq(Intents) /\ Len(<<>>) = 0
  OBVIOUS
<1>2. /\ pc' \in [Runs -> PCs] /\ heldQty' \in [Runs -> Nat]
      /\ fetched' \in [Runs -> BOOLEAN]
      /\ seesProtection' \in [Runs -> BOOLEAN] /\ seesPlain' \in [Runs -> BOOLEAN]
      /\ pending' \in [Runs -> Seq(Intents)]
  BY <1>1 DEF Over, RunInv, PCs
<1>3. ASSUME NEW s \in Runs
      PROVE  /\ pc'[s] = "send" => pending'[s] # <<>>
             /\ \A n \in 1..Len(pending'[s]) :
                  pending'[s][n].side = "sell" => pending'[s][n].reduceOnly
  <2>1. CASE s = r
    <3>1. pc'[s] = "idle" /\ pending'[s] = <<>>
      BY <2>1 DEF Over, RunInv
    <3> QED
      BY <1>1, <3>1
  <2>2. CASE s # r
    <3>1. pc'[s] = pc[s] /\ pending'[s] = pending[s]
      BY <2>2 DEF Over, RunInv
    <3> QED
      BY <3>1 DEF RunInv
  <2> QED
    BY <2>1, <2>2
<1> QED
  BY <1>2, <1>3 DEF RunInv

\* A run that starts sending: the intents it will send are sound.
LEMMA StartSending ==
    ASSUME RunInv, NEW r \in Runs, NEW s \in Seq(Intents), s # <<>>,
           \A n \in 1..Len(s) : s[n].side = "sell" => s[n].reduceOnly,
           pending' = [pending EXCEPT ![r] = s],
           pc' = [pc EXCEPT ![r] = "send"],
           heldQty' = heldQty, fetched' \in [Runs -> BOOLEAN],
           UNCHANGED <<seesProtection, seesPlain>>
    PROVE  RunInv'
<1>1. /\ pc' \in [Runs -> PCs] /\ pending' \in [Runs -> Seq(Intents)]
      /\ heldQty' \in [Runs -> Nat] /\ fetched' \in [Runs -> BOOLEAN]
      /\ seesProtection' \in [Runs -> BOOLEAN] /\ seesPlain' \in [Runs -> BOOLEAN]
  BY DEF RunInv, PCs, snapshot
<1>2. ASSUME NEW t \in Runs
      PROVE  /\ pc'[t] = "send" => pending'[t] # <<>>
             /\ \A n \in 1..Len(pending'[t]) :
                  pending'[t][n].side = "sell" => pending'[t][n].reduceOnly
  <2>1. CASE t = r
    <3>1. pending'[t] = s
      BY <2>1 DEF RunInv
    <3> QED
      BY <3>1
  <2>2. CASE t # r
    <3>1. pc'[t] = pc[t] /\ pending'[t] = pending[t]
      BY <2>2 DEF RunInv
    <3> QED
      BY <3>1 DEF RunInv
  <2> QED
    BY <2>1, <2>2
<1> QED
  BY <1>1, <1>2 DEF RunInv

\* A run that only moves on: it has nothing to send yet.
LEMMA MoveOn ==
    ASSUME RunInv, NEW r \in Runs, NEW c \in PCs \ {"send"},
           pc' = [pc EXCEPT ![r] = c], UNCHANGED pending,
           heldQty' \in [Runs -> Nat], fetched' \in [Runs -> BOOLEAN],
           seesProtection' \in [Runs -> BOOLEAN], seesPlain' \in [Runs -> BOOLEAN]
    PROVE  RunInv'
<1>1. pc' \in [Runs -> PCs]
  BY DEF RunInv
<1>2. \A t \in Runs : pc'[t] = "send" => pc[t] = "send"
  BY DEF RunInv
<1> QED
  BY <1>1, <1>2 DEF RunInv

LEMMA CheckPlanStep ==
    ASSUME LongInv, NEW r \in Runs, CheckPlan(r)
    PROVE  LongInv'
<1>1. UNCHANGED <<orderType, listed, exchange>>
  BY DEF CheckPlan
<1>2. ExchangeInv'
  BY <1>1 DEF LongInv, ExchangeInv, exchange
<1>3. PICK target \in Targets, capped \in BOOLEAN, protect \in BOOLEAN :
        \/ Over(r)
        \/ LET s == Plan(Larger(heldQty[r], 0), target, capped, protect)
           IN  /\ s # <<>>
               /\ \A n \in DOMAIN s : s[n].qty <= MaxPosition
               /\ pending' = [pending EXCEPT ![r] = s]
               /\ pc' = [pc EXCEPT ![r] = "send"]
               /\ UNCHANGED snapshot
  BY DEF CheckPlan, Execute
<1> DEFINE s == Plan(Larger(heldQty[r], 0), target, capped, protect)
<1>4. SoundPlan(s, Larger(heldQty[r], 0))
  <2>1. Larger(heldQty[r], 0) \in Nat
    BY DEF Larger, LongInv, RunInv
  <2> QED
    BY <2>1, PlanSound
<1> HIDE DEF s
<1>5. CASE Over(r)
  BY <1>2, <1>5, OverStep DEF LongInv
<1>6. CASE /\ s # <<>>
           /\ \A n \in DOMAIN s : s[n].qty <= MaxPosition
           /\ pending' = [pending EXCEPT ![r] = s]
           /\ pc' = [pc EXCEPT ![r] = "send"]
           /\ UNCHANGED snapshot
  <2>1. s \in Seq(Intents)
    BY <1>4, <1>6, FittingPlan DEF SoundPlan
  <2>2. \A n \in 1..Len(s) : s[n].side = "sell" => s[n].reduceOnly
    BY <1>4 DEF SoundPlan
  <2>3. RunInv'
    BY <1>6, <2>1, <2>2, StartSending DEF LongInv, RunInv, snapshot
  <2> QED
    BY <1>2, <2>3 DEF LongInv
<1> QED
  BY <1>3, <1>5, <1>6 DEF s

\* An unsynced plan is as sound as any other: it starts from what the paper
\* account holds.
LEMMA UnsyncedPlan ==
    ASSUME NEW r, PlanUnsynced(r)
    PROVE  \E held \in Nat, s \in Seq(Intents) :
             /\ s # <<>> /\ SoundPlan(s, held)
             /\ pending' = [pending EXCEPT ![r] = s]
             /\ pc' = [pc EXCEPT ![r] = "send"]
<1>1. PICK held \in Targets \cup {0}, target \in Targets, capped \in BOOLEAN,
           protect \in BOOLEAN : Execute(r, Plan(held, target, capped, protect))
  BY DEF PlanUnsynced
<1> DEFINE s == Plan(held, target, capped, protect)
<1>2. held \in Nat
  BY TargetsAssumption
<1>3. SoundPlan(s, held)
  BY <1>2, PlanSound
<1>4. s # <<>> /\ \A n \in DOMAIN s : s[n].qty <= MaxPosition
  BY <1>1 DEF Execute
<1>5. /\ pending' = [pending EXCEPT ![r] = s]
      /\ pc' = [pc EXCEPT ![r] = "send"]
  BY <1>1 DEF Execute
<1> HIDE DEF s
<1>6. s \in Seq(Intents)
  BY <1>3, <1>4, FittingPlan DEF SoundPlan
<1> QED
  BY <1>2, <1>3, <1>4, <1>5, <1>6

LEMMA PlanUnsyncedStep ==
    ASSUME LongInv, NEW r \in Runs, PlanUnsynced(r)
    PROVE  LongInv'
<1>1. PICK held \in Nat, s \in Seq(Intents) :
        /\ s # <<>> /\ SoundPlan(s, held)
        /\ pending' = [pending EXCEPT ![r] = s]
        /\ pc' = [pc EXCEPT ![r] = "send"]
  BY UnsyncedPlan
<1>2. \A n \in 1..Len(s) : s[n].side = "sell" => s[n].reduceOnly
  BY <1>1 DEF SoundPlan
<1>3. fetched' \in [Runs -> BOOLEAN] /\ UNCHANGED <<heldQty, seesProtection, seesPlain>>
  BY DEF PlanUnsynced, LongInv, RunInv
<1>4. RunInv'
  BY <1>1, <1>2, <1>3, StartSending DEF LongInv, RunInv
<1>5. ExchangeInv'
  BY DEF PlanUnsynced, exchange, LongInv, ExchangeInv
<1> QED
  BY <1>4, <1>5 DEF LongInv

LEMMA PlaceProtectionStep ==
    ASSUME LongInv, NEW r \in Runs, PlaceProtection(r)
    PROVE  LongInv'
<1>1. PICK q \in Sizes : pending' =
            [pending EXCEPT ![r] = <<Protective(q, 98), Protective(q, 104)>>]
  BY DEF PlaceProtection
<1>2. Protective(q, 98) \in Intents /\ Protective(q, 104) \in Intents
  BY DEF Protective, Intents
<1>3. Protective(q, 98).reduceOnly /\ Protective(q, 104).reduceOnly
  BY DEF Protective
<1> DEFINE s == <<Protective(q, 98), Protective(q, 104)>>
<1>4. s \in Seq(Intents) /\ s # <<>> /\ \A n \in 1..Len(s) : s[n].reduceOnly
  BY <1>2, <1>3
<1> HIDE DEF s
<1>5. RunInv'
  <2>1. pending' = [pending EXCEPT ![r] = s]
    BY <1>1 DEF s
  <2> QED
    BY <1>4, <2>1, StartSending DEF LongInv, RunInv, PlaceProtection, snapshot
<1>6. ExchangeInv'
  BY DEF PlaceProtection, exchange, LongInv, ExchangeInv
<1> QED
  BY <1>5, <1>6 DEF LongInv

LEMMA SendStep ==
    ASSUME LongInv, NEW r \in Runs, Send(r)
    PROVE  LongInv'
<1> DEFINE p == pending[r]
           i == Head(p)
<1>1. pc[r] = "send" /\ UNCHANGED <<orderType, listed>>
  BY DEF Send
<1>2. p \in Seq(Intents) /\ p # <<>>
  BY <1>1 DEF LongInv, RunInv
<1>3. /\ i \in Intents /\ i = p[1] /\ 1 \in 1..Len(p)
      /\ Tail(p) \in Seq(Intents) /\ Len(Tail(p)) = Len(p) - 1
      /\ \A n \in 1..Len(Tail(p)) : Tail(p)[n] = p[n + 1] /\ n + 1 \in 1..Len(p)
  BY <1>2
<1>4. \A n \in 1..Len(p) : p[n].side = "sell" => p[n].reduceOnly
  BY DEF LongInv, RunInv
<1>5. ExchangeInv'
  <2>1. CASE UNCHANGED exchange
    BY <1>1, <2>1 DEF exchange, LongInv, ExchangeInv
  <2>2. CASE Accept(i)
    <3>1. i.side = "sell" => i.reduceOnly
      BY <1>3, <1>4
    <3> QED
      BY <1>1, <1>3, <2>2, <3>1, AcceptStep DEF LongInv
  <2> QED
    BY <2>1, <2>2 DEF Send
<1>6. RunInv'
  <2>1. CASE Over(r)
    BY <2>1, OverStep DEF LongInv
  <2>2. CASE /\ Len(p) > 1
             /\ pending' = [pending EXCEPT ![r] = Tail(@)]
             /\ UNCHANGED <<pc, snapshot>>
    <3>0. pending' = [pending EXCEPT ![r] = Tail(p)]
      BY <2>2 DEF LongInv, RunInv
    <3>1. Tail(p) # <<>>
      <4>1. Len(p) \in Nat /\ Len(p) > 1
        BY <1>2, <2>2
      <4>2. Len(Tail(p)) > 0
        BY <1>3, <4>1
      <4> QED
        BY <4>2
    <3>2. \A n \in 1..Len(Tail(p)) :
            Tail(p)[n].side = "sell" => Tail(p)[n].reduceOnly
      BY <1>3, <1>4
    <3>3. pc' = [pc EXCEPT ![r] = "send"]
      BY <1>1, <2>2 DEF LongInv, RunInv
    <3>4. /\ fetched' \in [Runs -> BOOLEAN]
          /\ UNCHANGED <<heldQty, seesProtection, seesPlain>>
      BY <2>2 DEF snapshot, LongInv, RunInv
    <3> HIDE DEF p
    <3> QED
      BY <1>3, <3>0, <3>1, <3>2, <3>3, <3>4, StartSending DEF LongInv
  <2> QED
    BY <2>1, <2>2 DEF Send
<1> QED
  BY <1>5, <1>6 DEF LongInv

LEMMA CancelStep ==
    ASSUME LongInv, NEW r \in Runs, CancelStandard(r) \/ CancelAlgo(r)
    PROVE  LongInv'
<1>1. Empty \in Books
  BY DEF Empty, Books
<1>2. CASE CancelStandard(r)
  <2>1. RunInv'
    <3>1. "cancelAlgo" \in PCs \ {"send"}
      BY DEF PCs
    <3> QED
      BY <1>2, <3>1, MoveOn DEF CancelStandard, LongInv, RunInv, snapshot
  <2>2. ExchangeInv'
    BY <1>1, <1>2 DEF CancelStandard, Strip, LongInv, ExchangeInv
  <2> QED
    BY <2>1, <2>2 DEF LongInv
<1>3. CASE CancelAlgo(r)
  <2>1. RunInv'
    BY <1>3, OverStep DEF CancelAlgo, LongInv
  <2>2. ExchangeInv'
    BY <1>1, <1>3 DEF CancelAlgo, Strip, LongInv, ExchangeInv
  <2> QED
    BY <2>1, <2>2 DEF LongInv
<1> QED
  BY <1>2, <1>3

LEMMA ReadStep ==
    ASSUME LongInv, NEW r \in Runs, ReadPosition(r) \/ ReadOrders(r)
    PROVE  LongInv'
<1>1. ExchangeInv'
  BY DEF ReadPosition, ReadOrders, exchange, LongInv, ExchangeInv
<1>2. "orders" \in PCs \ {"send"} /\ "plan" \in PCs \ {"send"}
  BY DEF PCs
<1>3. CASE ReadPosition(r)
  <2>1. /\ heldQty' \in [Runs -> Nat] /\ fetched' \in [Runs -> BOOLEAN]
        /\ UNCHANGED <<seesProtection, seesPlain, pending>>
    BY <1>3 DEF ReadPosition, LongInv, ExchangeInv, RunInv
  <2> QED
    BY <1>1, <1>2, <1>3, <2>1, MoveOn DEF ReadPosition, LongInv, RunInv
<1>4. CASE ReadOrders(r)
  <2>1. /\ seesProtection' \in [Runs -> BOOLEAN] /\ seesPlain' \in [Runs -> BOOLEAN]
        /\ UNCHANGED <<fetched, heldQty, pending>>
    BY <1>4 DEF ReadOrders, LongInv, RunInv
  <2> QED
    BY <1>1, <1>2, <1>4, <2>1, MoveOn DEF ReadOrders, LongInv, RunInv
<1> QED
  BY <1>3, <1>4

LEMMA StopStep ==
    ASSUME LongInv, NEW r \in Runs, Stop(r)
    PROVE  LongInv'
  BY OverStep DEF Stop, exchange, LongInv, ExchangeInv

LEMMA LongInvInit == Init => LongInv
<1> SUFFICES ASSUME Init PROVE LongInv
  OBVIOUS
<1>1. <<>> \in Seq(Intents) /\ Len(<<>>) = 0
  OBVIOUS
<1>2. ExchangeInv
  BY DEF Init, ExchangeInv, Empty, Books
<1>3. RunInv
  BY <1>1 DEF Init, RunInv, PCs
<1> QED
  BY <1>2, <1>3 DEF LongInv

LEMMA LongInvStep == LongInv /\ [Next]_vars => LongInv'
<1> SUFFICES ASSUME LongInv, [Next]_vars PROVE LongInv'
  OBVIOUS
<1>1. CASE UNCHANGED vars
  BY <1>1 DEF vars, exchange, snapshot, LongInv, ExchangeInv, RunInv
<1>2. CASE Exchange
  BY <1>2, ExchangeStep
<1>3. ASSUME NEW r \in Runs, Run(r)
      PROVE  LongInv'
  BY <1>3, ReadStep, CheckPlanStep, PlanUnsyncedStep, SendStep, StopStep, PlaceProtectionStep,
     CancelStep DEF Run
<1> QED
  BY <1>1, <1>2, <1>3 DEF Next

\* Runs that did not look are counted up to their bound.
BlindInv == blind \in 0..MaxBlind

LEMMA BlindStep ==
    ASSUME NEW r, Run(r)
    PROVE  blind' = blind \/ Blindly
  BY DEF Run, ReadPosition, ReadOrders, CheckPlan, PlanUnsynced, Send, Stop,
     PlaceProtection, CancelStandard, CancelAlgo

LEMMA BlindInvStep == BlindInv /\ [Next]_vars => BlindInv'
<1> SUFFICES ASSUME BlindInv, [Next]_vars PROVE BlindInv'
  OBVIOUS
<1>1. blind' = blind \/ Blindly
  BY BlindStep DEF Next, Exchange, vars
<1> QED
  BY <1>1, BoundsAssumption DEF Blindly, BlindInv

LEMMA LongInvImplies == LongInv /\ BlindInv => TypeOK /\ LongOnly
  BY DEF LongInv, ExchangeInv, RunInv, BlindInv, TypeOK, LongOnly

\* Every state of the execution scripts is well typed and every intent about
\* to be sent has a positive quantity.
THEOREM TypeCorrect == Spec => []TypeOK
<1>1. Init => BlindInv
  BY BoundsAssumption DEF Init, BlindInv
<1> QED
  BY <1>1, LongInvInit, LongInvStep, BlindInvStep, LongInvImplies, PTL DEF Spec

\* However runs, fills, cancels and kills interleave, the position never turns
\* short.
THEOREM NeverShort == Spec => []LongOnly
<1>1. LongInv => LongOnly
  BY DEF LongInv, ExchangeInv, LongOnly
<1> QED
  BY <1>1, LongInvInit, LongInvStep, PTL DEF Spec

-----------------------------------------------------------------------------
(* How far the position can go, however runs overlap.  A run has a claim on *)
(* one more order from the moment it has read a position below the largest  *)
(* target until it has sent its purchase or given up.  Each claim and each  *)
(* resting purchase stands for at most one capped order; the latest run to  *)
(* read, or what became of its purchase, for no more than was left up to    *)
(* the target then.                                                        *)

Reading(r) == pc[r] = "orders" /\ fetched[r]
Looking(r) == pc[r] = "plan" /\ fetched[r] /\ ~seesPlain[r]
Ready(r) == pc[r] = "send" /\ pending[r][1].side = "buy"

Sending == {r \in Runs : Looking(r) \/ Ready(r)}
Claims == {r \in Runs : Ready(r) \/ ((Reading(r) \/ Looking(r)) /\ heldQty[r] < MaxTarget)}

\* The claims on a position without protection: their runs found none to
\* protect, or protective orders.
NakedClaims ==
    {r \in Runs : \/ Ready(r)
                  \/ Reading(r) /\ heldQty[r] = 0
                  \/ Looking(r) /\ (heldQty[r] = 0 \/ seesProtection[r])}

\* The resting purchases one by one.
Purchases == {o \in Sizes \X Nat : 1 <= o[2] /\ o[2] <= buys[o[1]]}

\* A purchase is the first order of its run, valued at the reference price;
\* one that was planned on a snapshot stays within the target.
PurchaseInv ==
    \A r \in Runs : \A n \in 1..Len(pending[r]) : pending[r][n].side = "buy" =>
        /\ n = 1 /\ pc[r] = "send" /\ pending[r][n].ref = 100
        /\ fetched[r] => heldQty[r] + pending[r][n].qty <= MaxTarget

\* A run that saw no purchase resting was right then: those that rest now came
\* from such runs, one from each, and from runs that did not look.
RestingInv ==
    /\ IsFiniteSet(Purchases)
    /\ orderType = "market" => buys = Empty
    /\ \A q \in Resting(buys) : q <= Cap
    /\ orderType = "limit" =>
         Cardinality(Purchases) + Cardinality(Sending) <= Cardinality(Runs) + blind

\* Stale, in orders of the cap, and how many of them are not yet spoken for.
StaleOrders ==
    blind + IF orderType = "market" THEN Cardinality(Runs) - 1 ELSE 2 * Cardinality(Runs) - 1
Left(claims) == StaleOrders + 1 - Cardinality(Purchases) - Cardinality(claims)

\* What one claim or resting purchase may be worth: not the cap, but what was
\* left up to the target, or its quantity.
Worth ==
    {Cap} \cup {MaxTarget - heldQty[r] : r \in {s \in Claims : fetched[s]}} \cup Resting(buys)

ExposureInv == \E w \in Worth : position + w <= MaxTarget + Cap * Left(Claims)

Naked == position > 0 /\ ~Protected /\ ~stripped
NakedInv == Naked => position <= Cap * Left(NakedClaims)

\* Multiples of the cap.
LEMMA TimesCap ==
    ASSUME NEW a \in Int, NEW b \in Int
    PROVE  /\ Cap * a \in Int
           /\ Cap * (a + 1) = Cap * a + Cap
           /\ a <= b => Cap * a <= Cap * b
           /\ a + 1 <= b => Cap * a + Cap <= Cap * b
           /\ Cap \in Nat /\ Cap > 0
<1>1. Cap \in Nat /\ Cap > 0
  BY CapAssumption
<1>2. ASSUME NEW c \in Int, NEW d \in Int, c <= d
      PROVE  Cap * c <= Cap * d
  <2>1. d - c \in Nat
    BY <1>2
  <2>2. Cap * (d - c) >= 0
    BY <1>1, <2>1
  <2>3. Cap * d = Cap * c + Cap * (d - c)
    BY <1>1, <1>2
  <2> QED
    BY <1>1, <1>2, <2>2, <2>3
<1>3. Cap * (a + 1) = Cap * a + Cap
  BY <1>1
<1> QED
  BY <1>1, <1>2, <1>3

LEMMA SomeRuns == IsFiniteSet(Runs) /\ Cardinality(Runs) \in Nat /\ Cardinality(Runs) > 0
<1>1. Cardinality(Runs) # 0
  BY RunsAssumption, FS_EmptySet
<1> QED
  BY <1>1, RunsAssumption, FS_CardinalityType

\* How the number of some runs changes when one of them joins or leaves.
LEMMA OneMoves ==
    ASSUME NEW X \in SUBSET Runs, NEW Y \in SUBSET Runs, NEW r \in Runs,
           X \ {r} = Y \ {r}
    PROVE  /\ Cardinality(X) \in Nat /\ Cardinality(Y) \in Nat
           /\ Cardinality(X) <= Cardinality(Runs) /\ Cardinality(Y) <= Cardinality(Runs)
           /\ r \notin Y => Cardinality(Y) <= Cardinality(Runs) - 1
           /\ (r \in X <=> r \in Y) => Cardinality(Y) = Cardinality(X)
           /\ r \in Y /\ r \notin X => Cardinality(Y) = Cardinality(X) + 1
           /\ r \in X /\ r \notin Y => Cardinality(X) = Cardinality(Y) + 1
<1> DEFINE Z == X \ {r}
<1>1. /\ IsFiniteSet(X) /\ IsFiniteSet(Y)
      /\ Cardinality(X) <= Cardinality(Runs) /\ Cardinality(Y) <= Cardinality(Runs)
  BY SomeRuns, FS_Subset
<1>2. /\ IsFiniteSet(Z)
      /\ Cardinality(Z) = IF r \in X THEN Cardinality(X) - 1 ELSE Cardinality(X)
  BY <1>1, FS_RemoveElement
<1>3. Cardinality(Z) = IF r \in Y THEN Cardinality(Y) - 1 ELSE Cardinality(Y)
  BY <1>1, FS_RemoveElement
<1>4. Cardinality(X) \in Nat /\ Cardinality(Y) \in Nat /\ Cardinality(Z) \in Nat
  BY <1>1, <1>2, FS_CardinalityType
<1>5. r \notin Y => Cardinality(Y) <= Cardinality(Runs) - 1
  <2>1. SUFFICES ASSUME r \notin Y PROVE Cardinality(Y) <= Cardinality(Runs) - 1
    OBVIOUS
  <2>2. Y \in SUBSET (Runs \ {r})
    BY <2>1
  <2>3. IsFiniteSet(Runs \ {r}) /\ Cardinality(Runs \ {r}) = Cardinality(Runs) - 1
    BY SomeRuns, FS_RemoveElement
  <2> QED
    BY <2>2, <2>3, FS_Subset
<1> QED
  BY <1>1, <1>2, <1>3, <1>4, <1>5

\* The resting purchases after one was placed, was filled, or all are gone.
LEMMA OnePurchase ==
    ASSUME buys \in Books, IsFiniteSet(Purchases)
    PROVE  /\ Cardinality(Purchases) \in Nat
           /\ buys' = buys => IsFiniteSet(Purchases') /\ Cardinality(Purchases') = Cardinality(Purchases)
           /\ \A q \in Sizes : buys' = [buys EXCEPT ![q] = @ + 1] =>
                IsFiniteSet(Purchases') /\ Cardinality(Purchases') = Cardinality(Purchases) + 1
           /\ \A q \in Resting(buys) : buys' = [buys EXCEPT ![q] = @ - 1] =>
                IsFiniteSet(Purchases') /\ Cardinality(Purchases') = Cardinality(Purchases) - 1
           /\ buys' = Empty => IsFiniteSet(Purchases') /\ Cardinality(Purchases') = 0
           /\ Resting(buys) # {} => Cardinality(Purchases) > 0
           /\ Resting(buys) = {} => Cardinality(Purchases) = 0
<1>1. Cardinality(Purchases) \in Nat
  BY FS_CardinalityType
<1>2. ASSUME buys' = buys
      PROVE  Purchases' = Purchases
  BY <1>2 DEF Purchases
<1>3. ASSUME NEW q \in Sizes, buys' = [buys EXCEPT ![q] = @ + 1]
      PROVE  IsFiniteSet(Purchases') /\ Cardinality(Purchases') = Cardinality(Purchases) + 1
  <2>1. /\ buys[q] \in Nat /\ buys'[q] = buys[q] + 1
        /\ \A p \in Sizes \ {q} : buys'[p] = buys[p]
        /\ \A p \in Sizes : buys[p] \in Nat
    BY <1>3 DEF Books
  <2> DEFINE new == <<q, buys[q] + 1>>
  <2>2. new \notin Purchases
    BY <2>1 DEF Purchases
  <2>3. Purchases' = Purchases \cup {new}
    <3>1. ASSUME NEW p \in Sizes, NEW k \in Nat
          PROVE  (1 <= k /\ k <= buys'[p]) <=> (1 <= k /\ k <= buys[p]) \/ <<p, k>> = new
      BY <2>1
    <3> QED
      BY <2>1, <3>1 DEF Purchases
  <2> HIDE DEF new
  <2> QED
    BY <2>2, <2>3, FS_AddElement
<1>4. ASSUME NEW q \in Resting(buys), buys' = [buys EXCEPT ![q] = @ - 1]
      PROVE  IsFiniteSet(Purchases') /\ Cardinality(Purchases') = Cardinality(Purchases) - 1
  <2>0. q \in Sizes /\ buys[q] > 0
    BY DEF Resting
  <2>1. /\ buys[q] \in Nat /\ buys'[q] = buys[q] - 1
        /\ \A p \in Sizes \ {q} : buys'[p] = buys[p]
        /\ \A p \in Sizes : buys[p] \in Nat
    BY <1>4, <2>0 DEF Books
  <2> DEFINE old == <<q, buys[q]>>
  <2>2. old \in Purchases
    BY <2>0, <2>1 DEF Purchases
  <2>3. Purchases' = Purchases \ {old}
    <3>1. ASSUME NEW p \in Sizes, NEW k \in Nat
          PROVE  (1 <= k /\ k <= buys'[p]) <=> (1 <= k /\ k <= buys[p]) /\ <<p, k>> # old
      BY <2>1
    <3> QED
      BY <2>1, <3>1 DEF Purchases
  <2> HIDE DEF old
  <2> QED
    BY <2>2, <2>3, FS_RemoveElement
<1>5. ASSUME buys' = Empty
      PROVE  IsFiniteSet(Purchases') /\ Cardinality(Purchases') = 0
  <2>1. Purchases' = {}
    BY <1>5 DEF Purchases, Empty
  <2> QED
    BY <2>1, FS_EmptySet
<1>6. ASSUME Resting(buys) # {}
      PROVE  Cardinality(Purchases) > 0
  <2>1. PICK q \in Sizes : buys[q] > 0
    BY <1>6 DEF Resting
  <2>2. <<q, 1>> \in Purchases
    BY <2>1 DEF Purchases, Books
  <2> QED
    BY <1>1, <2>2, FS_EmptySet
<1>7. ASSUME Resting(buys) = {}
      PROVE  Cardinality(Purchases) = 0
  <2>1. \A q \in Sizes : ~(buys[q] > 0)
    BY <1>7 DEF Resting
  <2>2. Purchases = {}
    BY <2>1 DEF Purchases, Books
  <2> QED
    BY <2>2, FS_EmptySet
<1> QED
  BY <1>1, <1>2, <1>3, <1>4, <1>5, <1>6, <1>7

-----------------------------------------------------------------------------
(* Steps of runs.                                                          *)

Sound == LongInv /\ BlindInv

\* A step of a run leaves the other runs as they are.
OthersKept(r) ==
    \A s \in Runs \ {r} :
        /\ pc'[s] = pc[s] /\ fetched'[s] = fetched[s] /\ heldQty'[s] = heldQty[s]
        /\ seesProtection'[s] = seesProtection[s] /\ seesPlain'[s] = seesPlain[s]
        /\ pending'[s] = pending[s]

LEMMA RunAlone ==
    ASSUME LongInv, NEW r \in Runs, Run(r)
    PROVE  OthersKept(r) /\ orderType' = orderType
<1>1. orderType' = orderType
  BY DEF Run, ReadPosition, ReadOrders, CheckPlan, PlanUnsynced, Send, Stop,
     PlaceProtection, CancelStandard, CancelAlgo
<1>2. ASSUME NEW s \in Runs \ {r}
      PROVE  /\ pc'[s] = pc[s] /\ fetched'[s] = fetched[s] /\ heldQty'[s] = heldQty[s]
             /\ seesProtection'[s] = seesProtection[s] /\ seesPlain'[s] = seesPlain[s]
             /\ pending'[s] = pending[s]
  <2>1. RunInv
    BY DEF LongInv
  <2>2. CASE Over(r)
    BY <2>1, <2>2 DEF Over, RunInv
  <2>3. CASE ReadPosition(r)
    BY <2>1, <2>3 DEF ReadPosition, RunInv
  <2>4. CASE ReadOrders(r)
    BY <2>1, <2>4 DEF ReadOrders, RunInv
  <2>5. CASE CheckPlan(r) /\ ~Over(r)
    <3>1. PICK t \in Targets, c \in BOOLEAN, p \in BOOLEAN :
             /\ Execute(r, Plan(Larger(heldQty[r], 0), t, c, p))
             /\ UNCHANGED snapshot
      BY <2>5 DEF CheckPlan
    <3> DEFINE i == Plan(Larger(heldQty[r], 0), t, c, p)
    <3>2. pending' = [pending EXCEPT ![r] = i] /\ pc' = [pc EXCEPT ![r] = "send"]
      BY <3>1 DEF Execute
    <3> HIDE DEF i
    <3> QED
      BY <2>1, <3>1, <3>2 DEF snapshot, RunInv
  <2>6. CASE PlanUnsynced(r)
    <3>1. PICK h, i \in Seq(Intents) :
             /\ pending' = [pending EXCEPT ![r] = i]
             /\ pc' = [pc EXCEPT ![r] = "send"]
      BY <2>6, UnsyncedPlan
    <3> QED
      BY <2>1, <2>6, <3>1 DEF PlanUnsynced, RunInv
  <2>7. CASE Send(r) /\ ~Over(r)
    <3>1. pending' = [pending EXCEPT ![r] = Tail(@)] /\ UNCHANGED <<pc, snapshot>>
      BY <2>7 DEF Send
    <3> QED
      BY <2>1, <3>1 DEF snapshot, RunInv
  <2>8. CASE PlaceProtection(r)
    <3>1. PICK q \in Sizes : pending' =
             [pending EXCEPT ![r] = <<Protective(q, 98), Protective(q, 104)>>]
      BY <2>8 DEF PlaceProtection
    <3> QED
      BY <2>1, <2>8, <3>1 DEF PlaceProtection, snapshot, RunInv
  <2>9. CASE CancelStandard(r)
    BY <2>1, <2>9 DEF CancelStandard, snapshot, RunInv
  <2> QED
    BY <2>2, <2>3, <2>4, <2>5, <2>6, <2>7, <2>8, <2>9 DEF Run, Stop, CancelAlgo
<1> QED
  BY <1>1, <1>2 DEF OthersKept

LEMMA OthersClaim ==
    ASSUME NEW r \in Runs, OthersKept(r)
    PROVE  /\ Claims \ {r} = Claims' \ {r}
           /\ NakedClaims \ {r} = NakedClaims' \ {r}
           /\ Sending \ {r} = Sending' \ {r}
<1>1. ASSUME NEW s \in Runs \ {r}
      PROVE  /\ s \in Claims <=> s \in Claims'
             /\ s \in NakedClaims <=> s \in NakedClaims'
             /\ s \in Sending <=> s \in Sending'
  BY DEF OthersKept, Claims, NakedClaims, Sending, Reading, Looking, Ready
<1>2. /\ Claims \subseteq Runs /\ Claims' \subseteq Runs
      /\ NakedClaims \subseteq Runs /\ NakedClaims' \subseteq Runs
      /\ Sending \subseteq Runs /\ Sending' \subseteq Runs
  BY DEF Claims, NakedClaims, Sending
<1> QED
  BY <1>1, <1>2

\* What a claim is worth is a positive quantity.
LEMMA WorthPositive ==
    ASSUME LongInv, PurchaseInv
    PROVE  Worth \subseteq Positive
<1>1. Cap \in Positive
  BY CapAssumption DEF Positive
<1>2. Resting(buys) \subseteq Positive
  BY SizesPositive DEF Resting, Positive
<1>3. ASSUME NEW r \in Claims, fetched[r]
      PROVE  MaxTarget - heldQty[r] \in Positive
  <2>1. r \in Runs /\ heldQty[r] \in Nat /\ MaxTarget \in Nat
    BY MaxTargetAssumption, TargetsAssumption DEF Claims, LongInv, RunInv
  <2>2. heldQty[r] < MaxTarget
    <3>1. CASE Ready(r)
      <4>1. pending[r] \in Seq(Intents) /\ pending[r] # <<>>
        BY <2>1, <3>1 DEF Ready, LongInv, RunInv
      <4>2. 1 \in 1..Len(pending[r]) /\ pending[r][1] \in Intents
        BY <4>1
      <4>3. heldQty[r] + pending[r][1].qty <= MaxTarget
        BY <1>3, <2>1, <3>1, <4>2 DEF Ready, PurchaseInv
      <4>4. pending[r][1].qty \in Nat /\ pending[r][1].qty > 0
        BY <4>2, SizesPositive DEF Intents
      <4> QED
        BY <2>1, <4>3, <4>4
    <3> QED
      BY <3>1 DEF Claims
  <2> QED
    BY <2>1, <2>2 DEF Positive
<1> QED
  BY <1>1, <1>2, <1>3 DEF Worth

\* The numbers the invariants compare.
LEMMA Numbers ==
    ASSUME Sound, RestingInv
    PROVE  /\ blind \in Nat /\ Cardinality(Purchases) \in Nat
           /\ StaleOrders \in Int
           /\ \A X \in SUBSET Runs : Left(X) \in Int
           /\ Claims \in SUBSET Runs /\ NakedClaims \in SUBSET Runs /\ Sending \in SUBSET Runs
           /\ position \in Nat /\ MaxTarget \in Nat
<1>1. blind \in Nat /\ Cardinality(Purchases) \in Nat
  BY FS_CardinalityType, BoundsAssumption DEF Sound, BlindInv, RestingInv
<1>2. StaleOrders \in Int
  BY <1>1, SomeRuns DEF StaleOrders
<1>3. ASSUME NEW X \in SUBSET Runs
      PROVE  Left(X) \in Int
  <2>1. Cardinality(X) \in Nat
    BY SomeRuns, FS_Subset, FS_CardinalityType
  <2> QED
    BY <1>1, <1>2, <2>1 DEF Left
<1>4. position \in Nat /\ MaxTarget \in Nat
  BY MaxTargetAssumption, TargetsAssumption DEF Sound, LongInv, ExchangeInv
<1> QED
  BY <1>1, <1>2, <1>3, <1>4 DEF Claims, NakedClaims, Sending

\* What is left, from one state to the next.
LEMMA LeftMoves ==
    ASSUME Sound, RestingInv, orderType' = orderType, blind' \in Nat,
           Cardinality(Purchases') \in Nat
    PROVE  \A X, Y \in SUBSET Runs :
             /\ Cardinality(X) \in Nat /\ Cardinality(Y) \in Nat
             /\ StaleOrders' + 1 - Cardinality(Purchases') - Cardinality(Y) \in Int
             /\ StaleOrders' + 1 - Cardinality(Purchases') - Cardinality(Y) =
                  Left(X) + (blind' - blind) - (Cardinality(Purchases') - Cardinality(Purchases))
                          - (Cardinality(Y) - Cardinality(X))
<1> SUFFICES ASSUME NEW X \in SUBSET Runs, NEW Y \in SUBSET Runs
             PROVE  /\ Cardinality(X) \in Nat /\ Cardinality(Y) \in Nat
                    /\ StaleOrders' + 1 - Cardinality(Purchases') - Cardinality(Y) \in Int
                    /\ StaleOrders' + 1 - Cardinality(Purchases') - Cardinality(Y) =
                         Left(X) + (blind' - blind) - (Cardinality(Purchases') - Cardinality(Purchases))
                                 - (Cardinality(Y) - Cardinality(X))
  OBVIOUS
<1>1. Cardinality(X) \in Nat /\ Cardinality(Y) \in Nat
  BY SomeRuns, FS_Subset, FS_CardinalityType
<1>2. StaleOrders \in Int /\ blind \in Nat /\ Cardinality(Purchases) \in Nat
  BY Numbers
<1>3. StaleOrders' \in Int /\ StaleOrders' = StaleOrders + (blind' - blind)
  BY <1>2, SomeRuns DEF StaleOrders
<1> QED
  BY <1>1, <1>2, <1>3 DEF Left

\* A step of a run that places and fills no purchase keeps the bound if it adds
\* no claim, or is the step of a run that did not look.
LEMMA ExposureQuiet ==
    ASSUME Sound, Sound', PurchaseInv, RestingInv, ExposureInv,
           NEW r \in Runs, OthersKept(r), UNCHANGED <<orderType, buys>>,
           position' <= position,
           \/ /\ blind' = blind
              /\ r \in Claims' =>
                   r \in Claims /\ heldQty'[r] = heldQty[r] /\ fetched'[r] = fetched[r]
           \/ blind' = blind + 1 /\ r \notin Claims
    PROVE  ExposureInv'
<1>1. PICK w \in Worth : position + w <= MaxTarget + Cap * Left(Claims)
  BY DEF ExposureInv
<1>2. w \in Nat /\ w > 0
  BY WorthPositive DEF Positive, Sound
<1>3. /\ blind \in Nat /\ Cardinality(Purchases) \in Nat
      /\ Left(Claims) \in Int /\ position \in Nat /\ MaxTarget \in Nat
      /\ Claims \in SUBSET Runs
  BY Numbers
<1>4. blind' \in Nat /\ position' \in Nat
  BY <1>3 DEF Sound, LongInv, ExchangeInv
<1>5. Cardinality(Purchases') = Cardinality(Purchases)
  BY DEF Purchases
<1>6. Claims' \in SUBSET Runs /\ Claims \ {r} = Claims' \ {r}
  BY OthersClaim DEF Claims
<1>7. Left(Claims)' \in Int /\ Left(Claims)' =
        Left(Claims) + (blind' - blind) - (Cardinality(Claims') - Cardinality(Claims))
  <2>1. Left(Claims)' = StaleOrders' + 1 - Cardinality(Purchases') - Cardinality(Claims')
    BY DEF Left
  <2>2. /\ Cardinality(Claims) \in Nat /\ Cardinality(Claims') \in Nat
        /\ StaleOrders' + 1 - Cardinality(Purchases') - Cardinality(Claims') \in Int
        /\ StaleOrders' + 1 - Cardinality(Purchases') - Cardinality(Claims') =
                  Left(Claims) + (blind' - blind) - (Cardinality(Purchases') - Cardinality(Purchases))
                          - (Cardinality(Claims') - Cardinality(Claims))
    BY <1>3, <1>4, <1>5, <1>6, LeftMoves
  <2> QED
    BY <1>3, <1>4, <1>5, <2>1, <2>2
<1>8. /\ Cardinality(Claims) \in Nat /\ Cardinality(Claims') \in Nat
      /\ (r \in Claims <=> r \in Claims') => Cardinality(Claims') = Cardinality(Claims)
      /\ r \in Claims' /\ r \notin Claims => Cardinality(Claims') = Cardinality(Claims) + 1
      /\ r \in Claims /\ r \notin Claims' => Cardinality(Claims) = Cardinality(Claims') + 1
  BY <1>3, <1>6, OneMoves
<1>9. CASE r \in Claims /\ r \notin Claims'
  <2>1. Left(Claims)' = Left(Claims) + 1
    BY <1>3, <1>4, <1>7, <1>8, <1>9
  <2>2. position' + Cap <= MaxTarget + Cap * Left(Claims)'
    <3>1. /\ Cap * Left(Claims) \in Int /\ Cap * Left(Claims)' \in Int
          /\ Cap * Left(Claims) + Cap <= Cap * Left(Claims)' /\ Cap \in Nat
      BY <1>3, <1>7, <2>1, TimesCap
    <3> QED
      BY <1>1, <1>2, <1>3, <1>4, <3>1
  <2>3. Cap \in Worth'
    BY DEF Worth
  <2> QED
    BY <2>2, <2>3 DEF ExposureInv
<1>10. CASE r \in Claims => r \in Claims'
  <2>1. Left(Claims)' >= Left(Claims)
    BY <1>3, <1>4, <1>7, <1>8, <1>10
  <2>2. w \in Worth'
    <3>1. CASE w = Cap \/ w \in Resting(buys)
      BY <3>1 DEF Worth, Resting
    <3>2. ASSUME NEW s \in Claims, fetched[s], w = MaxTarget - heldQty[s]
          PROVE  w \in Worth'
      <4>1. s \in Claims' /\ fetched'[s] = fetched[s] /\ heldQty'[s] = heldQty[s]
        <5>1. CASE s = r
          BY <1>10, <5>1, <3>2
        <5>2. CASE s # r
          BY <1>3, <1>6, <5>2 DEF OthersKept
        <5> QED
          BY <5>1, <5>2
      <4>2. w = MaxTarget - heldQty'[s] /\ fetched'[s]
        BY <3>2, <4>1
      <4> QED
        BY <4>1, <4>2 DEF Worth
    <3> QED
      BY <3>1, <3>2 DEF Worth
  <2>3. position' + w <= MaxTarget + Cap * Left(Claims)'
    <3>1. /\ Cap * Left(Claims) \in Int /\ Cap * Left(Claims)' \in Int
          /\ Cap * Left(Claims) <= Cap * Left(Claims)'
      BY <1>3, <1>7, <2>1, TimesCap
    <3> QED
      BY <1>1, <1>2, <1>3, <1>4, <3>1
  <2> QED
    BY <2>2, <2>3 DEF ExposureInv
<1> QED
  BY <1>9, <1>10

LEMMA NakedQuiet ==
    ASSUME Sound, Sound', RestingInv, NakedInv,
           NEW r \in Runs, OthersKept(r), UNCHANGED <<orderType, buys>>,
           position' <= position,
           Naked' => /\ Naked
                     /\ \/ blind' = blind /\ (r \in NakedClaims' => r \in NakedClaims)
                        \/ blind' = blind + 1
    PROVE  NakedInv'
<1> SUFFICES ASSUME Naked'
             PROVE  position' <= Cap * Left(NakedClaims)'
  BY DEF NakedInv
<1>1. Naked /\ position <= Cap * Left(NakedClaims)
  BY DEF NakedInv
<1>3. /\ blind \in Nat /\ Cardinality(Purchases) \in Nat
      /\ Left(NakedClaims) \in Int /\ position \in Nat
      /\ NakedClaims \in SUBSET Runs
  BY Numbers
<1>4. blind' \in Nat /\ position' \in Nat
  BY <1>3 DEF Sound, LongInv, ExchangeInv
<1>5. Cardinality(Purchases') = Cardinality(Purchases)
  BY DEF Purchases
<1>6. NakedClaims' \in SUBSET Runs /\ NakedClaims \ {r} = NakedClaims' \ {r}
  BY OthersClaim DEF NakedClaims
<1>7. Left(NakedClaims)' \in Int /\ Left(NakedClaims)' =
        Left(NakedClaims) + (blind' - blind) - (Cardinality(NakedClaims') - Cardinality(NakedClaims))
  <2>1. Left(NakedClaims)' = StaleOrders' + 1 - Cardinality(Purchases') - Cardinality(NakedClaims')
    BY DEF Left
  <2>2. /\ Cardinality(NakedClaims) \in Nat /\ Cardinality(NakedClaims') \in Nat
        /\ StaleOrders' + 1 - Cardinality(Purchases') - Cardinality(NakedClaims') \in Int
        /\ StaleOrders' + 1 - Cardinality(Purchases') - Cardinality(NakedClaims') =
             Left(NakedClaims) + (blind' - blind) - (Cardinality(Purchases') - Cardinality(Purchases))
                          - (Cardinality(NakedClaims') - Cardinality(NakedClaims))
    BY <1>3, <1>4, <1>5, <1>6, LeftMoves
  <2> QED
    BY <1>3, <1>4, <1>5, <2>1, <2>2
<1>8. /\ Cardinality(NakedClaims) \in Nat /\ Cardinality(NakedClaims') \in Nat
      /\ (r \in NakedClaims <=> r \in NakedClaims') =>
           Cardinality(NakedClaims') = Cardinality(NakedClaims)
      /\ r \in NakedClaims' /\ r \notin NakedClaims =>
           Cardinality(NakedClaims') = Cardinality(NakedClaims) + 1
      /\ r \in NakedClaims /\ r \notin NakedClaims' =>
           Cardinality(NakedClaims) = Cardinality(NakedClaims') + 1
  BY <1>3, <1>6, OneMoves
<1>9. Left(NakedClaims)' >= Left(NakedClaims)
  BY <1>3, <1>4, <1>7, <1>8
<1>10. /\ Cap * Left(NakedClaims) \in Int /\ Cap * Left(NakedClaims)' \in Int
       /\ Cap * Left(NakedClaims) <= Cap * Left(NakedClaims)'
  BY <1>3, <1>7, <1>9, TimesCap
<1> QED
  BY <1>1, <1>3, <1>4, <1>10

LEMMA RestingQuiet ==
    ASSUME Sound, Sound', RestingInv,
           NEW r \in Runs, OthersKept(r), UNCHANGED <<orderType, buys>>,
           \/ /\ blind' = blind
              /\ r \in Sending' => r \in Sending \/ Resting(buys) = {}
           \/ blind' = blind + 1
    PROVE  RestingInv'
<1>1. IsFiniteSet(Purchases') /\ Cardinality(Purchases') = Cardinality(Purchases)
  BY DEF Purchases, RestingInv
<1>2. /\ orderType' = "market" => buys' = Empty'
      /\ \A q \in Resting(buys)' : q <= Cap
  BY DEF RestingInv, Empty, Resting
<1>3. SUFFICES ASSUME orderType = "limit"
               PROVE  Cardinality(Purchases') + Cardinality(Sending') <= Cardinality(Runs) + blind'
  BY <1>1, <1>2 DEF RestingInv
<1>4. /\ blind \in Nat /\ Cardinality(Purchases) \in Nat /\ Sending \in SUBSET Runs
  BY Numbers
<1>5. Sending' \in SUBSET Runs /\ Sending \ {r} = Sending' \ {r}
  BY OthersClaim DEF Sending
<1>6. /\ Cardinality(Sending) \in Nat /\ Cardinality(Sending') \in Nat
      /\ Cardinality(Sending') <= Cardinality(Runs)
      /\ (r \in Sending <=> r \in Sending') => Cardinality(Sending') = Cardinality(Sending)
      /\ r \in Sending' /\ r \notin Sending => Cardinality(Sending') = Cardinality(Sending) + 1
      /\ r \in Sending /\ r \notin Sending' => Cardinality(Sending) = Cardinality(Sending') + 1
  BY <1>4, <1>5, OneMoves
<1>7. Cardinality(Purchases) + Cardinality(Sending) <= Cardinality(Runs) + blind
  BY <1>3 DEF RestingInv
<1>8. CASE Resting(buys) = {} /\ blind' = blind
  <2>1. Cardinality(Purchases) = 0
    BY <1>8, OnePurchase DEF Sound, LongInv, ExchangeInv, RestingInv
  <2> QED
    BY <1>1, <1>4, <1>6, <1>8, <2>1, SomeRuns
<1>9. CASE blind' = blind /\ (r \in Sending' => r \in Sending)
  BY <1>1, <1>4, <1>6, <1>7, <1>9, SomeRuns
<1>10. CASE blind' = blind + 1
  BY <1>1, <1>4, <1>6, <1>7, <1>10, SomeRuns
<1> QED
  BY <1>8, <1>9, <1>10

LEMMA PurchaseKept ==
    ASSUME PurchaseInv, NEW r \in Runs, OthersKept(r),
           \A n \in 1..Len(pending'[r]) : pending'[r][n].side = "buy" =>
             /\ n = 1 /\ pc'[r] = "send" /\ pending'[r][n].ref = 100
             /\ fetched'[r] => heldQty'[r] + pending'[r][n].qty <= MaxTarget
    PROVE  PurchaseInv'
<1>1. ASSUME NEW s \in Runs, NEW n \in 1..Len(pending'[s]), pending'[s][n].side = "buy"
      PROVE  /\ n = 1 /\ pc'[s] = "send" /\ pending'[s][n].ref = 100
             /\ fetched'[s] => heldQty'[s] + pending'[s][n].qty <= MaxTarget
  <2>1. CASE s = r
    BY <1>1, <2>1
  <2>2. CASE s # r
    <3>1. /\ pc'[s] = pc[s] /\ fetched'[s] = fetched[s] /\ heldQty'[s] = heldQty[s]
          /\ pending'[s] = pending[s]
      BY <2>2 DEF OthersKept
    <3> QED
      BY <1>1, <3>1 DEF PurchaseInv
  <2> QED
    BY <2>1, <2>2
<1> QED
  BY <1>1 DEF PurchaseInv

BoundInv == Sound /\ PurchaseInv /\ RestingInv /\ ExposureInv /\ NakedInv

\* A run that is idle or about to cancel has no claim.
LEMMA IdleClaimsNothing ==
    ASSUME NEW r \in Runs, pc[r] \in {"idle", "cancelAlgo"}
    PROVE  r \notin Claims /\ r \notin NakedClaims /\ r \notin Sending
  BY DEF Claims, NakedClaims, Sending, Reading, Looking, Ready

\* A step after which a run has no claim, and nothing was placed or filled.
LEMMA ClaimsDropped ==
    ASSUME BoundInv, Sound', NEW r \in Runs, OthersKept(r),
           UNCHANGED <<orderType, buys, blind>>, position' <= position,
           \A n \in 1..Len(pending'[r]) : pending'[r][n].side # "buy",
           r \notin Claims', r \notin NakedClaims', r \notin Sending',
           Naked' => Naked
    PROVE  BoundInv'
<1>1. PurchaseInv'
  BY PurchaseKept DEF BoundInv
<1>2. RestingInv'
  BY RestingQuiet DEF BoundInv
<1>3. ExposureInv'
  BY ExposureQuiet DEF BoundInv
<1>4. NakedInv'
  BY NakedQuiet DEF BoundInv
<1> QED
  BY <1>1, <1>2, <1>3, <1>4 DEF BoundInv

\* A run that is over.
LEMMA RunOver ==
    ASSUME BoundInv, Sound', NEW r \in Runs, OthersKept(r), Over(r),
           UNCHANGED <<orderType, buys, blind>>, position' <= position,
           Naked' => Naked
    PROVE  BoundInv'
<1>1. pc'[r] = "idle" /\ pending'[r] = <<>>
  BY DEF Over, BoundInv, Sound, LongInv, RunInv
<1>2. r \notin Claims' /\ r \notin NakedClaims' /\ r \notin Sending'
  BY <1>1 DEF Claims, NakedClaims, Sending, Reading, Looking, Ready
<1>3. \A n \in 1..Len(pending'[r]) : pending'[r][n].side # "buy"
  <2>1. Len(<<>>) = 0
    OBVIOUS
  <2> QED
    BY <1>1, <2>1
<1> QED
  BY <1>2, <1>3, ClaimsDropped

LEMMA SameExchange ==
    ASSUME UNCHANGED <<position, sells, algo, stripped>>
    PROVE  Naked' <=> Naked
  BY DEF Naked, Protected, Resting

LEMMA ReadPositionBound ==
    ASSUME BoundInv, Sound', NEW r \in Runs, ReadPosition(r)
    PROVE  BoundInv'
<1>1. PICK fetch \in BOOLEAN :
        /\ fetched' = [fetched EXCEPT ![r] = fetch]
        /\ heldQty' = [heldQty EXCEPT ![r] = IF fetch THEN position ELSE 0]
  BY DEF ReadPosition
<1>2. /\ pc[r] = "idle" /\ pc' = [pc EXCEPT ![r] = "orders"]
      /\ UNCHANGED <<orderType, exchange, pending, blind>>
  BY DEF ReadPosition
<1>3. LongInv /\ RunInv
  BY DEF BoundInv, Sound, LongInv
<1>4. /\ pc'[r] = "orders" /\ fetched'[r] = fetch
      /\ heldQty'[r] = (IF fetch THEN position ELSE 0) /\ pending'[r] = pending[r]
  BY <1>1, <1>2, <1>3 DEF RunInv
<1>5. OthersKept(r)
  BY <1>3, RunAlone DEF Run
<1>6. r \notin Claims /\ r \notin NakedClaims /\ r \notin Sending
  BY <1>2, IdleClaimsNothing
<1>7. r \notin Sending'
  BY <1>4 DEF Sending, Looking, Ready
<1>8. UNCHANGED <<orderType, position, buys, sells, algo, stripped, blind>>
  BY <1>2 DEF exchange
<1>9. position \in Nat /\ position' \in Nat /\ position' <= position
  BY <1>3, <1>8 DEF LongInv, ExchangeInv
<1>10. PurchaseInv'
  <2>1. \A n \in 1..Len(pending'[r]) : pending'[r][n].side # "buy"
    BY <1>2, <1>4 DEF BoundInv, PurchaseInv
  <2> QED
    BY <1>5, <2>1, PurchaseKept DEF BoundInv
<1>11. RestingInv'
  BY <1>5, <1>7, <1>8, RestingQuiet DEF BoundInv
<1>12. NakedInv'
  <2>1. Naked' => Naked
    BY <1>8, SameExchange
  <2>2. ASSUME Naked
        PROVE  r \notin NakedClaims'
    BY <1>4, <1>9, <2>2 DEF Naked, NakedClaims, Reading, Looking, Ready
  <2> QED
    BY <1>5, <1>8, <1>9, <2>1, <2>2, NakedQuiet DEF BoundInv
<1>13. ExposureInv'
  <2>1. CASE r \notin Claims'
    BY <1>5, <1>8, <1>9, <2>1, ExposureQuiet DEF BoundInv
  <2>2. CASE r \in Claims'
    <3>1. fetched'[r] /\ heldQty'[r] = position
      BY <1>4, <2>2 DEF Claims, Reading, Looking, Ready
    <3>2. MaxTarget - position \in Worth'
      <4>1. MaxTarget - heldQty'[r] \in Worth'
        BY <2>2, <3>1 DEF Worth
      <4> QED
        BY <3>1, <4>1
    <3>3. Left(Claims)' \in Nat
      <4>1. /\ Claims' \in SUBSET Runs /\ Claims \in SUBSET Runs /\ Sending \in SUBSET Runs
            /\ blind \in Nat /\ Cardinality(Purchases) \in Nat
        BY Numbers DEF Claims, BoundInv
      <4>2. Cardinality(Claims') \in Nat /\ Cardinality(Claims') <= Cardinality(Runs)
        BY <4>1, SomeRuns, FS_Subset, FS_CardinalityType
      <4>3. Cardinality(Sending) \in Nat
        BY <4>1, SomeRuns, FS_Subset, FS_CardinalityType
      <4>4. Left(Claims)' = StaleOrders + 1 - Cardinality(Purchases) - Cardinality(Claims')
        BY <1>8 DEF Left, StaleOrders, Purchases
      <4>5. CASE orderType = "market"
        <5>1. Resting(buys) = {}
          BY <4>5 DEF BoundInv, RestingInv, Resting, Empty
        <5>2. Cardinality(Purchases) = 0
          BY <1>3, <5>1, OnePurchase DEF BoundInv, RestingInv, LongInv, ExchangeInv
        <5> QED
          BY <4>1, <4>2, <4>4, <4>5, <5>2, SomeRuns DEF StaleOrders
      <4>6. CASE orderType = "limit"
        <5>1. Cardinality(Purchases) + Cardinality(Sending) <= Cardinality(Runs) + blind
          BY <4>6 DEF BoundInv, RestingInv
        <5> QED
          BY <4>1, <4>2, <4>3, <4>4, <4>6, <5>1, SomeRuns DEF StaleOrders
      <4> QED
        BY <1>3, <4>5, <4>6 DEF LongInv, ExchangeInv
    <3>4. Cap * Left(Claims)' \in Nat
      BY <3>3, CapAssumption
    <3>5. position' + (MaxTarget - position) <= MaxTarget + Cap * Left(Claims)'
      <4>1. MaxTarget \in Nat
        BY MaxTargetAssumption, TargetsAssumption
      <4> QED
        BY <1>8, <1>9, <3>4, <4>1
    <3> QED
      BY <3>2, <3>5 DEF ExposureInv
  <2> QED
    BY <2>1, <2>2
<1> QED
  BY <1>10, <1>11, <1>12, <1>13 DEF BoundInv

LEMMA ReadOrdersBound ==
    ASSUME BoundInv, Sound', NEW r \in Runs, ReadOrders(r)
    PROVE  BoundInv'
<1>1. LongInv /\ RunInv
  BY DEF BoundInv, Sound, LongInv
<1>2. /\ pc[r] = "orders" /\ pc' = [pc EXCEPT ![r] = "plan"]
      /\ UNCHANGED <<orderType, exchange, fetched, heldQty, pending, blind>>
  BY DEF ReadOrders
<1>3. /\ pc'[r] = "plan" /\ fetched'[r] = fetched[r] /\ heldQty'[r] = heldQty[r]
      /\ pending'[r] = pending[r] /\ heldQty[r] \in Nat
  BY <1>1, <1>2 DEF RunInv
<1>4. /\ seesProtection'[r] =
           (fetched[r] /\ (Resting(sells) # {} \/ (listed /\ Resting(algo) # {})))
      /\ seesPlain'[r] = (fetched[r] /\ Resting(buys) # {})
  BY <1>1 DEF ReadOrders, RunInv
<1>5. OthersKept(r)
  BY <1>1, RunAlone DEF Run
<1>6. UNCHANGED <<orderType, position, buys, sells, algo, stripped, blind>>
  BY <1>2 DEF exchange
<1>7. position \in Nat /\ position' <= position
  BY <1>1, <1>6 DEF LongInv, ExchangeInv
<1>8. PurchaseInv'
  <2>1. \A n \in 1..Len(pending'[r]) : pending'[r][n].side # "buy"
    BY <1>2, <1>3 DEF BoundInv, PurchaseInv
  <2> QED
    BY <1>5, <2>1, PurchaseKept DEF BoundInv
<1>9. RestingInv'
  <2>1. r \in Sending' => Resting(buys) = {}
    BY <1>3, <1>4 DEF Sending, Looking, Ready
  <2> QED
    BY <1>5, <1>6, <2>1, RestingQuiet DEF BoundInv
<1>10. ExposureInv'
  <2>1. r \in Claims' => r \in Claims
    BY <1>2, <1>3 DEF Claims, Reading, Looking, Ready
  <2> QED
    BY <1>3, <1>5, <1>6, <1>7, <2>1, ExposureQuiet DEF BoundInv
<1>11. NakedInv'
  <2>1. Naked' => Naked
    BY <1>6, SameExchange
  <2>2. ASSUME Naked, r \in NakedClaims'
        PROVE  r \in NakedClaims
    <3>1. ~seesProtection'[r]
      BY <1>4, <2>2 DEF Naked, Protected
    <3>2. fetched[r] /\ heldQty[r] = 0
      BY <1>3, <2>2, <3>1 DEF NakedClaims, Reading, Looking, Ready
    <3> QED
      BY <1>2, <3>2 DEF NakedClaims, Reading
  <2> QED
    BY <1>5, <1>6, <1>7, <2>1, <2>2, NakedQuiet DEF BoundInv
<1> QED
  BY <1>8, <1>9, <1>10, <1>11 DEF BoundInv

\* A run that did not look at the exchange starts to send.
LEMMA BlindBound ==
    ASSUME BoundInv, Sound', NEW r \in Runs, OthersKept(r),
           pc[r] = "idle" \/ (pc[r] = "plan" /\ ~fetched[r]),
           ~fetched'[r], pc'[r] = "send", blind' = blind + 1,
           UNCHANGED <<orderType, exchange>>,
           \A n \in 1..Len(pending'[r]) : pending'[r][n].side = "buy" =>
             n = 1 /\ pending'[r][n].ref = 100
    PROVE  BoundInv'
<1>1. r \notin Claims
  BY DEF Claims, Reading, Looking, Ready
<1>2. /\ UNCHANGED <<orderType, position, buys, sells, algo, stripped>>
      /\ position \in Nat /\ position' <= position
  BY DEF exchange, BoundInv, Sound, LongInv, ExchangeInv
<1>3. PurchaseInv'
  BY PurchaseKept DEF BoundInv
<1>4. RestingInv'
  BY <1>2, RestingQuiet DEF BoundInv
<1>5. ExposureInv'
  BY <1>1, <1>2, ExposureQuiet DEF BoundInv
<1>6. NakedInv'
  BY <1>2, SameExchange, NakedQuiet DEF BoundInv
<1> QED
  BY <1>3, <1>4, <1>5, <1>6 DEF BoundInv

LEMMA CheckPlanBound ==
    ASSUME BoundInv, Sound', NEW r \in Runs, CheckPlan(r)
    PROVE  BoundInv'
<1>1. LongInv /\ RunInv /\ RunInv'
  BY DEF BoundInv, Sound, LongInv
<1>2. pc[r] = "plan" /\ UNCHANGED <<orderType, exchange>>
  BY DEF CheckPlan
<1>3. OthersKept(r)
  BY <1>1, RunAlone DEF Run
<1>4. /\ UNCHANGED <<orderType, position, buys, sells, algo, stripped>>
      /\ position \in Nat /\ position' <= position
  BY <1>1, <1>2 DEF exchange, LongInv, ExchangeInv
<1>5. CASE Over(r) /\ blind' = blind
  BY <1>3, <1>4, <1>5, SameExchange, RunOver
<1>6. ASSUME NEW target \in Targets, NEW capped \in BOOLEAN, NEW protect \in BOOLEAN,
             ~Blocked(r, Action(Larger(heldQty[r], 0), target)),
             Execute(r, Plan(Larger(heldQty[r], 0), target, capped, protect)),
             IF fetched[r] THEN UNCHANGED blind ELSE Blindly,
             UNCHANGED snapshot
      PROVE  BoundInv'
  <2> DEFINE s == Plan(Larger(heldQty[r], 0), target, capped, protect)
             a == Action(Larger(heldQty[r], 0), target)
  <2>1. heldQty[r] \in Nat /\ Larger(heldQty[r], 0) = heldQty[r]
    BY <1>1 DEF Larger, RunInv
  <2>2. /\ SoundPlan(s, heldQty[r])
        /\ \A n \in 1..Len(s) : s[n].side = "buy" => a = "increase"
    BY <2>1, PlanSound
  <2>3. pending' = [pending EXCEPT ![r] = s] /\ pc' = [pc EXCEPT ![r] = "send"]
    BY <1>6 DEF Execute
  <2>4. ~Blocked(r, a)
    BY <1>6
  <2> HIDE DEF s, a
  <2>5. /\ pending'[r] = s /\ pc'[r] = "send" /\ fetched'[r] = fetched[r]
        /\ heldQty'[r] = heldQty[r]
    BY <1>1, <1>6, <2>3 DEF RunInv, snapshot
  <2>6. s \in Seq(Intents) /\ s # <<>>
    BY <1>1, <2>5 DEF RunInv
  <2>7. 1 \in 1..Len(s) /\ s[1] \in Intents
    BY <2>6
  <2>8. CASE ~fetched[r]
    <3>1. blind' = blind + 1
      BY <1>6, <2>8 DEF Blindly
    <3>2. \A n \in 1..Len(pending'[r]) : pending'[r][n].side = "buy" =>
             n = 1 /\ pending'[r][n].ref = 100
      BY <2>2, <2>5 DEF SoundPlan
    <3> QED
      BY <1>2, <1>3, <2>5, <2>8, <3>1, <3>2, BlindBound
  <2>9. CASE fetched[r] /\ s[1].side = "buy"
    <3>1. a = "increase"
      BY <2>2, <2>7, <2>9
    <3>2. ~seesPlain[r] /\ (heldQty[r] = 0 \/ seesProtection[r])
      BY <2>1, <2>4, <3>1 DEF Blocked
    <3>3. heldQty[r] < MaxTarget
      <4>1. heldQty[r] + s[1].qty <= MaxTarget
        BY <2>2, <2>7, <2>9 DEF SoundPlan
      <4>2. s[1].qty \in Nat /\ s[1].qty > 0
        BY <2>7, SizesPositive DEF Intents
      <4>3. MaxTarget \in Nat
        BY MaxTargetAssumption, TargetsAssumption
      <4> QED
        BY <2>1, <4>1, <4>2, <4>3
    <3>4. r \in Claims /\ r \in NakedClaims /\ r \in Sending
      BY <1>2, <2>9, <3>2, <3>3 DEF Claims, NakedClaims, Sending, Looking
    <3>5. blind' = blind
      BY <1>6, <2>9
    <3>6. PurchaseInv'
      <4>1. \A n \in 1..Len(pending'[r]) : pending'[r][n].side = "buy" =>
               /\ n = 1 /\ pc'[r] = "send" /\ pending'[r][n].ref = 100
               /\ fetched'[r] => heldQty'[r] + pending'[r][n].qty <= MaxTarget
        BY <2>2, <2>5 DEF SoundPlan
      <4> QED
        BY <1>3, <4>1, PurchaseKept DEF BoundInv
    <3>7. RestingInv'
      BY <1>3, <1>4, <3>4, <3>5, RestingQuiet DEF BoundInv
    <3>8. ExposureInv'
      BY <1>3, <1>4, <2>5, <3>4, <3>5, ExposureQuiet DEF BoundInv
    <3>9. NakedInv'
      BY <1>3, <1>4, <3>4, <3>5, SameExchange, NakedQuiet DEF BoundInv
    <3> QED
      BY <3>6, <3>7, <3>8, <3>9 DEF BoundInv
  <2>10. CASE fetched[r] /\ s[1].side # "buy"
    <3>1. \A n \in 1..Len(pending'[r]) : pending'[r][n].side # "buy"
      BY <2>2, <2>5, <2>10 DEF SoundPlan
    <3>2. r \notin Claims' /\ r \notin NakedClaims' /\ r \notin Sending'
      BY <2>5, <2>10 DEF Claims, NakedClaims, Sending, Reading, Looking, Ready
    <3>3. blind' = blind
      BY <1>6, <2>10
    <3> QED
      BY <1>3, <1>4, <3>1, <3>2, <3>3, SameExchange, ClaimsDropped
  <2> QED
    BY <2>8, <2>9, <2>10
<1> QED
  BY <1>5, <1>6 DEF CheckPlan

LEMMA PlanUnsyncedBound ==
    ASSUME BoundInv, Sound', NEW r \in Runs, PlanUnsynced(r)
    PROVE  BoundInv'
<1>1. LongInv /\ RunInv
  BY DEF BoundInv, Sound, LongInv
<1>2. OthersKept(r)
  BY <1>1, RunAlone DEF Run
<1>3. PICK held \in Nat, s \in Seq(Intents) :
        /\ s # <<>> /\ SoundPlan(s, held)
        /\ pending' = [pending EXCEPT ![r] = s]
        /\ pc' = [pc EXCEPT ![r] = "send"]
  BY UnsyncedPlan
<1>4. pending'[r] = s /\ pc'[r] = "send" /\ ~fetched'[r]
  BY <1>1, <1>3 DEF PlanUnsynced, RunInv
<1>5. \A n \in 1..Len(pending'[r]) : pending'[r][n].side = "buy" =>
         n = 1 /\ pending'[r][n].ref = 100
  BY <1>3, <1>4 DEF SoundPlan
<1>6. pc[r] = "idle" /\ blind' = blind + 1 /\ UNCHANGED <<orderType, exchange>>
  BY DEF PlanUnsynced, Blindly
<1> QED
  BY <1>2, <1>4, <1>5, <1>6, BlindBound

LEMMA PlaceProtectionBound ==
    ASSUME BoundInv, Sound', NEW r \in Runs, PlaceProtection(r)
    PROVE  BoundInv'
<1>1. LongInv /\ RunInv
  BY DEF BoundInv, Sound, LongInv
<1>2. OthersKept(r)
  BY <1>1, RunAlone DEF Run
<1>3. PICK q \in Sizes : pending' =
        [pending EXCEPT ![r] = <<Protective(q, 98), Protective(q, 104)>>]
  BY DEF PlaceProtection
<1>4. /\ pending'[r] = <<Protective(q, 98), Protective(q, 104)>> /\ pc'[r] = "send"
      /\ Protective(q, 98).side = "sell" /\ Protective(q, 104).side = "sell"
  BY <1>1, <1>3 DEF PlaceProtection, Protective, RunInv
<1>5. \A n \in 1..Len(pending'[r]) : pending'[r][n].side # "buy"
  BY <1>4
<1>6. r \notin Claims' /\ r \notin NakedClaims' /\ r \notin Sending'
  BY <1>4 DEF Claims, NakedClaims, Sending, Reading, Looking, Ready
<1>7. /\ UNCHANGED <<orderType, position, buys, sells, algo, stripped, blind>>
      /\ position \in Nat /\ position' <= position
  BY <1>1 DEF PlaceProtection, exchange, LongInv, ExchangeInv
<1> QED
  BY <1>2, <1>5, <1>6, <1>7, SameExchange, ClaimsDropped

LEMMA StopBound ==
    ASSUME BoundInv, Sound', NEW r \in Runs, Stop(r)
    PROVE  BoundInv'
<1>1. LongInv
  BY DEF BoundInv, Sound
<1>2. OthersKept(r)
  BY <1>1, RunAlone DEF Run
<1>3. /\ Over(r) /\ UNCHANGED <<orderType, position, buys, sells, algo, stripped, blind>>
      /\ position \in Nat /\ position' <= position
  BY <1>1 DEF Stop, exchange, LongInv, ExchangeInv
<1> QED
  BY <1>2, <1>3, SameExchange, RunOver

\* Nothing is naked after a step that takes protective orders away: it is
\* stripped, or closed.
LEMMA StripEndsNaked ==
    ASSUME Strip PROVE ~Naked'
  BY DEF Strip, Naked

LEMMA CancelBound ==
    ASSUME BoundInv, Sound', NEW r \in Runs, CancelStandard(r) \/ CancelAlgo(r)
    PROVE  BoundInv'
<1>1. LongInv /\ RunInv
  BY DEF BoundInv, Sound, LongInv
<1>2. OthersKept(r)
  BY <1>1, RunAlone DEF Run
<1>3. /\ UNCHANGED <<orderType, position, blind>> /\ Strip
      /\ position \in Nat /\ position' <= position
  BY <1>1 DEF CancelStandard, CancelAlgo, LongInv, ExchangeInv
<1>4. ~Naked'
  BY <1>3, StripEndsNaked
<1>5. CASE CancelAlgo(r)
  BY <1>2, <1>3, <1>4, <1>5, RunOver DEF CancelAlgo
<1>6. CASE CancelStandard(r)
  <2>1. /\ pc[r] = "idle" /\ pc'[r] = "cancelAlgo" /\ buys' = Empty
        /\ pending'[r] = pending[r] /\ fetched' = fetched /\ heldQty' = heldQty
    BY <1>1, <1>6 DEF CancelStandard, RunInv, snapshot
  <2>2. /\ r \notin Claims /\ r \notin Sending /\ r \notin Claims' /\ r \notin Sending'
    BY <2>1 DEF Claims, Sending, Reading, Looking, Ready
  <2>3. \A n \in 1..Len(pending'[r]) : pending'[r][n].side # "buy"
    BY <2>1 DEF BoundInv, PurchaseInv
  <2>4. PurchaseInv'
    BY <1>2, <2>3, PurchaseKept DEF BoundInv
  <2>5. /\ IsFiniteSet(Purchases') /\ Cardinality(Purchases') = 0
        /\ Cardinality(Purchases) \in Nat
        /\ Resting(buys) # {} => Cardinality(Purchases) > 0
    BY <1>1, <2>1, OnePurchase DEF BoundInv, RestingInv, LongInv, ExchangeInv
  <2>6. Resting(buys)' = {}
    BY <2>1 DEF Resting, Empty
  <2>7. /\ Claims \in SUBSET Runs /\ Sending \in SUBSET Runs /\ blind \in Nat
        /\ Left(Claims) \in Int /\ MaxTarget \in Nat
    BY Numbers DEF BoundInv
  <2>8. /\ Claims' \in SUBSET Runs /\ Sending' \in SUBSET Runs
        /\ Claims' \ {r} = Claims \ {r} /\ Sending' \ {r} = Sending \ {r}
    BY <1>2, OthersClaim DEF Claims, Sending
  <2>9. Claims' = Claims /\ Sending' = Sending
    BY <2>2, <2>8
  <2>10. RestingInv'
    <3>1. Cardinality(Sending) \in Nat /\ Cardinality(Sending) <= Cardinality(Runs)
      BY <2>7, SomeRuns, FS_Subset, FS_CardinalityType
    <3>2. orderType' = "market" => buys' = Empty'
      BY <2>1 DEF Empty
    <3>3. Cardinality(Purchases') + Cardinality(Sending') <= Cardinality(Runs) + blind'
      BY <1>3, <2>5, <2>7, <2>9, <3>1, SomeRuns
    <3> QED
      BY <2>5, <2>6, <3>2, <3>3 DEF RestingInv
  <2>11. ExposureInv'
    <3>1. PICK w \in Worth : position + w <= MaxTarget + Cap * Left(Claims)
      BY DEF BoundInv, ExposureInv
    <3>2. w \in Nat
      BY <1>1, WorthPositive DEF Positive, BoundInv
    <3>3. Left(Claims)' \in Int /\ Left(Claims)' = Left(Claims) + Cardinality(Purchases)
      <4>1. Left(Claims)' = StaleOrders' + 1 - Cardinality(Purchases') - Cardinality(Claims')
        BY DEF Left
      <4>2. /\ Cardinality(Claims) \in Nat
            /\ StaleOrders' + 1 - Cardinality(Purchases') - Cardinality(Claims) \in Int
            /\ StaleOrders' + 1 - Cardinality(Purchases') - Cardinality(Claims) =
                 Left(Claims) + (blind' - blind) - (Cardinality(Purchases') - Cardinality(Purchases))
                              - (Cardinality(Claims) - Cardinality(Claims))
        BY <1>3, <2>5, <2>7, LeftMoves DEF BoundInv
      <4> QED
        BY <1>3, <2>5, <2>7, <2>9, <4>1, <4>2
    <3>4. CASE w \in Resting(buys)
      <4>1. Left(Claims) + 1 <= Left(Claims)'
        BY <2>5, <2>7, <3>3, <3>4
      <4>2. /\ Cap * Left(Claims) \in Int /\ Cap * Left(Claims)' \in Int
            /\ Cap * Left(Claims) + Cap <= Cap * Left(Claims)' /\ Cap \in Nat
        BY <2>7, <3>3, <4>1, TimesCap
      <4>3. position' + Cap <= MaxTarget + Cap * Left(Claims)'
        BY <1>3, <2>7, <3>1, <3>2, <4>2
      <4>4. Cap \in Worth'
        BY DEF Worth
      <4> QED
        BY <4>3, <4>4 DEF ExposureInv
    <3>5. CASE w \notin Resting(buys)
      <4>1. w \in Worth'
        <5>1. w = Cap \/ \E s \in Claims : fetched[s] /\ w = MaxTarget - heldQty[s]
          BY <3>5 DEF Worth
        <5>2. w = Cap \/ \E s \in Claims' : fetched'[s] /\ w = MaxTarget - heldQty'[s]
          BY <2>1, <2>9, <5>1
        <5> QED
          BY <5>2 DEF Worth
      <4>2. Left(Claims) <= Left(Claims)'
        BY <2>5, <2>7, <3>3
      <4>3. /\ Cap * Left(Claims) \in Int /\ Cap * Left(Claims)' \in Int
            /\ Cap * Left(Claims) <= Cap * Left(Claims)'
        BY <2>7, <3>3, <4>2, TimesCap
      <4>4. position' + w <= MaxTarget + Cap * Left(Claims)'
        BY <1>3, <2>7, <3>1, <3>2, <4>3
      <4> QED
        BY <4>1, <4>4 DEF ExposureInv
    <3> QED
      BY <3>4, <3>5
  <2>12. NakedInv'
    BY <1>4 DEF NakedInv
  <2> QED
    BY <2>4, <2>10, <2>11, <2>12 DEF BoundInv
<1> QED
  BY <1>5, <1>6

\* An accepted intent takes no protection away.
LEMMA AcceptProtects ==
    ASSUME LongInv, LongInv', NEW i \in Intents, Accept(i)
    PROVE  /\ Protected => Protected'
           /\ Naked' => Naked \/ position = 0
           /\ position' <= position /\ Naked' => Naked
<1>1. sells \in Books /\ algo \in Books /\ position \in Nat /\ position' \in Nat
  BY DEF LongInv, ExchangeInv
<1>2. i.qty \in Sizes
  BY DEF Intents
<1>3. sells' = sells \/ sells' = [sells EXCEPT ![i.qty] = @ + 1]
  BY DEF Accept, Market, Limit, Conditional
<1>4. algo' = algo \/ algo' = [algo EXCEPT ![i.qty] = @ + 1]
  BY DEF Accept, Market, Limit, Conditional
<1>5. \A q \in Sizes : /\ sells[q] > 0 => sells'[q] > 0
                       /\ algo[q] > 0 => algo'[q] > 0
  BY <1>1, <1>2, <1>3, <1>4 DEF Books
<1>6. Protected => Protected'
  BY <1>5 DEF Protected, Resting
<1>7. KeepHistory
  BY DEF Accept
<1>8. ASSUME Naked'
      PROVE  position' > 0 /\ ~Protected /\ ~stripped
  <2>1. position' > 0 /\ ~Protected' /\ ~stripped'
    BY <1>8 DEF Naked
  <2>2. ~stripped
    BY <1>7, <2>1, Zenon DEF KeepHistory
  <2> QED
    BY <1>6, <2>1, <2>2
<1>9. ASSUME Naked', position > 0
      PROVE  Naked
  BY <1>8, <1>9 DEF Naked
<1>10. Naked' => Naked \/ position = 0
  BY <1>1, <1>9
<1>11. position' <= position /\ Naked' => Naked
  BY <1>1, <1>8, <1>9
<1> QED
  BY <1>6, <1>10, <1>11

\* A purchase is filled: one order less is left open, and it was worth at
\* least what it bought.
LEMMA Filled ==
    ASSUME BoundInv, Sound', UNCHANGED <<orderType, blind>>,
           NEW q \in Sizes, q <= Cap, position' = position + q,
           Left(Claims)' \in Int, Left(Claims) + 1 <= Left(Claims)',
           Left(NakedClaims)' \in Int, Left(NakedClaims) + 1 <= Left(NakedClaims)',
           Left(NakedClaims)' >= 1,
           \A w \in Worth : w \in Worth' \/ w >= q,
           Naked' => Naked \/ position = 0
    PROVE  ExposureInv' /\ NakedInv'
<1>1. /\ Left(Claims) \in Int /\ Left(NakedClaims) \in Int
      /\ position \in Nat /\ MaxTarget \in Nat
  BY Numbers DEF BoundInv
<1>2. q \in Nat /\ q > 0 /\ Cap \in Nat
  BY SizesPositive, CapAssumption
<1>3. PICK w \in Worth : position + w <= MaxTarget + Cap * Left(Claims)
  BY DEF BoundInv, ExposureInv
<1>4. w \in Nat
  BY WorthPositive DEF Positive, BoundInv, Sound
<1>5. /\ Cap * Left(Claims) \in Int /\ Cap * Left(Claims)' \in Int
      /\ Cap * Left(Claims) + Cap <= Cap * Left(Claims)'
  BY <1>1, TimesCap
<1>6. /\ Cap * Left(NakedClaims) \in Int /\ Cap * Left(NakedClaims)' \in Int
      /\ Cap * Left(NakedClaims) + Cap <= Cap * Left(NakedClaims)'
  BY <1>1, TimesCap
<1>7. ExposureInv'
  <2>1. CASE w \in Worth'
    <3>1. position' + w <= MaxTarget + Cap * Left(Claims)'
      BY <1>1, <1>2, <1>3, <1>4, <1>5
    <3> QED
      BY <2>1, <3>1 DEF ExposureInv
  <2>2. CASE w >= q
    <3>1. position' + Cap <= MaxTarget + Cap * Left(Claims)'
      BY <1>1, <1>2, <1>3, <1>4, <1>5, <2>2
    <3>2. Cap \in Worth'
      BY DEF Worth
    <3> QED
      BY <3>1, <3>2 DEF ExposureInv
  <2> QED
    BY <1>3, <2>1, <2>2
<1>8. NakedInv'
  <2> SUFFICES ASSUME Naked' PROVE position' <= Cap * Left(NakedClaims)'
    BY DEF NakedInv
  <2>1. CASE Naked
    <3>1. position <= Cap * Left(NakedClaims)
      BY <2>1 DEF BoundInv, NakedInv
    <3> QED
      BY <1>1, <1>2, <1>6, <3>1
  <2>2. CASE position = 0
    <3>1. /\ Cap * 0 \in Int /\ Cap * 0 + Cap <= Cap * Left(NakedClaims)'
      BY TimesCap
    <3>2. Cap * 0 = 0
      BY <1>2
    <3> QED
      BY <1>1, <1>2, <1>6, <2>2, <3>1, <3>2
  <2> QED
    BY <2>1, <2>2
<1> QED
  BY <1>7, <1>8

\* What a run leaves behind once it has sent the first of its intents.
LEMMA SentFirst ==
    ASSUME BoundInv, NEW r \in Runs, pc[r] = "send",
           \/ /\ Len(pending[r]) > 1
              /\ pending' = [pending EXCEPT ![r] = Tail(@)]
              /\ UNCHANGED <<pc, snapshot>>
           \/ Over(r)
    PROVE  /\ \A n \in 1..Len(pending'[r]) : pending'[r][n].side # "buy"
           /\ r \notin Claims' /\ r \notin NakedClaims' /\ r \notin Sending'
<1> DEFINE p == pending[r]
<1>1. LongInv /\ RunInv
  BY DEF BoundInv, Sound, LongInv
<1>2. CASE Over(r)
  <2>1. pc'[r] = "idle" /\ pending'[r] = <<>>
    BY <1>1, <1>2 DEF Over, RunInv
  <2>2. Len(<<>>) = 0
    OBVIOUS
  <2> QED
    BY <2>1, <2>2 DEF Claims, NakedClaims, Sending, Reading, Looking, Ready
<1>3. CASE /\ Len(p) > 1
           /\ pending' = [pending EXCEPT ![r] = Tail(@)]
           /\ UNCHANGED <<pc, snapshot>>
  <2>1. p \in Seq(Intents) /\ p # <<>>
    BY <1>1 DEF RunInv
  <2>2. pending'[r] = Tail(p) /\ pc'[r] = "send"
    BY <1>1, <1>3 DEF RunInv
  <2>3. \A n \in 1..Len(p) : n # 1 => p[n].side # "buy"
    BY DEF BoundInv, PurchaseInv
  <2> HIDE DEF p
  <2>4. /\ Len(Tail(p)) = Len(p) - 1 /\ Len(p) \in Nat
        /\ \A n \in 1..Len(Tail(p)) : Tail(p)[n] = p[n + 1] /\ n + 1 \in 1..Len(p)
    BY <2>1
  <2>5. \A n \in 1..Len(Tail(p)) : Tail(p)[n].side # "buy"
    BY <2>3, <2>4
  <2>6. 1 \in 1..Len(Tail(p))
    BY <1>3, <2>4
  <2>7. Tail(p)[1].side # "buy"
    BY <2>5, <2>6
  <2> QED
    BY <2>2, <2>5, <2>7 DEF Claims, NakedClaims, Sending, Reading, Looking, Ready
<1> QED
  BY <1>2, <1>3

LEMMA SendBound ==
    ASSUME BoundInv, Sound', NEW r \in Runs, Send(r)
    PROVE  BoundInv'
<1> DEFINE p == pending[r]
           i == Head(p)
<1>1. LongInv /\ RunInv /\ LongInv' /\ ExchangeInv /\ ExchangeInv'
  BY DEF BoundInv, Sound, LongInv
<1>2. pc[r] = "send" /\ UNCHANGED <<orderType, blind>>
  BY DEF Send
<1>3. OthersKept(r)
  BY <1>1, RunAlone DEF Run
<1>4. /\ p \in Seq(Intents) /\ p # <<>>
      /\ i \in Intents /\ i = p[1] /\ 1 \in 1..Len(p)
  <2>1. p \in Seq(Intents) /\ p # <<>>
    BY <1>1, <1>2 DEF RunInv
  <2> HIDE DEF p
  <2> QED
    BY <2>1
<1>5. position \in Nat /\ position' \in Nat /\ buys \in Books
  BY <1>1 DEF ExchangeInv
<1>6. CASE Over(r) /\ UNCHANGED exchange
  <2>1. UNCHANGED <<position, buys, sells, algo, stripped>>
    BY <1>6 DEF exchange
  <2> QED
    BY <1>2, <1>3, <1>5, <1>6, <2>1, SameExchange, RunOver
<1>7. CASE WithinCap(i) /\ Accept(i) /\ (\/ /\ Len(pending[r]) > 1
                                            /\ pending' = [pending EXCEPT ![r] = Tail(@)]
                                            /\ UNCHANGED <<pc, snapshot>>
                                         \/ Over(r))
  <2>1. /\ \A n \in 1..Len(pending'[r]) : pending'[r][n].side # "buy"
        /\ r \notin Claims' /\ r \notin NakedClaims' /\ r \notin Sending'
    BY <1>2, <1>7, SentFirst
  <2>2. /\ Naked' => Naked \/ position = 0
        /\ position' <= position /\ Naked' => Naked
    BY <1>1, <1>4, <1>7, AcceptProtects
  <2> HIDE DEF i
  <2>3. CASE buys' = buys /\ position' <= position
    BY <1>2, <1>3, <2>1, <2>2, <2>3, ClaimsDropped
  <2>4. i.qty \in Sizes /\ i.side \in {"buy", "sell"} /\ i.reduceOnly \in BOOLEAN
    BY <1>4 DEF Intents
  <2>5. \/ buys' = buys /\ position' <= position
        \/ i.side = "buy" /\ Market(i)
        \/ i.side = "buy" /\ Limit(i)
    <3>1. CASE Conditional(i)
      BY <1>5, <3>1 DEF Conditional
    <3>2. CASE Limit(i)
      BY <1>5, <2>4, <3>2 DEF Limit
    <3>3. CASE Market(i) /\ i.side = "sell"
      <4>1. i.reduceOnly
        BY <1>1, <1>4, <3>3 DEF RunInv
      <4>2. position' = position - Reduction(i.qty)
        BY <3>3, <4>1 DEF Market
      <4>3. position' <= position
        BY <1>5, <2>4, <4>2, SizesPositive DEF Reduction, Smaller, Larger
      <4> QED
        BY <3>3, <4>3 DEF Market
    <3> QED
      BY <1>7, <2>4, <3>1, <3>2, <3>3 DEF Accept
  <2>6. ASSUME i.side = "buy"
        PROVE  /\ r \in Claims /\ r \in NakedClaims /\ r \in Sending
               /\ i.qty \in Nat /\ i.qty > 0 /\ i.qty <= Cap
               /\ fetched[r] => i.qty <= MaxTarget - heldQty[r]
    <3>1. Ready(r)
      BY <1>2, <1>4, <2>6 DEF Ready
    <3>2. i.ref = 100 /\ (fetched[r] => heldQty[r] + i.qty <= MaxTarget)
      BY <1>4, <2>6 DEF BoundInv, PurchaseInv
    <3>3. i.qty \in Nat /\ i.qty > 0
      BY <2>4, SizesPositive
    <3>4. i.qty <= Cap
      BY <1>7, <3>2, <3>3, CapAssumption DEF WithinCap
    <3>5. heldQty[r] \in Nat /\ MaxTarget \in Nat
      BY <1>1, MaxTargetAssumption, TargetsAssumption DEF RunInv
    <3> QED
      BY <3>1, <3>2, <3>3, <3>4, <3>5 DEF Claims, NakedClaims, Sending
  <2>7. /\ Claims \in SUBSET Runs /\ NakedClaims \in SUBSET Runs /\ Sending \in SUBSET Runs
        /\ Left(Claims) \in Int /\ Left(NakedClaims) \in Int
        /\ blind \in Nat /\ Cardinality(Purchases) \in Nat /\ MaxTarget \in Nat
    BY Numbers DEF BoundInv
  <2>8. /\ Claims' \in SUBSET Runs /\ Claims \ {r} = Claims' \ {r}
        /\ NakedClaims' \in SUBSET Runs /\ NakedClaims \ {r} = NakedClaims' \ {r}
        /\ Sending' \in SUBSET Runs /\ Sending \ {r} = Sending' \ {r}
    BY <1>3, OthersClaim DEF Claims, NakedClaims, Sending
  <2>9. PurchaseInv'
    BY <1>3, <2>1, PurchaseKept DEF BoundInv
  <2>10. ASSUME i.side = "buy", Cardinality(Purchases') \in Nat
         PROVE  /\ Left(Claims)' \in Int /\ Left(NakedClaims)' \in Int
                /\ Left(Claims)' = Left(Claims) + 1
                                     - (Cardinality(Purchases') - Cardinality(Purchases))
                /\ Left(NakedClaims)' = Left(NakedClaims) + 1
                                     - (Cardinality(Purchases') - Cardinality(Purchases))
                /\ Cardinality(NakedClaims') \in Nat
                /\ Cardinality(NakedClaims') <= Cardinality(Runs) - 1
                /\ Cardinality(Sending') \in Nat
                /\ Cardinality(Sending') + 1 = Cardinality(Sending)
    <3>1. /\ Cardinality(Claims) \in Nat /\ Cardinality(Claims') \in Nat
          /\ Cardinality(Claims) = Cardinality(Claims') + 1
      BY <2>1, <2>6, <2>7, <2>8, <2>10, OneMoves
    <3>2. /\ Cardinality(NakedClaims) \in Nat /\ Cardinality(NakedClaims') \in Nat
          /\ Cardinality(NakedClaims) = Cardinality(NakedClaims') + 1
          /\ Cardinality(NakedClaims') <= Cardinality(Runs) - 1
      BY <2>1, <2>6, <2>7, <2>8, <2>10, OneMoves
    <3>3. /\ Cardinality(Sending) \in Nat /\ Cardinality(Sending') \in Nat
          /\ Cardinality(Sending) = Cardinality(Sending') + 1
      BY <2>1, <2>6, <2>7, <2>8, <2>10, OneMoves
    <3>4. /\ Left(Claims)' = StaleOrders' + 1 - Cardinality(Purchases') - Cardinality(Claims')
          /\ Left(NakedClaims)' =
               StaleOrders' + 1 - Cardinality(Purchases') - Cardinality(NakedClaims')
      BY DEF Left
    <3>5. \A X, Y \in SUBSET Runs :
             /\ Cardinality(X) \in Nat /\ Cardinality(Y) \in Nat
             /\ StaleOrders' + 1 - Cardinality(Purchases') - Cardinality(Y) \in Int
             /\ StaleOrders' + 1 - Cardinality(Purchases') - Cardinality(Y) =
                  Left(X) + (blind' - blind) - (Cardinality(Purchases') - Cardinality(Purchases))
                          - (Cardinality(Y) - Cardinality(X))
      BY <1>2, <2>7, <2>10, LeftMoves DEF BoundInv
    <3>6. /\ StaleOrders' + 1 - Cardinality(Purchases') - Cardinality(Claims') \in Int
          /\ StaleOrders' + 1 - Cardinality(Purchases') - Cardinality(Claims') =
                  Left(Claims) + (blind' - blind) - (Cardinality(Purchases') - Cardinality(Purchases))
                          - (Cardinality(Claims') - Cardinality(Claims))
      BY <2>7, <2>8, <3>5
    <3>7. /\ StaleOrders' + 1 - Cardinality(Purchases') - Cardinality(NakedClaims') \in Int
          /\ StaleOrders' + 1 - Cardinality(Purchases') - Cardinality(NakedClaims') =
                  Left(NakedClaims) + (blind' - blind) - (Cardinality(Purchases') - Cardinality(Purchases))
                          - (Cardinality(NakedClaims') - Cardinality(NakedClaims))
      BY <2>7, <2>8, <3>5
    <3>8. /\ Left(Claims)' \in Int
          /\ Left(Claims)' = Left(Claims) + 1 - (Cardinality(Purchases') - Cardinality(Purchases))
      BY <1>2, <2>7, <2>10, <3>1, <3>4, <3>6
    <3>9. /\ Left(NakedClaims)' \in Int
          /\ Left(NakedClaims)' =
               Left(NakedClaims) + 1 - (Cardinality(Purchases') - Cardinality(Purchases))
      BY <1>2, <2>7, <2>10, <3>2, <3>4, <3>7
    <3> QED
      BY <3>2, <3>3, <3>8, <3>9
  <2>11. ASSUME NEW s \in Claims, fetched[s], s # r
         PROVE  s \in Claims' /\ fetched'[s] /\ heldQty'[s] = heldQty[s]
    BY <1>3, <2>7, <2>8, <2>11 DEF OthersKept
  <2>12. CASE i.side = "buy" /\ Market(i)
    <3>1. /\ orderType = "market" /\ position' = position + i.qty /\ buys' = buys
      BY <2>12 DEF Market
    <3>2. Cardinality(Purchases') = Cardinality(Purchases) /\ Cardinality(Purchases) = 0
      <4>1. Resting(buys) = {}
        BY <3>1 DEF BoundInv, RestingInv, Resting, Empty
      <4>2. Cardinality(Purchases) = 0
        BY <1>5, <4>1, OnePurchase DEF BoundInv, RestingInv
      <4> QED
        BY <3>1, <4>2 DEF Purchases
    <3>3. RestingInv'
      BY <1>2, <1>3, <2>1, <3>1, RestingQuiet DEF BoundInv
    <3>4. \A w \in Worth : w \in Worth' \/ w >= i.qty
      <4>1. ASSUME NEW w \in Worth
            PROVE  w \in Worth' \/ w >= i.qty
        <5>1. CASE w = Cap \/ w \in Resting(buys)
          BY <3>1, <5>1 DEF Worth, Resting
        <5>2. ASSUME NEW s \in Claims, fetched[s], w = MaxTarget - heldQty[s]
              PROVE  w \in Worth' \/ w >= i.qty
          <6>1. CASE s = r
            BY <2>6, <2>7, <2>12, <5>2, <6>1, <1>1 DEF RunInv
          <6>2. CASE s # r
            <7>1. s \in Claims' /\ fetched'[s] /\ w = MaxTarget - heldQty'[s]
              BY <2>11, <5>2, <6>2
            <7> QED
              BY <7>1 DEF Worth
          <6> QED
            BY <6>1, <6>2
        <5> QED
          BY <5>1, <5>2 DEF Worth
      <4> QED
        BY <4>1
    <3>5. /\ Left(Claims)' \in Int /\ Left(Claims) + 1 <= Left(Claims)'
          /\ Left(NakedClaims)' \in Int /\ Left(NakedClaims) + 1 <= Left(NakedClaims)'
      BY <2>7, <2>10, <2>12, <3>2
    <3>6. Left(NakedClaims)' >= 1
      <4>1. Left(NakedClaims)' = StaleOrders' + 1 - Cardinality(Purchases') - Cardinality(NakedClaims')
        BY DEF Left
      <4>2. StaleOrders' = blind + Cardinality(Runs) - 1
        BY <1>2, <2>7, <3>1, SomeRuns DEF StaleOrders
      <4>3. /\ Cardinality(NakedClaims') \in Nat
            /\ Cardinality(NakedClaims') <= Cardinality(Runs) - 1
        BY <2>7, <2>10, <2>12, <3>2
      <4> QED
        BY <2>7, <3>2, <4>1, <4>2, <4>3, SomeRuns
    <3>7. ExposureInv' /\ NakedInv'
      BY <1>2, <2>2, <2>4, <2>6, <2>12, <3>1, <3>4, <3>5, <3>6, Filled
    <3> QED
      BY <2>9, <3>3, <3>7 DEF BoundInv
  <2>13. CASE i.side = "buy" /\ Limit(i)
    <3>1. /\ orderType = "limit" /\ position' = position
          /\ buys' = [buys EXCEPT ![i.qty] = @ + 1]
      BY <2>13 DEF Limit
    <3>2. /\ IsFiniteSet(Purchases') /\ Cardinality(Purchases') = Cardinality(Purchases) + 1
          /\ Cardinality(Purchases') \in Nat
      <4>1. IsFiniteSet(Purchases)
        BY DEF BoundInv, RestingInv
      <4>2. IsFiniteSet(Purchases') /\ Cardinality(Purchases') = Cardinality(Purchases) + 1
        BY <1>5, <2>4, <3>1, <4>1, OnePurchase
      <4> QED
        BY <2>7, <4>2
    <3>3. /\ \A q \in Sizes : buys'[q] = IF q = i.qty THEN buys[q] + 1 ELSE buys[q]
          /\ \A q \in Sizes : buys[q] \in Nat
      BY <1>5, <2>4, <3>1 DEF Books
    <3>4. Resting(buys)' = Resting(buys) \cup {i.qty}
      <4>1. \A q \in Sizes : buys'[q] > 0 <=> buys[q] > 0 \/ q = i.qty
        BY <3>3
      <4> QED
        BY <2>4, <4>1 DEF Resting
    <3>5. RestingInv'
      <4>1. /\ orderType' = "limit"
            /\ \A q \in Resting(buys)' : q <= Cap
        BY <1>2, <2>6, <2>13, <3>1, <3>4 DEF BoundInv, RestingInv
      <4>2. Cardinality(Purchases) + Cardinality(Sending) <= Cardinality(Runs) + blind
        BY <3>1 DEF BoundInv, RestingInv
      <4>3. Cardinality(Sending') \in Nat /\ Cardinality(Sending') + 1 = Cardinality(Sending)
        BY <2>10, <2>13, <3>2
      <4>4. Cardinality(Purchases') + Cardinality(Sending') <= Cardinality(Runs) + blind'
        BY <1>2, <2>7, <3>2, <4>2, <4>3, SomeRuns
      <4> QED
        BY <3>2, <4>1, <4>4 DEF RestingInv
    <3>6. /\ Left(Claims)' = Left(Claims) /\ Left(NakedClaims)' = Left(NakedClaims)
      BY <2>7, <2>10, <2>13, <3>2
    <3>7. ExposureInv'
      <4>1. PICK w \in Worth : position + w <= MaxTarget + Cap * Left(Claims)
        BY DEF BoundInv, ExposureInv
      <4>2. w \in Worth' \/ w >= i.qty
        <5>1. CASE w = Cap \/ w \in Resting(buys)
          BY <3>4, <5>1 DEF Worth
        <5>2. ASSUME NEW s \in Claims, fetched[s], w = MaxTarget - heldQty[s]
              PROVE  w \in Worth' \/ w >= i.qty
          <6>1. CASE s = r
            BY <2>6, <2>7, <2>13, <5>2, <6>1, <1>1 DEF RunInv
          <6>2. CASE s # r
            <7>1. s \in Claims' /\ fetched'[s] /\ w = MaxTarget - heldQty'[s]
              BY <2>11, <5>2, <6>2
            <7> QED
              BY <7>1 DEF Worth
          <6> QED
            BY <6>1, <6>2
        <5> QED
          BY <5>1, <5>2 DEF Worth
      <4>3. w \in Nat /\ Cap * Left(Claims) \in Int
        <5>1. w \in Nat
          BY <1>1, WorthPositive DEF Positive, BoundInv
        <5> QED
          BY <2>7, <5>1, TimesCap
      <4>4. CASE w \in Worth'
        <5>1. position' + w <= MaxTarget + Cap * Left(Claims)'
          BY <3>1, <3>6, <4>1
        <5> QED
          BY <4>4, <5>1 DEF ExposureInv
      <4>5. CASE w >= i.qty
        <5>1. i.qty \in Worth'
          BY <3>4 DEF Worth
        <5>2. position' + i.qty <= MaxTarget + Cap * Left(Claims)
          BY <1>5, <2>6, <2>7, <2>13, <3>1, <4>1, <4>3, <4>5
        <5> QED
          BY <3>6, <5>1, <5>2 DEF ExposureInv
      <4> QED
        BY <4>2, <4>4, <4>5
    <3>8. NakedInv'
      <4>1. Naked' => Naked
        BY <1>5, <2>2, <3>1
      <4> QED
        BY <3>1, <3>6, <4>1 DEF BoundInv, NakedInv
    <3> QED
      BY <2>9, <3>5, <3>7, <3>8 DEF BoundInv
  <2> QED
    BY <2>3, <2>5, <2>12, <2>13
<1> QED
  BY <1>6, <1>7 DEF Send

-----------------------------------------------------------------------------
(* Steps of the exchange, and the theorems.                                *)

LEMMA ExchangeBound ==
    ASSUME BoundInv, Sound', Exchange
    PROVE  BoundInv'
<1>1. PICK q \in Sizes : FillBuy(q) \/ FillSell(q) \/ Trigger(q)
  BY DEF Exchange
<1>2. /\ LongInv /\ ExchangeInv /\ ExchangeInv' /\ position \in Nat /\ position' \in Nat
      /\ buys \in Books
  BY DEF BoundInv, Sound, LongInv, ExchangeInv
<1>3. UNCHANGED <<orderType, blind, pc, fetched, heldQty, seesProtection, seesPlain, pending>>
  BY DEF Exchange, snapshot
<1>4. Claims' = Claims /\ NakedClaims' = NakedClaims /\ Sending' = Sending
  BY <1>3 DEF Claims, NakedClaims, Sending, Reading, Looking, Ready
<1>5. PICK r : r \in Runs
  BY RunsAssumption
<1>6. OthersKept(r)
  BY <1>3 DEF OthersKept
<1>7. PurchaseInv'
  BY <1>3 DEF BoundInv, PurchaseInv
<1>8. CASE FillSell(q) \/ Trigger(q)
  <2>1. buys' = buys /\ position' = position - Reduction(q) /\ Strip
    BY <1>8 DEF FillSell, Trigger
  <2>2. position' <= position
    BY <1>2, <2>1, SizesPositive DEF Reduction, Smaller, Larger
  <2>3. RestingInv'
    BY <1>3, <1>4, <1>5, <1>6, <2>1, RestingQuiet DEF BoundInv
  <2>4. ExposureInv'
    BY <1>3, <1>4, <1>5, <1>6, <2>1, <2>2, ExposureQuiet DEF BoundInv
  <2>5. NakedInv'
    BY <2>1, StripEndsNaked DEF NakedInv
  <2> QED
    BY <1>7, <2>3, <2>4, <2>5 DEF BoundInv
<1>9. CASE FillBuy(q)
  <2>1. /\ q \in Resting(buys) /\ buys' = [buys EXCEPT ![q] = @ - 1]
        /\ position' = position + q /\ KeepHistory /\ UNCHANGED <<sells, algo>>
    BY <1>9 DEF FillBuy
  <2>2. q \in Nat /\ q > 0 /\ q <= Cap
    BY <2>1, SizesPositive DEF BoundInv, RestingInv
  <2>3. orderType = "limit"
    BY <1>2, <2>1 DEF BoundInv, RestingInv, Resting, Empty, ExchangeInv
  <2>4. /\ IsFiniteSet(Purchases') /\ Cardinality(Purchases') = Cardinality(Purchases) - 1
        /\ Cardinality(Purchases) > 0
    <3>1. IsFiniteSet(Purchases)
      BY DEF BoundInv, RestingInv
    <3> QED
      BY <1>2, <2>1, <3>1, OnePurchase
  <2>5. /\ Claims \in SUBSET Runs /\ NakedClaims \in SUBSET Runs /\ Sending \in SUBSET Runs
        /\ Left(Claims) \in Int /\ Left(NakedClaims) \in Int
        /\ blind \in Nat /\ Cardinality(Purchases) \in Nat
    BY Numbers DEF BoundInv
  <2>6. /\ Cardinality(NakedClaims) \in Nat /\ Cardinality(NakedClaims) <= Cardinality(Runs)
        /\ Cardinality(Claims) \in Nat /\ Cardinality(Sending) \in Nat
    BY <2>5, SomeRuns, FS_Subset, FS_CardinalityType
  <2>7. Cardinality(Purchases) + Cardinality(Sending) <= Cardinality(Runs) + blind
    BY <2>3 DEF BoundInv, RestingInv
  <2>8. Resting(buys) \ {q} \subseteq Resting(buys)' /\ Resting(buys)' \subseteq Resting(buys)
    <3>1. q \in Sizes /\ \A p \in Sizes : buys[p] \in Nat
      BY <1>2 DEF Books
    <3>2. \A p \in Sizes : buys'[p] = IF p = q THEN buys[p] - 1 ELSE buys[p]
      BY <1>2, <2>1 DEF Books
    <3>3. \A p \in Sizes : /\ buys'[p] > 0 => buys[p] > 0
                           /\ buys[p] > 0 /\ p # q => buys'[p] > 0
      BY <3>1, <3>2
    <3> QED
      BY <3>3 DEF Resting
  <2>9. RestingInv'
    <3>1. /\ orderType' = "limit" /\ \A p \in Resting(buys)' : p <= Cap
      BY <1>3, <2>3, <2>8 DEF BoundInv, RestingInv
    <3>2. Cardinality(Purchases') + Cardinality(Sending') <= Cardinality(Runs) + blind'
      BY <1>3, <1>4, <2>4, <2>5, <2>6, <2>7, SomeRuns
    <3> QED
      BY <2>4, <3>1, <3>2 DEF RestingInv
  <2>10. /\ Left(Claims)' = StaleOrders + 1 - (Cardinality(Purchases) - 1) - Cardinality(Claims)
         /\ Left(NakedClaims)' =
              StaleOrders + 1 - (Cardinality(Purchases) - 1) - Cardinality(NakedClaims)
    <3>1. StaleOrders' = StaleOrders
      BY <1>3 DEF StaleOrders
    <3> QED
      BY <1>4, <2>4, <3>1 DEF Left
  <2>11. StaleOrders = blind + 2 * Cardinality(Runs) - 1 /\ StaleOrders \in Int
    BY <2>3, <2>5, SomeRuns DEF StaleOrders
  <2>12. /\ Left(Claims)' \in Int /\ Left(Claims) + 1 <= Left(Claims)'
         /\ Left(NakedClaims)' \in Int /\ Left(NakedClaims) + 1 <= Left(NakedClaims)'
    BY <2>5, <2>6, <2>10, <2>11 DEF Left
  <2>13. Left(NakedClaims)' >= 1
    BY <2>5, <2>6, <2>7, <2>10, <2>11, SomeRuns
  <2>14. \A w \in Worth : w \in Worth' \/ w >= q
    <3>1. ASSUME NEW w \in Worth
          PROVE  w \in Worth' \/ w >= q
      <4>1. CASE w = q
        BY <2>2, <4>1
      <4>2. CASE w = Cap \/ (w \in Resting(buys) /\ w # q)
        BY <2>8, <4>2 DEF Worth
      <4>3. ASSUME NEW s \in Claims, fetched[s], w = MaxTarget - heldQty[s]
            PROVE  w \in Worth'
        <5>1. s \in Claims' /\ fetched'[s] /\ w = MaxTarget - heldQty'[s]
          BY <1>3, <1>4, <4>3
        <5> QED
          BY <5>1 DEF Worth
      <4> QED
        BY <4>1, <4>2, <4>3 DEF Worth
    <3> QED
      BY <3>1
  <2>15. Naked' => Naked \/ position = 0
    <3>1. Protected' <=> Protected
      BY <2>1 DEF Protected, Resting
    <3>2. ASSUME Naked'
          PROVE  ~Protected /\ ~stripped
      <4>1. position' > 0 /\ ~Protected' /\ ~stripped'
        BY <3>2 DEF Naked
      <4> QED
        BY <2>1, <3>1, <4>1, Zenon DEF KeepHistory
    <3>3. ASSUME Naked', position > 0
          PROVE  Naked
      BY <3>2, <3>3 DEF Naked
    <3> QED
      BY <1>2, <3>3
  <2>16. ExposureInv' /\ NakedInv'
    BY <1>3, <2>1, <2>2, <2>12, <2>13, <2>14, <2>15, Filled
  <2> QED
    BY <1>7, <2>9, <2>16 DEF BoundInv
<1> QED
  BY <1>1, <1>8, <1>9

LEMMA BoundInvInit == Init => BoundInv
<1> SUFFICES ASSUME Init PROVE BoundInv
  OBVIOUS
<1>1. Sound
  BY LongInvInit, BoundsAssumption DEF Init, Sound, BlindInv
<1>2. /\ position = 0 /\ buys = Empty /\ blind = 0 /\ orderType \in {"market", "limit"}
      /\ \A r \in Runs : pc[r] = "idle" /\ pending[r] = <<>>
  BY DEF Init
<1>3. Claims = {} /\ NakedClaims = {} /\ Sending = {}
  BY <1>2, IdleClaimsNothing DEF Claims, NakedClaims, Sending, Reading, Looking, Ready
<1>4. Purchases = {} /\ Resting(buys) = {}
  BY <1>2 DEF Purchases, Resting, Empty
<1>5. Cardinality({}) = 0 /\ IsFiniteSet({})
  BY FS_EmptySet
<1>6. PurchaseInv
  <2>1. Len(<<>>) = 0
    OBVIOUS
  <2> QED
    BY <1>2, <2>1 DEF PurchaseInv
<1>7. RestingInv
  BY <1>2, <1>3, <1>4, <1>5, SomeRuns DEF RestingInv
<1>8. ExposureInv
  <2>1. Left(Claims) \in Int /\ Left(Claims) >= 1
    BY <1>2, <1>3, <1>4, <1>5, SomeRuns DEF Left, StaleOrders
  <2>2. /\ Cap * 0 \in Int /\ Cap * 0 + Cap <= Cap * Left(Claims) /\ Cap \in Nat
        /\ Cap * Left(Claims) \in Int
    BY <2>1, TimesCap
  <2>3. Cap * 0 = 0
    BY <2>2
  <2>4. MaxTarget \in Nat
    BY MaxTargetAssumption, TargetsAssumption
  <2>5. position + Cap <= MaxTarget + Cap * Left(Claims)
    BY <1>2, <2>2, <2>3, <2>4
  <2>6. Cap \in Worth
    BY DEF Worth
  <2> QED
    BY <2>5, <2>6 DEF ExposureInv
<1>9. NakedInv
  BY <1>2 DEF NakedInv, Naked
<1> QED
  BY <1>1, <1>6, <1>7, <1>8, <1>9 DEF BoundInv

LEMMA BoundInvStep == BoundInv /\ [Next]_vars => BoundInv'
<1> SUFFICES ASSUME BoundInv, [Next]_vars PROVE BoundInv'
  OBVIOUS
<1>1. Sound'
  BY LongInvStep, BlindInvStep DEF BoundInv, Sound
<1>2. CASE UNCHANGED vars
  <2>1. UNCHANGED <<orderType, position, buys, sells, algo, stripped, pc, fetched, heldQty,
                    seesProtection, seesPlain, pending, blind>>
    BY <1>2 DEF vars, exchange, snapshot
  <2>2. /\ Purchases' = Purchases /\ Claims' = Claims /\ NakedClaims' = NakedClaims
        /\ Sending' = Sending /\ StaleOrders' = StaleOrders /\ Resting(buys)' = Resting(buys)
    BY <2>1 DEF Purchases, Claims, NakedClaims, Sending, StaleOrders, Reading, Looking, Ready,
       Resting
  <2>3. PurchaseInv' /\ RestingInv'
    BY <2>1, <2>2 DEF BoundInv, PurchaseInv, RestingInv, Empty
  <2>4. ExposureInv'
    <3>1. Worth' = Worth /\ Left(Claims)' = Left(Claims)
      BY <2>1, <2>2 DEF Worth, Left
    <3> QED
      BY <2>1, <3>1 DEF BoundInv, ExposureInv
  <2>5. NakedInv'
    BY <2>1, <2>2, SameExchange DEF BoundInv, NakedInv, Left
  <2> QED
    BY <1>1, <2>3, <2>4, <2>5 DEF BoundInv
<1>3. CASE Exchange
  BY <1>1, <1>3, ExchangeBound
<1>4. ASSUME NEW r \in Runs, Run(r)
      PROVE  BoundInv'
  BY <1>1, <1>4, ReadPositionBound, ReadOrdersBound, CheckPlanBound, PlanUnsyncedBound,
     SendBound, StopBound, PlaceProtectionBound, CancelBound DEF Run
<1> QED
  BY <1>2, <1>3, <1>4 DEF Next

LEMMA BoundInvImplies == BoundInv => ExposureBound /\ NakedBound
<1> SUFFICES ASSUME BoundInv PROVE ExposureBound /\ NakedBound
  OBVIOUS
<1>1. /\ Claims \in SUBSET Runs /\ NakedClaims \in SUBSET Runs
      /\ Left(Claims) \in Int /\ Left(NakedClaims) \in Int /\ StaleOrders \in Int
      /\ Cardinality(Purchases) \in Nat /\ position \in Nat /\ MaxTarget \in Nat
  BY Numbers DEF BoundInv
<1>2. /\ IsFiniteSet(Claims) /\ Cardinality(Claims) \in Nat /\ Cardinality(NakedClaims) \in Nat
  BY <1>1, SomeRuns, FS_Subset, FS_CardinalityType
<1>3. Stale = Cap * StaleOrders
  BY DEF Stale, StaleOrders
<1>4. /\ Cap * StaleOrders \in Int /\ Cap * (StaleOrders + 1) = Cap * StaleOrders + Cap
      /\ Cap \in Nat
  BY <1>1, TimesCap
<1>5. ExposureBound
  <2>1. PICK w \in Worth : position + w <= MaxTarget + Cap * Left(Claims)
    BY DEF BoundInv, ExposureInv
  <2>2. w \in Nat /\ w > 0
    BY WorthPositive DEF Positive, BoundInv, Sound
  <2>3. CASE w = Cap
    <3>1. Left(Claims) <= StaleOrders + 1
      BY <1>1, <1>2 DEF Left
    <3>2. Cap * Left(Claims) \in Int /\ Cap * Left(Claims) <= Cap * (StaleOrders + 1)
      BY <1>1, <3>1, TimesCap
    <3> QED
      BY <1>1, <1>3, <1>4, <2>1, <2>3, <3>2 DEF ExposureBound
  <2>4. CASE w # Cap
    <3>1. Claims # {} \/ Resting(buys) # {}
      BY <2>4 DEF Worth
    <3>2. Cardinality(Claims) + Cardinality(Purchases) > 0
      <4>1. CASE Claims # {}
        <5>1. Cardinality(Claims) # 0
          BY <1>2, <4>1, FS_EmptySet
        <5> QED
          BY <1>1, <1>2, <5>1
      <4>2. CASE Resting(buys) # {}
        <5>1. Cardinality(Purchases) > 0
          BY <4>2, OnePurchase DEF BoundInv, Sound, LongInv, ExchangeInv, RestingInv
        <5> QED
          BY <1>1, <1>2, <5>1
      <4> QED
        BY <3>1, <4>1, <4>2
    <3>3. Left(Claims) <= StaleOrders
      BY <1>1, <1>2, <3>2 DEF Left
    <3>4. Cap * Left(Claims) \in Int /\ Cap * Left(Claims) <= Cap * StaleOrders
      BY <1>1, <3>3, TimesCap
    <3> QED
      BY <1>1, <1>3, <1>4, <2>1, <2>2, <3>4 DEF ExposureBound
  <2> QED
    BY <2>3, <2>4
<1>6. NakedBound
  <2>1. Left(NakedClaims) <= StaleOrders + 1
    BY <1>1, <1>2 DEF Left
  <2>2. /\ Cap * Left(NakedClaims) \in Int
        /\ Cap * Left(NakedClaims) <= Cap * (StaleOrders + 1)
    BY <1>1, <2>1, TimesCap
  <2>3. ASSUME Naked
        PROVE  position <= Cap + Stale
    <3>1. position <= Cap * Left(NakedClaims)
      BY <2>3 DEF BoundInv, NakedInv
    <3> QED
      BY <1>1, <1>3, <1>4, <2>2, <3>1
  <2> QED
    BY <2>3 DEF NakedBound, Naked
<1> QED
  BY <1>5, <1>6

\* However many runs overlap, whatever stops, fills and cancels do between the
\* reads and the sends of each, and however often one is killed and started
\* again, the position exceeds the largest target by no more than the orders
\* that were planned on an outdated snapshot (target_execution.py, pretrade.py).
THEOREM OvershootBounded == Spec => []ExposureBound
<1> QED
  BY BoundInvInit, BoundInvStep, BoundInvImplies, PTL DEF Spec

\* A position that never had a protective order stays within its first order
\* and those planned on an outdated snapshot: the pre-trade check lets no run
\* add to what it sees unprotected (pretrade.py).
THEOREM NakedBounded == Spec => []NakedBound
<1> QED
  BY BoundInvInit, BoundInvStep, BoundInvImplies, PTL DEF Spec

=============================================================================
