---------------------- MODULE ResilientExecutorProofs ----------------------
(***************************************************************************)
(* Theorems about ResilientExecutor, for every set of submitters, intents  *)
(* and outcomes and every retry limit.                                     *)
(***************************************************************************)
EXTENDS ResilientExecutor, TLAPS

\* The key of a submission is one of the ledger's keys.
LEMMA KeyInKeys ==
    ASSUME NEW i \in Intents, NEW n \in 0 .. MaxRuns
    PROVE  Key(i, n) \in Keys
BY ConstantsAssumption DEF Key, Keys

\* A resolved submission writes a resolved status, and submitted only after
\* an accepted call.
LEMMA FinalStatusWritten ==
    ASSUME NEW os
    PROVE  /\ FinalStatus(os) \in {"submitted", "unknown_order_state", "failed"}
           /\ FinalStatus(os) = "submitted" => os[Len(os)] = "ok"
BY DEF FinalStatus, Retryable

---------------------------------------------------------------------------
(* Type correctness                                                        *)

\* Every reachable state has the types TypeOK gives the ledger, the submitters
\* and the exchange.
THEOREM TypeCorrect == Spec => []TypeOK
<1> USE ConstantsAssumption DEF TypeOK, PCs, Statuses
<1>1. Init => TypeOK
  BY DEF Init
<1>2. TypeOK /\ [Next]_vars => TypeOK'
  <2> SUFFICES ASSUME TypeOK, [Next]_vars
               PROVE  TypeOK'
    OBVIOUS
  <2>1. ASSUME NEW s \in Submitters, NEW i \in Intents, ReadLedger(s, i)
        PROVE  TypeOK'
    <3>1. runs[i] + 1 \in 0 .. MaxRuns
      BY <2>1 DEF ReadLedger
    <3>2. Key(i, runs[i] + 1) \in Keys
      BY <3>1, KeyInKeys
    <3>. QED
      BY <2>1, <3>1, <3>2 DEF ReadLedger, ledger, exchange
  <2>2. ASSUME NEW s \in Submitters, DuplicateBlocked(s)
        PROVE  TypeOK'
    BY <2>2 DEF DuplicateBlocked, Forget, ledger, exchange, bounds
  <2>3. ASSUME NEW s \in Submitters, Reserve(s)
        PROVE  TypeOK'
    BY <2>3 DEF Reserve, exchange, bounds
  <2>4. ASSUME NEW s \in Submitters, NEW o \in Outcomes, CallExchange(s, o)
        PROVE  TypeOK'
    <3>1. live' \in [Keys -> Nat] /\ inDoubt' \in [Keys -> Nat]
      BY <2>4 DEF CallExchange
    <3>2. outcomes' \in [Submitters -> Seq(AllOutcomes)]
      BY <2>4 DEF CallExchange
    <3>3. pc' \in [Submitters -> PCs]
      BY <2>4 DEF CallExchange
    <3>4. \A t \in Submitters : pc'[t] # "idle" => pc[t] # "idle"
      BY <2>4 DEF CallExchange
    <3>. QED
      BY <2>4, <3>1, <3>2, <3>3, <3>4 DEF CallExchange, ledger, bounds
  <2>5. ASSUME NEW s \in Submitters, LogAttempt(s)
        PROVE  TypeOK'
    <3>1. key[s] \in Keys
      BY <2>5 DEF LogAttempt
    <3>2. attemptRows' \in [Keys -> Nat]
      BY <2>5, <3>1 DEF LogAttempt
    <3>. QED
      BY <2>5, <3>2 DEF LogAttempt, exchange, bounds
  <2>6. ASSUME NEW s \in Submitters, Finish(s)
        PROVE  TypeOK'
    <3>1. <<"ok">> \in Seq(AllOutcomes)
      BY DEF AllOutcomes
    <3>2. FinalStatus(outcomes[s]) \in Statuses
      BY FinalStatusWritten
    <3>. QED
      BY <2>6, <3>1, <3>2 DEF Finish, Forget, exchange, bounds
  <2>7. ASSUME NEW s \in Submitters, Crash(s)
        PROVE  TypeOK'
    <3>1. inDoubt' \in [Keys -> Nat] /\ crashes' \in 0 .. MaxCrashes
      <4>1. CASE UNCHANGED inDoubt
        BY <2>7, <4>1 DEF Crash
      <4>2. CASE inDoubt' = [inDoubt EXCEPT ![key[s]] = @ + 1]
        BY <2>7, <4>2 DEF Crash
      <4>. QED
        BY <2>7, <4>1, <4>2 DEF Crash
    <3>2. Forget(s) /\ UNCHANGED <<ledger, live, liberties, runs>>
      BY <2>7 DEF Crash
    <3>. QED
      BY <3>1, <3>2 DEF Forget, ledger
  <2>8. ASSUME NEW k \in Keys, Arrive(k)
        PROVE  TypeOK'
    BY <2>8 DEF Arrive, ledger, memory, bounds
  <2>9. ASSUME NEW k \in Keys, NeverArrives(k)
        PROVE  TypeOK'
    BY <2>9 DEF NeverArrives, ledger, memory, bounds
  <2>10. CASE UNCHANGED vars
    BY <2>10 DEF vars
  <2>. QED
    BY <2>1, <2>2, <2>3, <2>4, <2>5, <2>6, <2>7, <2>8, <2>9, <2>10
    DEF Next, Step
<1>. QED
  BY <1>1, <1>2, PTL DEF Spec

---------------------------------------------------------------------------
(* Any number of submitters: write-ahead, and what submitted means         *)

\* WriteAhead and SubmittedIsLive are not inductive: a submitter that is about
\* to call relies on its row being there, whoever overwrote it since, and one
\* that is about to write submitted relies on the accepted order.
LedgerInv ==
    /\ WriteAhead
    /\ SubmittedIsLive
    /\ \A s \in Submitters :
        /\ pc[s] \in {"calling", "logging"} => status[key[s]] # "absent"
        /\ pc[s] = "logging" /\ outcomes[s][Len(outcomes[s])] = "ok"
              => live[key[s]] > 0

\* A step never removes a row, and never makes an accepted order disappear.
LEMMA RowsAndOrdersStay ==
    ASSUME TypeOK, [Next]_vars, NEW k \in Keys
    PROVE  /\ status[k] # "absent" => status'[k] # "absent"
           /\ live'[k] >= live[k]
<1> USE ConstantsAssumption DEF TypeOK, PCs, Statuses
<1>0. live[k] \in Nat
  OBVIOUS
<1>1. ASSUME NEW s \in Submitters, NEW i \in Intents, ReadLedger(s, i)
      PROVE  UNCHANGED <<status, live>>
  BY <1>1 DEF ReadLedger, ledger, exchange
<1>2. ASSUME NEW s \in Submitters, DuplicateBlocked(s)
      PROVE  UNCHANGED <<status, live>>
  BY <1>2 DEF DuplicateBlocked, ledger, exchange
<1>3. ASSUME NEW s \in Submitters, Reserve(s)
      PROVE  /\ status[k] # "absent" => status'[k] # "absent"
             /\ UNCHANGED live
  BY <1>3 DEF Reserve, exchange
<1>4. ASSUME NEW s \in Submitters, NEW o \in Outcomes, CallExchange(s, o)
      PROVE  UNCHANGED status /\ live'[k] >= live[k]
  BY <1>4 DEF CallExchange, ledger
<1>5. ASSUME NEW s \in Submitters, LogAttempt(s)
      PROVE  UNCHANGED <<status, live>>
  BY <1>5 DEF LogAttempt, exchange
<1>6. ASSUME NEW s \in Submitters, Finish(s)
      PROVE  /\ status[k] # "absent" => status'[k] # "absent"
             /\ UNCHANGED live
  BY <1>6, FinalStatusWritten DEF Finish, exchange
<1>7. ASSUME NEW s \in Submitters, Crash(s)
      PROVE  UNCHANGED <<status, live>>
  BY <1>7 DEF Crash, ledger
<1>8. ASSUME NEW j \in Keys, Arrive(j)
      PROVE  UNCHANGED status /\ live'[k] >= live[k]
  BY <1>8 DEF Arrive, ledger
<1>9. ASSUME NEW j \in Keys, NeverArrives(j)
      PROVE  UNCHANGED <<status, live>>
  BY <1>9 DEF NeverArrives, ledger
<1>10. CASE UNCHANGED vars
  BY <1>10 DEF vars
<1>. QED
  BY <1>0, <1>1, <1>2, <1>3, <1>4, <1>5, <1>6, <1>7, <1>8, <1>9, <1>10
  DEF Next, Step

\* Whatever the submitters race for and whoever is killed, an order at the
\* exchange has its row, and a submitted row has its order.
THEOREM LedgerSafe == Spec => [](WriteAhead /\ SubmittedIsLive)
<1> USE DEF LedgerInv
<1>1. Init => LedgerInv
  BY DEF Init, WriteAhead, SubmittedIsLive, Exposure
<1>2. TypeOK /\ LedgerInv /\ [Next]_vars => LedgerInv'
  <2> SUFFICES ASSUME TypeOK, LedgerInv, [Next]_vars
               PROVE  LedgerInv'
    OBVIOUS
  <2> USE ConstantsAssumption DEF TypeOK, PCs, Statuses, WriteAhead,
          SubmittedIsLive, Exposure
  <2>1. ASSUME NEW s \in Submitters, NEW i \in Intents, ReadLedger(s, i)
        PROVE  LedgerInv'
    BY <2>1 DEF ReadLedger, ledger, exchange
  <2>2. ASSUME NEW s \in Submitters, DuplicateBlocked(s)
        PROVE  LedgerInv'
    BY <2>2 DEF DuplicateBlocked, Forget, ledger, exchange
  <2>3. ASSUME NEW s \in Submitters, Reserve(s)
        PROVE  LedgerInv'
    BY <2>3 DEF Reserve, exchange
  <2>4. ASSUME NEW s \in Submitters, NEW o \in Outcomes, CallExchange(s, o)
        PROVE  LedgerInv'
    <3>1. \A k \in Keys : status'[k] = status[k] /\ live'[k] >= live[k]
      BY <2>4, RowsAndOrdersStay DEF CallExchange, ledger
    <3>2. WriteAhead' /\ SubmittedIsLive'
      BY <2>4, <3>1 DEF CallExchange, ledger
    <3>3. ASSUME NEW t \in Submitters
          PROVE  LedgerInv!3!(t)'
      <4>1. CASE t = s
        BY <2>4, <4>1 DEF CallExchange, ledger, TryAgain, Retryable
      <4>2. CASE t # s
        BY <2>4, <3>1, <4>2 DEF CallExchange, ledger
      <4>. QED
        BY <4>1, <4>2
    <3>. QED
      BY <3>2, <3>3
  <2>5. ASSUME NEW s \in Submitters, LogAttempt(s)
        PROVE  LedgerInv'
    BY <2>5 DEF LogAttempt, exchange
  <2>6. ASSUME NEW s \in Submitters, Finish(s)
        PROVE  LedgerInv'
    BY <2>6, FinalStatusWritten DEF Finish, Forget, exchange
  <2>7. ASSUME NEW s \in Submitters, Crash(s)
        PROVE  LedgerInv'
    BY <2>7 DEF Crash, Forget, ledger
  <2>8. ASSUME NEW k \in Keys, Arrive(k)
        PROVE  LedgerInv'
    BY <2>8 DEF Arrive, ledger, memory
  <2>9. ASSUME NEW k \in Keys, NeverArrives(k)
        PROVE  LedgerInv'
    BY <2>9 DEF NeverArrives, ledger, memory
  <2>10. CASE UNCHANGED vars
    BY <2>10 DEF vars
  <2>. QED
    BY <2>1, <2>2, <2>3, <2>4, <2>5, <2>6, <2>7, <2>8, <2>9, <2>10
    DEF Next, Step
<1>. QED
  BY <1>1, <1>2, TypeCorrect, PTL DEF Spec

\* Any number of submitters, retries and kills: the ledger says submitted only
\* of a key with an order at the exchange.
THEOREM SubmittedIsTrue == Spec => []SubmittedIsLive
BY LedgerSafe, PTL

---------------------------------------------------------------------------
(* The audit table                                                         *)

\* AuditCoversResult strengthened: what a submitter has logged are rows of its
\* key, so the result it is about to write, at most its calls, is covered, and
\* so is every result another run of the key has written.
AuditInv ==
    /\ \A k \in Keys : attemptRows[k] >= Len(result[k])
    /\ \A s \in Submitters :
        /\ IF pc[s] = "idle" THEN logged[s] = 0 ELSE attemptRows[key[s]] >= logged[s]
        /\ pc[s] = "logging" => Len(outcomes[s]) >= 1

\* A submitter that ends leaves what it had logged in the table.
LEMMA ForgettingKeepsAudit ==
    ASSUME TypeOK, AuditInv, NEW s \in Submitters, Forget(s),
           UNCHANGED <<result, attemptRows>>
    PROVE  AuditInv'
BY DEF TypeOK, PCs, AuditInv, Forget

\* The audit table never has fewer rows of a key than the result the ledger
\* lists for it, whoever crashed or overwrote whom.
THEOREM AuditComplete == Spec => []AuditCoversResult
<1>1. Init => AuditInv
  BY DEF Init, AuditInv
<1>2. TypeOK /\ AuditInv /\ [Next]_vars => AuditInv'
  <2> SUFFICES ASSUME TypeOK, AuditInv, [Next]_vars
               PROVE  AuditInv'
    OBVIOUS
  <2> USE ConstantsAssumption DEF TypeOK, PCs, AuditInv
  <2>1. ASSUME NEW s \in Submitters, NEW i \in Intents, ReadLedger(s, i)
        PROVE  AuditInv'
    <3>1. Key(i, runs[i] + 1) \in Keys
      BY <2>1, KeyInKeys DEF ReadLedger
    <3>. QED
      BY <2>1, <3>1 DEF ReadLedger, ledger
  <2>2. ASSUME NEW s \in Submitters, DuplicateBlocked(s)
        PROVE  AuditInv'
    BY <2>2, ForgettingKeepsAudit DEF DuplicateBlocked, ledger
  <2>3. ASSUME NEW s \in Submitters, Reserve(s)
        PROVE  AuditInv'
    BY <2>3 DEF Reserve
  <2>4. ASSUME NEW s \in Submitters, NEW o \in Outcomes, CallExchange(s, o)
        PROVE  AuditInv'
    <3>1. /\ UNCHANGED <<result, attemptRows, key, logged>>
          /\ \A t \in Submitters : pc'[t] = "idle" <=> pc[t] = "idle"
      BY <2>4 DEF CallExchange, ledger
    <3>2. Len(outcomes'[s]) >= 1
      BY <2>4 DEF CallExchange
    <3>3. ASSUME NEW t \in Submitters, t # s
          PROVE  pc'[t] = pc[t] /\ outcomes'[t] = outcomes[t]
      BY <2>4, <3>3 DEF CallExchange
    <3>. QED
      BY <3>1, <3>2, <3>3
  <2>5. ASSUME NEW s \in Submitters, LogAttempt(s)
        PROVE  AuditInv'
    <3>1. key[s] \in Keys /\ attemptRows[key[s]] >= logged[s]
      BY <2>5 DEF LogAttempt
    <3>2. /\ UNCHANGED <<result, pc, key, outcomes>>
          /\ \A k \in Keys : attemptRows'[k] >= attemptRows[k]
          /\ attemptRows'[key[s]] = attemptRows[key[s]] + 1
          /\ logged'[s] = logged[s] + 1
          /\ \A t \in Submitters : t # s => logged'[t] = logged[t]
      BY <2>5, <3>1 DEF LogAttempt
    <3>3. ASSUME NEW k \in Keys
          PROVE  attemptRows'[k] >= Len(result'[k])
      <4>1. attemptRows[k] \in Nat /\ attemptRows'[k] \in Nat /\ Len(result[k]) \in Nat
        BY <2>5, <3>1 DEF LogAttempt
      <4>. QED
        BY <3>2, <4>1
    <3>4. ASSUME NEW t \in Submitters, pc[t] # "idle"
          PROVE  attemptRows'[key[t]] >= logged'[t]
      <4>1. key[t] \in Keys /\ attemptRows[key[t]] >= logged[t]
        BY <3>4
      <4>2. /\ attemptRows[key[t]] \in Nat
            /\ attemptRows'[key[t]] \in Nat
            /\ logged[t] \in Nat
        BY <2>5, <3>1, <4>1 DEF LogAttempt
      <4>3. attemptRows'[key[t]] >= attemptRows[key[t]]
        BY <3>2, <4>1
      <4>4. CASE t = s
        BY <3>2, <4>1, <4>2, <4>4
      <4>5. CASE t # s
        BY <3>2, <4>1, <4>2, <4>3, <4>5
      <4>. QED
        BY <4>4, <4>5
    <3>5. pc[s] # "idle"
      BY <2>5 DEF LogAttempt
    <3>. QED
      BY <3>2, <3>3, <3>4, <3>5
  <2>6. ASSUME NEW s \in Submitters, Finish(s)
        PROVE  AuditInv'
    <3>1. /\ key[s] \in Keys
          /\ attemptRows[key[s]] >= Len(outcomes[s])
          /\ Len(outcomes[s]) >= 1
      BY <2>6 DEF Finish
    <3>2. Len(result'[key[s]]) <= Len(outcomes[s])
      BY <2>6, <3>1 DEF Finish
    <3>3. /\ UNCHANGED attemptRows
          /\ \A k \in Keys : k # key[s] => result'[k] = result[k]
      BY <2>6 DEF Finish
    <3>4. \A k \in Keys : attemptRows'[k] >= Len(result'[k])
      <4>1. <<"ok">> \in Seq(AllOutcomes)
        BY DEF AllOutcomes
      <4>2. result'[key[s]] \in Seq(AllOutcomes)
        BY <2>6, <3>1, <4>1 DEF Finish
      <4>3. /\ attemptRows[key[s]] \in Nat
            /\ Len(outcomes[s]) \in Nat
            /\ Len(result'[key[s]]) \in Nat
        BY <3>1, <4>2
      <4>4. attemptRows'[key[s]] >= Len(result'[key[s]])
        BY <3>1, <3>2, <3>3, <4>3
      <4>. QED
        BY <3>3, <4>4
    <3>5. Forget(s)
      BY <2>6 DEF Finish
    <3>. QED
      BY <3>3, <3>4, <3>5 DEF Forget
  <2>7. ASSUME NEW s \in Submitters, Crash(s)
        PROVE  AuditInv'
    BY <2>7, ForgettingKeepsAudit DEF Crash, ledger
  <2>8. ASSUME NEW k \in Keys, Arrive(k) \/ NeverArrives(k)
        PROVE  AuditInv'
    BY <2>8 DEF Arrive, NeverArrives, ledger, memory
  <2>9. CASE UNCHANGED vars
    BY <2>9 DEF vars
  <2>. QED
    BY <2>1, <2>2, <2>3, <2>4, <2>5, <2>6, <2>7, <2>8, <2>9 DEF Next, Step
<1>3. AuditInv => AuditCoversResult
  BY DEF AuditInv, AuditCoversResult
<1>. QED
  BY <1>1, <1>2, <1>3, TypeCorrect, PTL DEF Spec

---------------------------------------------------------------------------
(* One submitter at a time                                                 *)

\* When no runs overlap, at most one submitter is busy, an idle one holds
\* nothing, and the busy one knows its key: the status it read is still the
\* ledger's, and the row it reserved is still pending.
OwnerInv ==
    /\ \A s, t \in Submitters : pc[s] = "idle" \/ pc[t] = "idle" \/ s = t
    /\ \A s \in Submitters :
        /\ pc[s] = "idle" => key[s] = <<>>
        /\ pc[s] = "read" => found[s] = status[key[s]]
        /\ pc[s] \in {"calling", "logging"} => status[key[s]] = "pending"
        /\ pc[s] \in {"idle", "read"} => outcomes[s] = <<>>

\* The operator takes the same liberties for the whole behaviour.
LEMMA LibertiesKept == [Next]_vars => UNCHANGED liberties
BY DEF Next, Step, vars, bounds, memory, ReadLedger, DuplicateBlocked, Reserve,
       CallExchange, LogAttempt, Finish, Crash, Arrive, NeverArrives

\* Nobody else touches the ledger between a submitter's read and its update.
LEMMA OwnerInvariant == Spec => [](OneByOne => OwnerInv)
<1>1. Init => OwnerInv
  BY DEF Init, OwnerInv
<1>2. TypeOK /\ (OneByOne => OwnerInv) /\ [Next]_vars => (OneByOne => OwnerInv)'
  <2> SUFFICES ASSUME TypeOK, OneByOne => OwnerInv, [Next]_vars, OneByOne'
               PROVE  OwnerInv'
    OBVIOUS
  <2>0. OneByOne /\ OwnerInv
    BY LibertiesKept DEF OneByOne
  <2> USE <2>0, ConstantsAssumption DEF TypeOK, PCs, Statuses, OwnerInv, OneByOne
  <2>1. ASSUME NEW s \in Submitters, NEW i \in Intents, ReadLedger(s, i)
        PROVE  OwnerInv'
    BY <2>1 DEF ReadLedger, ledger
  <2>2. ASSUME NEW s \in Submitters, DuplicateBlocked(s)
        PROVE  OwnerInv'
    BY <2>2 DEF DuplicateBlocked, Forget
  <2>3. ASSUME NEW s \in Submitters, Reserve(s)
        PROVE  OwnerInv'
    BY <2>3 DEF Reserve
  <2>4. ASSUME NEW s \in Submitters, NEW o \in Outcomes, CallExchange(s, o)
        PROVE  OwnerInv'
    BY <2>4 DEF CallExchange, ledger
  <2>5. ASSUME NEW s \in Submitters, LogAttempt(s)
        PROVE  OwnerInv'
    BY <2>5 DEF LogAttempt
  <2>6. ASSUME NEW s \in Submitters, Finish(s)
        PROVE  OwnerInv'
    BY <2>6 DEF Finish, Forget
  <2>7. ASSUME NEW s \in Submitters, Crash(s)
        PROVE  OwnerInv'
    BY <2>7 DEF Crash, Forget
  <2>8. ASSUME NEW k \in Keys, Arrive(k) \/ NeverArrives(k)
        PROVE  OwnerInv'
    BY <2>8 DEF Arrive, NeverArrives, ledger, memory
  <2>9. CASE UNCHANGED vars
    BY <2>9 DEF vars
  <2>. QED
    BY <2>1, <2>2, <2>3, <2>4, <2>5, <2>6, <2>7, <2>8, <2>9 DEF Next, Step
<1>. QED
  BY <1>1, <1>2, TypeCorrect, PTL DEF Spec

\* Nobody but s is busy.
Alone(s) == \A t \in Submitters \ {s} : pc[t] = "idle" /\ key[t] = <<>>

\* When no runs overlap, whoever acts is alone, before and after.
LEMMA ActorAlone ==
    ASSUME TypeOK, OneByOne, OwnerInv, NEW s \in Submitters,
           (\E i \in Intents : ReadLedger(s, i)) \/ Step(s) \/ Crash(s)
    PROVE  Alone(s) /\ Alone(s)'
<1>1. CASE \E i \in Intents : ReadLedger(s, i)
  <2>1. Alone(s)
    BY <1>1 DEF ReadLedger, OneByOne, OwnerInv, Alone
  <2>. QED
    BY <1>1, <2>1 DEF ReadLedger, Alone, TypeOK
<1>2. CASE Step(s) \/ Crash(s)
  <2>1. pc[s] # "idle"
    BY <1>2 DEF Step, Crash, DuplicateBlocked, Reserve, CallExchange, LogAttempt, Finish
  <2>2. Alone(s)
    BY <2>1 DEF OwnerInv, Alone
  <2>3. \A t \in Submitters \ {s} : pc'[t] = pc[t] /\ key'[t] = key[t]
    <3>1. CASE DuplicateBlocked(s) \/ Finish(s) \/ Crash(s)
      BY <3>1 DEF DuplicateBlocked, Finish, Crash, Forget, TypeOK
    <3>2. CASE Reserve(s) \/ LogAttempt(s)
      BY <3>2 DEF Reserve, LogAttempt, TypeOK
    <3>3. CASE \E o \in Outcomes : CallExchange(s, o)
      BY <3>3 DEF CallExchange, TypeOK
    <3>. QED
      BY <1>2, <3>1, <3>2, <3>3 DEF Step
  <2>. QED
    BY <2>2, <2>3 DEF Alone
<1>. QED
  BY <1>1, <1>2

\* A call adds one order or one request in doubt to its key's exposure, or,
\* when it is refused, nothing.
LEMMA CallExposes ==
    ASSUME TypeOK, NEW s \in Submitters, NEW o \in Outcomes, CallExchange(s, o),
           key[s] \in Keys, NEW k \in Keys
    PROVE  Exposure(k)' = IF k = key[s] /\ (o = "ok" \/ LeavesDoubt(o))
                          THEN Exposure(k) + 1 ELSE Exposure(k)
<1> USE DEF TypeOK, Exposure
<1>1. live[k] \in Nat /\ inDoubt[k] \in Nat
  OBVIOUS
<1>2. CASE o = "ok"
  <2>1. live'[k] = IF k = key[s] THEN live[k] + 1 ELSE live[k]
    BY <1>2 DEF CallExchange
  <2>2. inDoubt'[k] = inDoubt[k]
    BY <1>2 DEF CallExchange, LeavesDoubt
  <2>. QED
    BY <1>1, <1>2, <2>1, <2>2
<1>3. CASE LeavesDoubt(o)
  <2>1. live'[k] = live[k]
    BY <1>3 DEF CallExchange, LeavesDoubt
  <2>2. inDoubt'[k] = IF k = key[s] THEN inDoubt[k] + 1 ELSE inDoubt[k]
    BY <1>3 DEF CallExchange
  <2>. QED
    BY <1>1, <1>3, <2>1, <2>2
<1>4. CASE o # "ok" /\ ~LeavesDoubt(o)
  BY <1>4 DEF CallExchange
<1>. QED
  BY <1>2, <1>3, <1>4

\* As long as no runs overlap the executor, with all its retries, lost
\* replies, interrupts and kills, implements the ledger's promise.
THEOREM LedgerImplemented == Spec => ImplementsLedger
<1>1. Init => Ledger!Init
  BY DEF Init, Ledger!Init, Phase, Exposure
<1>2. TypeOK /\ (OneByOne => OwnerInv) /\ [Next]_vars => [Ledger!Next]_(Ledger!vars)
  <2> SUFFICES ASSUME TypeOK, OneByOne => OwnerInv, [Next]_vars
               PROVE  [Ledger!Next]_(Ledger!vars)
    OBVIOUS
  <2> USE ConstantsAssumption DEF TypeOK, PCs, Statuses
  <2> DEFINE phase == [k \in Keys |-> IF OneByOne THEN Phase(k) ELSE "free"]
             exposure == [k \in Keys |-> IF OneByOne THEN Exposure(k) ELSE 0]
  <2>0. OneByOne' <=> OneByOne
    BY LibertiesKept DEF OneByOne
  <2>a. ASSUME ~OneByOne
        PROVE  UNCHANGED <<phase, exposure>>
    BY <2>0, <2>a
  <2>b. ASSUME OneByOne
        PROVE  /\ OneByOne' /\ OwnerInv
               /\ phase = [k \in Keys |-> Phase(k)]
               /\ exposure = [k \in Keys |-> Exposure(k)]
               /\ phase' = [k \in Keys |-> Phase(k)']
               /\ exposure' = [k \in Keys |-> Exposure(k)']
    BY <2>0, <2>b
  <2>1. ASSUME UNCHANGED status
        PROVE  UNCHANGED phase
    BY <2>0, <2>1 DEF Phase
  <2>2. ASSUME UNCHANGED exchange
        PROVE  UNCHANGED exposure
    BY <2>0, <2>2 DEF Exposure, exchange
  <2>3. ASSUME NEW k \in Keys, Ledger!Open(k) \/ Ledger!Send(k) \/ Ledger!Resolve(k) \/ Ledger!Vanish(k)
        PROVE  Ledger!Next
    BY <2>3 DEF Ledger!Next
  <2>4. ASSUME UNCHANGED <<phase, exposure>>
        PROVE  UNCHANGED Ledger!vars
    BY <2>4 DEF Ledger!vars
  <2> HIDE DEF phase, exposure
  <2> SUFFICES ASSUME OneByOne
               PROVE  [Ledger!Next]_(Ledger!vars)
    BY <2>a, <2>4
  <2> USE <2>b
  <2>5. ASSUME NEW s \in Submitters, NEW i \in Intents, ReadLedger(s, i)
        PROVE  UNCHANGED Ledger!vars
    BY <2>5, <2>1, <2>2, <2>4 DEF ReadLedger, ledger
  <2>6. ASSUME NEW s \in Submitters, DuplicateBlocked(s)
        PROVE  UNCHANGED Ledger!vars
    BY <2>6, <2>1, <2>2, <2>4 DEF DuplicateBlocked, ledger
  <2>7. ASSUME NEW s \in Submitters, Reserve(s)
        PROVE  Ledger!Next
    <3>1. key[s] \in Keys /\ status[key[s]] \in {"absent", "failed"}
      BY <2>7 DEF Reserve, OwnerInv, Blocking
    <3>2. phase[key[s]] = "free" /\ phase' = [phase EXCEPT ![key[s]] = "open"]
      <4>1. /\ Phase(key[s]) = "free"
            /\ \A k \in Keys : Phase(k)' = IF k = key[s] THEN "open" ELSE Phase(k)
        BY <2>7, <3>1 DEF Reserve, Phase
      <4>. QED
        BY <2>b, <3>1, <4>1
    <3>3. UNCHANGED exposure
      BY <2>7, <2>2 DEF Reserve
    <3>4. Ledger!Open(key[s])
      BY <3>2, <3>3 DEF Ledger!Open, phase, exposure
    <3>. QED
      BY <2>3, <3>1, <3>4
  <2>8. ASSUME NEW s \in Submitters, NEW o \in Outcomes, CallExchange(s, o)
        PROVE  Ledger!Next \/ UNCHANGED Ledger!vars
    <3>1. key[s] \in Keys /\ status[key[s]] = "pending"
      BY <2>8 DEF CallExchange, OwnerInv
    <3>2. UNCHANGED phase
      BY <2>8, <2>1 DEF CallExchange, ledger
    <3>3. CASE o = "ok" \/ LeavesDoubt(o)
      <4>1. exposure' = [exposure EXCEPT ![key[s]] = @ + 1]
        <5>1. ASSUME NEW k \in Keys
              PROVE  Exposure(k)' = IF k = key[s] THEN Exposure(k) + 1 ELSE Exposure(k)
          BY <2>8, <3>1, <3>3, CallExposes
        <5>. QED
          BY <3>1, <5>1 DEF exposure
      <4>2. Ledger!Send(key[s])
        BY <3>1, <3>2, <4>1 DEF Ledger!Send, Phase, phase, exposure
      <4>. QED
        BY <2>3, <3>1, <4>2
    <3>4. CASE ~(o = "ok" \/ LeavesDoubt(o))
      <4>1. UNCHANGED exchange
        BY <2>8, <3>4 DEF CallExchange, exchange
      <4>. QED
        BY <2>2, <2>4, <3>2, <4>1
    <3>. QED
      BY <3>3, <3>4
  <2>9. ASSUME NEW s \in Submitters, LogAttempt(s)
        PROVE  UNCHANGED Ledger!vars
    BY <2>9, <2>1, <2>2, <2>4 DEF LogAttempt
  <2>10. ASSUME NEW s \in Submitters, Finish(s)
        PROVE  Ledger!Next
    <3>1. key[s] \in Keys /\ status[key[s]] = "pending"
      BY <2>10 DEF Finish, OwnerInv
    <3>2. UNCHANGED exposure
      BY <2>10, <2>2 DEF Finish
    <3>3. /\ phase[key[s]] = "open"
          /\ \E p \in {"free", "closed"} : phase' = [phase EXCEPT ![key[s]] = p]
      <4>1. PICK p \in {"free", "closed"} :
              \A k \in Keys : Phase(k)' = IF k = key[s] THEN p ELSE Phase(k)
        BY <2>10, <3>1, FinalStatusWritten DEF Finish, Phase
      <4>2. Phase(key[s]) = "open"
        BY <3>1 DEF Phase
      <4>. QED
        BY <2>b, <3>1, <4>1, <4>2
    <3>4. Ledger!Resolve(key[s])
      BY <3>2, <3>3 DEF Ledger!Resolve, phase, exposure
    <3>. QED
      BY <2>3, <3>1, <3>4
  <2>11. ASSUME NEW s \in Submitters, Crash(s)
        PROVE  Ledger!Next \/ UNCHANGED Ledger!vars
    <3>1. UNCHANGED phase
      BY <2>11, <2>1 DEF Crash, ledger
    <3>2. CASE UNCHANGED inDoubt
      BY <2>11, <2>2, <2>4, <3>1, <3>2 DEF Crash, exchange
    <3>3. CASE pc[s] = "calling" /\ inDoubt' = [inDoubt EXCEPT ![key[s]] = @ + 1]
      <4>1. key[s] \in Keys /\ status[key[s]] = "pending"
        BY <3>3 DEF OwnerInv
      <4>2. exposure' = [exposure EXCEPT ![key[s]] = @ + 1]
        <5>1. ASSUME NEW k \in Keys
              PROVE  Exposure(k)' = IF k = key[s] THEN Exposure(k) + 1 ELSE Exposure(k)
          BY <2>11, <3>3, <4>1 DEF Crash, Exposure
        <5>. QED
          BY <4>1, <5>1 DEF exposure
      <4>3. Ledger!Send(key[s])
        BY <3>1, <4>1, <4>2 DEF Ledger!Send, Phase, phase, exposure
      <4>. QED
        BY <2>3, <4>1, <4>3
    <3>. QED
      BY <2>11, <3>2, <3>3 DEF Crash
  <2>12. ASSUME NEW k \in Keys, Arrive(k)
        PROVE  UNCHANGED Ledger!vars
    <3>1. UNCHANGED exposure
      BY <2>12 DEF Arrive, Exposure, exposure
    <3>. QED
      BY <2>12, <2>1, <2>4, <3>1 DEF Arrive, ledger
  <2>13. ASSUME NEW k \in Keys, NeverArrives(k)
        PROVE  Ledger!Next
    <3>1. UNCHANGED phase
      BY <2>13, <2>1 DEF NeverArrives, ledger
    <3>2. exposure[k] > 0 /\ exposure' = [exposure EXCEPT ![k] = @ - 1]
      <4>1. ASSUME NEW j \in Keys
            PROVE  Exposure(j)' = IF j = k THEN Exposure(j) - 1 ELSE Exposure(j)
        BY <2>13 DEF NeverArrives, Exposure
      <4>2. Exposure(k) > 0
        BY <2>13 DEF NeverArrives, Exposure
      <4>. QED
        BY <4>1, <4>2 DEF exposure
    <3>3. Ledger!Vanish(k)
      BY <3>1, <3>2 DEF Ledger!Vanish, phase, exposure
    <3>. QED
      BY <2>3, <3>3
  <2>14. CASE UNCHANGED vars
    BY <2>14, <2>1, <2>2, <2>4 DEF vars, exchange
  <2>. QED
    BY <2>5, <2>6, <2>7, <2>8, <2>9, <2>10, <2>11, <2>12, <2>13, <2>14
    DEF Next, Step
<1>. QED
  BY <1>1, <1>2, TypeCorrect, OwnerInvariant, PTL DEF Spec, Ledger!Spec, ImplementsLedger

---------------------------------------------------------------------------
(* How many orders the runs of one intent can expose                       *)

\* What the calls but the last of n runs can leave in doubt.
Allowance(i) == runs[i] * (MaxAttempts - 1)

\* What a submitter that works on k, a key of intent i, has spent so far: one
\* order or doubt for every call, the last excepted when it was refused.
Spent(s, k, i) ==
    /\ pc[s] # "idle"
    /\ pc[s] = "read" /\ found[s] \in {"absent", "failed"} =>
         Exposure(k) + (MaxAttempts - 1) <= Allowance(i)
    /\ pc[s] = "calling" =>
         /\ Len(outcomes[s]) < MaxAttempts
         /\ Exposure(k) + (MaxAttempts - 1) <= Allowance(i) + Len(outcomes[s])
    /\ pc[s] = "logging" /\ FinalStatus(outcomes[s]) = "failed" =>
         Exposure(k) <= Allowance(i)

\* ExposureBound strengthened by where the submitter is, and by what the
\* finished runs have left under a key that is free again.
KeyInv(k, i) ==
    /\ Exposure(k) <= Allowance(i) + 1
    /\ status[k] \in {"absent", "failed"} /\ (\A s \in Submitters : key[s] # k)
         => Exposure(k) <= Allowance(i)
    /\ \A s \in Submitters : key[s] = k => Spent(s, k, i)

ExposureInv == \A i \in Intents, n \in 0 .. MaxRuns : KeyInv(<<i, n>>, i)

\* A run adds the allowance of its calls but the last.
LEMMA AllowanceOfARun ==
    ASSUME TypeOK, NEW i \in Intents
    PROVE  /\ Allowance(i) \in Nat
           /\ runs'[i] = runs[i] => Allowance(i)' = Allowance(i)
           /\ runs'[i] = runs[i] + 1 => Allowance(i)' = Allowance(i) + (MaxAttempts - 1)
<1> DEFINE m == MaxAttempts - 1
<1>1. runs[i] \in Nat /\ m \in Nat
  BY ConstantsAssumption DEF TypeOK
<1>2. \A r \in Nat : r * m \in Nat /\ (r + 1) * m = r * m + m
  BY <1>1
<1>. QED
  BY <1>1, <1>2 DEF Allowance

\* When the operator takes no liberties, n runs of an intent expose at most
\* n * (MaxAttempts - 1) + 1 orders: one, if the policy makes a single attempt.
THEOREM ExposureBounded == Spec => []ExposureBound
<1> DEFINE M == MaxAttempts - 1
           Strict == liberties = {}
<1>1. Init => ExposureInv
  <2> SUFFICES ASSUME Init, NEW i \in Intents, NEW n \in 0 .. MaxRuns
               PROVE  KeyInv(<<i, n>>, i)
    BY DEF ExposureInv
  <2>1. Allowance(i) = 0
    BY ConstantsAssumption DEF Init, Allowance
  <2>2. Exposure(<<i, n>>) = 0
    BY DEF Init, Exposure, Keys
  <2>3. \A s \in Submitters : key[s] # <<i, n>>
    BY DEF Init
  <2>. QED
    BY <2>1, <2>2, <2>3 DEF KeyInv
<1>2. TypeOK /\ (OneByOne => OwnerInv) /\ (Strict => ExposureInv) /\ [Next]_vars
        => (Strict => ExposureInv)'
  <2> SUFFICES ASSUME TypeOK, OneByOne => OwnerInv, Strict => ExposureInv, [Next]_vars,
                      Strict', NEW i \in Intents, NEW n \in 0 .. MaxRuns
               PROVE  KeyInv(<<i, n>>, i)'
    BY DEF ExposureInv
  <2>0. /\ Strict /\ OneByOne /\ OwnerInv /\ ExposureInv
        /\ \A s \in Submitters, o \in Outcomes : CallExchange(s, o) => o # "interrupted"
    <3>1. Strict
      BY LibertiesKept
    <3>. QED
      BY <3>1 DEF OneByOne, CallExchange
  <2> USE <2>0
  <2> HIDE DEF Strict
  <2> DEFINE k == <<i, n>>
             Free(st) == st \in {"absent", "failed"}
  <2>1. /\ k \in Keys /\ k # <<>>
        /\ Allowance(i) \in Nat
        /\ Exposure(k) \in Nat
        /\ M \in Nat
        /\ MaxAttempts = M + 1
        /\ \A s \in Submitters : Len(outcomes[s]) \in Nat
    <3>1. k \in Keys /\ Allowance(i) \in Nat
      BY AllowanceOfARun DEF Keys
    <3>2. Exposure(k) \in Nat
      BY <3>1 DEF TypeOK, Exposure
    <3>3. M \in Nat /\ MaxAttempts = M + 1
      BY ConstantsAssumption
    <3>4. \A s \in Submitters : Len(outcomes[s]) \in Nat
      BY DEF TypeOK
    <3>5. k # <<>>
      OBVIOUS
    <3>. QED
      BY <3>1, <3>2, <3>3, <3>4, <3>5
  <2>2. ASSUME NEW s \in Submitters, Alone(s)
        PROVE  /\ Exposure(k) <= Allowance(i) + 1
               /\ Free(status[k]) /\ key[s] # k => Exposure(k) <= Allowance(i)
               /\ key[s] = k => Spent(s, k, i)
    <3>1. KeyInv(k, i)
      BY DEF ExposureInv
    <3>2. key[s] # k => \A t \in Submitters : key[t] # k
      BY <2>1, <2>2 DEF Alone
    <3>. QED
      BY <3>1, <3>2 DEF KeyInv
  <2>3. ASSUME NEW s \in Submitters, Alone(s)',
               Exposure(k)' <= Allowance(i)' + 1,
               Free(status'[k]) /\ key'[s] # k => Exposure(k)' <= Allowance(i)',
               key'[s] = k => Spent(s, k, i)'
        PROVE  KeyInv(k, i)'
    <3>1. \A t \in Submitters : key'[t] = k => t = s
      BY <2>1, <2>3 DEF Alone
    <3>. QED
      BY <2>3, <3>1 DEF KeyInv
  <2>4. ASSUME UNCHANGED runs
        PROVE  Allowance(i)' = Allowance(i)
    BY <2>4, AllowanceOfARun
  <2>5. ASSUME UNCHANGED exchange
        PROVE  Exposure(k)' = Exposure(k)
    BY <2>5 DEF Exposure, exchange
  <2>6. ASSUME NEW s \in Submitters, NEW j \in Intents, ReadLedger(s, j)
        PROVE  KeyInv(k, i)'
    <3>0. Alone(s) /\ Alone(s)'
      BY <2>6, ActorAlone DEF Step
    <3> USE <3>0
    <3>1. Exposure(k)' = Exposure(k) /\ UNCHANGED status
      BY <2>6, <2>5 DEF ReadLedger, ledger
    <3>2. /\ Allowance(i)' \in Nat
          /\ Allowance(i)' >= Allowance(i)
          /\ i = j => Allowance(i)' = Allowance(i) + M
      <4>1. runs'[i] = runs[i] \/ runs'[i] = runs[i] + 1
        BY <2>6 DEF ReadLedger, TypeOK
      <4>2. i = j => runs'[i] = runs[i] + 1
        BY <2>6 DEF ReadLedger, TypeOK
      <4>. QED
        BY <2>1, <4>1, <4>2, AllowanceOfARun
    <3>3. key[s] # k
      BY <2>2, <2>6 DEF ReadLedger, Spent
    <3>4. pc'[s] = "read" /\ key'[s] = Key(j, runs[j] + 1) /\ found'[s] = status[key'[s]]
      BY <2>6 DEF ReadLedger, TypeOK
    <3>5. CASE key'[s] = k
      <4>1. i = j
        BY <3>4, <3>5 DEF Key
      <4>2. found'[s] \in {"absent", "failed"} => Exposure(k) <= Allowance(i)
        BY <2>2, <3>3, <3>4, <3>5
      <4>3. found'[s] \in {"absent", "failed"} => Exposure(k)' + M <= Allowance(i)'
        BY <2>1, <3>1, <3>2, <4>1, <4>2
      <4>4. Spent(s, k, i)'
        BY <3>4, <4>3 DEF Spent
      <4>. QED
        BY <2>1, <2>2, <2>3, <3>1, <3>2, <3>5, <4>4
    <3>6. CASE key'[s] # k
      BY <2>1, <2>2, <2>3, <3>1, <3>2, <3>3, <3>6
    <3>. QED
      BY <3>5, <3>6
  <2>7. ASSUME NEW s \in Submitters, Alone(s), Alone(s)', Forget(s), UNCHANGED status,
               Allowance(i)' = Allowance(i),
               Exposure(k)' <= Allowance(i) + 1,
               key[s] # k => Exposure(k)' = Exposure(k),
               key[s] = k /\ Free(status[k]) => Exposure(k)' <= Allowance(i)
        PROVE  KeyInv(k, i)'
    <3>1. key'[s] # k
      BY <2>1, <2>7 DEF Forget, TypeOK
    <3>. QED
      BY <2>2, <2>3, <2>7, <3>1
  <2>8. ASSUME NEW s \in Submitters, DuplicateBlocked(s)
        PROVE  KeyInv(k, i)'
    <3>0. Alone(s) /\ Alone(s)'
      BY <2>8, ActorAlone DEF Step
    <3> USE <3>0
    <3>1. /\ Exposure(k)' = Exposure(k)
          /\ UNCHANGED status
          /\ Allowance(i)' = Allowance(i)
          /\ Forget(s)
      BY <2>8, <2>4, <2>5 DEF DuplicateBlocked, ledger, bounds
    <3>2. key[s] = k => ~Free(status[k])
      BY <2>8 DEF DuplicateBlocked, OwnerInv, Blocking
    <3>. QED
      BY <2>2, <2>7, <3>1, <3>2
  <2>9. ASSUME NEW s \in Submitters, Reserve(s)
        PROVE  KeyInv(k, i)'
    <3>0. Alone(s) /\ Alone(s)'
      BY <2>9, ActorAlone DEF Step
    <3> USE <3>0
    <3>1. /\ Exposure(k)' = Exposure(k)
          /\ Allowance(i)' = Allowance(i)
          /\ UNCHANGED <<key, outcomes>>
          /\ pc'[s] = "calling"
          /\ key[s] # k => status'[k] = status[k]
      BY <2>9, <2>4, <2>5 DEF Reserve, bounds, TypeOK
    <3>2. key[s] = k => Spent(s, k, i)'
      <4>1. outcomes[s] = <<>> /\ Free(found[s]) /\ pc[s] = "read"
        BY <2>9 DEF Reserve, OwnerInv, Blocking, TypeOK, Statuses
      <4>2. Len(outcomes'[s]) = 0
        BY <3>1, <4>1
      <4>. QED
        BY <2>1, <2>2, <3>1, <4>1, <4>2 DEF Spent
    <3>. QED
      BY <2>1, <2>2, <2>3, <3>1, <3>2
  <2>10. ASSUME NEW s \in Submitters, NEW o \in Outcomes, CallExchange(s, o)
         PROVE  KeyInv(k, i)'
    <3>0. Alone(s) /\ Alone(s)'
      BY <2>10, ActorAlone DEF Step
    <3> USE <3>0
    <3> DEFINE len == Len(outcomes[s])
    <3>1. /\ Allowance(i)' = Allowance(i)
          /\ UNCHANGED <<key, status>>
          /\ key[s] \in Keys
          /\ pc[s] = "calling"
      BY <2>10, <2>4 DEF CallExchange, ledger, bounds, TypeOK
    <3>2. Exposure(k)' = IF k = key[s] /\ (o = "ok" \/ LeavesDoubt(o))
                         THEN Exposure(k) + 1 ELSE Exposure(k)
      BY <2>1, <2>10, <3>1, CallExposes
    <3>3. CASE key[s] = k
      <4>1. /\ len \in Nat /\ len < MaxAttempts
            /\ Exposure(k) + M <= Allowance(i) + len
        BY <2>1, <2>2, <3>1, <3>3 DEF Spent
      <4>2. /\ Len(outcomes'[s]) = len + 1
            /\ outcomes'[s][Len(outcomes'[s])] = o
        BY <2>10, ConstantsAssumption DEF CallExchange, TypeOK
      <4>3. ~Free(status'[k])
        BY <3>1, <3>3 DEF OwnerInv
      <4>4. Exposure(k)' <= Allowance(i)' + 1
        BY <2>1, <3>1, <3>2, <4>1
      <4>5. Spent(s, k, i)'
        <5>1. CASE TryAgain(o, len + 1)
          <6>1. pc'[s] = "calling" /\ len + 1 < MaxAttempts
            BY <2>10, <5>1 DEF CallExchange, TryAgain
          <6>. QED
            BY <2>1, <3>1, <3>2, <4>1, <4>2, <6>1 DEF Spent
        <5>2. CASE ~TryAgain(o, len + 1)
          <6>1. pc'[s] = "logging"
            BY <2>10, <5>2 DEF CallExchange, TypeOK
          <6>2. FinalStatus(outcomes[s])' = "failed" => ~(o = "ok" \/ LeavesDoubt(o))
            BY <2>10, <4>2 DEF FinalStatus, Retryable, LeavesDoubt
          <6>. QED
            BY <2>1, <3>1, <3>2, <4>1, <6>1, <6>2 DEF Spent
        <5>. QED
          BY <5>1, <5>2
      <4>. QED
        BY <2>3, <3>1, <3>3, <4>3, <4>4, <4>5
    <3>4. CASE key[s] # k
      BY <2>2, <2>3, <3>1, <3>2, <3>4
    <3>. QED
      BY <3>3, <3>4
  <2>11. ASSUME UNCHANGED <<status, key, pc, found, outcomes>>,
                Allowance(i)' = Allowance(i),
                Exposure(k)' \in Nat, Exposure(k)' <= Exposure(k)
         PROVE  KeyInv(k, i)'
    <3>1. \A s \in Submitters : Spent(s, k, i) => Spent(s, k, i)'
      BY <2>1, <2>11 DEF Spent
    <3>. QED
      <4>1. KeyInv(k, i)
        BY DEF ExposureInv
      <4>2. Exposure(k)' <= Allowance(i)' + 1
        BY <2>1, <2>11, <4>1 DEF KeyInv
      <4>3. status'[k] \in {"absent", "failed"} /\ (\A s \in Submitters : key'[s] # k)
              => Exposure(k)' <= Allowance(i)'
        BY <2>1, <2>11, <4>1 DEF KeyInv
      <4>4. \A s \in Submitters : key'[s] = k => Spent(s, k, i)'
        BY <2>11, <3>1, <4>1 DEF KeyInv
      <4>. QED
        BY <4>2, <4>3, <4>4 DEF KeyInv
  <2>12. ASSUME NEW s \in Submitters, LogAttempt(s)
         PROVE  KeyInv(k, i)'
    BY <2>1, <2>12, <2>4, <2>5, <2>11 DEF LogAttempt, bounds
  <2>13. ASSUME NEW s \in Submitters, Finish(s)
         PROVE  KeyInv(k, i)'
    <3>0. Alone(s) /\ Alone(s)'
      BY <2>13, ActorAlone DEF Step
    <3> USE <3>0
    <3>1. /\ Exposure(k)' = Exposure(k)
          /\ Allowance(i)' = Allowance(i)
          /\ pc[s] = "logging"
      BY <2>13, <2>4, <2>5 DEF Finish, bounds
    <3>2. key'[s] # k
      BY <2>1, <2>13 DEF Finish, Forget, TypeOK
    <3>3. key[s] # k => status'[k] = status[k]
      BY <2>13 DEF Finish, TypeOK
    <3>4. key[s] = k => status'[k] = FinalStatus(outcomes[s]) /\ status'[k] # "absent"
      BY <2>1, <2>13, FinalStatusWritten DEF Finish, TypeOK
    <3>5. key[s] = k /\ status'[k] = "failed" => Exposure(k) <= Allowance(i)
      BY <2>2, <3>1, <3>4 DEF Spent
    <3>. QED
      BY <2>2, <2>3, <3>1, <3>2, <3>3, <3>4, <3>5
  <2>14. ASSUME NEW s \in Submitters, Crash(s)
         PROVE  KeyInv(k, i)'
    <3>0. Alone(s) /\ Alone(s)'
      BY <2>14, ActorAlone DEF Step
    <3> USE <3>0
    <3>1. Allowance(i)' = Allowance(i) /\ UNCHANGED <<status, live>> /\ Forget(s)
      BY <2>14, <2>4 DEF Crash, ledger
    <3>2. CASE UNCHANGED inDoubt
      <4>1. Exposure(k)' = Exposure(k)
        BY <2>5, <3>1, <3>2 DEF exchange
      <4>2. pc[s] \in {"read", "calling", "logging"}
        BY <2>14 DEF Crash, TypeOK, PCs
      <4>3. key[s] = k /\ Free(status[k]) => pc[s] = "read" /\ found[s] = status[k]
        BY <4>2 DEF OwnerInv
      <4>4. key[s] = k /\ Free(status[k]) => Exposure(k) <= Allowance(i)
        BY <2>1, <2>2, <4>3 DEF Spent
      <4>. QED
        BY <2>2, <2>7, <3>1, <4>1, <4>4
    <3>3. CASE pc[s] = "calling" /\ inDoubt' = [inDoubt EXCEPT ![key[s]] = @ + 1]
      <4>1. Exposure(k)' = IF k = key[s] THEN Exposure(k) + 1 ELSE Exposure(k)
        <5>1. inDoubt'[k] = IF k = key[s] THEN inDoubt[k] + 1 ELSE inDoubt[k]
          BY <2>1, <3>3 DEF TypeOK
        <5>2. live[k] \in Nat /\ inDoubt[k] \in Nat
          BY <2>1 DEF TypeOK
        <5>. QED
          BY <3>1, <5>1, <5>2 DEF Exposure
      <4>2. key[s] = k => ~Free(status[k])
        BY <3>3 DEF OwnerInv
      <4>3. Exposure(k)' <= Allowance(i) + 1
        BY <2>1, <2>2, <3>3, <4>1 DEF Spent
      <4>. QED
        BY <2>2, <2>7, <3>1, <4>1, <4>2, <4>3
    <3>. QED
      BY <2>14, <3>2, <3>3 DEF Crash
  <2>15. ASSUME NEW j \in Keys, Arrive(j) \/ NeverArrives(j)
         PROVE  KeyInv(k, i)'
    <3>1. live[k] \in Nat /\ inDoubt[k] \in Nat
      BY <2>1 DEF TypeOK
    <3>2. \/ live'[k] = live[k] /\ inDoubt'[k] = inDoubt[k]
          \/ live'[k] \in {live[k], live[k] + 1} /\ inDoubt'[k] = inDoubt[k] - 1 /\ inDoubt[k] > 0
      <4>1. CASE Arrive(j)
        BY <2>1, <4>1 DEF Arrive, TypeOK
      <4>2. CASE NeverArrives(j)
        BY <2>1, <4>2 DEF NeverArrives, TypeOK
      <4>. QED
        BY <2>15, <4>1, <4>2
    <3>3. Exposure(k)' \in Nat /\ Exposure(k)' <= Exposure(k)
      BY <3>1, <3>2 DEF Exposure
    <3>4. /\ Allowance(i)' = Allowance(i)
          /\ UNCHANGED <<status, pc, key, found, outcomes>>
      BY <2>15, <2>4 DEF Arrive, NeverArrives, ledger, memory, bounds
    <3>. QED
      BY <2>11, <3>3, <3>4
  <2>16. CASE UNCHANGED vars
    BY <2>1, <2>16, <2>4, <2>5, <2>11 DEF vars, exchange
  <2>. QED
    BY <2>6, <2>8, <2>9, <2>10, <2>12, <2>13, <2>14, <2>15, <2>16 DEF Next, Step
<1>3. (Strict => ExposureInv) => ExposureBound
  BY DEF ExposureInv, KeyInv, ExposureBound, Allowance
<1> HIDE DEF Strict
<1>. QED
  BY <1>1, <1>2, <1>3, TypeCorrect, OwnerInvariant, PTL DEF Spec

===========================================================================
