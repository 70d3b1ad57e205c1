------------------------ MODULE ResilientExecutor -------------------------
(***************************************************************************)
(* Submission of an order intent through the retry executor and the        *)
(* SQLite idempotency ledger: ResilientExchangeExecutor.submit_intent,     *)
(* IdempotencyStore and RetryExecutor.run.                                 *)
(*                                                                         *)
(* A submitter is one process running one of the demo scripts.  Every      *)
(* sqlite connection is its own commit, so the ledger read of reserve, its *)
(* upsert, each appended attempt row and the final update are separate     *)
(* steps, and a process may be killed between any two of them.  A request  *)
(* whose reply is lost stays in doubt: the exchange may execute it later,  *)
(* or never.                                                               *)
(***************************************************************************)
EXTENDS Naturals, Sequences, FiniteSets

CONSTANTS
    Submitters,   \* processes that submit
    Intents,      \* order intents, each with its time bucket
    OwnId,        \* the intents that arrive with a client_order_id of their own
    MaxAttempts,  \* RetryPolicy.max_attempts
    Outcomes,     \* what a call of the exchange may end in, see AllOutcomes
    MaxRuns,      \* bound: submissions of one intent
    MaxCrashes    \* bound: processes killed while they submit

\* Starting a script before the last one has ended, and interrupting a call.
AllLiberties == {"overlap", "interrupt"}

AllOutcomes == {"ok", "lost", "lost_unlisted", "refused", "interrupted"}

ASSUME ConstantsAssumption ==
    /\ OwnId \subseteq Intents
    /\ MaxAttempts \in Nat \ {0}
    /\ Outcomes \subseteq AllOutcomes
    /\ MaxRuns \in Nat
    /\ MaxCrashes \in Nat

VARIABLES
    status,       \* idempotency_keys.status by key; "absent" when there is no row
    result,       \* idempotency_keys.result_json: the outcomes it lists
    attemptRows,  \* number of resilient_order_attempts rows by key
    live,         \* orders the exchange has accepted under a key
    inDoubt,      \* requests under a key whose fate is still open
    pc,           \* where each submitter is in submit_intent
    key,          \* the key it submits
    found,        \* the status its ledger read returned
    outcomes,     \* the outcomes of its calls: RetryResult.attempts
    logged,       \* how many of them it has appended to the audit table
    liberties,    \* what the operator allows himself, see AllLiberties
    runs,         \* submissions started, by intent
    crashes       \* processes killed so far

ledger == <<status, result, attemptRows>>
exchange == <<live, inDoubt>>
memory == <<pc, key, found, outcomes, logged>>
bounds == <<liberties, runs, crashes>>

vars == <<status, result, attemptRows, live, inDoubt,
          pc, key, found, outcomes, logged, liberties, runs, crashes>>

\* An intent without an id of its own gets one derived from its content and
\* its time bucket, the same on every run; the planner's ids are fresh (uuid4).
Key(i, n) == IF i \in OwnId THEN <<i, n>> ELSE <<i, 0>>

Keys == Intents \X (0 .. MaxRuns)

Statuses == {"absent", "pending", "submitted", "unknown_order_state", "failed"}

\* Faulty variants of Blocking: a status the ledger forgets to refuse.
BlockingButSubmitted == {"success", "unknown_order_state", "pending"}
BlockingButUnknown == {"submitted", "success", "pending"}

\* The statuses in which reserve refuses the key.
Blocking == {"submitted", "success", "unknown_order_state", "pending"}

\* Classification of an outcome: retryable, and in the policy's retry list.
Retryable(o) == o \in {"lost", "lost_unlisted"}
Listed(o) == o = "lost"

\* Outcomes after which the exchange may still execute the request.
LeavesDoubt(o) == o \in {"lost", "lost_unlisted", "interrupted"}

PCs == {"idle", "read", "calling", "logging"}

TypeOK ==
    /\ status \in [Keys -> Statuses]
    /\ result \in [Keys -> Seq(AllOutcomes)]
    /\ attemptRows \in [Keys -> Nat]
    /\ live \in [Keys -> Nat]
    /\ inDoubt \in [Keys -> Nat]
    /\ pc \in [Submitters -> PCs]
    /\ key \in [Submitters -> Keys \cup {<<>>}]
    /\ \A s \in Submitters : pc[s] # "idle" => key[s] \in Keys
    /\ found \in [Submitters -> Statuses]
    /\ outcomes \in [Submitters -> Seq(AllOutcomes)]
    /\ logged \in [Submitters -> Nat]
    /\ liberties \subseteq AllLiberties
    /\ runs \in [Intents -> 0 .. MaxRuns]
    /\ crashes \in 0 .. MaxCrashes

Init ==
    /\ status = [k \in Keys |-> "absent"]
    /\ result = [k \in Keys |-> <<>>]
    /\ attemptRows = [k \in Keys |-> 0]
    /\ live = [k \in Keys |-> 0]
    /\ inDoubt = [k \in Keys |-> 0]
    /\ pc = [s \in Submitters |-> "idle"]
    /\ key = [s \in Submitters |-> <<>>]
    /\ found = [s \in Submitters |-> "absent"]
    /\ outcomes = [s \in Submitters |-> <<>>]
    /\ logged = [s \in Submitters |-> 0]
    /\ liberties \in SUBSET AllLiberties
    /\ runs = [i \in Intents |-> 0]
    /\ crashes = 0

---------------------------------------------------------------------------
(* The steps of submit_intent with execute=True                            *)

\* The process ends, and with it everything it held in memory.
Forget(s) ==
    /\ pc' = [pc EXCEPT ![s] = "idle"]
    /\ key' = [key EXCEPT ![s] = <<>>]
    /\ found' = [found EXCEPT ![s] = "absent"]
    /\ outcomes' = [outcomes EXCEPT ![s] = <<>>]
    /\ logged' = [logged EXCEPT ![s] = 0]

\* with_idempotent_client_order_id, then the read at the head of reserve.
ReadLedger(s, i) ==
    LET k == Key(i, runs[i] + 1)
    IN  /\ pc[s] = "idle"
        /\ "overlap" \in liberties \/ \A t \in Submitters : pc[t] = "idle"
        /\ runs[i] < MaxRuns
        /\ runs' = [runs EXCEPT ![i] = @ + 1]
        /\ pc' = [pc EXCEPT ![s] = "read"]
        /\ key' = [key EXCEPT ![s] = k]
        /\ found' = [found EXCEPT ![s] = status[k]]
        /\ UNCHANGED <<ledger, exchange, outcomes, logged, liberties, crashes>>

DuplicateBlocked(s) ==
    /\ pc[s] = "read"
    /\ found[s] \in Blocking
    /\ Forget(s)
    /\ UNCHANGED <<ledger, exchange, bounds>>

\* Faulty variant of Reserve: the row is only written after the call.
ReserveWithoutRow(s) ==
    /\ pc[s] = "read"
    /\ found[s] \notin Blocking
    /\ pc' = [pc EXCEPT ![s] = "calling"]
    /\ UNCHANGED <<ledger, exchange, key, found, outcomes, logged, bounds>>

\* The upsert of reserve: it trusts the earlier read and keeps result_json.
Reserve(s) ==
    /\ pc[s] = "read"
    /\ found[s] \notin Blocking
    /\ status' = [status EXCEPT ![key[s]] = "pending"]
    /\ pc' = [pc EXCEPT ![s] = "calling"]
    /\ UNCHANGED <<result, attemptRows, exchange, key, found, outcomes, logged, bounds>>

\* Whether RetryExecutor.run calls again after attempt n ended in o.
TryAgain(o, n) == Retryable(o) /\ Listed(o) /\ n < MaxAttempts

CallExchange(s, o) ==
    /\ pc[s] = "calling"
    /\ o = "interrupted" => "interrupt" \in liberties
    /\ live' = IF o = "ok" THEN [live EXCEPT ![key[s]] = @ + 1] ELSE live
    /\ inDoubt' = IF LeavesDoubt(o) THEN [inDoubt EXCEPT ![key[s]] = @ + 1]
                                    ELSE inDoubt
    /\ outcomes' = [outcomes EXCEPT ![s] = Append(@, o)]
    /\ pc' = IF TryAgain(o, Len(outcomes[s]) + 1) THEN pc
             ELSE [pc EXCEPT ![s] = "logging"]
    /\ UNCHANGED <<ledger, key, found, logged, bounds>>

LogAttempt(s) ==
    /\ pc[s] = "logging"
    /\ logged[s] < Len(outcomes[s])
    /\ attemptRows' = [attemptRows EXCEPT ![key[s]] = @ + 1]
    /\ logged' = [logged EXCEPT ![s] = @ + 1]
    /\ UNCHANGED <<status, result, exchange, pc, key, found, outcomes, bounds>>

\* Faulty variants of FinalStatus: a lost reply counted as success, left
\* pending, or success under its other name.
LostIsSubmitted(os) == IF os[Len(os)] \in {"ok", "lost"} THEN "submitted" ELSE "failed"
LostStaysPending(os) == IF Retryable(os[Len(os)]) THEN "pending" ELSE "submitted"
OkIsSuccess(os) == IF os[Len(os)] = "ok" THEN "success" ELSE "failed"

\* The last error alone decides the status.
FinalStatus(os) ==
    LET last == os[Len(os)]
    IN  IF last = "ok" THEN "submitted"
        ELSE IF Retryable(last) THEN "unknown_order_state" ELSE "failed"

\* Faulty variant of Finish: the status is written before the audit rows.
FinishBeforeLog(s) ==
    LET st == FinalStatus(outcomes[s])
    IN  /\ pc[s] = "logging"
        /\ status' = [status EXCEPT ![key[s]] = st]
        /\ result' = [result EXCEPT ![key[s]] = outcomes[s]]
        /\ Forget(s)
        /\ UNCHANGED <<attemptRows, exchange, bounds>>

\* update_status, with the payload of the accepted call or the whole
\* retry record as result_json.
Finish(s) ==
    LET st == FinalStatus(outcomes[s])
    IN  /\ pc[s] = "logging"
        /\ logged[s] = Len(outcomes[s])
        /\ status' = [status EXCEPT ![key[s]] = st]
        /\ result' = [result EXCEPT ![key[s]] =
                         IF st = "submitted" THEN <<"ok">> ELSE outcomes[s]]
        /\ Forget(s)
        /\ UNCHANGED <<attemptRows, exchange, bounds>>

\* The process is killed; a request it was sending may or may not be out.
Crash(s) ==
    /\ pc[s] # "idle"
    /\ crashes < MaxCrashes
    /\ crashes' = crashes + 1
    /\ \/ UNCHANGED inDoubt
       \/ /\ pc[s] = "calling"
          /\ inDoubt' = [inDoubt EXCEPT ![key[s]] = @ + 1]
    /\ Forget(s)
    /\ UNCHANGED <<ledger, live, liberties, runs>>

---------------------------------------------------------------------------
(* The exchange decides on a request whose reply nobody waits for          *)

Arrive(k) ==
    /\ inDoubt[k] > 0
    /\ inDoubt' = [inDoubt EXCEPT ![k] = @ - 1]
    /\ live' = [live EXCEPT ![k] = @ + 1]
    /\ UNCHANGED <<ledger, memory, bounds>>

NeverArrives(k) ==
    /\ inDoubt[k] > 0
    /\ inDoubt' = [inDoubt EXCEPT ![k] = @ - 1]
    /\ UNCHANGED <<ledger, live, memory, bounds>>

---------------------------------------------------------------------------

Step(s) ==
    \/ DuplicateBlocked(s)
    \/ Reserve(s)
    \/ \E o \in Outcomes : CallExchange(s, o)
    \/ LogAttempt(s)
    \/ Finish(s)

Next ==
    \/ \E s \in Submitters, i \in Intents : ReadLedger(s, i)
    \/ \E s \in Submitters : Step(s) \/ Crash(s)
    \/ \E k \in Keys : Arrive(k) \/ NeverArrives(k)

Spec == Init /\ [][Next]_vars

\* A script that was started keeps running until it returns or is killed.
FairSpec == Spec /\ \A s \in Submitters : WF_vars(Step(s))

---------------------------------------------------------------------------
(* Properties for any number of submitters                                 *)

\* Orders, and requests that may become one, under a key.
Exposure(k) == live[k] + inDoubt[k]

\* Write-ahead: whatever crashes, the exchange never holds, and is never sent,
\* an order whose client order id the ledger has no row for, so every order
\* can be found again from the ledger.
WriteAhead == \A k \in Keys : Exposure(k) > 0 => status[k] # "absent"

\* The ledger says submitted only of a key with an order at the exchange, also
\* when several submitters overwrite each other's status.
SubmittedIsLive == \A k \in Keys : status[k] = "submitted" => live[k] > 0

\* The audit table: once nobody works on a key, it holds one row for every
\* call the recorded result lists, even if an earlier run of the key crashed.
AuditCoversResult ==
    \A k \in Keys :
        (\A s \in Submitters : key[s] # k) => attemptRows[k] >= Len(result[k])

\* A reservation is resolved unless a process is killed: nothing in the retry
\* loop or in the bookkeeping after it can leave a key pending for ever.
PendingResolves ==
    \A k \in Keys :
        (status[k] = "pending") ~> (status[k] # "pending" \/ crashes > 0)

---------------------------------------------------------------------------
(* Properties when the scripts are run one after the other                 *)

\* Only a run that ended in failed frees its key, and it may leave all its
\* calls but the last in doubt; so n runs of an intent, none of them
\* interrupted, expose at most n * (MaxAttempts - 1) + 1 orders, and
\* exactly-once holds for a policy of a single attempt.
ExposureBound ==
    liberties = {} =>
    \A i \in Intents, n \in 0 .. MaxRuns :
        Exposure(<<i, n>>) <= runs[i] * (MaxAttempts - 1) + 1

Phase(k) ==
    IF status[k] \in {"absent", "failed"} THEN "free"
    ELSE IF status[k] = "pending" THEN "open" ELSE "closed"

\* Runs that overlap upsert each other's rows; they promise nothing here.
OneByOne == "overlap" \notin liberties

Ledger == INSTANCE SubmissionLedger WITH
              phase <- [k \in Keys |-> IF OneByOne THEN Phase(k) ELSE "free"],
              exposure <- [k \in Keys |-> IF OneByOne THEN Exposure(k) ELSE 0]

\* As long as no runs overlap, the executor implements the ledger's promise:
\* nothing is sent under a key that is not pending, and submitted and
\* unknown_order_state are for ever.
ImplementsLedger == Ledger!Spec

---------------------------------------------------------------------------
(* What the documentation says                                             *)

\* docs/EXCHANGE_RESILIENCE.md section 3: a network error while submitting is
\* never taken for a failure, the row is marked unknown_order_state.
NetworkErrorIsNotFailure ==
    \A k \in Keys : status[k] = "failed" =>
        \A j \in 1 .. Len(result[k]) : ~Retryable(result[k][j])

===========================================================================
