------------------------- MODULE SubmissionLedger -------------------------
(***************************************************************************)
(* What the idempotency ledger promises about a client order id, with the  *)
(* submitters, the retries and the crashes left out: requests reach the    *)
(* exchange only while the id is open, an id is opened only when it is     *)
(* free, and a closed id never opens again.                                *)
(*                                                                         *)
(* phase:    free   - no row, or a row in status failed                    *)
(*           open   - a row in status pending                              *)
(*           closed - a row in status submitted or unknown_order_state     *)
(* exposure: requests under the id that are live orders at the exchange or *)
(*           may still become one.                                         *)
(***************************************************************************)
EXTENDS Naturals

CONSTANT Keys

VARIABLES phase, exposure

vars == <<phase, exposure>>

Phases == {"free", "open", "closed"}

TypeOK ==
    /\ phase \in [Keys -> Phases]
    /\ exposure \in [Keys -> Nat]

Init ==
    /\ phase = [k \in Keys |-> "free"]
    /\ exposure = [k \in Keys |-> 0]

Open(k) ==
    /\ phase[k] = "free"
    /\ phase' = [phase EXCEPT ![k] = "open"]
    /\ UNCHANGED exposure

\* A request leaves for the exchange.
Send(k) ==
    /\ phase[k] = "open"
    /\ exposure' = [exposure EXCEPT ![k] = @ + 1]
    /\ UNCHANGED phase

Resolve(k) ==
    /\ phase[k] = "open"
    /\ \E p \in {"free", "closed"} : phase' = [phase EXCEPT ![k] = p]
    /\ UNCHANGED exposure

\* A request whose reply was lost turns out never to have arrived.
Vanish(k) ==
    /\ exposure[k] > 0
    /\ exposure' = [exposure EXCEPT ![k] = @ - 1]
    /\ UNCHANGED phase

Next == \E k \in Keys : Open(k) \/ Send(k) \/ Resolve(k) \/ Vanish(k)

Spec == Init /\ [][Next]_vars

===========================================================================
