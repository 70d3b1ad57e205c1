------------------------------- MODULE Totals -------------------------------
(***************************************************************************)
(* The sum of the first n values of a function or sequence: what the       *)
(* properties about cash, profit and equity add up.                        *)
(***************************************************************************)
EXTENDS Integers

Total(value, n) ==
    LET sum[k \in 0 .. n] == IF k = 0 THEN 0 ELSE sum[k - 1] + value[k]
    IN  sum[n]
=============================================================================
