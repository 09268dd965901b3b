-------------------------------- MODULE Sums --------------------------------
(* Sums of the values of a function on an interval of natural numbers. *)
EXTENDS Integers

(* f[0] + ... + f[n - 1] *)
SumTo(f, n) ==
    LET sum[k \in Nat] == IF k = 0 THEN 0 ELSE sum[k - 1] + f[k - 1]
    IN  sum[n]
==============================================================================
