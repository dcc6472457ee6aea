----------------------------- MODULE MCAccounts -----------------------------
(* One account for TLC.  The goroutines are interchangeable. *)
EXTENDS Accounts, TLC

\* Every plan buys one day, or the last one access without an end.
OneDay == [p \in Payment |-> 1]
LastForever == [p \in Payment |-> IF p = Payments THEN 0 ELSE 1]

Symmetry == Permutations(Worker)
=============================================================================
