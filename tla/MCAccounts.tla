------------------------------ MODULE MCAccounts ------------------------------
(* Instances of Accounts for TLC: one account under a job with its monitor   *)
(* and the requests of an operator or the daemon.                            *)
EXTENDS Accounts, TLC

CONSTANTS a1, j1, r1

OneAccount == {a1}
OneJob == {j1}
OneRequest == {r1}
=============================================================================
