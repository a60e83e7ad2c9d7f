--------------------------- MODULE MCAccountHealth ---------------------------
(* Instances of AccountHealth for TLC.  Accounts only meet in the refresh  *)
(* lock, so one account with two calls and both refresh sources shows the  *)
(* interleavings on one runtime.                                           *)
EXTENDS AccountHealth, TLC

CONSTANTS a1, c1, c2

OneAccount == {a1}
TwoCalls == {c1, c2}

=============================================================================
