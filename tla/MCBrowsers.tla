------------------------------ MODULE MCBrowsers ------------------------------
(* Instances of Browsers for TLC: the browsers that may be launched one      *)
(* after the other, and an operator besides the daemon.                      *)
EXTENDS Browsers, TLC

CONSTANTS p1, p2, r1

OnePid == {p1}
TwoPids == {p1, p2}
OneRequest == {r1}
PidSymmetry == Permutations(Pids)
=============================================================================
