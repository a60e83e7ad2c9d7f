-------------------------------- MODULE Slots --------------------------------
(***************************************************************************)
(* What admission promises: a set of running requests bounded for every    *)
(* account and for the whole service, whose bounds for accounts may be     *)
(* changed.  No counters, no queue, no tickets: the limits are on the      *)
(* requests that really run.                                               *)
(***************************************************************************)
EXTENDS Integers, FiniteSets

CONSTANTS Accounts, Requests, Configs, GlobalMaxConcurrency

VARIABLES
  running,   (* set of pairs <<request, account>>                          *)
  limit      (* how many of them each account may start                    *)

vars == <<running, limit>>

RunningOn(a) == {p \in running : p[2] = a}

Init ==
  /\ running = {}
  /\ limit \in Configs

Start(r, a) ==
  /\ \A p \in running : p[1] # r
  /\ Cardinality(RunningOn(a)) < limit[a]
  /\ Cardinality(running) < GlobalMaxConcurrency
  /\ running' = running \cup {<<r, a>>}
  /\ UNCHANGED limit

Finish(r, a) ==
  /\ <<r, a>> \in running
  /\ running' = running \ {<<r, a>>}
  /\ UNCHANGED limit

SetLimit(a) ==
  /\ \E c \in Configs : limit' = [limit EXCEPT ![a] = c[a]]
  /\ UNCHANGED running

Next ==
  \/ \E r \in Requests, a \in Accounts : Start(r, a) \/ Finish(r, a)
  \/ \E a \in Accounts : SetLimit(a)

Spec == Init /\ [][Next]_vars
=============================================================================
