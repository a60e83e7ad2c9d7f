------------------------------ MODULE BatchLife ------------------------------
(***************************************************************************)
(* What the batch service promises whoever submits a batch: each item is   *)
(* decided once, as completed only when the provider has answered it; an   *)
(* item that names a session is answered there at most once; and the batch *)
(* is reported once, when all its items are decided, with counters and a   *)
(* status that say how.  No tasks, no restarts, no lists.                  *)
(***************************************************************************)
EXTENDS Integers, FiniteSets

CONSTANTS Batches, Items, BatchOf, WithSession

VARIABLES
  report,    (* status and counters of each batch                          *)
  outcome,   (* "open", "completed" or "failed", for each item             *)
  answers    (* answers of the provider to each item                       *)

vars == <<report, outcome, answers>>

Having(b, o) == {i \in Items : BatchOf[i] = b /\ outcome[i] = o}

Init ==
  /\ report = [b \in Batches |-> [status |-> "absent", completed |-> 0, failed |-> 0]]
  /\ outcome = [i \in Items |-> "open"]
  /\ answers = [i \in Items |-> 0]

Accept(b) ==
  /\ report[b].status = "absent"
  /\ report' = [report EXCEPT ![b].status = "accepted"]
  /\ UNCHANGED <<outcome, answers>>

Open(i) == report[BatchOf[i]].status = "accepted" /\ outcome[i] = "open"

Answer(i) ==
  /\ Open(i)
  /\ i \in WithSession => answers[i] = 0
  /\ answers' = [answers EXCEPT ![i] = @ + 1]
  /\ UNCHANGED <<report, outcome>>

Decide(i, o) ==
  /\ Open(i)
  /\ o = "completed" => answers[i] > 0
  /\ outcome' = [outcome EXCEPT ![i] = o]
  /\ UNCHANGED <<report, answers>>

StatusOf(completed, failed) ==
  IF failed = 0 THEN "completed" ELSE IF completed = 0 THEN "failed" ELSE "partial"

Report(b) ==
  LET completed == Cardinality(Having(b, "completed"))
      failed == Cardinality(Having(b, "failed"))
  IN /\ report[b].status = "accepted" /\ Having(b, "open") = {}
     /\ report' = [report EXCEPT ![b] =
          [status |-> StatusOf(completed, failed), completed |-> completed, failed |-> failed]]
     /\ UNCHANGED <<outcome, answers>>

Next ==
  \/ \E b \in Batches : Accept(b) \/ Report(b)
  \/ \E i \in Items : Answer(i) \/ Decide(i, "completed") \/ Decide(i, "failed")

Spec == Init /\ [][Next]_vars
=============================================================================
