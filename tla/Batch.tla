-------------------------------- MODULE Batch --------------------------------
(***************************************************************************)
(* Batches: BatchService (services/batch_service.py) over the batch rows   *)
(* of ChatRepository.  One task runs each batch, item by item, and commits *)
(* the progress of every item; when the service starts it schedules every  *)
(* batch that is not finished.  A shutdown cancels the tasks wherever they *)
(* are, a crash loses them, and an error of the database ends a task.      *)
(***************************************************************************)
EXTENDS Integers, FiniteSets

CONSTANTS
  Batches,
  Items,
  BatchOf,       (* the batch each item belongs to                         *)
  WithSession,   (* the items that name a session to send to               *)
  MaxRestarts,   (* bound on how often the service stops                   *)
  NoItem

ASSUME BatchAssumption ==
  /\ IsFiniteSet(Items) /\ NoItem \notin Items
  /\ BatchOf \in [Items -> Batches]
  /\ WithSession \subseteq Items
  /\ MaxRestarts \in Nat

VARIABLES
  running,    (* the service is up                                         *)
  restarts,
  batch,      (* row of chat_batches: status and the two counters          *)
  item,       (* status of each row of chat_batch_items                    *)
  task,       (* BatchService._tasks: where each batch's task is, the item *)
              (* it is at and those it has listed and not yet come to      *)
  answers     (* answers of the provider stored for each item              *)

vars == <<running, restarts, batch, item, task, answers>>

Finished == {"completed", "failed", "partial"}
Terminal == {"completed", "failed"}
NoTask == [pc |-> "none", todo |-> {}, doing |-> NoItem]

TypeOK ==
  /\ running \in BOOLEAN
  /\ restarts \in 0..MaxRestarts
  /\ batch \in [Batches -> [status : {"absent", "pending", "running"} \cup Finished,
                            completed : Nat, failed : Nat]]
  /\ item \in [Items -> {"pending", "running"} \cup Terminal]
  /\ task \in [Batches -> [pc : {"none", "scheduled", "listing", "next", "sending",
                                 "answered", "refused", "died"},
                           todo : SUBSET Items, doing : Items \cup {NoItem}]]
  /\ answers \in [Items -> Nat]

Init ==
  /\ running = TRUE
  /\ restarts = 0
  /\ batch = [b \in Batches |-> [status |-> "absent", completed |-> 0, failed |-> 0]]
  /\ item = [i \in Items |-> "pending"]
  /\ task = [b \in Batches |-> NoTask]
  /\ answers = [i \in Items |-> 0]

ItemSet(b) == {i \in Items : BatchOf[i] = b}
InStatus(b, S) == {i \in ItemSet(b) : item[i] \in S}

Step(b, here, there) ==
  /\ task[b].pc = here
  /\ task' = [task EXCEPT ![b].pc = there]

Doing(b) == task[b].doing

-----------------------------------------------------------------------------
(* create_batch, _schedule_batch.                                          *)
CreateBatch(b) ==
  /\ running
  /\ batch[b].status = "absent"
  /\ batch' = [batch EXCEPT ![b].status = "pending"]
  /\ Step(b, "none", "scheduled")
  /\ UNCHANGED <<running, restarts, item, answers>>

MarkBatchRunning(b) ==
  /\ Step(b, "scheduled", "listing")
  /\ batch' = [batch EXCEPT ![b].status = "running"]
  /\ UNCHANGED <<running, restarts, item, answers>>

(* list_pending_batch_items: what the run that was interrupted was doing   *)
(* is done again.                                                          *)
ListOnlyPending(b) ==
  /\ task[b].pc = "listing"
  /\ task' = [task EXCEPT ![b] =
       [pc |-> "next", todo |-> InStatus(b, {"pending"}), doing |-> NoItem]]
  /\ UNCHANGED <<running, restarts, batch, item, answers>>

ListPendingItems(b) ==
  /\ task[b].pc = "listing"
  /\ task' = [task EXCEPT ![b] =
       [pc |-> "next", todo |-> InStatus(b, {"pending", "running"}), doing |-> NoItem]]
  /\ UNCHANGED <<running, restarts, batch, item, answers>>

(* The next item of the list, which is sorted by times of creation that    *)
(* items of a batch may share: any of them.                                *)
MarkItemRunning(b) ==
  /\ task[b].pc = "next"
  /\ \E i \in task[b].todo :
       /\ task' = [task EXCEPT ![b] = [pc |-> "sending", todo |-> @.todo \ {i}, doing |-> i]]
       /\ item' = [item EXCEPT ![i] = "running"]
  /\ UNCHANGED <<running, restarts, batch, answers>>

(* _process_item: a message under the key "batch:<item id>".  In a session *)
(* that the item names, an answer that is already stored is returned; an   *)
(* item that names none gets a new session, where no key is known.         *)
StoreAnswerWithoutKey(i) == answers' = [answers EXCEPT ![i] = @ + 1]

StoreAnswer(i) ==
  answers' = IF i \in WithSession /\ answers[i] > 0 THEN answers
             ELSE [answers EXCEPT ![i] = @ + 1]

ProcessItem(b) ==
  /\ Step(b, "sending", "answered")
  /\ StoreAnswer(Doing(b))
  /\ UNCHANGED <<running, restarts, batch, item>>

(* A ServiceError, the session being busy included, or any other           *)
(* exception, perhaps one raised after the answer was stored.              *)
ProcessItemFails(b) ==
  /\ Step(b, "sending", "refused")
  /\ UNCHANGED answers \/ StoreAnswer(Doing(b))
  /\ UNCHANGED <<running, restarts, batch, item>>

(* mark_batch_item_success, mark_batch_item_failed.  What they write to    *)
(* the batch's counters after their commit is rolled back.                 *)
MarkItemRawOutcome(b) ==
  /\ task[b].pc \in {"answered", "refused"}
  /\ item' = [item EXCEPT ![Doing(b)] = task[b].pc]
  /\ task' = [task EXCEPT ![b] = [pc |-> "next", todo |-> @.todo, doing |-> NoItem]]
  /\ UNCHANGED <<running, restarts, batch, answers>>

MarkItem(b) ==
  /\ task[b].pc \in {"answered", "refused"}
  /\ item' = [item EXCEPT ![Doing(b)] =
               IF task[b].pc = "answered" THEN "completed" ELSE "failed"]
  /\ task' = [task EXCEPT ![b] = [pc |-> "next", todo |-> @.todo, doing |-> NoItem]]
  /\ UNCHANGED <<running, restarts, batch, answers>>

(* mark_batch_finished, with final=True: the items are counted, and ones   *)
(* that are not done are not looked for.                                   *)
MarkBatchFinished(b) ==
  LET completed == Cardinality(InStatus(b, {"completed"}))
      failed == Cardinality(InStatus(b, {"failed"}))
  IN /\ task[b].todo = {}
     /\ Step(b, "next", "none")
     /\ batch' = [batch EXCEPT ![b] =
          [status |-> CASE failed = 0    -> "completed"
                        [] failed > 0 /\ completed = 0 -> "failed"
                        [] OTHER         -> "partial",
           completed |-> completed, failed |-> failed]]
     /\ UNCHANGED <<running, restarts, item, answers>>

(* An exception of the repository is nobody's to catch: the task is over.  *)
TaskDies(b) ==
  /\ task[b].pc \notin {"none", "died"}
  /\ task' = [task EXCEPT ![b] = [NoTask EXCEPT !.pc = "died"]]
  /\ UNCHANGED <<running, restarts, batch, item, answers>>

-----------------------------------------------------------------------------
(* close, or the death of the process.                                     *)
Stop ==
  /\ running /\ restarts < MaxRestarts
  /\ running' = FALSE
  /\ restarts' = restarts + 1
  /\ task' = [b \in Batches |-> NoTask]
  /\ UNCHANGED <<batch, item, answers>>

(* start: list_resumable_batches.                                          *)
StartOnlyRunning ==
  /\ ~running
  /\ running' = TRUE
  /\ task' = [b \in Batches |-> IF batch[b].status = "running"
                                THEN [NoTask EXCEPT !.pc = "scheduled"] ELSE NoTask]
  /\ UNCHANGED <<restarts, batch, item, answers>>

StartEverything ==
  /\ ~running
  /\ running' = TRUE
  /\ task' = [b \in Batches |-> IF batch[b].status # "absent"
                                THEN [NoTask EXCEPT !.pc = "scheduled"] ELSE NoTask]
  /\ UNCHANGED <<restarts, batch, item, answers>>

Start ==
  /\ ~running
  /\ running' = TRUE
  /\ task' = [b \in Batches |-> IF batch[b].status \in {"pending", "running"}
                                THEN [NoTask EXCEPT !.pc = "scheduled"] ELSE NoTask]
  /\ UNCHANGED <<restarts, batch, item, answers>>

RunBatch(b) ==
  \/ MarkBatchRunning(b) \/ ListPendingItems(b)
  \/ MarkItemRunning(b) \/ ProcessItem(b) \/ ProcessItemFails(b) \/ MarkItem(b)
  \/ MarkBatchFinished(b)

Next ==
  \/ Stop \/ Start
  \/ \E b \in Batches : CreateBatch(b) \/ RunBatch(b) \/ TaskDies(b)

Spec == Init /\ [][Next]_vars

(* A task runs to its end or dies: calls to the repository return or       *)
(* raise, and sending a message ends (ChatSession).  The service is        *)
(* started again when it has stopped.                                      *)
FairSpec ==
  /\ Spec
  /\ WF_vars(Start)
  /\ \A b \in Batches : WF_vars(RunBatch(b))

-----------------------------------------------------------------------------
(* A batch that says it is finished is: every item has been dealt with,    *)
(* and counters and status say how, whatever restarts interrupted.         *)
FinishedIsComplete(b) ==
  batch[b].status \in Finished =>
    /\ InStatus(b, Terminal) = ItemSet(b)
    /\ batch[b].completed = Cardinality(InStatus(b, {"completed"}))
    /\ batch[b].failed = Cardinality(InStatus(b, {"failed"}))
    /\ batch[b].status = "completed" => batch[b].failed = 0
    /\ batch[b].status = "failed" => batch[b].completed = 0

(* While the service is up, a batch that was accepted and is not finished  *)
(* has a task, if only one that an error of the database has ended; and a  *)
(* task that has listed its items has every undecided one on its list, or  *)
(* in hand.                                                                *)
UnfinishedIsPursued(b) ==
  /\ running /\ batch[b].status \in {"pending", "running"} => task[b].pc # "none"
  /\ task[b].pc \in {"next", "sending", "answered", "refused"} =>
       InStatus(b, {"pending", "running"}) \subseteq task[b].todo \cup {Doing(b)}

(* Nothing that was accepted is forgotten, wherever restarts and deaths    *)
(* strike: what is not finished is pursued, what is finished is complete.  *)
NothingIsForgotten ==
  \A b \in Batches : UnfinishedIsPursued(b) /\ FinishedIsComplete(b)

(* A run that is resumed does not send to a named session again what that  *)
(* session has answered; it may for an item that names none.               *)
NamedSessionAnsweredOnce == \A i \in WithSession : answers[i] <= 1

(* What has been decided about an item or a batch is never taken back.     *)
OutcomesAreFinal ==
  [][/\ \A i \in Items : item[i] \in Terminal => item'[i] = item[i]
     /\ \A b \in Batches : batch[b].status \in Finished => batch'[b] = batch[b]]_vars

(* Rows, tasks and restarts implement the life that whoever submits a      *)
(* batch sees: an item is completed only if it was answered, everything is *)
(* decided once, and the report comes last.                                *)
Reports ==
  [b \in Batches |-> IF batch[b].status \in {"pending", "running"}
                     THEN [batch[b] EXCEPT !.status = "accepted"] ELSE batch[b]]
Outcomes == [i \in Items |-> IF item[i] \in Terminal THEN item[i] ELSE "open"]

Promised == INSTANCE BatchLife WITH report <- Reports, outcome <- Outcomes

ImplementsBatchLife == Promised!Spec

(* README: batch execution with background recovery on restart.  A batch   *)
(* that was accepted finishes, whenever the service stops and starts,      *)
(* unless an error of the database ends its task.                          *)
BatchFinishes ==
  \A b \in Batches : batch[b].status # "absent" ~>
    batch[b].status \in Finished \/ task[b].pc = "died"
=============================================================================
