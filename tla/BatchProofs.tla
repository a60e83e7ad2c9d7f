------------------------------- MODULE BatchProofs -------------------------------
(* Proofs about Batch: what the task of a batch has still to do is exactly   *)
(* what is not decided, at every restart again; so nothing is left when it   *)
(* reports the batch as finished, and nothing is touched after that.         *)
EXTENDS Batch, FiniteSetTheorems, TLAPS

Undecided(b) == InStatus(b, {"pending", "running"})
Busy(b) == task[b].pc \in {"sending", "answered", "refused"}

(* The task's list and the item it is at.                                    *)
TaskInv(b) ==
  /\ running /\ batch[b].status \in {"pending", "running"} => task[b].pc # "none"
  /\ task[b].pc # "none" => batch[b].status \in {"pending", "running"}
  /\ Busy(b) => /\ Doing(b) \in ItemSet(b) /\ item[Doing(b)] = "running"
                /\ Undecided(b) = task[b].todo \cup {Doing(b)} /\ Doing(b) \notin task[b].todo
  /\ task[b].pc = "next" => Undecided(b) = task[b].todo

Inv ==
  /\ TypeOK
  /\ \A b \in Batches : TaskInv(b) /\ FinishedIsComplete(b)
  /\ NamedSessionAnsweredOnce

Statuses == {"pending", "running"} \cup Terminal
BatchRows == [status : {"absent", "pending", "running"} \cup Finished, completed : Nat, failed : Nat]
Tasks == [pc : {"none", "scheduled", "listing", "next", "sending", "answered", "refused", "died"},
          todo : SUBSET Items, doing : Items \cup {NoItem}]

LEMMA TypeIs ==
  TypeOK <=> /\ running \in BOOLEAN /\ restarts \in 0..MaxRestarts
             /\ batch \in [Batches -> BatchRows] /\ item \in [Items -> Statuses]
             /\ task \in [Batches -> Tasks] /\ answers \in [Items -> Nat]
BY DEF TypeOK, BatchRows, Statuses, Tasks

LEMMA IdleTask == NoTask \in Tasks /\ NoTask.pc = "none"
BY DEF NoTask, Tasks

(* What is undecided is what is not decided.                                 *)
LEMMA AllDecided ==
  ASSUME TypeOK, NEW b \in Batches
  PROVE  Undecided(b) = {} <=> InStatus(b, Terminal) = ItemSet(b)
BY TypeIs DEF Undecided, InStatus, ItemSet, Statuses, Terminal

LEMMA Counts ==
  ASSUME NEW b \in Batches, NEW S
  PROVE  /\ IsFiniteSet(InStatus(b, S)) /\ Cardinality(InStatus(b, S)) \in Nat
         /\ Cardinality(InStatus(b, S)) = 0 <=> InStatus(b, S) = {}
<1>1. InStatus(b, S) \subseteq Items
  BY DEF InStatus, ItemSet
<1>2. IsFiniteSet(InStatus(b, S))
  BY <1>1, BatchAssumption, FS_Subset
<1> QED BY <1>2, FS_CardinalityType, FS_EmptySet

-----------------------------------------------------------------------------
(* A step in which the items do not change, and batches neither, but for one *)
(* whose task goes on.                                                       *)
LEMMA ItemsStay ==
  ASSUME Inv, TypeOK', item' = item, NamedSessionAnsweredOnce',
         \A b \in Batches : TaskInv(b)',
         \A b \in Batches : batch'[b] = batch[b] \/ batch'[b].status \notin Finished
  PROVE  Inv'
<1>1. \A b \in Batches : \A S : InStatus(b, S)' = InStatus(b, S)
  BY DEF InStatus
<1>2. \A b \in Batches : FinishedIsComplete(b)'
  BY <1>1 DEF Inv, FinishedIsComplete
<1> QED BY <1>2 DEF Inv

(* The other batches are not concerned by a step of one.                     *)
LEMMA OthersStay ==
  ASSUME Inv, NEW b \in Batches, running' = running,
         \A c \in Batches \ {b} : task'[c] = task[c] /\ batch'[c] = batch[c],
         \A i \in Items \ ItemSet(b) : item'[i] = item[i]
  PROVE  \A c \in Batches \ {b} : TaskInv(c)' /\ FinishedIsComplete(c)'
<1> SUFFICES ASSUME NEW c \in Batches \ {b} PROVE TaskInv(c)' /\ FinishedIsComplete(c)'
  OBVIOUS
<1>1. \A i \in ItemSet(c) : i \in Items /\ item'[i] = item[i]
  BY DEF ItemSet
<1>2. \A S : InStatus(c, S)' = InStatus(c, S)
  BY <1>1 DEF InStatus, ItemSet
<1>3. TaskInv(c) /\ FinishedIsComplete(c)
  BY DEF Inv
<1> QED BY <1>1, <1>2, <1>3 DEF TaskInv, FinishedIsComplete, Busy, Doing, Undecided

-----------------------------------------------------------------------------
LEMMA StoredAnswer ==
  ASSUME Inv, NEW i \in Items, answers' = answers \/ StoreAnswer(i)
  PROVE  answers' \in [Items -> Nat] /\ NamedSessionAnsweredOnce'
BY TypeIs, BatchAssumption DEF Inv, StoreAnswer, NamedSessionAnsweredOnce

(* Steps that only move the task and, before it lists, the batch's status.   *)
LEMMA BeginKeeps ==
  ASSUME Inv, NEW b \in Batches, CreateBatch(b) \/ MarkBatchRunning(b)
  PROVE  Inv'
<1>1. PICK status \in {"pending", "running"}, pc \in {"scheduled", "listing"} :
        /\ batch' = [batch EXCEPT ![b].status = status]
        /\ task' = [task EXCEPT ![b].pc = pc]
        /\ UNCHANGED <<running, restarts, item, answers>>
  BY DEF CreateBatch, MarkBatchRunning, Step
<1>2. /\ batch' \in [Batches -> BatchRows] /\ task' \in [Batches -> Tasks]
      /\ batch'[b].status = status /\ task'[b].pc = pc
      /\ \A c \in Batches \ {b} : task'[c] = task[c] /\ batch'[c] = batch[c]
  BY <1>1, TypeIs DEF Inv, BatchRows, Tasks
<1>3. TypeOK'
  BY <1>1, <1>2, TypeIs DEF Inv, TypeOK, BatchRows, Tasks
<1>4. TaskInv(b)' /\ batch'[b].status \notin Finished
  BY <1>1, <1>2 DEF TaskInv, Busy, Finished
<1>5. \A c \in Batches \ {b} : TaskInv(c)' /\ FinishedIsComplete(c)'
  BY <1>1, <1>2, OthersStay
<1>6. NamedSessionAnsweredOnce'
  BY <1>1 DEF Inv, NamedSessionAnsweredOnce
<1> QED BY <1>1, <1>2, <1>3, <1>4, <1>5, <1>6, ItemsStay

LEMMA TaskGoes ==
  ASSUME Inv, NEW b \in Batches, NEW new \in Tasks, task' = [task EXCEPT ![b] = new],
         UNCHANGED <<running, restarts, batch, item>>, answers' \in [Items -> Nat],
         NamedSessionAnsweredOnce', TaskInv(b)'
  PROVE  Inv'
<1>1. TypeOK'
  BY TypeIs DEF Inv, TypeOK, Tasks
<1>2. \A c \in Batches \ {b} : task'[c] = task[c]
  BY TypeIs DEF Inv
<1>3. \A c \in Batches \ {b} : TaskInv(c)' /\ FinishedIsComplete(c)'
  BY <1>2, OthersStay
<1> QED BY <1>1, <1>3, ItemsStay

LEMMA ListKeeps ==
  ASSUME Inv, NEW b \in Batches, ListPendingItems(b)
  PROVE  Inv'
<1> DEFINE new == [pc |-> "next", todo |-> Undecided(b), doing |-> NoItem]
<1>1. /\ task' = [task EXCEPT ![b] = new] /\ task[b].pc = "listing"
      /\ UNCHANGED <<running, restarts, batch, item, answers>>
  BY DEF ListPendingItems, Undecided
<1>2. new \in Tasks /\ new.pc = "next" /\ new.todo = Undecided(b)
  BY DEF Tasks, Undecided, InStatus, ItemSet
<1> HIDE DEF new
<1>3. task'[b] = new
  BY <1>1, TypeIs DEF Inv
<1>4. TaskInv(b)'
  BY <1>1, <1>2, <1>3 DEF Inv, TaskInv, Busy, Undecided, InStatus
<1>5. answers' \in [Items -> Nat] /\ NamedSessionAnsweredOnce'
  BY <1>1, TypeIs DEF Inv, NamedSessionAnsweredOnce
<1> QED BY <1>1, <1>2, <1>4, <1>5, TaskGoes

LEMMA ProcessKeeps ==
  ASSUME Inv, NEW b \in Batches, ProcessItem(b) \/ ProcessItemFails(b)
  PROVE  Inv'
<1>1. PICK pc \in {"answered", "refused"} : task' = [task EXCEPT ![b].pc = pc]
  BY DEF ProcessItem, ProcessItemFails, Step
<1>2. /\ task[b].pc = "sending" /\ UNCHANGED <<running, restarts, batch, item>>
      /\ answers' = answers \/ StoreAnswer(Doing(b))
  BY DEF ProcessItem, ProcessItemFails, Step
<1> DEFINE new == [task[b] EXCEPT !.pc = pc]
<1>3. /\ task[b] \in Tasks /\ new \in Tasks /\ new.pc = pc /\ new.todo = task[b].todo
      /\ new.doing = task[b].doing /\ task' = [task EXCEPT ![b] = new]
  BY <1>1, TypeIs DEF Inv, Tasks
<1> HIDE DEF new
<1>4. task'[b] = new
  BY <1>3, TypeIs DEF Inv
<1>5. Doing(b) \in Items
  BY <1>2 DEF Inv, TaskInv, Busy, ItemSet
<1>6. answers' \in [Items -> Nat] /\ NamedSessionAnsweredOnce'
  BY <1>2, <1>5, StoredAnswer
<1>7. TaskInv(b)'
  BY <1>2, <1>3, <1>4 DEF Inv, TaskInv, Busy, Doing, Undecided, InStatus
<1> QED BY <1>2, <1>3, <1>6, <1>7, TaskGoes

LEMMA DiesKeeps ==
  ASSUME Inv, NEW b \in Batches, TaskDies(b)
  PROVE  Inv'
<1> DEFINE new == [NoTask EXCEPT !.pc = "died"]
<1>1. new \in Tasks /\ new.pc = "died"
  BY DEF NoTask, Tasks
<1>2. /\ task' = [task EXCEPT ![b] = new] /\ task[b].pc # "none"
      /\ UNCHANGED <<running, restarts, batch, item, answers>>
  BY DEF TaskDies
<1> HIDE DEF new
<1>3. task'[b] = new
  BY <1>2, TypeIs DEF Inv
<1>4. TaskInv(b)'
  BY <1>1, <1>2, <1>3 DEF Inv, TaskInv, Busy
<1>5. answers' \in [Items -> Nat] /\ NamedSessionAnsweredOnce'
  BY <1>2, TypeIs DEF Inv, NamedSessionAnsweredOnce
<1> QED BY <1>1, <1>2, <1>4, <1>5, TaskGoes

(* The task takes up an item of its list, and settles the one it is at.      *)
LEMMA MarkRunningKeeps ==
  ASSUME Inv, NEW b \in Batches, MarkItemRunning(b)
  PROVE  Inv'
<1>1. PICK i \in task[b].todo :
        /\ task' = [task EXCEPT ![b] = [pc |-> "sending", todo |-> @.todo \ {i}, doing |-> i]]
        /\ item' = [item EXCEPT ![i] = "running"]
  BY DEF MarkItemRunning
<1>2. task[b].pc = "next" /\ UNCHANGED <<running, restarts, batch, answers>>
  BY DEF MarkItemRunning
<1> DEFINE new == [pc |-> "sending", todo |-> task[b].todo \ {i}, doing |-> i]
<1>3. task' = [task EXCEPT ![b] = new] /\ new.pc = "sending" /\ new.todo = task[b].todo \ {i}
      /\ new.doing = i
  BY <1>1
<1>4. task[b].todo \in SUBSET Items /\ i \in Items
  BY <1>1, TypeIs DEF Inv, Tasks
<1>5. new \in Tasks
  BY <1>4 DEF Tasks
<1> HIDE DEF new
<1>6. Undecided(b) = task[b].todo /\ i \in ItemSet(b)
  BY <1>1, <1>2 DEF Inv, TaskInv, Undecided, InStatus
<1>7. /\ task' \in [Batches -> Tasks] /\ item' \in [Items -> Statuses]
      /\ task'[b] = new /\ \A c \in Batches \ {b} : task'[c] = task[c]
      /\ item'[i] = "running" /\ \A j \in Items \ {i} : item'[j] = item[j]
  BY <1>1, <1>3, <1>4, <1>5, TypeIs DEF Inv, Statuses
<1>8. TypeOK'
  BY <1>2, <1>7, TypeIs DEF Inv, TypeOK, Tasks, Statuses
<1>9. \A c \in Batches \ {b} : TaskInv(c)' /\ FinishedIsComplete(c)'
  BY <1>2, <1>6, <1>7, OthersStay
<1>10. item[i] \in {"pending", "running"}
  BY <1>1, <1>6 DEF Undecided, InStatus
<1>11. Undecided(b)' = Undecided(b)
  BY <1>4, <1>7, <1>10 DEF Undecided, InStatus, ItemSet
<1>12. batch[b].status \in {"pending", "running"}
  BY <1>2 DEF Inv, TaskInv
<1>13. TaskInv(b)'
  BY <1>1, <1>2, <1>3, <1>6, <1>7, <1>11, <1>12 DEF TaskInv, Busy, Doing, ItemSet
<1>14. FinishedIsComplete(b)'
  BY <1>2, <1>12 DEF FinishedIsComplete, Finished
<1>15. NamedSessionAnsweredOnce'
  BY <1>2 DEF Inv, NamedSessionAnsweredOnce
<1> QED BY <1>8, <1>9, <1>13, <1>14, <1>15 DEF Inv

LEMMA MarkItemKeeps ==
  ASSUME Inv, NEW b \in Batches, MarkItem(b)
  PROVE  Inv'
<1> DEFINE i == Doing(b)
           new == [pc |-> "next", todo |-> task[b].todo, doing |-> NoItem]
<1>1. PICK status \in Terminal : item' = [item EXCEPT ![i] = status]
  BY DEF MarkItem, Terminal
<1>2. /\ task[b].pc \in {"answered", "refused"} /\ task' = [task EXCEPT ![b] = new]
      /\ UNCHANGED <<running, restarts, batch, answers>>
  BY DEF MarkItem
<1>3. new \in Tasks /\ new.pc = "next" /\ new.todo = task[b].todo
  BY TypeIs DEF Inv, Tasks
<1> HIDE DEF new
<1>4. /\ i \in ItemSet(b) /\ Undecided(b) = task[b].todo \cup {i} /\ i \notin task[b].todo
      /\ batch[b].status \in {"pending", "running"}
  BY <1>2 DEF Inv, TaskInv, Busy
<1> HIDE DEF i
<1>5. i \in Items
  BY <1>4 DEF ItemSet
<1>6. /\ task' \in [Batches -> Tasks] /\ item' \in [Items -> Statuses]
      /\ task'[b] = new /\ \A c \in Batches \ {b} : task'[c] = task[c]
      /\ item'[i] = status /\ \A j \in Items \ {i} : item'[j] = item[j]
  BY <1>1, <1>2, <1>3, <1>5, TypeIs DEF Inv, Statuses
<1>7. TypeOK'
  BY <1>2, <1>6, TypeIs DEF Inv, TypeOK, Tasks, Statuses
<1>8. \A c \in Batches \ {b} : TaskInv(c)' /\ FinishedIsComplete(c)'
  BY <1>2, <1>4, <1>6, OthersStay
<1>9. Undecided(b)' = Undecided(b) \ {i}
  BY <1>6 DEF Undecided, InStatus, ItemSet, Terminal
<1>10. TaskInv(b)'
  BY <1>2, <1>3, <1>4, <1>6, <1>9 DEF TaskInv, Busy
<1>11. FinishedIsComplete(b)'
  BY <1>2, <1>4 DEF FinishedIsComplete, Finished
<1>12. NamedSessionAnsweredOnce'
  BY <1>2 DEF Inv, NamedSessionAnsweredOnce
<1> QED BY <1>7, <1>8, <1>10, <1>11, <1>12 DEF Inv

(* Nothing is left on the list: nothing of the batch is undecided.           *)
LEMMA FinishKeeps ==
  ASSUME Inv, NEW b \in Batches, MarkBatchFinished(b)
  PROVE  Inv'
<1> DEFINE done == Cardinality(InStatus(b, {"completed"}))
           failed == Cardinality(InStatus(b, {"failed"}))
           status == CASE failed = 0 -> "completed"
                       [] failed > 0 /\ done = 0 -> "failed"
                       [] OTHER -> "partial"
           new == [status |-> status, completed |-> done, failed |-> failed]
           gone == [task[b] EXCEPT !.pc = "none"]
<1>1. done \in Nat /\ failed \in Nat
  BY Counts
<1>2. status \in Finished /\ (status = "completed" => failed = 0) /\ (status = "failed" => done = 0)
  BY <1>1 DEF Finished
<1>3. /\ batch' = [batch EXCEPT ![b] = new] /\ task[b].pc = "next" /\ task[b].todo = {}
      /\ task' = [task EXCEPT ![b].pc = "none"]
      /\ UNCHANGED <<running, restarts, item, answers>>
  BY DEF MarkBatchFinished, Step
<1> HIDE DEF done, failed, status
<1>4. /\ new \in BatchRows /\ new.status = status /\ new.completed = done /\ new.failed = failed
  BY <1>1, <1>2 DEF BatchRows
<1>5. gone \in Tasks /\ gone.pc = "none" /\ task' = [task EXCEPT ![b] = gone]
  BY <1>3, TypeIs DEF Inv, Tasks
<1> HIDE DEF new, gone
<1>6. /\ batch' \in [Batches -> BatchRows] /\ task' \in [Batches -> Tasks]
      /\ batch'[b] = new /\ task'[b] = gone
      /\ \A c \in Batches \ {b} : task'[c] = task[c] /\ batch'[c] = batch[c]
  BY <1>3, <1>4, <1>5, TypeIs DEF Inv
<1>7. TypeOK'
  BY <1>3, <1>6, TypeIs DEF Inv, TypeOK, Tasks, BatchRows
<1>8. \A c \in Batches \ {b} : TaskInv(c)' /\ FinishedIsComplete(c)'
  BY <1>3, <1>6, OthersStay
<1>9. \A S : InStatus(b, S)' = InStatus(b, S)
  BY <1>3 DEF InStatus
<1>10. InStatus(b, Terminal) = ItemSet(b)
  <2>1. Undecided(b) = {}
    BY <1>3 DEF Inv, TaskInv
  <2> QED BY <2>1, AllDecided DEF Inv
<1>11. ItemSet(b)' = ItemSet(b)
  BY DEF ItemSet
<1>12. FinishedIsComplete(b)'
  BY <1>2, <1>4, <1>6, <1>9, <1>10, <1>11 DEF FinishedIsComplete, done, failed
<1>13. TaskInv(b)'
  BY <1>2, <1>4, <1>5, <1>6 DEF TaskInv, Busy, Finished
<1>14. NamedSessionAnsweredOnce'
  BY <1>3 DEF Inv, NamedSessionAnsweredOnce
<1> QED BY <1>7, <1>8, <1>12, <1>13, <1>14 DEF Inv

(* A stop and a start: every task is gone, or is to list what it has to do.  *)
LEMMA RestartKeeps ==
  ASSUME Inv, Stop \/ Start
  PROVE  Inv'
<1> DEFINE fresh == [NoTask EXCEPT !.pc = "scheduled"]
<1>1. fresh \in Tasks /\ fresh.pc = "scheduled"
  BY DEF NoTask, Tasks
<1>2. UNCHANGED <<batch, item, answers>> /\ running' \in BOOLEAN /\ restarts' \in 0..MaxRestarts
  <2>1. UNCHANGED <<batch, item, answers>> /\ running' \in BOOLEAN
    BY DEF Stop, Start
  <2>2. restarts \in Nat /\ restarts <= MaxRestarts /\ MaxRestarts \in Nat
    BY TypeIs, BatchAssumption DEF Inv
  <2>3. restarts' = restarts \/ (restarts < MaxRestarts /\ restarts' = restarts + 1)
    BY DEF Stop, Start
  <2> QED BY <2>1, <2>2, <2>3
<1>3. CASE Stop
  <2>1. \A b \in Batches : task'[b] = NoTask
    BY <1>3 DEF Stop
  <2>2. task' \in [Batches -> Tasks]
    BY <1>3, IdleTask DEF Stop
  <2>3. \A b \in Batches : TaskInv(b)'
    BY <1>3, <2>1, IdleTask DEF TaskInv, Busy, Stop
  <2> QED BY <1>2, <2>2, <2>3, TypeIs, ItemsStay DEF Inv, TypeOK, Tasks, NamedSessionAnsweredOnce
<1>4. CASE Start
  <2>1. task' = [b \in Batches |-> IF batch[b].status \in {"pending", "running"}
                                   THEN fresh ELSE NoTask]
    BY <1>4 DEF Start
  <2> HIDE DEF fresh
  <2>2. task' \in [Batches -> Tasks]
    BY <1>1, <2>1, IdleTask
  <2>3. ASSUME NEW b \in Batches PROVE TaskInv(b)'
    <3>1. CASE batch[b].status \in {"pending", "running"}
      <4>1. task'[b].pc = "scheduled"
        BY <1>1, <2>1, <3>1
      <4> QED BY <1>2, <3>1, <4>1 DEF TaskInv, Busy
    <3>2. CASE batch[b].status \notin {"pending", "running"}
      <4>1. task'[b].pc = "none"
        BY <2>1, <3>2, IdleTask
      <4> QED BY <1>2, <3>2, <4>1 DEF TaskInv, Busy
    <3> QED BY <3>1, <3>2
  <2> QED BY <1>2, <2>2, <2>3, TypeIs, ItemsStay DEF Inv, TypeOK, Tasks, NamedSessionAnsweredOnce
<1> QED BY <1>3, <1>4

-----------------------------------------------------------------------------
LEMMA InitHolds == Init => Inv
<1> SUFFICES ASSUME Init PROVE Inv
  OBVIOUS
<1>1. TypeOK
  <2>1. batch \in [Batches -> BatchRows]
    BY DEF Init, BatchRows
  <2>2. task \in [Batches -> Tasks]
    BY IdleTask DEF Init
  <2>3. restarts \in 0..MaxRestarts
    BY BatchAssumption DEF Init
  <2> QED BY <2>1, <2>2, <2>3 DEF Init, TypeOK, BatchRows, Tasks
<1>2. \A b \in Batches : TaskInv(b) /\ FinishedIsComplete(b)
  BY IdleTask DEF Init, TaskInv, FinishedIsComplete, Busy, Finished
<1>3. NamedSessionAnsweredOnce
  BY BatchAssumption DEF Init, NamedSessionAnsweredOnce
<1> QED BY <1>1, <1>2, <1>3 DEF Inv

LEMMA StutterKeeps ==
  ASSUME Inv, UNCHANGED vars
  PROVE  Inv'
<1>1. TypeOK'
  BY DEF vars, Inv, TypeOK
<1>2. \A b \in Batches : \A S : InStatus(b, S)' = InStatus(b, S) /\ ItemSet(b)' = ItemSet(b)
  BY DEF vars, InStatus, ItemSet
<1>3. \A b \in Batches : TaskInv(b)'
  BY <1>2 DEF vars, Inv, TaskInv, Busy, Doing, Undecided
<1>4. NamedSessionAnsweredOnce'
  BY DEF vars, Inv, NamedSessionAnsweredOnce
<1> QED BY <1>1, <1>3, <1>4, ItemsStay DEF vars

LEMMA NextIsKept == Inv /\ [Next]_vars => Inv'
<1>1. ASSUME Inv, Next PROVE Inv'
  <2> USE <1>1
  <2>1. CASE Stop \/ Start
    BY <2>1, RestartKeeps
  <2>2. ASSUME NEW b \in Batches, CreateBatch(b) \/ RunBatch(b) \/ TaskDies(b) PROVE Inv'
    BY <2>2, BeginKeeps, ListKeeps, MarkRunningKeeps, ProcessKeeps, MarkItemKeeps, FinishKeeps,
       DiesKeeps DEF RunBatch
  <2> QED BY <2>1, <2>2 DEF Next
<1> QED BY <1>1, StutterKeeps

LEMMA InvHolds == Spec => []Inv
BY NextIsKept, InitHolds, PTL DEF Spec

(* Every reachable state is well typed.                                      *)
THEOREM TypeCorrect == Spec => []TypeOK
BY InvHolds, PTL DEF Inv

(* While the service is up, every batch that was accepted and is not         *)
(* finished has a task with all its undecided items before it; when          *)
(* mark_batch_finished has reported a batch, all its items are decided and   *)
(* its counters and status say how, however often it was resumed.            *)
THEOREM BatchesAreKept == Spec => []NothingIsForgotten
<1>1. ASSUME Inv, NEW b \in Batches
      PROVE  UnfinishedIsPursued(b) /\ FinishedIsComplete(b)
  <2>1. TaskInv(b) /\ FinishedIsComplete(b)
    BY <1>1 DEF Inv
  <2> QED BY <2>1 DEF TaskInv, Busy, Undecided, UnfinishedIsPursued
<1>2. Inv => NothingIsForgotten
  BY <1>1 DEF NothingIsForgotten
<1> QED BY <1>2, InvHolds, PTL

(* An item that names its session is answered once, though its run may be    *)
(* interrupted after the answer and be resumed.                              *)
THEOREM AnsweredOnce == Spec => []NamedSessionAnsweredOnce
BY InvHolds, PTL DEF Inv

(* No run takes back what an earlier one has decided.                        *)
THEOREM OutcomesStay == Spec => OutcomesAreFinal
<1> DEFINE Kept ==
      /\ \A i \in Items : item[i] \in Terminal => item'[i] = item[i]
      /\ \A b \in Batches : batch[b].status \in Finished => batch'[b] = batch[b]
<1>1. ASSUME Inv, [Next]_vars PROVE Kept \/ UNCHANGED vars
  <2> USE <1>1
  <2>1. ASSUME NEW b \in Batches, CreateBatch(b) \/ RunBatch(b) PROVE Kept
    <3>1. ASSUME NEW i \in Items, item[i] \in Terminal PROVE item'[i] = item[i]
      <4>1. CASE item' = item
        BY <4>1
      <4>2. CASE MarkItemRunning(b)
        <5>1. PICK j \in task[b].todo : item' = [item EXCEPT ![j] = "running"]
          BY <4>2 DEF MarkItemRunning
        <5>2. item[j] \in {"pending", "running"}
          BY <4>2 DEF MarkItemRunning, Inv, TaskInv, Undecided, InStatus
        <5> QED BY <3>1, <5>1, <5>2, TypeIs DEF Inv, Terminal
      <4>3. CASE MarkItem(b)
        <5>1. item[Doing(b)] = "running"
          BY <4>3 DEF MarkItem, Inv, TaskInv, Busy
        <5> QED BY <3>1, <4>3, <5>1, TypeIs DEF MarkItem, Inv, Terminal
      <4> QED BY <2>1, <4>1, <4>2, <4>3 DEF CreateBatch, RunBatch, MarkBatchRunning,
                ListPendingItems, ProcessItem, ProcessItemFails, MarkBatchFinished
    <3>2. ASSUME NEW c \in Batches, batch[c].status \in Finished PROVE batch'[c] = batch[c]
      <4>1. CASE batch' = batch
        BY <4>1
      <4>2. CASE CreateBatch(b)
        BY <3>2, <4>2, TypeIs DEF CreateBatch, Inv, Finished
      <4>3. CASE MarkBatchRunning(b) \/ MarkBatchFinished(b)
        <5>1. batch[b].status \in {"pending", "running"}
          BY <4>3 DEF MarkBatchRunning, MarkBatchFinished, Step, Inv, TaskInv
        <5>2. c # b
          BY <3>2, <5>1 DEF Finished
        <5> QED BY <4>3, <5>2, TypeIs DEF MarkBatchRunning, MarkBatchFinished, Inv
      <4> QED BY <2>1, <4>1, <4>2, <4>3 DEF RunBatch, ListPendingItems, MarkItemRunning,
                ProcessItem, ProcessItemFails, MarkItem
    <3> QED BY <3>1, <3>2
  <2>2. CASE Stop \/ Start \/ \E b \in Batches : TaskDies(b)
    BY <2>2 DEF Stop, Start, TaskDies
  <2> QED BY <2>1, <2>2 DEF Next
<1> HIDE DEF Kept
<1>2. Spec => [][Kept]_vars
  BY <1>1, InvHolds, PTL DEF Spec
<1> QED BY <1>2, PTL DEF OutcomesAreFinal, Kept

-----------------------------------------------------------------------------
(* The promise to whoever submits a batch (BatchLife), step by step.         *)

(* An answer that has come is an answer that is stored.                      *)
AnsweredInv == \A b \in Batches : task[b].pc = "answered" => answers[Doing(b)] > 0

(* Storing an answer adds one, unless a named session has it already.        *)
LEMMA StoringAnswers ==
  ASSUME TypeOK, NEW i \in Items, StoreAnswer(i)
  PROVE  /\ answers'[i] > 0 /\ \A j \in Items : answers'[j] >= answers[j]
         /\ \/ answers' = answers
            \/ /\ i \in WithSession => answers[i] = 0
               /\ answers' = [answers EXCEPT ![i] = answers[i] + 1]
<1>1. answers \in [Items -> Nat]
  BY TypeIs
<1> QED BY <1>1 DEF StoreAnswer

(* Only the end of an item's message makes its task one that has an answer.  *)
LEMMA WhoIsAnswered ==
  ASSUME Inv, [Next]_vars, NEW b \in Batches
  PROVE  task'[b] = task[b] \/ task'[b].pc # "answered" \/ ProcessItem(b)
<1>0. task \in [Batches -> Tasks]
  BY TypeIs DEF Inv
<1>1. CASE Stop \/ Start
  BY <1>1 DEF Stop, Start, NoTask
<1>2. ASSUME NEW c \in Batches, CreateBatch(c) \/ RunBatch(c) \/ TaskDies(c)
      PROVE  task'[b] = task[b] \/ task'[b].pc # "answered" \/ ProcessItem(b)
  <2>1. CASE ProcessItem(c)
    BY <1>0, <2>1 DEF ProcessItem, Step
  <2>2. PICK new : task' = [task EXCEPT ![c] = new] \/ task' = [task EXCEPT ![c].pc = new]
    BY <1>2 DEF CreateBatch, RunBatch, TaskDies, MarkBatchRunning, ListPendingItems,
       MarkItemRunning, ProcessItem, ProcessItemFails, MarkItem, MarkBatchFinished, Step
  <2>3. CASE c # b
    BY <1>0, <2>2, <2>3
  <2>4. CASE ~ProcessItem(c)
    <3>1. task'[c].pc # "answered"
      BY <1>0, <1>2, <2>4 DEF CreateBatch, RunBatch, TaskDies, MarkBatchRunning,
         ListPendingItems, MarkItemRunning, ProcessItemFails, MarkItem, MarkBatchFinished,
         Step, NoTask, Tasks
    <3> QED BY <2>3, <3>1
  <2> QED BY <2>1, <2>3, <2>4
<1> QED BY <1>1, <1>2 DEF Next, vars

LEMMA AnsweredStep ==
  ASSUME Inv, AnsweredInv, [Next]_vars
  PROVE  AnsweredInv'
<1> SUFFICES ASSUME NEW b \in Batches, task'[b].pc = "answered"
             PROVE  answers'[task'[b].doing] > 0
  BY DEF AnsweredInv, Doing
<1>0. \A c \in Batches : Busy(c) => Doing(c) \in Items
  BY DEF Inv, TaskInv, ItemSet
<1>1. \A j \in Items : answers'[j] >= answers[j]
  <2>1. CASE answers' = answers
    BY <2>1, TypeIs DEF Inv
  <2>2. ASSUME NEW c \in Batches, ProcessItem(c) \/ ProcessItemFails(c), StoreAnswer(Doing(c))
        PROVE  \A j \in Items : answers'[j] >= answers[j]
    <3>1. Doing(c) \in Items
      BY <1>0, <2>2 DEF ProcessItem, ProcessItemFails, Step, Busy
    <3> QED BY <2>2, <3>1, StoringAnswers DEF Inv
  <2> QED BY <2>1, <2>2 DEF Next, vars, Stop, Start, CreateBatch, RunBatch, TaskDies,
            MarkBatchRunning, ListPendingItems, MarkItemRunning, ProcessItem,
            ProcessItemFails, MarkItem, MarkBatchFinished
<1>2. CASE task'[b] = task[b]
  <2>1. Doing(b) \in Items /\ answers[Doing(b)] > 0 /\ task'[b].doing = Doing(b)
    BY <1>0, <1>2 DEF AnsweredInv, Busy, Doing
  <2>2. answers'[Doing(b)] >= answers[Doing(b)] /\ answers[Doing(b)] \in Nat
    BY <1>1, <2>1, TypeIs DEF Inv
  <2>3. answers'[Doing(b)] \in Nat
    BY <2>1, NextIsKept DEF Inv, TypeOK
  <2> QED BY <2>1, <2>2, <2>3
<1>3. CASE ProcessItem(b)
  <2>1. Doing(b) \in Items /\ StoreAnswer(Doing(b))
    BY <1>0, <1>3 DEF ProcessItem, Step, Busy
  <2>2. task'[b].doing = Doing(b)
    BY <1>3, TypeIs DEF ProcessItem, Step, Doing, Inv, Tasks
  <2> QED BY <2>1, <2>2, StoringAnswers DEF Inv
<1> QED BY <1>2, <1>3, WhoIsAnswered

LEMMA PromisedInit == Init => Promised!Init
<1> SUFFICES ASSUME Init PROVE Promised!Init
  OBVIOUS
<1>1. Reports = [b \in Batches |-> [status |-> "absent", completed |-> 0, failed |-> 0]]
  BY DEF Init, Reports
<1>2. Outcomes = [i \in Items |-> "open"]
  BY DEF Init, Outcomes, Terminal
<1> QED BY <1>1, <1>2 DEF Init, Promised!Init

(* What the rows show of a batch: its items by outcome, and whether it is    *)
(* accepted.                                                                 *)
LEMMA Shown ==
  ASSUME TypeOK, NEW b \in Batches
  PROVE  /\ Promised!Having(b, "completed") = InStatus(b, {"completed"})
         /\ Promised!Having(b, "failed") = InStatus(b, {"failed"})
         /\ Promised!Having(b, "open") = Undecided(b)
         /\ Reports[b].status = "accepted" <=> batch[b].status \in {"pending", "running"}
<1>1. /\ item \in [Items -> Statuses] /\ batch \in [Batches -> BatchRows]
  BY TypeIs
<1>2. \A i \in Items : /\ Outcomes[i] = "open" <=> item[i] \in {"pending", "running"}
                       /\ Outcomes[i] = "completed" <=> item[i] = "completed"
                       /\ Outcomes[i] = "failed" <=> item[i] = "failed"
  BY <1>1 DEF Outcomes, Statuses, Terminal
<1>3. Reports[b].status = "accepted" <=> batch[b].status \in {"pending", "running"}
  BY <1>1 DEF Reports, BatchRows, Finished
<1> QED BY <1>2, <1>3 DEF Promised!Having, InStatus, ItemSet, Undecided

LEMMA CreatePromised ==
  ASSUME Inv, NEW b \in Batches, CreateBatch(b)
  PROVE  Promised!Accept(b)
<1>1. batch \in [Batches -> BatchRows] /\ batch[b].status = "absent"
  BY TypeIs DEF Inv, CreateBatch
<1>2. batch' = [batch EXCEPT ![b].status = "pending"] /\ UNCHANGED <<item, answers>>
  BY DEF CreateBatch
<1>3. Reports[b] = batch[b] /\ Reports'[b] = [batch[b] EXCEPT !.status = "accepted"]
  BY <1>1, <1>2 DEF Reports, BatchRows
<1>4. \A c \in Batches \ {b} : Reports'[c] = Reports[c]
  BY <1>1, <1>2 DEF Reports
<1>5. Reports' = [Reports EXCEPT ![b].status = "accepted"]
  <2>1. Reports' = [Reports EXCEPT ![b] = [Reports[b] EXCEPT !.status = "accepted"]]
    <3>1. Reports = [c \in Batches |-> Reports[c]] /\ Reports' = [c \in Batches |-> Reports'[c]]
      BY DEF Reports
    <3> HIDE DEF Reports
    <3> QED BY <1>3, <1>4, <3>1
  <2> QED BY <2>1
<1>6. Outcomes' = Outcomes
  BY <1>2 DEF Outcomes
<1> QED BY <1>1, <1>2, <1>3, <1>5, <1>6 DEF Promised!Accept

LEMMA AnswerPromised ==
  ASSUME Inv, NEW b \in Batches, ProcessItem(b) \/ ProcessItemFails(b)
  PROVE  Promised!Answer(Doing(b)) \/ UNCHANGED <<Reports, Outcomes, answers>>
<1>1. Busy(b) /\ UNCHANGED <<batch, item>> /\ (answers' = answers \/ StoreAnswer(Doing(b)))
  BY DEF ProcessItem, ProcessItemFails, Step, Busy
<1>2. /\ Doing(b) \in Items /\ BatchOf[Doing(b)] = b /\ item[Doing(b)] = "running"
      /\ batch[b].status \in {"pending", "running"}
  BY <1>1 DEF Inv, TaskInv, ItemSet, Busy
<1>3. Reports' = Reports /\ Outcomes' = Outcomes
  BY <1>1 DEF Reports, Outcomes
<1>4. CASE answers' = answers
  BY <1>3, <1>4
<1>5. CASE answers' # answers
  <2>1. /\ Doing(b) \in WithSession => answers[Doing(b)] = 0
        /\ answers' = [answers EXCEPT ![Doing(b)] = answers[Doing(b)] + 1]
    BY <1>1, <1>2, <1>5, StoringAnswers DEF Inv
  <2>2. Reports[b].status = "accepted" /\ Outcomes[Doing(b)] = "open"
    BY <1>2, Shown DEF Inv, Outcomes, Terminal
  <2> QED BY <1>2, <1>3, <2>1, <2>2 DEF Promised!Answer, Promised!Open
<1> QED BY <1>4, <1>5

LEMMA DecidePromised ==
  ASSUME Inv, AnsweredInv, NEW b \in Batches, MarkItem(b)
  PROVE  \E o \in Terminal : Promised!Decide(Doing(b), o)
<1> DEFINE i == Doing(b)
           o == IF task[b].pc = "answered" THEN "completed" ELSE "failed"
<1>1. item' = [item EXCEPT ![i] = o] /\ UNCHANGED <<batch, answers>> /\ Busy(b)
  BY DEF MarkItem, Busy
<1>2. /\ i \in Items /\ BatchOf[i] = b /\ item[i] = "running"
      /\ batch[b].status \in {"pending", "running"}
  BY <1>1 DEF Inv, TaskInv, ItemSet, Busy
<1>3. o \in Terminal /\ (o = "completed" => answers[i] > 0)
  BY DEF Terminal, AnsweredInv
<1> HIDE DEF i, o
<1>4. Reports[b].status = "accepted" /\ Outcomes[i] = "open"
  BY <1>2, Shown DEF Inv, Outcomes, Terminal
<1>5. Reports' = Reports
  BY <1>1 DEF Reports
<1>6. item' \in [Items -> Statuses] /\ item'[i] = o /\ \A j \in Items \ {i} : item'[j] = item[j]
  BY <1>1, <1>2, <1>3, TypeIs DEF Inv, Statuses
<1>7. Outcomes' = [Outcomes EXCEPT ![i] = o]
  BY <1>2, <1>3, <1>6 DEF Outcomes
<1>8. Promised!Decide(i, o)
  BY <1>1, <1>2, <1>3, <1>4, <1>5, <1>7 DEF Promised!Decide, Promised!Open
<1> QED BY <1>3, <1>8 DEF i

LEMMA ReportPromised ==
  ASSUME Inv, NEW b \in Batches, MarkBatchFinished(b)
  PROVE  Promised!Report(b)
<1> DEFINE done == Cardinality(InStatus(b, {"completed"}))
           failed == Cardinality(InStatus(b, {"failed"}))
           new == [status |-> Promised!StatusOf(done, failed), completed |-> done, failed |-> failed]
<1>1. done \in Nat /\ failed \in Nat
  BY Counts
<1>2. /\ batch' = [batch EXCEPT ![b] = new] /\ task[b].pc = "next" /\ task[b].todo = {}
      /\ UNCHANGED <<item, answers>>
  <2> DEFINE status == CASE failed = 0 -> "completed"
                         [] failed > 0 /\ done = 0 -> "failed"
                         [] OTHER -> "partial"
  <2>1. batch' = [batch EXCEPT ![b] = [status |-> status, completed |-> done, failed |-> failed]]
    BY DEF MarkBatchFinished
  <2> HIDE DEF done, failed
  <2>2. status = Promised!StatusOf(done, failed)
    BY <1>1 DEF Promised!StatusOf
  <2> QED BY <2>1, <2>2 DEF MarkBatchFinished, Step
<1>3. new.status \in Finished
  BY DEF Promised!StatusOf, Finished
<1>4. /\ Promised!Having(b, "completed") = InStatus(b, {"completed"})
      /\ Promised!Having(b, "failed") = InStatus(b, {"failed"})
      /\ Promised!Having(b, "open") = {} /\ Reports[b].status = "accepted"
  BY <1>2, Shown DEF Inv, TaskInv
<1> HIDE DEF new
<1>5. batch \in [Batches -> BatchRows]
  BY TypeIs DEF Inv
<1>6. Reports'[b] = new /\ \A c \in Batches \ {b} : Reports'[c] = Reports[c]
  BY <1>2, <1>3, <1>5 DEF Reports, Finished
<1>7. Reports' = [Reports EXCEPT ![b] = new]
  BY <1>6 DEF Reports
<1>8. Outcomes' = Outcomes
  BY <1>2 DEF Outcomes
<1>9. new = [status |-> Promised!StatusOf(Cardinality(Promised!Having(b, "completed")),
                                            Cardinality(Promised!Having(b, "failed"))),
             completed |-> Cardinality(Promised!Having(b, "completed")),
             failed |-> Cardinality(Promised!Having(b, "failed"))]
  BY <1>4 DEF new
<1>10. \A S : Promised!Cardinality(S) = Cardinality(S)
  BY DEF Promised!Cardinality, Cardinality, Promised!IsFiniteSet, IsFiniteSet
<1> QED BY <1>2, <1>4, <1>7, <1>8, <1>9, <1>10 DEF Promised!Report

(* What whoever submitted a batch does not see: the task at work, its        *)
(* interruptions and its resumption.                                         *)
LEMMA WorkUnseen ==
  ASSUME Inv,
         \/ Stop \/ Start \/ UNCHANGED vars
         \/ \E b \in Batches : \/ MarkBatchRunning(b) \/ ListPendingItems(b)
                               \/ MarkItemRunning(b) \/ TaskDies(b)
  PROVE  UNCHANGED <<Reports, Outcomes, answers>>
<1>1. CASE UNCHANGED <<batch, item, answers>>
  BY <1>1 DEF Reports, Outcomes
<1>2. ASSUME NEW b \in Batches, MarkBatchRunning(b)
      PROVE  UNCHANGED <<Reports, Outcomes, answers>>
  <2>1. batch[b].status \in {"pending", "running"} /\ batch \in [Batches -> BatchRows]
    BY <1>2, TypeIs DEF MarkBatchRunning, Step, Inv, TaskInv
  <2>2. batch' = [batch EXCEPT ![b].status = "running"] /\ UNCHANGED <<item, answers>>
    BY <1>2 DEF MarkBatchRunning
  <2>3. \A c \in Batches : Reports'[c] = Reports[c]
    BY <2>1, <2>2 DEF Reports, BatchRows
  <2>4. Reports' = Reports
    BY <2>3 DEF Reports
  <2> QED BY <2>2, <2>4 DEF Outcomes
<1>3. ASSUME NEW b \in Batches, MarkItemRunning(b)
      PROVE  UNCHANGED <<Reports, Outcomes, answers>>
  <2>1. PICK i \in task[b].todo : item' = [item EXCEPT ![i] = "running"]
    BY <1>3 DEF MarkItemRunning
  <2>2. i \in Items /\ item[i] \in {"pending", "running"} /\ item \in [Items -> Statuses]
    BY <1>3, <2>1, TypeIs DEF MarkItemRunning, Inv, TaskInv, Undecided, InStatus, ItemSet
  <2>3. \A j \in Items : Outcomes'[j] = Outcomes[j]
    BY <2>1, <2>2 DEF Outcomes, Terminal
  <2>4. Outcomes' = Outcomes
    BY <2>3 DEF Outcomes
  <2> QED BY <1>3, <2>4 DEF MarkItemRunning, Reports
<1> QED BY <1>1, <1>2, <1>3 DEF vars, Stop, Start, ListPendingItems, TaskDies

LEMMA PromisedStep ==
  ASSUME Inv, AnsweredInv, [Next]_vars
  PROVE  [Promised!Next]_<<Reports, Outcomes, answers>>
<1>1. ASSUME NEW b \in Batches, CreateBatch(b) \/ MarkBatchFinished(b)
      PROVE  Promised!Next
  BY <1>1, CreatePromised, ReportPromised DEF Promised!Next
<1>2. ASSUME NEW b \in Batches, ProcessItem(b) \/ ProcessItemFails(b)
      PROVE  Promised!Next \/ UNCHANGED <<Reports, Outcomes, answers>>
  <2>1. Doing(b) \in Items
    BY <1>2 DEF ProcessItem, ProcessItemFails, Step, Inv, TaskInv, Busy, ItemSet
  <2> QED BY <1>2, <2>1, AnswerPromised DEF Promised!Next
<1>3. ASSUME NEW b \in Batches, MarkItem(b)
      PROVE  Promised!Next
  <2>1. Doing(b) \in Items
    BY <1>3 DEF MarkItem, Inv, TaskInv, Busy, ItemSet
  <2> QED BY <1>3, <2>1, DecidePromised DEF Promised!Next, Terminal
<1> QED BY <1>1, <1>2, <1>3, WorkUnseen DEF Next, RunBatch

(* Whatever interrupts and resumes a batch, what its rows show is a life of  *)
(* BatchLife: nothing is completed without an answer, decided twice or       *)
(* reported early.                                                           *)
THEOREM BatchesKeepPromises == Spec => ImplementsBatchLife
<1>1. Init => AnsweredInv
  BY DEF Init, AnsweredInv, NoTask
<1>2. Inv /\ AnsweredInv /\ [Next]_vars => Inv' /\ AnsweredInv'
  BY NextIsKept, AnsweredStep
<1>3. Inv /\ AnsweredInv /\ [Next]_vars => [Promised!Next]_<<Reports, Outcomes, answers>>
  BY PromisedStep
<1>4. Spec => []Inv /\ []AnsweredInv
  BY <1>1, <1>2, InitHolds, PTL DEF Spec
<1> QED
  BY <1>3, <1>4, PromisedInit, PTL DEF Spec, ImplementsBatchLife, Promised!Spec, Promised!vars
=============================================================================
