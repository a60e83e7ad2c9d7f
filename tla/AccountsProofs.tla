------------------------------ MODULE AccountsProofs ------------------------------
(* Proofs about Accounts: cookies reach the inventory only validated and the *)
(* pool only through the inventory; edits are never undone; and the pool has *)
(* the accounts of the inventory once no edit is waiting, because whoever    *)
(* loads it holds the lock, and every edit loads it after its write.         *)
EXTENDS Accounts, TLAPS

(* An edit waits and syncs; a recovery has an account, and perhaps a job.    *)
Begun(j) == job[j].status # "absent"

CallInv ==
  \A c \in Callers :
    /\ call[c].edit => c \in Requests /\ call[c].pc \in {"waiting", "syncing"}
    /\ call[c].pc # "idle" /\ ~call[c].edit => call[c].account \in Accounts
    /\ call[c].job \in Jobs => Begun(call[c].job)
    /\ call[c].pc # "idle" /\ c \in Jobs => Begun(c)

JobInv ==
  \A j \in Jobs : /\ job[j].status # "absent" => job[j].account \in Accounts
                  /\ job[j].task # "none" => job[j].status # "absent"

EditWaits == \E c \in Requests : call[c].edit /\ call[c].pc = "waiting"
Syncing(c) == call[c].pc = "syncing"
Inventory == {a \in Accounts : inv[a].there}
Pooled == {a \in Accounts : pool[a].there}

SyncInv ==
  /\ \A c \in Callers : Syncing(c) <=> lock = c
  /\ ~EditWaits =>
       /\ \A c \in Callers : Syncing(c) => call[c].seen = Inventory /\ Pooled \subseteq Inventory
       /\ (\A c \in Callers : Syncing(c) => ~call[c].edit) => Pooled = Inventory

Inv == TypeOK /\ CallInv /\ JobInv /\ SyncInv /\ MonitorsAccountedFor /\ OnlyValidatedCookies

LEMMA IdleCall ==
  /\ Idle \in Calls /\ Idle.pc = "idle" /\ Idle.job = NoJob /\ ~Idle.edit
  /\ NoJob \notin Jobs
BY AccountsAssumption DEF Idle, Calls, Cookies, Callers

LEMMA NewRuntime ==
  NoRuntime \in Runtimes /\ NoRuntime.cookies = "given" /\ ~NoRuntime.there
BY DEF NoRuntime, Runtimes, Cookies

-----------------------------------------------------------------------------
(* Most steps edit and load nothing.  A job that changes is one that was     *)
(* started; a call that changes is not an edit and does not begin to sync.   *)
JobsGo ==
  /\ job' \in [Jobs -> JobRecords]
  /\ \A j \in Jobs : \/ job'[j] = job[j]
                     \/ job'[j].account \in Accounts /\ job'[j].status # "absent"

CallsGo ==
  /\ call' \in [Callers -> Calls] /\ lock' \in Callers \cup {Nobody}
  /\ \A c \in Callers :
       \/ call'[c] = call[c]
       \/ /\ ~call[c].edit /\ ~call'[c].edit /\ call'[c].pc # "syncing"
          /\ call'[c].pc # "idle" => call'[c].account \in Accounts
          /\ call'[c].job \in Jobs => Begun(call'[c].job)
          /\ call'[c].pc # "idle" /\ c \in Jobs => Begun(c)
  /\ \A c \in Callers : Syncing(c)' <=> lock' = c

StoresGo ==
  /\ inv' \in [Accounts -> Entries] /\ pool' \in [Accounts -> Runtimes]
  /\ cache' \in [Accounts -> Cookies] /\ online' \subseteq Accounts
  /\ \A a \in Accounts : /\ inv'[a].there = inv[a].there /\ pool'[a].there = pool[a].there
                         /\ inv'[a].cookies # "bad" /\ pool'[a].cookies # "bad"

(* The monitors are in step after a change of one call, or of jobs alone, if *)
(* the one it concerns is.                                                   *)
LEMMA OneMonitor ==
  ASSUME Inv, NEW c \in Callers, NEW new, call' = [call EXCEPT ![c] = new],
         \A k \in Jobs \ {c} : job'[k] = job[k],
         c \in Jobs => MonitorAccountedFor(c)'
  PROVE  MonitorsAccountedFor'
<1>1. \A k \in Jobs \ {c} : call'[k] = call[k] /\ MonitorAccountedFor(k)
  BY DEF Inv, TypeOK, MonitorsAccountedFor, Callers
<1>2. \A k \in Jobs \ {c} : MonitorAccountedFor(k)'
  BY <1>1 DEF MonitorAccountedFor, At
<1> QED BY <1>2 DEF MonitorsAccountedFor

LEMMA MonitorGoesOn ==
  ASSUME Inv, NEW c \in Callers, NEW new, call' = [call EXCEPT ![c] = new], job' = job,
         c \in Jobs => /\ call[c].pc # "idle" /\ new.pc # "idle"
                       /\ new.job = call[c].job /\ new.account = call[c].account
  PROVE  MonitorsAccountedFor'
<1>1. c \in Jobs => call'[c] = new /\ MonitorAccountedFor(c)
  BY DEF Inv, TypeOK, MonitorsAccountedFor
<1>2. c \in Jobs => MonitorAccountedFor(c)'
  BY <1>1 DEF MonitorAccountedFor, At
<1> QED BY <1>2, OneMonitor

LEMMA TasksGo ==
  ASSUME Inv, \A k \in Jobs : call'[k] = call[k],
         \A k \in Jobs : /\ job'[k].task = "calling" <=> job[k].task = "calling"
                         /\ job[k].task = "calling" => job'[k].account = job[k].account
  PROVE  MonitorsAccountedFor'
BY DEF Inv, MonitorsAccountedFor, MonitorAccountedFor, At

LEMMA Quiet ==
  ASSUME Inv, JobsGo, CallsGo, StoresGo, MonitorsAccountedFor'
  PROVE  Inv'
<1>1. TypeOK' /\ OnlyValidatedCookies'
  BY DEF JobsGo, CallsGo, StoresGo, TypeOK, OnlyValidatedCookies
<1>2. JobInv'
  BY DEF JobsGo, Inv, JobInv
<1>3. \A j \in Jobs : Begun(j) => Begun(j)'
  BY DEF JobsGo, Begun
<1>4. CallInv'
  BY <1>3 DEF CallsGo, Inv, CallInv
<1>5. SyncInv'
  <2>1. Inventory' = Inventory /\ Pooled' = Pooled
    BY DEF StoresGo, Inventory, Pooled
  <2>2. EditWaits' <=> EditWaits
    BY DEF CallsGo, EditWaits, Callers
  <2>3. \A c \in Callers : Syncing(c)' => call'[c] = call[c] /\ Syncing(c)
    BY DEF CallsGo, Syncing
  <2>4. \A c \in Callers : Syncing(c) /\ call[c].edit => call'[c] = call[c]
    BY DEF CallsGo
  <2>5. \A c \in Callers : Syncing(c)' <=> lock' = c
    BY DEF CallsGo
  <2>6. ASSUME ~EditWaits'
        PROVE  /\ \A c \in Callers : Syncing(c)' => call'[c].seen = Inventory'
                                                   /\ Pooled' \subseteq Inventory'
               /\ (\A c \in Callers : Syncing(c)' => ~call'[c].edit) => Pooled' = Inventory'
    <3>1. \A c \in Callers : Syncing(c) => call[c].seen = Inventory /\ Pooled \subseteq Inventory
      BY <2>2, <2>6 DEF Inv, SyncInv
    <3>2. (\A c \in Callers : Syncing(c)' => ~call'[c].edit) =>
            \A c \in Callers : Syncing(c) => ~call[c].edit
      BY <2>4 DEF Syncing
    <3> QED BY <2>1, <2>2, <2>3, <2>6, <3>1, <3>2 DEF Inv, SyncInv
  <2> QED BY <2>5, <2>6 DEF SyncInv
<1> QED BY <1>1, <1>2, <1>4, <1>5 DEF Inv

-----------------------------------------------------------------------------
(* A recovery returns, perhaps to a job, whose monitor it may cancel.        *)
Results == {"completed", "awaiting", "failed"}

LEMMA AppliedJobs ==
  ASSUME Inv, NEW j \in Jobs, NEW c \in Callers, NEW r \in Results,
         Begun(j), job' = Applied(j, c, r)
  PROVE  JobsGo
<1> DEFINE status == CASE r = "completed"            -> "completed"
                       [] r = "awaiting" /\ c = j    -> "awaiting_login"
                       [] r = "awaiting" /\ c # j    -> "collecting_cookies"
                       [] r = "failed"               -> "failed"
           task == CASE c = j /\ r = "awaiting"      -> "sleeping"
                     [] c = j /\ r # "awaiting"      -> "over"
                     [] c # j /\ r = "completed"     -> "over"
                     [] OTHER                        -> job[j].task
           new == [job[j] EXCEPT !.status = status, !.task = task]
<1>1. job[j] \in JobRecords /\ job \in [Jobs -> JobRecords] /\ job[j].account \in Accounts
  BY DEF Inv, TypeOK, JobInv, Begun
<1>2. status \in {"completed", "awaiting_login", "collecting_cookies", "failed"}
  BY DEF Results
<1>3. task \in {"sleeping", "over", job[j].task}
  OBVIOUS
<1>4. job' = [job EXCEPT ![j].status = status, ![j].task = task]
  BY Zenon DEF Applied
<1> HIDE DEF status, task
<1>6. job' = [job EXCEPT ![j] = new]
  BY <1>1, <1>4 DEF JobRecords
<1>5. new \in JobRecords /\ new.account = job[j].account /\ new.status = status
  BY <1>1, <1>2, <1>3 DEF JobRecords, Open, Terminal
<1> HIDE DEF new
<1> QED BY <1>1, <1>2, <1>5, <1>6 DEF JobsGo

LEMMA Returns ==
  ASSUME Inv, NEW c \in Callers, NEW j \in Jobs \cup {NoJob}, NEW r \in Results,
         ~call[c].edit, j # NoJob => Begun(j), c \in Jobs => j = c, Return(c, j, r)
  PROVE  JobsGo /\ CallsGo /\ MonitorsAccountedFor'
<1>1. JobsGo
  <2>1. CASE j = NoJob
    BY <2>1 DEF Return, JobsGo, Inv, TypeOK
  <2>2. CASE j # NoJob
    BY <2>2, AppliedJobs DEF Return
  <2> QED BY <2>1, <2>2
<1>2. CallsGo
  <2> DEFINE ends == {c} \cup (IF r = "completed" /\ j # NoJob THEN {j} ELSE {})
  <2>1. /\ call' = [d \in Callers |-> IF d \in ends THEN Idle ELSE call[d]]
        /\ lock' = IF lock \in ends THEN Nobody ELSE lock
    BY DEF Return
  <2>2. \A d \in ends : d \in Callers /\ ~call[d].edit
    BY AccountsAssumption DEF Inv, CallInv, Callers
  <2> HIDE DEF ends
  <2>3. \A d \in Callers : Syncing(d)' <=> d \notin ends /\ Syncing(d)
    BY <2>1, IdleCall DEF Syncing
  <2>4. \A d \in Callers : Syncing(d)' <=> lock' = d
    BY <2>1, <2>3, AccountsAssumption DEF Inv, SyncInv
  <2>5. call' \in [Callers -> Calls] /\ lock' \in Callers \cup {Nobody}
    BY <2>1, IdleCall DEF Inv, TypeOK
  <2> QED BY <2>1, <2>2, <2>4, <2>5, IdleCall DEF CallsGo
<1>3. ASSUME NEW k \in Jobs PROVE MonitorAccountedFor(k)'
  <2> DEFINE ends == {c} \cup (IF r = "completed" /\ j # NoJob THEN {j} ELSE {})
  <2>1. k \in Callers /\ MonitorAccountedFor(k) /\ job[k] \in JobRecords
    BY DEF Callers, Inv, TypeOK, MonitorsAccountedFor
  <2>2. call'[k] = IF k \in ends THEN Idle ELSE call[k]
    BY <2>1 DEF Return
  <2>3. CASE k # j
    <3>1. k \notin ends /\ job'[k] = job[k]
      BY <2>3 DEF Return, Applied, Inv, TypeOK
    <3> QED BY <2>1, <2>2, <3>1 DEF MonitorAccountedFor, At
  <2>4. CASE k = j /\ k \in ends
    <3>1. job' = Applied(j, c, r) /\ (c = j \/ r = "completed")
      BY <2>4, IdleCall DEF Return
    <3>2. job'[k].task \in {"sleeping", "over"}
      BY <2>1, <2>4, <3>1 DEF Applied, Results, Inv, TypeOK, JobRecords
    <3>3. call'[k].pc = "idle"
      BY <2>2, <2>4, IdleCall
    <3> QED BY <3>2, <3>3 DEF MonitorAccountedFor, At
  <2>5. CASE k = j /\ k \notin ends
    <3>1. job' = Applied(j, c, r) /\ c # j /\ r # "completed"
      BY <2>5, IdleCall DEF Return
    <3>2. job'[k].task = job[k].task /\ job'[k].account = job[k].account
      BY <2>1, <2>5, <3>1 DEF Applied, Inv, TypeOK, JobRecords
    <3> QED BY <2>1, <2>2, <2>5, <3>2 DEF MonitorAccountedFor, At
  <2> QED BY <2>3, <2>4, <2>5
<1> QED BY <1>1, <1>2, <1>3 DEF MonitorsAccountedFor

(* One call goes on, without syncing; nobody else moves.                     *)
LEMMA OneCall ==
  ASSUME Inv, NEW c \in Callers, NEW new \in Calls,
         call' = [call EXCEPT ![c] = new], lock' = lock,
         ~call[c].edit, ~new.edit, ~Syncing(c), new.pc # "syncing",
         new.pc # "idle" => new.account \in Accounts,
         new.job \in Jobs => Begun(new.job),
         c \in Jobs => Begun(c)
  PROVE  CallsGo
BY DEF CallsGo, Inv, TypeOK, SyncInv, Syncing

(* recover_account, of a request, the daemon or a monitor.                   *)
LEMMA Recovers ==
  ASSUME Inv, NEW c \in Callers, NEW a \in Accounts, NEW j \in Jobs \cup {NoJob},
         ~call[c].edit, j # NoJob => Begun(j), At(c, "idle"),
         c \in Jobs => Begun(c) /\ j = c /\ a = job[c].account,
         Recover(c, a, j) \/ RecoverOrLaunch(c, a, j)
  PROVE  JobsGo /\ CallsGo /\ MonitorsAccountedFor' /\ online' \subseteq Accounts
<1>1. ASSUME NEW pc \in {"collecting", "launching"}, RecoverBegins(c, a, j, pc)
      PROVE  JobsGo /\ CallsGo /\ MonitorsAccountedFor' /\ online' \subseteq Accounts
  <2> DEFINE new == [Idle EXCEPT !.pc = pc, !.account = a, !.job = j]
  <2>1. /\ new \in Calls /\ new.pc = pc /\ new.account = a /\ new.job = j
        /\ ~new.edit
    BY DEF Idle, Calls, Cookies
  <2>2. call' = [call EXCEPT ![c] = new] /\ lock' = lock /\ online' = online
    BY <1>1 DEF RecoverBegins
  <2> HIDE DEF new
  <2>3. CallsGo
    BY <2>1, <2>2, IdleCall, OneCall DEF At, Syncing
  <2>5. MonitorsAccountedFor'
    <3>1. ASSUME c \in Jobs PROVE MonitorAccountedFor(c)'
      <4>1. job[c] \in JobRecords /\ j = c
        BY <3>1 DEF Inv, TypeOK
      <4>2. job'[c].task = "calling" /\ job'[c].account = job[c].account
        BY <1>1, <3>1, <4>1 DEF RecoverBegins, Inv, TypeOK, JobRecords
      <4>3. call'[c] = new
        BY <2>2 DEF Inv, TypeOK
      <4> QED BY <2>1, <3>1, <4>1, <4>2, <4>3 DEF MonitorAccountedFor, At
    <3>2. \A k \in Jobs \ {c} : job'[k] = job[k]
      BY <1>1 DEF RecoverBegins, Inv, TypeOK
    <3> QED BY <2>2, <3>1, <3>2, OneMonitor
  <2>4. JobsGo
    <3>1. CASE job' = job
      BY <3>1 DEF JobsGo, Inv, TypeOK
    <3>2. ASSUME c = j, NEW status \in Open \cup Terminal,
                 job' = [job EXCEPT ![j].status = status, ![j].task = "calling"]
          PROVE  JobsGo
      <4> DEFINE record == [job[j] EXCEPT !.status = status, !.task = "calling"]
      <4>1. j \in Jobs /\ job[j] \in JobRecords /\ job[j].account \in Accounts
        BY <3>2, AccountsAssumption DEF Inv, TypeOK, JobInv, Callers, Begun
      <4>2. /\ record \in JobRecords /\ record.account = job[j].account
            /\ record.status # "absent"
        BY <3>2, <4>1 DEF JobRecords, Open, Terminal
      <4>3. job' = [job EXCEPT ![j] = record]
        BY <3>2, <4>1 DEF JobRecords
      <4> HIDE DEF record
      <4> QED BY <4>1, <4>2, <4>3 DEF JobsGo, Inv, TypeOK
    <3>3. c = j => j # NoJob
      BY AccountsAssumption DEF Callers
    <3>4. CASE c = j
      <4> DEFINE status == IF job[j].task = "starting" THEN "validating_provider"
                           ELSE job[j].status
      <4>1. j \in Jobs /\ job[j] \in JobRecords
        BY <3>3, <3>4 DEF Inv, TypeOK
      <4>2. status \in Open \cup Terminal
        BY <3>3, <3>4, <4>1 DEF JobRecords, Open, Begun
      <4>3. job' = [job EXCEPT ![j].status = status, ![j].task = "calling"]
        BY <1>1, <3>4, <4>1 DEF RecoverBegins
      <4> QED BY <3>2, <3>4, <4>2, <4>3
    <3> QED BY <1>1, <3>1, <3>4 DEF RecoverBegins
  <2> QED BY <2>2, <2>3, <2>4, <2>5 DEF Inv, TypeOK
<1>2. ASSUME NEW r \in Results, Return(c, j, r), online' \in {online, online \cup {a}}
      PROVE  JobsGo /\ CallsGo /\ MonitorsAccountedFor' /\ online' \subseteq Accounts
  BY <1>2, Returns DEF Inv, TypeOK
<1> QED BY <1>1, <1>2 DEF Recover, RecoverOrLaunch, RecoverMissing, RecoverOffline,
                         RecoverAttached,
                         RecoverLaunching, Results

-----------------------------------------------------------------------------
(* Steps of a recovery.                                                      *)
LEMMA SameStores ==
  ASSUME Inv, inv' = inv, pool' = pool, cache' \in [Accounts -> Cookies],
         online' \subseteq Accounts
  PROVE  StoresGo
BY DEF StoresGo, Inv, TypeOK, OnlyValidatedCookies

LEMMA SameJobs ==
  ASSUME Inv, job' = job
  PROVE  JobsGo
BY DEF JobsGo, Inv, TypeOK

LEMMA InRecovery ==
  ASSUME Inv, NEW c \in Callers,
         call[c].pc \in {"launching", "collecting", "probing", "refreshing", "verifying"}
  PROVE  /\ call[c] \in Calls /\ ~call[c].edit /\ call[c].account \in Accounts
         /\ call[c].job \in Jobs \cup {NoJob}
         /\ call[c].job # NoJob => Begun(call[c].job)
         /\ c \in Jobs => Begun(c) /\ call[c].job = c /\ call[c].pc # "idle"
         /\ ~Syncing(c)
BY DEF Inv, TypeOK, CallInv, Calls, MonitorsAccountedFor, MonitorAccountedFor, At, Syncing

LEMMA LaunchKeeps ==
  ASSUME Inv, NEW c \in Callers, Launch(c)
  PROVE  Inv'
<1>1. /\ call[c] \in Calls /\ ~call[c].edit /\ call[c].account \in Accounts
      /\ call[c].job \in Jobs \cup {NoJob}
      /\ call[c].job # NoJob => Begun(call[c].job)
      /\ c \in Jobs => call[c].job = c
  BY InRecovery DEF Launch, At
<1>2. PICK r \in Results : Return(c, call[c].job, r)
  BY DEF Launch, Results
<1>3. JobsGo /\ CallsGo /\ MonitorsAccountedFor'
  BY <1>1, <1>2, Returns
<1>4. StoresGo
  BY <1>1, SameStores DEF Launch, Inv, TypeOK
<1> QED BY <1>3, <1>4, Quiet

LEMMA CollectKeeps ==
  ASSUME Inv, NEW c \in Callers, CollectFails(c) \/ Collect(c) \/ ProbeRefuses(c)
  PROVE  Inv'
<1>1. /\ call[c] \in Calls /\ ~call[c].edit /\ call[c].account \in Accounts
      /\ call[c].job \in Jobs \cup {NoJob}
      /\ call[c].job # NoJob => Begun(call[c].job)
      /\ c \in Jobs => Begun(c) /\ call[c].job = c /\ call[c].pc # "idle"
      /\ ~Syncing(c)
  BY InRecovery DEF CollectFails, Collect, ProbeRefuses, At
<1>2. CASE Collect(c)
  <2>1. PICK b \in Cookies \ {"given"} :
          /\ call' = [call EXCEPT ![c].pc = "probing", ![c].bundle = b,
                                  ![c].prev = cache[call[c].account]]
          /\ cache' = [cache EXCEPT ![call[c].account] = b]
    BY <1>2 DEF Collect
  <2> DEFINE new == [call[c] EXCEPT !.pc = "probing", !.bundle = b,
                                    !.prev = cache[call[c].account]]
  <2>2. cache[call[c].account] \in Cookies
    BY <1>1 DEF Inv, TypeOK
  <2>3. call' = [call EXCEPT ![c] = new]
    BY <1>1, <2>1 DEF Inv, TypeOK, Calls
  <2>4. /\ new \in Calls /\ new.pc = "probing" /\ new.account = call[c].account
        /\ new.job = call[c].job /\ ~new.edit
    BY <1>1, <2>2 DEF Calls
  <2> HIDE DEF new
  <2>5. CallsGo
    BY <1>1, <1>2, <2>3, <2>4, OneCall, IdleCall DEF Collect
  <2>6. StoresGo
    BY <1>2, <2>1, SameStores DEF Collect, Inv, TypeOK
  <2>7. MonitorsAccountedFor'
    BY <1>1, <1>2, <2>3, <2>4, MonitorGoesOn DEF Collect
  <2> QED BY <1>2, <2>5, <2>6, <2>7, SameJobs, Quiet DEF Collect
<1>3. CASE CollectFails(c) \/ ProbeRefuses(c)
  <2>1. Return(c, call[c].job, "awaiting") /\ UNCHANGED <<inv, pool, online>>
    BY <1>3 DEF CollectFails, ProbeRefuses
  <2>2. cache' \in [Accounts -> Cookies]
    BY <1>1, <1>3 DEF CollectFails, ProbeRefuses, Inv, TypeOK, Calls
  <2>3. StoresGo
    BY <2>1, <2>2, SameStores DEF Inv, TypeOK
  <2>4. JobsGo /\ CallsGo /\ MonitorsAccountedFor'
    BY <1>1, <2>1, Returns DEF Results
  <2> QED BY <2>3, <2>4, Quiet
<1> QED BY <1>2, <1>3

LEMMA ProbeAcceptsKeeps ==
  ASSUME Inv, NEW c \in Callers, ProbeAccepts(c)
  PROVE  Inv'
<1> DEFINE a == call[c].account
           new == [Idle EXCEPT !.pc = "waiting", !.account = a, !.job = call[c].job]
<1>1. /\ call[c] \in Calls /\ ~call[c].edit /\ a \in Accounts
      /\ call[c].job \in Jobs \cup {NoJob}
      /\ call[c].job # NoJob => Begun(call[c].job)
      /\ c \in Jobs => Begun(c) /\ call[c].job = c /\ call[c].pc # "idle"
      /\ ~Syncing(c)
  BY InRecovery DEF ProbeAccepts, At
<1>2. /\ new \in Calls /\ new.pc = "waiting" /\ new.account = a /\ new.job = call[c].job
      /\ ~new.edit
  BY <1>1 DEF Idle, Calls, Cookies
<1>3. call' = [call EXCEPT ![c] = new] /\ inv' = Written(a, call[c].bundle)
      /\ call[c].bundle \in Cookies /\ call[c].bundle # "bad"
      /\ UNCHANGED <<pool, lock, cache, online, job>>
  BY <1>1 DEF ProbeAccepts, Refused, Calls
<1> HIDE DEF new
<1>4. CallsGo
  BY <1>1, <1>2, <1>3, OneCall, IdleCall
<1>5. /\ inv' \in [Accounts -> Entries]
      /\ \A b \in Accounts : inv'[b].there = inv[b].there
                             /\ inv'[b].cookies \in {inv[b].cookies, call[c].bundle}
  BY <1>1, <1>3 DEF Written, Inv, TypeOK, Entries
<1>6. StoresGo
  BY <1>3, <1>5 DEF StoresGo, Inv, TypeOK, OnlyValidatedCookies
<1>7. MonitorsAccountedFor'
  BY <1>1, <1>2, <1>3, MonitorGoesOn
<1> QED BY <1>3, <1>4, <1>6, <1>7, SameJobs, Quiet

LEMMA ReloadedRuntime ==
  ASSUME Inv, NEW a \in Accounts
  PROVE  /\ Reloaded(a) \in Runtimes /\ Reloaded(a).there = pool[a].there
         /\ Reloaded(a).cookies # "bad"
BY DEF Reloaded, Inv, TypeOK, Runtimes, Entries, OnlyValidatedCookies

LEMMA RefreshAccountKeeps ==
  ASSUME Inv, NEW c \in Callers, ReloadAccount(c) \/ Verify(c)
  PROVE  Inv'
<1> DEFINE a == call[c].account
<1>1. /\ call[c] \in Calls /\ ~call[c].edit /\ a \in Accounts
      /\ call[c].job \in Jobs \cup {NoJob}
      /\ call[c].job # NoJob => Begun(call[c].job)
      /\ c \in Jobs => Begun(c) /\ call[c].job = c /\ call[c].pc # "idle"
      /\ ~Syncing(c)
  BY InRecovery DEF ReloadAccount, Verify, At
<1>2. CASE ReloadAccount(c)
  <2> DEFINE new == [call[c] EXCEPT !.pc = "verifying"]
  <2>1. /\ new \in Calls /\ new.pc = "verifying" /\ new.account = a
        /\ new.job = call[c].job /\ ~new.edit
    BY <1>1 DEF Calls
  <2>2. call' = [call EXCEPT ![c] = new] /\ pool' = [pool EXCEPT ![a] = Reloaded(a)]
        /\ UNCHANGED <<inv, lock, cache, online, job>>
    BY <1>1, <1>2 DEF ReloadAccount, Calls
  <2> HIDE DEF new
  <2>3. CallsGo
    BY <1>1, <2>1, <2>2, OneCall, IdleCall
  <2>4. StoresGo
    BY <1>1, <2>2, ReloadedRuntime DEF StoresGo, Inv, TypeOK, OnlyValidatedCookies
  <2>5. MonitorsAccountedFor'
    BY <1>1, <2>1, <2>2, MonitorGoesOn
  <2> QED BY <2>2, <2>3, <2>4, <2>5, SameJobs, Quiet
<1>3. CASE Verify(c)
  <2>1. PICK up \in BOOLEAN :
          /\ pool' = IF pool[a].there THEN [pool EXCEPT ![a].up = up] ELSE pool
          /\ Return(c, call[c].job, IF up THEN "completed" ELSE "awaiting")
          /\ UNCHANGED <<inv, cache, online>>
    BY <1>3 DEF Verify, Found
  <2>2. JobsGo /\ CallsGo /\ MonitorsAccountedFor'
    BY <1>1, <2>1, Returns DEF Results
  <2>3. StoresGo
    BY <1>1, <2>1 DEF StoresGo, Inv, TypeOK, Runtimes, OnlyValidatedCookies
  <2> QED BY <2>2, <2>3, Quiet
<1> QED BY <1>2, <1>3

LEMMA RaiseKeeps ==
  ASSUME Inv, NEW c \in Callers, Raise(c)
  PROVE  Inv'
<1>1. ~call[c].edit /\ ~Syncing(c) /\ (c \in Jobs => Begun(c))
  BY InRecovery DEF Raise
<1>2. CallsGo
  BY <1>1, IdleCall, OneCall DEF Raise
<1>3. JobsGo
  <2>1. CASE c \notin Jobs
    BY <2>1 DEF Raise, JobsGo, Inv, TypeOK
  <2>2. CASE c \in Jobs
    <3>1. Begun(c)
      BY <2>2, InRecovery DEF Raise
    <3> QED BY <2>2, <3>1 DEF Raise, JobsGo, Inv, TypeOK, JobInv, JobRecords, Begun
  <2> QED BY <2>1, <2>2
<1>4. StoresGo
  BY SameStores DEF Raise, Inv, TypeOK
<1>5. MonitorsAccountedFor'
  <2>1. call' = [call EXCEPT ![c] = Idle] /\ call'[c] = Idle
        /\ \A k \in Jobs \ {c} : job'[k] = job[k]
    BY DEF Raise, Inv, TypeOK
  <2>2. ASSUME c \in Jobs PROVE job'[c].task = "raised"
    BY <2>2 DEF Raise, Inv, TypeOK, JobRecords
  <2>3. c \in Jobs => MonitorAccountedFor(c)'
    BY <2>1, <2>2, IdleCall DEF MonitorAccountedFor, At
  <2> QED BY <2>1, <2>3, OneMonitor
<1> QED BY <1>2, <1>3, <1>4, <1>5, Quiet

-----------------------------------------------------------------------------
(* sync_inventory.  Who loads the inventory has the lock alone.              *)
LEMMA LoadInventoryKeeps ==
  ASSUME Inv, NEW c \in Callers, LoadInventory(c)
  PROVE  Inv'
<1> DEFINE new == [call[c] EXCEPT !.pc = "syncing", !.seen = Inventory]
<1>1. call[c] \in Calls /\ call[c].pc = "waiting" /\ lock = Nobody
  BY DEF LoadInventory, At, Inv, TypeOK
<1>2. /\ new \in Calls /\ new.pc = "syncing" /\ new.seen = Inventory /\ new.edit = call[c].edit
      /\ new.account = call[c].account /\ new.job = call[c].job
  BY <1>1 DEF Calls, Inventory
<1>3. /\ call' = [call EXCEPT ![c] = new] /\ lock' = c
      /\ pool' = [a \in Accounts |-> IF inv[a].there THEN pool[a] ELSE NoRuntime]
      /\ UNCHANGED <<inv, cache, online, job>>
  BY <1>1 DEF LoadInventory, Inventory, Calls
<1> HIDE DEF new
<1>4. \A d \in Callers : ~Syncing(d)
  BY <1>1, AccountsAssumption DEF Inv, SyncInv
<1>5. /\ call'[c] = new /\ \A d \in Callers \ {c} : call'[d] = call[d]
      /\ call' \in [Callers -> Calls]
  BY <1>2, <1>3 DEF Inv, TypeOK
<1>6. TypeOK' /\ OnlyValidatedCookies'
  BY <1>3, <1>5, NewRuntime DEF Inv, TypeOK, OnlyValidatedCookies
<1>7. CallInv' /\ JobInv' /\ MonitorsAccountedFor'
  BY <1>1, <1>2, <1>3, <1>5, MonitorGoesOn DEF Inv, CallInv, JobInv, Begun
<1>8. SyncInv'
  <2>1. Inventory' = Inventory /\ Pooled' = Pooled \cap Inventory
    BY <1>3, NewRuntime DEF Inventory, Pooled
  <2>2. \A d \in Callers : Syncing(d)' => d = c
    BY <1>4, <1>5 DEF Syncing
  <2>3. ASSUME ~EditWaits', ~call'[c].edit PROVE ~EditWaits
    BY <1>2, <1>5, <2>3 DEF EditWaits, Callers
  <2>4. ~EditWaits => Pooled = Inventory
    BY <1>4 DEF Inv, SyncInv
  <2>5. Syncing(c)'
    BY <1>2, <1>5 DEF Syncing
  <2> QED BY <1>2, <1>3, <1>5, <2>1, <2>2, <2>3, <2>4, <2>5 DEF SyncInv
<1> QED BY <1>6, <1>7, <1>8 DEF Inv

LEMMA SyncedRuntime ==
  ASSUME Inv, NEW c \in Callers, NEW a \in Accounts
  PROVE  /\ Synced(c, a) \in Runtimes /\ Synced(c, a).cookies # "bad"
         /\ Synced(c, a).there <=> a \in call[c].seen \/ pool[a].there
<1>1. CASE a \in call[c].seen /\ ~pool[a].there
  <2>1. Synced(c, a) = [NoRuntime EXCEPT !.there = TRUE, !.cookies = inv[a].cookies,
                                         !.disabled = ~inv[a].there]
    BY <1>1 DEF Synced
  <2>2. inv[a].cookies \in Cookies /\ inv[a].cookies # "bad" /\ (~inv[a].there) \in BOOLEAN
    BY DEF Inv, TypeOK, Entries, OnlyValidatedCookies
  <2> QED BY <1>1, <2>1, <2>2 DEF NoRuntime, Runtimes
<1>2. CASE ~(a \in call[c].seen /\ ~pool[a].there)
  BY <1>2, ReloadedRuntime, NewRuntime DEF Synced
<1> QED BY <1>1, <1>2

LEMMA RefreshAllKeeps ==
  ASSUME Inv, NEW c \in Callers, RefreshAll(c)
  PROVE  Inv'
<1> DEFINE new == IF call[c].edit THEN Idle
                  ELSE [call[c] EXCEPT !.pc = "refreshing", !.seen = {}]
<1>1. call[c] \in Calls /\ Syncing(c)
  BY DEF RefreshAll, At, Syncing, Inv, TypeOK
<1>2. /\ new \in Calls /\ new.pc \in {"idle", "refreshing"} /\ ~new.edit
      /\ new.pc # "idle" => new.account = call[c].account /\ ~call[c].edit
      /\ new.job \in {call[c].job, NoJob}
  BY <1>1, IdleCall DEF Calls
<1>3. call' = [call EXCEPT ![c] = new] /\ lock' = Nobody /\ UNCHANGED <<inv, cache, online, job>>
  BY DEF RefreshAll
<1>4. PICK up \in SUBSET Accounts : pool' = [a \in Accounts |-> [Synced(c, a) EXCEPT !.up = a \in up]]
  BY DEF RefreshAll
<1> HIDE DEF new
<1>5. /\ call'[c] = new /\ \A d \in Callers \ {c} : call'[d] = call[d]
      /\ call' \in [Callers -> Calls]
  BY <1>2, <1>3 DEF Inv, TypeOK
<1>6. ASSUME NEW r \in Runtimes, NEW b \in BOOLEAN
      PROVE  /\ [r EXCEPT !.up = b] \in Runtimes
             /\ [r EXCEPT !.up = b].there = r.there
             /\ [r EXCEPT !.up = b].cookies = r.cookies
  BY DEF Runtimes
<1>7. /\ pool' \in [Accounts -> Runtimes]
      /\ \A a \in Accounts : pool'[a].cookies # "bad"
                             /\ (pool'[a].there <=> a \in call[c].seen \/ pool[a].there)
  <2>1. ASSUME NEW a \in Accounts
        PROVE  LET r == [Synced(c, a) EXCEPT !.up = a \in up]
               IN /\ r \in Runtimes /\ r.cookies # "bad"
                  /\ r.there <=> a \in call[c].seen \/ pool[a].there
    <3> DEFINE b == a \in up
               r0 == Synced(c, a)
    <3>1. b \in BOOLEAN
      OBVIOUS
    <3>2. /\ r0 \in Runtimes /\ r0.cookies # "bad"
          /\ r0.there <=> a \in call[c].seen \/ pool[a].there
      BY SyncedRuntime
    <3> HIDE DEF b, r0
    <3>3. LET r == [r0 EXCEPT !.up = b]
          IN /\ r \in Runtimes /\ r.cookies # "bad"
             /\ r.there <=> a \in call[c].seen \/ pool[a].there
      BY <1>6, <3>1, <3>2
    <3> QED BY <3>3 DEF b, r0
  <2> QED BY <1>4, <2>1
<1>8. TypeOK' /\ OnlyValidatedCookies'
  BY <1>3, <1>5, <1>7 DEF Inv, TypeOK, OnlyValidatedCookies
<1>9. CallInv' /\ JobInv'
  BY <1>1, <1>2, <1>3, <1>5, IdleCall DEF Inv, CallInv, JobInv, Begun, Syncing
<1>11. MonitorsAccountedFor'
  <2>1. c \in Jobs => ~call[c].edit
    BY AccountsAssumption DEF Inv, CallInv
  <2>2. ~call[c].edit => /\ new.pc = "refreshing" /\ new.job = call[c].job
                         /\ new.account = call[c].account
    BY <1>1 DEF new, Calls
  <2> QED BY <1>1, <1>3, <2>1, <2>2, MonitorGoesOn DEF Syncing
<1>10. SyncInv'
  <2>1. \A d \in Callers : ~Syncing(d)'
    BY <1>1, <1>2, <1>5 DEF Inv, SyncInv, Syncing
  <2>7. \A d \in Callers : lock' # d
    BY <1>3, AccountsAssumption
  <2>2. EditWaits' <=> EditWaits
    BY <1>1, <1>2, <1>5 DEF EditWaits, Callers, Syncing
  <2>3. ~EditWaits => call[c].seen = Inventory /\ Pooled \subseteq Inventory
    BY <1>1 DEF Inv, SyncInv
  <2>4. Inventory' = Inventory
    BY <1>3 DEF Inventory
  <2>5. Inventory \subseteq Accounts /\ ~EditWaits => Pooled' = Inventory
    BY <1>7, <2>3 DEF Pooled, Inventory
  <2>6. Inventory \subseteq Accounts
    BY DEF Inventory
  <2> QED BY <2>1, <2>2, <2>4, <2>5, <2>6, <2>7 DEF SyncInv
<1> QED BY <1>8, <1>9, <1>10, <1>11 DEF Inv

-----------------------------------------------------------------------------
(* Jobs.                                                                     *)
LEMMA NothingElse ==
  ASSUME Inv, JobsGo, UNCHANGED <<inv, pool, lock, cache, online, call>>,
         \A k \in Jobs : /\ job'[k].task = "calling" <=> job[k].task = "calling"
                         /\ job[k].task = "calling" => job'[k].account = job[k].account
  PROVE  Inv'
<1>1. CallsGo
  BY DEF CallsGo, Inv, TypeOK, SyncInv, Syncing
<1>2. MonitorsAccountedFor'
  BY TasksGo
<1> QED BY <1>1, <1>2, SameStores, Quiet DEF Inv, TypeOK

(* A job's record is replaced.                                               *)
LEMMA OneJob ==
  ASSUME Inv, NEW j \in Jobs, NEW record \in JobRecords, record.account \in Accounts,
         record.status # "absent", job' = [job EXCEPT ![j] = record]
  PROVE  JobsGo
BY DEF JobsGo, Inv, TypeOK

LEMMA BegunJob ==
  ASSUME Inv, NEW j \in Jobs, Begun(j) \/ job[j].task # "none"
  PROVE  job[j] \in JobRecords /\ job[j].account \in Accounts /\ Begun(j)
BY DEF Inv, TypeOK, JobInv, Begun

LEMMA StatusGoes ==
  ASSUME Inv, NEW j \in Jobs, Begun(j) \/ job[j].task # "none",
         NEW status \in Open \cup Terminal,
         NEW task \in {"none", "starting", "calling", "sleeping", "over", "raised"},
         job' = [job EXCEPT ![j].status = status, ![j].task = task]
  PROVE  JobsGo
<1> DEFINE record == [job[j] EXCEPT !.status = status, !.task = task]
<1>1. job[j] \in JobRecords /\ job[j].account \in Accounts
  BY BegunJob
<1>2. record \in JobRecords /\ record.account = job[j].account /\ record.status # "absent"
  BY <1>1 DEF JobRecords, Open, Terminal
<1>3. job' = [job EXCEPT ![j] = record]
  BY <1>1 DEF JobRecords
<1> HIDE DEF record
<1> QED BY <1>1, <1>2, <1>3, OneJob

LEMMA StartReauthJobKeeps ==
  ASSUME Inv, NEW j \in Jobs, NEW a \in Accounts, StartReauthJob(j, a)
  PROVE  Inv'
<1>1. PICK status \in {"completed", "queued"}, task \in {"none", "starting"} :
        job' = [job EXCEPT ![j] = [account |-> a, late |-> FALSE, status |-> status,
                                   task |-> task]]
  BY DEF StartReauthJob
<1>2. JobsGo
  BY <1>1, OneJob DEF JobRecords, Open, Terminal
<1>3. job[j].task = "none"
  BY DEF StartReauthJob, Inv, JobInv
<1>4. job'[j].task # "calling" /\ \A k \in Jobs \ {j} : job'[k] = job[k]
  BY <1>1 DEF Inv, TypeOK
<1> QED BY <1>2, <1>3, <1>4, NothingElse DEF StartReauthJob

LEMMA MonitorKeeps ==
  ASSUME Inv, NEW j \in Jobs, Monitor(j)
  PROVE  Inv'
<1>1. /\ j \in Callers /\ job[j].account \in Accounts /\ Begun(j) /\ ~call[j].edit
      /\ job[j] \in JobRecords /\ job[j].task # "calling" /\ At(j, "idle")
  BY BegunJob, AccountsAssumption
     DEF Monitor, RunReauthJob, Poll, Inv, CallInv, Callers, MonitorsAccountedFor,
         MonitorAccountedFor
<1>2. CASE /\ Recover(j, job[j].account, j) \/ RecoverOrLaunch(j, job[j].account, j)
           /\ UNCHANGED <<inv, pool, cache>>
  <2>1. JobsGo /\ CallsGo /\ MonitorsAccountedFor' /\ online' \subseteq Accounts
    BY <1>1, <1>2, Recovers
  <2>2. StoresGo
    BY <1>2, <2>1, SameStores DEF Inv, TypeOK
  <2> QED BY <2>1, <2>2, Quiet
<1>3. ASSUME NEW status \in Open \cup Terminal, Settle(j, status) PROVE Inv'
  <2>1. JobsGo
    BY <1>1, <1>3, StatusGoes DEF Settle
  <2>2. job'[j].task # "calling" /\ \A k \in Jobs \ {j} : job'[k] = job[k]
    BY <1>1, <1>3 DEF Settle, Inv, TypeOK, JobRecords
  <2> QED BY <1>1, <1>3, <2>1, <2>2, NothingElse DEF Settle
<1> QED BY <1>2, <1>3 DEF Monitor, RunReauthJob, Poll, Open, Terminal

LEMMA DeadlineKeeps ==
  ASSUME Inv, NEW j \in Jobs, DeadlinePasses(j)
  PROVE  Inv'
<1> DEFINE record == [job[j] EXCEPT !.late = TRUE]
<1>1. job[j] \in JobRecords /\ job[j].account \in Accounts /\ Begun(j)
  BY BegunJob DEF DeadlinePasses
<1>2. /\ record \in JobRecords /\ record.account = job[j].account /\ record.status # "absent"
      /\ record.task = job[j].task
  BY <1>1 DEF JobRecords, Begun
<1>3. job' = [job EXCEPT ![j] = record]
  BY <1>1 DEF DeadlinePasses, JobRecords
<1> HIDE DEF record
<1>4. JobsGo
  BY <1>1, <1>2, <1>3, OneJob
<1>5. job'[j] = record /\ \A k \in Jobs \ {j} : job'[k] = job[k]
  BY <1>3 DEF Inv, TypeOK
<1> QED BY <1>2, <1>4, <1>5, NothingElse DEF DeadlinePasses

LEMMA EndsMonitor ==
  ASSUME Inv, NEW j \in Jobs, EndMonitor(j), job'[j].task # "calling",
         \A k \in Jobs \ {j} : job'[k] = job[k]
  PROVE  CallsGo /\ MonitorsAccountedFor'
<1>1. j \in Callers /\ ~call[j].edit
  BY AccountsAssumption DEF Inv, CallInv, Callers
<1>2. /\ call' = [call EXCEPT ![j] = Idle]
      /\ lock' = IF lock = j THEN Nobody ELSE lock
  BY DEF EndMonitor
<1>3. \A d \in Callers : Syncing(d)' <=> d # j /\ Syncing(d)
  BY <1>1, <1>2, IdleCall DEF Syncing, Inv, TypeOK
<1>4. \A d \in Callers : Syncing(d)' <=> lock' = d
  BY <1>2, <1>3, AccountsAssumption DEF Inv, SyncInv
<1>5. call' \in [Callers -> Calls] /\ lock' \in Callers \cup {Nobody}
  BY <1>2, IdleCall DEF Inv, TypeOK
<1>6. call'[j].pc = "idle"
  BY <1>1, <1>2, IdleCall DEF Inv, TypeOK
<1>7. MonitorsAccountedFor'
  BY <1>1, <1>2, <1>6, OneMonitor DEF MonitorAccountedFor, At
<1> QED BY <1>1, <1>2, <1>4, <1>5, <1>7, IdleCall DEF CallsGo, Inv, TypeOK

LEMMA CompleteReauthJobKeeps ==
  ASSUME Inv, NEW c \in Requests, NEW j \in Jobs, CompleteReauthJob(c, j)
  PROVE  Inv'
<1>1. /\ c \in Callers /\ c \notin Jobs /\ Begun(j) /\ job[j].account \in Accounts
      /\ ~call[c].edit /\ At(c, "idle") /\ UNCHANGED <<inv, pool, cache>>
  <2>1. c \in Callers /\ c \notin Jobs
    BY AccountsAssumption DEF Callers
  <2> QED BY <2>1, BegunJob DEF CompleteReauthJob, At, Begun, Inv, CallInv
<1>2. CASE /\ job' = [job EXCEPT ![j].status = "completed", ![j].task = "over"]
           /\ EndMonitor(j) /\ UNCHANGED online
  <2>1. JobsGo
    BY <1>1, <1>2, StatusGoes DEF Terminal
  <2>2. job'[j].task = "over" /\ \A k \in Jobs \ {j} : job'[k] = job[k]
    BY <1>2 DEF Inv, TypeOK, JobRecords
  <2> QED BY <1>1, <1>2, <2>1, <2>2, EndsMonitor, SameStores, Quiet DEF Inv, TypeOK
<1>3. CASE Recover(c, job[j].account, j)
  <2>1. JobsGo /\ CallsGo /\ MonitorsAccountedFor' /\ online' \subseteq Accounts
    BY <1>1, <1>3, Recovers
  <2> QED BY <1>1, <2>1, SameStores, Quiet DEF Inv, TypeOK
<1> QED BY <1>2, <1>3 DEF CompleteReauthJob

LEMMA CancelReauthJobKeeps ==
  ASSUME Inv, NEW j \in Jobs, CancelReauthJob(j)
  PROVE  Inv'
<1>1. Begun(j)
  BY DEF CancelReauthJob, Begun, Open
<1>2. PICK task \in {"raised", "over"} :
        job' = [job EXCEPT ![j].status = "cancelled", ![j].task = task]
  <2>1. job[j] \in JobRecords
    BY <1>1, BegunJob
  <2> DEFINE task == IF job[j].task = "raised" THEN "raised" ELSE "over"
  <2>2. job' = [job EXCEPT ![j].status = "cancelled", ![j].task = task]
    BY <2>1 DEF CancelReauthJob, JobRecords, Inv, TypeOK
  <2>3. task \in {"raised", "over"}
    OBVIOUS
  <2> HIDE DEF task
  <2> QED BY <2>2, <2>3
<1>3. JobsGo
  BY <1>1, <1>2, StatusGoes DEF Terminal
<1>4. job'[j].task # "calling" /\ \A k \in Jobs \ {j} : job'[k] = job[k]
  BY <1>2 DEF Inv, TypeOK, JobRecords
<1> QED BY <1>3, <1>4, EndsMonitor, SameStores, Quiet DEF CancelReauthJob, Inv, TypeOK

LEMMA SyncAccountKeeps ==
  ASSUME Inv, NEW c \in Requests, NEW a \in Accounts, SyncAccount(c, a)
  PROVE  Inv'
<1>1. c \in Callers /\ c \notin Jobs /\ ~call[c].edit /\ At(c, "idle")
  <2>1. c \in Callers /\ c \notin Jobs
    BY AccountsAssumption DEF Callers
  <2> QED BY <2>1 DEF SyncAccount, At, Inv, CallInv
<1>2. JobsGo /\ CallsGo /\ MonitorsAccountedFor' /\ online' \subseteq Accounts
  BY <1>1, Recovers DEF SyncAccount
<1> QED BY <1>2, SameStores, Quiet DEF SyncAccount, Inv, TypeOK

-----------------------------------------------------------------------------
(* Operators.  An edit waits for the lock before it is loaded.               *)
LEMMA EditKeeps ==
  ASSUME Inv, NEW c \in Requests, At(c, "idle"), BeginSync(c),
         inv' \in [Accounts -> Entries], \A a \in Accounts : inv'[a].cookies # "bad",
         JobsGo, UNCHANGED <<pool, lock, cache, online>>,
         \A k \in Jobs : job'[k].task = job[k].task /\ job'[k].account = job[k].account
  PROVE  Inv'
<1> DEFINE new == [Idle EXCEPT !.pc = "waiting", !.edit = TRUE]
<1>1. new \in Calls /\ new.pc = "waiting" /\ new.edit /\ new.job = NoJob
  BY DEF Idle, Calls, Cookies
<1>2. c \in Callers /\ c \notin Jobs
  BY AccountsAssumption DEF Callers
<1>3. call' = [call EXCEPT ![c] = new]
  BY DEF BeginSync
<1> HIDE DEF new
<1>4. /\ call' \in [Callers -> Calls] /\ call'[c] = new
      /\ \A d \in Callers \ {c} : call'[d] = call[d]
  BY <1>1, <1>2, <1>3 DEF Inv, TypeOK
<1>5. TypeOK' /\ OnlyValidatedCookies'
  BY <1>4 DEF JobsGo, Inv, TypeOK, OnlyValidatedCookies
<1>6. JobInv' /\ \A j \in Jobs : Begun(j) => Begun(j)'
  BY DEF JobsGo, Inv, JobInv, Begun
<1>7. CallInv'
  BY <1>1, <1>2, <1>4, <1>6, IdleCall DEF Inv, CallInv
<1>8. EditWaits'
  BY <1>1, <1>4 DEF EditWaits
<1>9. SyncInv'
  <2>1. \A d \in Callers : Syncing(d)' <=> Syncing(d)
    BY <1>1, <1>2, <1>4 DEF At, Syncing
  <2> QED BY <1>8, <2>1 DEF Inv, SyncInv
<1>10. MonitorsAccountedFor'
  BY <1>2, <1>4, TasksGo DEF Callers
<1> QED BY <1>5, <1>6, <1>7, <1>9, <1>10 DEF Inv

LEMMA UpsertedEntry ==
  ASSUME Inv, NEW c \in Requests, NEW a \in Accounts, UpsertAccount(c, a)
  PROVE  /\ inv' \in [Accounts -> Entries] /\ inv'[a].edit = inv[a].edit + 1
         /\ \A b \in Accounts : inv'[b].cookies # "bad"
         /\ \A b \in Accounts \ {a} : inv'[b] = inv[b]
<1>1. inv[a] \in Entries /\ inv \in [Accounts -> Entries] /\ inv[a].cookies # "bad"
  BY DEF Inv, TypeOK, OnlyValidatedCookies
<1>2. inv[a].edit + 1 \in 0..MaxEdits
  BY <1>1, AccountsAssumption DEF UpsertAccount, Entries
<1>3. PICK ck \in {"given", inv[a].cookies} :
        inv' = [inv EXCEPT ![a] = [there |-> TRUE, edit |-> inv[a].edit + 1,
                                   cookies |-> IF inv[a].there THEN ck ELSE "given"]]
  BY DEF UpsertAccount
<1>4. ck \in Cookies /\ ck # "bad"
  BY <1>1, <1>3 DEF Entries, Cookies
<1> QED BY <1>1, <1>2, <1>3, <1>4 DEF Entries, Cookies, Inv, OnlyValidatedCookies

LEMMA DeletedEntry ==
  ASSUME Inv, NEW c \in Requests, NEW a \in Accounts, DeleteAccount(c, a)
  PROVE  /\ inv' \in [Accounts -> Entries] /\ inv'[a].edit = inv[a].edit + 1
         /\ \A b \in Accounts : inv'[b].cookies # "bad"
         /\ \A b \in Accounts \ {a} : inv'[b] = inv[b]
<1> DEFINE new == [inv[a] EXCEPT !.there = FALSE, !.edit = @ + 1]
<1>1. inv[a] \in Entries /\ inv \in [Accounts -> Entries]
  BY DEF Inv, TypeOK
<1>2. inv[a].edit + 1 \in 0..MaxEdits
  BY <1>1, AccountsAssumption DEF DeleteAccount, Entries
<1>3. new \in Entries /\ new.edit = inv[a].edit + 1 /\ new.cookies = inv[a].cookies
  BY <1>1, <1>2 DEF Entries
<1>4. inv' = [inv EXCEPT ![a] = new]
  BY <1>1 DEF DeleteAccount, Entries
<1> HIDE DEF new
<1> QED BY <1>1, <1>3, <1>4 DEF Inv, OnlyValidatedCookies

LEMMA EditsKeep ==
  ASSUME Inv, NEW c \in Requests, NEW a \in Accounts, UpsertAccount(c, a) \/ DeleteAccount(c, a)
  PROVE  Inv'
<1>1. CASE UpsertAccount(c, a)
  BY <1>1, UpsertedEntry, SameJobs, EditKeeps DEF UpsertAccount
<1>2. CASE DeleteAccount(c, a)
  <2>1. JobsGo
    <3>1. \A j \in Jobs : job[j].account = a =>
            LET record == [job[j] EXCEPT !.status = "cancelled"]
            IN record \in JobRecords /\ record.account = a /\ record.status # "absent"
      BY DEF Inv, TypeOK, JobRecords, Terminal
    <3> QED BY <1>2, <3>1 DEF DeleteAccount, JobsGo, Inv, TypeOK
  <2>2. \A j \in Jobs : job'[j].task = job[j].task /\ job'[j].account = job[j].account
    BY <1>2 DEF DeleteAccount, Inv, TypeOK, JobRecords
  <2> QED BY <1>2, <2>1, <2>2, DeletedEntry, EditKeeps DEF DeleteAccount
<1> QED BY <1>1, <1>2

LEMMA WorldKeeps ==
  ASSUME Inv, NEW a \in Accounts, BrowserChanges(a) \/ RuntimeChanges(a)
  PROVE  Inv'
<1>1. JobsGo /\ UNCHANGED <<lock, call, job, inv, cache>>
  BY SameJobs DEF BrowserChanges, RuntimeChanges
<1>2. CallsGo
  BY <1>1 DEF CallsGo, Inv, TypeOK, SyncInv, Syncing
<1>3. StoresGo
  <2>1. CASE BrowserChanges(a)
    BY <2>1, SameStores DEF BrowserChanges, Inv, TypeOK
  <2>2. CASE RuntimeChanges(a)
    <3>1. PICK up \in BOOLEAN : pool' = [pool EXCEPT ![a].up = up]
      BY <2>2 DEF RuntimeChanges, Found
    <3> QED BY <2>2, <3>1 DEF RuntimeChanges, StoresGo, Inv, TypeOK, Runtimes,
                              OnlyValidatedCookies
  <2> QED BY <2>1, <2>2
<1>4. MonitorsAccountedFor'
  BY <1>1, TasksGo
<1> QED BY <1>1, <1>2, <1>3, <1>4, Quiet

LEMMA RunCallKeeps ==
  ASSUME Inv, NEW c \in Callers, RunCall(c)
  PROVE  Inv'
BY LaunchKeeps, CollectKeeps, ProbeAcceptsKeeps, LoadInventoryKeeps, RefreshAllKeeps, RefreshAccountKeeps,
   RaiseKeeps DEF RunCall

LEMMA InvHolds == Spec => []Inv
<1>1. Init => Inv
  <2> SUFFICES ASSUME Init PROVE Inv
    OBVIOUS
  <2>1. TypeOK
    <3>1. 0 \in 0..MaxEdits
      BY AccountsAssumption
    <3>2. [NoRuntime EXCEPT !.there = TRUE] \in Runtimes
      BY DEF NoRuntime, Runtimes, Cookies
    <3> QED BY <3>1, <3>2, IdleCall DEF Init, TypeOK, Entries, Cookies, JobRecords
  <2>2. CallInv /\ JobInv
    BY IdleCall DEF Init, CallInv, JobInv
  <2>3. \A a \in Accounts : /\ inv[a].there /\ inv[a].cookies = "given"
                            /\ pool[a].there /\ pool[a].cookies = "given"
    BY NewRuntime DEF Init, Runtimes
  <2>4. SyncInv
    BY <2>3, IdleCall, AccountsAssumption
       DEF Init, SyncInv, Syncing, EditWaits, Pooled, Inventory, Callers
  <2>5. MonitorsAccountedFor
    BY IdleCall DEF Init, MonitorsAccountedFor, MonitorAccountedFor, At, Callers
  <2> QED BY <2>1, <2>2, <2>3, <2>4, <2>5 DEF Inv, OnlyValidatedCookies
<1>2. Inv /\ [Next]_vars => Inv'
  <2> SUFFICES ASSUME Inv, [Next]_vars PROVE Inv'
    OBVIOUS
  <2>1. CASE UNCHANGED vars
    BY <2>1, SameJobs, NothingElse DEF vars
  <2> QED BY <2>1, RunCallKeeps, MonitorKeeps, DeadlineKeeps, CancelReauthJobKeeps,
             StartReauthJobKeeps, CompleteReauthJobKeeps, SyncAccountKeeps, EditsKeep,
             WorldKeeps DEF Next
<1> QED BY <1>1, <1>2, PTL DEF Spec

-----------------------------------------------------------------------------
(* Inventory, pool, jobs and recoveries stay within their types.             *)
THEOREM TypeCorrect == Spec => []TypeOK
BY InvHolds, PTL DEF Inv

(* Cookies the provider has refused reach neither accounts.json nor the      *)
(* pool (_validate_and_commit), whatever recoveries overlap.                 *)
THEOREM CookiesAreValidated == Spec => []OnlyValidatedCookies
BY InvHolds, PTL DEF Inv

(* Once no edit waits for its reload, the pool has exactly the accounts of   *)
(* the inventory (sync_inventory under _refresh_lock), also when a recovery  *)
(* that loaded an older inventory was cancelled or overtaken; and the lock   *)
(* is held by nobody but the caller that loads, however calls end.           *)
THEOREM PoolFollowsInventory == Spec => []PoolMatchesInventory
<1>1. Inv => PoolMatchesInventory
  <2>0. Inv => \A c \in Callers : At(c, "syncing") <=> lock = c
    BY DEF Inv, SyncInv, Syncing, At
  <2> SUFFICES ASSUME Inv, \A c \in Requests : ~call[c].edit
               PROVE  \A a \in Accounts : pool[a].there = inv[a].there
    BY <2>0 DEF PoolMatchesInventory
  <2>1. ~EditWaits /\ \A c \in Callers : ~call[c].edit
    BY DEF EditWaits, Inv, CallInv
  <2>2. Pooled = Inventory
    BY <2>1 DEF Inv, SyncInv
  <2>3. \A a \in Accounts : pool[a].there \in BOOLEAN /\ inv[a].there \in BOOLEAN
    BY DEF Inv, TypeOK, Runtimes, Entries
  <2>4. \A a \in Accounts : pool[a].there <=> inv[a].there
    BY <2>2 DEF Pooled, Inventory
  <2> QED BY <2>3, <2>4
<1> QED BY <1>1, InvHolds, PTL

(* A monitor's recovery never outlives it, and concerns its job's account    *)
(* (_run_reauth_job; cancel_reauth_job and complete_reauth_job cancel its    *)
(* task), although others apply their results to the same job.               *)
THEOREM MonitorsCorrect == Spec => []MonitorsAccountedFor
BY InvHolds, PTL DEF Inv

(* What upsert_account and delete_account wrote is not undone: neither by a  *)
(* recovery, which reads the file again before it writes, nor by another.    *)
THEOREM EditsStay == Spec => EditsAreKept
<1> DEFINE Kept == \A a \in Accounts :
                     /\ inv'[a].edit >= inv[a].edit
                     /\ inv'[a].there # inv[a].there => inv'[a].edit > inv[a].edit
<1>1. ASSUME Inv, [Next]_vars PROVE Kept \/ UNCHANGED vars
  <2> USE <1>1
  <2>0. inv \in [Accounts -> Entries] /\ \A a \in Accounts : inv[a].edit \in Nat
    BY AccountsAssumption DEF Inv, TypeOK, Entries
  <2>1. CASE inv' = inv
    BY <2>0, <2>1
  <2>2. ASSUME NEW c \in Callers, ProbeAccepts(c) PROVE Kept
    <3>1. \A a \in Accounts : inv'[a].there = inv[a].there /\ inv'[a].edit = inv[a].edit
      BY <2>0, <2>2 DEF ProbeAccepts, Written, Entries
    <3> QED BY <2>0, <3>1
  <2>3. ASSUME NEW c \in Requests, NEW a \in Accounts, UpsertAccount(c, a) \/ DeleteAccount(c, a)
        PROVE  Kept
    <3>1. inv'[a].edit = inv[a].edit + 1 /\ \A b \in Accounts \ {a} : inv'[b] = inv[b]
      BY <2>3, UpsertedEntry, DeletedEntry
    <3> QED BY <2>0, <3>1
  <2>4. inv' = inv \/ (\E c \in Callers : ProbeAccepts(c))
        \/ \E c \in Requests, a \in Accounts : UpsertAccount(c, a) \/ DeleteAccount(c, a)
    BY DEF Next, vars, RunCall, Launch, CollectFails, Collect, ProbeRefuses, LoadInventory,
           RefreshAll, ReloadAccount, Verify, Raise, Monitor, RunReauthJob, Poll, Settle, DeadlinePasses,
           CancelReauthJob, StartReauthJob, CompleteReauthJob, SyncAccount, BrowserChanges,
           RuntimeChanges
  <2> QED BY <2>1, <2>2, <2>3, <2>4
<1> HIDE DEF Kept
<1>2. Spec => [][Kept]_vars
  BY <1>1, InvHolds, PTL DEF Spec
<1> QED BY <1>2, PTL DEF EditsAreKept, Kept
=============================================================================
