------------------------------- MODULE Accounts -------------------------------
(***************************************************************************)
(* How an account gets working cookies: reauthentication jobs              *)
(* (services/admin_console_service.py), AccountRecoveryService             *)
(* (services/account_recovery_service.py) and CookieRefreshDaemon, which   *)
(* also recovers accounts, over the inventory file accounts.json           *)
(* (schemas/accounts.py) and the pool that follows it                      *)
(* (AccountPool.sync_inventory).                                           *)
(*                                                                         *)
(* A job is polled by a task of its own, its monitor, while operators      *)
(* complete, cancel and start jobs, edit and delete accounts, and the      *)
(* daemon recovers the same account: each recovery collects cookies,       *)
(* validates them with the provider, writes them and reloads the pool, and *)
(* suspends between these steps.                                           *)
(***************************************************************************)
EXTENDS Integers, FiniteSets

CONSTANTS
  Accounts,
  Jobs,       (* reauthentication jobs; a job's monitor has the job's name *)
  Requests,   (* complete, upsert and delete requests, and the daemon      *)
  MaxEdits,   (* bound on the operators' edits of the inventory            *)
  NoAccount, NoJob, Nobody

Callers == Jobs \cup Requests

ASSUME AccountsAssumption ==
  /\ Jobs \cap Requests = {}
  /\ MaxEdits \in Nat
  /\ NoAccount \notin Accounts /\ NoJob \notin Callers /\ Nobody \notin Callers

VARIABLES
  inv,      (* accounts.json                                               *)
  pool,     (* AccountPool._runtimes                                       *)
  lock,     (* who holds AccountPool._refresh_lock in sync_inventory       *)
  cache,    (* the account's file in the cookie cache of gemini_webapi     *)
  online,   (* accounts whose managed browser can be attached to           *)
  call,     (* recoveries and edits in progress                            *)
  job       (* AdminConsoleService._jobs                                   *)

vars == <<inv, pool, lock, cache, online, call, job>>

(* What the provider says of cookies.  A probe also sends what the cache   *)
(* holds for them (get_access_token), so the same pair may be accepted or  *)
(* not: bad are those that are refused with whatever the cache adds, good  *)
(* those that can be accepted; those that the operator typed, or that were *)
(* there before, may be either.                                            *)
Cookies == {"given", "good", "bad"}

Entries == [there : BOOLEAN, cookies : Cookies, edit : 0..MaxEdits]

(* up: _summary_is_recovered.  disabled: operator_disabled.                *)
Runtimes == [there : BOOLEAN, cookies : Cookies, up : BOOLEAN, disabled : BOOLEAN]
NoRuntime == [there |-> FALSE, cookies |-> "given", up |-> FALSE, disabled |-> FALSE]

Open == {"queued", "awaiting_login", "collecting_cookies", "validating_provider"}
Terminal == {"completed", "failed", "cancelled"}

(* task: where the monitor is; raised: an exception ended it.  late: the   *)
(* deadline for the login has passed.                                      *)
JobRecords == [account : Accounts \cup {NoAccount},
               status : Open \cup Terminal \cup {"absent"},
               task : {"none", "starting", "calling", "sleeping", "over", "raised"},
               late : BOOLEAN]

(* bundle: the cookies collected; prev: the content of the cache before.   *)
(* seen: the accounts that sync_inventory has loaded.                      *)
Calls == [pc : {"idle", "launching", "collecting", "probing",
                "waiting", "syncing", "refreshing", "verifying"},
          account : Accounts \cup {NoAccount}, job : Jobs \cup {NoJob},
          edit : BOOLEAN, bundle : Cookies, prev : Cookies, seen : SUBSET Accounts]
Idle == [pc |-> "idle", account |-> NoAccount, job |-> NoJob, edit |-> FALSE,
         bundle |-> "given", prev |-> "given", seen |-> {}]

TypeOK ==
  /\ inv \in [Accounts -> Entries]
  /\ pool \in [Accounts -> Runtimes]
  /\ lock \in Callers \cup {Nobody}
  /\ cache \in [Accounts -> Cookies]
  /\ online \subseteq Accounts
  /\ call \in [Callers -> Calls]
  /\ job \in [Jobs -> JobRecords]

Init ==
  /\ inv = [a \in Accounts |-> [there |-> TRUE, cookies |-> "given", edit |-> 0]]
  /\ pool = [a \in Accounts |-> [NoRuntime EXCEPT !.there = TRUE]]
  /\ lock = Nobody
  /\ cache = [a \in Accounts |-> "given"]
  /\ online \in SUBSET Accounts
  /\ call = [c \in Callers |-> Idle]
  /\ job = [j \in Jobs |-> [account |-> NoAccount, status |-> "absent", task |-> "none",
                            late |-> FALSE]]

Up(a) == pool[a].there /\ pool[a].up

(* What a probe of a runtime with these cookies can find.                  *)
Found(r) == IF r.cookies = "bad" \/ r.disabled THEN {FALSE} ELSE BOOLEAN

(* _reload_runtime_config.                                                 *)
Reloaded(a) == IF inv[a].there THEN [pool[a] EXCEPT !.cookies = inv[a].cookies]
                               ELSE [pool[a] EXCEPT !.disabled = TRUE, !.up = FALSE]

-----------------------------------------------------------------------------
(* Mutant of Applied: the job takes over the status of the recovery.       *)
AppliedVerbatim(j, c, r) ==
  [job EXCEPT ![j].status = r, ![j].task = IF c = j THEN "over" ELSE @]

(* _apply_recovery_result for job j, when the recovery of caller c returns *)
(* r; another caller than the monitor cancels it when the job is complete. *)
Applied(j, c, r) ==
  [job EXCEPT
    ![j].status = CASE r = "completed"            -> "completed"
                    [] r = "awaiting" /\ c = j    -> "awaiting_login"
                    [] r = "awaiting" /\ c # j    -> "collecting_cookies"
                    [] r = "failed"               -> "failed",
    ![j].task = CASE c = j /\ r = "awaiting"      -> "sleeping"
                  [] c = j /\ r # "awaiting"      -> "over"
                  [] c # j /\ r = "completed"     -> "over"
                  [] OTHER                        -> @]

(* A recovery that ends, and one that is cancelled, leave the lock free.   *)
Return(c, j, r) ==
  LET ends == {c} \cup (IF r = "completed" /\ j # NoJob THEN {j} ELSE {})
  IN /\ job' = IF j = NoJob THEN job ELSE Applied(j, c, r)
     /\ call' = [d \in Callers |-> IF d \in ends THEN Idle ELSE call[d]]
     /\ lock' = IF lock \in ends THEN Nobody ELSE lock

(* recover_account: it attaches to the account's browser and collects, or  *)
(* launches one and leaves it to the operator.                             *)
RecoverMissing(c, a, j) ==
  /\ ~inv[a].there
  /\ Return(c, j, "failed")
  /\ UNCHANGED online

RecoverBegins(c, a, j, pc) ==
  /\ call' = [call EXCEPT ![c] = [Idle EXCEPT !.pc = pc, !.account = a, !.job = j]]
  /\ job' = IF c = j THEN [job EXCEPT ![j].status = IF job[j].task = "starting"
                                                    THEN "validating_provider" ELSE @,
                                      ![j].task = "calling"]
                     ELSE job
  /\ UNCHANGED <<online, lock>>

RecoverAttached(c, a, j) ==
  inv[a].there /\ a \in online /\ RecoverBegins(c, a, j, "collecting")

RecoverOffline(c, a, j) ==
  /\ inv[a].there /\ a \notin online
  /\ Return(c, j, "failed")
  /\ UNCHANGED online

RecoverLaunching(c, a, j) ==
  inv[a].there /\ a \notin online /\ RecoverBegins(c, a, j, "launching")

Recover(c, a, j) == RecoverMissing(c, a, j) \/ RecoverAttached(c, a, j) \/ RecoverOffline(c, a, j)

RecoverOrLaunch(c, a, j) ==
  RecoverMissing(c, a, j) \/ RecoverAttached(c, a, j) \/ RecoverLaunching(c, a, j)

At(c, pc) == call[c].pc = pc

-----------------------------------------------------------------------------
(* ensure_session, after the look for a live browser: an exception of the  *)
(* launch is caught; else the login is awaited.                            *)
Launch(c) ==
  /\ At(c, "launching")
  /\ \/ Return(c, call[c].job, "awaiting") /\ online' = online \cup {call[c].account}
     \/ Return(c, call[c].job, "failed") /\ UNCHANGED online
  /\ UNCHANGED <<inv, pool, cache>>

(* _recover_from_browser_session.  No session to collect from: the login   *)
(* is still to come.                                                       *)
CollectFails(c) ==
  /\ At(c, "collecting")
  /\ Return(c, call[c].job, "awaiting")
  /\ UNCHANGED <<inv, pool, cache, online>>

(* _validate_and_commit: the cache holds the bundle while it is probed.    *)
Collect(c) ==
  /\ At(c, "collecting")
  /\ \E b \in Cookies \ {"given"} :
       /\ call' = [call EXCEPT ![c].pc = "probing", ![c].bundle = b,
                               ![c].prev = cache[call[c].account]]
       /\ cache' = [cache EXCEPT ![call[c].account] = b]
  /\ UNCHANGED <<inv, pool, lock, online, job>>

(* Mutant of Refused: the account is asked, not the candidate.             *)
RefusedUnlessUp(c) == call[c].bundle = "bad" /\ ~Up(call[c].account)

Refused(c) == call[c].bundle = "bad"

ProbeRefuses(c) ==
  /\ At(c, "probing")
  /\ cache' = [cache EXCEPT ![call[c].account] = call[c].prev]
  /\ Return(c, call[c].job, "awaiting")
  /\ UNCHANGED <<inv, pool, online>>

(* Mutant of Written: the account is written back as it was loaded.        *)
WrittenBack(a, ck) == [inv EXCEPT ![a].there = TRUE, ![a].cookies = ck]

(* _write_recovered_account: the file is read again, and only this         *)
(* account's cookies are changed.                                          *)
Written(a, ck) == IF inv[a].there THEN [inv EXCEPT ![a].cookies = ck] ELSE inv

ProbeAccepts(c) ==
  /\ At(c, "probing") /\ ~Refused(c)
  /\ inv' = Written(call[c].account, call[c].bundle)
  /\ call' = [call EXCEPT ![c] = [Idle EXCEPT !.pc = "waiting",
                               !.account = call[c].account, !.job = call[c].job]]
  /\ UNCHANGED <<pool, lock, cache, online, job>>

(* Mutant of LoadInventory: removed accounts keep their runtimes.          *)
LoadOnlyAdditions(c) ==
  /\ At(c, "waiting") /\ lock = Nobody
  /\ lock' = c
  /\ call' = [call EXCEPT ![c].pc = "syncing", ![c].seen = {a \in Accounts : inv[a].there}]
  /\ UNCHANGED <<inv, pool, cache, online, job>>

(* sync_inventory: the inventory is loaded under the lock.  Runtimes of    *)
(* accounts that are not in it are dropped at once; the others are created *)
(* or reloaded, and all are probed, while the inventory may change.        *)
LoadInventory(c) ==
  /\ At(c, "waiting") /\ lock = Nobody
  /\ lock' = c
  /\ call' = [call EXCEPT ![c].pc = "syncing", ![c].seen = {a \in Accounts : inv[a].there}]
  /\ pool' = [a \in Accounts |-> IF inv[a].there THEN pool[a] ELSE NoRuntime]
  /\ UNCHANGED <<inv, cache, online, job>>

Synced(c, a) ==
  IF a \in call[c].seen /\ ~pool[a].there
  THEN [NoRuntime EXCEPT !.there = TRUE, !.cookies = inv[a].cookies, !.disabled = ~inv[a].there]
  ELSE IF pool[a].there THEN Reloaded(a) ELSE NoRuntime

RefreshAll(c) ==
  /\ At(c, "syncing")
  /\ \E up \in SUBSET Accounts :
       /\ \A a \in up : Synced(c, a).there /\ TRUE \in Found(Synced(c, a))
       /\ pool' = [a \in Accounts |-> [Synced(c, a) EXCEPT !.up = a \in up]]
  /\ lock' = Nobody
  /\ call' = [call EXCEPT ![c] = IF call[c].edit THEN Idle
                                 ELSE [call[c] EXCEPT !.pc = "refreshing", !.seen = {}]]
  /\ UNCHANGED <<inv, cache, online, job>>

(* refresh_account: the reload, and later the result of the probe, which   *)
(* finds the runtime gone if the account was deleted meanwhile.            *)
ReloadAccount(c) ==
  /\ At(c, "refreshing") /\ pool[call[c].account].there
  /\ pool' = [pool EXCEPT ![call[c].account] = Reloaded(call[c].account)]
  /\ call' = [call EXCEPT ![c].pc = "verifying"]
  /\ UNCHANGED <<inv, lock, cache, online, job>>

Verify(c) ==
  LET a == call[c].account
  IN /\ At(c, "verifying")
     /\ \E up \in IF pool[a].there THEN Found(pool[a]) ELSE BOOLEAN :
          /\ pool' = IF pool[a].there THEN [pool EXCEPT ![a].up = up] ELSE pool
          /\ Return(c, call[c].job, IF up THEN "completed" ELSE "awaiting")
     /\ UNCHANGED <<inv, cache, online>>

(* Any of these calls may raise; refresh_account does for an account that  *)
(* the pool does not have.  The exception ends a job's monitor; a request  *)
(* is answered with an error.                                              *)
Raise(c) ==
  /\ call[c].pc \in {"collecting", "probing", "refreshing", "verifying"}
  /\ call' = [call EXCEPT ![c] = Idle]
  /\ job' = IF c \in Jobs THEN [job EXCEPT ![c].task = "raised"] ELSE job
  /\ UNCHANGED <<inv, pool, lock, cache, online>>

-----------------------------------------------------------------------------
(* start_reauth_job: one job at a time for an account, and none if it      *)
(* works.                                                                  *)
StartReauthJob(j, a) ==
  /\ job[j].status = "absent" /\ inv[a].there
  /\ \A k \in Jobs : job[k].account = a => job[k].status \notin Open
  /\ job' = [job EXCEPT ![j] =
       [account |-> a, late |-> FALSE,
        status |-> IF Up(a) THEN "completed" ELSE "queued",
        task |-> IF Up(a) THEN "none" ELSE "starting"]]
  /\ UNCHANGED <<inv, pool, lock, cache, online, call>>

(* _run_reauth_job up to the first recovery.                               *)
RunReauthJob(j) ==
  /\ job[j].task = "starting"
  /\ RecoverOrLaunch(j, job[j].account, j)
  /\ UNCHANGED <<inv, pool, cache>>

Settle(j, status) ==
  /\ job' = [job EXCEPT ![j].status = status, ![j].task = "over"]
  /\ UNCHANGED <<inv, pool, lock, cache, online, call>>

(* Mutant of Poll: without the deadline.                                   *)
PollForever(j) ==
  /\ job[j].task = "sleeping"
  /\ \/ job[j].status \in Terminal /\ Settle(j, job[j].status)
     \/ job[j].status \notin Terminal /\ Up(job[j].account) /\ Settle(j, "completed")
     \/ /\ job[j].status \notin Terminal /\ ~Up(job[j].account)
        /\ Recover(j, job[j].account, j)
        /\ UNCHANGED <<inv, pool, cache>>

(* One turn of the monitor's loop: a job that has ended, an account that   *)
(* works, the deadline, and the next recovery.                             *)
Poll(j) ==
  /\ job[j].task = "sleeping"
  /\ LET a == job[j].account
     IN \/ job[j].status \in Terminal /\ Settle(j, job[j].status)
        \/ /\ job[j].status \notin Terminal
           /\ \/ Up(a) /\ Settle(j, "completed")
              \/ ~Up(a) /\ job[j].late /\ Settle(j, "failed")
              \/ /\ ~Up(a) /\ ~job[j].late
                 /\ Recover(j, a, j)
                 /\ UNCHANGED <<inv, pool, cache>>

DeadlinePasses(j) ==
  /\ job[j].task \in {"sleeping", "calling"} /\ ~job[j].late
  /\ job' = [job EXCEPT ![j].late = TRUE]
  /\ UNCHANGED <<inv, pool, lock, cache, online, call>>

EndMonitor(j) ==
  /\ call' = [call EXCEPT ![j] = Idle]
  /\ lock' = IF lock = j THEN Nobody ELSE lock

(* complete_reauth_job: of any job that is not completed.                  *)
CompleteReauthJob(c, j) ==
  /\ At(c, "idle")
  /\ job[j].status \notin {"absent", "completed"}
  /\ \/ /\ Up(job[j].account)
        /\ job' = [job EXCEPT ![j].status = "completed", ![j].task = "over"]
        /\ EndMonitor(j)
        /\ UNCHANGED online
     \/ /\ ~Up(job[j].account)
        /\ Recover(c, job[j].account, j)
  /\ UNCHANGED <<inv, pool, cache>>

CancelReauthJob(j) ==
  /\ job[j].status \in Open
  /\ job' = [job EXCEPT ![j].status = "cancelled",
                        ![j].task = IF @ = "raised" THEN @ ELSE "over"]
  /\ EndMonitor(j)
  /\ UNCHANGED <<inv, pool, cache, online>>

(* CookieRefreshDaemon._sync_account, and browser_action "sync-now".       *)
SyncAccount(c, a) ==
  /\ At(c, "idle") /\ inv[a].there
  /\ Recover(c, a, NoJob)
  /\ UNCHANGED <<inv, pool, cache>>

-----------------------------------------------------------------------------
(* upsert_account: a new account, or new settings and perhaps cookies of   *)
(* an old one.                                                             *)
BeginSync(c) == call' = [call EXCEPT ![c] = [Idle EXCEPT !.pc = "waiting", !.edit = TRUE]]

UpsertAccount(c, a) ==
  /\ At(c, "idle") /\ inv[a].edit < MaxEdits
  /\ \E ck \in {"given", inv[a].cookies} :
       inv' = [inv EXCEPT ![a] = [there |-> TRUE, edit |-> inv[a].edit + 1,
                                  cookies |-> IF inv[a].there THEN ck ELSE "given"]]
  /\ BeginSync(c)
  /\ UNCHANGED <<pool, lock, cache, online, job>>

(* delete_account: its jobs are marked as cancelled; their monitors run on.*)
DeleteAccount(c, a) ==
  /\ At(c, "idle") /\ inv[a].there /\ inv[a].edit < MaxEdits
  /\ inv' = [inv EXCEPT ![a].there = FALSE, ![a].edit = @ + 1]
  /\ job' = [j \in Jobs |-> IF job[j].account = a
                            THEN [job[j] EXCEPT !.status = "cancelled"] ELSE job[j]]
  /\ BeginSync(c)
  /\ UNCHANGED <<pool, lock, cache, online>>

(* The rest of the world: a browser is opened or closed, and probes and    *)
(* calls change what the pool says of an account.                          *)
BrowserChanges(a) ==
  /\ online' \in {online \cup {a}, online \ {a}}
  /\ UNCHANGED <<inv, pool, lock, cache, call, job>>

RuntimeChanges(a) ==
  /\ pool[a].there
  /\ \E up \in Found(pool[a]) : pool' = [pool EXCEPT ![a].up = up]
  /\ UNCHANGED <<inv, lock, cache, online, call, job>>

-----------------------------------------------------------------------------
RunCall(c) ==
  \/ Launch(c) \/ CollectFails(c) \/ Collect(c)
  \/ ProbeRefuses(c) \/ ProbeAccepts(c)
  \/ LoadInventory(c) \/ RefreshAll(c) \/ ReloadAccount(c) \/ Verify(c)
  \/ Raise(c)

Monitor(j) == RunReauthJob(j) \/ Poll(j)

Next ==
  \/ \E c \in Callers : RunCall(c)
  \/ \E j \in Jobs : Monitor(j) \/ DeadlinePasses(j) \/ CancelReauthJob(j)
  \/ \E j \in Jobs, a \in Accounts : StartReauthJob(j, a)
  \/ \E c \in Requests, j \in Jobs : CompleteReauthJob(c, j)
  \/ \E c \in Requests, a \in Accounts :
       SyncAccount(c, a) \/ UpsertAccount(c, a) \/ DeleteAccount(c, a)
  \/ \E a \in Accounts : BrowserChanges(a) \/ RuntimeChanges(a)

Spec == Init /\ [][Next]_vars

(* A recovery ends or raises: what it waits for has timeouts, and the      *)
(* lock is handed on in the order of arrival.  The monitor's sleeps and    *)
(* the deadline end.  Nothing is assumed of operators and browsers.        *)
FairSpec ==
  /\ Spec
  /\ \A c \in Callers : WF_vars(RunCall(c)) /\ SF_vars(LoadInventory(c))
  /\ \A j \in Jobs : WF_vars(Monitor(j)) /\ WF_vars(DeadlinePasses(j))

-----------------------------------------------------------------------------
(* README, docs/RUNBOOK.md and docs/FAILURE_MODES.md: cookies that the     *)
(* provider does not accept never reach the inventory, nor the pool,       *)
(* whatever recoveries of the account overlap.                             *)
OnlyValidatedCookies ==
  \A a \in Accounts : inv[a].cookies # "bad" /\ pool[a].cookies # "bad"

(* The pool has the accounts of the inventory, except while an edit of it  *)
(* waits to be loaded; and whoever loads it holds the refresh lock, which  *)
(* nobody else holds: not a recovery that has raised, nor one whose job    *)
(* was completed or cancelled under it.                                    *)
PoolMatchesInventory ==
  /\ (\A c \in Requests : ~call[c].edit) => \A a \in Accounts : pool[a].there = inv[a].there
  /\ \A c \in Callers : At(c, "syncing") <=> lock = c

(* A monitor's recovery goes on just while the monitor waits for it, and   *)
(* is one of its own job's account: whatever ends the monitor, its own     *)
(* loop, a completion by another caller or a cancellation, ends it too.    *)
MonitorAccountedFor(j) ==
  /\ job[j].task = "calling" <=> ~At(j, "idle")
  /\ ~At(j, "idle") => call[j].job = j /\ call[j].account = job[j].account

MonitorsAccountedFor == \A j \in Jobs : MonitorAccountedFor(j)

(* What an operator has changed stays: no recovery, which read the file    *)
(* when it began, writes older settings back or restores an account that   *)
(* was deleted.                                                            *)
EditsAreKept ==
  [][\A a \in Accounts :
       /\ inv'[a].edit >= inv[a].edit
       /\ inv'[a].there # inv[a].there => inv'[a].edit > inv[a].edit]_vars

(* A job with a monitor ends, unless an exception ended its monitor.       *)
MonitoredJobEnds ==
  \A j \in Jobs :
    job[j].task \in {"starting", "calling", "sleeping"} ~>
      job[j].status \in Terminal \/ job[j].task = "raised"
=============================================================================
