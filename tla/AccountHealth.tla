---------------------------- MODULE AccountHealth ----------------------------
(***************************************************************************)
(* The runtime state of provider accounts: AccountRuntime and the part of  *)
(* AccountPool that probes accounts, records the outcome of provider calls *)
(* and takes operators' actions (services/account_pool.py), with the way   *)
(* the adapters report errors (adapters/gemini_web.py, adapters/mock.py).  *)
(*                                                                         *)
(* Nothing serialises these updates.  A probe suspends between setting     *)
(* INITIALIZING and applying its result; provider calls finish long after  *)
(* the routing decision that started them; operators act at any moment.    *)
(* Refreshes of the whole pool exclude each other (_refresh_lock), but an  *)
(* operator's refresh of one account takes no lock.                        *)
(***************************************************************************)
EXTENDS Integers, FiniteSets

CONSTANTS
  Accounts,
  Calls,                (* provider calls, each used again when it is over *)
  Adapter,              (* "web" or "mock": the adapter_factory's choice   *)
  DegradedThreshold,    (* settings.degraded_failure_threshold             *)
  UnavailableThreshold, (* settings.unavailable_failure_threshold          *)
  MaxFailures,          (* bound on consecutive_failures                   *)
  NoAccount             (* a call that is not in flight, or whose runtime  *)
                        (* has been removed from the pool                  *)

ASSUME HealthAssumption ==
  /\ Adapter \in {"web", "mock"}
  /\ DegradedThreshold \in Nat \ {0}
  /\ UnavailableThreshold \in Nat \ {0}
  /\ MaxFailures \in Nat
  /\ NoAccount \notin Accounts

VARIABLES
  inventory,   (* what accounts.json says of each account                  *)
  rt,          (* AccountRuntime of each account                           *)
  call,        (* the account each in-flight provider call runs on         *)
  task         (* the refresh of an account, by source, and its progress   *)

vars == <<inventory, rt, call, task>>

InventoryValues == {"enabled", "disabled", "missing"}
States == {"absent", "disabled", "initializing", "ready", "degraded",
           "cooling_down", "reauth_required", "blocked", "unavailable"}
Runtimes == [state : States, operatorDisabled : BOOLEAN, enabled : BOOLEAN,
             failures : 0..MaxFailures,
             cooldown : {"none", "running", "elapsed"},
             lastError : {"none", "login", "other"}]

(* "pool": the round that holds _refresh_lock.  "operator": enable-runtime *)
(* or refresh of one account; at most one of those per account at a time   *)
(* is modelled.                                                            *)
Sources == {"pool", "operator"}
Phases == {"none", "queued", "reloaded", "probing"}

TypeOK ==
  /\ inventory \in [Accounts -> InventoryValues]
  /\ rt \in [Accounts -> Runtimes]
  /\ call \in [Calls -> Accounts \cup {NoAccount}]
  /\ task \in [Sources -> [Accounts -> Phases]]

Present(a) == rt[a].state # "absent"

Routable(r) == ~r.operatorDisabled /\ r.state \in {"ready", "degraded"}

-----------------------------------------------------------------------------
(* Updates of one runtime r: the methods of AccountPool as functions from  *)
(* runtimes to runtimes.                                                   *)

NewRuntime(v) ==
  [state |-> IF v = "enabled" THEN "initializing" ELSE "disabled",
   operatorDisabled |-> FALSE, enabled |-> v = "enabled",
   failures |-> 0, cooldown |-> "none", lastError |-> "none"]

AbsentRuntime == [NewRuntime("missing") EXCEPT !.state = "absent"]

(* One more consecutive failure, the state it leads to, and what it says:  *)
(* that the login is no longer good, or something else.                    *)
Failed(r, s, why) ==
  [r EXCEPT !.failures = @ + 1, !.state = s, !.lastError = why]

(* _mark_cooling_down.                                                     *)
Cooled(r, why) == [Failed(r, "cooling_down", why) EXCEPT !.cooldown = "running"]

(* What a success of any kind forgives.                                    *)
ForgivenBelowZero(r) ==
  [r EXCEPT !.cooldown = "none", !.lastError = "none", !.failures = @ - 1]

Forgiven(r) ==
  [r EXCEPT !.cooldown = "none", !.lastError = "none",
            !.failures = IF @ > 0 THEN @ - 1 ELSE 0]

(* Routable again: DEGRADED until enough failures are forgiven.            *)
RecoveredAlwaysReady(r) == [r EXCEPT !.state = "ready"]

Recovered(r) ==
  [r EXCEPT !.state = IF r.failures >= DegradedThreshold THEN "degraded"
                                                         ELSE "ready"]

Verdicts == {"disabled", "reauth_required", "blocked"}

(* record_provider_success.                                                *)
RecordSuccess(r) == IF r.state \in Verdicts THEN r ELSE Recovered(Forgiven(r))

(* record_provider_failure: every code but the first two falls through to  *)
(* _mark_degraded_or_unavailable, whatever the state was before.           *)
FailureCodes == {"provider_reauth_required", "provider_blocked",
                 "provider_timeout", "provider_unavailable"}

RecordFailure(r, code) ==
  Failed(r, CASE code = "provider_reauth_required" -> "reauth_required"
              [] code = "provider_blocked" -> "blocked"
              [] r.failures + 1 >= UnavailableThreshold -> "unavailable"
              [] OTHER -> "degraded",
            IF code = "provider_reauth_required" THEN "login" ELSE "other")

(* _reload_runtime_config, v being what the file says now.                 *)
Reloaded(r, v) ==
  IF v = "missing" THEN [r EXCEPT !.operatorDisabled = TRUE, !.state = "disabled"]
                   ELSE [r EXCEPT !.enabled = v = "enabled"]

(* _probe_runtime up to the call of the adapter.                           *)
ProbeStartedAfterAnyCooldown(r) ==
  [r EXCEPT !.state = CASE ~r.enabled \/ r.operatorDisabled -> "disabled"
                        [] r.cooldown # "none" -> "cooling_down"
                        [] OTHER -> "initializing"]

ProbeStartedDuringCooldown(r) ==
  [r EXCEPT !.state = IF ~r.enabled \/ r.operatorDisabled THEN "disabled"
                                                          ELSE "initializing"]

ProbeStartedThoughDisabled(r) ==
  [r EXCEPT !.state = CASE r.operatorDisabled -> "disabled"
                        [] r.cooldown = "running" -> "cooling_down"
                        [] OTHER -> "initializing"]

ProbeStarted(r) ==
  [r EXCEPT !.state = CASE ~r.enabled \/ r.operatorDisabled -> "disabled"
                        [] r.cooldown = "running" -> "cooling_down"
                        [] OTHER -> "initializing"]

(* What the provider may answer a probe, as account status codes, ...      *)
ProbeStatuses == {"available", "unauthenticated", "temporarily_unavailable",
                  "untrusted", "rejected"}

(* ... or how the probe may fail inside the adapter.                       *)
ProbeErrors == {"auth_error", "temporarily_blocked", "timeout_or_api_error",
                "unexpected"}

(* GeminiWebAccountAdapter.probe turns every exception into a              *)
(* ServiceError; the mock adapter raises the client's exceptions as they   *)
(* are.                                                                    *)
Raised(e) == IF Adapter = "web" THEN "service_error" ELSE e

(* The except clauses of _probe_runtime.                                   *)
ProbeFailed(r, e) ==
  LET why == IF e = "auth_error" THEN "login" ELSE "other"
  IN CASE Raised(e) = "auth_error"           -> Failed(r, "reauth_required", why)
       [] Raised(e) = "temporarily_blocked"  -> Failed(r, "blocked", why)
       [] Raised(e) = "timeout_or_api_error" -> Cooled(r, why)
       [] OTHER                              -> Failed(r, "unavailable", why)

(* _apply_probe: the failure count is forgiven one step before the status  *)
(* is looked at.                                                           *)
ApplyProbe(r, status) ==
  LET f == Forgiven(r)
  IN CASE status = "available"               -> Recovered(f)
       [] status = "unauthenticated"         -> Failed(f, "reauth_required", "login")
       [] status = "temporarily_unavailable" -> Cooled(f, "other")
       [] status = "untrusted"               -> Failed(f, "blocked", "other")
       [] OTHER                              -> Failed(f, "unavailable", "other")

-----------------------------------------------------------------------------
PoolIdle == \A a \in Accounts : task["pool"][a] = "none"

Init ==
  /\ inventory \in [Accounts -> InventoryValues]
  /\ rt = [a \in Accounts |-> IF inventory[a] = "missing" THEN AbsentRuntime
                                             ELSE NewRuntime(inventory[a])]
  /\ call = [c \in Calls |-> NoAccount]
  /\ task = [s \in Sources |-> [a \in Accounts |->
               IF s = "pool" /\ inventory[a] # "missing" THEN "queued" ELSE "none"]]

Update(a, r) == rt' = [rt EXCEPT ![a] = r]

(* An update that counts a failure stays below the bound.                  *)
Bounded(r) == r.failures <= MaxFailures

(* A provider call starts on an account that is routable at that moment.   *)
StartCall(c, a) ==
  /\ call[c] = NoAccount
  /\ Routable(rt[a])
  /\ call' = [call EXCEPT ![c] = a]
  /\ UNCHANGED <<inventory, rt, task>>

CallSucceeds(c) ==
  /\ call[c] # NoAccount
  /\ Update(call[c], RecordSuccess(rt[call[c]]))
  /\ call' = [call EXCEPT ![c] = NoAccount]
  /\ UNCHANGED <<inventory, task>>

(* The adapter raised a ServiceError.                                      *)
CallFails(c, code) ==
  /\ call[c] # NoAccount
  /\ Bounded(RecordFailure(rt[call[c]], code))
  /\ Update(call[c], RecordFailure(rt[call[c]], code))
  /\ call' = [call EXCEPT ![c] = NoAccount]
  /\ UNCHANGED <<inventory, task>>

(* The caller was cancelled, or the adapter raised anything else: nothing  *)
(* is recorded.                                                            *)
CallAbandoned(c) ==
  /\ call[c] # NoAccount
  /\ call' = [call EXCEPT ![c] = NoAccount]
  /\ UNCHANGED <<inventory, rt, task>>

-----------------------------------------------------------------------------
(* Refreshing: reload the configuration, then probe.                       *)

(* refresh_if_due, due or forced: one task per account, under the lock.    *)
StartRefresh ==
  /\ PoolIdle
  /\ \E a \in Accounts : Present(a)
  /\ task' = [task EXCEPT !["pool"] =
               [a \in Accounts |-> IF Present(a) THEN "queued" ELSE "none"]]
  /\ UNCHANGED <<inventory, rt, call>>

(* sync_inventory: runtimes of accounts that left the file are dropped,    *)
(* with the calls and probes that run on them; new accounts get a runtime; *)
(* the others reload; all are refreshed under the same lock.               *)
SyncInventory ==
  /\ PoolIdle
  /\ rt' = [a \in Accounts |->
             CASE inventory[a] = "missing" -> AbsentRuntime
               [] inventory[a] # "missing" /\ ~Present(a) -> NewRuntime(inventory[a])
               [] OTHER -> Reloaded(rt[a], inventory[a])]
  /\ call' = [c \in Calls |->
               IF call[c] # NoAccount /\ inventory[call[c]] = "missing"
               THEN NoAccount ELSE call[c]]
  /\ task' = [s \in Sources |-> [a \in Accounts |->
               CASE inventory[a] = "missing" -> "none"
                 [] inventory[a] # "missing" /\ s = "pool" -> "queued"
                 [] OTHER -> task[s][a]]]
  /\ UNCHANGED inventory

Reload(s, a) ==
  /\ task[s][a] = "queued"
  /\ Update(a, Reloaded(rt[a], inventory[a]))
  /\ task' = [task EXCEPT ![s][a] = "reloaded"]
  /\ UNCHANGED <<inventory, call>>

BeginProbe(s, a) ==
  /\ task[s][a] = "reloaded"
  /\ Update(a, ProbeStarted(rt[a]))
  /\ task' = [task EXCEPT ![s][a] =
               IF rt'[a].state = "initializing" THEN "probing" ELSE "none"]
  /\ UNCHANGED <<inventory, call>>

FinishProbe(s, a, status) ==
  /\ task[s][a] = "probing"
  /\ Bounded(ApplyProbe(rt[a], status))
  /\ Update(a, ApplyProbe(rt[a], status))
  /\ task' = [task EXCEPT ![s][a] = "none"]
  /\ UNCHANGED <<inventory, call>>

FailProbe(s, a, e) ==
  /\ task[s][a] = "probing"
  /\ Bounded(ProbeFailed(rt[a], e))
  /\ Update(a, ProbeFailed(rt[a], e))
  /\ task' = [task EXCEPT ![s][a] = "none"]
  /\ UNCHANGED <<inventory, call>>

(* The task that runs the round is cancelled (a client leaves a stream     *)
(* that had to refresh first): gather cancels every probe, and             *)
(* CancelledError passes all except clauses.                               *)
CancelRefresh ==
  /\ ~PoolIdle
  /\ task' = [task EXCEPT !["pool"] = [a \in Accounts |-> "none"]]
  /\ UNCHANGED <<inventory, rt, call>>

-----------------------------------------------------------------------------
(* Operators, time, and the inventory file.                                *)

ClearCooldown(a) ==
  /\ Present(a)
  /\ Update(a, [rt[a] EXCEPT !.cooldown = "none",
                             !.state = IF @ = "cooling_down" THEN "degraded" ELSE @])
  /\ UNCHANGED <<inventory, call, task>>

MarkReauthRequired(a) ==
  /\ Present(a)
  /\ Bounded(Failed(rt[a], "reauth_required", "login"))
  /\ Update(a, Failed(rt[a], "reauth_required", "login"))
  /\ UNCHANGED <<inventory, call, task>>

DisableRuntime(a) ==
  /\ Present(a)
  /\ Update(a, [rt[a] EXCEPT !.operatorDisabled = TRUE, !.state = "disabled"])
  /\ UNCHANGED <<inventory, call, task>>

EnableRuntime(a) ==
  /\ Present(a)
  /\ task["operator"][a] = "none"
  /\ Update(a, [rt[a] EXCEPT !.operatorDisabled = FALSE])
  /\ task' = [task EXCEPT !["operator"][a] = "queued"]
  /\ UNCHANGED <<inventory, call>>

RefreshAccount(a) ==
  /\ Present(a)
  /\ task["operator"][a] = "none"
  /\ task' = [task EXCEPT !["operator"][a] = "queued"]
  /\ UNCHANGED <<inventory, rt, call>>

CooldownElapses(a) ==
  /\ rt[a].cooldown = "running"
  /\ Update(a, [rt[a] EXCEPT !.cooldown = "elapsed"])
  /\ UNCHANGED <<inventory, call, task>>

EditInventory(a, v) ==
  /\ inventory[a] # v
  /\ inventory' = [inventory EXCEPT ![a] = v]
  /\ UNCHANGED <<rt, call, task>>

-----------------------------------------------------------------------------
RunCall(c) ==
  \/ \E a \in Accounts : StartCall(c, a)
  \/ CallSucceeds(c)
  \/ \E code \in FailureCodes : CallFails(c, code)
  \/ CallAbandoned(c)

EndProbe(s, a) ==
  \/ \E status \in ProbeStatuses : FinishProbe(s, a, status)
  \/ \E e \in ProbeErrors : FailProbe(s, a, e)

Refresh(s, a) == Reload(s, a) \/ BeginProbe(s, a) \/ EndProbe(s, a)

Operate(a) ==
  \/ ClearCooldown(a) \/ MarkReauthRequired(a) \/ DisableRuntime(a)
  \/ EnableRuntime(a) \/ RefreshAccount(a)

Next ==
  \/ \E c \in Calls : RunCall(c)
  \/ StartRefresh \/ SyncInventory \/ CancelRefresh
  \/ \E s \in Sources, a \in Accounts : Refresh(s, a)
  \/ \E a \in Accounts : Operate(a) \/ CooldownElapses(a)
                         \/ \E v \in InventoryValues : EditInventory(a, v)

Spec == Init /\ [][Next]_vars

(* Readiness polls keep refreshing the pool (GET /readyz), time passes, a  *)
(* probe ends by its timeout, and not every round that comes to a probe is *)
(* cancelled: hence strong fairness for ending a probe.                    *)
Fairness ==
  /\ WF_vars(StartRefresh)
  /\ \A a \in Accounts :
       /\ WF_vars(CooldownElapses(a))
       /\ \A s \in Sources :
            /\ SF_vars(Reload(s, a))
            /\ SF_vars(BeginProbe(s, a))
            /\ SF_vars(EndProbe(s, a))

FairSpec == Spec /\ Fairness

-----------------------------------------------------------------------------
(* An account is READY only once enough failures have been forgiven, along *)
(* whatever mix of late calls, probes and operators' actions it got there. *)
ReadyMeansForgiven ==
  \A a \in Accounts : rt[a].state = "ready" => rt[a].failures < DegradedThreshold

(* docs/RUNBOOK.md tells the operator of an account in cooling_down to     *)
(* wait for cooldown_until: there always is one, the provider is not       *)
(* probed before it, and a failure that nothing forgave is behind it,      *)
(* whatever probes and calls end in the meantime.                          *)
CooldownSound ==
  \A a \in Accounts :
    /\ rt[a].state = "cooling_down" => rt[a].cooldown # "none"
    /\ rt[a].state = "initializing" => rt[a].cooldown # "running"
    /\ rt[a].cooldown # "none" => rt[a].failures > 0

(* What the inventory says takes effect.  An account that is disabled or   *)
(* left out there is taken out of service, again and again: a probe that   *)
(* was begun before, and every call that fails late, whatever the state,   *)
(* put it back.  One that is enabled does not stay disabled, unless it is  *)
(* the operator, or a reload that missed it in the file, who disabled it.  *)
OutOfService(a) == rt[a].state \in {"disabled", "absent"}

InventoryTakesEffect ==
  \A a \in Accounts :
    /\ inventory[a] # "enabled" ~> OutOfService(a) \/ inventory[a] = "enabled"
    /\ rt[a].state = "disabled" /\ inventory[a] = "enabled" ~>
         \/ rt[a].state # "disabled"
         \/ inventory[a] # "enabled"
         \/ rt[a].operatorDisabled

(* An account does not stay in INITIALIZING, or in cooling_down, for ever: *)
(* a probe that was cancelled is repeated, and a cooldown that elapsed is  *)
(* followed by a probe.                                                    *)
Settles(state) ==
  \A a \in Accounts : rt[a].state = state ~> rt[a].state # state

PassingStatesSettle == Settles("initializing") /\ Settles("cooling_down")
=============================================================================
