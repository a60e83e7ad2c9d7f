------------------------- MODULE AccountHealthProofs -------------------------
(***************************************************************************)
(* Proofs about AccountHealth.  What is claimed of an account is a claim   *)
(* about one runtime record, so the argument has two layers: every method  *)
(* of the pool, as a function of a runtime, preserves RuntimeOK; and every *)
(* action applies such functions to the runtimes it changes.               *)
(***************************************************************************)
EXTENDS AccountHealth, TLAPS

(* A runtime of the right shape for which both claims hold.                *)
RuntimeOK(r) ==
  /\ r \in Runtimes
  /\ r.state = "ready" => r.failures < DegradedThreshold
  /\ r.state = "cooling_down" => r.cooldown # "none"
  /\ r.state = "initializing" => r.cooldown # "running"
  /\ r.cooldown # "none" => r.failures > 0

Inv == TypeOK /\ \A a \in Accounts : RuntimeOK(rt[a])

(* A runtime that the pool has just made is sound.                         *)
LEMMA NewRuntimeSound ==
  ASSUME NEW v \in InventoryValues
  PROVE  RuntimeOK(NewRuntime(v)) /\ RuntimeOK(AbsentRuntime)
<1>1. \A w \in InventoryValues : NewRuntime(w) \in Runtimes
  <2>1. 0 \in 0..MaxFailures
    BY HealthAssumption
  <2> QED BY <2>1 DEF NewRuntime, Runtimes, States
<1>2. "missing" \in InventoryValues /\ "absent" \in States
  BY DEF InventoryValues, States
<1>3. AbsentRuntime \in Runtimes
  BY <1>1, <1>2 DEF AbsentRuntime, Runtimes
<1>4. AbsentRuntime.state = "absent" /\ AbsentRuntime.cooldown = "none"
  BY DEF AbsentRuntime, NewRuntime
<1>5. NewRuntime(v).state \in {"initializing", "disabled"} /\ NewRuntime(v).cooldown = "none"
  BY DEF NewRuntime
<1> QED BY <1>1, <1>3, <1>4, <1>5 DEF RuntimeOK

(* What counting a failure does to a runtime that is below the bound.      *)
LEMMA FailedFacts ==
  ASSUME NEW r \in Runtimes, r.failures < MaxFailures,
         NEW s \in States, NEW why \in {"login", "other"}
  PROVE  /\ Failed(r, s, why) \in Runtimes
         /\ Failed(r, s, why).state = s
         /\ Failed(r, s, why).failures > 0
         /\ Failed(r, s, why).cooldown = r.cooldown
<1>1. r.failures + 1 \in 0..MaxFailures /\ r.failures + 1 > 0
  BY HealthAssumption DEF Runtimes
<1>2. why \in {"none", "login", "other"}
  OBVIOUS
<1> QED BY <1>1, <1>2 DEF Failed, Runtimes

(* Counting a failure keeps a runtime sound, unless it leads to READY.     *)
LEMMA FailedSound ==
  ASSUME NEW r \in Runtimes, r.failures < MaxFailures,
         NEW s \in {"degraded", "reauth_required", "blocked", "unavailable"},
         NEW why \in {"login", "other"}
  PROVE  RuntimeOK(Failed(r, s, why))
<1>1. s \in States
  BY DEF States
<1> QED BY <1>1, FailedFacts DEF RuntimeOK

(* So does cooling down.                                                   *)
LEMMA CooledSound ==
  ASSUME NEW r \in Runtimes, r.failures < MaxFailures,
         NEW why \in {"login", "other"}
  PROVE  RuntimeOK(Cooled(r, why))
<1> DEFINE f == Failed(r, "cooling_down", why)
<1>1. f \in Runtimes /\ f.state = "cooling_down" /\ f.failures > 0
  BY FailedFacts DEF States
<1>2. Cooled(r, why) = [f EXCEPT !.cooldown = "running"]
  BY DEF Cooled
<1> HIDE DEF f
<1>3. Cooled(r, why) \in Runtimes
  BY <1>1, <1>2 DEF Runtimes
<1>4. /\ Cooled(r, why).state = "cooling_down"
      /\ Cooled(r, why).failures > 0
      /\ Cooled(r, why).cooldown = "running"
  BY <1>1, <1>2 DEF Runtimes
<1> QED BY <1>3, <1>4 DEF RuntimeOK

(* Forgiving a failure leaves the rest of a runtime alone, apart from the  *)
(* cooldown and the error message, which it clears.                        *)
LEMMA ForgivenFacts ==
  ASSUME NEW r \in Runtimes
  PROVE  /\ Forgiven(r) \in Runtimes
         /\ Forgiven(r).state = r.state
         /\ Forgiven(r).cooldown = "none"
         /\ Forgiven(r).failures <= r.failures
<1>1. /\ (IF r.failures > 0 THEN r.failures - 1 ELSE 0) \in 0..MaxFailures
      /\ (IF r.failures > 0 THEN r.failures - 1 ELSE 0) <= r.failures
  BY HealthAssumption DEF Runtimes
<1> QED BY <1>1 DEF Forgiven, Runtimes

(* A success makes a runtime routable and keeps it sound.                  *)
LEMMA RecoveredSound ==
  ASSUME NEW r \in Runtimes
  PROVE  RuntimeOK(Recovered(Forgiven(r)))
<1> DEFINE f == Forgiven(r)
<1>1. f \in Runtimes /\ f.cooldown = "none"
  BY ForgivenFacts
<1> HIDE DEF f
<1>2. RuntimeOK(Recovered(f))
  BY <1>1, HealthAssumption DEF RuntimeOK, Recovered, Runtimes, States
<1> QED BY <1>2 DEF f

(* record_provider_success keeps a runtime sound, whatever its state was.  *)
LEMMA RecordSuccessSound ==
  ASSUME NEW r, RuntimeOK(r)
  PROVE  RuntimeOK(RecordSuccess(r))
BY RecoveredSound DEF RecordSuccess, RuntimeOK

(* record_provider_failure keeps a runtime sound, whatever its state was.  *)
LEMMA RecordFailureSound ==
  ASSUME NEW r, RuntimeOK(r), NEW code \in FailureCodes,
         Bounded(RecordFailure(r, code))
  PROVE  RuntimeOK(RecordFailure(r, code))
<1>1. \E s \in {"degraded", "reauth_required", "blocked", "unavailable"},
         why \in {"login", "other"} : RecordFailure(r, code) = Failed(r, s, why)
  BY DEF RecordFailure, FailureCodes
<1>2. PICK s \in {"degraded", "reauth_required", "blocked", "unavailable"},
           why \in {"login", "other"} : RecordFailure(r, code) = Failed(r, s, why)
  BY <1>1
<1>3. Failed(r, s, why).failures <= MaxFailures
  BY <1>2 DEF Bounded
<1>4. r.failures < MaxFailures
  BY <1>3, HealthAssumption DEF Failed, RuntimeOK, Runtimes
<1>5. r \in Runtimes
  BY DEF RuntimeOK
<1> QED BY <1>2, <1>4, <1>5, FailedSound

(* The inventory never makes a runtime unsound.                            *)
LEMMA ReloadedSound ==
  ASSUME NEW r, RuntimeOK(r), NEW v \in InventoryValues
  PROVE  RuntimeOK(Reloaded(r, v))
BY HealthAssumption DEF RuntimeOK, Reloaded, Runtimes, States, InventoryValues

(* A probe that begins leaves a sound runtime behind while it is awaited.  *)
LEMMA ProbeStartedSound ==
  ASSUME NEW r, RuntimeOK(r)
  PROVE  RuntimeOK(ProbeStarted(r))
BY HealthAssumption DEF RuntimeOK, ProbeStarted, Runtimes, States

(* The except clauses of a probe keep a runtime sound.                     *)
LEMMA ProbeFailedSound ==
  ASSUME NEW r, RuntimeOK(r), NEW e \in ProbeErrors, Bounded(ProbeFailed(r, e))
  PROVE  RuntimeOK(ProbeFailed(r, e))
<1>1. r \in Runtimes
  BY DEF RuntimeOK
<1>2. PICK why \in {"login", "other"} :
        \/ \E s \in {"reauth_required", "blocked", "unavailable"} :
             ProbeFailed(r, e) = Failed(r, s, why)
        \/ ProbeFailed(r, e) = Cooled(r, why)
  BY DEF ProbeFailed
<1>3. CASE ProbeFailed(r, e) = Cooled(r, why)
  <2>1. Cooled(r, why).failures = r.failures + 1
    BY <1>1 DEF Cooled, Failed, Runtimes
  <2>2. r.failures < MaxFailures
    BY <1>1, <1>3, <2>1, HealthAssumption DEF Bounded, Runtimes
  <2> QED BY <1>1, <1>3, <2>2, CooledSound
<1>4. ASSUME NEW s \in {"reauth_required", "blocked", "unavailable"},
             ProbeFailed(r, e) = Failed(r, s, why)
      PROVE  RuntimeOK(ProbeFailed(r, e))
  <2>1. Failed(r, s, why).failures = r.failures + 1
    BY <1>1 DEF Failed, Runtimes
  <2>2. r.failures < MaxFailures
    BY <1>1, <1>4, <2>1, HealthAssumption DEF Bounded, Runtimes
  <2> QED BY <1>1, <1>4, <2>2, FailedSound
<1> QED BY <1>2, <1>3, <1>4

(* The answer to a probe leaves a sound runtime, whatever happened to it   *)
(* while the probe was awaited.                                            *)
LEMMA ApplyProbeSound ==
  ASSUME NEW r, RuntimeOK(r), NEW status \in ProbeStatuses,
         Bounded(ApplyProbe(r, status))
  PROVE  RuntimeOK(ApplyProbe(r, status))
<1> DEFINE f == Forgiven(r)
<1>1. r \in Runtimes
  BY DEF RuntimeOK
<1>2. f \in Runtimes
  BY <1>1, ForgivenFacts
<1>3. RuntimeOK(Recovered(f))
  BY <1>1, RecoveredSound
<1>4. \/ ApplyProbe(r, status) = Recovered(f)
      \/ ApplyProbe(r, status) = Cooled(f, "other")
      \/ \E s \in {"reauth_required", "blocked", "unavailable"},
            why \in {"login", "other"} : ApplyProbe(r, status) = Failed(f, s, why)
  BY DEF ApplyProbe
<1> HIDE DEF f
<1>5. CASE ApplyProbe(r, status) = Cooled(f, "other")
  <2>1. Cooled(f, "other").failures = f.failures + 1
    BY <1>2 DEF Cooled, Failed, Runtimes
  <2>2. f.failures < MaxFailures
    BY <1>2, <1>5, <2>1, HealthAssumption DEF Bounded, Runtimes
  <2> QED BY <1>2, <1>5, <2>2, CooledSound
<1>6. ASSUME NEW s \in {"reauth_required", "blocked", "unavailable"},
             NEW why \in {"login", "other"},
             ApplyProbe(r, status) = Failed(f, s, why)
      PROVE  RuntimeOK(ApplyProbe(r, status))
  <2>1. Failed(f, s, why).failures = f.failures + 1
    BY <1>2 DEF Failed, Runtimes
  <2>2. f.failures < MaxFailures
    BY <1>2, <1>6, <2>1, HealthAssumption DEF Bounded, Runtimes
  <2> QED BY <1>2, <1>6, <2>2, FailedSound
<1> QED BY <1>3, <1>4, <1>5, <1>6

-----------------------------------------------------------------------------
(* Updating one runtime with a sound one keeps all of them sound.          *)
LEMMA UpdateSound ==
  ASSUME Inv, NEW a \in Accounts, NEW r, RuntimeOK(r), Update(a, r)
  PROVE  rt' \in [Accounts -> Runtimes] /\ \A b \in Accounts : RuntimeOK(rt'[b])
<1>1. rt' = [rt EXCEPT ![a] = r] /\ rt \in [Accounts -> Runtimes] /\ r \in Runtimes
  BY DEF Update, Inv, TypeOK, RuntimeOK
<1>2. \A b \in Accounts : rt'[b] = IF b = a THEN r ELSE rt[b]
  BY <1>1
<1> QED BY <1>1, <1>2 DEF Inv

(* Provider calls and their outcomes.                                      *)
LEMMA RunCallInv ==
  ASSUME Inv, NEW c \in Calls, RunCall(c)
  PROVE  Inv'
<1>1. /\ call \in [Calls -> Accounts \cup {NoAccount}]
      /\ \A a \in Accounts : RuntimeOK(rt[a])
  BY DEF Inv, TypeOK
<1>2. UNCHANGED <<inventory, task>> /\ call' \in [Calls -> Accounts \cup {NoAccount}]
  BY <1>1 DEF RunCall, StartCall, CallSucceeds, CallFails, CallAbandoned
<1>3. CASE UNCHANGED rt
  BY <1>2, <1>3 DEF Inv, TypeOK, RuntimeOK
<1>4. CASE CallSucceeds(c)
  <2>1. call[c] \in Accounts /\ Update(call[c], RecordSuccess(rt[call[c]]))
    BY <1>1, <1>4 DEF CallSucceeds
  <2>2. RuntimeOK(RecordSuccess(rt[call[c]]))
    BY <1>1, <2>1, RecordSuccessSound
  <2> QED BY <1>2, <2>1, <2>2, UpdateSound DEF Inv, TypeOK
<1>5. ASSUME NEW code \in FailureCodes, CallFails(c, code)
      PROVE  Inv'
  <2>1. /\ call[c] \in Accounts
        /\ Update(call[c], RecordFailure(rt[call[c]], code))
        /\ Bounded(RecordFailure(rt[call[c]], code))
    BY <1>1, <1>5 DEF CallFails
  <2>2. RuntimeOK(RecordFailure(rt[call[c]], code))
    BY <1>1, <2>1, RecordFailureSound
  <2> QED BY <1>2, <2>1, <2>2, UpdateSound DEF Inv, TypeOK
<1>6. (\E a \in Accounts : StartCall(c, a)) \/ CallAbandoned(c) => UNCHANGED rt
  BY DEF StartCall, CallAbandoned
<1> QED BY <1>3, <1>4, <1>5, <1>6 DEF RunCall

(* The steps of a refresh.                                                 *)
LEMMA RefreshInv ==
  ASSUME Inv, NEW s \in Sources, NEW a \in Accounts, Refresh(s, a)
  PROVE  Inv'
<1>1. /\ RuntimeOK(rt[a]) /\ inventory[a] \in InventoryValues
      /\ task \in [Sources -> [Accounts -> Phases]]
  BY DEF Inv, TypeOK
<1>2. ASSUME NEW r, RuntimeOK(r), Update(a, r), UNCHANGED <<inventory, call>>,
             NEW ph \in Phases, task' = [task EXCEPT ![s][a] = ph]
      PROVE  Inv'
  <2>1. task' \in [Sources -> [Accounts -> Phases]]
    BY <1>1, <1>2
  <2> QED BY <1>2, <2>1, UpdateSound DEF Inv, TypeOK
<1>3. CASE Reload(s, a)
  <2>1. RuntimeOK(Reloaded(rt[a], inventory[a]))
    BY <1>1, ReloadedSound
  <2> QED BY <1>2, <1>3, <2>1 DEF Reload, Phases
<1>4. CASE BeginProbe(s, a)
  <2>1. RuntimeOK(ProbeStarted(rt[a]))
    BY <1>1, ProbeStartedSound
  <2>2. (IF rt'[a].state = "initializing" THEN "probing" ELSE "none") \in Phases
    BY DEF Phases
  <2> QED BY <1>2, <1>4, <2>1, <2>2 DEF BeginProbe
<1>5. ASSUME NEW status \in ProbeStatuses, FinishProbe(s, a, status)
      PROVE  Inv'
  <2>1. RuntimeOK(ApplyProbe(rt[a], status))
    BY <1>1, <1>5, ApplyProbeSound DEF FinishProbe
  <2> QED BY <1>2, <1>5, <2>1 DEF FinishProbe, Phases
<1>6. ASSUME NEW e \in ProbeErrors, FailProbe(s, a, e)
      PROVE  Inv'
  <2>1. RuntimeOK(ProbeFailed(rt[a], e))
    BY <1>1, <1>6, ProbeFailedSound DEF FailProbe
  <2> QED BY <1>2, <1>6, <2>1 DEF FailProbe, Phases
<1> QED BY <1>3, <1>4, <1>5, <1>6 DEF Refresh, EndProbe
(* What operators do to one account, and time.                             *)
LEMMA OperateInv ==
  ASSUME Inv, NEW a \in Accounts, Operate(a) \/ CooldownElapses(a)
  PROVE  Inv'
<1> DEFINE r == rt[a]
<1>1. RuntimeOK(r) /\ r \in Runtimes /\ task \in [Sources -> [Accounts -> Phases]]
  BY DEF Inv, TypeOK, RuntimeOK
<1> HIDE DEF r
<1>2. ASSUME NEW q, RuntimeOK(q), Update(a, q), UNCHANGED <<inventory, call>>,
             task' \in [Sources -> [Accounts -> Phases]]
      PROVE  Inv'
  BY <1>2, UpdateSound DEF Inv, TypeOK
<1>3. UNCHANGED task => task' \in [Sources -> [Accounts -> Phases]]
  BY <1>1
<1>4. task' = [task EXCEPT !["operator"][a] = "queued"]
        => task' \in [Sources -> [Accounts -> Phases]]
  BY <1>1 DEF Sources, Phases
<1>5. CASE ClearCooldown(a)
  <2> DEFINE q == [r EXCEPT !.cooldown = "none",
                            !.state = IF @ = "cooling_down" THEN "degraded" ELSE @]
  <2>1. /\ q.cooldown = "none" /\ q.failures = r.failures
        /\ q.state = "ready" => r.state = "ready"
        /\ q.state # "cooling_down"
    BY <1>1 DEF Runtimes
  <2>2. "degraded" \in States
    BY DEF States
  <2>3. q \in Runtimes
    BY <1>1, <2>2 DEF Runtimes
  <2>4. RuntimeOK(q)
    BY <1>1, <2>1, <2>3 DEF RuntimeOK
  <2> QED BY <1>2, <1>3, <1>5, <2>4 DEF ClearCooldown, r
<1>6. CASE MarkReauthRequired(a)
  <2> DEFINE q == Failed(r, "reauth_required", "login")
  <2>1. q.failures = r.failures + 1
    BY <1>1 DEF Failed, Runtimes
  <2>2. q.failures <= MaxFailures
    BY <1>6 DEF MarkReauthRequired, Bounded, r
  <2>3. r.failures < MaxFailures
    BY <1>1, <2>1, <2>2, HealthAssumption DEF Runtimes
  <2>4. RuntimeOK(q)
    BY <1>1, <2>3, FailedSound
  <2> QED BY <1>2, <1>3, <1>6, <2>4 DEF MarkReauthRequired, r
<1>7. CASE DisableRuntime(a)
  <2> DEFINE q == [r EXCEPT !.operatorDisabled = TRUE, !.state = "disabled"]
  <2>1. RuntimeOK(q)
    BY <1>1 DEF RuntimeOK, Runtimes, States
  <2> QED BY <1>2, <1>3, <1>7, <2>1 DEF DisableRuntime, r
<1>8. CASE EnableRuntime(a)
  <2> DEFINE q == [r EXCEPT !.operatorDisabled = FALSE]
  <2>1. RuntimeOK(q)
    BY <1>1 DEF RuntimeOK, Runtimes
  <2> QED BY <1>2, <1>4, <1>8, <2>1 DEF EnableRuntime, r
<1>9. CASE RefreshAccount(a)
  BY <1>4, <1>9 DEF RefreshAccount, Inv, TypeOK, RuntimeOK
<1>10. CASE CooldownElapses(a)
  <2> DEFINE q == [r EXCEPT !.cooldown = "elapsed"]
  <2>1. r.cooldown = "running"
    BY <1>10 DEF CooldownElapses, r
  <2>2. RuntimeOK(q)
    BY <1>1, <2>1 DEF RuntimeOK, Runtimes
  <2> QED BY <1>2, <1>3, <1>10, <2>2 DEF CooldownElapses, r
<1> QED BY <1>5, <1>6, <1>7, <1>8, <1>9, <1>10 DEF Operate

(* What concerns the pool as a whole, and edits of the inventory.          *)
LEMMA PoolInv ==
  ASSUME Inv,
         \/ StartRefresh \/ SyncInventory \/ CancelRefresh
         \/ \E a \in Accounts, v \in InventoryValues : EditInventory(a, v)
  PROVE  Inv'
<1>1. /\ task \in [Sources -> [Accounts -> Phases]]
      /\ call \in [Calls -> Accounts \cup {NoAccount}]
      /\ inventory \in [Accounts -> InventoryValues]
      /\ \A a \in Accounts : RuntimeOK(rt[a])
  BY DEF Inv, TypeOK
<1>2. CASE StartRefresh
  <2>1. task' \in [Sources -> [Accounts -> Phases]]
    BY <1>1, <1>2 DEF StartRefresh, Sources, Phases
  <2> QED BY <1>2, <2>1 DEF StartRefresh, Inv, TypeOK, RuntimeOK
<1>3. CASE CancelRefresh
  <2>1. task' \in [Sources -> [Accounts -> Phases]]
    BY <1>1, <1>3 DEF CancelRefresh, Sources, Phases
  <2> QED BY <1>3, <2>1 DEF CancelRefresh, Inv, TypeOK, RuntimeOK
<1>4. CASE SyncInventory
  <2>1. ASSUME NEW a \in Accounts
        PROVE  RuntimeOK(rt'[a])
    <3>1. inventory[a] \in InventoryValues /\ RuntimeOK(rt[a])
      BY <1>1
    <3>2. /\ RuntimeOK(AbsentRuntime) /\ RuntimeOK(NewRuntime(inventory[a]))
          /\ RuntimeOK(Reloaded(rt[a], inventory[a]))
      BY <3>1, NewRuntimeSound, ReloadedSound
    <3>3. rt'[a] \in {AbsentRuntime, NewRuntime(inventory[a]), Reloaded(rt[a], inventory[a])}
      BY <1>4 DEF SyncInventory
    <3> QED BY <3>2, <3>3
  <2>2. rt' \in [Accounts -> Runtimes]
    <3>1. rt' = [a \in Accounts |-> rt'[a]]
      BY <1>4 DEF SyncInventory
    <3> QED BY <2>1, <3>1 DEF RuntimeOK
  <2>3. call' \in [Calls -> Accounts \cup {NoAccount}]
    BY <1>1, <1>4 DEF SyncInventory
  <2>4. task' \in [Sources -> [Accounts -> Phases]]
    BY <1>1, <1>4 DEF SyncInventory, Phases
  <2> QED BY <1>1, <1>4, <2>1, <2>2, <2>3, <2>4 DEF SyncInventory, Inv, TypeOK
<1>5. ASSUME NEW a \in Accounts, NEW v \in InventoryValues, EditInventory(a, v)
      PROVE  Inv'
  BY <1>1, <1>5 DEF EditInventory, Inv, TypeOK, RuntimeOK
<1> QED BY <1>2, <1>3, <1>4, <1>5

-----------------------------------------------------------------------------
(* The invariant holds initially.                                          *)
LEMMA InitInv == Init => Inv
<1> SUFFICES ASSUME Init PROVE Inv
  OBVIOUS
<1>1. /\ inventory \in [Accounts -> InventoryValues]
      /\ call \in [Calls -> Accounts \cup {NoAccount}]
      /\ task \in [Sources -> [Accounts -> Phases]]
  BY DEF Init, Phases
<1>2. ASSUME NEW a \in Accounts
      PROVE  RuntimeOK(rt[a])
  <2>1. inventory[a] \in InventoryValues
    BY <1>1
  <2>2. rt[a] \in {AbsentRuntime, NewRuntime(inventory[a])}
    BY DEF Init
  <2> QED BY <2>1, <2>2, NewRuntimeSound
<1>3. rt \in [Accounts -> Runtimes]
  <2>1. rt = [a \in Accounts |-> rt[a]]
    BY DEF Init
  <2> QED BY <1>2, <2>1 DEF RuntimeOK
<1> QED BY <1>1, <1>2, <1>3 DEF Inv, TypeOK

(* The invariant is inductive.                                             *)
LEMMA InvInductive == Inv /\ [Next]_vars => Inv'
<1> SUFFICES ASSUME Inv, [Next]_vars PROVE Inv'
  OBVIOUS
<1>1. ASSUME NEW c \in Calls, RunCall(c) PROVE Inv'
  BY <1>1, RunCallInv
<1>2. CASE StartRefresh \/ SyncInventory \/ CancelRefresh
  BY <1>2, PoolInv
<1>3. ASSUME NEW s \in Sources, NEW a \in Accounts, Refresh(s, a) PROVE Inv'
  BY <1>3, RefreshInv
<1>4. ASSUME NEW a \in Accounts, Operate(a) \/ CooldownElapses(a) PROVE Inv'
  BY <1>4, OperateInv
<1>5. ASSUME NEW a \in Accounts, NEW v \in InventoryValues, EditInventory(a, v) PROVE Inv'
  BY <1>5, PoolInv
<1>6. CASE UNCHANGED vars
  BY <1>6 DEF vars, Inv, TypeOK, RuntimeOK
<1> QED BY <1>1, <1>2, <1>3, <1>4, <1>5, <1>6 DEF Next

(* The invariant holds in every reachable state.                           *)
LEMMA InvHolds == Spec => []Inv
BY InitInv, InvInductive, PTL DEF Spec

(* The records of accounts, calls and refreshes keep their types, and the  *)
(* failure count its bound.                                                *)
THEOREM TypeCorrect == Spec => []TypeOK
<1>1. Inv => TypeOK
  BY DEF Inv
<1> QED BY <1>1, InvHolds, PTL

(* However probes, late calls and operators interleave, a READY account    *)
(* has fewer unforgiven failures than the degraded threshold.              *)
THEOREM ReadyCorrect == Spec => []ReadyMeansForgiven
<1>1. Inv => ReadyMeansForgiven
  BY DEF Inv, RuntimeOK, ReadyMeansForgiven
<1> QED BY <1>1, InvHolds, PTL

(* A cooling account has a deadline to wait for and is not probed before   *)
(* it.                                                                     *)
THEOREM CooldownCorrect == Spec => []CooldownSound
<1>1. Inv => CooldownSound
  BY DEF Inv, RuntimeOK, CooldownSound
<1> QED BY <1>1, InvHolds, PTL
=============================================================================
