-------------------------------- MODULE Browsers --------------------------------
(***************************************************************************)
(* The managed browsers of the accounts: PersistentBrowserManager          *)
(* (services/persistent_browser_manager.py) with the launch, liveness and  *)
(* termination of core/browser_cookie_sync.py, and the two that use it,    *)
(* CookieRefreshDaemon and the browser actions and recoveries of           *)
(* operators.                                                              *)
(*                                                                         *)
(* The registry is a file, written at every change; the sessions are only  *)
(* in memory; the browsers are processes of their own, which outlive the   *)
(* service, hang, and are closed by whoever sits in front of them.  A      *)
(* session reaches its browser through a debugging port and nothing else.  *)
(***************************************************************************)
EXTENDS Integers, FiniteSets

CONSTANTS
  NumAccounts,  (* accounts, in the order of the inventory                 *)
  NumPorts,     (* debugging ports to choose from                          *)
  Pids,         (* browser processes                                       *)
  Requests,     (* operators' browser actions and recoveries               *)
  MaxSyncs,     (* bound on recoveries that run at the same time           *)
  ReuseExisting,(* settings.browser_reuse_existing                         *)
  Daemon, NoPid, NoAccount

Accounts == 1..NumAccounts
Ports == 1..NumPorts
Callers == Requests \cup {Daemon}

ASSUME BrowsersAssumption ==
  /\ NumAccounts \in Nat /\ NumPorts \in Nat /\ MaxSyncs \in Nat
  /\ ReuseExisting \in BOOLEAN
  /\ NoAccount \notin Accounts /\ NoPid \notin Pids /\ Daemon \notin Requests

VARIABLES
  proc,     (* the browser processes                                       *)
  entry,    (* _registry, and the file that always equals it               *)
  session,  (* _sessions                                                   *)
  launch,   (* the launch for which the event loop is blocked              *)
  sync,     (* recoveries in progress                                      *)
  forced,   (* CookieRefreshDaemon._force_sync                             *)
  tick      (* the account at which the daemon's tick is                   *)

vars == <<proc, entry, session, launch, sync, forced, tick>>

(* port: where the process listens, or will once it is up; 0 if another    *)
(* had the port by then.  known: its launch was completed, so that the     *)
(* registry has its port.                                                  *)
Processes == [of : Accounts \cup {NoAccount}, port : Ports \cup {0}, known : BOOLEAN,
              status : {"unused", "starting", "up", "hung", "dead"}]

(* state: "online" also for focused and collecting_cookies, "stale" also   *)
(* for error: nothing distinguishes them.                                  *)
Entries == [there : BOOLEAN, port : Ports \cup {0}, pid : Pids \cup {NoPid},
            state : {"offline", "online", "stale"}, auto : BOOLEAN]

(* own: the session has the handle of the process, not only its pid.       *)
Sessions == [there : BOOLEAN, port : Ports \cup {0}, pid : Pids \cup {NoPid}, own : BOOLEAN]
NoSession == [there |-> FALSE, port |-> 0, pid |-> NoPid, own |-> FALSE]

(* collects: the caller goes on to read cookies.                           *)
Launches == [account : Accounts \cup {NoAccount}, pid : Pids \cup {NoPid}, port : Ports \cup {0},
             caller : Callers, collects : BOOLEAN]
NoLaunch == [account |-> NoAccount, pid |-> NoPid, port |-> 0, caller |-> Daemon,
             collects |-> FALSE]

(* port, pid: of the session that is read; from: the process that answered.*)
Syncs == [pc : {"idle", "extracting", "validating"}, account : Accounts \cup {NoAccount},
          port : Ports \cup {0}, pid : Pids \cup {NoPid}, from : Pids \cup {NoPid}]
NoSync == [pc |-> "idle", account |-> NoAccount, port |-> 0, pid |-> NoPid, from |-> NoPid]

TypeOK ==
  /\ proc \in [Pids -> Processes]
  /\ entry \in [Accounts -> Entries]
  /\ session \in [Accounts -> Sessions]
  /\ launch \in Launches
  /\ sync \in [Callers -> Syncs]
  /\ forced \subseteq Accounts
  /\ tick \in 0..NumAccounts

Init ==
  /\ proc = [p \in Pids |-> [of |-> NoAccount, port |-> 0, known |-> FALSE, status |-> "unused"]]
  /\ entry = [a \in Accounts |-> [there |-> FALSE, port |-> 0, pid |-> NoPid,
                                  state |-> "offline", auto |-> TRUE]]
  /\ session = [a \in Accounts |-> NoSession]
  /\ launch = NoLaunch
  /\ sync = [c \in Callers |-> NoSync]
  /\ forced = {}
  /\ tick = 0

Alive(p) == proc[p].status \in {"starting", "up", "hung"}
Listening(n) == {p \in Pids : proc[p].status = "up" /\ proc[p].port = n /\ n # 0}

(* browser_debug_endpoint_available.                                       *)
Answers(n) == Listening(n) # {}

(* is_browser_login_session_alive.                                         *)
SessionAlive(a) ==
  /\ session[a].there
  /\ session[a].pid # NoPid => Alive(session[a].pid)
  /\ Answers(session[a].port)

(* Mutant of PortInUseElsewhere: ports of offline browsers are reused.     *)
PortInUseByRunning(n, a) ==
  \E b \in Accounts \ {a} : entry[b].there /\ entry[b].state # "offline" /\ entry[b].port = n

PortInUseElsewhere(n, a) == \E b \in Accounts \ {a} : entry[b].there /\ entry[b].port = n

-----------------------------------------------------------------------------
(* attach_existing_session: the session in memory, or, unless browsers are *)
(* not to be reused, one made from the registry if something answers at    *)
(* its port.                                                               *)
Registered(a) == ReuseExisting /\ entry[a].there

Attachable(a) == SessionAlive(a) \/ (Registered(a) /\ Answers(entry[a].port))

AttachedSession(a) ==
  IF SessionAlive(a) THEN session[a]
  ELSE [there |-> TRUE, port |-> entry[a].port, pid |-> entry[a].pid, own |-> FALSE]

AttachedEntry(a, state) ==
  [entry EXCEPT ![a].there = TRUE, ![a].state = state, ![a].pid = AttachedSession(a).pid]

(* Nothing to attach to: the registry says so, if it was asked.            *)

(* Mutant of Unattached: only a browser that is back is recorded.          *)
UnattachedAsBefore(a) == entry

Unattached(a) == IF Registered(a) THEN [entry EXCEPT ![a].state = "stale"] ELSE entry

(* _reserve_port: the account's own port again, or the first that no other *)
(* entry has and nobody answers at.                                        *)
ReservablePorts(a) ==
  IF entry[a].port # 0 /\ ~PortInUseElsewhere(entry[a].port, a) THEN {entry[a].port}
  ELSE LET usable == {n \in Ports : ~PortInUseElsewhere(n, a) /\ ~Answers(n)}
       IN {n \in usable : \A k \in usable : n <= k}

(* launch_session up to Popen.                                             *)
Popen(a, n) == [of |-> a, port |-> n, known |-> FALSE, status |-> "starting"]

BeginLaunch(a) ==
  \E n \in ReservablePorts(a), p \in Pids :
    /\ proc[p].status = "unused"
    /\ proc' = [proc EXCEPT ![p] = Popen(a, n)]
    /\ launch' = [NoLaunch EXCEPT !.account = a, !.pid = p, !.port = n]
    /\ entry' = Unattached(a)
    /\ UNCHANGED <<session, sync>>

(* collect_cookie_bundle: the session is ensured again.                    *)
BeginExtract(c, a, port, pid) ==
  sync' = [sync EXCEPT ![c] = [NoSync EXCEPT !.pc = "extracting", !.account = a,
                                             !.port = port, !.pid = pid]]

Collect(c, a) ==
  /\ session' = [session EXCEPT ![a] = AttachedSession(a)]
  /\ entry' = AttachedEntry(a, "online")
  /\ BeginExtract(c, a, AttachedSession(a).port, AttachedSession(a).pid)
  /\ UNCHANGED <<proc, launch>>

(* The browser is closed between the two: another is launched, whether the *)
(* caller has allowed that or not.                                         *)
CollectFromClosed(c, a) ==
  \E n \in ReservablePorts(a), p \in Listening(AttachedSession(a).port), q \in Pids :
    /\ proc[q].status = "unused"
    /\ proc' = [proc EXCEPT ![p].status = "dead", ![q] = Popen(a, n)]
    /\ launch' = [account |-> a, pid |-> q, port |-> n, caller |-> c, collects |-> TRUE]
    /\ session' = [session EXCEPT ![a] = AttachedSession(a)]
    /\ entry' = AttachedEntry(a, IF ReuseExisting THEN "stale" ELSE "online")
    /\ UNCHANGED sync

(* recover_account as far as its browser is concerned.                     *)
Recover(c, a, allowLaunch) ==
  \/ Attachable(a) /\ (Collect(c, a) \/ CollectFromClosed(c, a))
  \/ /\ ~Attachable(a) /\ allowLaunch
     /\ BeginLaunch(a)
  \/ /\ ~Attachable(a) /\ (~allowLaunch \/ ReservablePorts(a) = {})
     /\ entry' = Unattached(a)
     /\ UNCHANGED <<proc, session, launch, sync>>

Running == launch.account = NoAccount

-----------------------------------------------------------------------------
(* The rest of launch_session, once something answers at the port, and     *)
(* what its caller goes on to do.                                          *)
LaunchSucceeds ==
  LET a == launch.account
  IN /\ ~Running /\ Answers(launch.port)
     /\ proc' = [proc EXCEPT ![launch.pid].known = TRUE]
     /\ session' = [session EXCEPT ![a] = [there |-> TRUE, port |-> launch.port,
                                           pid |-> launch.pid, own |-> TRUE]]
     /\ entry' = [entry EXCEPT ![a] = [@ EXCEPT !.there = TRUE, !.port = launch.port,
                    !.pid = launch.pid, !.auto = TRUE, !.state = "online"]]
     /\ IF launch.collects
        THEN BeginExtract(launch.caller, a, launch.port, launch.pid)
        ELSE UNCHANGED sync
     /\ launch' = NoLaunch
     /\ UNCHANGED <<forced, tick>>

(* The endpoint does not answer in time: the process is terminated.  A     *)
(* recovery records the error as a login that is missing.                  *)
LaunchFails ==
  /\ ~Running
  /\ proc' = [proc EXCEPT ![launch.pid].status = "dead"]
  /\ entry' = IF launch.collects
              THEN [entry EXCEPT ![launch.account].state = "online"]
              ELSE entry
  /\ launch' = NoLaunch
  /\ UNCHANGED <<session, sync, forced, tick>>

(* extract_cookie_bundle_from_browser_session, in a thread.                *)
ExtractSucceeds(c) ==
  /\ Running /\ sync[c].pc = "extracting"
  /\ \E p \in Listening(sync[c].port) :
       sync' = [sync EXCEPT ![c].pc = "validating", ![c].from = p]
  /\ entry' = [entry EXCEPT ![sync[c].account] =
       [@ EXCEPT !.there = TRUE, !.state = "online", !.pid = sync[c].pid]]
  /\ UNCHANGED <<proc, session, launch, forced, tick>>

(* record_error.                                                           *)
ExtractFails(c) ==
  /\ Running /\ sync[c].pc = "extracting"
  /\ entry' = [entry EXCEPT ![sync[c].account] =
       [@ EXCEPT !.there = TRUE, !.state = "online"]]
  /\ sync' = [sync EXCEPT ![c] = NoSync]
  /\ UNCHANGED <<proc, session, launch, forced, tick>>

(* record_cookie_sync_result, or none if the candidate was refused.        *)
Validated(c) ==
  /\ Running /\ sync[c].pc = "validating"
  /\ \/ \E state \in {"online", "stale"} :
          entry' = [entry EXCEPT ![sync[c].account] =
            [@ EXCEPT !.there = TRUE, !.state = state]]
     \/ UNCHANGED entry
  /\ sync' = [sync EXCEPT ![c] = NoSync]
  /\ UNCHANGED <<proc, session, launch, forced, tick>>

(* An exception, or a job's monitor that is cancelled.                     *)
Raise(c) ==
  /\ Running /\ sync[c].pc # "idle"
  /\ sync' = [sync EXCEPT ![c] = NoSync]
  /\ tick' = IF c = Daemon THEN 0 ELSE tick
  /\ UNCHANGED <<proc, entry, session, launch, forced>>

-----------------------------------------------------------------------------
IdleCaller(c) ==
  /\ Running /\ sync[c].pc = "idle"
  /\ Cardinality({d \in Callers : sync[d].pc # "idle"}) < MaxSyncs

(* browser_action "start" and "focus": focus_session.                      *)
FocusSession(a) ==
  /\ Running
  /\ \/ /\ Attachable(a)
        /\ session' = [session EXCEPT ![a] = AttachedSession(a)]
        /\ entry' = AttachedEntry(a, "online")
        /\ UNCHANGED <<proc, launch, sync>>
     \/ ~Attachable(a) /\ BeginLaunch(a)
  /\ UNCHANGED <<forced, tick>>

(* terminate_browser_process: of a process whose handle it does not have,  *)
(* only a signal, for which it does not wait.                              *)
Terminated(a) ==
  LET p == session[a].pid
  IN IF session[a].there /\ p # NoPid /\ Alive(p)
     THEN {[proc EXCEPT ![p].status = "dead"]} \cup (IF session[a].own THEN {} ELSE {proc})
     ELSE {proc}

(* stop_session: without a session in memory no process is terminated,     *)
(* and the pid of the one that runs is forgotten.                          *)
StopSession(a) ==
  /\ Running
  /\ proc' \in Terminated(a)
  /\ session' = [session EXCEPT ![a] = NoSession]
  /\ entry' = IF entry[a].there
              THEN [entry EXCEPT ![a].state = "offline", ![a].pid = NoPid] ELSE entry
  /\ UNCHANGED <<launch, sync, forced, tick>>

SetAutoRefresh(a, enabled) ==
  /\ Running
  /\ entry' = [entry EXCEPT ![a].there = TRUE, ![a].auto = enabled]
  /\ UNCHANGED <<proc, session, launch, sync, forced, tick>>

(* browser_action "sync-now": the daemon is told to, and does so too.      *)
SyncNow(c, a) ==
  /\ IdleCaller(c)
  /\ forced' = forced \cup {a}
  /\ Recover(c, a, FALSE)
  /\ UNCHANGED tick

(* A reauthentication job, or the recovery of every account at start-up.   *)
Reauth(c, a) ==
  /\ IdleCaller(c)
  /\ Recover(c, a, TRUE)
  /\ UNCHANGED <<forced, tick>>

-----------------------------------------------------------------------------
(* _tick: one account after the other; a sync that raises ends the tick.   *)
BeginTick ==
  /\ IdleCaller(Daemon) /\ tick = 0 /\ NumAccounts > 0
  /\ tick' = 1
  /\ UNCHANGED <<proc, entry, session, launch, sync, forced>>

(* Mutant of NextAccount: the tick does not end.                           *)
NextAccountOn == tick' = tick + 1

NextAccount == tick' = IF tick = NumAccounts THEN 0 ELSE tick + 1

Paused(a) == entry[a].there /\ ~entry[a].auto

(* The account is left out, or the interval since it was validated last is *)
(* not over, which only a forced sync does not wait for.                   *)
SkipAccount ==
  /\ IdleCaller(Daemon) /\ tick # 0
  /\ Paused(tick) \/ tick \notin forced
  /\ NextAccount
  /\ UNCHANGED <<proc, entry, session, launch, sync, forced>>

SyncAccount ==
  /\ IdleCaller(Daemon) /\ tick # 0 /\ ~Paused(tick)
  /\ \/ tick \in forced
     \/ entry[tick].there /\ entry[tick].state # "offline"
  /\ forced' = forced \ {tick}
  /\ Recover(Daemon, tick, FALSE)
  /\ NextAccount

-----------------------------------------------------------------------------
(* The browsers: they come up and listen at their port, unless another     *)
(* does, hang, come back, are closed.                                      *)
BrowserComesUp(p) ==
  /\ proc[p].status = "starting"
  /\ proc' = [proc EXCEPT ![p].status = "up",
       ![p].port = IF \E q \in Pids : proc[q].status \in {"up", "hung"} /\ proc[q].port = @
                   THEN 0 ELSE @]
  /\ UNCHANGED <<entry, session, launch, sync, forced, tick>>

BrowserChanges(p, status) ==
  /\ \/ proc[p].status = "up" /\ status = "hung"
     \/ proc[p].status = "hung" /\ status = "up"
     \/ Alive(p) /\ status = "dead"
  /\ proc' = [proc EXCEPT ![p].status = status]
  /\ UNCHANGED <<entry, session, launch, sync, forced, tick>>

(* close, when browsers are not kept: every session is stopped; and a      *)
(* service that ends, in whatever state, and is started again.             *)
Forgotten ==
  /\ session' = [a \in Accounts |-> NoSession]
  /\ launch' = NoLaunch
  /\ sync' = [c \in Callers |-> NoSync]
  /\ forced' = {}
  /\ tick' = 0

Close ==
  /\ Running
  /\ LET Owned == {session[a].pid : a \in {b \in Accounts : session[b].there}}
     IN proc' = [p \in Pids |-> IF p \in Owned /\ Alive(p)
                                THEN [proc[p] EXCEPT !.status = "dead"] ELSE proc[p]]
  /\ entry' = [a \in Accounts |-> IF session[a].there
                 THEN [entry[a] EXCEPT !.state = "offline", !.pid = NoPid] ELSE entry[a]]
  /\ Forgotten

Crash == Forgotten /\ UNCHANGED <<proc, entry>>

-----------------------------------------------------------------------------
RunSync(c) == ExtractSucceeds(c) \/ ExtractFails(c) \/ Validated(c) \/ Raise(c)

RunLaunch == LaunchSucceeds \/ LaunchFails

RunTick == BeginTick \/ SkipAccount \/ SyncAccount

Request(c, a) == SyncNow(c, a) \/ Reauth(c, a)

Next ==
  \/ \E c \in Callers : RunSync(c)
  \/ \E c \in Requests, a \in Accounts : Request(c, a)
  \/ \E a \in Accounts :
       FocusSession(a) \/ StopSession(a) \/ \E b \in BOOLEAN : SetAutoRefresh(a, b)
  \/ RunLaunch
  \/ RunTick
  \/ \E p \in Pids :
       BrowserComesUp(p) \/ \E status \in {"up", "hung", "dead"} : BrowserChanges(p, status)
  \/ Close
  \/ Crash

Spec == Init /\ [][Next]_vars

(* A launch and a recovery come to an end, and the daemon goes on to the   *)
(* next account: the service, which may be stopped and started again at    *)
(* any time, lives long enough for that now and then, the interval between *)
(* two syncs passes, and no account's sync raises every time (it would     *)
(* keep the daemon from all accounts after it).                            *)
FairSpec ==
  /\ Spec
  /\ SF_vars(RunLaunch) /\ SF_vars(BeginTick)
  /\ \A c \in Callers : /\ SF_vars(ExtractSucceeds(c) \/ ExtractFails(c))
                        /\ SF_vars(Validated(c))
  /\ \A a \in Accounts : /\ SF_vars(tick = a /\ SkipAccount)
                         /\ SF_vars(tick = a /\ SyncAccount)

-----------------------------------------------------------------------------
(* Two accounts never share a debugging port in the registry.              *)
PortsDistinct ==
  \A a, b \in Accounts : entry[a].port = entry[b].port /\ entry[a].port # 0 => a = b

(* Cookies collected for an account come from a browser that was started   *)
(* on the profile of this account, however browsers hang, die and come     *)
(* back, and sessions are stopped, found again and launched meanwhile.     *)
(* The exception is a browser whose launch a crash interrupted: it listens *)
(* at a port that the registry does not have.                              *)
CookiesFromOwnBrowser ==
  \A c \in Callers :
    sync[c].pc = "validating" =>
      proc[sync[c].from].of = sync[c].account \/ ~proc[sync[c].from].known

(* A browser that is gone does not stay "online" in the registry for good, *)
(* unless its refresh is paused: also when it goes, or is stopped, while   *)
(* its cookies are being read, and the sync then reports it online again.  *)
(* This is said of the accounts of the inventory, which is all the daemon  *)
(* looks at, and of a service that reuses browsers: one that does not      *)
(* never looks at what the registry says of a browser it has no session    *)
(* for.                                                                    *)
Claims(a) == entry[a].there /\ entry[a].state = "online"

DeadBrowserNoticed ==
  \A a \in Accounts :
    ReuseExisting /\ Claims(a) /\ ~Answers(entry[a].port) ~>
      ~Claims(a) \/ Answers(entry[a].port) \/ Paused(a)
=============================================================================
