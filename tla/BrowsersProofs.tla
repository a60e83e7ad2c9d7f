------------------------------ MODULE BrowsersProofs ------------------------------
(* Proofs about Browsers: a session, a recovery and a launch reach a browser *)
(* through a port, and the port of an account never changes once it has one; *)
(* so what answers at it is the account's own browser.                       *)
EXTENDS Browsers, TLAPS

(* Only entries of the registry have a port, and no two the same.            *)
PortInv ==
  /\ \A a \in Accounts : entry[a].port # 0 => entry[a].there
  /\ PortsDistinct

SessionInv ==
  \A a \in Accounts :
    session[a].there => session[a].port = entry[a].port /\ session[a].port # 0

(* A browser whose launch was completed listens at the port of its account.  *)
KnownInv ==
  \A p \in Pids :
    proc[p].known => /\ proc[p].of \in Accounts
                     /\ entry[proc[p].of].port # 0
                     /\ proc[p].port \in {0, entry[proc[p].of].port}

AtItsPort(s) ==
  s.account \in Accounts /\ s.port # 0 /\ s.port = entry[s.account].port
Came(s) ==
  /\ s.from \in Pids /\ proc[s.from].status # "unused"
  /\ proc[s.from].known => proc[s.from].of = s.account
SyncInv ==
  \A c \in Callers : /\ sync[c].pc # "idle" => AtItsPort(sync[c])
                     /\ sync[c].pc = "validating" => Came(sync[c])

(* The launch has a port that no other account has, its own one if it had    *)
(* one, and a new process, which has not answered anybody yet.               *)
LaunchInv ==
  ~Running =>
    /\ launch.account \in Accounts /\ launch.pid \in Pids /\ launch.port \in Ports
    /\ proc[launch.pid].of = launch.account
    /\ proc[launch.pid].port \in {0, launch.port}
    /\ \A b \in Accounts \ {launch.account} : entry[b].port # launch.port
    /\ entry[launch.account].port \in {0, launch.port}
    /\ \A c \in Callers : sync[c].pc = "validating" => sync[c].from # launch.pid

Inv == TypeOK /\ PortInv /\ SessionInv /\ KnownInv /\ SyncInv /\ LaunchInv

LEMMA NoneRunning == NoLaunch \in Launches /\ NoLaunch.account = NoAccount
                     /\ NoSync \in Syncs /\ NoSync.pc = "idle"
                     /\ NoSession \in Sessions /\ NoSession.there = FALSE
BY DEF NoLaunch, Launches, Callers, NoSync, Syncs, NoSession, Sessions

-----------------------------------------------------------------------------
(* Most steps launch nothing: ports stay, processes stay whose they are, and *)
(* sessions and recoveries are of an account's port.                         *)
SameEntries ==
  \A a \in Accounts : entry'[a].port = entry[a].port /\ (entry[a].there => entry'[a].there)

SameProcess(p) ==
  /\ proc'[p].of = proc[p].of /\ proc'[p].known = proc[p].known
  /\ proc'[p].port \in {0, proc[p].port}
  /\ proc[p].status # "unused" => proc'[p].status # "unused"

SessionsAtPorts ==
  \A a \in Accounts :
    session'[a].there => session'[a].port = entry[a].port /\ session'[a].port # 0

SyncMoves(c) ==
  \/ sync'[c] = sync[c]
  \/ sync'[c].pc = "idle"
  \/ Running /\ sync'[c].pc = "extracting" /\ AtItsPort(sync'[c])
  \/ /\ Running /\ AtItsPort(sync'[c]) /\ sync'[c].pc = "validating"
     /\ sync'[c].from \in Listening(sync'[c].port)

LEMMA Calm ==
  ASSUME Inv, TypeOK', SameEntries, SessionsAtPorts,
         \A p \in Pids : SameProcess(p),
         \A c \in Callers : SyncMoves(c),
         launch' = launch \/ launch' = NoLaunch
  PROVE  Inv'
<1>1. PortInv'
  BY DEF Inv, PortInv, PortsDistinct, SameEntries
<1>2. SessionInv'
  BY DEF SessionsAtPorts, SameEntries, SessionInv
<1>3. KnownInv'
  BY DEF Inv, KnownInv, SameProcess, SameEntries
<1>4. SyncInv'
  <2> SUFFICES ASSUME NEW c \in Callers
               PROVE  /\ sync'[c].pc # "idle" => AtItsPort(sync[c])'
                      /\ sync'[c].pc = "validating" => Came(sync[c])'
    BY DEF SyncInv
  <2>1. CASE sync'[c] = sync[c]
    BY <2>1 DEF Inv, SyncInv, SameEntries, SameProcess, AtItsPort, Came
  <2>2. CASE sync'[c].pc = "idle"
    BY <2>2
  <2>3. CASE sync'[c].pc = "extracting" /\ AtItsPort(sync'[c])
    BY <2>3 DEF SameEntries, AtItsPort
  <2>4. CASE AtItsPort(sync'[c]) /\ sync'[c].from \in Listening(sync'[c].port)
    <3> DEFINE from == sync'[c].from
               of == proc[from].of
    <3>1. from \in Pids /\ proc[from].status = "up" /\ proc[from].port = sync'[c].port
          /\ sync'[c].port # 0
      BY <2>4 DEF Listening
    <3>2. ASSUME proc[from].known PROVE of = sync'[c].account
      <4>1. of \in Accounts /\ entry[of].port = sync'[c].port
        BY <3>1, <3>2 DEF Inv, KnownInv
      <4> QED BY <2>4, <3>1, <4>1 DEF Inv, PortInv, PortsDistinct, AtItsPort
    <3>3. Came(sync[c])'
      BY <3>1, <3>2 DEF Came, SameProcess
    <3> QED BY <2>4, <3>3 DEF SameEntries, AtItsPort
  <2> QED BY <2>1, <2>2, <2>3, <2>4 DEF SyncMoves
<1>5. LaunchInv'
  <2>1. CASE launch' = NoLaunch
    BY <2>1, NoneRunning DEF LaunchInv, Running
  <2>2. CASE launch' = launch /\ ~Running
    BY <2>2 DEF Inv, LaunchInv, Running, SameEntries, SameProcess, SyncMoves
  <2>3. CASE launch' = launch /\ Running
    BY <2>3 DEF LaunchInv, Running
  <2> QED BY <2>1, <2>2, <2>3
<1> QED BY <1>1, <1>2, <1>3, <1>4, <1>5 DEF Inv

-----------------------------------------------------------------------------
(* Ports that can be reserved are free of other accounts, and an account     *)
(* that has a port gets it again.                                            *)
LEMMA Reserved ==
  ASSUME Inv, NEW a \in Accounts, NEW n \in ReservablePorts(a)
  PROVE  /\ n \in Ports /\ entry[a].port \in {0, n}
         /\ \A b \in Accounts \ {a} : entry[b].port # n
<1>1. entry[a].port \in Ports \cup {0}
  BY DEF Inv, TypeOK, Entries
<1>2. entry[a].port # 0 => ~PortInUseElsewhere(entry[a].port, a)
  BY <1>1 DEF PortInUseElsewhere, Inv, PortInv, PortsDistinct
<1>3. n \in Ports /\ entry[a].port \in {0, n} /\ ~PortInUseElsewhere(n, a)
  BY <1>1, <1>2 DEF ReservablePorts
<1>4. n # 0
  BY <1>3 DEF Ports
<1> QED BY <1>3, <1>4 DEF PortInUseElsewhere, Inv, PortInv

(* A launch begins: only now is there a new process.                         *)
LEMMA LaunchBegins ==
  ASSUME Inv, TypeOK', Running, SameEntries, SessionsAtPorts,
         NEW a \in Accounts, NEW n \in ReservablePorts(a), NEW p \in Pids,
         proc[p].status = "unused", proc'[p] = Popen(a, n),
         \A q \in Pids \ {p} : SameProcess(q),
         launch'.account = a, launch'.pid = p, launch'.port = n, sync' = sync
  PROVE  Inv'
<1>1. proc'[p].of = a /\ proc'[p].port = n /\ proc'[p].known = FALSE
      /\ proc'[p].status # "unused"
  BY DEF Popen
<1>2. PortInv' /\ SessionInv'
  BY DEF Inv, PortInv, PortsDistinct, SameEntries, SessionsAtPorts, SessionInv
<1>3. KnownInv'
  BY <1>1 DEF Inv, KnownInv, SameProcess, SameEntries
<1>4. SyncInv'
  BY <1>1 DEF Inv, SyncInv, AtItsPort, Came, SameProcess, SameEntries
<1>5. LaunchInv'
  BY <1>1, Reserved DEF LaunchInv, Inv, SyncInv, Came, SameEntries
<1> QED BY <1>2, <1>3, <1>4, <1>5 DEF Inv

(* What attach_existing_session returns, and what it leaves in the registry. *)
LEMMA Attached ==
  ASSUME Inv, NEW a \in Accounts, Attachable(a)
  PROVE  /\ AttachedSession(a) \in Sessions
         /\ AttachedSession(a).port = entry[a].port /\ AttachedSession(a).port # 0
<1>1. CASE SessionAlive(a)
  BY <1>1 DEF AttachedSession, SessionAlive, Inv, TypeOK, SessionInv
<1>2. CASE ~SessionAlive(a)
  <2>1. entry[a].port # 0
    BY <1>2 DEF Attachable, Answers, Listening
  <2> QED BY <1>2, <2>1 DEF AttachedSession, Inv, TypeOK, Entries, Sessions
<1> QED BY <1>1, <1>2

States == {"offline", "online", "stale"}

(* What is written into an entry leaves it an entry of the same port.      *)
Kept(x, y) == y \in Entries /\ y.port = x.port /\ (x.there => y.there)

LEMMA EntryFields ==
  ASSUME NEW x \in Entries, NEW p \in Pids \cup {NoPid}, NEW st \in States,
         NEW b \in BOOLEAN
  PROVE  /\ Kept(x, [x EXCEPT !.there = TRUE, !.state = st, !.pid = p])
         /\ Kept(x, [x EXCEPT !.there = TRUE, !.state = st])
         /\ Kept(x, [x EXCEPT !.state = st, !.pid = p])
         /\ Kept(x, [x EXCEPT !.there = TRUE, !.auto = b])
<1>1. PICK th \in BOOLEAN, po \in Ports \cup {0}, pi \in Pids \cup {NoPid},
           s \in States, au \in BOOLEAN :
        x = [there |-> th, port |-> po, pid |-> pi, state |-> s, auto |-> au]
  BY DEF Entries, States
<1>2. Kept(x, [x EXCEPT !.there = TRUE, !.state = st, !.pid = p])
  BY <1>1 DEF Kept, Entries, States
<1>3. Kept(x, [x EXCEPT !.there = TRUE, !.state = st])
  BY <1>1 DEF Kept, Entries, States
<1>4. Kept(x, [x EXCEPT !.state = st, !.pid = p])
  BY <1>1 DEF Kept, Entries, States
<1>5. Kept(x, [x EXCEPT !.there = TRUE, !.auto = b])
  BY <1>1 DEF Kept, Entries, States
<1> QED BY <1>2, <1>3, <1>4, <1>5

LEMMA EntryWritten ==
  ASSUME Inv, NEW a \in Accounts, NEW e, Kept(entry[a], e),
         entry' = [entry EXCEPT ![a] = e]
  PROVE  entry' \in [Accounts -> Entries] /\ SameEntries
<1>1. entry \in [Accounts -> Entries] /\ e \in Entries
  BY DEF Inv, TypeOK, Kept
<1>2. entry'[a] = e /\ \A b \in Accounts \ {a} : entry'[b] = entry[b]
  BY <1>1
<1>3. entry' \in [Accounts -> Entries]
  BY <1>1
<1> QED BY <1>2, <1>3 DEF SameEntries, Kept

LEMMA AttachedInRegistry ==
  ASSUME Inv, NEW a \in Accounts, Attachable(a), NEW state \in States,
         entry' = AttachedEntry(a, state)
  PROVE  entry' \in [Accounts -> Entries] /\ SameEntries
<1>1. AttachedSession(a).pid \in Pids \cup {NoPid}
  BY Attached DEF Sessions
<1> DEFINE e == [entry[a] EXCEPT !.there = TRUE, !.state = state,
                                 !.pid = AttachedSession(a).pid]
<1>2. entry' = [entry EXCEPT ![a] = e]
  BY DEF AttachedEntry, Inv, TypeOK
<1>3. Kept(entry[a], e)
  BY <1>1, EntryFields DEF Inv, TypeOK
<1> QED BY <1>2, <1>3, EntryWritten

LEMMA SessionAttached ==
  ASSUME Inv, NEW a \in Accounts, Attachable(a),
         session' = [session EXCEPT ![a] = AttachedSession(a)]
  PROVE  session' \in [Accounts -> Sessions] /\ SessionsAtPorts
BY Attached DEF SessionsAtPorts, Inv, TypeOK, SessionInv

LEMMA UnattachedInRegistry ==
  ASSUME Inv, NEW a \in Accounts, entry' = Unattached(a)
  PROVE  entry' \in [Accounts -> Entries] /\ SameEntries
BY DEF Unattached, Inv, TypeOK, Entries, SameEntries

LEMMA Popened ==
  ASSUME NEW a \in Accounts, NEW n \in Ports
  PROVE  Popen(a, n) \in Processes
BY DEF Popen, Processes

LEMMA BeginLaunchKeeps ==
  ASSUME Inv, Running, NEW a \in Accounts, BeginLaunch(a),
         forced' \subseteq Accounts, tick' \in 0..NumAccounts
  PROVE  Inv'
<1>1. PICK n \in ReservablePorts(a), p \in Pids :
        /\ proc[p].status = "unused"
        /\ proc' = [proc EXCEPT ![p] = Popen(a, n)]
        /\ launch' = [NoLaunch EXCEPT !.account = a, !.pid = p, !.port = n]
        /\ entry' = Unattached(a)
        /\ UNCHANGED <<session, sync>>
  BY DEF BeginLaunch
<1>2. n \in Ports
  BY Reserved
<1>3. /\ launch' \in Launches
      /\ launch'.account = a /\ launch'.pid = p /\ launch'.port = n
  BY <1>1, <1>2 DEF NoLaunch, Launches, Callers
<1>4. /\ proc' \in [Pids -> Processes] /\ proc'[p] = Popen(a, n)
      /\ \A q \in Pids \ {p} : SameProcess(q)
  BY <1>1, <1>2, Popened DEF Inv, TypeOK, SameProcess
<1>5. TypeOK' /\ SameEntries
  BY <1>1, <1>3, <1>4, UnattachedInRegistry DEF Inv, TypeOK
<1>6. SessionsAtPorts
  BY <1>1 DEF SessionsAtPorts, Inv, SessionInv
<1> QED BY <1>1, <1>3, <1>4, <1>5, <1>6, LaunchBegins

LEMMA BeginExtracts ==
  ASSUME Inv, Running, NEW c \in Callers, NEW a \in Accounts, NEW port, NEW pid \in Pids \cup {NoPid},
         port = entry[a].port, port # 0, BeginExtract(c, a, port, pid)
  PROVE  sync' \in [Callers -> Syncs] /\ \A d \in Callers : SyncMoves(d)
<1>1. port \in Ports \cup {0}
  BY DEF Inv, TypeOK, Entries
<1>2. [NoSync EXCEPT !.pc = "extracting", !.account = a, !.port = port, !.pid = pid] \in Syncs
  BY <1>1 DEF NoSync, Syncs
<1> QED BY <1>1, <1>2 DEF BeginExtract, SyncMoves, AtItsPort, NoSync, Inv, TypeOK

LEMMA CollectKeeps ==
  ASSUME Inv, Running, NEW c \in Callers, NEW a \in Accounts, Attachable(a), Collect(c, a),
         forced' \subseteq Accounts, tick' \in 0..NumAccounts
  PROVE  Inv'
<1>1. AttachedSession(a).pid \in Pids \cup {NoPid}
  BY Attached DEF Sessions
<1>2. sync' \in [Callers -> Syncs] /\ \A d \in Callers : SyncMoves(d)
  BY <1>1, Attached, BeginExtracts DEF Collect
<1>3. entry' \in [Accounts -> Entries] /\ SameEntries
  BY AttachedInRegistry DEF Collect, States
<1>4. session' \in [Accounts -> Sessions] /\ SessionsAtPorts
  BY SessionAttached DEF Collect
<1>5. proc' = proc /\ launch' = launch
  BY DEF Collect
<1>6. TypeOK'
  BY <1>2, <1>3, <1>4, <1>5 DEF Inv, TypeOK
<1>7. \A p \in Pids : SameProcess(p)
  BY <1>5 DEF SameProcess
<1> QED BY <1>2, <1>3, <1>4, <1>5, <1>6, <1>7, Calm

LEMMA CollectFromClosedKeeps ==
  ASSUME Inv, Running, NEW c \in Callers, NEW a \in Accounts, Attachable(a),
         CollectFromClosed(c, a), forced' \subseteq Accounts, tick' \in 0..NumAccounts
  PROVE  Inv'
<1>1. PICK n \in ReservablePorts(a), p \in Listening(AttachedSession(a).port), q \in Pids :
        /\ proc[q].status = "unused"
        /\ proc' = [proc EXCEPT ![p].status = "dead", ![q] = Popen(a, n)]
        /\ launch' = [account |-> a, pid |-> q, port |-> n, caller |-> c, collects |-> TRUE]
        /\ session' = [session EXCEPT ![a] = AttachedSession(a)]
        /\ \E state \in States : entry' = AttachedEntry(a, state)
        /\ UNCHANGED sync
  BY DEF CollectFromClosed, States
<1>2. n \in Ports /\ p \in Pids /\ p # q
  BY <1>1, Reserved DEF Listening
<1>3. launch' \in Launches /\ launch'.account = a /\ launch'.pid = q /\ launch'.port = n
  BY <1>1, <1>2 DEF Launches
<1>4. [proc[p] EXCEPT !.status = "dead"] \in Processes
  BY <1>2 DEF Inv, TypeOK, Processes
<1>5. /\ proc' \in [Pids -> Processes] /\ proc'[q] = Popen(a, n)
      /\ \A r \in Pids \ {q} : SameProcess(r)
  BY <1>1, <1>2, <1>4, Popened DEF Inv, TypeOK, SameProcess, Processes
<1>6. entry' \in [Accounts -> Entries] /\ SameEntries
  BY <1>1, AttachedInRegistry
<1>7. session' \in [Accounts -> Sessions] /\ SessionsAtPorts
  BY <1>1, SessionAttached
<1>8. TypeOK'
  BY <1>1, <1>3, <1>5, <1>6, <1>7 DEF Inv, TypeOK
<1> QED BY <1>1, <1>3, <1>5, <1>6, <1>7, <1>8, LaunchBegins

LEMMA RecoverKeeps ==
  ASSUME Inv, Running, NEW c \in Callers, NEW a \in Accounts, NEW allowLaunch \in BOOLEAN,
         Recover(c, a, allowLaunch), forced' \subseteq Accounts, tick' \in 0..NumAccounts
  PROVE  Inv'
<1>1. CASE entry' = Unattached(a) /\ UNCHANGED <<proc, session, launch, sync>>
  <2>1. TypeOK' /\ SameEntries
    BY <1>1, UnattachedInRegistry DEF Inv, TypeOK
  <2>2. SessionsAtPorts /\ (\A p \in Pids : SameProcess(p)) /\ (\A d \in Callers : SyncMoves(d))
    BY <1>1 DEF SessionsAtPorts, Inv, SessionInv, SameProcess, SyncMoves
  <2> QED BY <1>1, <2>1, <2>2, Calm
<1> QED BY <1>1, CollectKeeps, CollectFromClosedKeeps, BeginLaunchKeeps DEF Recover

-----------------------------------------------------------------------------
(* The end of a launch: the only step that gives an account its port.        *)
LEMMA LaunchSucceedsKeeps ==
  ASSUME Inv, LaunchSucceeds
  PROVE  Inv'
<1> DEFINE a == launch.account
           n == launch.port
           p == launch.pid
<1>1. /\ a \in Accounts /\ p \in Pids /\ n \in Ports /\ n # 0
      /\ proc[p].of = a /\ proc[p].port \in {0, n}
      /\ \A b \in Accounts \ {a} : entry[b].port # n
      /\ entry[a].port \in {0, n}
      /\ \A c \in Callers : sync[c].pc = "validating" => sync[c].from # p
      /\ launch \in Launches
  BY DEF LaunchSucceeds, Inv, LaunchInv, TypeOK, Ports
<1>2. /\ proc' = [proc EXCEPT ![p].known = TRUE]
      /\ session' = [session EXCEPT ![a] = [there |-> TRUE, port |-> n, pid |-> p, own |-> TRUE]]
      /\ entry' = [entry EXCEPT ![a] = [@ EXCEPT !.there = TRUE, !.port = n, !.pid = p,
                                                 !.auto = TRUE, !.state = "online"]]
      /\ IF launch.collects THEN BeginExtract(launch.caller, a, n, p) ELSE UNCHANGED sync
      /\ launch' = NoLaunch /\ UNCHANGED <<forced, tick>>
  BY DEF LaunchSucceeds
<1>3. /\ proc' \in [Pids -> Processes]
      /\ \A q \in Pids : /\ proc'[q].of = proc[q].of /\ proc'[q].port = proc[q].port
                         /\ proc'[q].status = proc[q].status
                         /\ q # p => proc'[q].known = proc[q].known
  <2> DEFINE new == [proc[p] EXCEPT !.known = TRUE]
  <2>1. proc \in [Pids -> Processes] /\ proc[p] \in Processes
    BY <1>1 DEF Inv, TypeOK
  <2>2. /\ new \in Processes /\ new.of = proc[p].of /\ new.port = proc[p].port
        /\ new.status = proc[p].status
    BY <2>1 DEF Processes
  <2>3. proc' = [proc EXCEPT ![p] = new]
    BY <1>2, <2>1
  <2> HIDE DEF new
  <2>4. proc'[p] = new /\ \A q \in Pids \ {p} : proc'[q] = proc[q]
    BY <1>1, <2>1, <2>3
  <2>5. proc' \in [Pids -> Processes]
    BY <2>1, <2>2, <2>3
  <2> QED BY <2>2, <2>4, <2>5
<1>4. /\ entry' \in [Accounts -> Entries]
      /\ entry'[a].port = n /\ entry'[a].there
      /\ \A b \in Accounts \ {a} : entry'[b] = entry[b]
  <2> DEFINE new == [entry[a] EXCEPT !.there = TRUE, !.port = n, !.pid = p,
                                     !.auto = TRUE, !.state = "online"]
  <2>1. entry \in [Accounts -> Entries] /\ entry[a] \in Entries
    BY <1>1 DEF Inv, TypeOK
  <2>2. new \in Entries /\ new.port = n /\ new.there
    BY <1>1, <2>1 DEF Entries
  <2>3. entry' = [entry EXCEPT ![a] = new]
    BY <1>2, <2>1
  <2> HIDE DEF new
  <2> QED BY <1>1, <2>1, <2>2, <2>3
<1>5. /\ session' \in [Accounts -> Sessions]
      /\ session'[a].port = n /\ \A b \in Accounts \ {a} : session'[b] = session[b]
  BY <1>1, <1>2 DEF Inv, TypeOK, Sessions
<1>6. /\ sync' \in [Callers -> Syncs]
      /\ \A c \in Callers : \/ sync'[c] = sync[c]
                            \/ sync'[c].pc = "extracting" /\ sync'[c].account = a
                                                          /\ sync'[c].port = n
  <2>1. CASE launch.collects
    <3> DEFINE new == [NoSync EXCEPT !.pc = "extracting", !.account = a, !.port = n, !.pid = p]
    <3>1. /\ new \in Syncs
          /\ new.pc = "extracting" /\ new.account = a /\ new.port = n
      BY <1>1 DEF NoSync, Syncs
    <3>2. launch.caller \in Callers
      BY <1>1 DEF Launches
    <3>3. sync' = [sync EXCEPT ![launch.caller] = new]
      BY <1>2, <2>1 DEF BeginExtract
    <3> HIDE DEF new
    <3> QED BY <3>1, <3>2, <3>3 DEF Inv, TypeOK
  <2>2. CASE ~launch.collects
    BY <1>2, <2>2 DEF Inv, TypeOK
  <2> QED BY <2>1, <2>2
<1>7. TypeOK'
  BY <1>2, <1>3, <1>4, <1>5, <1>6, NoneRunning DEF Inv, TypeOK
<1>8. \A b \in Accounts : entry[b].port # 0 => entry'[b].port = entry[b].port
  BY <1>1, <1>4
<1>9. PortInv'
  BY <1>1, <1>4 DEF Inv, PortInv, PortsDistinct
<1>10. SessionInv'
  BY <1>1, <1>4, <1>5, <1>8 DEF Inv, SessionInv
<1>11. KnownInv'
  BY <1>1, <1>3, <1>4, <1>8 DEF Inv, KnownInv
<1>12. SyncInv'
  BY <1>1, <1>3, <1>4, <1>6, <1>8 DEF Inv, SyncInv, AtItsPort, Came
<1>13. LaunchInv'
  BY <1>2, NoneRunning DEF LaunchInv, Running
<1> QED BY <1>7, <1>9, <1>10, <1>11, <1>12, <1>13 DEF Inv

LEMMA LaunchFailsKeeps ==
  ASSUME Inv, LaunchFails
  PROVE  Inv'
<1>1. launch.account \in Accounts /\ launch.pid \in Pids
  BY DEF LaunchFails, Inv, LaunchInv
<1>2. /\ proc' = [proc EXCEPT ![launch.pid].status = "dead"]
      /\ launch' = NoLaunch /\ UNCHANGED <<session, sync, forced, tick>>
  BY DEF LaunchFails
<1>3. proc' \in [Pids -> Processes] /\ \A p \in Pids : SameProcess(p)
  BY <1>1, <1>2 DEF Inv, TypeOK, Processes, SameProcess
<1>4. entry' \in [Accounts -> Entries] /\ SameEntries
  BY <1>1 DEF LaunchFails, Inv, TypeOK, Entries, SameEntries
<1>5. TypeOK'
  BY <1>2, <1>3, <1>4, NoneRunning DEF Inv, TypeOK
<1>6. SessionsAtPorts /\ \A c \in Callers : SyncMoves(c)
  BY <1>2 DEF SessionsAtPorts, Inv, SessionInv, SyncMoves
<1> QED BY <1>2, <1>3, <1>4, <1>5, <1>6, Calm

-----------------------------------------------------------------------------
(* A step of a recovery that has a session.                                  *)
LEMMA RunSyncKeeps ==
  ASSUME Inv, NEW c \in Callers, RunSync(c)
  PROVE  Inv'
<1>1. /\ Running /\ sync[c] \in Syncs /\ AtItsPort(sync[c])
      /\ UNCHANGED <<proc, session, launch, forced>>
  BY DEF RunSync, ExtractSucceeds, ExtractFails, Validated, Raise, Inv, TypeOK, SyncInv
<1>2. tick' \in 0..NumAccounts
  BY BrowsersAssumption DEF RunSync, ExtractSucceeds, ExtractFails, Validated, Raise, Inv, TypeOK
<1>3. sync[c].account \in Accounts /\ sync[c].pid \in Pids \cup {NoPid}
  BY <1>1 DEF AtItsPort, Syncs
<1>4. entry' \in [Accounts -> Entries] /\ SameEntries
  <2>1. \/ entry' = entry
        \/ entry' = [entry EXCEPT ![sync[c].account] =
                       [@ EXCEPT !.there = TRUE, !.state = "online", !.pid = sync[c].pid]]
        \/ \E state \in States : entry' = [entry EXCEPT ![sync[c].account] =
                                             [@ EXCEPT !.there = TRUE, !.state = state]]
    BY DEF RunSync, ExtractSucceeds, ExtractFails, Validated, Raise, States
  <2>2. entry \in [Accounts -> Entries]
    BY DEF Inv, TypeOK
  <2>3. CASE entry' = entry
    BY <2>2, <2>3 DEF SameEntries
  <2>4. CASE entry' = [entry EXCEPT ![sync[c].account] =
                         [@ EXCEPT !.there = TRUE, !.state = "online", !.pid = sync[c].pid]]
    <3>1. Kept(entry[sync[c].account], [entry[sync[c].account] EXCEPT
                 !.there = TRUE, !.state = "online", !.pid = sync[c].pid])
      BY <1>3, <2>2, EntryFields DEF States
    <3> QED BY <1>3, <2>4, <3>1, EntryWritten
  <2>5. ASSUME NEW state \in States,
               entry' = [entry EXCEPT ![sync[c].account] =
                           [@ EXCEPT !.there = TRUE, !.state = state]]
        PROVE  entry' \in [Accounts -> Entries] /\ SameEntries
    <3>1. Kept(entry[sync[c].account], [entry[sync[c].account] EXCEPT
                 !.there = TRUE, !.state = state])
      BY <1>3, <2>2, <2>5, EntryFields
    <3> QED BY <1>3, <2>5, <3>1, EntryWritten
  <2> QED BY <2>1, <2>3, <2>4, <2>5
<1>5. sync' \in [Callers -> Syncs] /\ \A d \in Callers : SyncMoves(d)
  <2>1. CASE ExtractSucceeds(c)
    <3>1. PICK p \in Listening(sync[c].port) :
            sync' = [sync EXCEPT ![c].pc = "validating", ![c].from = p]
      BY <2>1 DEF ExtractSucceeds
    <3>2. p \in Pids
      BY <3>1 DEF Listening
    <3>3. /\ sync'[c] \in Syncs /\ sync'[c].account = sync[c].account
          /\ sync'[c].port = sync[c].port /\ sync'[c].pc = "validating" /\ sync'[c].from = p
          /\ \A d \in Callers \ {c} : sync'[d] = sync[d]
      BY <1>1, <3>1, <3>2 DEF Inv, TypeOK, Syncs
    <3> QED BY <1>1, <3>1, <3>3 DEF SyncMoves, AtItsPort, Inv, TypeOK
  <2>2. CASE sync' = [sync EXCEPT ![c] = NoSync]
    BY <2>2, NoneRunning DEF Inv, TypeOK, SyncMoves
  <2> QED BY <2>1, <2>2 DEF RunSync, ExtractFails, Validated, Raise
<1>6. TypeOK'
  BY <1>1, <1>2, <1>4, <1>5 DEF Inv, TypeOK
<1>7. SessionsAtPorts /\ \A p \in Pids : SameProcess(p)
  BY <1>1 DEF SessionsAtPorts, Inv, SessionInv, SameProcess
<1> QED BY <1>1, <1>4, <1>5, <1>6, <1>7, Calm

LEMMA FocusSessionKeeps ==
  ASSUME Inv, NEW a \in Accounts, FocusSession(a)
  PROVE  Inv'
<1>1. forced' \subseteq Accounts /\ tick' \in 0..NumAccounts /\ Running
  BY DEF FocusSession, Inv, TypeOK
<1>2. CASE /\ Attachable(a)
           /\ session' = [session EXCEPT ![a] = AttachedSession(a)]
           /\ entry' = AttachedEntry(a, "online")
           /\ UNCHANGED <<proc, launch, sync>>
  <2>1. entry' \in [Accounts -> Entries] /\ SameEntries
    BY <1>2, AttachedInRegistry DEF States
  <2>2. session' \in [Accounts -> Sessions] /\ SessionsAtPorts
    BY <1>2, SessionAttached
  <2>3. TypeOK' /\ (\A p \in Pids : SameProcess(p)) /\ (\A c \in Callers : SyncMoves(c))
    BY <1>1, <1>2, <2>1, <2>2 DEF Inv, TypeOK, SameProcess, SyncMoves
  <2> QED BY <1>2, <2>1, <2>2, <2>3, Calm
<1> QED BY <1>1, <1>2, BeginLaunchKeeps DEF FocusSession

LEMMA StopSessionKeeps ==
  ASSUME Inv, NEW a \in Accounts, StopSession(a)
  PROVE  Inv'
<1>1. /\ proc' \in Terminated(a)
      /\ session' = [session EXCEPT ![a] = NoSession]
      /\ UNCHANGED <<launch, sync, forced, tick>>
  BY DEF StopSession
<1>2. proc' \in [Pids -> Processes] /\ \A p \in Pids : SameProcess(p)
  <2>1. \/ proc' = proc
        \/ session[a].pid # NoPid /\ proc' = [proc EXCEPT ![session[a].pid].status = "dead"]
    BY <1>1 DEF Terminated
  <2>2. session[a].pid \in Pids \cup {NoPid}
    BY DEF Inv, TypeOK, Sessions
  <2> QED BY <2>1, <2>2 DEF Inv, TypeOK, Processes, SameProcess
<1>3. entry' \in [Accounts -> Entries] /\ SameEntries
  <2> DEFINE e == [entry[a] EXCEPT !.state = "offline", !.pid = NoPid]
  <2>1. CASE entry' = entry
    BY <2>1 DEF Inv, TypeOK, SameEntries
  <2>2. CASE entry' # entry
    <3>1. entry' = [entry EXCEPT ![a] = e]
      BY <2>2 DEF StopSession, Inv, TypeOK
    <3>2. Kept(entry[a], e)
      BY EntryFields DEF Inv, TypeOK, States
    <3> QED BY <3>1, <3>2, EntryWritten
  <2> QED BY <2>1, <2>2
<1>4. session' \in [Accounts -> Sessions] /\ SessionsAtPorts
  BY <1>1, NoneRunning DEF SessionsAtPorts, Inv, TypeOK, SessionInv
<1>5. TypeOK' /\ \A c \in Callers : SyncMoves(c)
  BY <1>1, <1>2, <1>3, <1>4 DEF Inv, TypeOK, SyncMoves
<1> QED BY <1>1, <1>2, <1>3, <1>4, <1>5, Calm

(* Steps that touch no more than the flags of the registry, the processes'   *)
(* status and the daemon.                                                    *)
LEMMA FlagsKeep ==
  ASSUME Inv, UNCHANGED <<session, launch, sync>>,
         proc' \in [Pids -> Processes], \A p \in Pids : SameProcess(p),
         entry' \in [Accounts -> Entries], SameEntries,
         forced' \subseteq Accounts, tick' \in 0..NumAccounts
  PROVE  Inv'
<1>1. TypeOK' /\ SessionsAtPorts /\ \A c \in Callers : SyncMoves(c)
  BY DEF SessionsAtPorts, Inv, TypeOK, SessionInv, SyncMoves
<1> QED BY <1>1, Calm

LEMMA SetAutoRefreshKeeps ==
  ASSUME Inv, NEW a \in Accounts, NEW enabled \in BOOLEAN, SetAutoRefresh(a, enabled)
  PROVE  Inv'
<1>1. entry' \in [Accounts -> Entries] /\ SameEntries
  <2> DEFINE e == [entry[a] EXCEPT !.there = TRUE, !.auto = enabled]
  <2>1. entry' = [entry EXCEPT ![a] = e]
    BY DEF SetAutoRefresh, Inv, TypeOK
  <2>2. Kept(entry[a], e)
    BY EntryFields DEF Inv, TypeOK, States
  <2> QED BY <2>1, <2>2, EntryWritten
<1> QED BY <1>1, FlagsKeep DEF SetAutoRefresh, SameProcess, Inv, TypeOK

LEMMA RequestKeeps ==
  ASSUME Inv, NEW c \in Requests, NEW a \in Accounts, Request(c, a)
  PROVE  Inv'
<1>1. /\ Running /\ c \in Callers /\ tick' \in 0..NumAccounts /\ forced' \subseteq Accounts
      /\ \E allowLaunch \in BOOLEAN : Recover(c, a, allowLaunch)
  BY DEF Request, SyncNow, Reauth, IdleCaller, Inv, TypeOK, Callers
<1> QED BY <1>1, RecoverKeeps

LEMMA RunTickKeeps ==
  ASSUME Inv, RunTick
  PROVE  Inv'
<1>1. tick \in 0..NumAccounts /\ NumAccounts \in Nat
  BY BrowsersAssumption DEF Inv, TypeOK
<1>2. tick # 0 /\ NextAccount => tick' \in 0..NumAccounts /\ tick \in Accounts
  BY <1>1 DEF NextAccount, Accounts
<1>3. CASE BeginTick
  <2>1. tick' \in 0..NumAccounts
    BY <1>1, <1>3 DEF BeginTick
  <2> QED BY <1>3, <2>1, FlagsKeep DEF BeginTick, SameProcess, SameEntries, Inv, TypeOK
<1>4. CASE SkipAccount
  BY <1>2, <1>4, FlagsKeep DEF SkipAccount, SameProcess, SameEntries, Inv, TypeOK
<1>5. CASE SyncAccount
  <2>1. Running /\ Daemon \in Callers /\ tick \in Accounts /\ tick' \in 0..NumAccounts
        /\ forced' \subseteq Accounts /\ Recover(Daemon, tick, FALSE)
    BY <1>2, <1>5 DEF SyncAccount, IdleCaller, Callers, Inv, TypeOK
  <2> QED BY <2>1, RecoverKeeps
<1> QED BY <1>3, <1>4, <1>5 DEF RunTick

-----------------------------------------------------------------------------
LEMMA BrowsersKeep ==
  ASSUME Inv, NEW p \in Pids,
         BrowserComesUp(p) \/ \E status \in {"up", "hung", "dead"} : BrowserChanges(p, status)
  PROVE  Inv'
<1>1. UNCHANGED <<entry, session, launch, sync, forced, tick>>
  BY DEF BrowserComesUp, BrowserChanges
<1>2. PICK status \in {"up", "hung", "dead"}, port \in {0, proc[p].port} :
        proc' = [proc EXCEPT ![p].status = status, ![p].port = port]
  <2>1. CASE BrowserComesUp(p)
    <3> DEFINE port == IF \E q \in Pids : /\ proc[q].status \in {"up", "hung"}
                                          /\ proc[q].port = proc[p].port
                       THEN 0 ELSE proc[p].port
    <3>1. proc' = [proc EXCEPT ![p].status = "up", ![p].port = port]
      BY <2>1 DEF BrowserComesUp, Inv, TypeOK, Processes
    <3> QED BY <3>1
  <2>2. ASSUME NEW status \in {"up", "hung", "dead"}, BrowserChanges(p, status)
        PROVE  proc' = [proc EXCEPT ![p].status = status, ![p].port = proc[p].port]
    BY <2>2 DEF BrowserChanges, Inv, TypeOK, Processes
  <2> QED BY <2>1, <2>2
<1>3. proc' \in [Pids -> Processes] /\ \A q \in Pids : SameProcess(q)
  <2> DEFINE new == [proc[p] EXCEPT !.status = status, !.port = port]
  <2>1. proc \in [Pids -> Processes] /\ proc[p] \in Processes /\ port \in Ports \cup {0}
    BY DEF Inv, TypeOK, Processes
  <2>2. /\ new \in Processes /\ new.of = proc[p].of /\ new.known = proc[p].known
        /\ new.port \in {0, proc[p].port} /\ new.status # "unused"
    BY <2>1 DEF Processes
  <2>3. proc' = [proc EXCEPT ![p] = new]
    BY <1>2, <2>1
  <2> HIDE DEF new
  <2>4. proc'[p] = new /\ \A q \in Pids \ {p} : proc'[q] = proc[q]
    BY <2>1, <2>3
  <2>5. proc' \in [Pids -> Processes]
    BY <2>1, <2>2, <2>3
  <2> QED BY <2>2, <2>4, <2>5 DEF SameProcess
<1> QED BY <1>1, <1>3, FlagsKeep DEF SameEntries, Inv, TypeOK

(* The service ends, tidily or not; browsers and the registry remain.        *)
LEMMA EndKeeps ==
  ASSUME Inv, Forgotten, proc' \in [Pids -> Processes], \A p \in Pids : SameProcess(p),
         entry' \in [Accounts -> Entries], SameEntries
  PROVE  Inv'
<1>1. TypeOK'
  BY NoneRunning, BrowsersAssumption DEF Forgotten, Inv, TypeOK
<1>2. SessionsAtPorts /\ \A c \in Callers : SyncMoves(c)
  BY NoneRunning DEF Forgotten, SessionsAtPorts, SyncMoves
<1> QED BY <1>1, <1>2, Calm DEF Forgotten

LEMMA CloseKeeps ==
  ASSUME Inv, Close
  PROVE  Inv'
<1>1. proc' \in [Pids -> Processes] /\ \A p \in Pids : SameProcess(p)
  BY DEF Close, Inv, TypeOK, Processes, SameProcess
<1>2. entry' \in [Accounts -> Entries] /\ SameEntries
  BY DEF Close, Inv, TypeOK, Entries, SameEntries
<1> QED BY <1>1, <1>2, EndKeeps DEF Close

LEMMA CrashKeeps ==
  ASSUME Inv, Crash
  PROVE  Inv'
BY EndKeeps DEF Crash, SameProcess, SameEntries, Inv, TypeOK

LEMMA InvHolds == Spec => []Inv
<1>1. Init => Inv
  <2> SUFFICES ASSUME Init PROVE Inv
    OBVIOUS
  <2>1. TypeOK
    BY NoneRunning, BrowsersAssumption DEF Init, TypeOK, Processes, Entries
  <2> QED BY <2>1, NoneRunning DEF Init, Inv, PortInv, PortsDistinct, SessionInv, KnownInv,
             SyncInv, LaunchInv, Running
<1>2. Inv /\ [Next]_vars => Inv'
  <2> SUFFICES ASSUME Inv, [Next]_vars PROVE Inv'
    OBVIOUS
  <2>1. CASE RunLaunch
    BY <2>1, LaunchSucceedsKeeps, LaunchFailsKeeps DEF RunLaunch
  <2>2. CASE UNCHANGED vars
    BY <2>2, FlagsKeep DEF vars, SameProcess, SameEntries, Inv, TypeOK
  <2> QED BY <2>1, <2>2, RunSyncKeeps, RequestKeeps, FocusSessionKeeps, StopSessionKeeps,
             SetAutoRefreshKeeps, RunTickKeeps, BrowsersKeep, CloseKeeps, CrashKeeps DEF Next
<1> QED BY <1>1, <1>2, PTL DEF Spec

-----------------------------------------------------------------------------
(* The manager's state stays within its type.                                *)
THEOREM TypeCorrect == Spec => []TypeOK
BY InvHolds, PTL DEF Inv

(* Two accounts never share a debugging port in the registry, offline ones   *)
(* and launches in progress included (_reserve_port, _port_in_use_elsewhere).*)
THEOREM PortsAreDistinct == Spec => []PortsDistinct
<1>1. Inv => PortsDistinct
  BY DEF Inv, PortInv
<1> QED BY <1>1, InvHolds, PTL

(* Cookies collected for an account are those of a browser on its profile,   *)
(* unless the browser is one whose launch a crash interrupted.               *)
THEOREM CookiesAreOwn == Spec => []CookiesFromOwnBrowser
<1>1. Inv => CookiesFromOwnBrowser
  BY DEF Inv, SyncInv, Came, CookiesFromOwnBrowser
<1> QED BY <1>1, InvHolds, PTL
=============================================================================
