-------------------------- MODULE GeminiClientProofs --------------------------
(* Proofs about GeminiClient, for any number of probes, sends and            *)
(* conversations.  Most steps have one shape: a call moves on, with or       *)
(* without a close of the client; what a call moves on to, and what becomes  *)
(* of the others, is proved once and used for every such step.               *)
EXTENDS GeminiClient, TLAPS

(* Whoever sets up a session holds the lock, and so does a refresher at      *)
(* work; only a running client has a refresher.                              *)
LockInv ==
  /\ \A r \in Requests : At(r, "token") => lock = r /\ ~running
  /\ \A r \in Requests : At(r, "setup") => lock = r
  /\ refresher = "rotating" => lock = Refresher
  /\ refresher # "none" => running

(* Nobody else holds it but a call whose set-up was refused: it comes back   *)
(* to a client that it closed itself, and that nobody can open while it has  *)
(* the lock.                                                                 *)
HolderInv ==
  /\ \A r \in Requests : lock = r =>
       \/ call[r].at \in {"token", "setup"}
       \/ call[r].at \in {"backoff", "check", "lock"} /\ ~running
  /\ lock = Refresher => refresher = "rotating"

(* A probe only probes; what streams or polls was posted, what has not begun *)
(* was not.                                                                  *)
Posted(c) ==
  /\ c.work = "poll" \/ (c.work = "generate" /\ c.at = "call") => c.target # NotPosted
  /\ c.at = "idle" => c.target = NotPosted
WorkInv ==
  \A r \in Requests : (r \in Probes => call[r].work = "probe") /\ Posted(call[r])

(* While a send is alone, the shared list names its conversation.            *)
AloneInv ==
  \A r \in alone :
    /\ \A q \in Sends : Active(q) => q = r
    /\ Given[r] # New => call[r].target \in {NotPosted, Given[r]}
    /\ Given[r] # New /\ Active(r) => metadata = Given[r]

Inv == TypeOK /\ LockInv /\ HolderInv /\ WorkInv /\ AloneInv

-----------------------------------------------------------------------------
(* The records a call moves on to are calls.                                 *)
LEMMA InitialCalls ==
  ASSUME NEW r \in Requests
  PROVE  /\ InitiallyCalled(r) \in Calls
         /\ InitiallyCalled(r).at = "idle"
         /\ InitiallyCalled(r).target = NotPosted
         /\ InitiallyCalled(r).work = IF r \in Probes THEN "probe" ELSE "activity"
BY RetriesAssumption DEF InitiallyCalled, Calls, Places, Works

LEMMA FreshCalls ==
  ASSUME TypeOK, NEW r \in Requests
  PROVE  /\ Fresh(r) \in Calls
         /\ Fresh(r).at = "idle"
         /\ Fresh(r).target = call[r].target
         /\ Fresh(r).work = IF r \in Probes THEN "probe" ELSE "activity"
BY InitialCalls DEF Fresh, TypeOK, Calls

LEMMA EndedCalls ==
  ASSUME TypeOK, NEW r \in Requests, NEW outcome \in {"answered", "failed"}
  PROVE  /\ Ended(r, outcome) \in Calls
         /\ Ended(r, outcome).at = outcome
         /\ Ended(r, outcome).target = call[r].target
         /\ Ended(r, outcome).work = IF r \in Probes THEN "probe" ELSE "activity"
BY FreshCalls DEF Ended, Calls, Places

(* A generation that is started again.                                       *)
LEMMA AgainCalls ==
  ASSUME TypeOK, NEW r \in Requests, call[r].left # 0
  PROVE  LET again == [Fresh(r) EXCEPT !.at = "backoff", !.work = "generate",
                                       !.left = call[r].left - 1]
         IN again \in Calls /\ again.at = "backoff" /\ again.work = "generate"
            /\ again.target = call[r].target
<1>1. call[r].left \in 0 .. GenerateRetries
  BY DEF TypeOK, Calls
<1>2. call[r].left - 1 \in 0 .. GenerateRetries
  BY <1>1, RetriesAssumption
<1> QED BY <1>2, FreshCalls DEF Calls, Places, Works

-----------------------------------------------------------------------------
(* What a call does to the others when it moves on to next.                  *)
Moved(r, next) ==
  /\ call' \in [Requests -> Calls]
  /\ call'[r] = next
  /\ \A q \in Requests \ {r} : /\ call'[q].at = call[q].at
                               /\ call'[q].work = call[q].work
                               /\ call'[q].target = call[q].target

LEMMA GoesMoves ==
  ASSUME TypeOK, NEW r \in Requests, NEW next \in Calls, Goes(r, next)
  PROVE  Moved(r, next)
BY DEF Goes, Moved, TypeOK

LEMMA ClosedMoves ==
  ASSUME TypeOK, NEW r \in Requests, NEW next \in Calls, Closed(r, next)
  PROVE  Moved(r, next) /\ running' = FALSE /\ refresher' = "none"
<1>1. \A q \in Requests : [call[q] EXCEPT !.cut = @ \/ InFlight(q)] \in Calls
  <2>1. TAKE q \in Requests
  <2>2. call[q] \in Calls /\ (call[q].cut \/ InFlight(q)) \in BOOLEAN
    BY DEF TypeOK, InFlight, Calls
  <2> QED BY <2>2 DEF Calls
<1>2. \A q \in Requests : /\ [call[q] EXCEPT !.cut = @ \/ InFlight(q)].at = call[q].at
                          /\ [call[q] EXCEPT !.cut = @ \/ InFlight(q)].work = call[q].work
                          /\ [call[q] EXCEPT !.cut = @ \/ InFlight(q)].target = call[q].target
  BY DEF TypeOK, Calls
<1> QED BY <1>1, <1>2 DEF Closed, Moved

(* A call that moves on, other than in the set-up, with the client closed or *)
(* left alone, keeps the lock where it has to be.                            *)
LEMMA LeavesKeepsLock ==
  ASSUME TypeOK, LockInv, HolderInv, NEW r \in Requests, NEW next \in Calls,
         NEW closing \in BOOLEAN, Leaves(r, next, closing),
         lock = r => next.at \in {"backoff", "check", "lock"} /\ (closing \/ ~running)
  PROVE  /\ Moved(r, next)
         /\ running' \in BOOLEAN /\ lock' \in Owners
         /\ refresher' \in {"none", "sleeping", "waiting", "rotating"}
         /\ HolderInv'
         /\ next.at \notin {"token", "setup"} => LockInv'
<1>1. CASE closing
  <2>1. Closed(r, next) /\ lock' = ReleasedByClose
    BY <1>1 DEF Leaves
  <2>2. Moved(r, next) /\ running' = FALSE /\ refresher' = "none"
    BY <2>1, ClosedMoves
  <2>3. lock' \in {lock, Nobody} /\ (lock # Refresher => lock' = lock)
    BY <2>1 DEF ReleasedByClose
  <2>4. next.at \notin {"token", "setup"} => LockInv'
    BY <2>2, <2>3, CallsAssumption DEF LockInv, Moved, At
  <2>5. HolderInv'
    <3>1. lock' # Refresher
      BY <2>1, CallsAssumption DEF ReleasedByClose
    <3>2. ASSUME NEW q \in Requests, lock' = q
          PROVE  \/ call'[q].at \in {"token", "setup"}
                 \/ call'[q].at \in {"backoff", "check", "lock"} /\ ~running'
      <4>1. lock = q
        BY <2>3, <3>2, CallsAssumption
      <4>2. CASE q = r
        BY <2>2, <4>1, <4>2 DEF Moved
      <4>3. CASE q # r
        BY <2>2, <4>1, <4>3 DEF Moved, HolderInv
      <4> QED BY <4>2, <4>3
    <3> QED BY <3>1, <3>2 DEF HolderInv
  <2> QED BY <2>2, <2>3, <2>4, <2>5 DEF TypeOK, Owners
<1>2. CASE ~closing
  <2>1. Goes(r, next) /\ running' = running /\ refresher' = refresher /\ lock' = lock
    BY <1>2 DEF Leaves, Untouched
  <2>2. Moved(r, next)
    BY <2>1, GoesMoves
  <2>3. next.at \notin {"token", "setup"} => LockInv'
    BY <2>1, <2>2 DEF LockInv, Moved, At
  <2>4. HolderInv'
    <3>1. ASSUME NEW q \in Requests, lock' = q
          PROVE  \/ call'[q].at \in {"token", "setup"}
                 \/ call'[q].at \in {"backoff", "check", "lock"} /\ ~running'
      <4>1. lock = q
        BY <2>1, <3>1
      <4>2. CASE q = r
        BY <1>2, <2>1, <2>2, <4>1, <4>2 DEF Moved
      <4>3. CASE q # r
        BY <2>1, <2>2, <4>1, <4>3 DEF Moved, HolderInv
      <4> QED BY <4>2, <4>3
    <3> QED BY <2>1, <3>1 DEF HolderInv
  <2> QED BY <2>1, <2>2, <2>3, <2>4 DEF TypeOK
<1> QED BY <1>1, <1>2

-----------------------------------------------------------------------------
(* What every step of a call that is under way does to the ids: it posts to  *)
(* the conversation in the list or to the one it has posted to before, and   *)
(* puts nothing into the list but the conversation it has posted to.         *)
Turn(r, next) ==
  /\ Active(r)
  /\ Moved(r, next)
  /\ r \in Probes => next.work = "probe"
  /\ Posted(next)
  /\ next.target \in {call[r].target, metadata}
  /\ \/ metadata' = metadata
     \/ r \notin Probes /\ call[r].target # NotPosted
                       /\ metadata' \in {call[r].target, ConversationOf(r)}
  /\ alone' = alone

LEMMA TurnKeepsConversations ==
  ASSUME Inv, NEW r \in Requests, NEW next \in Calls, Turn(r, next)
  PROVE  /\ metadata' \in Ids /\ alone' \subseteq Sends
         /\ call' \in [Requests -> Calls]
         /\ WorkInv' /\ AloneInv'
<1>1. metadata' \in Ids /\ alone' \subseteq Sends /\ call' \in [Requests -> Calls]
  <2>1. call[r].target # NotPosted => call[r].target \in Ids
    BY DEF Inv, TypeOK, Calls
  <2> QED BY <2>1 DEF Turn, Moved, Inv, TypeOK, ConversationOf, Ids, Requests
<1>2. WorkInv'
  BY DEF Turn, Moved, Inv, WorkInv, Posted
<1>3. AloneInv'
  <2> SUFFICES ASSUME NEW s \in alone
               PROVE  /\ \A q \in Sends : Active(q)' => q = s
                      /\ Given[s] # New => call'[s].target \in {NotPosted, Given[s]}
                      /\ Given[s] # New /\ Active(s)' => metadata' = Given[s]
    BY DEF AloneInv, Turn
  <2>1. s \in Sends /\ s \in Requests
    BY DEF Inv, TypeOK, Requests
  <2>2. \A q \in Sends : Active(q) => q = s
    BY DEF Inv, AloneInv
  <2>3. \A q \in Requests : Active(q)' => Active(q)
    BY DEF Turn, Moved, Active
  <2>4. \A q \in Sends : Active(q)' => q = s
    BY <2>2, <2>3 DEF Requests
  <2>5. Given[s] # New => call'[s].target \in {NotPosted, Given[s]}
    BY <2>1 DEF Turn, Moved, Inv, AloneInv
  <2>6. ASSUME Given[s] # New, Active(s)' PROVE metadata' = Given[s]
    <3>1. metadata = Given[s]
      BY <2>1, <2>3, <2>6 DEF Inv, AloneInv
    <3>2. CASE metadata' = metadata
      BY <3>1, <3>2
    <3>3. CASE r \notin Probes /\ call[r].target # NotPosted
               /\ metadata' \in {call[r].target, ConversationOf(r)}
      <4>1. r = s
        BY <2>2, <3>3 DEF Turn, Requests
      <4>2. call[r].target = Given[s]
        BY <4>1, <3>3, <2>6 DEF Inv, AloneInv
      <4> QED BY <4>2, <3>3, <2>6 DEF ConversationOf
    <3> QED BY <3>2, <3>3 DEF Turn
  <2> QED BY <2>4, <2>5, <2>6
<1> QED BY <1>1, <1>2, <1>3

(* What a call goes on to once the client runs.                              *)
LEMMA ProceedingCalls ==
  ASSUME Inv, NEW r \in Requests
  PROVE  /\ Proceeding(r) \in Calls
         /\ Proceeding(r).at \in {"answered", "call"}
         /\ r \in Probes => Proceeding(r).work = "probe"
         /\ Posted(Proceeding(r))
         /\ Proceeding(r).target \in {call[r].target, metadata}
<1>1. call[r] \in Calls /\ metadata \in Ids /\ TypeOK
  BY DEF Inv, TypeOK
<1>2. CASE call[r].work = "probe"
  <2>1. Proceeding(r) = Ended(r, "answered")
    BY <1>2 DEF Proceeding
  <2>2. \/ Ended(r, "answered").work = "probe"
        \/ Ended(r, "answered").work = "activity" /\ r \notin Probes
    BY <1>1, EndedCalls
  <2> QED BY <2>1, <2>2, <1>1, EndedCalls DEF Posted
<1>3. CASE call[r].work = "generate"
  <2>1. Proceeding(r) = [call[r] EXCEPT !.at = "call", !.target = metadata]
    BY <1>3 DEF Proceeding
  <2>2. r \notin Probes
    BY <1>3 DEF Inv, WorkInv
  <2>3. metadata # NotPosted
    BY <1>1, CallsAssumption
  <2> QED BY <2>1, <2>2, <2>3, <1>1 DEF Posted, Calls, Places
<1>4. CASE call[r].work \notin {"probe", "generate"}
  <2>1. Proceeding(r) = [call[r] EXCEPT !.at = "call"]
    BY <1>4 DEF Proceeding
  <2>2. Posted(call[r]) /\ (r \in Probes => call[r].work = "probe")
    BY DEF Inv, WorkInv
  <2> QED BY <2>1, <2>2, <1>1, <1>4 DEF Posted, Calls, Places
<1> QED BY <1>2, <1>3, <1>4

(* A step that is both, the shape of nearly all of them, keeps everything.   *)
LEMMA LeavingTurn ==
  ASSUME Inv, NEW r \in Requests, NEW next \in Calls, NEW closing \in BOOLEAN,
         Leaves(r, next, closing), Moved(r, next) => Turn(r, next),
         next.at \notin {"token", "setup"},
         lock = r => next.at \in {"backoff", "check", "lock"} /\ (closing \/ ~running)
  PROVE  Inv'
<1>1. TypeOK /\ LockInv /\ HolderInv
  BY DEF Inv
<1>2. /\ Moved(r, next) /\ LockInv' /\ HolderInv'
      /\ running' \in BOOLEAN /\ lock' \in Owners
      /\ refresher' \in {"none", "sleeping", "waiting", "rotating"}
  BY <1>1, LeavesKeepsLock
<1>3. /\ metadata' \in Ids /\ alone' \subseteq Sends
      /\ call' \in [Requests -> Calls] /\ WorkInv' /\ AloneInv'
  BY <1>2, TurnKeepsConversations
<1> QED BY <1>2, <1>3 DEF Inv, TypeOK

(* The special case of a step that leaves the client alone.                  *)
LEMMA GoingTurn ==
  ASSUME Inv, NEW r \in Requests, NEW next \in Calls,
         Goes(r, next), UNCHANGED <<running, lock, refresher>>,
         Moved(r, next) => Turn(r, next),
         next.at \notin {"token", "setup"},
         lock = r => next.at \in {"backoff", "check", "lock"} /\ ~running
  PROVE  Inv'
<1>1. Leaves(r, next, FALSE)
  BY DEF Leaves, Untouched
<1> QED BY <1>1, LeavingTurn

(* A call that has not begun, or that is past its set-up, has no lock.       *)
LEMMA HasNoLock ==
  ASSUME Inv, NEW r \in Requests, At(r, "call") \/ At(r, "idle")
  PROVE  lock # r
BY DEF Inv, HolderInv, At

-----------------------------------------------------------------------------
(* Starting a call.                                                          *)
LEMMA StartProbeKeeps ==
  ASSUME Inv, NEW r \in Requests, StartProbe(r)
  PROVE  Inv'
<1> DEFINE next == [call[r] EXCEPT !.at = "lock"]
<1>1. call[r] \in Calls /\ r \in Probes /\ r \notin Sends
      /\ TypeOK /\ LockInv /\ HolderInv /\ lock # r
  BY HasNoLock, CallsAssumption DEF Inv, TypeOK, StartProbe
<1>2. next \in Calls /\ next.at = "lock" /\ next.work = call[r].work
      /\ next.target = call[r].target
  BY <1>1 DEF Calls, Places
<1>3. Goes(r, next) /\ UNCHANGED <<running, lock, refresher, metadata, alone>>
  BY DEF StartProbe
<1>4. Moved(r, next)
  BY <1>1, <1>2, <1>3, GoesMoves
<1>5. Leaves(r, next, FALSE)
  BY <1>3 DEF Leaves, Untouched
<1>6. LockInv' /\ HolderInv'
  BY <1>1, <1>2, <1>5, LeavesKeepsLock
<1>7. WorkInv'
  <2>1. Posted(call[r]) /\ (r \in Probes => call[r].work = "probe")
    BY DEF Inv, WorkInv
  <2>2. Posted(next) /\ (r \in Probes => next.work = "probe")
    BY <1>2, <2>1 DEF Posted
  <2>3. \A q \in Requests \ {r} : Posted(call[q]) <=> Posted(call'[q])
    BY <1>4 DEF Moved, Posted
  <2> QED BY <1>4, <2>2, <2>3 DEF Moved, Inv, WorkInv
<1>8. AloneInv'
  BY <1>1, <1>2, <1>3, <1>4 DEF Moved, Inv, TypeOK, AloneInv, Active, Requests
<1>9. TypeOK'
  BY <1>1, <1>3, <1>4 DEF TypeOK, Moved
<1> QED BY <1>6, <1>7, <1>8, <1>9 DEF Inv

(* A send that starts is alone if no other is under way, and then nobody     *)
(* else will write the ids it has put into the list.                         *)
LEMMA StartSendKeeps ==
  ASSUME Inv, NEW r \in Requests, StartSend(r)
  PROVE  Inv'
<1> DEFINE next == [call[r] EXCEPT !.at = "check"]
<1>1. call[r] \in Calls /\ r \in Sends /\ r \notin Probes /\ ~Active(r)
      /\ TypeOK /\ LockInv /\ HolderInv /\ lock # r
  BY HasNoLock, CallsAssumption DEF Inv, TypeOK, StartSend, Active, At
<1>2. next \in Calls /\ next.at = "check" /\ next.work = call[r].work
      /\ next.target = call[r].target
  BY <1>1 DEF Calls, Places
<1>3. /\ Goes(r, next) /\ UNCHANGED <<running, lock, refresher>>
      /\ StartChat(r)
      /\ alone' = IF \E q \in Sends : Active(q) THEN {} ELSE {r}
  BY DEF StartSend
<1>4. Moved(r, next)
  BY <1>1, <1>2, <1>3, GoesMoves
<1>5. Leaves(r, next, FALSE)
  BY <1>3 DEF Leaves, Untouched
<1>6. LockInv' /\ HolderInv'
  BY <1>1, <1>2, <1>5, LeavesKeepsLock
<1>7. WorkInv'
  <2>1. Posted(call[r]) /\ (r \in Probes => call[r].work = "probe")
    BY DEF Inv, WorkInv
  <2>2. Posted(next) /\ (r \in Probes => next.work = "probe")
    BY <1>2, <2>1 DEF Posted
  <2>3. \A q \in Requests \ {r} : Posted(call[q]) <=> Posted(call'[q])
    BY <1>4 DEF Moved, Posted
  <2> QED BY <1>4, <2>2, <2>3 DEF Moved, Inv, WorkInv
<1>8. call[r].target = NotPosted
  BY DEF StartSend, At, Inv, WorkInv, Posted
<1>9. AloneInv'
  <2> SUFFICES ASSUME NEW s \in alone'
               PROVE  /\ \A q \in Sends : Active(q)' => q = s
                      /\ Given[s] # New => call'[s].target \in {NotPosted, Given[s]}
                      /\ Given[s] # New /\ Active(s)' => metadata' = Given[s]
    BY DEF AloneInv
  <2>1. s = r /\ \A q \in Sends : ~Active(q)
    BY <1>3
  <2>2. \A q \in Sends : Active(q)' => q = r
    BY <2>1, <1>4 DEF Moved, Active, Requests
  <2>3. call'[r].target = NotPosted
    BY <1>2, <1>4, <1>8 DEF Moved
  <2> QED BY <2>1, <2>2, <2>3, <1>3 DEF StartChat
<1>10. TypeOK'
  BY <1>1, <1>3, <1>4, CallsAssumption DEF TypeOK, Moved, StartChat, Ids
<1> QED BY <1>6, <1>7, <1>9, <1>10 DEF Inv

-----------------------------------------------------------------------------
(* The set-up.  A call that has been given the lock fetches a token only if  *)
(* the client is still closed.                                               *)
LEMMA CheckKeeps ==
  ASSUME Inv, NEW r \in Requests, Check(r)
  PROVE  Inv'
<1>1. call[r] \in Calls /\ TypeOK /\ Active(r)
      /\ (r \in Probes => call[r].work = "probe") /\ Posted(call[r])
  BY DEF Inv, TypeOK, WorkInv, Check, Active, At
<1>2. UNCHANGED <<running, lock, refresher, metadata, alone>>
  BY DEF Check
<1>3. CASE running
  <2>1. Goes(r, Proceeding(r))
    BY <1>3 DEF Check
  <2>2. Moved(r, Proceeding(r)) => Turn(r, Proceeding(r))
    BY <1>1, <1>2, ProceedingCalls DEF Turn
  <2>3. lock # r
    BY <1>3 DEF Inv, HolderInv, Check, At
  <2> HIDE DEF Proceeding
  <2> QED BY <1>2, <2>1, <2>2, <2>3, ProceedingCalls, GoingTurn
<1>4. CASE ~running
  <2> DEFINE next == [call[r] EXCEPT !.at = "lock"]
  <2>1. Goes(r, next)
    BY <1>4 DEF Check
  <2>2. next \in Calls /\ next.at = "lock" /\ next.work = call[r].work
        /\ next.target = call[r].target
    BY <1>1 DEF Calls, Places
  <2>3. Posted(next)
    BY <1>1, <2>2 DEF Posted
  <2> HIDE DEF next
  <2>4. Moved(r, next) => Turn(r, next)
    BY <1>1, <1>2, <2>2, <2>3 DEF Turn
  <2> QED BY <1>2, <1>4, <2>1, <2>2, <2>4, GoingTurn
<1> QED BY <1>3, <1>4

(* A step into the set-up, where the lock is held.                           *)
LEMMA SettingUp ==
  ASSUME Inv, NEW r \in Requests, NEW place \in {"token", "setup"},
         Active(r),
         Goes(r, [call[r] EXCEPT !.at = place]),
         metadata' = metadata, alone' = alone,
         lock' = r, running' \in BOOLEAN,
         place = "token" => running' = FALSE,
         refresher' \in {"none", "sleeping", "waiting"},
         refresher' # "none" => running',
         \A q \in Requests \ {r} : call[q].at \notin {"token", "setup"}
  PROVE  Inv'
<1> DEFINE next == [call[r] EXCEPT !.at = place]
<1>1. call[r] \in Calls /\ TypeOK
      /\ (r \in Probes => call[r].work = "probe") /\ Posted(call[r])
  BY DEF Inv, TypeOK, WorkInv
<1>2. next \in Calls /\ next.at = place /\ next.work = call[r].work
      /\ next.target = call[r].target
  BY <1>1 DEF Calls, Places
<1>3. Posted(next)
  BY <1>1, <1>2 DEF Posted
<1> HIDE DEF next
<1>4. Moved(r, next)
  BY <1>1, <1>2, GoesMoves DEF next
<1>5. Turn(r, next)
  BY <1>1, <1>2, <1>3, <1>4 DEF Turn
<1>6. /\ metadata' \in Ids /\ alone' \subseteq Sends
      /\ call' \in [Requests -> Calls] /\ WorkInv' /\ AloneInv'
  BY <1>2, <1>5, TurnKeepsConversations
<1>7. LockInv' /\ HolderInv'
  <2>1. LockInv'
    BY <1>2, <1>4 DEF LockInv, Moved, At
  <2>2. HolderInv'
    BY <1>2, <1>4, CallsAssumption DEF HolderInv, Moved
  <2> QED BY <2>1, <2>2
<1> QED BY <1>6, <1>7 DEF Inv, TypeOK, Owners

LEMMA TakeLockKeeps ==
  ASSUME Inv, NEW r \in Requests, TakeLock(r)
  PROVE  Inv'
<1>1. TypeOK /\ LockInv /\ Active(r) /\ lock = Nobody
  BY DEF Inv, TakeLock, Active, At
<1>2. UNCHANGED <<running, refresher, metadata, alone>>
  BY DEF TakeLock
<1>3. CASE running
  <2>1. Goes(r, Proceeding(r)) /\ lock' = lock
    BY <1>3 DEF TakeLock
  <2>2. Moved(r, Proceeding(r)) => Turn(r, Proceeding(r))
    BY <1>1, <1>2, ProceedingCalls DEF Turn
  <2>3. lock # r
    BY <1>1, CallsAssumption
  <2> QED BY <1>2, <2>1, <2>2, <2>3, ProceedingCalls, GoingTurn
<1>4. CASE ~running
  <2>1. Goes(r, [call[r] EXCEPT !.at = "token"]) /\ lock' = r
    BY <1>4 DEF TakeLock
  <2>2. \A q \in Requests : call[q].at \notin {"token", "setup"}
    BY <1>1, CallsAssumption DEF LockInv, At
  <2>3. running' = FALSE /\ refresher' = "none"
    BY <1>1, <1>2, <1>4 DEF LockInv, TypeOK
  <2> QED BY <1>1, <1>2, <2>1, <2>2, <2>3, SettingUp
<1> QED BY <1>3, <1>4

LEMMA GetAccessTokenKeeps ==
  ASSUME Inv, NEW r \in Requests, GetAccessToken(r)
  PROVE  Inv'
<1>1. TypeOK /\ LockInv /\ Active(r) /\ lock = r
  BY DEF Inv, LockInv, GetAccessToken, Active, At
<1>2. \A q \in Requests \ {r} : call[q].at \notin {"token", "setup"}
  BY <1>1 DEF LockInv, At
<1> QED BY <1>1, <1>2, SettingUp DEF GetAccessToken

(* A step out of the set-up, by whoever holds the lock.                      *)
LEMMA ReleasingTurn ==
  ASSUME Inv, NEW r \in Requests, NEW next \in Calls,
         (Goes(r, next) /\ Untouched) \/ Closed(r, next),
         lock = r, lock' = Nobody,
         Moved(r, next) => Turn(r, next),
         next.at \notin {"token", "setup"}
  PROVE  Inv'
<1>1. TypeOK /\ LockInv
  BY DEF Inv
<1>2. Moved(r, next)
  BY <1>1, GoesMoves, ClosedMoves
<1>3. /\ metadata' \in Ids /\ alone' \subseteq Sends
      /\ call' \in [Requests -> Calls] /\ WorkInv' /\ AloneInv'
  BY <1>2, TurnKeepsConversations
<1>4. \A q \in Requests : call'[q].at \notin {"token", "setup"}
  BY <1>1, <1>2 DEF LockInv, Moved, At
<1>5. refresher # "rotating"
  BY <1>1, CallsAssumption DEF LockInv
<1>6. \/ running' = running /\ refresher' = refresher
      \/ running' = FALSE /\ refresher' = "none"
  BY DEF Untouched, Closed
<1>7. LockInv' /\ HolderInv'
  <2>1. LockInv'
    BY <1>1, <1>4, <1>5, <1>6 DEF LockInv, At
  <2>2. HolderInv'
    BY CallsAssumption DEF HolderInv
  <2> QED BY <2>1, <2>2
<1> QED BY <1>1, <1>3, <1>6, <1>7 DEF Inv, TypeOK, Owners

LEMMA InitRpcKeeps ==
  ASSUME Inv, NEW r \in Requests, InitRpc(r)
  PROVE  Inv'
<1>1. lock = r /\ Active(r)
  BY DEF Inv, LockInv, InitRpc, Active, At
<1>2. Moved(r, Proceeding(r)) => Turn(r, Proceeding(r))
  BY <1>1, ProceedingCalls DEF Turn, InitRpc
<1> QED BY <1>1, <1>2, ProceedingCalls, ReleasingTurn DEF InitRpc, Untouched

(* A call that ends keeps its ids, and its kind of work starts afresh.       *)
LEMMA EndedPosted ==
  ASSUME Inv, NEW r \in Requests, NEW outcome \in {"answered", "failed"}
  PROVE  /\ Ended(r, outcome) \in Calls
         /\ Ended(r, outcome).at = outcome
         /\ r \in Probes => Ended(r, outcome).work = "probe"
         /\ Posted(Ended(r, outcome))
         /\ Ended(r, outcome).target = call[r].target
<1>1. TypeOK
  BY DEF Inv
<1>2. Ended(r, outcome).work \in {"probe", "activity"}
  BY <1>1, EndedCalls
<1> QED BY <1>1, <1>2, EndedCalls DEF Posted

LEMMA InitFailsKeeps ==
  ASSUME Inv, NEW r \in Requests, InitFails(r)
  PROVE  Inv'
<1>1. lock = r /\ Active(r)
  BY DEF Inv, LockInv, InitFails, Active, At
<1>2. Moved(r, Ended(r, "failed")) => Turn(r, Ended(r, "failed"))
  BY <1>1, EndedPosted DEF Turn, InitFails
<1> QED BY <1>1, <1>2, EndedPosted, ReleasingTurn DEF InitFails

(* A call moves to another place, with the same work.                        *)
LEMMA MovesTo ==
  ASSUME Inv, NEW r \in Requests, NEW place \in {"backoff", "check", "lock"},
         NEW next \in Calls, next.at = place, next.work = call[r].work,
         next.target = call[r].target,
         Active(r), UNCHANGED <<metadata, alone>>
  PROVE  Moved(r, next) => Turn(r, next)
<1>1. (r \in Probes => call[r].work = "probe") /\ Posted(call[r])
  BY DEF Inv, WorkInv
<1>2. Posted(next)
  BY <1>1 DEF Posted
<1> QED BY <1>1, <1>2 DEF Turn

LEMMA InitRpcRefusedKeeps ==
  ASSUME Inv, NEW r \in Requests, InitRpcRefused(r)
  PROVE  Inv'
<1> DEFINE next == [call[r] EXCEPT !.at = "backoff"]
<1>1. lock = r /\ Active(r) /\ call[r] \in Calls
  BY DEF Inv, TypeOK, LockInv, InitRpcRefused, Active, At
<1>2. next \in Calls /\ next.at = "backoff" /\ next.work = call[r].work
      /\ next.target = call[r].target
  BY <1>1 DEF Calls, Places
<1>3. Closed(r, next) /\ lock' = lock /\ UNCHANGED <<metadata, alone>>
  BY DEF InitRpcRefused
<1> HIDE DEF next
<1>4. Moved(r, next) => Turn(r, next)
  BY <1>1, <1>2, <1>3, MovesTo
<1>5. lock # Refresher
  BY <1>1, CallsAssumption
<1>6. Leaves(r, next, TRUE)
  BY <1>3, <1>5 DEF Leaves, ReleasedByClose
<1> QED BY <1>2, <1>4, <1>6, LeavingTurn

LEMMA InitRpcFindsClosedKeeps ==
  ASSUME Inv, NEW r \in Requests, InitRpcFindsClosed(r)
  PROVE  Inv'
<1> DEFINE next == [call[r] EXCEPT !.at = "lock", !.cut = FALSE]
<1>1. Active(r) /\ ~running /\ call[r] \in Calls
  BY DEF Inv, TypeOK, InitRpcFindsClosed, Active, At
<1>2. next \in Calls /\ next.at = "lock" /\ next.work = call[r].work
      /\ next.target = call[r].target
  BY <1>1 DEF Calls, Places
<1>3. Goes(r, next) /\ UNCHANGED <<running, lock, refresher, metadata, alone>>
  BY DEF InitRpcFindsClosed
<1> HIDE DEF next
<1>4. Moved(r, next) => Turn(r, next)
  BY <1>1, <1>2, <1>3, MovesTo
<1> QED BY <1>1, <1>2, <1>3, <1>4, GoingTurn

LEMMA RetryKeeps ==
  ASSUME Inv, NEW r \in Requests, Retry(r)
  PROVE  Inv'
<1> DEFINE next == [call[r] EXCEPT !.at = "check"]
<1>1. Active(r) /\ call[r] \in Calls
  BY DEF Inv, TypeOK, Retry, Active, At
<1>2. next \in Calls /\ next.at = "check" /\ next.work = call[r].work
      /\ next.target = call[r].target
  BY <1>1 DEF Calls, Places
<1>3. Goes(r, next) /\ UNCHANGED <<running, lock, refresher, metadata, alone>>
  BY DEF Retry
<1>4. lock = r => ~running
  BY DEF Inv, HolderInv, Retry, At
<1> HIDE DEF next
<1>5. Moved(r, next) => Turn(r, next)
  BY <1>1, <1>2, <1>3, MovesTo
<1> QED BY <1>2, <1>3, <1>4, <1>5, GoingTurn

-----------------------------------------------------------------------------
(* A generation or a poll that raises: it has been posted, and either puts   *)
(* its own ids back into the list or leaves the list alone.                  *)
LEMMA Posts ==
  ASSUME Inv, NEW r \in Requests, Streaming(r) \/ Polling(r)
  PROVE  /\ Active(r) /\ r \notin Probes /\ call[r].target # NotPosted
         /\ call[r] \in Calls /\ lock # r
BY HasNoLock DEF Inv, TypeOK, WorkInv, Posted, Streaming, Polling, Generation, Active, At

LEMMA GenerateRaisesKeeps ==
  ASSUME Inv, NEW r \in Requests, NEW closing \in BOOLEAN,
         Streaming(r) \/ Polling(r), GenerateRaises(r, closing)
  PROVE  Inv'
<1>1. /\ Active(r) /\ r \notin Probes /\ call[r].target # NotPosted
      /\ call[r] \in Calls /\ TypeOK /\ lock # r
  BY Posts DEF Inv
<1>2. metadata' \in {metadata, call[r].target} /\ alone' = alone
  BY DEF GenerateRaises, PutBack
<1>3. CASE call[r].left = 0
  <2>1. Leaves(r, Ended(r, "failed"), closing)
    BY <1>3 DEF GenerateRaises
  <2>2. Moved(r, Ended(r, "failed")) => Turn(r, Ended(r, "failed"))
    BY <1>1, <1>2, EndedPosted DEF Turn
  <2> QED BY <1>1, <2>1, <2>2, EndedPosted, LeavingTurn
<1>4. CASE call[r].left # 0
  <2> DEFINE again == [Fresh(r) EXCEPT !.at = "backoff", !.work = "generate",
                                       !.left = call[r].left - 1]
  <2>1. Leaves(r, again, closing)
    BY <1>4 DEF GenerateRaises
  <2>2. again \in Calls /\ again.at = "backoff" /\ again.work = "generate"
        /\ again.target = call[r].target
    BY <1>1, <1>4, AgainCalls
  <2> HIDE DEF again
  <2>3. Posted(again)
    BY <1>1, <2>2 DEF Posted
  <2>4. Moved(r, again) => Turn(r, again)
    BY <1>1, <1>2, <2>2, <2>3 DEF Turn
  <2> QED BY <1>1, <2>1, <2>2, <2>4, LeavingTurn
<1> QED BY <1>3, <1>4

(* A call ends without an answer.                                            *)
LEMMA EndsFailed ==
  ASSUME Inv, NEW r \in Requests, Active(r), lock # r, NEW closing \in BOOLEAN,
         Leaves(r, Ended(r, "failed"), closing), alone' = alone,
         \/ metadata' = metadata
         \/ (Streaming(r) \/ Polling(r)) /\ metadata' = call[r].target
  PROVE  Inv'
<1>1. Moved(r, Ended(r, "failed")) => Turn(r, Ended(r, "failed"))
  BY Posts, EndedPosted DEF Turn
<1> QED BY <1>1, EndedPosted, LeavingTurn

LEMMA BatchExecuteKeeps ==
  ASSUME Inv, NEW r \in Requests, BatchExecute(r)
  PROVE  Inv'
<1>1. call[r] \in Calls /\ Active(r) /\ lock # r
      /\ (r \in Probes => call[r].work = "probe") /\ Posted(call[r])
  BY HasNoLock DEF Inv, TypeOK, WorkInv, BatchExecute, SendBardActivity, RpcRefused,
         RpcPending, RpcFails, Active, At
<1>2. CASE SendBardActivity(r)
  <2> DEFINE next == [call[r] EXCEPT !.at = "check", !.work = "generate",
                                     !.rpcLeft = ActivityRetries]
  <2>1. Goes(r, next) /\ UNCHANGED <<running, lock, refresher, metadata, alone>>
    BY <1>2 DEF SendBardActivity
  <2>2. next \in Calls /\ next.at = "check" /\ next.work = "generate"
        /\ next.target = call[r].target
    <3>1. ActivityRetries \in 0 .. ActivityRetries
      BY RetriesAssumption
    <3> QED BY <1>1, <3>1 DEF Calls, Places, Works
  <2> HIDE DEF next
  <2>3. r \notin Probes
    BY <1>1, <1>2 DEF SendBardActivity
  <2>4. Posted(next)
    BY <1>1, <2>2 DEF Posted
  <2>5. Moved(r, next) => Turn(r, next)
    BY <1>1, <2>1, <2>2, <2>3, <2>4 DEF Turn
  <2> QED BY <1>1, <2>1, <2>2, <2>5, GoingTurn
<1>3. CASE RpcRefused(r)
  <2>1. CASE /\ call[r].rpcLeft > 0
             /\ Leaves(r, [call[r] EXCEPT !.at = "backoff", !.rpcLeft = @ - 1], TRUE)
             /\ UNCHANGED <<metadata, alone>>
    <3> DEFINE next == [call[r] EXCEPT !.at = "backoff", !.rpcLeft = @ - 1]
    <3>1. call[r].rpcLeft - 1 \in 0 .. ActivityRetries
      BY <1>1, <2>1, RetriesAssumption DEF Calls
    <3>2. next \in Calls /\ next.at = "backoff" /\ next.work = call[r].work
          /\ next.target = call[r].target
      BY <1>1, <3>1 DEF Calls, Places
    <3>3. Leaves(r, next, TRUE)
      BY <2>1
    <3> HIDE DEF next
    <3>4. Moved(r, next) => Turn(r, next)
      BY <1>1, <2>1, <3>2, MovesTo
    <3> QED BY <1>1, <3>2, <3>3, <3>4, LeavingTurn
  <2>2. CASE Leaves(r, Ended(r, "failed"), TRUE) /\ UNCHANGED <<metadata, alone>>
    BY <1>1, <2>2, EndsFailed
  <2>3. CASE call[r].work = "poll" /\ GenerateRaises(r, TRUE)
    <3>1. Polling(r)
      BY <1>3, <2>3 DEF RpcRefused, RpcPending, Polling
    <3> QED BY <2>3, <3>1, GenerateRaisesKeeps
  <2> QED BY <1>3, <2>1, <2>2, <2>3 DEF RpcRefused
<1>4. CASE RpcFails(r)
  BY <1>1, <1>4, EndsFailed DEF RpcFails
<1> QED BY <1>2, <1>3, <1>4 DEF BatchExecute

-----------------------------------------------------------------------------
(* The generation.                                                           *)
LEMMA GenerateKeeps ==
  ASSUME Inv, NEW r \in Requests, Generate(r)
  PROVE  Inv'
<1>1. /\ Active(r) /\ r \notin Probes /\ call[r].target # NotPosted
      /\ call[r] \in Calls /\ Streaming(r) /\ lock # r
  BY Posts DEF Generate, Completes, FatalCode, ReadTimesOut, ProcessPart,
               StreamFails, Recover
<1>2. CASE Completes(r)
  <2>1. Moved(r, Ended(r, "answered")) => Turn(r, Ended(r, "answered"))
    BY <1>1, <1>2, EndedPosted DEF Turn, Completes
  <2> QED BY <1>1, <1>2, <2>1, EndedPosted, GoingTurn DEF Completes
<1>3. CASE FatalCode(r)
  BY <1>1, <1>3, EndsFailed DEF FatalCode, PutBack
<1>4. CASE ReadTimesOut(r)
  BY <1>1, <1>4, EndsFailed DEF ReadTimesOut
<1>5. ASSUME NEW text \in BOOLEAN, ProcessPart(r, text) PROVE Inv'
  <2> DEFINE next == [call[r] EXCEPT !.said = @ \/ text]
  <2>1. Goes(r, next) /\ UNCHANGED <<running, lock, refresher, alone>>
        /\ metadata' = ConversationOf(r)
    BY <1>5 DEF ProcessPart
  <2>2. next \in Calls /\ next.at = "call" /\ next.work = call[r].work
        /\ next.target = call[r].target
    <3>1. (call[r].said \/ text) \in BOOLEAN
      OBVIOUS
    <3> QED BY <1>1, <3>1 DEF Calls, Streaming, At
  <2> HIDE DEF next
  <2>3. Posted(next)
    BY <1>1, <2>2 DEF Posted
  <2>4. Moved(r, next) => Turn(r, next)
    BY <1>1, <2>1, <2>2, <2>3 DEF Turn
  <2> QED BY <1>1, <2>1, <2>2, <2>4, GoingTurn
<1>6. ASSUME NEW closing \in BOOLEAN, StreamFails(r, closing) PROVE Inv'
  BY <1>6, GenerateRaisesKeeps DEF StreamFails
<1>7. ASSUME NEW closing \in BOOLEAN, Recover(r, closing) PROVE Inv'
  <2> DEFINE next == [call[r] EXCEPT !.at = "check", !.work = "poll",
                                     !.cut = FALSE, !.rpcLeft = ActivityRetries]
  <2>1. Leaves(r, next, closing) /\ UNCHANGED <<metadata, alone>>
    BY <1>7 DEF Recover
  <2>2. next \in Calls /\ next.at = "check" /\ next.target = call[r].target
    <3>1. ActivityRetries \in 0 .. ActivityRetries
      BY RetriesAssumption
    <3> QED BY <1>1, <3>1 DEF Calls, Places, Works
  <2> HIDE DEF next
  <2>3. Posted(next)
    BY <1>1, <2>2 DEF Posted
  <2>4. Moved(r, next) => Turn(r, next)
    BY <1>1, <2>1, <2>2, <2>3 DEF Turn
  <2> QED BY <1>1, <2>1, <2>2, <2>4, LeavingTurn
<1> QED BY <1>2, <1>3, <1>4, <1>5, <1>6, <1>7 DEF Generate

(* The recovery.                                                             *)
LEMMA PollKeeps ==
  ASSUME Inv, NEW r \in Requests, Poll(r)
  PROVE  Inv'
<1>1. /\ Active(r) /\ r \notin Probes /\ call[r].target # NotPosted
      /\ call[r] \in Calls /\ Polling(r) /\ lock # r
  BY Posts DEF Poll, ReadChat, PollTimesOut, PollFails, NotReady
<1>2. CASE ReadChat(r)
  <2>1. Moved(r, Ended(r, "answered")) => Turn(r, Ended(r, "answered"))
    BY <1>1, <1>2, EndedPosted DEF Turn, ReadChat
  <2> QED BY <1>1, <1>2, <2>1, EndedPosted, GoingTurn DEF ReadChat
<1>3. CASE PollTimesOut(r)
  BY <1>1, <1>3, EndsFailed, GenerateRaisesKeeps DEF PollTimesOut
<1>4. CASE PollFails(r)
  BY <1>1, <1>4, GenerateRaisesKeeps DEF PollFails
<1>5. ASSUME NEW closing \in BOOLEAN, NotReady(r, closing) PROVE Inv'
  <2> DEFINE next == [call[r] EXCEPT !.at = "check", !.cut = FALSE,
                                     !.rpcLeft = ActivityRetries]
  <2>1. Leaves(r, next, closing) /\ UNCHANGED <<metadata, alone>>
    BY <1>5 DEF NotReady
  <2>2. next \in Calls /\ next.at = "check" /\ next.target = call[r].target
        /\ next.work = call[r].work
    <3>1. ActivityRetries \in 0 .. ActivityRetries
      BY RetriesAssumption
    <3> QED BY <1>1, <3>1 DEF Calls, Places
  <2> HIDE DEF next
  <2>3. Moved(r, next) => Turn(r, next)
    BY <1>1, <2>1, <2>2, MovesTo
  <2> QED BY <1>1, <2>1, <2>2, <2>3, LeavingTurn
<1> QED BY <1>2, <1>3, <1>4, <1>5 DEF Poll

-----------------------------------------------------------------------------
LEMMA TimesOutKeeps ==
  ASSUME Inv, NEW r \in Requests, TimesOut(r)
  PROVE  Inv'
<1>1. Active(r) /\ Goes(r, Ended(r, "failed"))
      /\ UNCHANGED <<running, refresher, metadata, alone>>
  BY DEF TimesOut
<1>2. Moved(r, Ended(r, "failed")) => Turn(r, Ended(r, "failed"))
  BY <1>1, EndedPosted DEF Turn
<1>3. CASE lock = r
  <2>1. lock' = Nobody
    BY <1>3 DEF TimesOut
  <2> QED BY <1>1, <1>2, <1>3, <2>1, EndedPosted, ReleasingTurn DEF Untouched
<1>4. CASE lock # r
  BY <1>1, <1>2, <1>4, EndedPosted, GoingTurn DEF TimesOut
<1> QED BY <1>3, <1>4

LEMMA AutoRefreshKeeps ==
  ASSUME Inv, AutoRefresh
  PROVE  Inv'
<1>1. UNCHANGED <<running, metadata, call, alone>>
      /\ refresher # "none" /\ refresher' \in {"sleeping", "waiting", "rotating"}
  BY DEF AutoRefresh, RefresherWakes, RefresherRotates, RefresherRests
<1>2. \/ lock' = lock /\ refresher # "rotating" /\ refresher' # "rotating"
      \/ lock = Nobody /\ lock' = Refresher
      \/ lock = Refresher /\ lock' = Nobody /\ refresher' # "rotating"
  BY DEF AutoRefresh, RefresherWakes, RefresherRotates, RefresherRests, Inv, LockInv
<1>3. LockInv'
  BY <1>1, <1>2, CallsAssumption DEF Inv, LockInv, At
<1>4. HolderInv'
  <2>1. \A r \in Requests : lock' = r => lock = r
    BY <1>2, CallsAssumption
  <2>2. lock' = Refresher => refresher' = "rotating"
    BY CallsAssumption DEF AutoRefresh, RefresherWakes, RefresherRotates,
       RefresherRests, Inv, HolderInv
  <2> QED BY <1>1, <2>1, <2>2 DEF Inv, HolderInv
<1>5. WorkInv' /\ AloneInv'
  BY <1>1 DEF Inv, WorkInv, AloneInv, Active
<1> QED BY <1>1, <1>2, <1>3, <1>4, <1>5 DEF Inv, TypeOK, Owners

LEMMA InvHolds == Spec => []Inv
<1>1. Init => Inv
  <2> SUFFICES ASSUME Init PROVE Inv
    OBVIOUS
  <2>1. \A r \in Requests : call[r] = InitiallyCalled(r)
    BY DEF Init
  <2>2. TypeOK
    BY InitialCalls DEF Init, TypeOK, Owners, Ids
  <2>3. LockInv /\ HolderInv /\ WorkInv /\ AloneInv
    BY <2>1, InitialCalls, CallsAssumption
       DEF Init, LockInv, HolderInv, WorkInv, AloneInv, Posted, At
  <2> QED BY <2>2, <2>3 DEF Inv
<1>2. Inv /\ [Next]_vars => Inv'
  <2> SUFFICES ASSUME Inv, [Next]_vars PROVE Inv'
    OBVIOUS
  <2>1. ASSUME NEW r \in Requests, SetUp(r) PROVE Inv'
    BY <2>1, CheckKeeps, TakeLockKeeps, GetAccessTokenKeeps, InitRpcKeeps,
       InitFailsKeeps, InitRpcRefusedKeeps, InitRpcFindsClosedKeeps,
       RetryKeeps DEF SetUp
  <2>2. CASE UNCHANGED vars
    BY <2>2 DEF vars, Inv, TypeOK, LockInv, HolderInv, WorkInv, AloneInv, At, Active
  <2> QED BY <2>1, <2>2, StartProbeKeeps, StartSendKeeps, BatchExecuteKeeps,
             GenerateKeeps, PollKeeps, TimesOutKeeps, AutoRefreshKeeps DEF Next
<1> QED BY <1>1, <1>2, PTL DEF Spec

-----------------------------------------------------------------------------
(* The client's state stays within its type, whatever the calls do.          *)
THEOREM TypeCorrect == Spec => []TypeOK
BY InvHolds, PTL DEF Inv

(* At most one call sets up a session, only while there is none, only a      *)
(* running client has a refresher (init, close and start_auto_refresh), and  *)
(* the lock is never left behind by a call or a refresher that is gone.      *)
THEOREM SessionsCorrect == Spec => []OneSessionAtATime
<1>1. Inv => OneSessionAtATime
  <2> SUFFICES ASSUME Inv PROVE OneSessionAtATime
    OBVIOUS
  <2>1. lock \in Requests => Active(lock)
    BY DEF Inv, HolderInv, Active
  <2>2. lock = Refresher => refresher = "rotating"
    BY DEF Inv, HolderInv
  <2>3. \A r \in Requests : At(r, "token") => lock = r /\ ~running
    BY DEF Inv, LockInv
  <2>4. \A q \in Requests : call[q].at \in {"token", "setup"} => lock = q
    BY DEF Inv, LockInv, At
  <2> QED BY <2>1, <2>2, <2>3, <2>4 DEF Inv, LockInv, OneSessionAtATime
<1> QED BY <1>1, InvHolds, PTL

(* A send no other send overlaps posts to the conversation its caller named, *)
(* at every retry of _generate, however many other sends came before.        *)
THEOREM ConversationKept == Spec => []AloneKeepsConversation
<1>1. Inv => AloneKeepsConversation
  BY DEF Inv, AloneInv, AloneKeepsConversation
<1> QED BY <1>1, InvHolds, PTL
=============================================================================
