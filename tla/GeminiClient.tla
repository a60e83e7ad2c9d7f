---------------------------- MODULE GeminiClient ----------------------------
(* One account's Gemini web client and the calls of the adapter on it: a     *)
(* lazily initialised session behind an asyncio lock, the retries of the     *)
(* @running decorator, the refresher of the cookies, the generation of an    *)
(* answer and its recovery, and the conversation ids every ChatSession of    *)
(* the process keeps in one and the same list.                               *)
(*                                                                           *)
(* Between two awaits a coroutine runs alone, so a step is what happens from *)
(* one await to the next.  The await inside close() lasts one pass of the    *)
(* event loop, during which no set-up gets through its requests: close is    *)
(* one step.  A conversation is its id; that a turn was added to it is not   *)
(* told apart.                                                               *)
EXTENDS Naturals, FiniteSets

CONSTANTS Probes, Sends,      \* calls of the adapter
          Conversations,      \* conversations that exist at the provider
          Given,              \* the conversation the caller asks a send to continue
          New,                \* no conversation: the provider opens one
          ActivityRetries,    \* @running(retry=2) of _batch_execute
          GenerateRetries,    \* @running(retry=5) of _generate
          Nobody, Refresher, NotPosted

Requests == Probes \cup Sends
Owners == Requests \cup {Nobody, Refresher}
Ids == Conversations \cup Sends \cup {New}   \* a send names the conversation it opens

ASSUME CallsAssumption ==
  /\ Probes \cap Sends = {}
  /\ {Nobody, Refresher} \cap Requests = {} /\ Nobody # Refresher
  /\ Given \in [Sends -> Conversations \cup {New}]
  /\ Conversations \cap Sends = {} /\ New \notin Conversations \cup Sends
  /\ NotPosted \notin Ids
ASSUME RetriesAssumption == ActivityRetries \in Nat /\ GenerateRetries \in Nat

VARIABLES running,      \* GeminiClient._running; the session exists exactly then
          lock,         \* GeminiClient._lock: its owner
          refresher,    \* the task of start_auto_refresh
          metadata,     \* DEFAULT_METADATA, the list of every ChatSession
          call,         \* where each call of the adapter is
          alone         \* history: the send that no other send has overlapped, if any

vars == <<running, lock, refresher, metadata, call, alone>>

Places == {"idle", "check", "lock", "token", "setup", "call", "backoff", "answered", "failed"}
Works == {"probe", "activity", "generate", "poll"}
Calls == [at : Places, work : Works, left : 0 .. GenerateRetries,
          rpcLeft : 0 .. ActivityRetries, cut : BOOLEAN, said : BOOLEAN,
          target : Ids \cup {NotPosted}]

At(r, place) == call[r].at = place
Active(r) == call[r].at \notin {"idle", "answered", "failed"}
InFlight(r) == call[r].at \in {"setup", "call"}
InitiallyCalled(r) ==
  [at |-> "idle", work |-> IF r \in Probes THEN "probe" ELSE "activity",
   left |-> GenerateRetries, rpcLeft |-> ActivityRetries, cut |-> FALSE,
   said |-> FALSE, target |-> NotPosted]

Init ==
  /\ running = FALSE
  /\ lock = Nobody
  /\ refresher = "none"
  /\ metadata = New
  /\ call = [r \in Requests |-> InitiallyCalled(r)]
  /\ alone = {}

Goes(r, next) == call' = [call EXCEPT ![r] = next]
Fresh(r) == [InitiallyCalled(r) EXCEPT !.target = call[r].target]
Ended(r, outcome) == [Fresh(r) EXCEPT !.at = outcome]

(* close(): the refresher is cancelled, with the lock it may hold, and what   *)
(* other calls have in flight on the session is cut off.                      *)
Closed(r, next) ==
  /\ running' = FALSE
  /\ refresher' = "none"
  /\ call' = [q \in Requests |->
                IF q = r THEN next
                ELSE [call[q] EXCEPT !.cut = @ \/ InFlight(q)]]
ReleasedByClose == IF lock = Refresher THEN Nobody ELSE lock

Untouched == UNCHANGED <<running, refresher>>
(* The shape of all failures: with or without a close of the client.          *)
Leaves(r, next, closing) ==
  IF closing THEN Closed(r, next) /\ lock' = ReleasedByClose
             ELSE Goes(r, next) /\ Untouched /\ lock' = lock

-----------------------------------------------------------------------------
(* The adapter starts a call.  start_chat copies the ids it is given into the *)
(* list; with none it leaves the list as it is.                               *)
StartProbe(r) ==
  /\ r \in Probes /\ At(r, "idle")
  /\ Goes(r, [call[r] EXCEPT !.at = "lock"])
  /\ UNCHANGED <<running, lock, refresher, metadata, alone>>

StartChat(r) == metadata' = IF Given[r] = New THEN metadata ELSE Given[r]

StartSend(r) ==
  /\ r \in Sends /\ At(r, "idle")
  /\ StartChat(r)
  /\ Goes(r, [call[r] EXCEPT !.at = "check"])
  /\ alone' = IF \E q \in Sends : Active(q) THEN {} ELSE {r}
  /\ UNCHANGED <<running, lock, refresher>>

(* What a call goes on to once the client runs: the probe has its answer, an  *)
(* RPC is sent, the prompt is posted with the ids that are in the list now.   *)
Proceeding(r) ==
  CASE call[r].work = "probe" -> Ended(r, "answered")
    [] call[r].work = "generate" ->
         [call[r] EXCEPT !.at = "call", !.target = metadata]
    [] OTHER -> [call[r] EXCEPT !.at = "call"]

(* The wrapper of @running looks at the client before the function.           *)
Check(r) ==
  /\ At(r, "check")
  /\ Goes(r, IF running THEN Proceeding(r) ELSE [call[r] EXCEPT !.at = "lock"])
  /\ UNCHANGED <<running, lock, refresher, metadata, alone>>

(* init: under the lock, and only if nobody else got there first.             *)
TakeLockUnchecked(r) ==
  /\ At(r, "lock") /\ lock = Nobody
  /\ Goes(r, [call[r] EXCEPT !.at = "token"]) /\ lock' = r
  /\ UNCHANGED <<running, refresher, metadata, alone>>

TakeLock(r) ==
  /\ At(r, "lock") /\ lock = Nobody
  /\ IF running THEN Goes(r, Proceeding(r)) /\ lock' = lock
                ELSE Goes(r, [call[r] EXCEPT !.at = "token"]) /\ lock' = r
  /\ UNCHANGED <<running, refresher, metadata, alone>>

GetAccessToken(r) ==
  /\ At(r, "token")
  /\ Goes(r, [call[r] EXCEPT !.at = "setup"])
  /\ running' = TRUE /\ refresher' = "sleeping"
  /\ UNCHANGED <<lock, metadata, alone>>

(* _init_rpc: user status, settings, activity and recent chats, all answered. *)
InitRpc(r) ==
  /\ At(r, "setup") /\ ~call[r].cut
  /\ Goes(r, Proceeding(r))
  /\ lock' = Nobody
  /\ UNCHANGED <<running, refresher, metadata, alone>>

(* No cookies are accepted, or an RPC times out or cannot be parsed or sent:  *)
(* init closes the client and raises.                                         *)
InitFails(r) ==
  /\ call[r].at \in {"token", "setup"}
  /\ Closed(r, Ended(r, "failed")) /\ lock' = Nobody
  /\ UNCHANGED <<metadata, alone>>

(* An RPC of the set-up is refused: _batch_execute closes the client, and its *)
(* own wrapper will retry, with the lock still held by this very call.        *)
InitRpcRefused(r) ==
  /\ At(r, "setup") /\ ~call[r].cut
  /\ Closed(r, [call[r] EXCEPT !.at = "backoff"])
  /\ lock' = lock
  /\ UNCHANGED <<metadata, alone>>

(* Another call has closed the client: the next RPC of the set-up finds it     *)
(* not running and goes to init, for the lock held by this very call.         *)
InitRpcFindsClosed(r) ==
  /\ At(r, "setup") /\ ~running
  /\ Goes(r, [call[r] EXCEPT !.at = "lock", !.cut = FALSE])
  /\ UNCHANGED <<running, lock, refresher, metadata, alone>>

Retry(r) ==
  /\ At(r, "backoff")
  /\ Goes(r, [call[r] EXCEPT !.at = "check"])
  /\ UNCHANGED <<running, lock, refresher, metadata, alone>>

-----------------------------------------------------------------------------
(* An APIError of the generation: without text yet the ids are put back, and  *)
(* the wrapper of _generate starts it again while it has retries left.        *)
PutBackNothing(r) == metadata' = IF call[r].said THEN metadata ELSE New
PutBack(r) == metadata' = IF call[r].said THEN metadata ELSE call[r].target
Generation(r) == call[r].work = "generate"

GenerateRaisesForever(r, closing) ==
  /\ PutBack(r)
  /\ Leaves(r, [Fresh(r) EXCEPT !.at = "backoff", !.work = "generate",
                                !.left = call[r].left - 1], closing)
  /\ UNCHANGED alone

GenerateRaises(r, closing) ==
  /\ PutBack(r)
  /\ Leaves(r, IF call[r].left = 0 THEN Ended(r, "failed")
               ELSE [Fresh(r) EXCEPT !.at = "backoff", !.work = "generate",
                                     !.left = call[r].left - 1],
            closing)
  /\ UNCHANGED alone

RpcPending(r) == At(r, "call") /\ call[r].work \in {"activity", "poll"}

(* The warm-up RPC of a send is answered.                                     *)
SendBardActivity(r) ==
  /\ At(r, "call") /\ call[r].work = "activity" /\ ~call[r].cut
  /\ Goes(r, [call[r] EXCEPT !.at = "check", !.work = "generate",
                               !.rpcLeft = ActivityRetries])
  /\ UNCHANGED <<running, lock, refresher, metadata, alone>>

(* An RPC answered with another status than 200 closes the client and is      *)
(* retried; in the end it fails the send, or the generation that polls.       *)
RpcRefused(r) ==
  /\ RpcPending(r) /\ ~call[r].cut
  /\ \/ /\ call[r].rpcLeft > 0
        /\ Leaves(r, [call[r] EXCEPT !.at = "backoff", !.rpcLeft = @ - 1], TRUE)
        /\ UNCHANGED <<metadata, alone>>
     \/ /\ call[r].rpcLeft = 0 /\ call[r].work = "activity"
        /\ Leaves(r, Ended(r, "failed"), TRUE)
        /\ UNCHANGED <<metadata, alone>>
     \/ /\ call[r].rpcLeft = 0 /\ call[r].work = "poll"
        /\ GenerateRaises(r, TRUE)

(* A timed-out or cut RPC is not retried.                                     *)
RpcFails(r) ==
  /\ At(r, "call") /\ call[r].work = "activity"
  /\ Leaves(r, Ended(r, "failed"), FALSE)
  /\ UNCHANGED <<metadata, alone>>

-----------------------------------------------------------------------------
(* A part of the answer names its conversation, and usually carries text.     *)
ConversationOf(r) == IF call[r].target = New THEN r ELSE call[r].target
Streaming(r) == At(r, "call") /\ Generation(r)

ProcessPart(r, text) ==
  /\ Streaming(r) /\ ~call[r].cut
  /\ metadata' = ConversationOf(r)
  /\ Goes(r, [call[r] EXCEPT !.said = @ \/ text])
  /\ UNCHANGED <<running, lock, refresher, alone>>

Completes(r) ==
  /\ Streaming(r) /\ ~call[r].cut /\ call[r].said
  /\ Goes(r, Ended(r, "answered"))
  /\ UNCHANGED <<running, lock, refresher, metadata, alone>>

(* Error codes of the provider: a usage limit, an invalid model or a blocked  *)
(* address ends the call; the others, like any refusal, broken or silent      *)
(* stream, are APIErrors.                                                     *)
FatalCode(r) ==
  /\ Streaming(r) /\ ~call[r].cut
  /\ PutBack(r)
  /\ Leaves(r, Ended(r, "failed"), TRUE)
  /\ UNCHANGED alone

StreamFails(r, closing) ==
  /\ Streaming(r)
  /\ GenerateRaises(r, closing)

ReadTimesOut(r) ==
  /\ Streaming(r)
  /\ Leaves(r, Ended(r, "failed"), FALSE)
  /\ UNCHANGED <<metadata, alone>>

(* The stream ended early, or the watchdog gave it up, after the provider had *)
(* saved the conversation: its history is polled for the answer.  Nothing is  *)
(* written to the list, and whose history it is matters to no later step.     *)
Recover(r, closing) ==
  /\ Streaming(r)
  /\ Leaves(r, [call[r] EXCEPT !.at = "check", !.work = "poll",
                               !.cut = FALSE, !.rpcLeft = ActivityRetries], closing)
  /\ UNCHANGED <<metadata, alone>>

Polling(r) == At(r, "call") /\ call[r].work = "poll"

(* The answer is found; of the ids in the list only the rcid is written.      *)
ReadChat(r) ==
  /\ Polling(r) /\ ~call[r].cut
  /\ Goes(r, Ended(r, "answered"))
  /\ UNCHANGED <<running, lock, refresher, metadata, alone>>

NotReady(r, closing) ==
  /\ Polling(r)
  /\ Leaves(r, [call[r] EXCEPT !.at = "check", !.cut = FALSE, !.rpcLeft = ActivityRetries],
            closing)
  /\ UNCHANGED <<metadata, alone>>

PollTimesOut(r) ==
  /\ Polling(r)
  /\ \/ call[r].said /\ Leaves(r, Ended(r, "failed"), TRUE)
                     /\ UNCHANGED <<metadata, alone>>
     \/ ~call[r].said /\ GenerateRaises(r, TRUE)

(* The warm-up RPC of a poll breaks: read_chat hides such errors, this does   *)
(* not.                                                                       *)
PollFails(r) == Polling(r) /\ GenerateRaises(r, FALSE)

-----------------------------------------------------------------------------
(* wait_for and timeout in the adapter, or a caller that goes away, cancel a  *)
(* call wherever it waits; no handler sees it, only `async with` lets go.     *)
TimesOutOnRequests(r) ==
  /\ Active(r) /\ ~At(r, "lock")
  /\ Goes(r, Ended(r, "failed"))
  /\ lock' = IF lock = r THEN Nobody ELSE lock
  /\ UNCHANGED <<running, refresher, metadata, alone>>

TimesOut(r) ==
  /\ Active(r)
  /\ Goes(r, Ended(r, "failed"))
  /\ lock' = IF lock = r THEN Nobody ELSE lock
  /\ UNCHANGED <<running, refresher, metadata, alone>>

(* start_auto_refresh: sleep, then rotate a cookie under the lock.            *)
RefresherWakes ==
  /\ refresher = "sleeping" /\ refresher' = "waiting"
  /\ UNCHANGED <<running, lock, metadata, call, alone>>
RefresherRotates ==
  /\ refresher = "waiting" /\ lock = Nobody
  /\ refresher' = "rotating" /\ lock' = Refresher
  /\ UNCHANGED <<running, metadata, call, alone>>
RefresherRests ==
  /\ refresher = "rotating"
  /\ refresher' = "sleeping" /\ lock' = Nobody
  /\ UNCHANGED <<running, metadata, call, alone>>

SetUp(r) ==
  \/ Check(r) \/ TakeLock(r) \/ GetAccessToken(r) \/ InitRpc(r)
  \/ InitFails(r) \/ InitRpcRefused(r) \/ InitRpcFindsClosed(r) \/ Retry(r)
BatchExecute(r) == SendBardActivity(r) \/ RpcRefused(r) \/ RpcFails(r)
Generate(r) ==
  \/ Completes(r) \/ FatalCode(r) \/ ReadTimesOut(r)
  \/ \E text \in BOOLEAN : ProcessPart(r, text)
  \/ \E closing \in BOOLEAN : StreamFails(r, closing) \/ Recover(r, closing)
Poll(r) ==
  \/ ReadChat(r) \/ PollTimesOut(r) \/ PollFails(r)
  \/ \E closing \in BOOLEAN : NotReady(r, closing)
AutoRefresh == RefresherWakes \/ RefresherRotates \/ RefresherRests

Next ==
  \/ \E r \in Requests :
       StartProbe(r) \/ StartSend(r) \/ SetUp(r) \/ BatchExecute(r)
         \/ Generate(r) \/ Poll(r) \/ TimesOut(r)
  \/ AutoRefresh

Spec == Init /\ [][Next]_vars
(* The timers of the event loop fire, and the session has a timeout for each  *)
(* of its requests, the rotation of a cookie among them.                      *)
FairSpec ==
  Spec /\ (\A r \in Requests : WF_vars(TimesOut(r))) /\ WF_vars(RefresherRests)

-----------------------------------------------------------------------------
TypeOK ==
  /\ running \in BOOLEAN
  /\ lock \in Owners
  /\ refresher \in {"none", "sleeping", "waiting", "rotating"}
  /\ metadata \in Ids
  /\ call \in [Requests -> Calls]
  /\ alone \subseteq Sends

(* A session is set up only when there is none: two calls that find the       *)
(* client closed do not both fetch a token, which would leak a session with   *)
(* its refresher; a refresher exists only for a client that runs; and the     *)
(* lock that sees to it is never orphaned: a call that holds it is under way, *)
(* with its timeout ahead of it, a refresher that holds it is at work.        *)
OneSessionAtATime ==
  /\ \A r \in Requests : At(r, "token") => ~running
  /\ \A r, q \in Requests :
       At(r, "token") /\ call[q].at \in {"token", "setup"} => q = r
  /\ refresher # "none" => running
  /\ lock \in Requests => Active(lock)
  /\ lock = Refresher => refresher = "rotating"

(* A send that no other send overlaps posts its prompt, at every retry, to    *)
(* the conversation its caller named.                                         *)
AloneKeepsConversation ==
  \A r \in alone : Given[r] # New => call[r].target \in {NotPosted, Given[r]}

(* The docstring of generate_content: the conversation of the given chat is   *)
(* continued, and without one the provider opens a new one.                   *)
TurnGoesToItsConversation ==
  \A r \in Sends :
    call[r].target \in {NotPosted} \cup (IF Given[r] = New THEN {New, r} ELSE {Given[r]})

(* Whoever holds the lock of the client lets go of it: a call whose set-up    *)
(* was refused and that now waits for the lock it holds itself, a refresher   *)
(* that is cancelled while it rotates a cookie.  Else the account is lost     *)
(* until the process restarts.                                                *)
LockComesFree == lock # Nobody ~> lock = Nobody
=============================================================================
