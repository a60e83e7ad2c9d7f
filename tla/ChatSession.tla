----------------------------- MODULE ChatSession -----------------------------
(***************************************************************************)
(* The execution of chat requests on stored sessions: ChatService          *)
(* (services/chat_service.py) over ChatRepository (db/repository.py).      *)
(*                                                                         *)
(* A send or stream request marks its session as active, reads the row,    *)
(* looks for an answer stored under its idempotency key, resolves the      *)
(* session's account, moving the session to another account if it may,     *)
(* waits for a slot, calls the provider, and stores the conversation       *)
(* metadata and both messages, one commit each.  Every step is an await:   *)
(* other requests, deletions and renamings of the session interleave, the  *)
(* request can be cancelled, and the process can die.                      *)
(***************************************************************************)
EXTENDS Integers, Sequences, FiniteSets

CONSTANTS
  Sessions, Accounts,
  Sends,            (* send_message and stream_message requests            *)
  Deletes, Renames, (* delete_session and update_session requests          *)
  SessionOf,        (* the session each request names                      *)
  KeyOf,            (* the idempotency key of each send                    *)
  NoKey,
  AllowFailover,    (* the sessions created with allow_failover            *)
  NoAccount

Requests == Sends \cup Deletes \cup Renames

ASSUME ChatAssumption ==
  /\ SessionOf \in [Requests -> Sessions]
  /\ DOMAIN KeyOf = Sends
  /\ AllowFailover \subseteq Sessions
  /\ NoAccount \notin Accounts
  /\ Sends \cap (Deletes \cup Renames) = {}
  /\ Deletes \cap Renames = {}

VARIABLES
  row,      (* the row of each session in chat_sessions                    *)
  log,      (* the rows in chat_messages that name the session, in order   *)
  active,   (* ChatService._active_session_ids                             *)
  pc,       (* progress of each request                                    *)
  rec,      (* the session row a request holds in memory                   *)
  target,   (* the account a send has selected                             *)
  status    (* what the pool says of each account                          *)

vars == <<row, log, active, pc, rec, target, status>>

(* cid stands for gemini_cid, gemini_rid and gemini_rcid: the account that *)
(* the conversation they name lives on, if there are any.  failovers and   *)
(* renamed stand for metadata_json: how many failover events it holds, and *)
(* its title.                                                              *)
Rows == [state : {"new", "live", "deleted"},
         account : Accounts \cup {NoAccount},
         cid : Accounts \cup {NoAccount},
         failovers : Nat, renamed : BOOLEAN]

NewRow == [state |-> "new", account |-> NoAccount, cid |-> NoAccount,
           failovers |-> 0, renamed |-> FALSE]

Messages == [role : {"user", "assistant"}, by : Sends]

(* is_routable, is_failover_required, or neither.                          *)
Statuses == {"routable", "failover", "out"}

(* Where a send is while its session is active.                            *)
Executing == {"entered", "loaded", "routing", "rerouting", "moving", "routed",
              "calling", "answered", "remembered", "asked", "leaving"}

TypeOK ==
  /\ row \in [Sessions -> Rows]
  /\ \A s \in Sessions : row[s].state = "live" => row[s].account \in Accounts
  /\ log \in [Sessions -> Seq(Messages)]
  /\ active \subseteq Sessions
  /\ pc \in [Requests -> Executing \cup {"idle", "done", "deleting", "read"}]
  /\ rec \in [Requests -> Rows]
  /\ target \in [Sends -> Accounts \cup {NoAccount}]
  /\ status \in [Accounts -> Statuses]

Live(s) == row[s].state = "live"

Init ==
  /\ row = [s \in Sessions |-> NewRow]
  /\ log = [s \in Sessions |-> <<>>]
  /\ active = {}
  /\ pc = [r \in Requests |-> "idle"]
  /\ rec = [r \in Requests |-> NewRow]
  /\ target = [r \in Sends |-> NoAccount]
  /\ status \in [Accounts -> Statuses]

Goto(r, here, there) ==
  /\ pc[r] = here
  /\ pc' = [pc EXCEPT ![r] = there]

-----------------------------------------------------------------------------
(* create_session: on an account that is routable.                         *)
CreateSessionUnplaced(s, a) ==
  /\ row[s].state = "new"
  /\ status[a] = "routable"
  /\ row' = [row EXCEPT ![s].state = "live"]
  /\ UNCHANGED <<log, active, pc, rec, target, status>>

CreateSession(s, a) ==
  /\ row[s].state = "new"
  /\ status[a] = "routable"
  /\ row' = [row EXCEPT ![s].state = "live", ![s].account = a]
  /\ UNCHANGED <<log, active, pc, rec, target, status>>

(* _session_execution: a second request on an active session is refused.   *)
BeginExecutionAlways(r) ==
  /\ Goto(r, "idle", "entered")
  /\ active' = active \cup {SessionOf[r]}
  /\ UNCHANGED <<row, log, rec, target, status>>

BeginExecution(r) ==
  /\ SessionOf[r] \notin active
  /\ Goto(r, "idle", "entered")
  /\ active' = active \cup {SessionOf[r]}
  /\ UNCHANGED <<row, log, rec, target, status>>

RefuseBusy(r) ==
  /\ SessionOf[r] \in active
  /\ Goto(r, "idle", "done")
  /\ UNCHANGED <<row, log, active, rec, target, status>>

(* _require_session: not found, or the row as it is now.                   *)
RequireSession(r) ==
  /\ Goto(r, "entered", IF Live(SessionOf[r]) THEN "loaded" ELSE "leaving")
  /\ rec' = IF Live(SessionOf[r]) THEN [rec EXCEPT ![r] = row[SessionOf[r]]] ELSE rec
  /\ UNCHANGED <<row, log, active, target, status>>

AnswersTo(s, k) ==
  {i \in DOMAIN log[s] : log[s][i].role = "assistant" /\ KeyOf[log[s][i].by] = k}

(* _maybe_get_cached_response: an answer under the same key ends the       *)
(* request.                                                                *)
CachedAnswerIgnored(r) ==
  /\ Goto(r, "loaded", "routing")
  /\ UNCHANGED <<row, log, active, rec, target, status>>

MaybeGetCachedResponse(r) ==
  LET cached == KeyOf[r] # NoKey /\ AnswersTo(SessionOf[r], KeyOf[r]) # {}
  IN /\ Goto(r, "loaded", IF cached THEN "leaving" ELSE "routing")
     /\ UNCHANGED <<row, log, active, rec, target, status>>

(* resolve_session_account: the session's own account, ...                 *)
StayOnAccount(r) ==
  /\ Goto(r, "routing", "routed")
  /\ status[rec[r].account] = "routable"
  /\ target' = [target EXCEPT ![r] = rec[r].account]
  /\ UNCHANGED <<row, log, active, rec, status>>

(* ... another one, if the session may move and its account is in trouble, *)
(* ...                                                                     *)
ChooseFallbackAlways(r, a) ==
  /\ Goto(r, "routing", "rerouting")
  /\ status[rec[r].account] = "failover"
  /\ a # rec[r].account /\ status[a] = "routable"
  /\ target' = [target EXCEPT ![r] = a]
  /\ UNCHANGED <<row, log, active, rec, status>>

ChooseFallback(r, a) ==
  /\ Goto(r, "routing", "rerouting")
  /\ status[rec[r].account] = "failover"
  /\ SessionOf[r] \in AllowFailover
  /\ a # rec[r].account /\ status[a] = "routable"
  /\ target' = [target EXCEPT ![r] = a]
  /\ UNCHANGED <<row, log, active, rec, status>>

(* ... or an error.                                                        *)
Unroutable(r) ==
  /\ Goto(r, "routing", "leaving")
  /\ status[rec[r].account] # "routable"
  /\ \/ status[rec[r].account] = "out"
     \/ SessionOf[r] \notin AllowFailover
     \/ \A a \in Accounts : status[a] # "routable"
  /\ UNCHANGED <<row, log, active, rec, target, status>>

(* record_failover: read the row; a send whose row has been deleted goes   *)
(* on with the record it already holds.                                    *)
ReadForFailover(r) ==
  /\ Goto(r, "rerouting", IF Live(SessionOf[r]) THEN "moving" ELSE "routed")
  /\ rec' = IF Live(SessionOf[r]) THEN [rec EXCEPT ![r] = row[SessionOf[r]]] ELSE rec
  /\ UNCHANGED <<row, log, active, target, status>>

(* Then write it back, with the metadata_json that was read: the session   *)
(* moves and its conversation starts afresh.  An UPDATE that finds no row  *)
(* is an error.                                                            *)
FailoverKeepsRecord(r) ==
  LET s == SessionOf[r]
      moved == [rec[r] EXCEPT !.account = target[r], !.cid = NoAccount,
                              !.failovers = @ + 1]
  IN /\ Goto(r, "moving", IF Live(s) THEN "routed" ELSE "leaving")
     /\ row' = IF Live(s) THEN [row EXCEPT ![s] = moved] ELSE row
     /\ UNCHANGED <<log, active, rec, target, status>>

WriteFailover(r) ==
  LET s == SessionOf[r]
      moved == [rec[r] EXCEPT !.account = target[r], !.cid = NoAccount,
                              !.failovers = @ + 1]
  IN /\ Goto(r, "moving", IF Live(s) THEN "routed" ELSE "leaving")
     /\ row' = IF Live(s) THEN [row EXCEPT ![s] = moved] ELSE row
     /\ rec' = [rec EXCEPT ![r] = moved]
     /\ UNCHANGED <<log, active, target, status>>

(* acquire and _acquire_slot (see Admission): the account is routable when *)
(* the slot is taken.                                                      *)
AcquireSlot(r) ==
  /\ Goto(r, "routed", "calling")
  /\ status[target[r]] = "routable"
  /\ UNCHANGED <<row, log, active, rec, target, status>>

(* An asset cannot be read, the account is not routable any more, the      *)
(* queue is full or the wait too long; or the provider call fails.         *)
Fail(r) ==
  /\ Goto(r, "routed", "leaving") \/ Goto(r, "calling", "leaving")
  /\ UNCHANGED <<row, log, active, rec, target, status>>

ProviderAnswers(r) ==
  /\ Goto(r, "calling", "answered")
  /\ UNCHANGED <<row, log, active, rec, target, status>>

(* update_session_metadata: the ids that the adapter hands back with the   *)
(* answer.  The web adapter takes them from the list that all chats of the *)
(* process share (see GeminiClient): an overlapping send may have left     *)
(* there those of a conversation on any account.  A provider that named    *)
(* none leaves none, or those that a stream began with.                    *)
UpdateSessionMetadata(r) ==
  /\ Goto(r, "answered", "remembered")
  /\ IF Live(SessionOf[r])
       THEN \E c \in Accounts \cup {NoAccount} :
              row' = [row EXCEPT ![SessionOf[r]].cid = c]
       ELSE UNCHANGED row
  /\ UNCHANGED <<log, active, rec, target, status>>

(* add_message.  The database (SQLite, foreign keys off) takes a message   *)
(* for a session that is gone.                                             *)
AddMessage(r, role) ==
  log' = [log EXCEPT ![SessionOf[r]] = Append(@, [role |-> role, by |-> r])]

AddUserMessage(r) ==
  /\ Goto(r, "remembered", "asked")
  /\ AddMessage(r, "user")
  /\ UNCHANGED <<row, active, rec, target, status>>

AddAssistantMessage(r) ==
  /\ Goto(r, "asked", "leaving")
  /\ AddMessage(r, "assistant")
  /\ UNCHANGED <<row, active, rec, target, status>>

EndExecution(r) ==
  /\ Goto(r, "leaving", "done")
  /\ active' = active \ {SessionOf[r]}
  /\ UNCHANGED <<row, log, rec, target, status>>

(* The task is cancelled, or a stream is left by its client: the finally   *)
(* of _session_execution runs when the generator is closed.                *)
CancelSkipsFinally(r) ==
  /\ pc[r] \in Executing \ {"leaving"}
  /\ pc' = [pc EXCEPT ![r] = "done"]
  /\ UNCHANGED <<row, log, active, rec, target, status>>

Cancel(r) ==
  /\ pc[r] \in Executing \ {"leaving"}
  /\ pc' = [pc EXCEPT ![r] = "leaving"]
  /\ UNCHANGED <<row, log, active, rec, target, status>>

-----------------------------------------------------------------------------
(* delete_session: the guard is left before the row is deleted.            *)
DeleteChecks(d) ==
  /\ Goto(d, "idle", IF Live(SessionOf[d]) /\ SessionOf[d] \notin active
                     THEN "deleting" ELSE "done")
  /\ UNCHANGED <<row, log, active, rec, target, status>>

DeleteRow(d) ==
  /\ Goto(d, "deleting", "done")
  /\ IF Live(SessionOf[d])
       THEN /\ row' = [row EXCEPT ![SessionOf[d]].state = "deleted"]
            /\ log' = [log EXCEPT ![SessionOf[d]] = <<>>]
       ELSE UNCHANGED <<row, log>>
  /\ UNCHANGED <<active, rec, target, status>>

(* update_session_title: read the row, write metadata_json back.           *)
ReadForTitle(t) ==
  /\ Goto(t, "idle", IF Live(SessionOf[t]) THEN "read" ELSE "done")
  /\ rec' = [rec EXCEPT ![t] = row[SessionOf[t]]]
  /\ UNCHANGED <<row, log, active, target, status>>

WriteTitle(t) ==
  /\ Goto(t, "read", "done")
  /\ row' = IF Live(SessionOf[t])
              THEN [row EXCEPT ![SessionOf[t]].renamed = TRUE,
                               ![SessionOf[t]].failovers = rec[t].failovers]
              ELSE row
  /\ UNCHANGED <<log, active, rec, target, status>>

-----------------------------------------------------------------------------
(* The process dies: the database stays, requests and active ids do not.   *)
Crash ==
  /\ \E r \in Requests : pc[r] \notin {"idle", "done"}
  /\ pc' = [r \in Requests |-> IF pc[r] = "idle" THEN "idle" ELSE "done"]
  /\ active' = {}
  /\ UNCHANGED <<row, log, rec, target, status>>

SetStatus(a, st) ==
  /\ status[a] # st
  /\ status' = [status EXCEPT ![a] = st]
  /\ UNCHANGED <<row, log, active, pc, rec, target>>

Resolve(r) ==
  StayOnAccount(r) \/ Unroutable(r) \/ \E a \in Accounts : ChooseFallback(r, a)

Store(r) == UpdateSessionMetadata(r) \/ AddUserMessage(r) \/ AddAssistantMessage(r)

(* What a request does once its session is active, unless cancelled.       *)
Execute(r) ==
  \/ RequireSession(r) \/ MaybeGetCachedResponse(r) \/ Resolve(r)
  \/ ReadForFailover(r) \/ WriteFailover(r)
  \/ AcquireSlot(r) \/ ProviderAnswers(r) \/ Fail(r)
  \/ Store(r) \/ EndExecution(r)

Next ==
  \/ \E s \in Sessions, a \in Accounts : CreateSession(s, a)
  \/ \E r \in Sends : BeginExecution(r) \/ RefuseBusy(r) \/ Execute(r) \/ Cancel(r)
  \/ \E d \in Deletes : DeleteChecks(d) \/ DeleteRow(d)
  \/ \E t \in Renames : ReadForTitle(t) \/ WriteTitle(t)
  \/ \E a \in Accounts, st \in Statuses : SetStatus(a, st)
  \/ Crash

Spec == Init /\ [][Next]_vars

(* Every await of a request ends: database calls return, a slot is granted *)
(* or the wait times out, the provider answers or times out.  Sessions are *)
(* not assumed to be created, nor requests to come.                        *)
FairSpec == Spec /\ \A r \in Sends : WF_vars(Execute(r))

-----------------------------------------------------------------------------
(* Requests of the session s that are being executed.                      *)
ExecutingOn(s) == {r \in Sends : SessionOf[r] = s /\ pc[r] \in Executing}

(* README: the same session is intentionally single-flight.  A session is  *)
(* marked active exactly while one request executes on it, also after      *)
(* errors, cancellations and restarts.                                     *)
SingleFlight ==
  \A s \in Sessions :
    /\ s \in active <=> ExecutingOn(s) # {}
    /\ \A q, r \in ExecutingOn(s) : q = r

(* docs/TESTING.md: idempotent message replay.  A key is answered once per *)
(* session, and the provider is not asked again for an answered key.       *)
KeyAnsweredOnce ==
  /\ \A s \in Sessions : \A k \in {KeyOf[r] : r \in Sends} \ {NoKey} :
       Cardinality(AnswersTo(s, k)) <= 1
  /\ \A r \in Sends :
       pc[r] = "calling" /\ KeyOf[r] # NoKey /\ Live(SessionOf[r])
         => AnswersTo(SessionOf[r], KeyOf[r]) = {}

(* What makes these inductive: from the answer to a request's key being    *)
(* found missing until the request has stored one, there is none; and a    *)
(* key is answered at one place of the history.                            *)
KeysFresh ==
  /\ \A r \in Sends :
       pc[r] \in Executing \ {"entered", "loaded", "leaving"} /\ KeyOf[r] # NoKey
         => AnswersTo(SessionOf[r], KeyOf[r]) = {}
  /\ \A s \in Sessions : \A i, j \in DOMAIN log[s] :
       /\ log[s][i].role = "assistant" /\ log[s][j].role = "assistant"
       /\ KeyOf[log[s][i].by] # NoKey
       /\ KeyOf[log[s][i].by] = KeyOf[log[s][j].by]
       => i = j

(* Nobody but the request that executes on a session moves it or its       *)
(* conversation: the record the request holds stays what the row says.     *)
Holding == Executing \ {"entered", "remembered", "asked", "leaving"}

RecordCurrent(r) ==
  /\ pc[r] \in Executing \ {"entered", "leaving"} => row[SessionOf[r]].state # "new"
  /\ pc[r] \in Holding =>
       /\ rec[r].state = "live" /\ rec[r].account \in Accounts
       /\ Live(SessionOf[r]) =>
            /\ rec[r].account = row[SessionOf[r]].account
            /\ rec[r].cid = row[SessionOf[r]].cid
  /\ pc[r] \in {"rerouting", "moving"} =>
       /\ target[r] \in Accounts \ {rec[r].account}
       /\ SessionOf[r] \in AllowFailover
  /\ pc[r] \in {"routed", "calling", "answered"} =>
       /\ target[r] \in Accounts
       /\ Live(SessionOf[r]) => target[r] = row[SessionOf[r]].account

RecordsCurrent == \A r \in Sends : RecordCurrent(r)

(* A new session has no past, and a question just asked is the last        *)
(* message of its session.                                                 *)
NewIsUnused ==
  \A s \in Sessions : row[s].state = "new" => row[s].cid = NoAccount /\ log[s] = <<>>

JustAsked ==
  \A r \in Sends : pc[r] = "asked" /\ Live(SessionOf[r]) =>
    LET h == log[SessionOf[r]]
    IN h # <<>> /\ h[Len(h)] = [role |-> "user", by |-> r]

(* Until a send stores its question, nothing in the history is its own.    *)
NotYetHeard ==
  \A r \in Sends : pc[r] \in (Executing \cup {"idle"}) \ {"asked", "leaving"} =>
    \A i \in DOMAIN log[SessionOf[r]] : log[SessionOf[r]][i].by # r

(* In the history of a live session every answer directly follows the      *)
(* question it answers.  A question can be left without an answer, when    *)
(* its request died between the two.                                       *)
AnswersFollowQuestions ==
  \A s \in Sessions : Live(s) =>
    \A i \in DOMAIN log[s] : log[s][i].role = "assistant" =>
      i > 1 /\ log[s][i - 1] = [role |-> "user", by |-> log[s][i].by]

(* README: sticky sessions with opt-in failover.  A provider call runs on  *)
(* the account, and with the conversation ids, that the row of its session *)
(* has at that moment, although both were read before the session was      *)
(* routed and waited for its slot: not with those it had before it was     *)
(* moved, nor those of a request that was cancelled or died.  (Which       *)
(* account these ids are of is another matter: see UpdateSessionMetadata.) *)
CallFollowsRow ==
  \A r \in Sends : pc[r] = "calling" /\ Live(SessionOf[r]) =>
    /\ target[r] = row[SessionOf[r]].account
    /\ rec[r].cid = row[SessionOf[r]].cid

(* A session is never moved to another account unless it may fail over,    *)
(* and only by the request that executes on it, which begins the           *)
(* conversation afresh and adds one event to those it has read.            *)
MovesOnlyIfAllowed ==
  [][\A s \in Sessions : Live(s) /\ row'[s].account # row[s].account =>
       /\ s \in AllowFailover
       /\ row'[s].cid = NoAccount
       /\ \E r \in ExecutingOn(s) : row'[s].failovers = rec[r].failovers + 1]_vars

(* The session service promises its clients what SessionLife says: of      *)
(* deleted sessions, and of what is still stored for them, they see        *)
(* nothing.                                                                *)
States == [s \in Sessions |-> row[s].state]
Homes == [s \in Sessions |-> IF Live(s) THEN row[s].account ELSE NoAccount]
Talks == [s \in Sessions |-> IF Live(s) THEN row[s].cid ELSE NoAccount]
Histories == [s \in Sessions |-> IF Live(s) THEN log[s] ELSE <<>>]

Served == INSTANCE SessionLife WITH
  Asks <- Sends, Movable <- AllowFailover,
  state <- States, home <- Homes, talk <- Talks, history <- Histories

ImplementsSessionLife == Served!Spec

(* An active session becomes free again.                                   *)
SessionFreed == \A s \in Sessions : s \in active ~> s \notin active
=============================================================================
