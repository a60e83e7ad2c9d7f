-------------------------- MODULE ChatSessionProofs --------------------------
(***************************************************************************)
(* Theorems about ChatSession for all sessions, accounts, requests and     *)
(* idempotency keys.                                                       *)
(***************************************************************************)
EXTENDS ChatSession, FiniteSetTheorems, SequenceTheorems, TLAPS

-----------------------------------------------------------------------------
(* Requests in general.                                                    *)

(* Sends are requests, and every request names a session.                  *)
LEMMA SendsAreRequests ==
  /\ Sends \subseteq Requests
  /\ Deletes \subseteq Requests
  /\ Renames \subseteq Requests
  /\ \A r \in Requests : SessionOf[r] \in Sessions
  /\ Sends \cap Deletes = {} /\ Sends \cap Renames = {}
BY ChatAssumption DEF Requests

(* What Goto does to the progress of the requests.                         *)
LEMMA GotoFacts ==
  ASSUME TypeOK, NEW r \in Requests, NEW here, NEW there, Goto(r, here, there)
  PROVE  /\ pc[r] = here
         /\ pc'[r] = there
         /\ \A q \in Requests : q # r => pc'[q] = pc[q]
BY DEF TypeOK, Goto

(* A session that does not exist yet has a well-typed row.                 *)
LEMMA NewRowType == NewRow \in Rows /\ NewRow.state = "new"
BY DEF NewRow, Rows

-----------------------------------------------------------------------------
(* Types.                                                                  *)

(* Initially the types are right.                                          *)
LEMMA TypeInit == Init => TypeOK
<1> SUFFICES ASSUME Init PROVE TypeOK
  OBVIOUS
<1>1. row \in [Sessions -> Rows] /\ rec \in [Requests -> Rows]
      /\ \A s \in Sessions : row[s].state = "live" => row[s].account \in Accounts
  BY NewRowType DEF Init
<1>2. log \in [Sessions -> Seq(Messages)]
  BY EmptySeq DEF Init
<1>3. QED
  BY <1>1, <1>2 DEF Init, TypeOK

(* A row with another account, conversation or number of events is a row.  *)
LEMMA RowFields ==
  ASSUME NEW x \in Rows, NEW a \in Accounts \cup {NoAccount},
         NEW c \in Accounts \cup {NoAccount}, NEW n \in Nat, NEW t \in BOOLEAN
  PROVE  /\ [x EXCEPT !.account = a, !.cid = c, !.failovers = n] \in Rows
         /\ [x EXCEPT !.cid = c] \in Rows
         /\ [x EXCEPT !.renamed = t, !.failovers = n] \in Rows
         /\ [x EXCEPT !.state = "live", !.account = a] \in Rows
         /\ [x EXCEPT !.state = "deleted"] \in Rows
<1>1. PICK st \in {"new", "live", "deleted"}, ac \in Accounts \cup {NoAccount},
           ci \in Accounts \cup {NoAccount}, fa \in Nat, re \in BOOLEAN :
        x = [state |-> st, account |-> ac, cid |-> ci, failovers |-> fa, renamed |-> re]
  BY DEF Rows
<1>2. QED
  BY <1>1 DEF Rows

(* Changing one session's row to a row keeps the rows typed.               *)
LEMMA RowType ==
  ASSUME TypeOK, NEW s \in Sessions, NEW v \in Rows,
         v.state = "live" => v.account \in Accounts,
         row' = [row EXCEPT ![s] = v]
  PROVE  /\ row' \in [Sessions -> Rows]
         /\ \A x \in Sessions : row'[x].state = "live" => row'[x].account \in Accounts
BY DEF TypeOK

(* Adding a message keeps the histories typed.                             *)
LEMMA LogType ==
  ASSUME TypeOK, NEW r \in Sends, NEW role \in {"user", "assistant"},
         AddMessage(r, role)
  PROVE  log' \in [Sessions -> Seq(Messages)]
<1>1. [role |-> role, by |-> r] \in Messages
  BY DEF Messages
<1>2. Append(log[SessionOf[r]], [role |-> role, by |-> r]) \in Seq(Messages)
  BY <1>1, SendsAreRequests, AppendProperties DEF TypeOK
<1>3. QED
  BY <1>2, SendsAreRequests DEF TypeOK, AddMessage

(* The steps of a send keep the types; failing over relies on the record   *)
(* it holds being one of a live session.                                   *)
LEMMA ExecuteType ==
  ASSUME TypeOK, RecordsCurrent, NEW r \in Sends, Execute(r)
  PROVE  TypeOK'
<1> r \in Requests /\ SessionOf[r] \in Sessions
  BY SendsAreRequests
<1> DEFINE s == SessionOf[r]
<1>1. CASE RequireSession(r)
  BY <1>1 DEF RequireSession, TypeOK, Goto, Executing
<1>2. CASE MaybeGetCachedResponse(r)
  BY <1>2 DEF MaybeGetCachedResponse, TypeOK, Goto, Executing
<1>3. CASE Resolve(r)
  <2>1. rec[r].account \in Accounts
    BY <1>3 DEF Resolve, StayOnAccount, Unroutable, ChooseFallback, RecordsCurrent, RecordCurrent,
                Holding, Executing, Goto
  <2>2. target' \in [Sends -> Accounts \cup {NoAccount}]
    <3>1. CASE StayOnAccount(r)
      BY <2>1, <3>1 DEF StayOnAccount, TypeOK
    <3>2. CASE \E a \in Accounts : ChooseFallback(r, a)
      BY <3>2 DEF ChooseFallback, TypeOK
    <3>3. CASE Unroutable(r)
      BY <3>3 DEF Unroutable, TypeOK
    <3>4. QED
      BY <1>3, <3>1, <3>2, <3>3 DEF Resolve
  <2>3. pc' \in [Requests -> Executing \cup {"idle", "done", "deleting", "read"}]
    BY <1>3 DEF Resolve, StayOnAccount, Unroutable, ChooseFallback, TypeOK, Goto, Executing
  <2>4. UNCHANGED <<row, log, active, rec, status>>
    BY <1>3 DEF Resolve, StayOnAccount, Unroutable, ChooseFallback
  <2>5. QED
    BY <2>2, <2>3, <2>4 DEF TypeOK
<1>4. CASE ReadForFailover(r)
  BY <1>4 DEF ReadForFailover, TypeOK, Goto, Executing
<1>5. CASE WriteFailover(r)
  <2> DEFINE moved == [rec[r] EXCEPT !.account = target[r], !.cid = NoAccount,
                                     !.failovers = @ + 1]
  <2>1. target[r] \in Accounts /\ rec[r] \in Rows
    BY <1>5 DEF WriteFailover, RecordsCurrent, RecordCurrent, Goto, TypeOK
  <2>2. moved \in Rows /\ moved.account \in Accounts
    <3>1. rec[r].failovers + 1 \in Nat
      BY <2>1 DEF Rows
    <3>2. moved = [rec[r] EXCEPT !.account = target[r], !.cid = NoAccount,
                                 !.failovers = rec[r].failovers + 1]
      BY <2>1 DEF Rows
    <3>3. QED
      <4>1. /\ target[r] \in Accounts \cup {NoAccount} /\ NoAccount \in Accounts \cup {NoAccount}
            /\ rec[r].failovers + 1 \in Nat
        BY <2>1, <3>1
      <4>2. moved \in Rows
        BY <2>1, <3>2, <4>1, RowFields
      <4>3. moved.account = target[r]
        BY <2>1 DEF Rows
      <4>4. QED
        BY <2>1, <4>2, <4>3
  <2>3. CASE Live(s)
    <3>1. row' = [row EXCEPT ![s] = moved]
      BY <1>5, <2>3 DEF WriteFailover
    <3>2. /\ row' \in [Sessions -> Rows]
          /\ \A x \in Sessions : row'[x].state = "live" => row'[x].account \in Accounts
      BY <2>2, <3>1, RowType
    <3>3. QED
      BY <1>5, <2>2, <3>2 DEF WriteFailover, TypeOK, Goto, Executing
  <2>4. CASE ~Live(s)
    BY <1>5, <2>2, <2>4 DEF WriteFailover, TypeOK, Goto, Executing
  <2>5. QED
    BY <2>3, <2>4
<1>6. CASE AcquireSlot(r) \/ ProviderAnswers(r) \/ Fail(r) \/ EndExecution(r)
  BY <1>6 DEF AcquireSlot, ProviderAnswers, Fail, EndExecution, TypeOK, Goto, Executing
<1>7. CASE UpdateSessionMetadata(r)
  <2>1. CASE Live(s)
    <3>1. PICK c \in Accounts \cup {NoAccount} :
            row' = [row EXCEPT ![s] = [row[s] EXCEPT !.cid = c]]
      BY <1>7, <2>1 DEF UpdateSessionMetadata
    <3>2. /\ [row[s] EXCEPT !.cid = c] \in Rows
          /\ [row[s] EXCEPT !.cid = c].account = row[s].account
      <4>1. row[s] \in Rows
        BY DEF TypeOK
      <4>2. [row[s] EXCEPT !.cid = c] \in Rows
        BY <4>1, RowFields
      <4>3. QED
        BY <4>1, <4>2 DEF Rows
    <3>3. /\ row' \in [Sessions -> Rows]
          /\ \A x \in Sessions : row'[x].state = "live" => row'[x].account \in Accounts
      BY <2>1, <3>1, <3>2, RowType DEF TypeOK, Live
    <3>4. QED
      BY <1>7, <3>3 DEF UpdateSessionMetadata, TypeOK, Goto, Executing
  <2>2. CASE ~Live(s)
    BY <1>7, <2>2 DEF UpdateSessionMetadata, TypeOK, Goto, Executing
  <2>3. QED
    BY <2>1, <2>2
<1>8. CASE AddUserMessage(r) \/ AddAssistantMessage(r)
  <2>1. log' \in [Sessions -> Seq(Messages)]
    BY <1>8, LogType DEF AddUserMessage, AddAssistantMessage
  <2>2. QED
    BY <1>8, <2>1 DEF AddUserMessage, AddAssistantMessage, TypeOK, Goto, Executing
<1>9. QED
  BY <1>1, <1>2, <1>3, <1>4, <1>5, <1>6, <1>7, <1>8 DEF Execute, Store

(* The other steps keep the types.                                         *)
LEMMA OtherType ==
  ASSUME TypeOK, [Next]_vars, \A r \in Sends : ~Execute(r)
  PROVE  TypeOK'
<1>1. ASSUME NEW s \in Sessions, NEW a \in Accounts, CreateSession(s, a)
      PROVE  TypeOK'
  <2> DEFINE v == [row[s] EXCEPT !.state = "live", !.account = a]
  <2>1. v \in Rows /\ v.account \in Accounts
    <3>1. row[s] \in Rows
      BY DEF TypeOK
    <3>2. v \in Rows
      BY <3>1, RowFields
    <3>3. QED
      BY <3>1, <3>2 DEF Rows
  <2>2. row' = [row EXCEPT ![s] = v]
    BY <1>1 DEF CreateSession, TypeOK
  <2>3. QED
    BY <1>1, <2>1, <2>2, RowType DEF CreateSession, TypeOK
<1>2. ASSUME NEW r \in Sends, BeginExecution(r) \/ RefuseBusy(r) \/ Cancel(r)
      PROVE  TypeOK'
  BY <1>2, SendsAreRequests
     DEF BeginExecution, RefuseBusy, Cancel, TypeOK, Goto, Executing
<1>3. ASSUME NEW d \in Deletes, DeleteChecks(d) \/ DeleteRow(d)
      PROVE  TypeOK'
  <2> DEFINE s == SessionOf[d]
  <2> d \in Requests /\ s \in Sessions
    BY SendsAreRequests
  <2>1. CASE DeleteChecks(d)
    BY <2>1 DEF DeleteChecks, TypeOK, Goto
  <2>2. CASE DeleteRow(d) /\ Live(s)
    <3>1. [row[s] EXCEPT !.state = "deleted"] \in Rows
          /\ [row[s] EXCEPT !.state = "deleted"].state # "live"
      <4>1. row[s] \in Rows
        BY DEF TypeOK
      <4>2. [row[s] EXCEPT !.state = "deleted"] \in Rows
        BY <4>1, RowFields
      <4>3. QED
        BY <4>1, <4>2 DEF Rows
    <3>2. row' = [row EXCEPT ![s] = [row[s] EXCEPT !.state = "deleted"]]
      BY <2>2 DEF DeleteRow, TypeOK
    <3>3. log' \in [Sessions -> Seq(Messages)]
      <4>1. log' = [log EXCEPT ![s] = <<>>]
        BY <2>2 DEF DeleteRow
      <4>2. log \in [Sessions -> Seq(Messages)] /\ <<>> \in Seq(Messages)
        BY EmptySeq DEF TypeOK
      <4>3. QED
        BY <4>1, <4>2
    <3>4. QED
      BY <2>2, <3>1, <3>2, <3>3, RowType DEF DeleteRow, TypeOK, Goto
  <2>3. CASE DeleteRow(d) /\ ~Live(s)
    BY <2>3 DEF DeleteRow, TypeOK, Goto
  <2>4. QED
    BY <1>3, <2>1, <2>2, <2>3
<1>4. ASSUME NEW t \in Renames, ReadForTitle(t) \/ WriteTitle(t)
      PROVE  TypeOK'
  <2> DEFINE s == SessionOf[t]
  <2> t \in Requests /\ s \in Sessions
    BY SendsAreRequests
  <2>1. CASE ReadForTitle(t)
    BY <2>1 DEF ReadForTitle, TypeOK, Goto
  <2>2. CASE WriteTitle(t) /\ Live(s)
    <3> DEFINE v == [row[s] EXCEPT !.renamed = TRUE, !.failovers = rec[t].failovers]
    <3>1. rec[t].failovers \in Nat /\ row[s] \in Rows
      BY DEF TypeOK, Rows
    <3>2. v \in Rows
      BY <3>1, RowFields
    <3>3. v.state = row[s].state /\ v.account = row[s].account
      BY <3>1 DEF Rows
    <3>4. row' = [row EXCEPT ![s] = v]
      BY <2>2, <3>1 DEF WriteTitle, TypeOK
    <3>5. /\ row' \in [Sessions -> Rows]
          /\ \A x \in Sessions : row'[x].state = "live" => row'[x].account \in Accounts
      BY <2>2, <3>2, <3>3, <3>4, RowType DEF TypeOK, Live
    <3>6. QED
      BY <2>2, <3>5 DEF WriteTitle, TypeOK, Goto
  <2>3. CASE WriteTitle(t) /\ ~Live(s)
    BY <2>3 DEF WriteTitle, TypeOK, Goto
  <2>4. QED
    BY <1>4, <2>1, <2>2, <2>3
<1>5. ASSUME NEW a \in Accounts, NEW st \in Statuses, SetStatus(a, st)
      PROVE  TypeOK'
  BY <1>5 DEF SetStatus, TypeOK
<1>6. CASE Crash
  BY <1>6 DEF Crash, TypeOK
<1>7. CASE UNCHANGED vars
  BY <1>7 DEF vars, TypeOK
<1>8. QED
  BY <1>1, <1>2, <1>3, <1>4, <1>5, <1>6, <1>7 DEF Next

-----------------------------------------------------------------------------
(* Single flight.                                                          *)

(* A step that moves no send in or out of its execution, and leaves the    *)
(* active ids alone, keeps single flight.                                  *)
LEMMA FlightStays ==
  ASSUME SingleFlight, active' = active,
         \A r \in Sends : pc'[r] \in Executing <=> pc[r] \in Executing
  PROVE  SingleFlight'
<1>1. \A s \in Sessions : ExecutingOn(s)' = ExecutingOn(s)
  BY DEF ExecutingOn
<1>2. QED
  BY <1>1 DEF SingleFlight

(* Initially no session is active.                                         *)
LEMMA FlightInit == Init => SingleFlight
BY SendsAreRequests DEF Init, SingleFlight, ExecutingOn, Executing

(* Every step keeps single flight.                                         *)
LEMMA FlightStep ==
  ASSUME TypeOK, SingleFlight, [Next]_vars
  PROVE  SingleFlight'
<1>1. ASSUME NEW r \in Sends, BeginExecution(r)
      PROVE  SingleFlight'
  <2> DEFINE s == SessionOf[r]
  <2>1. r \in Requests /\ s \in Sessions
    BY SendsAreRequests
  <2>2. /\ pc'[r] \in Executing
        /\ \A q \in Sends : q # r => pc'[q] = pc[q]
    BY <1>1, <2>1, SendsAreRequests, GotoFacts DEF BeginExecution, Executing
  <2>3. ExecutingOn(s) = {}
    BY <1>1, <2>1 DEF BeginExecution, SingleFlight
  <2>4. ExecutingOn(s)' = {r}
    BY <2>2, <2>3 DEF ExecutingOn
  <2>5. \A x \in Sessions : x # s => ExecutingOn(x)' = ExecutingOn(x)
    BY <2>2 DEF ExecutingOn
  <2>6. active' = active \cup {s}
    BY <1>1 DEF BeginExecution
  <2>7. QED
    BY <2>4, <2>5, <2>6 DEF SingleFlight
<1>2. ASSUME NEW r \in Sends, EndExecution(r)
      PROVE  SingleFlight'
  <2> DEFINE s == SessionOf[r]
  <2>1. r \in Requests /\ s \in Sessions
    BY SendsAreRequests
  <2>2. /\ pc[r] \in Executing /\ pc'[r] \notin Executing
        /\ \A q \in Sends : q # r => pc'[q] = pc[q]
    BY <1>2, <2>1, SendsAreRequests, GotoFacts DEF EndExecution, Executing
  <2>3. r \in ExecutingOn(s)
    BY <2>2 DEF ExecutingOn
  <2>4. \A q \in ExecutingOn(s) : q = r
    BY <2>1, <2>3 DEF SingleFlight
  <2>5. ExecutingOn(s)' = {}
    BY <2>2, <2>4 DEF ExecutingOn
  <2>6. \A x \in Sessions : x # s => ExecutingOn(x)' = ExecutingOn(x)
    BY <2>2 DEF ExecutingOn
  <2>7. active' = active \ {s}
    BY <1>2 DEF EndExecution
  <2>8. QED
    BY <2>5, <2>6, <2>7 DEF SingleFlight
<1>3. CASE Crash
  <2>1. \A r \in Sends : pc'[r] \notin Executing
    BY <1>3, SendsAreRequests DEF Crash, Executing
  <2>2. \A s \in Sessions : ExecutingOn(s)' = {}
    BY <2>1 DEF ExecutingOn
  <2>3. QED
    BY <1>3, <2>2 DEF Crash, SingleFlight
<1>4. ASSUME NEW r \in Sends,
             \/ RequireSession(r) \/ MaybeGetCachedResponse(r) \/ Resolve(r)
             \/ ReadForFailover(r) \/ WriteFailover(r)
             \/ AcquireSlot(r) \/ ProviderAnswers(r) \/ Fail(r)
             \/ Store(r) \/ Cancel(r) \/ RefuseBusy(r)
      PROVE  SingleFlight'
  <2>1. active' = active
    BY <1>4 DEF RequireSession, MaybeGetCachedResponse, Resolve, StayOnAccount,
                Unroutable, ChooseFallback, ReadForFailover, WriteFailover, AcquireSlot,
                ProviderAnswers, Fail, Store, UpdateSessionMetadata, AddUserMessage,
                AddAssistantMessage, Cancel, RefuseBusy
  <2>2. /\ pc[r] \in Executing <=> pc'[r] \in Executing
        /\ \A q \in Sends : q # r => pc'[q] = pc[q]
    BY <1>4, SendsAreRequests
       DEF RequireSession, MaybeGetCachedResponse, Resolve, StayOnAccount,
           Unroutable, ChooseFallback, ReadForFailover, WriteFailover, AcquireSlot,
           ProviderAnswers, Fail, Store, UpdateSessionMetadata, AddUserMessage,
           AddAssistantMessage, Cancel, RefuseBusy, Goto, Executing, TypeOK
  <2>3. QED
    BY <2>1, <2>2, FlightStays
<1>5. ASSUME NEW r \in Deletes \cup Renames,
             DeleteChecks(r) \/ DeleteRow(r) \/ ReadForTitle(r) \/ WriteTitle(r)
      PROVE  SingleFlight'
  <2>1. active' = active
    BY <1>5 DEF DeleteChecks, DeleteRow, ReadForTitle, WriteTitle
  <2>2. \A q \in Sends : pc'[q] = pc[q]
    BY <1>5, SendsAreRequests DEF DeleteChecks, DeleteRow, ReadForTitle, WriteTitle, Goto, TypeOK
  <2>3. QED
    BY <2>1, <2>2, FlightStays
<1>6. CASE \/ \E s \in Sessions, a \in Accounts : CreateSession(s, a)
           \/ \E a \in Accounts, st \in Statuses : SetStatus(a, st)
           \/ UNCHANGED vars
  BY <1>6, FlightStays DEF CreateSession, SetStatus, vars
<1>7. QED
  BY <1>1, <1>2, <1>3, <1>4, <1>5, <1>6 DEF Next, Execute

-----------------------------------------------------------------------------
(* Records.                                                                *)

(* A send at work changes nothing that belongs to other requests and       *)
(* other sessions.                                                         *)
LEMMA ExecuteFrame ==
  ASSUME TypeOK, NEW r \in Sends, Execute(r)
  PROVE  /\ pc[r] \in Executing
         /\ \A q \in Sends : q # r =>
              pc'[q] = pc[q] /\ rec'[q] = rec[q] /\ target'[q] = target[q]
         /\ \A x \in Sessions : x # SessionOf[r] => row'[x] = row[x] /\ log'[x] = log[x]
<1>1. pc[r] \in Executing /\ \A q \in Sends : q # r => pc'[q] = pc[q]
  BY SendsAreRequests
     DEF Execute, RequireSession, MaybeGetCachedResponse, Resolve, StayOnAccount,
         Unroutable, ChooseFallback, ReadForFailover, WriteFailover, AcquireSlot,
         ProviderAnswers, Fail, Store, UpdateSessionMetadata, AddUserMessage,
         AddAssistantMessage, EndExecution, Goto, Executing, TypeOK
<1>2. \A q \in Sends : q # r => rec'[q] = rec[q] /\ target'[q] = target[q]
  BY SendsAreRequests
     DEF Execute, RequireSession, MaybeGetCachedResponse, Resolve, StayOnAccount,
         Unroutable, ChooseFallback, ReadForFailover, WriteFailover, AcquireSlot,
         ProviderAnswers, Fail, Store, UpdateSessionMetadata, AddUserMessage,
         AddAssistantMessage, EndExecution, TypeOK
<1>3. \A x \in Sessions : x # SessionOf[r] => row'[x] = row[x] /\ log'[x] = log[x]
  BY SendsAreRequests
     DEF Execute, RequireSession, MaybeGetCachedResponse, Resolve, StayOnAccount,
         Unroutable, ChooseFallback, ReadForFailover, WriteFailover, AcquireSlot,
         ProviderAnswers, Fail, Store, UpdateSessionMetadata, AddUserMessage,
         AddAssistantMessage, EndExecution, AddMessage, TypeOK
<1>4. QED
  BY <1>1, <1>2, <1>3

(* While a send is at work on its session, no other send is.               *)
LEMMA Alone ==
  ASSUME SingleFlight, NEW r \in Sends, NEW q \in Sends, q # r,
         pc[r] \in Executing, SessionOf[q] = SessionOf[r]
  PROVE  pc[q] \notin Executing
BY SendsAreRequests DEF SingleFlight, ExecutingOn

(* A record stays current when its request does nothing and the row of its *)
(* session keeps its account and conversation, or goes.                    *)
LEMMA RecordStays ==
  ASSUME NEW q \in Sends, RecordCurrent(q),
         pc'[q] = pc[q], rec'[q] = rec[q], target'[q] = target[q],
         row[SessionOf[q]].state # "new" =>
           /\ row'[SessionOf[q]].state # "new"
           /\ row'[SessionOf[q]].state = "live" =>
                /\ row[SessionOf[q]].state = "live"
                /\ row'[SessionOf[q]].account = row[SessionOf[q]].account
                /\ row'[SessionOf[q]].cid = row[SessionOf[q]].cid
  PROVE  RecordCurrent(q)'
BY DEF RecordCurrent, Live, Holding, Executing

(* A step of one send keeps its own record current.                        *)
LEMMA OwnRecord ==
  ASSUME TypeOK, NEW r \in Sends, RecordCurrent(r), Execute(r)
  PROVE  RecordCurrent(r)'
<1> DEFINE s == SessionOf[r]
<1>0. r \in Requests /\ s \in Sessions
  BY SendsAreRequests
<1>1. CASE RequireSession(r)
  <2>1. row' = row /\ (Live(s) => pc'[r] = "loaded" /\ rec'[r] = row[s])
    BY <1>0, <1>1 DEF RequireSession, Goto, TypeOK
  <2>2. ~Live(s) => pc'[r] = "leaving"
    BY <1>0, <1>1 DEF RequireSession, Goto, TypeOK
  <2>3. Live(s) => row[s].account \in Accounts
    BY <1>0 DEF TypeOK, Live
  <2>4. QED
    BY <2>1, <2>2, <2>3 DEF RecordCurrent, Live, Holding, Executing
<1>2. CASE MaybeGetCachedResponse(r)
  BY <1>0, <1>2 DEF MaybeGetCachedResponse, RecordCurrent, Live, Holding, Executing,
                    Goto, TypeOK
<1>3. CASE Resolve(r)
  <2>1. pc[r] = "routing" /\ row' = row /\ rec' = rec
    BY <1>3 DEF Resolve, StayOnAccount, Unroutable, ChooseFallback, Goto
  <2>2. rec[r].account \in Accounts
    BY <2>1 DEF RecordCurrent, Holding, Executing
  <2>3. CASE StayOnAccount(r)
    <3>1. pc'[r] = "routed" /\ target'[r] = rec[r].account
      BY <1>0, <2>3 DEF StayOnAccount, Goto, TypeOK
    <3>2. QED
      BY <2>1, <2>2, <3>1 DEF RecordCurrent, Live, Holding, Executing
  <2>4. CASE Unroutable(r)
    <3>1. pc'[r] = "leaving"
      BY <1>0, <2>4 DEF Unroutable, Goto, TypeOK
    <3>2. QED
      BY <3>1 DEF RecordCurrent, Holding, Executing
  <2>5. CASE \E a \in Accounts : ChooseFallback(r, a)
    <3>1. /\ pc'[r] = "rerouting" /\ s \in AllowFailover
          /\ target'[r] \in Accounts \ {rec[r].account}
      BY <1>0, <2>5 DEF ChooseFallback, Goto, TypeOK
    <3>2. QED
      BY <2>1, <2>2, <3>1 DEF RecordCurrent, Live, Holding, Executing
  <2>6. QED
    BY <1>3, <2>3, <2>4, <2>5 DEF Resolve
<1>4. CASE ReadForFailover(r)
  <2>1. pc[r] = "rerouting" /\ row' = row /\ target' = target
    BY <1>4 DEF ReadForFailover, Goto
  <2>2. CASE Live(s)
    <3>1. pc'[r] = "moving" /\ rec'[r] = row[s] /\ row[s].account \in Accounts
      BY <1>0, <1>4, <2>2 DEF ReadForFailover, Goto, TypeOK, Live
    <3>2. QED
      BY <2>1, <2>2, <3>1 DEF RecordCurrent, Live, Holding, Executing
  <2>3. CASE ~Live(s)
    <3>1. pc'[r] = "routed" /\ rec' = rec
      BY <1>0, <1>4, <2>3 DEF ReadForFailover, Goto, TypeOK
    <3>2. QED
      BY <2>1, <2>3, <3>1 DEF RecordCurrent, Live, Holding, Executing
  <2>4. QED
    BY <2>2, <2>3
<1>5. CASE WriteFailover(r)
  <2> DEFINE moved == [rec[r] EXCEPT !.account = target[r], !.cid = NoAccount,
                                     !.failovers = @ + 1]
  <2>1. pc[r] = "moving" /\ rec'[r] = moved /\ target' = target /\ rec[r] \in Rows
    BY <1>0, <1>5 DEF WriteFailover, Goto, TypeOK
  <2>2. moved.state = "live" /\ moved.account = target[r] /\ target[r] \in Accounts
    BY <2>1 DEF RecordCurrent, Holding, Executing, Rows
  <2>3. CASE Live(s)
    <3>1. pc'[r] = "routed" /\ row'[s] = moved
      BY <1>0, <1>5, <2>3 DEF WriteFailover, Goto, TypeOK
    <3>2. QED
      BY <2>1, <2>2, <3>1 DEF RecordCurrent, Live, Holding, Executing
  <2>4. CASE ~Live(s)
    <3>1. pc'[r] = "leaving"
      BY <1>0, <1>5, <2>4 DEF WriteFailover, Goto, TypeOK
    <3>2. QED
      BY <3>1 DEF RecordCurrent, Holding, Executing
  <2>5. QED
    BY <2>3, <2>4
<1>6. CASE AcquireSlot(r) \/ ProviderAnswers(r)
  BY <1>0, <1>6 DEF AcquireSlot, ProviderAnswers, RecordCurrent, Live, Holding, Executing,
                    Goto, TypeOK
<1>7. CASE Fail(r) \/ AddAssistantMessage(r) \/ EndExecution(r)
  <2>1. pc'[r] \in {"leaving", "done"}
    BY <1>0, <1>7 DEF Fail, AddAssistantMessage, EndExecution, Goto, TypeOK
  <2>2. QED
    BY <2>1 DEF RecordCurrent, Holding, Executing
<1>8. CASE UpdateSessionMetadata(r)
  <2>1. pc[r] = "answered" /\ pc'[r] = "remembered"
    BY <1>0, <1>8 DEF UpdateSessionMetadata, Goto, TypeOK
  <2>2. row'[s].state = row[s].state
    <3>1. row[s] \in Rows
      BY <1>0 DEF TypeOK
    <3>2. row'[s] = row[s] \/ \E c : row'[s] = [row[s] EXCEPT !.cid = c]
      BY <1>0, <1>8 DEF UpdateSessionMetadata, TypeOK
    <3>3. QED
      BY <3>1, <3>2 DEF Rows
  <2>3. QED
    BY <2>1, <2>2 DEF RecordCurrent, Live, Holding, Executing
<1>9. CASE AddUserMessage(r)
  <2>1. pc[r] = "remembered" /\ pc'[r] = "asked" /\ row' = row
    BY <1>0, <1>9 DEF AddUserMessage, Goto, TypeOK
  <2>2. QED
    BY <2>1 DEF RecordCurrent, Live, Holding, Executing
<1>10. QED
  BY <1>1, <1>2, <1>3, <1>4, <1>5, <1>6, <1>7, <1>8, <1>9 DEF Execute, Store

(* Initially no request holds a record.                                    *)
LEMMA RecordsInit == Init => RecordsCurrent
BY SendsAreRequests DEF Init, RecordsCurrent, RecordCurrent, Holding, Executing

(* Every step keeps the records current.                                   *)
LEMMA RecordsStep ==
  ASSUME TypeOK, SingleFlight, RecordsCurrent, [Next]_vars
  PROVE  RecordsCurrent'
<1> SUFFICES ASSUME NEW q \in Sends PROVE RecordCurrent(q)'
  BY DEF RecordsCurrent
<1> DEFINE s == SessionOf[q]
<1>0. q \in Requests /\ s \in Sessions /\ RecordCurrent(q) /\ row[s] \in Rows
  BY SendsAreRequests DEF RecordsCurrent, TypeOK
<1>1. CASE Execute(q)
  BY <1>0, <1>1, OwnRecord
<1>2. ASSUME NEW r \in Sends, Execute(r), r # q
      PROVE  RecordCurrent(q)'
  <2>1. pc[r] \in Executing /\ pc'[q] = pc[q] /\ rec'[q] = rec[q] /\ target'[q] = target[q]
    BY <1>2, ExecuteFrame
  <2>2. CASE SessionOf[r] = s
    <3>1. pc[q] \notin Executing
      BY <1>2, <2>1, <2>2, Alone
    <3>2. QED
      BY <2>1, <3>1 DEF RecordCurrent, Holding, Executing
  <2>3. CASE SessionOf[r] # s
    <3>1. row'[s] = row[s]
      BY <1>0, <1>2, <2>3, ExecuteFrame
    <3>2. QED
      BY <1>0, <2>1, <3>1, RecordStays
  <2>4. QED
    BY <2>2, <2>3
<1>3. ASSUME NEW x \in Sessions, NEW a \in Accounts, CreateSession(x, a)
      PROVE  RecordCurrent(q)'
  <2>1. row[x].state = "new" /\ \A y \in Sessions : y # x => row'[y] = row[y]
    BY <1>3 DEF CreateSession, TypeOK
  <2>2. pc' = pc /\ rec' = rec /\ target' = target
    BY <1>3 DEF CreateSession
  <2>3. QED
    BY <1>0, <2>1, <2>2, RecordStays
<1>4. ASSUME NEW r \in Sends, BeginExecution(r) \/ RefuseBusy(r) \/ Cancel(r)
      PROVE  RecordCurrent(q)'
  <2>1. row' = row /\ rec' = rec /\ target' = target
    BY <1>4 DEF BeginExecution, RefuseBusy, Cancel
  <2>2. CASE r = q
    <3>1. pc'[q] \in {"entered", "done", "leaving"}
      BY <1>0, <1>4, <2>2 DEF BeginExecution, RefuseBusy, Cancel, Goto, TypeOK
    <3>2. QED
      BY <3>1 DEF RecordCurrent, Holding, Executing
  <2>3. CASE r # q
    <3>1. pc'[q] = pc[q]
      BY <1>0, <1>4, <2>3, SendsAreRequests
         DEF BeginExecution, RefuseBusy, Cancel, Goto, TypeOK
    <3>2. QED
      BY <1>0, <2>1, <3>1, RecordStays
  <2>4. QED
    BY <2>2, <2>3
<1>5. ASSUME NEW d \in Deletes, DeleteChecks(d) \/ DeleteRow(d)
      PROVE  RecordCurrent(q)'
  <2>1. pc'[q] = pc[q] /\ rec' = rec /\ target' = target
    BY <1>0, <1>5, SendsAreRequests DEF DeleteChecks, DeleteRow, Goto, TypeOK
  <2>2. row'[s] = row[s] \/ row'[s].state = "deleted"
    BY <1>0, <1>5, SendsAreRequests DEF DeleteChecks, DeleteRow, TypeOK, Rows
  <2>3. QED
    BY <1>0, <2>1, <2>2, RecordStays
<1>6. ASSUME NEW t \in Renames, ReadForTitle(t) \/ WriteTitle(t)
      PROVE  RecordCurrent(q)'
  <2>1. pc'[q] = pc[q] /\ rec'[q] = rec[q] /\ target' = target
    BY <1>0, <1>6, SendsAreRequests DEF ReadForTitle, WriteTitle, Goto, TypeOK
  <2>2. /\ row'[s].state = row[s].state
        /\ row'[s].account = row[s].account
        /\ row'[s].cid = row[s].cid
    <3>1. CASE ReadForTitle(t)
      BY <3>1 DEF ReadForTitle
    <3>2. CASE WriteTitle(t) /\ row' = row
      BY <3>2
    <3>3. CASE WriteTitle(t) /\ row' # row
      <4>1. row' = [row EXCEPT ![SessionOf[t]] =
                      [row[SessionOf[t]] EXCEPT !.renamed = TRUE,
                                                !.failovers = rec[t].failovers]]
        BY <3>3 DEF WriteTitle, TypeOK
      <4>2. row'[s] = row[s] \/ row'[s] = [row[s] EXCEPT !.renamed = TRUE,
                                                        !.failovers = rec[t].failovers]
        BY <1>0, <4>1 DEF TypeOK
      <4>3. QED
        BY <1>0, <4>2 DEF Rows
    <3>4. QED
      BY <1>6, <3>1, <3>2, <3>3
  <2>3. QED
    BY <1>0, <2>1, <2>2, RecordStays
<1>7. CASE \/ \E a \in Accounts, st \in Statuses : SetStatus(a, st)
           \/ UNCHANGED vars
  BY <1>0, <1>7, RecordStays DEF SetStatus, vars
<1>8. CASE Crash
  <2>1. pc'[q] \in {"idle", "done"}
    BY <1>0, <1>8 DEF Crash
  <2>2. QED
    BY <2>1 DEF RecordCurrent, Holding, Executing
<1>9. QED
  BY <1>1, <1>2, <1>3, <1>4, <1>5, <1>6, <1>7, <1>8 DEF Next

-----------------------------------------------------------------------------
(* Idempotency keys.                                                       *)

(* The answers to a key depend on the history of the session alone.        *)
LEMMA SameAnswers ==
  ASSUME NEW s, NEW k, log'[s] = log[s]
  PROVE  AnswersTo(s, k)' = AnswersTo(s, k)
BY DEF AnswersTo

(* KeysFresh, of one send and of one session.                              *)
KeyFresh(r) ==
  pc[r] \in Executing \ {"entered", "loaded", "leaving"} /\ KeyOf[r] # NoKey
    => AnswersTo(SessionOf[r], KeyOf[r]) = {}

KeysOnce(s) ==
  \A i, j \in DOMAIN log[s] :
    /\ log[s][i].role = "assistant" /\ log[s][j].role = "assistant"
    /\ KeyOf[log[s][i].by] # NoKey
    /\ KeyOf[log[s][i].by] = KeyOf[log[s][j].by]
    => i = j

(* KeysFresh says just that of all of them.                                *)
LEMMA KeysFreshParts ==
  KeysFresh <=> (\A r \in Sends : KeyFresh(r)) /\ (\A s \in Sessions : KeysOnce(s))
BY DEF KeysFresh, KeyFresh, KeysOnce

(* Appending a message: the history before it, and the message itself.     *)
LEMMA Appended ==
  ASSUME TypeOK, NEW r \in Sends, NEW role \in {"user", "assistant"},
         AddMessage(r, role)
  PROVE  LET s == SessionOf[r]
             n == Len(log[s])
         IN /\ n \in Nat
            /\ DOMAIN log[s] = 1..n
            /\ DOMAIN log'[s] = 1..(n + 1)
            /\ \A i \in 1..n : log'[s][i] = log[s][i]
            /\ log'[s][n + 1] = [role |-> role, by |-> r]
            /\ Len(log'[s]) = n + 1
<1> DEFINE s == SessionOf[r]
           m == [role |-> role, by |-> r]
<1>1. s \in Sessions /\ log[s] \in Seq(Messages) /\ m \in Messages
  BY SendsAreRequests DEF TypeOK, Messages
<1>2. log'[s] = Append(log[s], m)
  BY <1>1 DEF AddMessage, TypeOK
<1>3. /\ Len(log[s]) \in Nat
      /\ DOMAIN log[s] = 1..Len(log[s])
  BY <1>1, LenProperties
<1>4. /\ Len(log'[s]) = Len(log[s]) + 1
      /\ \A i \in 1..Len(log[s]) : log'[s][i] = log[s][i]
      /\ log'[s][Len(log[s]) + 1] = m
      /\ log'[s] \in Seq(Messages)
  BY <1>1, <1>2, AppendProperties
<1>5. DOMAIN log'[s] = 1..(Len(log[s]) + 1)
  BY <1>4, LenProperties
<1>6. QED
  BY <1>3, <1>4, <1>5

(* A question answers nothing; the first answer to a key, stored by the    *)
(* only request at work on the session, is its only one.                   *)
LEMMA KeysOnAppend ==
  ASSUME TypeOK, NEW r \in Sends, NEW role \in {"user", "assistant"},
         AddMessage(r, role), KeysOnce(SessionOf[r]),
         role = "assistant" => KeyFresh(r) /\ pc[r] = "asked"
  PROVE  /\ KeysOnce(SessionOf[r])'
         /\ role = "user" => \A k : AnswersTo(SessionOf[r], k)' = AnswersTo(SessionOf[r], k)
<1> DEFINE s == SessionOf[r]
           n == Len(log[s])
<1>1. /\ n \in Nat
      /\ DOMAIN log[s] = 1..n
      /\ DOMAIN log'[s] = 1..(n + 1)
      /\ \A i \in 1..n : log'[s][i] = log[s][i]
      /\ log'[s][n + 1] = [role |-> role, by |-> r]
  BY Appended
<1>2. \A i \in 1..(n + 1) : i \in 1..n \/ i = n + 1
  BY <1>1
<1>3. CASE role = "user"
  <2>1. log'[s][n + 1].role = "user"
    BY <1>1, <1>3
  <2>2. KeysOnce(s)'
    BY <1>1, <1>2, <2>1 DEF KeysOnce
  <2>3. ASSUME NEW k PROVE AnswersTo(s, k)' = AnswersTo(s, k)
    <3>1. \A i \in 1..n : i \in 1..(n + 1)
      BY <1>1
    <3>2. QED
      BY <1>1, <1>2, <2>1, <3>1 DEF AnswersTo
  <2>4. QED
    BY <2>2, <2>3
<1>4. CASE role = "assistant"
  <2>1. log'[s][n + 1].by = r
    BY <1>1
  <2>2. ASSUME NEW i \in 1..n, log[s][i].role = "assistant", KeyOf[r] # NoKey
        PROVE  KeyOf[log[s][i].by] # KeyOf[r]
    BY <1>1, <1>4, <2>2 DEF KeyFresh, AnswersTo, Executing
  <2>3. KeysOnce(s)'
    <3> SUFFICES ASSUME NEW i \in 1..(n + 1), NEW j \in 1..(n + 1),
                        log'[s][i].role = "assistant", log'[s][j].role = "assistant",
                        KeyOf[log'[s][i].by] # NoKey,
                        KeyOf[log'[s][i].by] = KeyOf[log'[s][j].by]
                 PROVE  i = j
      BY <1>1 DEF KeysOnce
    <3>1. CASE i \in 1..n /\ j \in 1..n
      BY <1>1, <3>1 DEF KeysOnce
    <3>2. CASE i \in 1..n /\ j = n + 1
      BY <1>1, <2>1, <2>2, <3>2
    <3>3. CASE i = n + 1 /\ j \in 1..n
      BY <1>1, <2>1, <2>2, <3>3
    <3>4. QED
      BY <1>2, <3>1, <3>2, <3>3
  <2>4. QED
    BY <1>4, <2>3
<1>5. QED
  BY <1>3, <1>4

(* Keys stay fresh in a step that stores nothing and lets no send past its *)
(* look at the stored answers.                                             *)
LEMMA KeysStay ==
  ASSUME KeysFresh, log' = log,
         \A r \in Sends :
           pc'[r] \in Executing \ {"entered", "loaded", "leaving"} =>
             \/ pc[r] \in Executing \ {"entered", "loaded", "leaving"}
             \/ KeyOf[r] = NoKey \/ AnswersTo(SessionOf[r], KeyOf[r]) = {}
  PROVE  KeysFresh'
<1>1. \A s, k : AnswersTo(s, k)' = AnswersTo(s, k)
  BY SameAnswers
<1>2. QED
  BY <1>1 DEF KeysFresh

(* Initially nothing is answered.                                          *)
LEMMA KeysInit == Init => KeysFresh
<1> SUFFICES ASSUME Init PROVE KeysFresh
  OBVIOUS
<1>1. \A r \in Sends : pc[r] = "idle"
  BY SendsAreRequests DEF Init
<1>2. \A s \in Sessions : DOMAIN log[s] = {}
  BY DEF Init
<1>3. QED
  BY <1>1, <1>2 DEF KeysFresh, Executing

(* A send at work keeps the keys fresh.                                    *)
LEMMA ExecuteKeys ==
  ASSUME TypeOK, SingleFlight, KeysFresh, NEW r \in Sends, Execute(r)
  PROVE  KeysFresh'
<1> DEFINE s == SessionOf[r]
<1>0. r \in Requests /\ s \in Sessions
  BY SendsAreRequests
<1>1. CASE MaybeGetCachedResponse(r)
  <2>1. log' = log /\ \A q \in Sends : q # r => pc'[q] = pc[q]
    BY <1>0, <1>1, SendsAreRequests DEF MaybeGetCachedResponse, Goto, TypeOK
  <2>2. \/ pc'[r] = "leaving"
        \/ KeyOf[r] = NoKey \/ AnswersTo(s, KeyOf[r]) = {}
    BY <1>0, <1>1 DEF MaybeGetCachedResponse, Goto, TypeOK
  <2>3. QED
    BY <2>1, <2>2, KeysStay
<1>2. CASE \/ RequireSession(r) \/ Resolve(r) \/ ReadForFailover(r) \/ WriteFailover(r)
           \/ AcquireSlot(r) \/ ProviderAnswers(r) \/ Fail(r)
           \/ UpdateSessionMetadata(r) \/ EndExecution(r)
  <2>1. log' = log
    BY <1>2 DEF RequireSession, Resolve, StayOnAccount, Unroutable, ChooseFallback,
                ReadForFailover, WriteFailover, AcquireSlot, ProviderAnswers, Fail,
                UpdateSessionMetadata, EndExecution
  <2>2. \A q \in Sends : pc'[q] = pc[q]
          \/ pc'[q] \in {"loaded", "leaving", "done"}
          \/ pc[q] \in Executing \ {"entered", "loaded", "leaving"}
    BY <1>0, <1>2, SendsAreRequests
       DEF RequireSession, Resolve, StayOnAccount, Unroutable, ChooseFallback,
           ReadForFailover, WriteFailover, AcquireSlot, ProviderAnswers, Fail,
           UpdateSessionMetadata, EndExecution, Goto, TypeOK, Executing
  <2>3. QED
    BY <2>1, <2>2, KeysStay DEF Executing
<1>3. ASSUME NEW role \in {"user", "assistant"}, AddMessage(r, role),
             role = "user" => AddUserMessage(r),
             role = "assistant" => AddAssistantMessage(r)
      PROVE  KeysFresh'
  <2>1. KeyFresh(r) /\ KeysOnce(s)
    BY <1>0, KeysFreshParts
  <2>2. /\ role = "user" => pc[r] = "remembered"
        /\ role = "assistant" => pc[r] = "asked" /\ pc'[r] = "leaving"
    BY <1>0, <1>3 DEF AddUserMessage, AddAssistantMessage, Goto, TypeOK
  <2>3. /\ KeysOnce(s)'
        /\ role = "user" => \A k : AnswersTo(s, k)' = AnswersTo(s, k)
    BY <1>3, <2>1, <2>2, KeysOnAppend
  <2>4. ASSUME NEW x \in Sessions PROVE KeysOnce(x)'
    <3>1. CASE x = s
      BY <2>3, <3>1
    <3>2. CASE x # s
      <4>1. log'[x] = log[x] /\ KeysOnce(x)
        BY <3>2, ExecuteFrame, KeysFreshParts
      <4>2. QED
        BY <4>1 DEF KeysOnce
    <3>3. QED
      BY <3>1, <3>2
  <2>5. ASSUME NEW q \in Sends PROVE KeyFresh(q)'
    <3>0. KeyFresh(q) /\ SessionOf[q] \in Sessions
      BY SendsAreRequests, KeysFreshParts
    <3>1. CASE SessionOf[q] # s
      <4>1. pc'[q] = pc[q] /\ log'[SessionOf[q]] = log[SessionOf[q]]
        BY <3>0, <3>1, ExecuteFrame
      <4>2. AnswersTo(SessionOf[q], KeyOf[q])' = AnswersTo(SessionOf[q], KeyOf[q])
        BY <4>1, SameAnswers
      <4>3. QED
        BY <3>0, <4>1, <4>2 DEF KeyFresh
    <3>2. CASE SessionOf[q] = s /\ q # r
      <4>1. pc'[q] = pc[q] /\ pc[r] \in Executing
        BY <3>2, ExecuteFrame
      <4>2. pc[q] \notin Executing
        BY <3>2, <4>1, Alone
      <4>3. QED
        BY <4>1, <4>2 DEF KeyFresh
    <3>3. CASE q = r /\ role = "assistant"
      BY <2>2, <3>3 DEF KeyFresh, Executing
    <3>4. CASE q = r /\ role = "user"
      <4>1. AnswersTo(s, KeyOf[r])' = AnswersTo(s, KeyOf[r])
        BY <2>3, <3>4
      <4>2. QED
        BY <2>1, <2>2, <3>4, <4>1 DEF KeyFresh, Executing
    <3>5. QED
      BY <1>3, <3>1, <3>2, <3>3, <3>4
  <2>6. QED
    BY <2>4, <2>5 DEF KeysFresh, KeyFresh, KeysOnce
<1>4. CASE AddUserMessage(r)
  BY <1>3, <1>4 DEF AddUserMessage
<1>5. CASE AddAssistantMessage(r)
  BY <1>3, <1>5 DEF AddAssistantMessage
<1>6. QED
  BY <1>1, <1>2, <1>4, <1>5 DEF Execute, Store

(* Every step keeps the keys fresh.                                        *)
LEMMA KeysStep ==
  ASSUME TypeOK, SingleFlight, KeysFresh, [Next]_vars
  PROVE  KeysFresh'
<1>1. ASSUME NEW r \in Sends, Execute(r) PROVE KeysFresh'
  BY <1>1, ExecuteKeys
<1>2. ASSUME NEW d \in Deletes, DeleteRow(d) PROVE KeysFresh'
  <2>1. pc[d] # "idle" /\ \A q \in Sends : pc'[q] = pc[q]
    BY <1>2, SendsAreRequests DEF DeleteRow, Goto, TypeOK
  <2>2. \A x \in Sessions : log'[x] = log[x] \/ log'[x] = <<>>
    BY <1>2 DEF DeleteRow, TypeOK
  <2>3. \A x \in Sessions : log'[x] = <<>> => DOMAIN log'[x] = {}
    OBVIOUS
  <2>4. ASSUME NEW x \in Sessions PROVE KeysOnce(x)'
    BY <2>2, <2>3, KeysFreshParts DEF KeysOnce
  <2>5. ASSUME NEW q \in Sends PROVE KeyFresh(q)'
    <3>1. SessionOf[q] \in Sessions /\ KeyFresh(q)
      BY SendsAreRequests, KeysFreshParts
    <3>2. CASE log'[SessionOf[q]] = <<>>
      BY <2>3, <3>1, <3>2 DEF KeyFresh, AnswersTo
    <3>3. CASE log'[SessionOf[q]] = log[SessionOf[q]]
      BY <2>1, <3>1, <3>3, SameAnswers DEF KeyFresh
    <3>4. QED
      BY <2>2, <3>1, <3>2, <3>3
  <2>6. QED
    BY <2>4, <2>5 DEF KeysFresh, KeyFresh, KeysOnce
<1>3. CASE \/ \E s \in Sessions, a \in Accounts : CreateSession(s, a)
           \/ \E r \in Sends : BeginExecution(r) \/ RefuseBusy(r) \/ Cancel(r)
           \/ \E d \in Deletes : DeleteChecks(d)
           \/ \E t \in Renames : ReadForTitle(t) \/ WriteTitle(t)
           \/ \E a \in Accounts, st \in Statuses : SetStatus(a, st)
           \/ Crash \/ UNCHANGED vars
  <2>1. log' = log
    BY <1>3 DEF CreateSession, BeginExecution, RefuseBusy, Cancel, DeleteChecks,
                ReadForTitle, WriteTitle, SetStatus, Crash, vars
  <2>2. ASSUME NEW q \in Sends
        PROVE  pc'[q] = pc[q] \/ pc'[q] \in {"idle", "entered", "leaving", "done"}
    <3>1. q \in Requests /\ pc = [x \in Requests |-> pc[x]]
      BY SendsAreRequests DEF TypeOK
    <3>2. ASSUME NEW r \in Sends, BeginExecution(r) \/ RefuseBusy(r) \/ Cancel(r)
          PROVE  pc'[q] = pc[q] \/ pc'[q] \in {"idle", "entered", "leaving", "done"}
      BY <3>1, <3>2 DEF BeginExecution, RefuseBusy, Cancel, Goto
    <3>3. ASSUME NEW d \in Deletes, DeleteChecks(d)
          PROVE  pc'[q] = pc[q] \/ pc'[q] \in {"idle", "entered", "leaving", "done"}
      BY <3>1, <3>3, SendsAreRequests DEF DeleteChecks, Goto
    <3>4. ASSUME NEW t \in Renames, ReadForTitle(t) \/ WriteTitle(t)
          PROVE  pc'[q] = pc[q] \/ pc'[q] \in {"idle", "entered", "leaving", "done"}
      BY <3>1, <3>4, SendsAreRequests DEF ReadForTitle, WriteTitle, Goto
    <3>5. CASE Crash
      BY <3>1, <3>5 DEF Crash
    <3>6. CASE \/ \E s \in Sessions, a \in Accounts : CreateSession(s, a)
               \/ \E a \in Accounts, st \in Statuses : SetStatus(a, st)
               \/ UNCHANGED vars
      BY <3>6 DEF CreateSession, SetStatus, vars
    <3>7. QED
      BY <1>3, <3>2, <3>3, <3>4, <3>5, <3>6
  <2>3. QED
    BY <2>1, <2>2, KeysStay DEF Executing
<1>4. QED
  BY <1>1, <1>2, <1>3 DEF Next

-----------------------------------------------------------------------------
(* Histories.                                                              *)

(* AnswersFollowQuestions and JustAsked, of one session and of one send.   *)
Paired(s) ==
  Live(s) => \A i \in DOMAIN log[s] : log[s][i].role = "assistant" =>
    i > 1 /\ log[s][i - 1] = [role |-> "user", by |-> log[s][i].by]

AskedLast(r) ==
  pc[r] = "asked" /\ Live(SessionOf[r]) =>
    LET h == log[SessionOf[r]]
    IN h # <<>> /\ h[Len(h)] = [role |-> "user", by |-> r]

(* The invariants of the histories say just that of all of them.           *)
LEMMA HistoryParts ==
  /\ AnswersFollowQuestions <=> \A s \in Sessions : Paired(s)
  /\ JustAsked <=> \A r \in Sends : AskedLast(r)
BY DEF AnswersFollowQuestions, Paired, JustAsked, AskedLast

(* Initially there are no messages.                                        *)
LEMMA HistoryInit == Init => NewIsUnused /\ JustAsked /\ AnswersFollowQuestions
BY SendsAreRequests
   DEF Init, NewRow, NewIsUnused, JustAsked, AnswersFollowQuestions, Live

(* A question can be appended to a history of answered questions; an       *)
(* answer, if its question is the last message.                            *)
LEMMA PairedOnAppend ==
  ASSUME TypeOK, NEW r \in Sends, NEW role \in {"user", "assistant"},
         AddMessage(r, role), row' = row, Paired(SessionOf[r]),
         role = "assistant" => AskedLast(r) /\ pc[r] = "asked"
  PROVE  /\ Paired(SessionOf[r])'
         /\ role = "user" => /\ log'[SessionOf[r]] # <<>>
                             /\ log'[SessionOf[r]][Len(log'[SessionOf[r]])]
                                  = [role |-> "user", by |-> r]
<1> DEFINE s == SessionOf[r]
           n == Len(log[s])
<1>1. /\ n \in Nat
      /\ DOMAIN log[s] = 1..n
      /\ DOMAIN log'[s] = 1..(n + 1)
      /\ \A i \in 1..n : log'[s][i] = log[s][i]
      /\ log'[s][n + 1] = [role |-> role, by |-> r]
      /\ Len(log'[s]) = n + 1
  BY Appended
<1>2. log'[s] # <<>>
  BY <1>1
<1>3. log'[s][n + 1].role = role /\ log'[s][n + 1].by = r
  BY <1>1
<1>4. ASSUME Live(s), role = "assistant"
      PROVE  n > 0 /\ log[s][n] = [role |-> "user", by |-> r]
  <2>1. log[s] # <<>> /\ log[s][n] = [role |-> "user", by |-> r]
    BY <1>4 DEF AskedLast
  <2>2. log[s] \in Seq(Messages)
    BY SendsAreRequests DEF TypeOK
  <2>3. n # 0
    BY <2>1, <2>2, EmptySeq
  <2>4. QED
    BY <1>1, <2>1, <2>3
<1>5. Paired(s)'
  <2> SUFFICES ASSUME Live(s), NEW i \in 1..(n + 1), log'[s][i].role = "assistant"
               PROVE  i > 1 /\ log'[s][i - 1] = [role |-> "user", by |-> log'[s][i].by]
    BY <1>1 DEF Paired, Live
  <2>1. CASE i = n + 1
    <3>1. n > 0 /\ log[s][n] = [role |-> "user", by |-> r]
      BY <1>3, <1>4, <2>1
    <3>2. i - 1 = n /\ n \in 1..n
      BY <1>1, <2>1, <3>1
    <3>3. log'[s][i - 1] = [role |-> "user", by |-> r]
      BY <1>1, <3>1, <3>2
    <3>4. QED
      BY <1>1, <1>3, <2>1, <3>1, <3>3
  <2>2. CASE i # n + 1
    <3>1. i \in 1..n
      BY <1>1, <2>2
    <3>2. log[s][i].role = "assistant" /\ log'[s][i] = log[s][i]
      BY <1>1, <3>1
    <3>3. i > 1 /\ log[s][i - 1] = [role |-> "user", by |-> log[s][i].by]
      BY <1>1, <3>1, <3>2 DEF Paired
    <3>4. i - 1 \in 1..n
      BY <1>1, <3>1, <3>3
    <3>5. QED
      BY <1>1, <3>2, <3>3, <3>4
  <2>3. QED
    BY <2>1, <2>2
<1>6. QED
  BY <1>1, <1>2, <1>3, <1>5

(* The invariants of the histories depend on the history, on whether the   *)
(* session is live, and on who has just asked.                             *)
LEMMA HistoryStays ==
  /\ \A s : /\ Paired(s)
            /\ log'[s] = log[s] \/ log'[s] = <<>>
            /\ row'[s].state = "live" => row[s].state = "live" \/ log[s] = <<>>
            => Paired(s)'
  /\ \A r \in Sends :
       /\ AskedLast(r)
       /\ pc'[r] = "asked" => pc[r] = "asked"
       /\ pc[r] = "asked" /\ row'[SessionOf[r]].state = "live" =>
            row[SessionOf[r]].state = "live" /\ log'[SessionOf[r]] = log[SessionOf[r]]
       => AskedLast(r)'
<1>1. ASSUME NEW s, Paired(s), log'[s] = log[s] \/ log'[s] = <<>>,
             row'[s].state = "live" => row[s].state = "live" \/ log[s] = <<>>
      PROVE  Paired(s)'
  <2>1. CASE log'[s] = <<>>
    <3>1. DOMAIN log'[s] = {}
      BY <2>1
    <3>2. QED
      BY <3>1 DEF Paired
  <2>2. CASE log'[s] = log[s] /\ log'[s] # <<>>
    BY <1>1, <2>2 DEF Paired, Live
  <2>3. QED
    BY <1>1, <2>1, <2>2
<1>2. ASSUME NEW r \in Sends, AskedLast(r), pc'[r] = "asked" => pc[r] = "asked",
             pc[r] = "asked" /\ row'[SessionOf[r]].state = "live" =>
               row[SessionOf[r]].state = "live" /\ log'[SessionOf[r]] = log[SessionOf[r]]
      PROVE  AskedLast(r)'
  BY <1>2 DEF AskedLast, Live
<1>3. QED
  BY <1>1, <1>2

(* What a step that stores no message does to the rows and the histories.  *)
LEMMA RowsOnly ==
  ASSUME TypeOK, SingleFlight, RecordsCurrent, NewIsUnused, [Next]_vars,
         \A r \in Sends : ~AddUserMessage(r) /\ ~AddAssistantMessage(r)
  PROVE  /\ \A x \in Sessions :
              \/ log'[x] = log[x]
              \/ log'[x] = <<>> /\ row'[x].state # "live"
         /\ \A x \in Sessions : row'[x].state = "live" =>
              \/ row[x].state = "live"
              \/ row[x].state = "new" /\ log[x] = <<>>
         /\ \A x \in Sessions : row'[x].state = "new" =>
              row[x].state = "new" /\ row'[x].cid = row[x].cid /\ log'[x] = log[x]
         /\ \A r \in Sends : pc'[r] = "asked" => pc[r] = "asked"
<1>1. ASSUME NEW r \in Sends, Execute(r)
      PROVE  /\ log' = log
             /\ \A x \in Sessions : row'[x].state = row[x].state
             /\ \A x \in Sessions : row'[x].state = "new" => row'[x].cid = row[x].cid
             /\ \A q \in Sends : pc'[q] = "asked" => pc[q] = "asked"
  <2> DEFINE s == SessionOf[r]
  <2>0. r \in Requests /\ s \in Sessions /\ row[s] \in Rows /\ rec[r] \in Rows
        /\ RecordCurrent(r)
    BY SendsAreRequests DEF TypeOK, RecordsCurrent
  <2>1. log' = log
    BY <1>1 DEF Execute, RequireSession, MaybeGetCachedResponse, Resolve, StayOnAccount,
         Unroutable, ChooseFallback, ReadForFailover, WriteFailover, AcquireSlot,
         ProviderAnswers, Fail, Store, UpdateSessionMetadata, EndExecution
  <2>2. \A q \in Sends : pc'[q] = "asked" => pc[q] = "asked"
    BY <1>1, <2>0, SendsAreRequests
       DEF Execute, RequireSession, MaybeGetCachedResponse, Resolve, StayOnAccount,
         Unroutable, ChooseFallback, ReadForFailover, WriteFailover, AcquireSlot,
         ProviderAnswers, Fail, Store, UpdateSessionMetadata, EndExecution, Goto, TypeOK
  <2>3. \A x \in Sessions : x # s => row'[x] = row[x]
    BY <1>1, ExecuteFrame
  <2>4. CASE WriteFailover(r) /\ Live(s)
    <3>1. row'[s].state = rec[r].state
      BY <2>0, <2>4 DEF WriteFailover, TypeOK, Rows
    <3>2. rec[r].state = "live"
      BY <2>0, <2>4 DEF WriteFailover, RecordCurrent, Holding, Executing, Goto
    <3>3. QED
      BY <2>1, <2>2, <2>3, <2>4, <3>1, <3>2 DEF Live
  <2>5. CASE UpdateSessionMetadata(r) /\ Live(s)
    <3>1. \E c : row'[s] = [row[s] EXCEPT !.cid = c]
      BY <2>0, <2>5 DEF UpdateSessionMetadata, TypeOK
    <3>2. row'[s].state = row[s].state
      BY <2>0, <3>1 DEF Rows
    <3>3. QED
      BY <2>1, <2>2, <2>3, <2>5, <3>2 DEF Live
  <2>6. CASE row' = row
    BY <2>1, <2>2, <2>6
  <2>7. QED
    BY <1>1, <2>4, <2>5, <2>6
       DEF Execute, RequireSession, MaybeGetCachedResponse, Resolve, StayOnAccount,
         Unroutable, ChooseFallback, ReadForFailover, WriteFailover, AcquireSlot,
         ProviderAnswers, Fail, Store, UpdateSessionMetadata, EndExecution
<1>2. ASSUME NEW x \in Sessions, NEW a \in Accounts, CreateSession(x, a)
      PROVE  /\ log' = log /\ pc' = pc
             /\ row[x].state = "new" /\ log[x] = <<>> /\ row'[x].state = "live"
             /\ \A y \in Sessions : y # x => row'[y] = row[y]
  BY <1>2 DEF CreateSession, NewIsUnused, TypeOK, Rows
<1>3. ASSUME NEW d \in Deletes, DeleteRow(d), Live(SessionOf[d])
      PROVE  /\ row'[SessionOf[d]].state = "deleted" /\ log'[SessionOf[d]] = <<>>
             /\ \A y \in Sessions : y # SessionOf[d] => row'[y] = row[y] /\ log'[y] = log[y]
             /\ \A q \in Sends : pc'[q] = pc[q]
  BY <1>3, SendsAreRequests DEF DeleteRow, Goto, TypeOK, Rows
<1>4. ASSUME NEW t \in Renames, WriteTitle(t), Live(SessionOf[t])
      PROVE  /\ row'[SessionOf[t]].state = "live" /\ log' = log
             /\ \A y \in Sessions : y # SessionOf[t] => row'[y] = row[y]
             /\ \A q \in Sends : pc'[q] = pc[q]
  BY <1>4, SendsAreRequests DEF WriteTitle, Goto, TypeOK, Rows, Live
<1>5. CASE \/ \E r \in Sends : BeginExecution(r) \/ RefuseBusy(r) \/ Cancel(r)
           \/ \E d \in Deletes : DeleteChecks(d) \/ (DeleteRow(d) /\ ~Live(SessionOf[d]))
           \/ \E t \in Renames : ReadForTitle(t) \/ (WriteTitle(t) /\ ~Live(SessionOf[t]))
           \/ \E a \in Accounts, st \in Statuses : SetStatus(a, st)
           \/ Crash \/ UNCHANGED vars
  <2>1. row' = row /\ log' = log
    BY <1>5 DEF BeginExecution, RefuseBusy, Cancel, DeleteChecks, DeleteRow,
                ReadForTitle, WriteTitle, SetStatus, Crash, vars
  <2>2. \A q \in Sends : pc'[q] = pc[q] \/ pc'[q] \in {"idle", "entered", "leaving", "done"}
    BY <1>5, SendsAreRequests
       DEF BeginExecution, RefuseBusy, Cancel, DeleteChecks, DeleteRow,
           ReadForTitle, WriteTitle, SetStatus, Crash, vars, Goto, TypeOK
  <2>3. QED
    BY <2>1, <2>2
<1>6. CASE \E r \in Sends : Execute(r)
  BY <1>1, <1>6
<1>7. CASE \E x \in Sessions, a \in Accounts : CreateSession(x, a)
  BY <1>2, <1>7
<1>8. CASE \E d \in Deletes : DeleteRow(d) /\ Live(SessionOf[d])
  BY <1>3, <1>8
<1>9. CASE \E t \in Renames : WriteTitle(t) /\ Live(SessionOf[t])
  BY <1>4, <1>9 DEF Live
<1>10. QED
  BY <1>5, <1>6, <1>7, <1>8, <1>9 DEF Next

(* Every step keeps the histories in order.                                *)
LEMMA HistoryStep ==
  ASSUME TypeOK, SingleFlight, RecordsCurrent, NewIsUnused, JustAsked,
         AnswersFollowQuestions, [Next]_vars
  PROVE  NewIsUnused' /\ JustAsked' /\ AnswersFollowQuestions'
<1>1. ASSUME NEW r \in Sends, NEW role \in {"user", "assistant"}, AddMessage(r, role),
             row' = row, role = "user" => AddUserMessage(r),
             role = "assistant" => AddAssistantMessage(r)
      PROVE  NewIsUnused' /\ JustAsked' /\ AnswersFollowQuestions'
  <2> DEFINE s == SessionOf[r]
  <2>0. r \in Requests /\ s \in Sessions /\ AskedLast(r) /\ Paired(s) /\ RecordCurrent(r)
    BY SendsAreRequests, HistoryParts DEF RecordsCurrent
  <2>1. /\ role = "user" => pc[r] = "remembered"
        /\ role = "assistant" => pc[r] = "asked" /\ pc'[r] = "leaving"
        /\ Execute(r)
    BY <1>1, <2>0 DEF AddUserMessage, AddAssistantMessage, Goto, TypeOK, Execute, Store
  <2>2. /\ Paired(s)'
        /\ role = "user" => log'[s] # <<>> /\ log'[s][Len(log'[s])] = [role |-> "user", by |-> r]
    BY <1>1, <2>0, <2>1, PairedOnAppend
  <2>3. row[s].state # "new"
    BY <2>0, <2>1 DEF RecordCurrent, Executing
  <2>4. \A x \in Sessions : x # s => log'[x] = log[x]
    BY <2>1, ExecuteFrame
  <2>5. NewIsUnused'
    BY <1>1, <2>3, <2>4 DEF NewIsUnused
  <2>6. \A x \in Sessions : Paired(x)'
    BY <1>1, <2>2, <2>4, HistoryParts, HistoryStays
  <2>7. ASSUME NEW q \in Sends PROVE AskedLast(q)'
    <3>1. CASE q = r
      BY <2>1, <2>2, <3>1 DEF AskedLast
    <3>2. CASE q # r /\ SessionOf[q] = s
      <4>1. pc'[q] = pc[q] /\ pc[r] \in Executing
        BY <2>1, <3>2, ExecuteFrame
      <4>2. pc[q] \notin Executing
        BY <3>2, <4>1, Alone
      <4>3. QED
        BY <4>1, <4>2 DEF AskedLast, Executing
    <3>3. CASE q # r /\ SessionOf[q] # s
      <4>1. pc'[q] = pc[q] /\ log'[SessionOf[q]] = log[SessionOf[q]] /\ AskedLast(q)
        BY <2>1, <2>4, <3>3, ExecuteFrame, SendsAreRequests, HistoryParts
      <4>2. QED
        BY <1>1, <4>1 DEF AskedLast, Live
    <3>4. QED
      BY <3>1, <3>2, <3>3
  <2>8. QED
    BY <2>5, <2>6, <2>7 DEF AnswersFollowQuestions, Paired, JustAsked, AskedLast
<1>2. CASE \E r \in Sends : AddUserMessage(r)
  BY <1>1, <1>2 DEF AddUserMessage
<1>3. CASE \E r \in Sends : AddAssistantMessage(r)
  BY <1>1, <1>3 DEF AddAssistantMessage
<1>4. CASE \A r \in Sends : ~AddUserMessage(r) /\ ~AddAssistantMessage(r)
  <2>1. /\ \A x \in Sessions :
             \/ log'[x] = log[x]
             \/ log'[x] = <<>> /\ row'[x].state # "live"
        /\ \A x \in Sessions : row'[x].state = "live" =>
             \/ row[x].state = "live"
             \/ row[x].state = "new" /\ log[x] = <<>>
        /\ \A x \in Sessions : row'[x].state = "new" =>
             row[x].state = "new" /\ row'[x].cid = row[x].cid /\ log'[x] = log[x]
        /\ \A r \in Sends : pc'[r] = "asked" => pc[r] = "asked"
    BY <1>4, RowsOnly
  <2>2. NewIsUnused'
    BY <2>1 DEF NewIsUnused
  <2>3. \A x \in Sessions : Paired(x)'
    BY <2>1, HistoryParts, HistoryStays
  <2>4. ASSUME NEW r \in Sends PROVE AskedLast(r)'
    <3>1. AskedLast(r) /\ RecordCurrent(r) /\ SessionOf[r] \in Sessions
      BY HistoryParts, SendsAreRequests DEF RecordsCurrent
    <3>2. pc[r] = "asked" => row[SessionOf[r]].state # "new"
      BY <3>1 DEF RecordCurrent, Executing
    <3>3. QED
      BY <2>1, <3>1, <3>2, HistoryStays
  <2>5. QED
    BY <2>2, <2>3, <2>4 DEF AnswersFollowQuestions, Paired, JustAsked, AskedLast
<1>5. QED
  BY <1>2, <1>3, <1>4

(* NotYetHeard, of one send; Silent is where a send has stored nothing.    *)
Silent == (Executing \cup {"idle"}) \ {"asked", "leaving"}

NotHeard(q) ==
  pc[q] \in Silent => \A i \in DOMAIN log[SessionOf[q]] : log[SessionOf[q]][i].by # q

(* The invariant says just that of all of them.                            *)
LEMMA HeardParts == NotYetHeard <=> \A q \in Sends : NotHeard(q)
BY DEF NotYetHeard, NotHeard, Silent

(* No send goes back to where it has stored nothing.                       *)
LEMMA SilentBefore ==
  ASSUME TypeOK, [Next]_vars, NEW q \in Sends, pc'[q] \in Silent
  PROVE  pc[q] \in Silent
<1>1. ASSUME NEW r \in Sends, Execute(r) PROVE pc[q] \in Silent
  <2>1. CASE r # q
    BY <1>1, <2>1, ExecuteFrame
  <2>2. CASE r = q
    BY <1>1, <2>2, SendsAreRequests
       DEF Execute, RequireSession, MaybeGetCachedResponse, Resolve, StayOnAccount,
           Unroutable, ChooseFallback, ReadForFailover, WriteFailover, AcquireSlot,
           ProviderAnswers, Fail, Store, UpdateSessionMetadata, AddUserMessage,
           AddAssistantMessage, EndExecution, Goto, Executing, Silent, TypeOK
  <2>3. QED
    BY <2>1, <2>2
<1>2. ASSUME NEW r \in Sends, BeginExecution(r) \/ RefuseBusy(r) \/ Cancel(r)
      PROVE  pc[q] \in Silent
  BY <1>2, SendsAreRequests
     DEF BeginExecution, RefuseBusy, Cancel, Goto, Silent, Executing, TypeOK
<1>3. CASE \/ \E s \in Sessions, a \in Accounts : CreateSession(s, a)
           \/ \E d \in Deletes : DeleteChecks(d) \/ DeleteRow(d)
           \/ \E t \in Renames : ReadForTitle(t) \/ WriteTitle(t)
           \/ \E a \in Accounts, st \in Statuses : SetStatus(a, st)
           \/ UNCHANGED vars
  <2>1. pc'[q] = pc[q]
    BY <1>3, SendsAreRequests
       DEF CreateSession, DeleteChecks, DeleteRow, ReadForTitle, WriteTitle, SetStatus,
           vars, Goto, TypeOK
  <2>2. QED
    BY <2>1
<1>4. CASE Crash
  BY <1>4, SendsAreRequests DEF Crash, Silent, Executing
<1>5. QED
  BY <1>1, <1>2, <1>3, <1>4 DEF Next

(* Initially nobody has said anything.                                     *)
LEMMA HeardInit == Init => NotYetHeard
BY SendsAreRequests DEF Init, NotYetHeard

(* Every step leaves the sends that have stored nothing unheard.           *)
LEMMA HeardStep ==
  ASSUME TypeOK, SingleFlight, RecordsCurrent, NewIsUnused, NotYetHeard, [Next]_vars
  PROVE  NotYetHeard'
<1> SUFFICES ASSUME NEW q \in Sends, pc'[q] \in Silent
             PROVE  \A i \in DOMAIN log'[SessionOf[q]] : log'[SessionOf[q]][i].by # q
  BY DEF NotYetHeard, Silent
<1> DEFINE s == SessionOf[q]
<1>0. s \in Sessions /\ \A i \in DOMAIN log[s] : log[s][i].by # q
  BY SilentBefore, SendsAreRequests, HeardParts DEF NotHeard
<1>1. ASSUME NEW r \in Sends, NEW role \in {"user", "assistant"}, AddMessage(r, role),
             role = "user" => AddUserMessage(r),
             role = "assistant" => AddAssistantMessage(r)
      PROVE  \A i \in DOMAIN log'[s] : log'[s][i].by # q
  <2>1. pc'[r] \in {"asked", "leaving"}
    BY <1>1, SendsAreRequests DEF AddUserMessage, AddAssistantMessage, Goto, TypeOK
  <2>2. q # r
    BY <2>1 DEF Silent
  <2>3. CASE SessionOf[r] # s
    <3>1. log'[s] = log[s]
      BY <1>0, <1>1, <2>3, ExecuteFrame DEF Execute, Store
    <3>2. QED
      BY <1>0, <3>1
  <2>4. CASE SessionOf[r] = s
    <3> DEFINE z == SessionOf[r]
    <3>0. /\ Len(log[z]) \in Nat
          /\ DOMAIN log[z] = 1..Len(log[z])
          /\ DOMAIN log'[z] = 1..(Len(log[z]) + 1)
          /\ \A i \in 1..Len(log[z]) : log'[z][i] = log[z][i]
          /\ log'[z][Len(log[z]) + 1] = [role |-> role, by |-> r]
      BY <1>1, Appended
    <3>1. /\ Len(log[s]) \in Nat
          /\ DOMAIN log[s] = 1..Len(log[s])
          /\ DOMAIN log'[s] = 1..(Len(log[s]) + 1)
          /\ \A i \in 1..Len(log[s]) : log'[s][i] = log[s][i]
          /\ log'[s][Len(log[s]) + 1] = [role |-> role, by |-> r]
      BY <2>4, <3>0
    <3>2. \A i \in 1..(Len(log[s]) + 1) : i \in 1..Len(log[s]) \/ i = Len(log[s]) + 1
      BY <3>1
    <3>3. log'[s][Len(log[s]) + 1].by = r
      BY <3>1
    <3>4. QED
      BY <1>0, <2>2, <3>1, <3>2, <3>3
  <2>5. QED
    BY <2>3, <2>4
<1>2. CASE \E r \in Sends : AddUserMessage(r)
  BY <1>1, <1>2 DEF AddUserMessage
<1>3. CASE \E r \in Sends : AddAssistantMessage(r)
  BY <1>1, <1>3 DEF AddAssistantMessage
<1>4. CASE \A r \in Sends : ~AddUserMessage(r) /\ ~AddAssistantMessage(r)
  <2>1. log'[s] = log[s] \/ log'[s] = <<>>
    BY <1>0, <1>4, RowsOnly
  <2>2. log'[s] = <<>> => DOMAIN log'[s] = {}
    OBVIOUS
  <2>3. QED
    BY <1>0, <2>1, <2>2
<1>5. QED
  BY <1>2, <1>3, <1>4

-----------------------------------------------------------------------------
(* Accounts and conversations.                                             *)

(* What a step does to the account and the conversation of a row: it keeps *)
(* the account; or begins the session; or moves it, in the name of a send  *)
(* at work on it.                                                          *)
LEMMA RowsMove ==
  ASSUME TypeOK, RecordsCurrent, [Next]_vars, NEW x \in Sessions
  PROVE  \/ row'[x].account = row[x].account
         \/ row[x].state = "new" /\ row'[x].cid = row[x].cid
         \/ /\ x \in AllowFailover /\ row'[x].cid = NoAccount
            /\ \E r \in ExecutingOn(x) : row'[x].failovers = rec[r].failovers + 1
<1>0. row[x] \in Rows
  BY DEF TypeOK
<1>1. ASSUME NEW r \in Sends, WriteFailover(r), Live(SessionOf[r]), x = SessionOf[r]
      PROVE  /\ x \in AllowFailover /\ row'[x].cid = NoAccount
             /\ r \in ExecutingOn(x) /\ row'[x].failovers = rec[r].failovers + 1
  <2>1. pc[r] = "moving" /\ rec[r] \in Rows /\ RecordCurrent(r)
    BY <1>1, SendsAreRequests DEF WriteFailover, Goto, TypeOK, RecordsCurrent
  <2>2. x \in AllowFailover /\ r \in ExecutingOn(x)
    BY <1>1, <2>1 DEF RecordCurrent, ExecutingOn, Executing
  <2>3. row'[x] = [rec[r] EXCEPT !.account = target[r], !.cid = NoAccount,
                                 !.failovers = @ + 1]
    BY <1>1 DEF WriteFailover, TypeOK
  <2>4. QED
    BY <2>1, <2>2, <2>3 DEF Rows
<1>2. ASSUME NEW r \in Sends, UpdateSessionMetadata(r), Live(SessionOf[r]), x = SessionOf[r]
      PROVE  row'[x].account = row[x].account
  <2>1. \E c : row'[x] = [row[x] EXCEPT !.cid = c]
    BY <1>2 DEF UpdateSessionMetadata, TypeOK
  <2>2. QED
    BY <1>0, <2>1 DEF Rows
<1>3. ASSUME NEW s \in Sessions, NEW a \in Accounts, CreateSession(s, a), x = s
      PROVE  row[x].state = "new" /\ row'[x].cid = row[x].cid
  BY <1>0, <1>3 DEF CreateSession, TypeOK, Rows
<1>4. ASSUME NEW d \in Deletes, DeleteRow(d)
      PROVE  row'[x].account = row[x].account /\ row'[x].cid = row[x].cid
  <2>1. row'[x] = row[x] \/ row'[x] = [row[x] EXCEPT !.state = "deleted"]
    BY <1>4 DEF DeleteRow, TypeOK
  <2>2. QED
    BY <1>0, <2>1 DEF Rows
<1>5. ASSUME NEW t \in Renames, WriteTitle(t)
      PROVE  row'[x].account = row[x].account /\ row'[x].cid = row[x].cid
  <2>1. CASE row' = row
    BY <2>1
  <2>2. CASE row' # row
    <3>1. row' = [row EXCEPT ![SessionOf[t]] =
                    [row[SessionOf[t]] EXCEPT !.renamed = TRUE,
                                              !.failovers = rec[t].failovers]]
      BY <1>5, <2>2 DEF WriteTitle, TypeOK
    <3>2. row'[x] = row[x] \/ row'[x] = [row[x] EXCEPT !.renamed = TRUE,
                                                      !.failovers = rec[t].failovers]
      BY <3>1 DEF TypeOK
    <3>3. QED
      BY <1>0, <3>2 DEF Rows
  <2>3. QED
    BY <2>1, <2>2
<1>6. CASE row'[x] = row[x]
  BY <1>6
<1>7. ASSUME row'[x] # row[x]
      PROVE  \/ \E r \in Sends : WriteFailover(r) /\ Live(SessionOf[r]) /\ x = SessionOf[r]
             \/ \E r \in Sends : UpdateSessionMetadata(r) /\ Live(SessionOf[r]) /\ x = SessionOf[r]
             \/ \E s \in Sessions, a \in Accounts : CreateSession(s, a) /\ x = s
             \/ \E d \in Deletes : DeleteRow(d)
             \/ \E t \in Renames : WriteTitle(t)
  <2>1. ASSUME NEW r \in Sends, Execute(r)
        PROVE  /\ WriteFailover(r) \/ UpdateSessionMetadata(r)
               /\ Live(SessionOf[r]) /\ x = SessionOf[r]
    <3>1. x = SessionOf[r]
      BY <1>7, <2>1, ExecuteFrame
    <3>2. QED
      BY <1>7, <2>1, <3>1
         DEF Execute, RequireSession, MaybeGetCachedResponse, Resolve, StayOnAccount,
             Unroutable, ChooseFallback, ReadForFailover, WriteFailover, AcquireSlot,
             ProviderAnswers, Fail, Store, UpdateSessionMetadata, AddUserMessage,
             AddAssistantMessage, EndExecution
  <2>2. ASSUME NEW s \in Sessions, NEW a \in Accounts, CreateSession(s, a) PROVE x = s
    BY <1>7, <2>2 DEF CreateSession, TypeOK
  <2>3. QED
    BY <1>7, <2>1, <2>2
       DEF Next, BeginExecution, RefuseBusy, Cancel, DeleteChecks, ReadForTitle,
           SetStatus, Crash, vars
<1>8. QED
  BY <1>1, <1>2, <1>3, <1>4, <1>5, <1>6, <1>7

-----------------------------------------------------------------------------
(* The inductive invariant and the theorems.                               *)

Inv ==
  /\ TypeOK
  /\ SingleFlight
  /\ RecordsCurrent
  /\ KeysFresh
  /\ NewIsUnused
  /\ JustAsked
  /\ AnswersFollowQuestions
  /\ NotYetHeard

(* Inv holds initially.                                                    *)
LEMMA InvInit == Init => Inv
BY TypeInit, FlightInit, RecordsInit, KeysInit, HistoryInit, HeardInit DEF Inv

(* Inv is preserved by every step.                                         *)
LEMMA InvStep == Inv /\ [Next]_vars => Inv'
<1> SUFFICES ASSUME Inv, [Next]_vars PROVE Inv'
  OBVIOUS
<1>1. TypeOK'
  BY ExecuteType, OtherType DEF Inv
<1>2. SingleFlight' /\ RecordsCurrent'
  BY FlightStep, RecordsStep DEF Inv
<1>3. KeysFresh'
  BY KeysStep DEF Inv
<1>4. NewIsUnused' /\ JustAsked' /\ AnswersFollowQuestions'
  BY HistoryStep DEF Inv
<1>5. NotYetHeard'
  BY HeardStep DEF Inv
<1>6. QED
  BY <1>1, <1>2, <1>3, <1>4, <1>5 DEF Inv

(* So Inv is an invariant of the chat service.                             *)
LEMMA Invariance == Spec => []Inv
BY InvInit, InvStep, PTL DEF Spec

(* The types are right; in particular a session that exists is on an       *)
(* account, which failing over relies on.                                  *)
THEOREM TypeCorrect == Spec => []TypeOK
<1>1. Inv => TypeOK
  BY DEF Inv
<1>2. QED
  BY <1>1, Invariance, PTL

(* The same session is single-flight, through failures, cancellations and  *)
(* restarts (_session_execution).                                          *)
THEOREM SingleFlightHolds == Spec => []SingleFlight
<1>1. Inv => SingleFlight
  BY DEF Inv
<1>2. QED
  BY <1>1, Invariance, PTL

(* An idempotency key is answered at most once per session, and no request *)
(* asks the provider again for an answered key (_maybe_get_cached_response *)
(* and add_message).                                                       *)
THEOREM KeysCorrect == Spec => []KeyAnsweredOnce
<1>1. Inv => KeyAnsweredOnce
  <2> SUFFICES ASSUME Inv PROVE KeyAnsweredOnce
    OBVIOUS
  <2>1. ASSUME NEW s \in Sessions, NEW k \in {KeyOf[r] : r \in Sends} \ {NoKey}
        PROVE  Cardinality(AnswersTo(s, k)) <= 1
    <3>1. \A i, j \in AnswersTo(s, k) : i = j
      BY <2>1 DEF Inv, KeysFresh, AnswersTo
    <3>2. CASE AnswersTo(s, k) = {}
      BY <3>2, FS_EmptySet
    <3>3. CASE AnswersTo(s, k) # {}
      <4>1. PICK i : AnswersTo(s, k) = {i}
        BY <3>1, <3>3
      <4>2. QED
        BY <4>1, FS_Singleton
    <3>4. QED
      BY <3>2, <3>3
  <2>2. \A r \in Sends : pc[r] = "calling" /\ KeyOf[r] # NoKey
          => AnswersTo(SessionOf[r], KeyOf[r]) = {}
    BY DEF Inv, KeysFresh, Executing
  <2>3. QED
    BY <2>1, <2>2 DEF KeyAnsweredOnce
<1>2. QED
  BY <1>1, Invariance, PTL

(* In a live session every stored answer directly follows its question     *)
(* (the two add_message calls of a request, with awaits between).          *)
THEOREM HistoriesCorrect == Spec => []AnswersFollowQuestions
<1>1. Inv => AnswersFollowQuestions
  BY DEF Inv
<1>2. QED
  BY <1>1, Invariance, PTL

(* A provider call is made with the account and the conversation ids that  *)
(* the row of its session has then, although they were read before routing *)
(* and waiting (_require_session, record_failover, _metadata_from_record). *)
THEOREM CallsCorrect == Spec => []CallFollowsRow
<1>1. Inv => CallFollowsRow
  <2> SUFFICES ASSUME Inv, NEW r \in Sends, pc[r] = "calling", Live(SessionOf[r])
               PROVE  /\ target[r] = row[SessionOf[r]].account
                      /\ rec[r].cid = row[SessionOf[r]].cid
    BY DEF CallFollowsRow
  <2>1. RecordCurrent(r)
    BY DEF Inv, RecordsCurrent
  <2>2. QED
    BY <2>1 DEF RecordCurrent, Holding, Executing
<1>2. QED
  BY <1>1, Invariance, PTL

(* A session moves to another account only if it may fail over, and by the *)
(* request that executes on it, which begins the conversation afresh       *)
(* (record_failover).                                                      *)
THEOREM MovesCorrect == Spec => MovesOnlyIfAllowed
<1>1. Inv /\ [Next]_vars =>
        [\A s \in Sessions : Live(s) /\ row'[s].account # row[s].account =>
           /\ s \in AllowFailover
           /\ row'[s].cid = NoAccount
           /\ \E r \in ExecutingOn(s) : row'[s].failovers = rec[r].failovers + 1]_vars
  <2> SUFFICES ASSUME Inv, [Next]_vars, NEW s \in Sessions, Live(s),
                      row'[s].account # row[s].account
               PROVE  /\ s \in AllowFailover
                      /\ row'[s].cid = NoAccount
                      /\ \E r \in ExecutingOn(s) : row'[s].failovers = rec[r].failovers + 1
    OBVIOUS
  <2>1. QED
    BY RowsMove DEF Inv, Live
<1>2. QED
  BY <1>1, Invariance, PTL DEF Spec, MovesOnlyIfAllowed

-----------------------------------------------------------------------------
(* Refinement: what clients are shown behaves as SessionLife.              *)

(* What is shown of a session depends on its own row and history alone.    *)
LEMMA OneShown ==
  ASSUME NEW s \in Sessions,
         \A x \in Sessions : x # s => row'[x] = row[x] /\ log'[x] = log[x]
  PROVE  /\ States' = [States EXCEPT ![s] = row'[s].state]
         /\ Homes' = [Homes EXCEPT ![s] = IF row'[s].state = "live"
                                          THEN row'[s].account ELSE NoAccount]
         /\ Talks' = [Talks EXCEPT ![s] = IF row'[s].state = "live"
                                          THEN row'[s].cid ELSE NoAccount]
         /\ Histories' = [Histories EXCEPT ![s] = IF row'[s].state = "live"
                                                  THEN log'[s] ELSE <<>>]
<1>1. States' = [States EXCEPT ![s] = row'[s].state]
  BY DEF States
<1>2. Homes' = [Homes EXCEPT ![s] = IF row'[s].state = "live"
                                    THEN row'[s].account ELSE NoAccount]
  BY DEF Homes, Live
<1>3. Talks' = [Talks EXCEPT ![s] = IF row'[s].state = "live"
                                    THEN row'[s].cid ELSE NoAccount]
  BY DEF Talks, Live
<1>4. Histories' = [Histories EXCEPT ![s] = IF row'[s].state = "live"
                                            THEN log'[s] ELSE <<>>]
  BY DEF Histories, Live
<1>5. QED
  BY <1>1, <1>2, <1>3, <1>4

(* What is shown of one session.                                           *)
LEMMA ShownOf ==
  ASSUME NEW s \in Sessions
  PROVE  /\ States[s] = row[s].state
         /\ Homes[s] = IF row[s].state = "live" THEN row[s].account ELSE NoAccount
         /\ Talks[s] = IF row[s].state = "live" THEN row[s].cid ELSE NoAccount
         /\ Histories[s] = IF row[s].state = "live" THEN log[s] ELSE <<>>
         /\ [States EXCEPT ![s] = States[s]] = States
         /\ [Homes EXCEPT ![s] = Homes[s]] = Homes
         /\ [Talks EXCEPT ![s] = Talks[s]] = Talks
         /\ [Histories EXCEPT ![s] = Histories[s]] = Histories
BY DEF States, Homes, Talks, Histories, Live

(* Initially no session exists.                                            *)
LEMMA ServedInit == Init => Served!Init
BY DEF Init, NewRow, Served!Init, States, Homes, Talks, Histories, Live

(* A stored message is a question or an answer that SessionLife allows; or *)
(* it is stored for a deleted session, and nobody sees it.                 *)
LEMMA MessageServed ==
  ASSUME Inv, NEW r \in Sends, NEW role \in {"user", "assistant"},
         AddMessage(r, role), row' = row,
         role = "user" => AddUserMessage(r),
         role = "assistant" => AddAssistantMessage(r)
  PROVE  Served!Ask(r) \/ Served!Answer(r) \/ UNCHANGED Served!vars
<1> DEFINE s == SessionOf[r]
           m == [role |-> role, by |-> r]
<1>1. s \in Sessions /\ RecordCurrent(r) /\ AskedLast(r) /\ KeyFresh(r) /\ NotHeard(r)
  BY SendsAreRequests, HistoryParts, HeardParts, KeysFreshParts DEF Inv, RecordsCurrent
<1>2. \A x \in Sessions : x # s => row'[x] = row[x] /\ log'[x] = log[x]
  BY <1>1, ExecuteFrame DEF Inv, Execute, Store
<1>3. /\ States' = States /\ Homes' = Homes /\ Talks' = Talks
      /\ Histories' = [Histories EXCEPT ![s] = IF row[s].state = "live"
                                               THEN log'[s] ELSE <<>>]
  BY <1>1, <1>2, OneShown, ShownOf
<1>4. CASE ~Live(s)
  BY <1>1, <1>3, <1>4, ShownOf DEF Live, Served!vars
<1>5. CASE Live(s)
  <2>1. /\ States[s] = "live" /\ Homes[s] = row[s].account /\ Talks[s] = row[s].cid
        /\ Histories[s] = log[s]
    BY <1>1, <1>5, ShownOf DEF Live
  <2>2. log'[s] = Append(log[s], m)
    BY <1>1 DEF AddMessage, Inv, TypeOK
  <2>3. Histories' = [Histories EXCEPT ![s] = Append(Histories[s], m)]
    BY <1>3, <1>5, <2>1, <2>2 DEF Live
  <2>4. Served!Says(r, role)
    BY <1>3, <2>1, <2>3 DEF Served!Says
  <2>5. CASE role = "user"
    <3>1. pc[r] = "remembered"
      BY <2>5 DEF AddUserMessage, Goto
    <3>2. \A i \in DOMAIN log[s] : log[s][i].by # r
      BY <1>1, <3>1 DEF NotHeard, Silent, Executing
    <3>3. KeyOf[r] # NoKey =>
            \A i \in DOMAIN log[s] :
              log[s][i].role = "assistant" => KeyOf[log[s][i].by] # KeyOf[r]
      BY <1>1, <3>1 DEF KeyFresh, AnswersTo, Executing
    <3>4. QED
      BY <2>1, <2>4, <2>5, <3>2, <3>3 DEF Served!Ask
  <2>6. CASE role = "assistant"
    <3>1. pc[r] = "asked"
      BY <2>6 DEF AddAssistantMessage, Goto
    <3>2. log[s] # <<>> /\ log[s][Len(log[s])] = [role |-> "user", by |-> r]
      BY <1>1, <1>5, <3>1 DEF AskedLast
    <3>3. QED
      BY <2>1, <2>4, <2>6, <3>2 DEF Served!Answer
  <2>7. QED
    BY <2>5, <2>6
<1>6. QED
  BY <1>4, <1>5

(* Failing over moves the session; the stored metadata continue its        *)
(* conversation; after a deletion neither is seen.                         *)
LEMMA MoveServed ==
  ASSUME Inv, NEW r \in Sends, WriteFailover(r)
  PROVE  Served!Move(SessionOf[r], target[r]) \/ UNCHANGED Served!vars
<1> DEFINE s == SessionOf[r]
           moved == [rec[r] EXCEPT !.account = target[r], !.cid = NoAccount,
                                   !.failovers = @ + 1]
<1>1. /\ s \in Sessions /\ RecordCurrent(r) /\ rec[r] \in Rows /\ pc[r] = "moving"
      /\ log' = log
  BY SendsAreRequests DEF Inv, RecordsCurrent, TypeOK, WriteFailover, Goto
<1>2. CASE ~Live(s)
  <2>1. row' = row
    BY <1>2 DEF WriteFailover
  <2>2. QED
    BY <1>1, <2>1, OneShown, ShownOf DEF Served!vars
<1>3. CASE Live(s)
  <2>1. row' = [row EXCEPT ![s] = moved]
    BY <1>3 DEF WriteFailover
  <2>2. row'[s] = moved /\ \A x \in Sessions : x # s => row'[x] = row[x] /\ log'[x] = log[x]
    BY <1>1, <2>1 DEF Inv, TypeOK
  <2>3. moved.state = "live" /\ moved.account = target[r] /\ moved.cid = NoAccount
    BY <1>1 DEF RecordCurrent, Holding, Executing, Rows
  <2>4. s \in AllowFailover /\ target[r] \in Accounts /\ target[r] # row[s].account
    BY <1>1, <1>3 DEF RecordCurrent, Holding, Executing
  <2>5. /\ States' = States /\ Histories' = Histories
        /\ Homes' = [Homes EXCEPT ![s] = target[r]]
        /\ Talks' = [Talks EXCEPT ![s] = NoAccount]
    <3>1. /\ States' = [States EXCEPT ![s] = "live"]
          /\ Homes' = [Homes EXCEPT ![s] = row'[s].account]
          /\ Talks' = [Talks EXCEPT ![s] = row'[s].cid]
          /\ Histories' = [Histories EXCEPT ![s] = log'[s]]
      BY <1>1, <2>2, <2>3, OneShown
    <3>2. States[s] = "live" /\ Histories[s] = log[s]
      BY <1>1, <1>3, ShownOf DEF Live
    <3>3. QED
      BY <1>1, <2>2, <2>3, <3>1, <3>2, ShownOf
  <2>6. States[s] = "live" /\ Homes[s] = row[s].account
    BY <1>1, <1>3, ShownOf DEF Live
  <2>7. QED
    BY <2>4, <2>5, <2>6 DEF Served!Move
<1>4. QED
  BY <1>2, <1>3

(* Storing the metadata of an answer notes which conversation the session  *)
(* continues, unless it was deleted meanwhile.                             *)
LEMMA ContinueServed ==
  ASSUME Inv, NEW r \in Sends, UpdateSessionMetadata(r)
  PROVE  \/ \E c \in Accounts \cup {NoAccount} : Served!Continue(SessionOf[r], c)
         \/ UNCHANGED Served!vars
<1> DEFINE s == SessionOf[r]
<1>1. s \in Sessions /\ row[s] \in Rows /\ log' = log
  BY SendsAreRequests DEF Inv, TypeOK, UpdateSessionMetadata
<1>2. CASE ~Live(s)
  <2>1. row' = row
    BY <1>2 DEF UpdateSessionMetadata
  <2>2. QED
    BY <1>1, <2>1, OneShown, ShownOf DEF Served!vars
<1>3. CASE Live(s)
  <2>1. PICK c \in Accounts \cup {NoAccount} :
          row' = [row EXCEPT ![s] = [row[s] EXCEPT !.cid = c]]
    BY <1>3 DEF UpdateSessionMetadata
  <2>2. /\ row'[s] = [row[s] EXCEPT !.cid = c]
        /\ \A x \in Sessions : x # s => row'[x] = row[x] /\ log'[x] = log[x]
    BY <1>1, <2>1 DEF Inv, TypeOK
  <2>3. row'[s].state = "live" /\ row'[s].account = row[s].account /\ row'[s].cid = c
    BY <1>1, <1>3, <2>2 DEF Live, Rows
  <2>4. /\ States' = States /\ Histories' = Histories /\ Homes' = Homes
        /\ Talks' = [Talks EXCEPT ![s] = c]
    <3>1. /\ States' = [States EXCEPT ![s] = "live"]
          /\ Homes' = [Homes EXCEPT ![s] = row'[s].account]
          /\ Talks' = [Talks EXCEPT ![s] = row'[s].cid]
          /\ Histories' = [Histories EXCEPT ![s] = log'[s]]
      BY <1>1, <2>2, <2>3, OneShown
    <3>2. States[s] = "live" /\ Histories[s] = log[s] /\ Homes[s] = row[s].account
      BY <1>1, <1>3, ShownOf DEF Live
    <3>3. QED
      BY <1>1, <2>2, <2>3, <3>1, <3>2, ShownOf
  <2>5. States[s] = "live"
    BY <1>1, <1>3, ShownOf DEF Live
  <2>6. QED
    BY <2>4, <2>5 DEF Served!Continue
<1>4. QED
  BY <1>2, <1>3

(* Sessions are created, deleted and renamed.                              *)
LEMMA SessionServed ==
  ASSUME Inv
  PROVE  /\ \A s \in Sessions, a \in Accounts : CreateSession(s, a) => Served!Create(s, a)
         /\ \A d \in Deletes : DeleteRow(d) =>
              Served!Delete(SessionOf[d]) \/ UNCHANGED Served!vars
         /\ \A t \in Renames : WriteTitle(t) => UNCHANGED Served!vars
<1>1. ASSUME NEW s \in Sessions, NEW a \in Accounts, CreateSession(s, a)
      PROVE  Served!Create(s, a)
  <2>1. row[s] \in Rows /\ row[s].state = "new" /\ row[s].cid = NoAccount /\ log[s] = <<>>
    BY <1>1 DEF CreateSession, Inv, TypeOK, NewIsUnused
  <2>2. /\ row'[s] = [row[s] EXCEPT !.state = "live", !.account = a] /\ log' = log
        /\ \A x \in Sessions : x # s => row'[x] = row[x] /\ log'[x] = log[x]
    BY <1>1 DEF CreateSession, Inv, TypeOK
  <2>3. row'[s].state = "live" /\ row'[s].account = a /\ row'[s].cid = NoAccount
    BY <2>1, <2>2 DEF Rows
  <2>4. /\ Talks[s] = NoAccount /\ Histories[s] = <<>> /\ States[s] = "new"
    BY <2>1, ShownOf
  <2>5. /\ States' = [States EXCEPT ![s] = "live"] /\ Homes' = [Homes EXCEPT ![s] = a]
        /\ Talks' = Talks /\ Histories' = Histories
    <3>1. /\ States' = [States EXCEPT ![s] = "live"]
          /\ Homes' = [Homes EXCEPT ![s] = row'[s].account]
          /\ Talks' = [Talks EXCEPT ![s] = row'[s].cid]
          /\ Histories' = [Histories EXCEPT ![s] = log'[s]]
      BY <2>2, <2>3, OneShown
    <3>2. QED
      BY <2>1, <2>2, <2>3, <2>4, <3>1, ShownOf
  <2>6. QED
    BY <2>4, <2>5 DEF Served!Create
<1>2. ASSUME NEW d \in Deletes, DeleteRow(d)
      PROVE  Served!Delete(SessionOf[d]) \/ UNCHANGED Served!vars
  <2> DEFINE s == SessionOf[d]
  <2>1. s \in Sessions /\ row[s] \in Rows
    BY SendsAreRequests DEF Inv, TypeOK
  <2>2. CASE ~Live(s)
    <3>1. row' = row /\ log' = log
      BY <1>2, <2>2 DEF DeleteRow
    <3>2. QED
      BY <2>1, <3>1, OneShown, ShownOf DEF Served!vars
  <2>3. CASE Live(s)
    <3>1. /\ row'[s] = [row[s] EXCEPT !.state = "deleted"] /\ log'[s] = <<>>
          /\ \A x \in Sessions : x # s => row'[x] = row[x] /\ log'[x] = log[x]
      BY <1>2, <2>1, <2>3 DEF DeleteRow, Inv, TypeOK
    <3>2. row'[s].state = "deleted"
      BY <2>1, <3>1 DEF Rows
    <3>3. /\ States' = [States EXCEPT ![s] = "deleted"]
          /\ Homes' = [Homes EXCEPT ![s] = NoAccount]
          /\ Talks' = [Talks EXCEPT ![s] = NoAccount]
          /\ Histories' = [Histories EXCEPT ![s] = <<>>]
      BY <2>1, <3>1, <3>2, OneShown
    <3>4. States[s] = "live"
      BY <2>1, <2>3, ShownOf DEF Live
    <3>5. QED
      BY <3>3, <3>4 DEF Served!Delete
  <2>4. QED
    BY <2>2, <2>3
<1>3. ASSUME NEW t \in Renames, WriteTitle(t)
      PROVE  UNCHANGED Served!vars
  <2> DEFINE s == SessionOf[t]
  <2>1. s \in Sessions /\ row[s] \in Rows /\ log' = log
    BY <1>3, SendsAreRequests DEF WriteTitle, Inv, TypeOK
  <2>2. \A x \in Sessions : x # s => row'[x] = row[x] /\ log'[x] = log[x]
    BY <1>3, <2>1 DEF WriteTitle, Inv, TypeOK
  <2>3. \/ row'[s] = row[s]
        \/ row'[s] = [row[s] EXCEPT !.renamed = TRUE, !.failovers = rec[t].failovers]
    BY <1>3, <2>1 DEF WriteTitle, Inv, TypeOK
  <2>4. /\ row'[s].state = row[s].state /\ row'[s].account = row[s].account
        /\ row'[s].cid = row[s].cid
    BY <2>1, <2>3 DEF Rows
  <2>5. QED
    BY <2>1, <2>2, <2>4, OneShown, ShownOf DEF Served!vars
<1>4. QED
  BY <1>1, <1>2, <1>3

(* Every step is one of SessionLife, or nobody sees it.                    *)
LEMMA ServedStep == Inv /\ [Next]_vars => [Served!Next]_Served!vars
<1> SUFFICES ASSUME Inv, [Next]_vars
             PROVE  Served!Next \/ UNCHANGED Served!vars
  OBVIOUS
<1>1. ASSUME NEW r \in Sends, AddUserMessage(r) \/ AddAssistantMessage(r)
      PROVE  Served!Next \/ UNCHANGED Served!vars
  <2>1. Served!Ask(r) \/ Served!Answer(r) \/ UNCHANGED Served!vars
    BY <1>1, MessageServed DEF AddUserMessage, AddAssistantMessage
  <2>2. QED
    BY <2>1 DEF Served!Next
<1>2. ASSUME NEW r \in Sends, WriteFailover(r)
      PROVE  Served!Next \/ UNCHANGED Served!vars
  <2>1. /\ Served!Move(SessionOf[r], target[r]) \/ UNCHANGED Served!vars
        /\ SessionOf[r] \in Sessions /\ target[r] \in Accounts
    BY <1>2, MoveServed, SendsAreRequests
       DEF Inv, RecordsCurrent, RecordCurrent, WriteFailover, Goto
  <2>2. QED
    BY <2>1 DEF Served!Next
<1>3. ASSUME NEW r \in Sends, UpdateSessionMetadata(r)
      PROVE  Served!Next \/ UNCHANGED Served!vars
  BY <1>3, ContinueServed, SendsAreRequests DEF Served!Next
<1>4. CASE \/ \E s \in Sessions, a \in Accounts : CreateSession(s, a)
           \/ \E d \in Deletes : DeleteRow(d)
           \/ \E t \in Renames : WriteTitle(t)
  BY <1>4, SessionServed, SendsAreRequests DEF Served!Next
<1>5. CASE row' = row /\ log' = log
  BY <1>5 DEF Served!vars, States, Homes, Talks, Histories, Live
<1>6. \/ row' = row /\ log' = log
      \/ \E r \in Sends : \/ AddUserMessage(r) \/ AddAssistantMessage(r)
                          \/ WriteFailover(r) \/ UpdateSessionMetadata(r)
      \/ \E s \in Sessions, a \in Accounts : CreateSession(s, a)
      \/ \E d \in Deletes : DeleteRow(d)
      \/ \E t \in Renames : WriteTitle(t)
  BY DEF Next, Execute, RequireSession, MaybeGetCachedResponse, Resolve, StayOnAccount,
         Unroutable, ChooseFallback, ReadForFailover, AcquireSlot, ProviderAnswers, Fail,
         Store, EndExecution, BeginExecution, RefuseBusy, Cancel, DeleteChecks,
         ReadForTitle, SetStatus, Crash, vars
<1>7. QED
  BY <1>1, <1>2, <1>3, <1>4, <1>5, <1>6

(* Whatever sends, deletions, renamings, failovers, cancellations and      *)
(* restarts overlap, clients see sessions as SessionLife describes them    *)
(* (ChatService and ChatRepository).                                       *)
THEOREM SessionsAreServed == Spec => ImplementsSessionLife
<1>1. QED
  BY ServedInit, Invariance, ServedStep, PTL DEF Spec, ImplementsSessionLife, Served!Spec
=============================================================================
