------------------------------ MODULE Admission ------------------------------
(***************************************************************************)
(* Admission of requests to provider accounts: AccountLease,               *)
(* AccountPool._acquire_slot and AccountPool._release_slot                 *)
(* (services/account_pool.py).                                             *)
(*                                                                         *)
(* Every account runs at most max_concurrency requests and the service at  *)
(* most global_max_concurrency.  A request that cannot start takes a       *)
(* ticket, appends it to its account's deque and waits on one              *)
(* asyncio.Condition shared by all accounts; it starts when it is woken    *)
(* while its ticket is at the head of the deque.  The body between         *)
(* acquiring the condition and waiting on it contains no await, so each    *)
(* pass through the loop is one atomic step.  This is asyncio of Python    *)
(* 3.12 (Dockerfile), where nobody holds the condition's lock across a     *)
(* suspension: acquiring it never waits, and cannot be cancelled.          *)
(*                                                                         *)
(* sync_inventory takes the runtime of an account that left the inventory  *)
(* out of the pool while leases still refer to it: they wait on it, run on *)
(* it and release it as before.  An element of Accounts is one runtime, so *)
(* an account that is added again is another element, or the same one when *)
(* nobody refers to it any more.                                           *)
(*                                                                         *)
(* An element of Requests stands for one call of acquire and is used once, *)
(* which bounds ticketCounter by Cardinality(Requests).                    *)
(***************************************************************************)
EXTENDS Integers, FiniteSets, SequencesExt

CONSTANTS
  Accounts,                (* the runtimes of the accounts                 *)
  Requests,                (* calls of AccountPool.acquire                 *)
  Configs,                 (* inventories: config.max_concurrency of each  *)
                           (* account                                      *)
  GlobalMaxConcurrency,    (* settings.global_max_concurrency              *)
  PerAccountMaxQueueDepth, (* settings.per_account_max_queue_depth         *)
  GlobalMaxQueueDepth      (* settings.global_max_queue_depth              *)

ASSUME LimitsAssumption ==
  /\ IsFiniteSet(Requests)
  /\ Configs \subseteq [Accounts -> Nat]
  /\ GlobalMaxConcurrency \in Nat
  /\ PerAccountMaxQueueDepth \in Nat
  /\ GlobalMaxQueueDepth \in Nat

VARIABLES
  listed,         (* the runtimes in AccountPool._runtimes                 *)
  maxConcurrency, (* AccountRuntime.config.max_concurrency                *)
  routable,       (* AccountRuntime.is_routable() of each account          *)
  active,         (* AccountRuntime.active_requests                        *)
  globalActive,   (* AccountPool._global_active_requests                   *)
  waiters,        (* AccountRuntime.waiters, a deque of tickets            *)
  ticketCounter,  (* AccountPool._ticket_counter                           *)
  pc,             (* where each request is in acquire / __aexit__          *)
  target,         (* the runtime its lease selected                        *)
  ticket,         (* its ticket_id, NoTicket while None                    *)
  woken           (* waiting requests notified but not yet resumed         *)

vars == <<listed, maxConcurrency, routable, active, globalActive, waiters,
          ticketCounter, pc, target, ticket, woken>>

NoTicket == -1

PCs == {"idle", "selected", "waiting", "holding",
        "released", "rejected", "timedout", "cancelled"}

TypeOK ==
  /\ listed \subseteq Accounts
  /\ maxConcurrency \in [Accounts -> Nat]
  /\ routable \in [Accounts -> BOOLEAN]
  /\ active \in [Accounts -> Nat]
  /\ globalActive \in Nat
  /\ waiters \in [Accounts -> Seq(Nat)]
  /\ ticketCounter \in Nat
  /\ pc \in [Requests -> PCs]
  /\ target \in [Requests -> Accounts]
  /\ ticket \in [Requests -> Nat \cup {NoTicket}]
  /\ woken \subseteq Requests

Waiting == {r \in Requests : pc[r] = "waiting"}
Holders == {r \in Requests : pc[r] = "holding"}
HoldersOf(a) == {r \in Requests : pc[r] = "holding" /\ target[r] = a}

QueueDepth(a) == Len(waiters[a])
TotalQueueDepth == MapThenSumSet(QueueDepth, listed)

-----------------------------------------------------------------------------
(* Helpers of AccountPool.                                                 *)

CanStartNoGlobal(a) ==
  /\ routable[a]
  /\ active[a] < maxConcurrency[a]

CanStart(a) ==
  /\ routable[a]
  /\ globalActive < GlobalMaxConcurrency
  /\ active[a] < maxConcurrency[a]

IsQueueFull(a) ==
  \/ QueueDepth(a) >= PerAccountMaxQueueDepth
  \/ TotalQueueDepth >= GlobalMaxQueueDepth

(* _remove_waiter: deque.remove, ignoring a ticket that is not there.  A    *)
(* deque holds a ticket at most once (QueueSound).                         *)
RemoveWaiterLast(q, t) ==
  IF Contains(q, t) THEN Front(q) ELSE q

RemoveWaiter(q, t) ==
  IF Contains(q, t) THEN RemoveAt(q, CHOOSE i \in 1..Len(q) : q[i] = t) ELSE q

AtHead(r) == waiters[target[r]][1] = ticket[r]

-----------------------------------------------------------------------------
Init ==
  /\ listed \in SUBSET Accounts
  /\ maxConcurrency \in Configs
  /\ routable \in [Accounts -> BOOLEAN]
  /\ active = [a \in Accounts |-> 0]
  /\ globalActive = 0
  /\ waiters = [a \in Accounts |-> <<>>]
  /\ ticketCounter = 0
  /\ pc = [r \in Requests |-> "idle"]
  /\ target \in [Requests -> Accounts]
  /\ ticket = [r \in Requests |-> NoTicket]
  /\ woken = {}

(* acquire: the selection only ever returns a runtime that is routable at  *)
(* that moment.  A step of its own, so that the state of the account may   *)
(* have changed when the lease is entered: more than the code's callers,   *)
(* which enter it at once, let happen.                                     *)
Select(r) ==
  /\ pc[r] = "idle"
  /\ target[r] \in listed /\ routable[target[r]]
  /\ pc' = [pc EXCEPT ![r] = "selected"]
  /\ UNCHANGED <<listed, maxConcurrency, routable, active, globalActive,
                 waiters, ticketCounter, target, ticket, woken>>

(* Taking a slot: both counters, then notify_all on the shared condition.  *)
TakeSlotForgetGlobal(r) ==
  /\ active' = [active EXCEPT ![target[r]] = @ + 1]
  /\ globalActive' = globalActive
  /\ pc' = [pc EXCEPT ![r] = "holding"]
  /\ woken' = Waiting \ {r}

TakeSlot(r) ==
  /\ active' = [active EXCEPT ![target[r]] = @ + 1]
  /\ globalActive' = globalActive + 1
  /\ pc' = [pc EXCEPT ![r] = "holding"]
  /\ woken' = Waiting \ {r}

(* First pass of the loop, ticket_id is None: start at once, ...           *)
StartDirectly(r) ==
  /\ pc[r] = "selected"
  /\ CanStart(target[r])
  /\ TakeSlot(r)
  /\ UNCHANGED <<listed, maxConcurrency, routable, waiters, ticketCounter,
                 target, ticket>>

(* ... or fail with 429 queue_full, ...                                    *)
RejectQueueFull(r) ==
  /\ pc[r] = "selected"
  /\ ~CanStart(target[r])
  /\ IsQueueFull(target[r])
  /\ pc' = [pc EXCEPT ![r] = "rejected"]
  /\ UNCHANGED <<listed, maxConcurrency, routable, active, globalActive,
                 waiters, ticketCounter, target, ticket, woken>>

(* ... or take the next ticket, join the deque and wait on the condition.  *)
Enqueue(r) ==
  /\ pc[r] = "selected"
  /\ ~CanStart(target[r])
  /\ ~IsQueueFull(target[r])
  /\ ticket' = [ticket EXCEPT ![r] = ticketCounter]
  /\ ticketCounter' = ticketCounter + 1
  /\ waiters' = [waiters EXCEPT ![target[r]] = Append(@, ticketCounter)]
  /\ pc' = [pc EXCEPT ![r] = "waiting"]
  /\ UNCHANGED <<listed, maxConcurrency, routable, active, globalActive,
                 target, woken>>

(* A woken waiter whose ticket is at the head starts when a slot is free.  *)
StartFromQueueAnyPosition(r) ==
  /\ r \in woken
  /\ CanStart(target[r])
  /\ waiters' = [waiters EXCEPT ![target[r]] = RemoveWaiter(@, ticket[r])]
  /\ TakeSlot(r)
  /\ UNCHANGED <<listed, maxConcurrency, routable, ticketCounter, target,
                 ticket>>

StartFromQueue(r) ==
  /\ r \in woken
  /\ CanStart(target[r])
  /\ AtHead(r)
  /\ waiters' = [waiters EXCEPT ![target[r]] = Tail(@)]
  /\ TakeSlot(r)
  /\ UNCHANGED <<listed, maxConcurrency, routable, ticketCounter, target,
                 ticket>>

(* A woken waiter that may not start waits on the condition again.         *)
WaitAgain(r) ==
  /\ r \in woken
  /\ ~(CanStart(target[r]) /\ AtHead(r))
  /\ woken' = woken \ {r}
  /\ UNCHANGED <<listed, maxConcurrency, routable, active, globalActive,
                 waiters, ticketCounter, pc, target, ticket>>

(* asyncio.Condition.wait interrupted by an exception: the interrupted     *)
(* waiter is gone; from Python 3.12.4 on it hands a wake-up to another.    *)
InterruptedWait(r) ==
  \/ woken' = woken \ {r}
  \/ \E s \in Waiting \ {r} : woken' = (woken \ {r}) \cup {s}

(* The deadline passes, before or after a notification: the ticket leaves  *)
(* the deque and the caller gets 504 queue_timeout.                        *)
QueueTimeout(r) ==
  /\ pc[r] = "waiting"
  /\ waiters' = [waiters EXCEPT ![target[r]] = RemoveWaiter(@, ticket[r])]
  /\ pc' = [pc EXCEPT ![r] = "timedout"]
  /\ InterruptedWait(r)
  /\ UNCHANGED <<listed, maxConcurrency, routable, active, globalActive,
                 ticketCounter, target, ticket>>

(* The caller's task is cancelled (client disconnect, batch shutdown) in   *)
(* acquire.  _acquire_slot handles TimeoutError only, so nothing removes   *)
(* the ticket of a waiter that is cancelled.                               *)
CancelReleases(r) ==
  /\ pc[r] \in {"selected", "waiting"}
  /\ pc' = [pc EXCEPT ![r] = "cancelled"]
  /\ active' = [active EXCEPT ![target[r]] = @ - 1]
  /\ globalActive' = globalActive - 1
  /\ IF pc[r] = "waiting" THEN InterruptedWait(r) ELSE UNCHANGED woken
  /\ UNCHANGED <<listed, maxConcurrency, routable, waiters, ticketCounter,
                 target, ticket>>

Cancel(r) ==
  /\ pc[r] \in {"selected", "waiting"}
  /\ pc' = [pc EXCEPT ![r] = "cancelled"]
  /\ IF pc[r] = "waiting" THEN InterruptedWait(r) ELSE UNCHANGED woken
  /\ UNCHANGED <<listed, maxConcurrency, routable, active, globalActive,
                 waiters, ticketCounter, target, ticket>>

(* AccountLease.__aexit__, on return, error and cancellation alike.        *)
ReleaseWithoutNotify(r) ==
  /\ pc[r] = "holding"
  /\ active' = [active EXCEPT ![target[r]] = IF @ > 0 THEN @ - 1 ELSE 0]
  /\ globalActive' = IF globalActive > 0 THEN globalActive - 1 ELSE 0
  /\ pc' = [pc EXCEPT ![r] = "released"]
  /\ UNCHANGED <<listed, maxConcurrency, routable, waiters, ticketCounter,
                 target, ticket, woken>>

ReleaseNotifyOne(r) ==
  /\ pc[r] = "holding"
  /\ active' = [active EXCEPT ![target[r]] = IF @ > 0 THEN @ - 1 ELSE 0]
  /\ globalActive' = IF globalActive > 0 THEN globalActive - 1 ELSE 0
  /\ pc' = [pc EXCEPT ![r] = "released"]
  /\ IF Waiting = {} THEN UNCHANGED woken
                     ELSE \E s \in Waiting : woken' = woken \cup {s}
  /\ UNCHANGED <<listed, maxConcurrency, routable, waiters, ticketCounter,
                 target, ticket>>

Release(r) ==
  /\ pc[r] = "holding"
  /\ active' = [active EXCEPT ![target[r]] = IF @ > 0 THEN @ - 1 ELSE 0]
  /\ globalActive' = IF globalActive > 0 THEN globalActive - 1 ELSE 0
  /\ pc' = [pc EXCEPT ![r] = "released"]
  /\ woken' = Waiting
  /\ UNCHANGED <<listed, maxConcurrency, routable, waiters, ticketCounter,
                 target, ticket>>

(* Probes, provider outcomes and operators move an account in and out of   *)
(* the routable states (module AccountHealth); _set_state and the operator *)
(* flags never notify the condition.                                       *)
SetState(a) ==
  /\ routable' = [routable EXCEPT ![a] = ~@]
  /\ UNCHANGED <<listed, maxConcurrency, active, globalActive, waiters,
                 ticketCounter, pc, target, ticket, woken>>

(* sync_inventory drops the runtimes of accounts that left the inventory,  *)
(* whoever waits or runs there, ...                                        *)
DropRuntime(a) ==
  /\ a \in listed
  /\ listed' = listed \ {a}
  /\ UNCHANGED <<maxConcurrency, routable, active, globalActive, waiters,
                 ticketCounter, pc, target, ticket, woken>>

(* ... gives those that stay their entry's configuration, which ends       *)
(* nobody and wakes nobody (refreshes do so too), ...                      *)
SetMaxConcurrency(a) ==
  \E c \in Configs : maxConcurrency' = [maxConcurrency EXCEPT ![a] = c[a]]

ReloadConfig(a) ==
  /\ a \in listed
  /\ SetMaxConcurrency(a)
  /\ UNCHANGED <<listed, routable, active, globalActive, waiters, ticketCounter,
                 pc, target, ticket, woken>>

(* ... and makes new ones, which are not routable before their first probe *)
(* and start with an empty deque.                                          *)
InUse(a) ==
  \E r \in Requests : target[r] = a /\ pc[r] \in {"selected", "waiting", "holding"}

NewRuntime(a) ==
  /\ a \notin listed /\ ~InUse(a)
  /\ listed' = listed \cup {a}
  /\ SetMaxConcurrency(a)
  /\ routable' = [routable EXCEPT ![a] = FALSE]
  /\ active' = [active EXCEPT ![a] = 0]
  /\ waiters' = [waiters EXCEPT ![a] = <<>>]
  /\ UNCHANGED <<globalActive, ticketCounter, pc, target, ticket, woken>>

-----------------------------------------------------------------------------
Admit(r) == Select(r) \/ StartDirectly(r) \/ RejectQueueFull(r) \/ Enqueue(r)
Resume(r) == StartFromQueue(r) \/ WaitAgain(r)

Next ==
  \/ \E r \in Requests :
       Admit(r) \/ Resume(r) \/ QueueTimeout(r) \/ Cancel(r) \/ Release(r)
  \/ \E a \in Accounts :
       SetState(a) \/ DropRuntime(a) \/ ReloadConfig(a) \/ NewRuntime(a)

Spec == Init /\ [][Next]_vars

(* The pool when nothing fails: accounts stay, stay routable and keep      *)
(* their limits, no caller gives up and no deadline passes.  The event     *)
(* loop runs every ready task and every holder gives its slot back         *)
(* (provider calls carry a timeout).                                       *)
SteadyNext ==
  \E r \in Requests : Admit(r) \/ Resume(r) \/ Release(r)

SteadyInit == Init /\ listed = Accounts /\ routable = [a \in Accounts |-> TRUE]

SteadySpec ==
  /\ SteadyInit
  /\ [][SteadyNext]_vars
  /\ \A r \in Requests : WF_vars(Admit(r)) /\ WF_vars(Resume(r))
                         /\ WF_vars(Release(r))

-----------------------------------------------------------------------------
(* The counters never drift from the requests that really hold a slot,     *)
(* whatever order starts, releases, timeouts and cancellations come in.    *)
CountersExact ==
  /\ \A a \in Accounts : active[a] = Cardinality(HoldersOf(a))
  /\ globalActive = Cardinality(Holders)

(* No interleaving of direct starts and queued starts gets past a limit,   *)
(* counting the requests that run and not the counters: an account never   *)
(* runs more than some inventory allowed it.  (After the limit was lowered *)
(* more may run than it now says; Slots has that nobody starts then.)      *)
LimitsRespected ==
  /\ \A a \in Accounts : \E c \in Configs : Cardinality(HoldersOf(a)) <= c[a]
  /\ Cardinality(Holders) <= GlobalMaxConcurrency

(* Every waiter still has its place: its ticket is in its account's deque  *)
(* (so waiters[0] exists when it is woken), deques are in arrival order,   *)
(* and a request that no longer waits and was not cancelled has no ticket  *)
(* left that would hold up the others.                                     *)
QueueSound ==
  /\ \A r \in Waiting : Contains(waiters[target[r]], ticket[r])
  /\ \A a \in Accounts : \A i, j \in 1..QueueDepth(a) :
       i < j => waiters[a][i] < waiters[a][j]
  /\ \A r \in Requests : pc[r] \in {"holding", "released", "timedout"} =>
       ~Contains(waiters[target[r]], ticket[r])

(* The strengthening that makes QueueSound inductive: tickets are issued   *)
(* once, in order, and only waiters that were woken can resume.            *)
TicketsIssuedOnce ==
  /\ woken \subseteq Waiting
  /\ \A r \in Requests :
       /\ ticket[r] < ticketCounter
       /\ pc[r] \in {"idle", "selected"} => ticket[r] = NoTicket
       /\ pc[r] = "waiting" => ticket[r] # NoTicket
  /\ \A r, s \in Requests :
       r # s /\ ticket[r] = ticket[s] => ticket[r] = NoTicket
  /\ \A a \in Accounts : \A i \in 1..QueueDepth(a) :
       waiters[a][i] < ticketCounter

(* FIFO among the queued: a waiter never starts while a waiter of the same *)
(* account that queued before it is still waiting.                         *)
NoOvertakingInQueue ==
  [][\A r, s \in Waiting :
       pc'[r] = "holding" /\ target[r] = target[s] /\ pc'[s] = "waiting"
         => ticket[r] < ticket[s]]_vars

(* While nothing fails no wake-up is lost: whenever the head of a deque    *)
(* could start, it has been notified and will look again; so while anyone  *)
(* waits, and the limits let anyone run at all, either a request holds a   *)
(* slot, whose release notifies everyone, or a waiter is about to resume.  *)
NoLostWakeup ==
  /\ \A r \in Waiting : CanStart(target[r]) /\ AtHead(r) => r \in woken
  /\ \A r \in Waiting :
       GlobalMaxConcurrency > 0 /\ maxConcurrency[target[r]] > 0
         => Holders # {} \/ \E s \in woken : target[s] = target[r] /\ AtHead(s)

(* The strengthening that makes NoLostWakeup inductive: while nothing      *)
(* fails, a deque holds no ticket but those of the account's waiters.      *)
NoStrayTicket ==
  \A a \in Accounts : routable[a] /\ \A i \in 1..QueueDepth(a) :
    \E r \in Waiting : target[r] = a /\ ticket[r] = waiters[a][i]

(* While nothing fails every queued request is eventually admitted.        *)
QueuedEventuallyStarts ==
  \A r \in Requests : pc[r] = "waiting" ~> pc[r] = "holding"

(* The counters and queues implement the abstract bound on running         *)
(* requests: every step starts one request within both limits, ends one,   *)
(* or leaves the running requests alone.                                   *)
Running == {<<r, target[r]>> : r \in Holders}

Bounded == INSTANCE Slots WITH running <- Running, limit <- maxConcurrency

ImplementsSlots == Bounded!Spec
=============================================================================
