# Formal models of gemini-service

TLA+ models of `src/gemini_service`, a multi-account gateway in front of the
Gemini web application, and of the client library `src/gemini_webapi` it uses:
what its parts do when requests, probes, operators, browsers, timeouts,
cancellations and restarts interleave, what TLC checks about them on small
instances, and what TLAPS proves for all instances.

To check: `tlc -config X.cfg M` for every run of `PROJECT.json`, and
`tlapm M.tla` for the eight modules whose name ends in `Proofs`. Paths below
are relative to `src/gemini_service` unless they begin elsewhere.

## The system and its parts

One process, one asyncio event loop. A step of the program is what runs between
two suspensions (`await`, `yield`); everything below interleaves at those
points. Browsers are processes of their own.

| Part | State it keeps | Operations |
| --- | --- | --- |
| Account pool (`services/account_pool.py`) | an `AccountRuntime` per account (state, failure count, cooldown, active requests, deque of waiting tickets), a global count, the refresh lock, one condition | selection, `_acquire_slot`, `_release_slot`, probes, recording of outcomes, operators' actions, inventory synchronisation |
| Chat service (`services/chat_service.py`) | the set of active session ids | create, rename, delete a session; send or stream a message |
| Repository (`db/repository.py`) | SQLite rows of sessions, messages, assets, batches | one short transaction per call |
| Batch service (`services/batch_service.py`) | one task per batch | create, run, resume at start, cancel at shutdown |
| Assets (`services/asset_service.py`, `asset_cleanup_service.py`, `storage/`) | rows and files | upload, generated media, binding, expiry and orphan cleanup |
| Admin console (`services/admin_console_service.py`) | reauth jobs and their monitor tasks | start, complete, cancel a job; edit and delete accounts; browser actions |
| Recovery (`services/account_recovery_service.py`) | `accounts.json`, the cookie cache | collect, validate and write the cookies of an account |
| Browser manager and cookie daemon (`services/persistent_browser_manager.py`, `cookie_refresh_daemon.py`, `core/browser_cookie_sync.py`) | a registry file of browsers and ports, sessions in memory, forced syncs | launch, attach, focus, stop, read cookies; a tick over all accounts |
| Adapters (`adapters/`) | a provider client each | probe, send, stream, with deadlines; translation of errors |
| Gemini client (`src/gemini_webapi`) | HTTP session, lock, refresher task, and one list of conversation ids for the whole process | init, close, generate, retry, recover |
| Frontend (`frontend/src/chat`) | workspace state in the browser | streams, history loads, session switches |

How they interact: the chat service asks the pool for an account and a slot,
holds the slot during the provider call of the adapter, which calls the client,
reports the outcome to the pool and then commits to the repository. Uploads are
attached to messages by id; cleanup works beside all that. Batches send through
the chat service. Routes and the admin console act on the pool at any moment. A
recovery, started by a job's monitor, an operator or the daemon, gets cookies
from the account's browser, validates them with a client of its own, writes the
inventory file and makes the pool reload. Nothing but the pool's refresh lock,
its condition, the client's lock and the chat service's guard orders any of
this.

What is hard here: state read before an `await` and used after it (session
records, selections, probes, lists of assets to clean, loaded inventories),
late results recorded on runtimes, jobs and registry entries that have moved
on, cancellation (a client that disconnects) at every suspension, several
commits for one logical operation, rows and files written apart, a crash
between any two of them, processes reached by port alone, a lock held across
requests that may be retried, and one mutable list shared by all conversations.
`PROJECT.json` lists these hazards by line with the properties that cover them.

What makes each part correct:

- pool: limits kept, counters exact, no waiter lost or overtaken in its queue,
  health changed only by evidence or by an operator;
- chat: one request at a time per session, one answer per key, a well-formed
  history, calls made with what the session's row says at that moment;
- batches: a finished batch tells the truth, a resumed one repeats nothing;
- assets: a file is there as long as it is due and not longer;
- accounts: only accepted cookies are used, edits are not undone, jobs end;
- browsers: an account's cookies come from its own profile;
- client: one session, a lock that comes free, prompts that go to their
  conversation.

## Modules

| Module | What it models |
| --- | --- |
| `Slots` | abstract: requests run, bounded per account and overall |
| `Admission` | `AccountLease`, `_acquire_slot`, `_release_slot`: counters, deques, tickets, the shared condition |
| `AccountHealth` | every writer of `AccountRuntime`'s health: probes, outcomes, operators, the inventory |
| `SessionLife` | abstract: a session is on one account, its history grows by questions and their answers |
| `ChatSession` | `ChatService` over the session and message rows |
| `BatchLife` | abstract: items are decided once and truly, a batch is reported once and last |
| `Batch` | `BatchService` over the batch rows |
| `FileLife` | abstract: the content of an asset is published once, retired once, never back |
| `Assets` | `AssetService`, the storage, attachments and images of requests, `AssetCleanupService` |
| `Accounts` | reauth jobs, recoveries, `accounts.json`, the cookie cache, `sync_inventory` |
| `Browsers` | `PersistentBrowserManager`, `CookieRefreshDaemon`, the browser processes |
| `GeminiClient` | one account's client under the calls of its adapter |
| `MC...` | instances for TLC |
| `...Proofs` | theorems about the module they are named after |

The modules meet at narrow interfaces. Each allows at least what the component
behind it does, so that safety carries over to the composed program; what one
leaves out is said in its section below or under "Not modelled".
`Admission` and `AccountHealth` are two views of the same pool: admission needs
of health only whether an account is routable, an arbitrary boolean there
(`SetState`); health knows calls in flight but not their slots. `ChatSession`
sees the pool as a status per account that changes at any moment, and the ids
that come with an answer as those of any conversation. `Batch` sees
a message as answered or refused, perhaps after the answer was stored. `Assets`
sees a request as attaching, failing or binding. `Accounts` sees a browser as
there or not, and the probe of a runtime as any result its cookies allow;
`Browsers` sees a recovery as cookies that are read and later validated, or not.
`GeminiClient` sees the adapter's deadlines as cancellation at any moment, and
the provider as answering anything or nothing.

### Admission

`active` is `active_requests`, `waiters` the deque, `ticketCounter` the
counter; `pc`, `target`, `ticket` are the locals of one call of `acquire`;
`woken` are the waiters notified and not yet resumed. The body of
`_acquire_slot` suspends only in `Condition.wait`, so each pass of its loop is
one action: `StartDirectly`, `RejectQueueFull`, `Enqueue` for the first pass,
`StartFromQueue`, `WaitAgain` for later ones. `Release` and `TakeSlot` notify
all waiters of all accounts. `QueueTimeout` may hit a waiter that was already
notified; `Cancel` removes the request but, like the code, not its ticket. The
model is asyncio as of Python 3.12, the version of the Dockerfile.

An element of `Accounts` is one runtime, and `listed` are those of the pool's
`_runtimes`. `sync_inventory` takes the runtime of a deleted account out
(`DropRuntime`), but leases made before keep referring to it, wait in its deque
and run on it; an account that is added again gets another runtime with
counters at zero (`NewRuntime`), for which the model uses an element that no
lease refers to. `ReloadConfig` gives a runtime the `max_concurrency` of the
present inventory; `Configs` are the inventories that operators may write.
Lowering a limit ends nobody, and raising it wakes nobody. `Slots` has this as
`SetLimit`: nobody starts on an account that runs as many as its limit now says
or more.

### AccountHealth

`rt` is `AccountRuntime`; `cooldown` abstracts `cooldown_until` to none, in the
future, or past; `lastError` says whether the last error was about the login.
`task` follows a refresh of an account (reload, begin probe, probing) from each
of two sources: the round that holds the refresh lock and an operator's refresh
that holds nothing. `call` are provider calls in flight. The methods are
functions from runtimes to runtimes (`RecordFailure`, `ApplyProbe`, ...), which
the actions apply. `Raised` is the only difference between the adapters: the
web adapter turns every exception of a probe into a `ServiceError`, the mock
adapter does not.

### ChatSession

`row` and `log` are the database; `active` is `_active_session_ids`; `rec` is
the record a request read and holds. A send goes through `BeginExecution`,
`RequireSession`, `MaybeGetCachedResponse`, the routing decision with its two
steps of `record_failover`, `AcquireSlot`, the provider call, and the three
commits `UpdateSessionMetadata`, `AddUserMessage`, `AddAssistantMessage`. At
every point it may fail where the code can raise, be cancelled, or die in a
`Crash`, which keeps the rows and clears the rest. `send_message` and
`stream_message` make the same steps; what they yield in between is not state.
The ids of a conversation are abstracted to the account it lives on.
`UpdateSessionMetadata` stores a conversation on any account, or none: the web
adapter returns the ids in the list that all chats share
(`src/gemini_webapi/client.py:1885`), where an overlapping send may have left
those of another session and account. So that a session's conversation lives on
its own account is not a property here; that the call is made with what its row
says, is (`CallFollowsRow`).

`ChatSession` implements `SessionLife` with the rows as its state
(`Served`): `home` is the account of a session's row, `talk` the account of its
conversation, whichever that is, `history` its messages. Clients see no more of a session that is
deleted, so what a send that was under way still stores for it is hidden.

### Batch

`batch` and `item` are the rows, `task` the running task with the item it is at
and those it has listed. The list is ordered by times of creation, which items
of one batch may share, so the next item is any of them. A `Stop` may come
anywhere and `Start` reschedules. `TaskDies` is an exception of the repository
inside the task, which stays `"died"`. Counters change only in
`MarkBatchFinished`: what `mark_batch_item_*` writes after its commit is rolled
back when the database session closes.

`Batch` implements `BatchLife` (`Promised`): the report of a batch is its row,
pending and running being the same from outside, and the outcome of an item is
open until its row says completed or failed. `CreateBatch` accepts, an answer
of the provider that is stored answers, marking an item decides it,
`MarkBatchFinished` reports.

### Assets

`row` is the asset's row (status, storage uri, whether it expires and whether
that time, or the grace of an orphan, has passed, the session it is bound to),
`file` the files on disk, `writer` where `create_upload` or
`create_generated_asset` is between its three steps (row, file, row), each of
which can raise after it has taken effect. `request` goes from resolving the
path of the attachment over the provider's answer to the bindings. `cleaner`
holds the two lists a round of cleanup took and the asset in hand: deletion of
the file and marking of the row are separate steps. The deletion of a session,
which unbinds its assets and so makes them orphans, is separate from the check
before it. `FileLife` is implemented by `content <- Content`: an asset's
content is there while its row is available and the file is on disk.

### Accounts

`inv` is `accounts.json`, `edit` counts the operators' edits of an entry;
`pool` the runtimes, `lock` the pool's refresh lock, `cache` the cookie cache.
`call` are recoveries (collecting, probing, reloading, verifying) and the
synchronisation after an edit (waiting for the lock, syncing); `job` the jobs
with their monitors. A recovery reads the file again in the step in which it
writes it, which is what keeps edits. A recovery that finds no browser launches
one in a later step (`Launch`), and only for a job that starts. A monitor polls, sleeps, and is stopped
by the deadline, by a cancellation, or by an exception that nothing catches.

Cookies are given (typed or there before), good or bad. The client's
`get_access_token` first tries a jar in which the cache file of the pair is laid
over it, so acceptance is no property of the pair alone: bad cookies are those
that are refused with whatever the cache adds, and a probe of good or given ones
may find either. `OnlyValidatedCookies` is about bad ones; a pair that was
accepted only thanks to the cache is a good one for it. The probes that
`RefreshAll` makes of several accounts end together; a candidate for cookies
stands for all that one bundle yields.

### Browsers

`proc` are the browser processes: started, up and listening, hung, dead; they
change on their own and survive the service. `entry` is the registry, which is
saved at every change and so survives too, `session` what is in memory,
`launch` the launch for which the event loop is blocked, `sync` the recoveries
that read cookies, `tick` the daemon. Whether something answers at a port is
all the service sees of a browser. `Close` (stop every session) and `Crash` are
followed by a start. `close` is one step, and so is every write of the registry.
`ReuseExisting` is `browser_reuse_existing`; without it an attach looks only at
the session in memory and leaves the registry entry as it is (`Registered`). An
account's profile directory does not change: an operator who edits it gives a
browser that runs to another profile, which `CookiesFromOwnBrowser` does not
speak of. Accounts are not deleted here (see "Divergences seen").

### GeminiClient

`running` is `_running` (the HTTP session exists exactly then), `lock` the
client's asyncio lock, `refresher` the task that rotates cookies, `metadata`
the list `DEFAULT_METADATA` of `constants.py`, abstracted to the conversation
it names, `call` where each call of the adapter is: waiting for the lock,
fetching the token, setting up (RPCs under the lock), posting, backing off,
polling for a saved answer. `cut` says that another call has closed the session
under a request, `said` that text was yielded, `target` which conversation the
prompt was posted to last. `Closed` is `close()`: it cuts off what is in flight
and cancels the refresher with the lock it may hold. `InitRpcRefused` keeps the
lock: `init` is in `async with` while the RPC it awaits closes the client and
is retried by `@running`, whose wrapper calls `init` again. `InitRpcFindsClosed`
gets there by another call's close: the next RPC of the set-up finds the client
not running. Only a part of an answer (`ProcessPart`) names a conversation in
the list; a recovery writes nothing of what is told apart here. `TimesOut` is
`asyncio.wait_for` or `asyncio.timeout` of the adapter, or a caller who left.
The model is of one account's client; the list is shared by the clients of all
accounts, so more sends meet in it than here.

## Runs

| Run | Shows | Instance | States |
| --- | --- | --- | --- |
| `admission` | counters exact, queues sound, FIFO among waiters, `Slots` (and with it the limits) implemented | 4 requests, an account of 1 slot and one of 1 or 2, global limit 2, queue limits 2 and 3; accounts removed, added and given another limit | 1,397,468 |
| `admission_steady` | no lost wake-up and no queue that stands still, every queued request admitted | the same, nothing fails | 27,624 |
| `account_health` | READY is earned, cooldowns are honoured; INITIALIZING and COOLING_DOWN end; what the inventory says takes effect | 1 account, 2 calls, both refresh sources, mock adapter, thresholds 2 and 3, at most 4 failures | 61,656 |
| `chat_session` | single flight, one answer per key, calls made on the row's account with its conversation, `SessionLife` (and with it ordered histories) implemented | 1 session, 3 sends (2 under one key), 1 deletion, 2 accounts, crashes | 2,047,236 |
| `chat_session_moves` | only sessions created with `allow_failover` move; an active session becomes free | 2 sessions, 1 send each, a renaming | 712,620 |
| `batch` | an unfinished batch is pursued, a finished one tells the truth; a named session answers once; `BatchLife` (items decided once and truly, one final report) implemented; an accepted batch finishes unless its task dies | batches of 2 and 1 items, 2 restarts, dying tasks | 24,535 |
| `assets` | files go when due and not before, `FileLife` implemented, what nobody binds is cleaned up | an upload, an image, a request with both, its session, crashes | 48,019 |
| `accounts` | only validated cookies, the pool follows the file and only the caller that loads it holds the lock, edits are kept, a monitored job ends | 1 account, a job with its monitor, a second caller, 3 edits | 182,236 |
| `browsers` | cookies come from the account's own browser | 2 accounts, 2 ports, 2 processes, operator and daemon, one recovery at a time, browsers used again | 1,633,636 |
| `browsers_noticed` | the daemon notices that a browser is gone, for an account of the inventory in a service that uses browsers again | 1 account, 1 process, 2 recoveries at a time | 3,304 |
| `client` | one session at a time, the lock never left behind, a send that is alone keeps to its conversation, the lock comes free | a probe, a send that continues a conversation, one that opens one; 1 retry at each level | 589,288 |

One run ends in a violation. `conversations` checks what the docstring of
`generate_content` (`src/gemini_webapi/client.py:627`) says of its chat, that
with none a new conversation is opened and with one that one is continued.
`ChatSession.__init__` takes the module's list `DEFAULT_METADATA` itself and
its setters change it in place (`client.py:1885`): TLC finds a send without a
conversation that is posted to an earlier send's, and with overlapping sends
one that is posted to a conversation it does not name. `AloneKeepsConversation`
is what is true instead.

### Bounds

Requests and sends are used once each, which bounds tickets and histories.
Four requests are the least that fill a slot, a queue of two and still leave a
newcomer; the global limit is below the sum of the accounts' and the global
queue limit below the sum of theirs, so that each is the one that bites
somewhere. Accounts meet in `AccountHealth` only in the refresh lock, so one
account shows the races on a runtime. `MaxFailures` is one above the larger
threshold. Two sends under one key and one without give both a replay and an
unrelated message in between. `MaxRestarts` of two allows a resumed batch to be
interrupted again.

Assets meet only in cleanup's lists; an upload and an image go through the two
different lists in one round. `MaxEdits` of three is delete, add again, edit:
with a recovery that loaded the file before the first. A job of `Accounts` is
started once, and may then be completed or cancelled whatever became of it;
requests are used again when they are over. One of each overlaps a monitor with
an operator's or the daemon's recovery, and two accounts would meet only
in the pool's lock, where edits of one account already wait for each other.
Two accounts and two ports are the least with which a port could be given to
the wrong one; a third process adds a second relaunch of the same account.
`MaxSyncs` is 1 where two accounts matter and 2 where a second recovery could
write over the first one's result. `ReuseExisting` is TRUE, the default of the
setting; the proofs are for both values. One retry is enough for a send to post
again, `@running`'s larger counts only repeat that. Symmetry is used in safety
runs only, over what the configuration does not tell apart.

Deadlock is not checked where the system may really stop: all requests
answered, all batches finished, all edits used up, no process left.

### Fairness

`Admission`: the event loop runs every task that is ready (`Admit`, `Resume`),
and every holder releases, since provider calls have a timeout. It is stated
without state changes, edits of the inventory and deadlines, in `SteadySpec`: a change of state notifies
nobody, and a waiter then leaves by its deadline.
`AccountHealth`: `GET /readyz` and every request call `refresh_if_due`, so
refreshes recur (`StartRefresh` is weakly fair), time passes, and probes end by
their timeout; the next round looks at the inventory again, which is what
`InventoryTakesEffect` rests on. A round can be cancelled each time, by the client that caused
it; strong fairness for the steps of a refresh says that it is not every time.
Provider calls and operators have no fairness.
`ChatSession`: every `await` of a request ends; arrivals are not assumed.
`Batch`: a task runs until it ends or dies, and the service is started again
after a stop. A task that dies of a database error is not scheduled again until
a restart, which need not come: `BatchFinishes` excepts it.
`Assets`: time passes and the cleanup loop begins rounds for ever; crashes and
errors may end a round anywhere, so its steps are strongly fair: no step fails
every time. Uploads and requests may stop anywhere.
`Accounts`: a call's steps end or raise (HTTP and browser reads have
timeouts), the lock is handed on in order of arrival (strong fairness of taking
it), monitors poll, deadlines pass. An exception that ends a monitor leaves its
job open, which `MonitoredJobEnds` excepts.
`Browsers`: the daemon ticks, launches end by their timeout and reads by
theirs. The service may be stopped at any time, so these are strongly fair: it
lives long enough now and then. An account whose sync raises at every tick
would keep the daemon from all accounts after it; this is excluded.
`GeminiClient`: the adapter's deadlines pass (`TimesOut`), and the rotation of
cookies, which runs under the lock, ends by the session's request timeout.
Nothing is assumed of the provider.

## Proofs

The theorems hold for every value of the constants that satisfies the `ASSUME`
of the module: sets that are disjoint or finite where it says so, natural
numbers. Each proof has one inductive invariant `Inv`, the lemma that every
action keeps it, and theorems that follow from it.

`AdmissionProofs` proves type correctness, `QueueSound`, `CountersExact`,
`LimitsRespected`, `NoOvertakingInQueue` and that `Admission` implements
`Slots`. The inductive invariant is `TypeOK /\ QueueSound /\
TicketsIssuedOnce`: that deques are increasing is preserved because tickets are
issued in order and once, and that a waiter finds its ticket because nobody
else holds the same number; `QueueSound` alone does not exclude a state in which
two requests share one. The counters then follow, step by step, from one fact:
each action adds one holder, removes one, or leaves the holders alone
(`StepKinds`), which is also the refinement. The limits follow from exact
counters, the guard `CanStart`, and the fact that only inventories set limits
(`LimitsGiven`). They are limits of a runtime: a runtime that was dropped keeps
to its own (`NewRuntimeHolders`: the counters a new runtime starts with are
right because nobody runs on it). That only the oldest waiter starts follows
from increasing deques: the head is the smallest ticket.

`NoLostWakeup` is proved of `SteadySpec`. Its first half is inductive: only a
release makes room, and it notifies everyone; a waiter that looks and waits
again did not find room; and an enqueued request is not the head or found no
room (`HeadStays`, `WokenStep`). That a queue never stands still needs
`NoStrayTicket` besides: without timeouts and cancellations every ticket has a
waiter, so somebody is at the head of each deque. If nobody holds a slot, the
counters are zero because they are exact, the head can start, and so it has
been notified. With a cancelled waiter `NoStrayTicket` is false, and so is what
follows from it.

`AccountHealthProofs` proves, for either adapter, type correctness,
`ReadyMeansForgiven` and `CooldownSound`. The invariant says of each runtime
separately that it is sound (`RuntimeOK`), and each method is shown to map
sound runtimes to sound ones, whatever state it finds: this is what makes the
races harmless for these properties. Thresholds must be positive
(`HealthAssumption`); with a degraded threshold of 0 no account would ever
become READY.

`ChatSessionProofs` proves every safety property of `ChatSession` that the runs
check, ordered histories besides, and that `ChatSession` implements
`SessionLife`. Single flight is the base: a step of a request cannot disturb what
another one holds of the same session, because nobody else is at work on it. On
it rest the strengthenings stated in `ChatSession`: `RecordsCurrent` (from the
first read to the last use, the record a request holds agrees with the row,
although renamings write the row meanwhile; without it failing over could store
a session without an account), `KeysFresh` (between looking for an answer under
the key and storing one, there is none), `JustAsked` and `NewIsUnused`.
The refinement goes action by action: creating a session, failing over,
storing the metadata of an answer, the two commits of a message and a deletion
are steps of `SessionLife`, everything else stutters. What each needs of the
invariant is what the code never looks at again: that the account failed over
to is another one than the row's (in `RecordCurrent`), and that a question was
not stored before (`NotYetHeard`). `CallFollowsRow` rests on the same agreement
of record and row, up to the moment the call begins.

`BatchProofs` proves every safety property of `Batch`. `NothingIsForgotten` is
not inductive, because counting the items says nothing of those nobody dealt
with. `TaskInv` adds it: from the listing on, what is undecided of a batch is
exactly what its task has still on its list and the item it is at, again after
every restart, and only an unfinished batch has a task. So an empty list means
that all items are decided, and no task touches a finished batch, which is also
why outcomes are final. The refinement of `BatchLife` needs the same invariant
to see that the item a task is at is still open and its batch unreported, and
`AnsweredInv` besides: a task that is about to call an item completed has an
answer for it, if only one that an earlier run stored before it died.

`AssetsProofs` proves that files go when due and that `Assets` implements
`FileLife`. `AssetInv` relates a row to its file and to the code that writes
both; `CleanerInv` says that what cleanup has listed stays due and written
until it is dealt with, though messages bind it meanwhile; `RequestInv` that a
request holds a path its attachment once had. The refinement then goes action
by action: `MarkAssetStored`, or its failure after the commit, publishes;
`MarkAssetFailed`, and cleanup's deletion of a file, retire; all else stutters.

`AccountsProofs` proves that only validated cookies reach inventory and pool,
that the pool follows the inventory, that edits stay, and
`MonitorsAccountedFor`: a job's recovery runs just while its monitor waits for
it. For the second,
`SyncInv` says who may differ: while an edit waits for the lock anything may,
and otherwise a call that holds the lock has loaded the present inventory, and
when it does not edit the pool has exactly its accounts; and that the lock is
held by nobody else, so that none who fails or is cancelled keeps it. `CallInv`
and `JobInv` tie calls to jobs that were begun. `MonitorsAccountedFor` is part of
the invariant and of no run.

`BrowsersProofs` proves `CookiesFromOwnBrowser` and `PortsDistinct`. A read
sees only a port, so the argument is about ports: entries never give one up
(`PortInv`), sessions and reads have their entry's (`SessionInv`, `SyncInv`), a
process whose launch was completed listens at its account's port or nowhere
(`KnownInv`), and a launch in progress has a port nobody else's entry has and a
process nobody has read yet (`LaunchInv`).

`GeminiClientProofs` proves `OneSessionAtATime` and `AloneKeepsConversation`.
`LockInv`: whoever fetches a token or sets up holds the lock, so two calls that
both found the client closed do so one after the other, and the second sees it
running. `HolderInv` is the converse: the lock is held by a call at one of those
steps, by the refresher while it rotates cookies, or by a call whose set-up was
refused and to which it comes back with the client closed; so no failure,
timeout or close leaves it held by a call that is gone. `AloneInv`: while a send is alone the shared list names its
conversation, because every failure puts back what was posted and every part of
an answer names the conversation it was posted to.

Only model-checked: all liveness and everything that depends on fairness
(`QueuedEventuallyStarts`, `PassingStatesSettle`, `InventoryTakesEffect`,
`SessionFreed`,
`BatchFinishes`, `StoredIsBoundOrDeleted`, `MonitoredJobEnds`,
`DeadBrowserNoticed`, `LockComesFree`), which is outside the prover's reach, and
the one violation. Every safety invariant, action property and refinement that
a run checks is proved.

## Divergences seen

While modelling we met places where the code does something other than a
document or a comment says, or than one would expect. The models contain the
behaviour; apart from `conversations` no run is kept for them.

- `docs/TESTING.md:26` speaks of FIFO admission; a newcomer with no ticket
  starts past a queue when a slot is free (`services/account_pool.py:540`).
- A waiter that is cancelled leaves its ticket in the deque, where it counts
  towards the limit (`README.md:48`, bounded queueing) and, at the head, holds
  up all later ones until a restart (`account_pool.py:578`).
- An account is deleted only if nothing runs on it
  (`services/admin_console_service.py:257`), but a request may start before its
  runtime is dropped, and those that wait are not asked: they stay on the
  dropped runtime, start there, and no longer count towards
  `global_max_queue_depth` (`account_pool.py:233`). If the account is added
  again meanwhile it runs up to `max_concurrency` more; the global limit holds.
- `docs/RUNBOOK.md:20` and `:24` show an expired cookie as `reauth_required`; the web
  adapter hides `AuthError` from the pool (`adapters/gemini_web.py:45`), which
  says UNAVAILABLE.
- `docs/RUNBOOK.md:118`: `cooling_down` is waited out or cleared by an operator.
  A late failing call sets DEGRADED, which is routable (`account_pool.py:373`).
- A call that began before its account was disabled in the inventory, and fails,
  makes it DEGRADED, which is routable, until the next round of the pool.
- The conversation ids stored for a session are those in the list of all chats
  when the answer is complete (`src/gemini_webapi/client.py:1885`), possibly of
  another session or account; the next message of the session continues there
  (the run `conversations`).
- A session that is generating cannot be deleted (`chat_service.py:123`), but
  check and deletion are separate steps (`:126`).
- `README.md:49`: failover events are persisted. A concurrent renaming writes
  older metadata back (`db/repository.py:114`).
- `docs/FAILURE_MODES.md:45` leaves abandoned uploads to orphan cleanup and
  expiry. A row that stays in status uploading is never listed, and does not
  have the path of its file.
- `docs/FAILURE_MODES.md:63`: cookie changes are only committed after the
  provider has validated them. This holds of inventory and pool; the cookie
  cache keeps refused ones when a recovery is cut off or two overlap.
- A file that can never be deleted ends every round of cleanup before the
  assets that follow; an account whose sync raises does so to the daemon's tick.
- An asset that is bound to a message after cleanup listed it as an orphan is
  deleted all the same (`services/asset_cleanup_service.py:74`); one that is
  bound to a session already deleted is an orphan that cleanup never lists.
- With `browser_reuse_existing` off, the registry keeps a dead browser as online
  (`services/persistent_browser_manager.py:107`). So it does, with either
  setting, for an account that was deleted: the daemon looks only at accounts of
  the inventory (`services/cookie_refresh_daemon.py:64`).
- An attachment that expires before the provider reads it becomes a failure of
  the provider, recorded on the account.
- Completing a job that failed or was cancelled, when the recovery finds that a
  login is awaited, opens it again (`collecting_cookies`) with no monitor
  (`services/admin_console_service.py:564`); while it is open it keeps a new job
  for the account from starting.
- Two jobs for one account can be open; a job that was cancelled is completed by
  a complete request that was under way; an account deleted and created again
  while a refresh runs can stay disabled by the operator who never did so.
- A service killed during a launch leaves a browser that the registry does not
  know; `stop` after a restart forgets the pid of a browser that it does not
  terminate; a sync that may not launch a browser launches one when the browser
  goes between its two looks; a launch enables a paused refresh again.
- `init` waits for its own lock after a refused set-up RPC until the adapter's
  timeout; a client whose set-up was cut off runs with the default status, and
  nothing fetches it again while it runs.
- A prompt is posted again after a part of the answer was yielded; a read
  timeout does not put the ids back, other failures do; the context of the list
  (index 9) is never put back.

## Not modelled, and why

- Parsing of the provider's responses, request formats, types
  (`src/gemini_webapi/types`, `utils`): data without state that others share.
- Uploads and model names of a generation, deleting chats, gems: no state that
  the service depends on. The auto-close timer is off in the service.
- Rendering and schemas, permissions, errors, logging, middleware, telemetry:
  per request, or without effect on the rest.
- Start-up and its diagnostics: once, before anything runs; a restart is a step
  of the modules above. The reading of cookies from headless profiles is a
  command-line path of a process of its own. Scripts are run by hand.
- The frontend: its streams, history loads and session switches meet in one
  React state; only the service behind it is modelled.
- `Admission` on Python 3.10 and 3.11, where `asyncio.wait_for` runs the wait
  in a task of its own and the condition's lock stays taken across steps.
- Left out inside modelled parts, where the model then does more than the code:
  the ranking of candidate accounts; the refusal to delete an account with
  active requests; the daemon's intervals, any of which may be over. And where
  it does less: a listing of cleanup takes at most 100 rows, the next round
  takes the others; the probes of one pool refresh end one by one; the client's
  `close` has an `await`, during which no set-up gets through its requests.
