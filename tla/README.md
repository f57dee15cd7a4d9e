# AutoSign in TLA+

TLA+ models of AutoSign (`src/`, package `autosign`), the TLC configurations that
check them on small instances, and machine-checked proofs about them. AutoSign keeps
accounts of web sites, logs into them once in an interactive browser, stores the
browser state encrypted, and signs in every day through site plugins that run in an
automated browser. It is one Python process: an asyncio event loop, SQLite behind it,
Playwright's Chromium beside it. All its concurrency is cooperative: a task runs
without interleaving from one `await` that suspends to the next, and a cancellation
lands on such an `await`.

## Inventory

Line numbers refer to `src/src/autosign/`.

| Component | State | Operations | What makes it correct |
|---|---|---|---|
| `AccountOperationGate` (core/account_operations.py) | per account: queue of requests, the active one, a deleting flag | `use`, `delete`, cancellation | one operation per account at a time; FIFO; nobody forgotten; deletions reject newcomers; no idle entries kept |
| `BrowserCapacityGate` (core/capacity.py) | per kind: queue, active tokens; closing flag, drained event | `acquire`, `release`, `begin_close`, `wait_drained` | limits, no idle lease, no leaked token, FIFO per kind, draining ends |
| `BrowserSessionManager`, automation (core/browser_sessions.py 461-478, 701-786, 1039-1055) | the shared browser, its init lock, the open automation contexts | `automation`, `_ensure_browser`, `_reset_browser`, `close_all` | a page is covered by a lease; one browser; shutdown misses no page and ends |
| `BrowserSessionManager`, interactive (480-699, 788-1037) | sessions, account index, manager lock, a lock per session | `start`, user operations, `close`, expiry, page events | one session per account; index and sessions agree; lease released once; only idle sessions expire |
| `DeferredChromeBrowserSessionManager` (1086-1408) | a Chrome process per session, attached after login | as above | as above; the process is always terminated |
| `BrowserSessionCleanupCoordinator` (1411-1450) | a periodic task | `start`, `stop` | the sweep survives failures |
| Storage-state algorithms (122-190, 926-953) | none | normalise, unpack, restore | keys and records keep their pairing |
| `ScheduleService`, `ScheduleCoordinator` (core/services/schedules.py) | rows with next run, last status; running jobs | `upsert`, `claim_due`, `_execute`, `stop` | one run a day; bounded retries; final status and one notification |
| Execution (web/app.py 169-208, executions.py, runner.py) | execution records, the stored browser state | `run_account` | under the account gate; the newest login state survives |
| `NotificationChannelService` (core/services/notifications.py) | channels, assignments, migration marker | CRUD, `send_result`, `migrate_legacy` | each assigned channel is tried; migration is idempotent over crashes |
| `BackupService`, `BackupCoordinator` (core/services/backups.py) | settings, metadata, files | `update_settings`, `create_now`, `run_if_due`, prune | once a day; newest kept; settings consistent |
| `LoginAttemptLimiter` (core/login_limiter.py) | attempts per client | `is_limited`, `record_failure`, `clear` | bounded; limited clients stay limited |
| Accounts, vault, authentication, cipher, database, backup file format, registry, CLI, routers, plugins, front end, container | rows, files, none | see PROJECT.json | single transactions, external cryptography, or presentation |

How they interact. The routers and the scheduler call `run_account`, which takes the
account gate, then (when a login state is stored) `automation()`, which takes a lease of
the capacity gate and then the init lock of the shared browser; plugins run inside.
`close_all()` runs last in the application's lifespan (web/app.py 256-261), after
the schedule, backup and cleanup tasks were cancelled. Interactive sessions share the
browser and the capacity gate; their saved state goes to the vault without the account
gate.

The behaviours that are hard to test, each at its line, are the `hazards` of
PROJECT.json. The worst of them are cancellation (a granted waiter, a finally block),
shutdown against everything else, unlocked discards of sessions, state captured by one
task and overwritten by another, and multi-transaction updates against a crash.

## Modules

| Module | Models | How |
|---|---|---|
| `AccountLine` | the promise of the account gate | one line per account; join at the end unless a deletion stands in it, only the head runs, only the operation itself leaves |
| `AccountGate` | core/account_operations.py | `retained`/`entry` are `_entries`, `granted` and `request` the `_OperationRequest` in flight, `pc` the task |
| `AccountGateProofs` | | the inductive invariant, the theorems that rest on it, and the refinement of `AccountLine` |
| `Deques`, `DequeProofs` | the `deque` operation of both gates | `Without` is `deque.remove` under `suppress(ValueError)`; the lemmas say what it and `append` do to a queue without duplicates |
| `CapacityGate` | core/capacity.py | `waiters`, `active`, `closing`, `drained` are the attributes; `refused` the futures that hold an error; `place` the caller |
| `CapacityGateProofs` | | the inductive invariant and six theorems, the last of them the action property FIFO |
| `BrowserAutomation` | `automation`, `_ensure_browser` (also from a capture in the body), `_reset_browser`, `close_all` | extends `CapacityGate` step for step: `Enter`, `Granted`, ... contain the gate's `Acquire`, `Resume`, `Withdraw`, `Release` |
| `BrowserAutomationProofs` | | that every step is a step of the gate, the invariant `AInv`, five safety theorems |
| `InteractiveSessions` | `start`, the user operations, `_get`, `close`, expiry, page events, the sweep of the cleanup coordinator, `close_all` over open sessions | extends `CapacityGate`; `sessions` and `current` are `_sessions` and `_account_sessions`, `manager` and `oplock` the holders of `_manager_lock` and of each `operation_lock`, `pc`/`on` where a process stands and with which session, `todo` what a loop over `list(self._sessions)` has still to visit |
| `InteractiveSessionsProofs` | | that every step is a step of the gate, the invariant `SInv`, four safety theorems and an action property |
| `DeferredChrome` | the deferred-Chrome variant of the interactive sessions | `sessions` and `current` are `_native_sessions` and `_account_sessions`; `alive`, `profiles`, `leased` what a session owns outside of them; locks, `pc`/`on` and `todo` as in `InteractiveSessions` |
| `Schedules` | core/services/schedules.py with the executor and the notifier of web/app.py | `row` is the table, `job` the coordinator's tasks, one action per handler and per await of `_execute`; time is relative to now |
| `SchedulesProofs` | | of `Schedules`: the invariants `SchInv` and `BeatInv`, that a schedule runs daily and when it is heard of; of `Backups`: the invariant `BackupInv` and two safety theorems |
| `LoginState` | the stored browser login: `run_account`, closing an interactive session, the VikACG plugin's API flow and import, the secret set or deleted by hand, deletion | `vault` is the secret, `run[r]` what a run has in its hands; the account gate is an instance of `AccountLine` |
| `LoginStateProofs` | | of `LoginState`: the invariant `LInv` and two safety theorems; of `Notifications`: the invariant `NotifyInv` and two safety theorems |
| `Notifications` | core/services/notifications.py, its routes, the delivery, the legacy migration, and the routes that set and delete a secret as far as the old notification secrets go | `table` and `links` are the two tables, `legacy` the old secrets, `migration` and `sending` where the loops stand; `owed`, `late`, `made` and a delivery's `due` are history |
| `Backups` | core/services/backups.py over the archives of core/backup.py | `settings` is the service object, `stored` the metadata, `line` the run lock, `files` the directory |
| `Administration` | core/login_limiter.py, core/auth.py, web/routers/auth.py, the middleware | `attempts` is `_attempts` as ages, `cookie` each browser's session |
| `AdministrationProofs` | | of `Administration`: the invariant `AdInv` and the theorems about the limiter and the sessions; of `DeferredChrome`: the invariant `DeferredInv` and that nothing is forgotten |
| `MC*` | | instances for TLC |

An action is the code between two suspension points. The internal `asyncio.Lock` of both
gates and `_automation_contexts_lock` are never held across an await that suspends, so
they are always free when somebody asks and a locked block is atomic. `_browser_init_lock`
is held across the launch, so it is modelled; its FIFO order is abstracted to any order,
with strong fairness for each waiter. The shielded futures are modelled by `granted` and
`refused`, so that "granted but not yet resumed" and "cancelled but the handler has not
run" are states of their own. A task stands for its request, token and lease, because it
has at most one at a time.

In `InteractiveSessions` a call of `start()` makes at most one session, so the call
stands for the session too. Asking for a lock and getting it are two steps, and
`_manager_lock` and the operation locks are kept in the order the code nests them
(manager first); `_browser_init_lock` is only taken under the manager lock there, so it
adds nothing. A sweep visits one session per step, because it suspends on every operation
lock. `_get` and `_translate_target_closed` discard a session under no lock at all: they
are steps that any state allows. `open` is kept apart from `sessions`: `_get` discards a
session whose page has died and leaves its context open until the browser is reset. The
capture of a session that is closed asks for the browser once more; if that is lost by then,
the reset discards the sessions of others (`reviving`) before the close goes on.

`DeferredChrome` follows the same conventions, with the capacity gate reduced to the number
of leases and its closing flag (the gate's own theorems say that this is what callers see).
The finally block of `start()` and `_close_native_locked` share the steps `Terminate`,
`Remove`, `Release`; `on[p] = p` tells the former from the latter.

`Schedules` measures time in ticks; the poll interval and a push are shorter than one. A
ready step is taken before the clock moves (`Urgent`), which is what an event loop does with
work of milliseconds between minutes. `calm`, `served` and `beat` are history: they say
which accounts nobody has touched since their daily time, how often each was claimed since,
and how long ago it was last pushed. The jitter is a choice in `NextRun`.

`LoginState` numbers the token pairs the site issues: `fresh` are the refresh tokens it
accepts, and an access token may be accepted or have expired at any request. `excused` is
history: the stored login was lost for a reason that the code does not claim to exclude (see
`LoginSurvives`). In `Backups` the
thread work of `create_now` is a step of its own, the commits of `update_settings` are
separated only for the kill and for a commit that raises (`Saving` keeps other tasks out), and
an archive is its password and whether it can be read back. In `Notifications` a migration runs
alone, since it ends before the lifespan yields, or is run by the command while the service is
stopped. The four NapCat secrets of an account are one entry that is `whole` or not; the Kuma
secret is whole by itself; a value that the channel would not accept is `Invalid`. In
`Administration` every handler is one action, because none of them awaits.

## Runs

| Run | Instance | Question |
|---|---|---|
| `account_gate` | 4 tasks, 2 accounts | serialisation, no forgotten waiter, entries, deletion flag; refinement of `AccountLine`; every waiter leaves |
| `capacity_gate` | 3 automation callers on 2 leases, 3 interactive on 1 | limits, work conservation, token ownership, drained event, FIFO; every waiter leaves; a closed gate drains |
| `browser_automation` | 3 automations on 2 leases | pages and leases, one browser, the snapshot of `close_all()`, quiet after it, conditional termination |
| `interactive_sessions` | 3 starts, two of them for one account, 2 leases, 1 user | index, sessions and leases agree, no session in use is taken away, shutdown is final |
| `sessions_end` | 2 starts for one account, the default single lease, 1 user | every request, sweep and `close_all()` ends: no circle of manager and operation locks |
| `shutdown_hang` | as `browser_automation` | `close_all()` always ends: violated |
| `deferred_chrome` | 2 starts for one account or two, 2 leases, 1 user | no process, profile or lease is forgotten on any path; every call ends |
| `schedules` | 1 account, 2 jobs, a day of 5 ticks with the daily times 0 and 4, a jitter of up to 1, 1 retry after 2 ticks | one claim a day, the heartbeat bound of the README, every job ends |
| `login_state` | 2 runs and a deletion, 3 token pairs | nothing outlives a deleted account; the stored login survives rotations |
| `notifications` | 2 accounts, 2 channels, 4 old secrets there may be, 1 delivery | the migration over crashes, invalid values and secrets written by hand; what a delivery tries |
| `backups` | the poll, 1 request, 1 saver, 2 passwords, retention 1 or 2, 3 archives | an archive that opens always remains; one scheduled backup a day |
| `administration` | 3 clients, a table of 2, 2 attempts, a window and a session of 3 ticks, 2 databases | the limiter's promises; sessions are earned |

Why the bounds are enough. Every entry and every kind of lease is independent of the
others apart from the drained event, and the code only ever looks at the head of a queue,
the member that is removed and the rest; four callers on one account give a holder, a
waiter in front, one in the middle and one behind, and the second account shows that
nothing leaks between entries. The limits are those of `config.py` (2 and 1); each kind
has more callers than leases, and one kind has two of them waiting. No counter is bounded,
since no state grows. For the safety properties of every run but one, `HeartbeatHolds`, the
proofs remove the bounds on tasks, accounts, limits, tokens and ticks.

In `InteractiveSessions` the bound is that each `start()` is called once; users and the
sweep come again and again. Three starts give a session, the one that replaces it in the
same account and one of another account beside them; two leases let the last two coexist
(the setting allows one to eight). One user suffices for the races, since the sweep,
`start()` and `close_all()` are the other parties; the liveness run has the smaller
instance because lock waits need only two parties and the shutdown.

`DeferredChrome` has the same bound (each `start()` once) and two starts, one account or
two: replacement needs two, and every race has two parties, since the user, the sweep and
the closer come beside them. With two leases both sessions can exist and nobody waits for a
lease; the same instance with one lease, where the second start has to, was run once as well
(23,520 states, no error). Its invariant was also run with three starts (584,000 states, no
error); with the liveness property that instance takes longer than the run may. `Schedules`
has one account because accounts share nothing but the poll loop and the jobs' set, and two
jobs because an edited time lets a job meet its successor (`Upsert` waits while two are
there: the bound); five ticks leave room for a time at midnight and one late enough
that its jitter and its retry cross midnight. `LoginState` has one account, as the gate and
the vault are per account; two runs are enough for one to overtake the other, and three
pairs (`Issues`) for the pair stored first, its successor and one logged in by hand. A state
that a user puts into the vault himself is a new login or one without any (`PutLogin`,
`PutBlank`); an old one put back is left out, since the stored login is then what he chose. In
`Notifications` two accounts share a configuration, so that the second finds the first
one's channel; identifiers (`Channels`) are used once. The four entries of `Legacy` give each
account the same Kuma secret and one of them a NapCat configuration that may be completed,
broken up or whole and invalid: every transition of an entry is there. The instance with a
fifth entry, in which the Kuma secret turns invalid and the NapCat configuration is migrated,
was run once as well (1,117,982 states, no error). `MaxFiles` in `Backups` exceeds the largest
retention by one, which is the most archives there can be before pruning; a thread that
outlives its service waits for room. In `Administration` a third client meets a table that is
full, and an attempt grows older than the window within the run.

`CHECK_DEADLOCK FALSE` is set where the gate closes for good: closed, with nobody left,
there is nothing to do; a closed manager and a deleted account are such ends too. The
account gate, the schedules, the notifications, the backups and the administration never
stop and are checked for deadlock.

## Fairness

The event loop runs every ready task (weak fairness of resumptions, of the cancellation
handlers). A guarded body ends: plugins bound their requests and polls, Playwright's
calls carry timeouts, and a context closed under an automation makes its next page call
raise. Nothing is assumed of new requests, cancellations, crashes of the browser or the
start of the shutdown. `asyncio.Lock` wakes its waiters in order, hence the strong
fairness of those who ask for the init lock. In `InteractiveSessions` every process has
strong fairness of its next step, for the same reason (its steps that wait for no lock
stay enabled until taken, so for them it is weak fairness); Playwright's calls have
timeouts. `OperationsEnd` promises nothing of `start()` itself, which may wait for a lease
that a user keeps for as long as he works; and `close_all()` ends either closed or aborted:
with an interactive limit above one a session discarded after its snapshot makes
`_close_locked` raise `BrowserSessionNotFoundError`, and the rest of the shutdown is skipped.

`DeferredChrome` has strong fairness of every process for the same reasons; terminating a
process and opening its port carry timeouts of seconds. Nothing is assumed of users, of
Chrome, of the sweep's cancellation or of the shutdown; `DeferredEnds` allows a `start()` to
wait for a lease as long as the shutdown has not begun. In `Schedules` time passes, the loop
polls and every job takes its next step; strong, because an account may be disabled and
enabled again for ever and a job may wait at the account gate, which serves in order.
`JobsEnd` holds for attempts that end, which the bounded plugins and Playwright's timeouts
justify (`Work`). The other modules state safety only.

## The violation

`shutdown_hang`: `automation()` ends with `with suppress(Exception): await context.close()`
followed by `await lease.release()`. A cancellation that lands in that close is not an
`Exception`, so the release is skipped and the token stays out. `close_all()` then waits
for ever in `wait_drained()`. `scheduler.stop()` cancels the running jobs right before
`close_all()` is called, so a job that has just finished its plugin and is closing its
context at that moment is enough. `ShutdownCompletes`, which excludes exactly that
cancellation, holds.

## What the newer runs show beside their properties

Behaviours of the code that the properties have to except, each of them reachable in the
module named; no doc, comment or test of the repository denies them.

- `DeferredChrome`: `browser_cleanup.stop()` may cancel the sweep while it closes a session
  that it has already taken out of `_native_sessions`. Its Chrome and profile may stay and
  its lease is not released, so that `close_all()`, next in the lifespan, waits for ever
  (`lost`). `close_all()` can end with `BrowserSessionNotFoundError` when a session is
  discarded meanwhile (`aborted`).
- `LoginState`: interactive logins and imports do not pass the account gate. A run that has
  read the vault before may overwrite what they save (`raced`). A run that has refreshed
  its tokens but is not verified in the end, or whose write to the browser's storage fails,
  loses the new refresh token (`Wasted`). An import of only a token keeps the stored
  refresh token, which may be stale by then; an import that fails may have used it up.
  An interactive session is closed before its state is written: a login whose write fails is
  lost, and neither property speaks of that.
- `Schedules`: saving a schedule between its daily time and the jittered start of the day
  moves it to tomorrow. A crash or a stop loses the claimed run. An attempt that raises
  (also a failed capture of the login state after a successful one) records "failed" and
  pushes nothing, so `HeartbeatHolds` speaks only of attempts that return. Of two jobs of a
  schedule the one that ends last sets its status.
- `BrowserAutomation`: an automation that is under way when `close_all()` begins, at its
  first `_ensure_browser()` or in a capture, may launch a browser after the reset, which nobody
  stops; `ClosedIsQuiet` therefore speaks of automations, pages and leases and not of the browser.
- `Notifications`: a channel deleted while an earlier one is pushed to ends the delivery, as does
  one whose configuration cannot be read, and the channels behind it get nothing (`missing`,
  `unreadable`); of these `DeliveriesAreIsolated` claims only that the former really is gone.
  Users may set the old secrets again once the service runs: under a complete marker nothing
  looks at them (`late`) until the repair command is run. An old secret with a value that is
  no valid configuration makes the migration raise, and with it the start of the service, as
  often as it is tried (`Down`), until the secret is removed from the database.
- `Backups`: the attempt of a day is not repeated, whatever becomes of it. A kill between the
  commits of `update_settings` may leave backups enabled without a password, which
  `run_if_due` treats as off. When the commit of a new password raises, the rest of the
  configuration is stored and takes effect only with the next save or start (`partly`), though
  the caller saw an error.
- `Administration`: the table of attempts is lost in a restart, and logging out does not
  revoke the token, which only the browser forgets.

## Proofs

A module of proofs is about one component, or about two of the same kind: the two that act
once a day, the two whose state is in the vault, the two kinds of login. In the latter each
component has a section, an invariant and theorems of its own, and neither uses the other's.

`AccountGateProofs` proves for any sets of tasks and accounts, from the one assumption
that `None` is neither a task nor a request, that the specification keeps
`TypeOK`, `MutualExclusion`, `NoWaiterDropped`, `RetainedWhileActive` and
`DeletingTellsTheTruth`. Mutual exclusion is not inductive by itself: that a task in its
body is the active one of its account needs that grants and entries agree
(`ActiveIsGranted`), that who is queued waits and is not granted (`QueuedIsWaiting`), that
nobody is queued twice or on two accounts (`QueuedOnce`), that whoever is in flight is in
the line of its account (`InFlightIsInLine`) and that idle tasks own nothing (`IdleTasks`).
That `queue.clear()` drops nobody needs that a deletion is the last of its line
(`DeleteIsLast`), which rests on the rejection of newcomers. `IInv` is their
conjunction; there is one lemma per action, and `WithoutQueue`, `DispatchEntry` and
`SettleStep` carry what withdrawal and release share.

`CapacityGateProofs` proves for any finite set of tasks, any set of kinds and any positive
limits (`LimitsArePositive`, what `__init__` enforces) that the gate keeps `GateTypeOK`,
`WithinLimits`, `NoIdleCapacity`, `TokensAreOwned`, `DrainedTellsTheTruth` and `OldestFirst`.
Its invariant `GInv` adds to them that the queues, the tokens and the refusals share no
task (`QueuedIsWaiting`, `RefusedIsWaiting`), that a task queues once and under its own
kind (`QueuedOnce`, `QueuesAreOfKind`): a task granted twice would count once in `active`
and break the arithmetic of the limit. `GrantsFacts` and `DispatchFacts` say what one
dispatch does to a queue and to the number of holders; `DispatchStep` lifts that to the
state and serves acquisition, withdrawal and release alike. FIFO needs `NoIdleCapacity`:
as long as somebody waits, taking another request out of the queue grants nothing, so
only the front of the unchanged queue is ever let in.

`GateServesInOrder` proves that the account gate implements `AccountLine`. The mapping
takes the line of an account to be its active operation followed by its queue. The step
that looks as if it changed the line, `_dispatch_locked`, moves a request from the queue to
`active` and leaves it at the head (`DispatchKeepsTheLine`), so what the code does in one
locked block is one abstract step: an append joins at the end and runs at once in an empty
line (`AcquireJoins`), a withdrawal and a release leave (`WithdrawLeaves`, `ReleaseLeaves`), a
resumed waiter enters (`ResumeEnters`), and a cancellation that nobody has handled yet is a
stutter (`CancelStays`). The
module `LoginState` uses `AccountLine` in the place of the gate, so its theorems rest on a
gate whose promise is proved.

The lemmas of `DequeProofs` (what removal, appending and serving the front do to a queue
without duplicates, and where its elements stand) are shared by both gates and by
`LoginStateProofs`, whose table of channels loses rows in the same way.

`BrowserAutomationProofs` and `InteractiveSessionsProofs` start from the same argument: each
action takes a step of the capacity gate or leaves it alone (`AutomationUsesTheGate`,
`SessionsUseTheGate`), so the gate's `GInv` is an invariant there too and its theorems
hold of the gate as the managers use it. Both are proved for any finite sets of processes
and any positive limits, from the assumptions that the names of the processes differ.

- Of the automations are proved `AutoTypeOK`, `LeaseCoversContext`, `OneBrowser`,
  `SnapshotIsComplete` and `ClosedIsQuiet`. None of the last three is inductive: they need
  that a task's stage goes with its place at the gate (`StageFollowsPlace`), that contexts
  and registrations go with the stage, a capture being a part of the body
  (`ContextsFollowStage`), and what `close_all()` has
  done by each of its stages (`CloserFollowsGate`), above all that a context registered when
  the gate is closed is on the list still to be closed.
- Of the interactive sessions are proved `SessTypeOK`, `IndexAgrees`, `NoLeaseForgotten`,
  `ShutdownIsFinal` and the action property `LeavesForAReason`. The invariant `SInv` says
  that the manager lock is held exactly inside its block (`LockIsHeld`), that a process has
  a session in its hands exactly at the places of `Busy`, that a popped session never comes
  back (`PoppedStaysPopped`), that a lease of a registered start is claimed by the table or
  by a closing process (`LeaseIsClaimed`), that the account of a page being opened has no
  session (`IndexIsExact`), and that nobody slips in behind `close_all()` (`NoneSlipsIn`).
  The discards that take no lock are the reason for most of it: index, table and lease
  agree only because each of them changes in the same step.

`LoginStateProofs` proves `AccountDataInv` and `LoginSurvives` for any number of runs and of
token pairs the site issues. Its invariant `LInv` has two parts. `Gated`, `AlonePast`,
`InHand` and `VaultAsRead` say that a run past the read of the vault is the one inside the
gate and that the vault is as it has read it unless somebody wrote by hand. `Private` follows
the newest refresh token: it is in the vault, or in the hands of that run (`RunIsPrivate`),
or in those of the token import (`ImportIsPrivate`), nobody else has it, and nobody holds
one the site has not issued. The stored token is then accepted, or somebody holds
its successor (`SuccessorIsHeld`). In search of that invariant the excuse of `ImportFails`
turned out too narrow: it compared both tokens of the stored pair where the refresh token
alone decides, which with four pairs let `LoginSurvives` fail. The history variable was
wrong, not the code, and it was corrected.

`AdministrationProofs` proves `LimiterHolds` and `SessionsAreEarned` (with `AdminTypeOK`) for
any finite set of clients and any positive limits. `TableIsRight` ties the limiter's table
to the history `failures`: the ages of a client are in order, bounded, and what is left
after pruning are its failures within the window. The lemmas about `Popped` say that
dropping old attempts from the front of an ordered sequence drops exactly those, so that
pruning late, or again, changes no answer. `SessionsLast` says that a cookie's remaining
life and the time since its login add up to no more than `Lifetime`, which is what a Tick
and a restart with another database preserve.

`SchedulesProofs` proves `ScheduleInv` for any accounts, jobs, retries, and any length of the
day that no random delay exceeds (the code allows 180 minutes). One claim a day is not
inductive by itself. `Timed` counts in ticks to the next daily time: the next run is no
later than that plus the delay; once the run of the day is claimed it is not before it;
and as long as nobody has touched the account and nothing is claimed it belongs to today.
That a claimed schedule waits for tomorrow, over edits, restarts and midnight, follows.

The same module proves `HeartbeatHoldsAlone`: as long as nobody edits, no push is lost and
no attempt raises, the pushes of an account whose jobs do not overlap are no further apart
than a day, the random delay and the retry window. `BeatInv` counts what is left: a job that
is on its n-th attempt has used up its window so far and no more (`JobsOnTime`), between jobs
the last push and the wait for the next run add up to a day and the delay, and a job that
is alone adds to the last push no more than what it has left (`BeatsAt`). The theorem has a
hypothesis, `WindowsEnd`: the longest retry window ends within a day. The schemas allow five
retries 120 minutes apart (web/schemas.py:112-114), which leaves six attempts two hours
and twenty minutes each; the code itself does not bound an attempt.

Of the backups it proves `ArchivesSafe` and `OncePerDay`, for any tasks, passwords, retention
counts of one and more and any room in the directory. `BackupInv` says that the run lock has
one holder and that a thread which outlives its task runs only while the service is down
(`OneAtWork`); that a backup is begun only with a password, and no password is ever
taken away (`Protected`); that whoever removes old archives has read the newest one back
(`CheckedBeforePruned`), which is why retention, keeping the newest, keeps one that opens;
how far the stored settings are ahead of those in effect, commit by commit and after a save
that raised (`CommitsFollow`, `InEffect`);
and that a claim names today (`ClaimedOnce`). `ArchivesSafe` and `OncePerDay` say less than
`BackupInv`, and neither is inductive by itself.

Of the deferred Chrome `AdministrationProofs` proves `NothingForgotten`, for any sets of
calls and users and any limit. The argument is `SInv`'s with more to lose: a process, a
directory and a lease, given up one after the other. `WindingInOrder` says that whoever winds
up a session has it alone, since it has left the registry or was never in it, and that
process, directory and lease go in that order; `OneManager` that only a `start()` undoing its
own work does so without the manager lock; `RegisteredWhole` that a registered session has
directory and lease and is its account's; `LeaseKnown` that a lease is known to a registered
session, to a `start()` still at it, or to somebody winding up (or was lost to the cancelled
sweep); and `ClosedToNew` that behind `close_all()` nobody registers.

Of the notifications `LoginStateProofs` proves `MigrationSafe` and `DeliveriesAreIsolated`,
for any accounts, configurations, deliveries and any finite set of old secrets. `NotifyInv` says
that the migration has everything that is whole still before it, and deletes a secret only when
the account has a channel of that type and configuration (`MigratesInOrder`); so that what is
owed is at every moment a secret or a channel, and the marker is set when nothing whole is
left, after which only users make something whole (`NothingLost`). `MadeOnce`, that no two
migrated rows are alike, holds because the migration looks for a matching row before it adds one
and runs alone. A delivery has listed exactly the channels that were assigned when it began,
each once, and has tried an initial part of that list (`ListsInOrder`); users change the tables
below it, but not the list. That it has tried all of them at its end, and that a missing channel
is one it had still before it, follow.

Model-checked only:

- All liveness (`EveryWaiterLeaves` and its like, `ShutdownCompletes`, `OperationsEnd`,
  `DeferredEnds`, `JobsEnd`): it rests on fairness, which is out of the prover's reach.
- `HeartbeatHolds` for jobs that overlap. It is not true for all values of the constants.
  When the retry window is longer than a day (a day of 3 ticks, 2 retries, a delay of 2) the
  jobs of successive days overlap and wait for one another at the account gate, and pushes
  lie further apart than the bound. A window of just a day is too long as well (a day of
  5 ticks, 2 retries a tick apart, a random delay of 1): a job that was claimed late still
  retries when the next one is claimed without delay. The instance of the run has one retry
  within a day, and the property holds there with overlapping jobs included.

## Plan

Modelled so far: the two gates, both kinds of interactive sessions, automations, schedules, the
stored login, notifications, backups, and the administrator's login. Next:

1. A bound for the heartbeat of overlapping jobs, which has to count the window of every
   job that stands before the account gate.
2. The composition of interactive sessions and automations over one browser (a reset by one
   takes down the other).
3. The storage-state algorithms and the verdicts and bounded polls of the page plugins as
   operators checked against reference definitions.

## Not modelled

Byte formats and cryptography (the inside of a backup archive, the cipher, cookies and
password hashes), single-transaction SQL that nothing else reads, configuration read once,
presentation, the plugins that drive pages of external sites, and the build files: see the
components with status `not_modelled`.

Within `BrowserAutomation`: the storage state is not represented (a state that does not parse
is one of the causes of `OpenFails`), the finer steps after a context is opened (init scripts,
the first page) are part of the body, and `close_all()` meets no interactive session. The
second context that a capture opens for a moment is not counted as a page:
`LeaseCoversContext` speaks of the contexts that automations work in.

Within `InteractiveSessions` and `DeferredChrome`: what an operation does inside the page,
cancellation of a request (the server does not cancel handlers of its own accord), the retry
of `start()` without the saved state (the router always starts clean), and automations beside
the sessions. In `DeferredChrome` the connection to Chrome is one step: that two sessions
attaching at once may start two Playwright drivers, one of which nobody stops, is not
represented, nor is a debug port that another process takes over.

Within `Schedules`: daylight saving (a day has the same length all year), invalid input, and
rows of other forms than the daily one, which the code does not write. Within `LoginState`: the
page flow of a run (it counts as verified or not), secrets other than the browser state, and
plugins without a browser. Within `Notifications`: names, the shape of URLs and messages.
Within `Backups`: a clock that goes back, the metadata that only the status page shows, and
the command that writes an archive which opens into a new directory (`stage_restore`).
Within `Administration`: guessed signatures and the setting that turns authentication off.
