# A TLA+ model of the Plinth kernel

This directory holds TLA+ specifications of the Plinth kernel (`src/src/kernel`,
C++23 on Drogon, PostgreSQL and QuickJS), TLC configurations that check them on
small instances, and proofs checked by TLAPS. The code is the reference: every
definition is translated from the lines `PROJECT.json` ("map") names for it.
Docs, comments and tests are used only to state what the code is meant to do.

Run everything from this directory: `tlc -workers 2 -config X.cfg M` for a run
(the "runs" of `PROJECT.json` give module and configuration), `tlapm M.tla` for
the proofs of a module whose name ends in `Proofs`.

## 1. The system

A kernel process serves HTTP and WebSocket clients, runs packages (extensions
with SQL migrations, JavaScript handlers, frontend assets, capabilities), and
distributes realtime events. Several kernel processes ("nodes") may share one
database. State is in four places: PostgreSQL, the data directory, process
memory, and the clients' sockets. Most of the difficulty is where those four
disagree for a while.

| Part (source) | State | Operations | Meets |
|---|---|---|---|
| Realtime outbox, listener, events writer (`realtime/`) | `plinth.realtime_outbox`, advisory lock, listener cursor and batch, writer queue, in-flight insert, `plinth.events` | enqueue, scan, persist, fan out, sweep, drain, stop | broker, shutdown |
| Coalescer (`realtime/coalescer.cpp`) | a window per table, timers, batch scopes | record, flush by timer, drain or batch commit, shutdown | event loop, extension drain |
| Cursor store (`realtime/cursor_store.cpp`) | cache per node, `plinth.user_event_cursors` | record delivered, flush | events writer |
| Broker (`realtime/broker.cpp`) | JS subscriptions, running flag | dispatch, drain, stop | runtime registry |
| WebSocket connections (`ws/`) | `ConnState` on its event loop, the connection registry, authority leases | authenticate, renew, subscribe, replay, publish, close | auth, RBAC, events |
| Shutdown coordinator and task registry (`lifecycle/`) | coordinator state, gates and counts of live work, cleanup owners | quiesce, run the graph, finish, drain | everything |
| Packages (`packages/`) | `plinth.packages` rows, schemas, capability and rule rows, version trees, `active` link, routes, pools | install, upgrade, disable, enable, uninstall, garbage collection, boot recovery | capabilities, runtimes, assets |
| Capabilities (`capabilities/`) | cache of rows, fences, calls in flight | resolve, call, drain, register, listen | packages, WS, JS |
| Extension runtimes (`extensions/`, `js/`) | pools, constructions, dispatch leases, contexts, native operations | create, dispatch, retire, cancel | packages, broker |
| Extension HTTP (`extension_http/`) | dispatch records, ownership, frames | dispatch, answer, retry | runtimes |
| Identity (`auth/`, `rbac/`, `groups/`) | sessions, tokens, rules, members, rate windows | login, refresh, revoke, grant | WS, HTTP |
| Frontend and shell (`frontend/`, `shell/`) | active shell, layouts, surfaces, owned workers | claim, select, revise, attach | packages |
| Support (`db/`, `audit/`, config, logging) | schema versions, audit rows | bootstrap, write, query | everything |

The "components" of `PROJECT.json` list all 48 parts with what is modelled of
each and, for the others, why not or when.

What makes the system hard to test, and what the models are about: database
callbacks that answer after the state they were asked for has changed; closures
queued on an event loop behind the frame that makes them moot; a lost answer to
a COMMIT; a crash between a database row, a directory and a symlink that only
agree once all are written; timers that were cancelled too late; drains that
race the work they wait for; and a shutdown that must not call anything empty
while something still produces.

## 2. The modules

A record variable holds a component's control state (one field per flag or
program counter); data has variables of its own. A step of the code that may
fail is an action with a choice of outcome, bounded by `MaxFaults`; a deadline
is a step that may happen at any time. History variables (`hist`, `owed`,
`unsaved`) only serve properties; the only things they guard are bounds.

### Realtime

**RealtimePipeline** is the durable path of one process. Producers take the
outbox's advisory lock, insert and commit or roll back (`EnqueueEvent` and its
commit); the listener opens a session, reads its baseline, scans in batches and
hands rows over; the writer queues, inserts, learns the outcome of its COMMIT
(or not), and fans out; retention sweeps old rows; `flush_database_state` pauses
the listener, waits for the drain, and drains the queue synchronously; a crash
ends the process, a restart begins with an empty memory. NOTIFY is only a hint
in the code (every poll scans), so it is not state.

**EventLog** is the abstract specification: a log that only grows, in commit
order, and a live stream that only carries the newest entry. RealtimePipeline
implements it with `log <- persisted`, `live <- fanned` (`ImplementsEventLog`).

**ReplayLive** is one connection with its subscriptions. Three threads meet: the
event loop (`loop` is its queue of closures), the writer, and the replay
coroutines. A replay checks the retention floor, pages through the events,
posts `replay_done` or `resync`, and its cleanup releases the frames buffered
meanwhile. `out` is what the client sees.

**Coalescer** models windows claimed under the mutex and emitted outside it, by
the timer, an extension drain, a batch commit or shutdown, where an invalidated
timer may still fire.

**CursorStore** models a node's write-behind cache of delivered sequence
numbers, several nodes over one table, failing statements and restarts.

**WriterElection** models the advisory lock by which one of several nodes stores
an envelope. The lock is on the channel and the millisecond, so envelopes can
share it.

### Connections, identity and access

**WsConnection** models authentication (validation and rules as one outstanding
query with late answers), the auth timeout, the two-second authority lease and
its monitor, displacement in the registry by the same credential, closing, and
the registry's four shutdown operations. Time is a counter; timers may be late.

**Identity** models accounts, sessions, tokens and invitations
(`auth/handlers.cpp`, `auth/pat_handlers.cpp`). A transaction is two steps, its
statements under its lock and the commit; between the verification of a password
on a worker thread and the transaction that follows, other requests run. A
password is the number of times it was set, a credential remembers under which
one it was issued.

**AccessControl** models the administration of groups, members, rules and grants
(`groups/handlers.cpp`, `rbac/`). A handler is a chain of autocommit statements,
each issued from the callback of the one before, so requests and package
operations interleave between any two. A rule has a generation: deleted and
registered again it is a new row under the old name.

**Capabilities** models the resolver: seeding at start, the Tier 2 cache, the
listener that takes each notification as a hint, package operations that commit
and reload, and calls under the shared side of the lock. The table is the
sequence of its committed contents, a snapshot a position in it.

**LayoutService** models the float layout service, the single worker that owns
its synchronous work, its storage calls on the event loop and its asset streams,
beside package updates that fence, wait for the count of dispatches, and cut over.

### Lifecycle and extension code

**AsyncTaskRegistry** models leases, cleanup owners with revisions, retry passes
that take the whole list, the epoch wait and deadlines of `drain`.

**ShutdownCoordinator** models `quiesce` from several threads, the ten steps of
the graph and `finish_after_drogon`, over six domains of work that may start
work in each other. A domain is an admission gate and a count.

**RuntimeRegistry** models the pools of one extension name. `create_pool`
reserves the name, constructs outside the lock, publishes if it is still the
attempt that started last, and retires what it holds; `destroy_pool` extracts
and retires; a dispatch leases the pool, runs, and gives its reference back on
the application's loop; `shutdown_registry` stops admission, takes the pools,
waits, closes them, and keeps those it could not close. `use_count` is the set
`Owners(p)` of all who hold a reference. Callers are arbitrary threads, as in
the registry's tests; in the shutdown graph the builders have ended before
`shutdown_registry` runs.

**JsDelivery** models the contexts of one pool: checked out, bound to an event
loop, subscribed, called back by the broker, suspended, recycled, returned. A
delivery is queued on the loop the checkout had when the event was published.

**JsExecution** models extension code on one context: the driver coroutine, the
fan-out of asynchronous operations up to a cap, suspension and wake, the
cancellation cascade, and `db.batch` on a pinned transaction which the database
driver commits when its last reference is dropped.

**HttpDispatchStore** models the admission credits and durable obligations of
extension HTTP requests, with the server's side of a transaction as state of its
own: a COMMIT sent before a crash may take effect after it. Opening a domain is
two steps, its slot under the root's mutex and its clients after it, and the
root may drain the domain in between. Its callers are the store's tests: no
production code opens a `DispatchStoreRoot` yet. **HttpExchange** is
one exchange: authentication, the arbiter of answers, and the write.

### Packages and the shell

**PackageLifecycle** is one package name with concurrent requests. A request has
a program counter that follows `install_lifecycle.cpp` statement group by
statement group; every transaction, file operation and pool start may fail. The
row, schema, capability rows and rules are in `db`, the version trees and the
`active` link in `disk`, and routes, pool, capability cache, fence and calls in
`mem`. A version stands for all its content, so that "capability rows of another
version" is visible.

**PackageRecovery** adds the crash and the boot sequence: the stale plan
reconciliation works from, the fate of every in-flight state, route restoration
and readiness.

**RbacTests** models the runner of a package's rule tests: ephemeral users, the
name lock, calls that outlive their time limit, scope guards, shutdown, and the
sweep after a crash. A statement is executed, refused because its worker was
stopped, or fails, alone or with all that follow. **HttpClaims** models the
reservation, receipt and binding of HTTP paths by concurrent installs (the
transaction object is complete but only its tests construct it);
**Generations** the capture of package trees, file by file, under a shared byte
budget and cache, with COMMITs whose answer is lost. **Frontend** is the shell from a cold
start to its first request: reconciliation of an interrupted swap, first install
or requested upgrade, and the fenced publication of document, storage and pool.

## 3. The runs

Components that share no state are checked in one run: `MCComponents` and
`MCLifecycle` declare the variables of all of them and a variable `part` that
`Init` chooses; a behaviour is a behaviour of that part, so the state spaces add
up. `MCReplayLive`, `MCAccess` and `MCInstalled` do the same with `scenario`,
which also restricts one specification in several ways (`MCWsConnection`,
`MCPackages`). What a scenario leaves out is said below. A property of such a
run is a conjunction over its parts of properties of the component modules; the
names in parentheses are theirs.

| Run | Parts | Properties |
|---|---|---|
| `pipeline` | RealtimePipeline | `PersistedInOrder`: rows reach `plinth.events` once and in outbox order. `NoRowSkipped`: the cursor passes no row unaccounted for. `CleanFlushIsComplete`: a flush that reports success delivered all it owed. `ImplementsEventLog`. `RowsSettle`: every row settles |
| `replay` | ReplayLive | `NoSilentLoss`: no row is lost between replay, buffer and live path without a resync. `FramesInOrder`. `ReplaysReleaseChannels`: a channel held back is released |
| `components` | *coalescer*, *cursors*, *election*, *builders*, *dispatches*, *contexts* | `NothingIsDropped`: each coalesced write is in exactly one place (`WritesAccounted`), a clean shutdown emitted all (`CleanShutdownIsComplete`), a stopped node has stored its cursors unless the latest statement failed (`StoppedHasStored`), an envelope that every node skipped lies between two that won the lock (`DroppedOnlyBetween`). `PoolsAreOwned`: a pool is open while a dispatch may use it, and an open pool has an owner. `LastStartedWins`: the call that started last decides, a stopped registry stays empty. `ContextsAreExclusive`: one thread in a context, and a returned one is unknown to the broker. `CursorNeverRewinds`. `WorkIsFinished`: windows close, replaced pools and returned contexts go |
| `lifecycle` | *tasks*, *coordinator*, *execution*, *store*, *exchange* | `DrainedIsFinal`: cleanup owners are never lost, a drained registry stays empty. `CleanMeansNothingLost`: the shutdown graph stops nothing that live work uses, a clean result hides no loss. `BatchIsAtomic`: a batch is all or nothing and announced exactly then. `InflightIsExact`: the counters of detached work belong to the execution that runs. `ObligationsAreKept`: what the HTTP store acknowledged is durable, its rows stay within the credits. `AnswerIsStored`: a client gets the stored choice. `DrainsReturn`: drains, callers, executions and operations end |
| `access` | *time*, *race*, *accounts*, *layout*, *resolver*, *groups* | `AuthorityIsFresh`: authority is never older than its lease. `RegistryIsExact`: who serves is registered, who was registered is closed. `CredentialsAndAccounts`: a credential that works belongs to the current password, accounts are admitted once each under the limit. `AccessRowsAreConsistent`: no row names a deleted group or an earlier installation of a rule. `LayoutIsOneGeneration`. `ReloadCoversCommit`: a finished operation is not undone in the cache by an older read. `ClientsAreAnswered`: connections settle, requests, calls and package updates end |
| `packages` | *race*, *faulty*, *crash*, *tests*, *claims*, *generations*, *shell* | `ReadyIsOneGeneration`: what the launcher offers can be served, of one generation. `QuietAndClean`: mutations run behind the fence with no call in flight, an operation that ended leaves nothing. `DrainedLeavesNothing`: a drained test runner has no worker left, and rows or a lock only of runs that were stopped or had a statement fail. `RecordsMatchOwners`: a path has one owner, receipts match what was observed, the budget is exact. `PlatformIsOneVersion`. `OperationsSettle`: committed rows are not rewritten except as section 5 says (`CommittedStays`), a package passes only with every clause (`PassedMeansEveryClause`), operations and test runs end |
| `replay_missed`, `replay_expired`, `election_lost`, `packages_recovery`, `packages_sibling`, `packages_quiesce` | | counterexamples, see section 5 |

Each run also checks a type invariant (`TypeOK` or `Types`).

### Bounds

- `pipeline`: two producers and two ids allow commits in the wrong order;
  `BatchSize = 1` makes every scan continue, `QueueCap = 1` makes the queue
  overflow with the second row; one fault is a crash, a lost session or a failed
  statement, and the process may be restarted and shut down more than once.
- `replay`: two rows, chunk, total and buffer of one, so that every limit is
  reached. *channels*: two channels, one replay, no faults. *faults*: one
  channel, one database error, exception or unsubscribe, one swept row.
  *overlap*: two replays on one channel with one row.
- `components`: two tables, two extensions, a batch and three writes (a window is
  claimed while another write opens the next); three nodes that write the cursor
  of one user, with a threshold of two; two writers and four envelopes in two
  milliseconds, so that one can be skipped by both between two others;
  two pools and one failure, *builders*: two builders, a destroyer and a
  dispatch, *dispatches*: one builder, a destroyer and two dispatches; *contexts*:
  two addresses on two loops, a pool of one, a subscriber and one delivery, so that
  a delivery meets a moved, a returned and a recycled checkout.
- `lifecycle`: two drains over two owners, so that one is retained while another
  pass holds it; two callers, one piece of work for each domain, one failure;
  two operations under a cap of one, one batch scope; three HTTP requests, one of
  them left by an earlier process, with credits for two and one crash, so that a
  row of that process takes a credit from a new one; two candidate answers.
- `access`: a lease of two in a time of four, so that a lease is renewed, lapses,
  and a revocation falls before, into and after it (*time*, one connection); two
  connections with one credential at one instant (*race*); two requests in each
  of *accounts* (three users, two accounts, two passwords), *layout* (two slots,
  one update) and *groups* (one custom group, two users, a rule installed twice);
  in *resolver* two operations, a call of depth two, three writes and one fault.
- `packages`: three versions and rows (an upgrade of an upgrade), one call in
  flight. `MaxStarts` bounds the operations of a scenario. *race*: two requests,
  three operations on an empty name, no failure. *faulty*: two requests, two
  operations on an installed name, one failure, one crash. *crash*: one request
  after the other, three operations, one failure, two crashes (the second one
  may hit recovery). *tests*: two runs of one rule, one failure or crash, beside
  a shutdown. *claims*: four rows of two names whose claims nest, overlap a
  mount, or lie under the kernel's own; two of them are being installed
  (`Begun`), one of these stays where it is (`Waiting`), and one session has two
  transactions, the other one. *generations*: two callers and two trees, one of
  which is rewritten and withdrawn (`Changing`), a cache of one, and a budget
  that two captures do not fit in. *shell*: three versions, two with the pinned
  digests, three faults.

No behaviour within these bounds is left out. Where the code lets one operation
take away what another relies on (section 5), history variables of `MCPackages`
record it: `spoiled` holds the rows beside which the shared state of the name
changed hands, `exposed` the requests whose fence another one has lifted. The
properties say what holds for all other rows and requests, and for the name as a
whole. `hurt` in RbacTests, `lost` in Generations and `unsaved` in CursorStore do
the same for statements that failed or whose answer was lost.

Deadlock is not checked: the bounded systems come to rest when the bounds are
used up or the process has shut down. The liveness properties say instead what
must not be left waiting.

### Fairness

Weak fairness is given to what a scheduler or a timer of the code must do in the
end: the steps of the listener and writer threads, the event loops that run
queued closures, database answers (a statement returns or fails: the client has
timeouts), timers that are armed, replay coroutines, drains, workers, boot, and
the end of a database session whose client is gone (`SessionEnds`). It
is never given to clients, producers, crashes, faults or administrators. Strong
fairness is used once: `DrainOne`, because the timers that call it keep coming
while another job has the slot. The drain in `DrainsReturn` also needs the
owners' own progress (`CleanupProgress`) and the release of leases, without which
the code returns by its deadline. Where a step may be delayed by others that
repeat for ever, the property names the excuse instead of assuming it away: a
context is retired unless its loop stays busy (`RetirementsEnd`), and of `quiesce`
it is the attempts that end, not each caller's wait for them (`CallersReturn`).

Where a scenario forbids a step that fairness asks for, there is no such
behaviour, and the liveness properties say nothing about it.

## 4. The proofs

Each theorem holds for every value of the constants its module's named
assumption admits, and rests on an inductive invariant that TLC checked on the
instances above before it was proved. A step lemma has one case per action; a
`Frame` lemma covers the steps that leave the variables of an invariant alone.

| Module | Theorem | States |
|---|---|---|
| RealtimePipelineProofs | `TypeCorrect` | `Spec => []TypeOK` |
| | `EventsPersistedInOrder` | `Spec => []PersistedInOrder` |
| | `NoRowIsSkipped` | `Spec => []NoRowSkipped` |
| | `CleanFlushesAreComplete` | `Spec => []CleanFlushIsComplete` |
| | `PipelineImplementsEventLog` | `Spec => ImplementsEventLog` |
| WsConnectionProofs | `AuthorityStaysFresh` | `Spec => []AuthorityIsFresh` |
| ReplayLiveProofs | `OrderHolds` | `Spec => []FramesInOrder` |
| ReplayLossProofs | `NothingIsLost` | `Spec => []NoSilentLoss` |
| ReplayQuotaProofs | `TypesHold` | `Spec => []TypeOK` |
| AccessControlProofs | `AccessRowsStayConsistent` | `Spec => []AccessRowsAreConsistent` |
| CapabilitiesProofs | `ReloadsCoverCommits` | `Spec => []ReloadCoversCommit` |
| FrontendProofs | `PlatformsAreOneVersion` | `Spec => []PlatformIsOneVersion` |

**The pipeline** (any producers, ids, faults; batch size and queue capacity not
zero: `PipelineAssumption`). Types are inductive with one addition, an insert in
flight has an envelope (`JobHasEnvelope`).

That the next id appended to `persisted` is larger than all before depends on
everything upstream. `OrderInv` orders the stages: what is persisted is below
what is being inserted (`CurrentAbove`), that below the queue (`QueueAbove`),
that below the batch (`BatchAbove`), that below the rows the cursor has not
passed (`UnreadAbove`), and all of it below what open transactions hold
(`PendingNewest`). The last holds because only the session with the advisory
lock has uncommitted ids (`PendingLocked`); for restarts, a listener without a
baseline has done nothing (`BaselineFirst`).

`DeliveryInv` adds control and accounts. `Control` says what the threads know of
each other: a process that is down holds nothing (`DownIsIdle`), an answered
drain leaves the listener at the top of its loop for good and only a flush asks
for one (`DrainIsFinal`), the writer is stopped only behind a drained listener
(`WriterIsLast`). That is why the handler never ignores a row it is handed. The
accounts follow a row from the table to the broker: the rows the cursor passed
were taken by the writer (`PassedAreTaken`), which needs that a batch has no hole
(`BatchIsDense`); what a flush owes was taken, is in the batch or is ahead
(`OwedAreKnown`), and nothing of it is ahead once the last scan of a drain came
back short (`DrainSeesAll`); a loss leaves a mark that fails the flush
(`LossIsMarked`); what the broker got was persisted, and the row to be handed to
it is the newest (`FannedPersisted`). `NoRowSkipped` and `CleanFlushIsComplete`
follow. For the refinement, `InsertCommit`, `InsertFails` and `Crash` are `Store`
steps of EventLog or stutters (`AppendStores`, from `CurrentAbove`), `FanOut` is a
`Deliver` step or a stutter (`FanOutDelivers`), and no other step changes the log
(`OtherStepsStutter`).

**The authority lease** (any connections, keys and lease). `LeaseInv` carries the
time of the database read through every place it can wait in: the query that was
asked (`QueryOk`), the closure in the loop (`LoopOk`) and the lease in force
(`LeaseOk`); at each of them the deadline counts from before the query.

**Replay beside the live path** (any channels, finitely many; any rows, replays,
row cap, buffer size, quota, sweeps and faults; pages not empty:
`ReplayAssumption`). `ReplayInv` has four parts, each needed by the next.

- `TypeInv` gives every record its fields.
- `LiveInv` orders the live rows through the three places they can be in. Rows in
  the loop are newer than anything buffered or sent (`LoopLive`); a buffer holds
  rows of its own channel in order, newer than what the client has of it, and
  only while the channel is held back (`BuffersLive`). The cleanup of one replay
  may flush while another still runs: both facts survive it.
- `OrderInv` does the same for the frames of a replay, sent and queued
  (`FramesKnown`, `FramesFollow`), from the page and its cursor (`PageInOrder`).
  `FramesInOrder` follows from the two.
- `LossInv` is the account of every row. `Excuse` lists what ends the promise: a
  lapsed lease, a failed query, a swept row, a resync frame seen or queued; it is
  never taken back (`ExcuseStays`). Without one, a row that is owed and missing is
  ahead of the writer, in the loop, in a buffer, in a queued frame, or still to be
  read by a replay (`MissingIsOnItsWay`). Buffers are thrown away only behind a
  resync (`DropsAreTold`); a channel held back has a replay whose cleanup is ahead
  in the loop, behind its own setup (`HeldBackIsReleased`, `CleanupsEnded`); a
  channel that is not subscribed is owed nothing (`OwedIfSubscribed`). When all is
  quiet none of these places is left, which is `NoSilentLoss`.

The steps of a replay are first reduced to five shapes (`ReplayShapes`: it ends,
turns a page, moves on, reads a page, returns), so that each part of the
invariant is shown for the shapes and not for every exit of `run_replay`.

**Groups and grants** (any groups, users, rules and requests). `AccessInv` adds
what the captured values of the handlers mean: ids are never used again
(`IdsAreSpent`), members and grants have their parents as the foreign keys
demand (`ChildrenHaveParents`), and what a request captured is allowed and was
true (`CapturedIsAllowed`).

**The capability cache** (any signatures, operations, calls). `ReloadInv`: one
writer at a time (`OneWriter`), swaps happen under the lock (`SwapsHoldLock`),
snapshots only advance (`SnapshotsAdvance`), commits are in the table
(`CommitsAreInTable`), a process that is down holds nothing (`DownIsQuiet`).

**The shell** (any versions, profiles and faults). `FrontendInv`: the selection
under the name operation still holds (`SelectionHolds`), storage, pool and
document are bound in that order (`BoundInOrder`), and before it nothing is
published (`Unpublished`).

Only model-checked: liveness (`ReplaysReleaseChannels` and the other temporal
properties), which the prover cannot express; and the invariants of the remaining
modules, for which no inductive strengthening has been worked out yet.

## 5. What the models found

Six runs show a disagreement between the code and what a document or a comment
of the repository says; `PROJECT.json` ("findings") quotes both sides.

- `replay_missed`: a resync exit drops rows committed after the resync frame.
- `replay_expired`: an events table emptied by the sweep hides an expired cursor.
- `election_lost`: of three envelopes of one millisecond the second may be skipped
  by every node, each time for the lock of a neighbour, with no failure.
- `packages_recovery`: a crash between the copied tree and its link ends every
  later boot; a crashed upgrade in MIGRATING drops the schema of the live row.
- `packages_sibling`: uninstalling a superseded row takes rules, capability
  rows, pool, schema and files from the live one.
- `packages_quiesce`: `install_package` gives up the name lock before it lifts its
  fence, and so lifts the fence of the upgrade that took the lock.

Met while modelling, without a run of their own:

- an envelope may be stored by two nodes if their stamps differ (ICD-0.5.4 says
  exactly one row);
- a cursor whose last UPSERT failed counts as persisted and is left out by the
  shutdown flush (`realtime/cursor_store.cpp:67`; `realtime/events_writer.cpp:672`
  says "flush every cached cursor delta"); `StoppedHasStored` excepts it;
- a dry run of a newer version upgrades the package: `install_package` goes to
  `upgrade_package` before it looks at `dry_run`
  (`packages/install_lifecycle.cpp:1941`; ICD-0.4.4 says no row persists);
- live frames may precede `replay_done`, the first live frame after a replay may
  repeat its last row, and `replay_done` may follow an overflow resync
  (ICD-0.5.5 orders them otherwise); `NoSilentLoss` counts a repeated row once;
- `upgrade_package` never re-reads its row under the lock; for the bundled shell
  the unique index of active names refuses a replaced row before the link moves;
- a first install that crashed between its tree and its link ends every later
  boot of the shell too, until the operator makes the link;
- after a stop every statement of a test run is refused, those of its guards
  included: its users, group and grant stay, and the shutdown still reports that
  all workers were drained (`packages/rbac_test_runner.cpp:83`);
- a failed query of the effective rules yields no rule
  (`packages/rbac_test_runner.cpp:256`), and `assert_deny` passes with it;
- a root that is drained between the slot and the clients of a domain being opened
  gives back its credit and slot, and the clients are made afterwards
  (`extension_http/dispatch_store.cpp:597`); they go with the caller's owner;
- a disable whose COMMIT took effect and was not answered leaves its capture in
  the generation cache (`packages/install_lifecycle.cpp:2559`);
- a restart after an upgrade that failed past REGISTERING leaves the capability
  rows of the new version with the code of the old one, unfenced
  (`NoMixedGeneration` then claims only that no row is offered);
- a lost answer to the COMMIT of the swap, followed by disable or enable, works
  on the old route and tree;
- reconciliation works from one scan: an ACTIVE row whose UNINSTALLING
  predecessor it has just cleaned up is marked INSTALL_FAILED (the exception in
  `CommittedStays`);
- the back-pressure counter is decremented for inline PUBSUB operations that were
  never counted (`js/bridge_context.cpp:217`, `js/run_on_context.cpp:1710`;
  `async_hardening_test.cpp:200` and ICD-0.3.3 expect a balanced count);
- the state of a batch is not cleared when BEGIN or COMMIT fails
  (`js/bridge_context.hpp:252` says it is);
- `db.exec` while a batch is open but has no transaction yet writes outside of it
  (ICD-0.5.3);
- `RuntimePool::rebuild` can grow the pool past its size (ICD-0.3.1; only tests
  call it);
- callback ids start over with each execution, and `emplace` ignores a duplicate
  (`js/bridge_context.cpp:183`);
- a denied second subscription of a channel leaves its registry entry
  (`js/run_on_context.cpp:1646`);
- the capability cache does not catch up after a failed reload until the next
  notification (`capabilities/listener.cpp:249`; `listener.hpp:24` and ICD-0.2.4
  say it does); a failed NOTIFY is only logged (`registration.cpp:81`);
- `lh0_chain_handler` takes the shared lock again under its caller's: safe because
  glibc's lock prefers readers, and a deadlock where writers come first (a mutant
  of Capabilities shows it);
- a first boot whose COMMIT was not acknowledged ends as a clean exit
  (`packages/install_lifecycle.cpp:2284`, `shell/firstboot.cpp:540`), which
  `Frontend!ActivateUnacknowledged` models;
- deleting a group fails in its third statement, by foreign key, if a member or a
  grant is added meanwhile; `execute_group_update` reads the first row of a result
  that may be empty;
- the audit of the bootstrap is written at most once (`bootstrap.cpp:57`);
- a bundled upgrade switches its link before its COMMIT.

## 6. Not modelled

Out of the models because there is no state to interleave: string predicates
(channels, rules, signatures, SQL classification), codecs and the HTTP frame
machine (no caller outside its tests), manifests and validation (their verdict is
a choice), restore policies, surfaces and audit queries (reads), QuickJS values
and evaluation, configuration, logging, response headers. A window counter under
one mutex: the rate limiter. Outside the kernel: the browser clients and the load
harness. Schema creation at the first start is sequential SQL.

Abstracted: payloads, wording and row counts; memory exhaustion; wall-clock
accuracy (timers may be late, never early); the statements inside one
transaction, except where another session can see between them; the files of a
migration, which are one step that may fail.

The later phases of `dispatch_store.cpp` (handoff, observation, settlement)
answer PROOF_REQUIRED in the code and have no effect to model yet.

## 7. Plan

1. **Theorems**: `DrainedIsFinal` of AsyncTaskRegistry (revisions and list),
   `CursorNeverRewinds`, `LiveWorkKeepsItsDependencies` from an invariant over the
   graph's position, `QuietMutation`.
2. **Packages**: migrations file by file, with their checksums and the lock of
   the migration table.
3. **Composition**: the owners of AsyncTaskRegistry as the contexts of JsDelivery
   under the leases of RuntimeRegistry; WsConnection with the revocations of
   Identity.
