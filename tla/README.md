# Verification of indexed-db

TLA+ models of the `indexed-db` crate (Rust bindings for the browser's IndexedDB,
version at this commit), checked with TLC and proved with TLAPS, but for liveness. Paths
below are relative to the repository root.

The crate's promise is stated in the first line of its README: transactions default
to *aborting*. IndexedDB does the opposite. It commits a transaction as soon as
control returns to the event loop without a request in flight. The crate turns one
into the other with a hand-written poll loop, an `unsafe` lifetime extension, a
counter and a thread-local. None of this can be unit-tested for the orders in which
a browser may fire events; that is what the models are for.

## 1. Inventory

| Component | State | Operations | What makes it correct |
|---|---|---|---|
| Transaction runner, `src/transaction/runner.rs` | `RunnableTransaction`: the callback's future, `inflight_requests`, the `finished` sender; thread-local `CURRENT` | `poll_it`, `add_request` with its two event closures, recording of the result | nothing commits without an `Ok`; the counter is exact; one outcome; the callback always runs in an active transaction |
| Transaction and request futures, `src/transaction.rs` | `result: RefCell<Option<..>>`, the oneshot channel, one slot per request | `run`, `FakeFuture::poll`, `transaction_request` | `run` ends, and its answer is what happened to the transaction |
| Unsafe jar, `src/transaction/unsafe_jar.rs` | weak reference to the state, `dropped` flag | `ScopeCallback::run`, the checks at the end of the scope | the callback is never polled after the scope; the abort of the process never hits |
| Factory, `src/factory.rs` | per call: the request, `ran_upgrade_cb`, result and channel of the upgrade callback | `open`, `open_latest_version`, `delete_database`, `get`, `cmp` | the caller gets the version it asked for, upgraded; a refused upgrade leaves nothing behind; calls return |
| Database, `src/database.rs` | `OwnedDatabase::db: Option<Database>` | `into_manual_close`, `close`, `drop`, accessors | connections are closed by whoever holds them |
| Object stores and indexes, `src/object_store.rs`, `src/index.rs` | none of their own; the records and the index are the browser's | request methods: send, wrap, map the error | errors keep their meaning, ranges their bounds |
| Upgrades, `VersionChangeEvent`, `ObjectStoreBuilder` in `src/factory.rs`, `IndexBuilder` in `src/object_store.rs` | none of their own; the schema is the browser's | create and delete object stores and indexes | what is removed is noticed by what still refers to it |
| Cursor, `src/cursor.rs` | `sys: Option<IdbCursor>`, one `IdbRequest` for all steps | `open`, `open_key`, `advance*`, `delete`, `update` | walks each record in range once and in order; a step gets its own answer |
| Errors and key ranges, `src/error.rs`, `src/utils.rs` | none | `map_*_err`, `from_dom_exception`, `make_key_range`, `non_transaction_request` | each browser error has a variant or a deliberate panic; a range means what it means in Rust |

How they interact: `run` builds a `RunnableTransaction` in the unsafe jar and polls it
once, in the caller's own task. A request method sends its request to the browser at
once; its *future* installs the event handlers in its first poll, through `CURRENT`.
When an event fires, its closure decrements the counter, stores the event and polls
the callback again, inside the event handler, where the browser still regards the
transaction as active. When the callback returns, the oneshot channel wakes the task
that awaits `run`. `open` uses the same machinery for its upgrade callback, started
from the `upgradeneeded` event instead of the caller's task.

Three parties thus take turns: the task of the caller, the event loop of the browser,
and the callback inside polls started by either. There are no threads, but between
any two events anything may happen to the futures: dropped, kept, awaited in another
order. That, panics (which trap on wasm and unwind elsewhere), and the reference
cycle between request closures and the state they poll are the hard behaviours. The
full list, with the line where each bites, is in `PROJECT.json` under `hazards`.

## 2. Modules

**`AtomicRun`** is the abstract specification of `run`: the callback decides once,
the transaction is committed after an `Ok` and only then, aborted in the same step as
any other decision, and the caller is told what was decided, if it still waits. Eight
short actions. A decision need not be the callback's: `"failed"` stands for a forbidden
await, a panic, an abort by the browser, and an `Ok` that nobody waits for any more.

**`TransactionRunner`** models one call of `run` down to the counter, the channel and
the reference cycle. State and code:

| Variable | Code |
|---|---|
| `scope` | the future of `run`: `calling` during its first poll, then `awaiting`, then an outcome |
| `future` | `RunnableTransaction::future`: `running` while a poll of it is on the stack |
| `result` | the `RefCell<Option<TransactionResult>>` of `run` |
| `finished` | the oneshot channel: armed, signalled, or its sender dropped |
| `inflight_requests` | the counter |
| `requests` | one status per request: sent but unpolled, awaited (handlers installed), answered, taken, dropped before or after its first poll |
| `transaction` | the browser's active flag and end state |
| `issued`, `delivered` | how far callback and browser have got in the request queue |

One poll of the callback is a sequence of actions (`Issue`, `AddRequest`,
`TakeAnswer`, `DropRequest`, ...) between the action that starts it (`RunStarts` or
`FireHandled`) and the one that ends it (`Suspend`, `Return` or a panic): nothing of
the browser interleaves with it, as in the single-threaded program, except what the
callback itself can observe. The trailing work of `poll_it` is part of `Suspend` and
`Return`. `KeptAlive` is the reference cycle: registered request futures own closures
that own the state that owns the futures. A panic has two meanings, chosen by the
constant `Unwind`: `PanicUnwinds` drops what the callback still owns, while futures that
were moved out of it (`Stashable`) live on, with the state and the sender of the channel;
`PanicTraps` leaves everything where it is.

What callbacks and callers do is bounded by the constant `Usage`, what browsers do by
`Faults`; each is a set of names, explained where it is declared. Each property names
the usage under which it is claimed. With every name included the model allows every
program the type system does, apart from the exceptions in section 7.

**`DatabaseOpen`** models one database and the clients that open, upgrade, delete and
close it. The browser serves a queue, in order; upgrades and deletions wait for all
connections to be closed, because the crate handles neither `versionchange` nor
`blocked`. The upgrade callback is an instance of `AtomicRun`, which is what
`TransactionRunner` is shown to implement. `schema` is the version whose callback last
took effect, which is what a client relies on when it gets its database.
**`VersionedDatabase`** is the abstract specification: a version with its schema, and what
each client holds. Nothing changes while anybody holds the database; a version rises
together with its schema, except for the database that `open_latest_version` creates.
`DatabaseOpen` implements it (`RefinesVersioned`) with the version as it would be if the
running upgrade aborted (`Lasting`), and what `open` or `open_latest_version` handed out
(`Held`). **`MCDatabaseOpen`** adds the symmetry of clients, used in a run without liveness.

**`CurrentTransaction`** models what `TransactionRunner` leaves out on purpose: several
transactions of one page. `stack` is the nesting of the scoped thread-local `CURRENT`;
its last element is what `add_request` finds. A request has a `home`, the transaction it
was sent in, and an `owner`, the transaction its closures refer to: they differ once a
callback awaits a request of another transaction (`"share"`). A callback may call `run`
(`"nest"`) and wait for it; `WakePanics` is `panic_waker`, woken from the event handler
of the inner transaction. `Forbid` drops the callback's future with the futures of its
inner runs, whose transactions then poll freed data (`UseFreed`). The browser lets a
transaction wait for any of those opened before it (`ahead`), as modes and stores may
have it. Misuse by a single callback is not repeated here. A panic is a trap (`Traps`), as
on wasm: it empties the stack, leaves the future of every poll on it borrowed (`"trapped"`),
and the browser aborts the transaction whose event handler threw (`dispatching`), or none if
it happened in a task of the page. The browser and the page then go on: transactions that
are still open become inactive and may commit, and an event that polls a trapped callback
throws (`FireThrows`). A trap at the end of an inner callback, over the outer one's waker,
leaves the inner `run` with its signal but without what a return leaves (`Broken`); a later
poll of it panics or aborts the process (`PollBroken`).

**`KeyRange`** is `make_key_range` as operators, next to two readings of a range: the
standard library's `RangeBounds::contains` and the browser's `IDBKeyRange`.
**`ErrorMap`** is the table of each `map_*_err`: names of exceptions to variants, with
what falls through to `from_dom_exception` and from there to a panic.

**`StoreRequests`** models the methods that change something: one object store (keys to
values, a value being its key in the index), one index, and the methods of `ObjectStore`,
`IndexBuilder`, `ObjectStoreBuilder` and `VersionChangeEvent` as actions. Each action
computes the browser's error in the order in which the browser looks for it, and answers
what `ErrorMap` makes of it. A request takes effect where it is sent: the browser
executes the requests of a transaction in the order of sending and shows the store to
nobody else meanwhile. When the answers arrive is the subject of `TransactionRunner`.
**`StoreReads`** holds the methods that read, for an object store and its index alike. An
action stands for each group of methods with the same arguments (`ReadAll`, `ReadKey`,
`ReadRange`) and answers `Ok` or how the call is refused: `ObjectStore::index` comes first,
then the crate's own `make_key_range`, then the browser's look at the store and at the key
(`SourceAnswer`, which `OpenCursor` uses as well, with the table `map_open_cursor_err`).
The values that are read are the browser's and are left out; `Found` is what a range
reaches. `method` remembers which method the last answer is of, for the property that
says which calls panic.

**`CursorWalk`** adds one cursor, over the store or the index:

| Variable | Code |
|---|---|
| `sys` | `Cursor::sys`; `unopened` before `CursorBuilder::open` has returned |
| `source`, `direction`, `query`, `keyOnly` | what the builder gave to the browser |
| `asked` | what the callback gave to the builder |
| `position` | where the browser's cursor is: `Cursor::key` and `primary_key` |
| `flight`, `target` | the one `IdbRequest`: its event is awaited, or due with its future dropped, and where it leads |
| `attached` | whether the store and index of the cursor still exist |
| `seen`, `unseen` | memory of the properties |

The browser finds the entry of a step when the step is sent and moves the cursor with the
event. In between other calls change the store, as branches of one `join!` do.
**`MCStore`** gives the ranges that callbacks ask for.

The theorems are in **`TransactionRunner_proofs`** (types, counter, single outcome),
**`TransactionCommit_proofs`** (nothing commits without an `Ok`),
**`TransactionScope_proofs`** (the unsafe jar), **`TransactionAtomic_proofs`** (the
refinement), **`CurrentTransaction_proofs`**, **`DatabaseOpen_proofs`**,
**`StoreReads_proofs`** (ranges) and **`CursorWalk_proofs`**.

The operators named in the `mutants` of `PROJECT.json` are plausible bugs, defined next
to the definition they would replace; no specification uses them.

## 3. Runs

| Run | Bounds | Checks |
|---|---|---|
| `runner_documented` | 4 requests; forbidden awaits; requests may fail | `AcceptsRequests`, `FailureAborts`, `OkIsHonoured`, `NoPollAfterScope`, `JarNeverAborts`, `RunSettles`, `OkCommits`, `MisuseIsReported`, `RefinesAtomicRun` |
| `runner_misuse` | 4 requests; every usage but out-of-order awaits; every fault; panics unwind | `CommitOnlyIfOk`, `NoLostEvent`, `RunCanWake` |
| `runner_anything` | 4 requests; every usage and fault; panics trap | `TypeOK`, `InflightExact`, `SettlesOnce` |
| `open_documented` | 3 clients, versions to 2; open and delete, no usage or fault beyond the documented | `SchemaReady`, `NeverPanics`, `NoOrphanedConnection`, `CallsReturn` |
| `open_anything` | 3 clients, versions to 2; everything | `TypeOK`, `OpenedAsAsked`, `AnswerMatchesUpgrade`, `RefinesVersioned` |
| `current_nested` | 3 transactions, 3 requests; nested runs and shared futures | `TypeOK`, `CountsOwn`, `ActiveWhenPolled`, `CommitsWhole`, `NestedNeverCommits`, `AnswersAreTrue`, `NoDeadlock`, `RunsEnd` |
| `store_cursor` | 3 keys, 2 index keys, 1 call that changes something, 3 ranges, readonly and upgrade callbacks | `TypeOK`, `RangesAsInRust`, `WithinRange`, `NothingMissed`, `WalksInOrder`, `VisitsOnce`, `DroppedStepAborts`, `PanicsOnlyOnUnmapped` |

Five more runs, `runner_reorder`, `runner_hold`, `runner_cancel`, `runner_trap` and
`runner_commit`, each allow one usage or fault and find a property violated (section 4).

Bounds. Every hazard of the runner involves at most two requests in different states
(one answered and one not, one dropped and one pending), and a third to be sent
afterwards; four leave one to spare. The documented run is small because in-order use
leaves little choice; its interest lies in the temporal properties. For the database,
three clients allow an upgrade, a waiter behind it and a deletion behind both, and two
versions allow creation, upgrade, and a request for a version that is too old. Three
transactions are the fewest with a callback waiting for an inner run that waits for a
third, unrelated one, and three requests let each of them have one in flight. For the
store, three keys are a cursor with something before, at and after it, and two index
keys let two records share one while the third does not. The store starts with any
records and any index, so one changing call between two steps is enough to disturb a
walk; a walk itself has no bound. An upgrade callback may do all that a readwrite one
may, which is why `Modes` leaves the latter out. The ranges that callbacks give are one
that the crate refuses (`Everything`), one that the browser refuses and one with an open
end; that all nine forms mean the right thing is `RangesAsInRust`, evaluated for every
range over the keys in every state where no call is in progress. While a cursor is open,
the calls that do not concern it are those that change something: one that is refused or
that reads leaves cursor and store as they are, whatever state they are in, and all of them
are made before a cursor is opened. All safety properties
of the passing runs are also proved without these bounds (section 5).

Deadlock is checked wherever the program may not stop. `runner_hold`, `runner_misuse` and
`runner_anything` switch it off: there a callback whose event is lost, or one
whose sender is kept alive by the cycle, really waits for ever (section 4), and a
callback without a permitted step has no action. So do `current_nested` and
`store_cursor`, where a page with no transaction left to open, and a
callback that was aborted or has panicked, have come to their end. In `runner_documented` the only
states without a successor of their own are the finished ones, which stutter in
`Ended`.

Fairness. In `TransactionRunner`: a poll that started goes on (synchronous code),
the event loop fires queued events, commits idle transactions, and runs tasks that
were woken. There is no fairness on `RunStarts`, on `Cancel` or on faults. In
`DatabaseOpen`: the browser serves its queue, an upgrade callback returns (an
assumption on the callback; `RunSettles` shows the crate adds no wait of its own),
a woken task runs, and a client that holds a database closes it in the end
(an assumption on clients: without it `CallsReturn` says nothing of the crate, since
any holder of a connection may block an upgrade for ever). In `CurrentTransaction`: a
poll comes to its end, since a callback is bounded by `MaxReqs` and `MaxTxs` and returns
or awaits after that, and the browser goes on, also after a trap. Nothing makes a task open transactions.

## 4. Where the code departs from what it says

Five runs expect a violation. Each is a disagreement between the code and a sentence of
the repository; the counterexamples are a few steps long.

* `runner_reorder` (`CommitOnlyIfOk`). Send two requests, await the second, then the
  first. The handlers of the first are installed after its event has fired. The
  callback waits for ever, the browser commits. README.md:3 says transactions default
  to aborting. (In-order use, including `join!` of the futures, is safe: this is
  theorem `OnlyOkCommits`.)
* `runner_hold` (`MisuseIsReported`). Await something forbidden while an answered
  request has not been polled since. The transaction aborts, but the reference cycle
  keeps the channel open and `run` hangs instead of panicking
  (src/transaction.rs:85-86). An executor-like combinator that polls only the futures
  whose wakers were woken, such as `FuturesUnordered`, gets here by itself, because
  `FakeFuture` never wakes a waker.
* `runner_cancel` (`NoPollAfterScope`). Drop the future of `run` while a request is in
  flight: the closures keep the state and the next event polls a callback whose
  borrows ended. The SAFETY comment of src/transaction/unsafe_jar.rs:42-48 relies on a
  check that only runs when the future is polled to its end.
* `runner_trap` (`PanicAborts`). Where panics trap, a panic in the first poll of the
  callback happens in the caller's task and aborts nothing; what was sent commits.
  README.md:72 says that a panic aborts.
* `runner_commit` (`OkIsHonoured`). `run` returns `Ok` before the commit and never hears
  that it failed (src/transaction.rs:91).

In some more places the models show what a reader of the documentation may not expect;
the properties state the behaviour as it is.

* "Transactions cannot be nested" (src/transaction.rs:98). What happens instead depends
  on who comes first. An outer callback that has no request of its own in flight is
  aborted for a forbidden await, and the future of the inner run is dropped with it,
  which leaves the inner callback with freed data, as in `runner_cancel`. An outer
  callback with a request in flight stays; if the inner callback ends first, it wakes
  `panic_waker` in its own event handler, and the inner transaction is aborted although
  its callback returned `Ok`. `NestedNeverCommits` says that in neither case the inner
  transaction commits. It does commit, with no harm done, if it sends no requests: then
  the outer callback never has to wait.
* A request awaited in another transaction than its own is counted there and polls there,
  while the browser has only its own transaction active: any further request panics.
  `CountsOwn` holds throughout, the other invariants until a future is shared.
* The event of a cursor step whose future was dropped aborts the transaction
  (`DroppedStepAborts`). Until it fires, every further step, `delete` and `update` answers
  `CursorCompleted` although the walk is not over. So do `delete` and `update` on a
  cursor opened with `open_key`.
* Where panics trap, an outer callback that is brought down in its first poll, by an inner
  run that awaited something forbidden, leaves its transaction open. Nothing was thrown in
  an event handler of that transaction, so the browser commits it with the callback
  undecided. `CommitsWhole` says that such a transaction is empty: what a callback of this
  module sends it awaits, and then an event handler is what the panic happens in or what
  finds the callback trapped. (`runner_trap` is about what was sent and never awaited.)
* `clear` on a removed store, a cursor's `update` that breaks a unique index, and the
  `create` of an object store under a malformed key path panic, where sibling methods
  return `ObjectStoreWasRemoved`, `AlreadyExists` and `InvalidKey`: their tables lack the
  case (src/utils.rs:83 and 194, src/factory.rs:300). `PanicsOnlyOnUnmapped` names the
  method of the call that panics and says that these three are all, of the errors that a
  request's arguments, the mode and the schema can cause. Errors of the storage itself
  and calls on a transaction that is over, on which the tables panic on purpose, are those of
  `TransactionRunner` (`TakeOddAnswer`, `IssueInactive`).
* A unique index over records that clash is created with `Ok`; the upgrade aborts behind
  it (`CreateIndex`).

Observed while reading, not checked by a run: src/database.rs:23 calls `Database`
`Clone`, but it derives only `Debug`; `open_latest_version` of a database that does not
exist creates it at version 1 with no object stores, after which `open(name, 1, ..)`
runs no callback (adding `"latest"` to `Calls` of `open_documented` violates
`SchemaReady`); a database closed inside its own upgrade callback commits the upgrade
but makes `open` panic on `AbortError` (adding `"close"` to `Usage` violates
`NeverPanics`); a cancelled `open` leaves a connection to the garbage collector
(adding `"cancel"` violates `NoOrphanedConnection`). `get_all(Some(0))` returns
everything, since the browser takes the count 0 for no limit, where
src/object_store.rs:286 speaks of at most `limit` results;
`contains(undefined)` counts the whole store, and `advance_until(undefined)` is a plain
step (`NoKey`). `Transaction::object_store` maps only `NotFoundError`, so that calling it
after the end of the transaction panics. The methods of a store send when they are
called, those of a cursor when their future is first polled.

## 5. Proofs

| Theorem | States | Assumes |
|---|---|---|
| `TypeCorrect` | `Spec => []TypeOK` | nothing |
| `CounterIsExact` | `Spec => []InflightExact` | nothing |
| `OutcomeIsSettledOnce` | `Spec => []SettlesOnce` | nothing |
| `OnlyOkCommits` | `Spec => []CommitOnlyIfOk` | `InSendOrder`, `PanicsUnwind` |
| `NoEventIsLost` | `Spec => []NoLostEvent` | `InSendOrder` |
| `RunIsWoken` | `Spec => []RunCanWake` | `InSendOrder` |
| `PolledWithinScope` | `Spec => []NoPollAfterScope` | `NotCancelled` |
| `ProcessSurvives` | `Spec => []JarNeverAborts` | `NotStashed` |
| `ReportedFailureAborted` | `Spec => []FailureAborts` | `NotDropped` |
| `CallbackFindsItActive` | `Spec => []AcceptsRequests` | `InSendOrder`, `NotDropped`, `NoAbortByBrowser` |
| `ReportedOkCommits` | `Spec => []OkIsHonoured` | `NotDropped`, `NoCommitFailure` |
| `RunIsAtomic` | `Spec => AtomicInit /\ [][AtomicNext]_atomicVars` of the instance `Atomic` | `Disciplined` |

These are the theorems of the runner. Each holds for every `MaxReqs`, `Usage`, `Faults`
and `Unwind` allowed by the ASSUMEs of `TransactionRunner`, restricted as the last column
says: `InSendOrder` is `"reorder" \notin Usage`, `PanicsUnwind` is
`"panic" \in Usage => Unwind`, and the others exclude one usage or fault each, whatever
else is in `Usage` and `Faults`. `Disciplined` is `InSendOrder`, `NotDropped`,
`NotStashed`, `PanicsUnwind` and `NoCommitFailure`.

No assumption can be left out: each usage, once allowed, breaks the property.

* `"reorder"` loses the event of a request, so that the transaction commits behind a
  waiting callback (`runner_reorder`).
* A panic that traps in the first poll lets it commit as well (`runner_trap`).
* `"cancel"` leaves a callback behind its scope (`runner_cancel`).
* A commit that fails follows a reported `Ok` (`runner_commit`).
* `"stash"` moves an awaited future out of the callback: when `run` resumes, the state is
  still alive, and the process is aborted whatever was decided.
* `"drop"` drops an awaited future. If the callback then awaits something forbidden,
  `poll_it` cannot tell it from a wait for that request, and `run` panics with the
  transaction still open until the stale event aborts it. If the callback returns `Ok`
  instead, the same event aborts behind the `Ok`.
* An abort by the browser (`"abort"`) is found by a callback that resumes for a request
  whose failure it may hold; what it sends then is refused.

So a run is atomic through panics, forbidden awaits, held answers, requests that fail in
any way, aborts by the browser, and a caller that drops `run`; out-of-order awaits,
dropped or stashed futures, trapping panics and failing commits are all that breaks it.

The counter. That `inflight_requests` is a natural number cannot be shown before
knowing that it counts something: a handler subtracts one. So the types are proved
with the counter an integer (`TypeButCounter`), then that a request is issued exactly
up to `issued` (`IssuedExactly`, so that a new number is fresh), then that the counter
is the cardinality of the awaited and stale requests, one lemma per way in which that
set changes: it gains an element, loses one, or exchanges none. `TypeOK` follows.

One outcome. `SettleInv` says in addition which states of `future` go with an empty
`result`: a misuse records the outcome with no request in flight, so (by the exact
counter) no handler is left that could poll again.

Commit only after `Ok`. `CommitInv` is the argument of the design, spelled out. Requests
are polled in the order in which they were sent (`InOrder`), so the browser has not yet
answered what is still unpolled when the callback runs (`AheadOfBrowser`), so no event
is lost (`NoLostEvent`). A callback that stopped without deciding has either aborted or
a request counted that the browser has not answered (`WaitsForRequest`) or whose stale
closure has aborted or will abort (`StaleAborts`). The browser commits only with
everything delivered, hence only once the callback is `done` (`Decided`, the one part
that needs panics to unwind), and an `Err` aborts in the step that decides.
`FirstPollIsClean` and `Beginning` cover the caller's own poll, where no event handler
turns a panic into an abort.

The scope. `ChannelInv` says that the channel stays armed while the callback can still
run. As `run` resumes only on the channel, the scope lasts as long as the callback
(`ScopeLasts`). When the channel is no longer armed nothing of the callback is
registered (`NobodyLeft`), so the reference count is zero. And whatever disarmed the
channel, other than an `Ok`, has aborted (`WhyResolved`): for a misuse this needs the
exact counter, since only a counter at zero tells `poll_it` of the misuse.

Waking up. `WakeInv` says that an armed channel has a callback, and that a callback between
two polls is owned by a registered request; one of these is awaited if no answer is held
back, and by `NoLostEvent` its event is still to come. This is the safety core of
`RunSettles`: what the fairness of the browser then adds is that the event does come.

A reported `Ok`. The callback may return `Ok` on an aborted transaction, or with requests
in flight. `Blemished` says that an abort leaves a mark on a callback that goes on: a
request that it has not polled, one whose event will not come, or one whose answer makes
it panic. A callback that drops nothing can return only if it lets such a request outlive
it, and then `run` finds the state alive and reports no `Ok` (`OkEffect`). Who returns
with none has taken every answer (`ReturnedEmpty`), so nothing is left that could abort.
The order of awaiting plays no part in this.

The refinement. An abort counts as a decision, whoever aborts, which makes `decision` a
function of `result` and `transaction`. `RunInv` collects the invariants above and adds
that what was recorded is what becomes of the transaction (`EndsInv`). Under it each
action is shown to be one of `AtomicRun`'s eight or a stutter: a panic of the first poll
is `Crash`, one of a later poll a `Refuse`, or nothing if the browser had aborted before.
`CallbackFindsItActive` has an invariant of its own, `AcceptInv`: a callback that waits
finds its transaction open, or aborted with nothing left that could poll it (`WaitsOpen`).

The other components:

| Theorem | States | Assumes |
|---|---|---|
| `CurrentTransaction_proofs!TypeCorrect` | `Spec => []TypeOK` | nothing |
| `CountersAreExact` | `Spec => []CountsOwn` | nothing |
| `PolledWhileActive` | `Spec => []ActiveWhenPolled` | nothing |
| `OnlyWholeTransactionsCommit` | `Spec => []CommitsWhole` | nothing |
| `NestingIsRefused` | `Spec => []NestedNeverCommits` | nothing |
| `AnswersHold` | `Spec => []AnswersAreTrue` | nothing |
| `DeadlockFree` | `Spec => []NoDeadlock` | nothing |
| `DatabaseOpen_proofs!TypeCorrect` | `Spec => []TypeOK` | nothing |
| `VersionIsAsAsked` | `Spec => []OpenedAsAsked` | nothing |
| `AnswersMatchUpgrades` | `Spec => []AnswerMatchesUpgrade` | nothing |
| `ImplementsVersioned` | `Spec => RefinesVersioned` | nothing |
| `SchemaIsReady` | `Spec => []SchemaReady` | `VersionsAreNamed` |
| `NoCallPanics` | `Spec => []NeverPanics` | `UpgradesBehave` |
| `ConnectionsAreOwned` | `Spec => []NoOrphanedConnection` | `CallsAreAwaited` |
| `RangeIsKept` | `InKeyRange(KeyRangeOf(range), k) <=> RustContains(range, k)` | a range and a key over `Nat` |
| `RefusedIsEmpty` | a refused range of valid keys contains no key | the same |
| `CursorWalk_proofs!TypeCorrect` | `Spec => []TypeOK` | nothing |
| `RangesMeanTheSame` | `Spec => []RangesAsInRust` | nothing |
| `StandsWithinRange` | `Spec => []WithinRange` | nothing |
| `MovesInOrder` | `Spec => WalksInOrder` | nothing |
| `NoRecordIsMissed` | `Spec => []NothingMissed` | nothing |
| `NoRecordTwice` | `Spec => VisitsOnce` | nothing |
| `DroppedStepsAbort` | `Spec => DroppedStepAborts` | nothing |
| `PanicsAreKnown` | `Spec => PanicsOnlyOnUnmapped` | nothing |

"Nothing" means the ASSUMEs of the modules alone. Where a property is claimed only until a
future is shared, it says so itself. The three assumptions on databases are independent,
and each excludes exactly what would break its property: `VersionsAreNamed` says that
nobody calls `open_latest_version`; `UpgradesBehave` that no upgrade callback closes its
database or awaits something forbidden, and that no request or commit fails by itself;
`CallsAreAwaited` that no call is cancelled and no database leaked.

Nested transactions. The stack is ordered: each transaction on it was opened after, and
by, the one below (`StackInv`, `WaitedInv`). Without this nothing says that popping the
inner poll makes the outer transaction current again. `OpenInv` is the counterpart of
`CommitInv`: a transaction that the browser still has open is being polled, has an event
coming, has done all it had to, or was trapped with all it has sent in flight. Such a
transaction can therefore commit only if it has sent nothing; the others on the stack of a
trap were in their first poll (`SentInv`), so that nothing they sent had been answered.

What a nested run answers. A trap aborts the transaction whose event handler is running,
and no other. The callback of that transaction is still on the stack, so that nobody has
been answered yet (`PanicVictim`): no answered `Ok` is aborted.

No deadlock. `ProgressInv` says that the browser holds a transaction back only for earlier
ones, that a callback that waits has a request in flight, and that an unanswered `run` of a page
task has a callback that can go on or has trapped; the inner ones are covered by who waits
for them. Of the open transactions the one with the least number
therefore has started; the oldest of its requests is due, or it has none and can commit.
If none is open, the callback of an unanswered `run` that cannot go on waits for a request
in flight; a request in flight keeps its transaction from committing, so the transaction was
aborted, and the failure of that request is due. This is the safety core of `RunsEnd`.

Databases. `QueueInv` says that a client is in the queue at most once and only in the
middle of a call, so that an upgrade, which is the head's, has one owner; `UpgradeInv`
that it has the database to itself; `HolderInv` covers, besides the holders of a database,
those whose success event is still to be seen, since between the event and the task
another client's request may be served. What some usage would break has an invariant of
its own: `SchemaInv` follows the schema through an upgrade, where it differs from the
version; `AbortInv` says that an abort is always the callback's own refusal, recorded
before the event; `ConnectionInv` that a connection belongs to somebody.

The refinement of `VersionedDatabase`. Most actions stutter: while an upgrade runs, clients
see the version before it. Its commit raises version and schema in one step, which needs
that an upgrade does raise the version (`RiseInv`) and that nobody else is connected
(`UpgradeInv`). The task that takes its database is `Acquire`: what it gets is the version
it asked for, by `HolderInv`.

Ranges and errors. `RangesMeanTheSame` takes `RangeIsKept` and `RefusedIsEmpty` to the
entries of a source. `PanicsAreKnown` goes through the actions: for each, the errors it can
meet are shown to have a case in its table, but for the three that have none.

Cursors. `RangeInv` says that the cursor walks in the direction asked for and that `position`
and `target` lie in the range asked for, the latter beyond the former.
`SeenInv` says that every record seen and not written since lies behind the entry that the
cursor is at or moving to, and `UnseenInv` that every record still to be seen lies ahead:
a step to the nearest entry keeps both, a write only takes records out of either. The
proof first reduces each of the steps of the specification to one of a few kinds
(`Kinds`: the walk stays, is opened, stepped, arrives, loses its future, or is aborted)
and shows the invariants for these.

Checked by TLC only. Liveness (`RunSettles`, `OkCommits`, `MisuseIsReported`,
`CallsReturn`, `RunsEnd`) and the fairness part of `RefinesAtomicRun`: the prover does no
ENABLED. `RunCanWake` and `NoDeadlock` are what can be said of two of them without it.

## 6. Plan

Everything planned has been built: the runner and its refinement, the database and its
queue, transactions of one page, and the store with its reads, its upgrades and a cursor.
What could be added is a second cursor or an index handle that outlives its index, and a
client of `DatabaseOpen` that asks for an upgrade while it holds a connection itself.

## 7. Not modelled

* In `TransactionRunner`, the data: a request has an outcome and nothing else. In
  `StoreRequests` a value is its key in one index. Multi-entry indexes, compound indexes,
  in-line keys and key paths, other than a malformed one, are left out, as they are the
  browser's alone; the key
  generator is abstracted to any key above those present.
* More than one cursor at a time, and an `Index` used after `delete_index`.
* `StoreRequests` and `CursorWalk` concern one callback that awaits what it sends, or drops
  a cursor's step. Its other misuses are those of `TransactionRunner`.
* In `CurrentTransaction` a callback awaits each request as soon as it has sent it, and a
  panic is a trap, after which the browser goes on. What unwinding would do to a stack of
  nested polls is not modelled; for one transaction it is, in `TransactionRunner`.
* What a read returns, and the number of results a limit leaves.
* Clients of `DatabaseOpen` hold at most one connection and make one call at a time. A
  task that asks for an upgrade while it holds a connection itself waits for ever; the
  crate has no handler for `blocked` that could tell it.
* Workers. The crate's types are bound to one thread; another worker is another client.
* After a cancelled `run`, polling freed memory has no defined outcome. The model lets
  the callback go on, or panic at any point, and keeps the rest of the state intact.
* `Factory::get`, `cmp` and the accessors, which wrap one browser call each.
