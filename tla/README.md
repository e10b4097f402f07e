# A TLA+ model of omniswap

omniswap is an HTTP proxy that starts inference servers on demand, swaps them
in and out of the GPU, forwards requests to peer nodes, and meters and bills
what it served.  This directory models the parts of it where order, failure
and concurrency decide whether it is correct, checks them with TLC on small
instances, and proves the most important results with TLAPS for every size.

Paths and line numbers refer to the repository; `PROJECT.json` maps every
definition that models code to the lines it stands for.

## 1. The system

| Component | State it keeps | Operations | Correct when |
|---|---|---|---|
| Upstream process (`proxy/process.go`) | state machine of five states, the command, its context and wait channel, in-flight and starting wait groups, semaphore | `ProxyRequest`, `start`, `Stop`, `StopImmediately`, `Shutdown`, TTL goroutine, `waitForCmd` | at most one command runs; *stopped* means none does; no state is stranded; starts and stops end |
| Process groups and swap (`proxy/processgroup.go`, `swapProcessGroup` in `proxy/proxymanager.go`) | a lock and `lastUsedProcess` per group | `ProxyRequest`, `StopProcess`, `StopProcesses`, eviction of other groups, unload handlers | one model of a swap group is up; exclusive groups run alone; no circular wait of locks and drains |
| Pricing (`proxy/pricing.go`, `pricing_config.go`) | rates | `ReserveCost`, `ActualCost` | a hold covers every bill within its bounds |
| Credit gate (`proxy/credit_gate*.go`, `credit_ledger.go`, `allowance.go`) | per key: allowance and its version, reserved, pending, confirmed debits, watermark | `Reserve`, `TrueUp`, `Release`, `Confirm`, `SetAllowance`, `Apply` | nothing is admitted that credits do not cover; each hold is given back once; each debit counts once |
| Debit log (`proxy/debit_emitter.go`, `debit_log.go`) | bounded channel, writer goroutine, fsynced file, ordinals | `Emit`, `run`, `Append`, `Events` (pull), `Close`, `load` | an acknowledged debit survives; an ordinal names one debit; HOME skips none; Close drains |
| Peer routing (`proxy/peerproxy.go`, `peer_affinity.go`, `peer_admission.go`) | in-flight counters, admission semaphores, loaded-state cache | pick under `selectMu`, pinned dispatch, `acquire`, release | counters are exact; caps hold; affinity is a bounded tiebreak |
| Event dispatcher (`event/event.go`) | registry, per group a condition variable and consumers with queues | `SubscribeTo`, `Del`, `Publish`, `Listen` | no wakeup is lost; every subscriber sees its events once and in order |
| Usage meter (`proxy/usage_meter.go`) | rollups, `dirty`, one file | `Record`, `Reset`, `flush`, `persistLoop`, `load` | the file is whole; a reset and what was saved survive a restart; records reach the file |
| Server main (`llama-swap.go`) | `srv.Handler`, `conf` and `err`, the watcher, the debounce timer | the two loads of the start, start of the watcher, reload on a configuration change, shutdown on a signal | a broken file never takes the server down; no proxy manager is left behind; the last document is served; old and new proxy managers do not harm each other's files |
| Configuration (`proxy/config`) | none: a function of a document | `LoadConfig` with macros, ports, aliases, groups, peers, rates | macros expand to what they mean; every model has one group and its own port |
| Log monitor and streams (`proxy/logMonitor.go`, `proxymanager_loghandlers.go`, `apiSendEvents`) | circular buffer, dispatcher, a channel per client | `Write`, `GetHistory`, `Clear`, `streamLogsHandler`, `apiSendEvents` | the history is the tail of the log; a client misses nothing unaccounted for; logging never waits for a client |
| Peer addressing and loaded-state cache (`proxy/peeraddress.go`, `peerModelBias`) | `loadedCache`: a timestamped snapshot of each peer's listing | resolution of `any`, `model@node` and capabilities, bias of a peer, polls of `/v1/models` | what a request believes of a peer is recent; a refusal has a recent reason |
| Scheduler (`proxy/scheduler.go`), rate limiter, metrics monitor, wake-on-LAN proxy | see `PROJECT.json` | | not modelled (section 7) |
| HTTP handlers, CORS, status-streaming writer, UI, test servers | | | not modelled: request rewriting, formatting and user interface |

How they interact.  An inference request is authenticated, resolved to a local
model or a peer, admitted by the credit gate, and dispatched: locally through
`swapProcessGroup`, the group lock and the process; remotely through the pick
and the admission semaphore.  The metrics monitor reads the response, records
usage in the meter, emits the debit event and fills the slot from which the
deferred resolve trues the hold up or releases it.  Processes publish their
state changes through the event dispatcher while they hold their state lock.
HOME, outside the repository, pulls the debit log, and pushes allowances.  A
reload shuts the proxy manager down and puts a new one in its place in the
same program.

What is hard to test, and therefore what the properties are for, is listed
under `hazards` in `PROJECT.json`: goroutines that publish a state before they
finish what it announces, locks given up before the protected work is done,
values read before a lock, faults between two writes, and queues at a limit.

## 2. Modules

| Module | Models | State and actions |
|---|---|---|
| `Process` | one upstream process at the granularity of its goroutines | `state`, `cancelUpstream` and `cmdWaitChan` as the generation (the start) they belong to; one action per step between two accesses to shared state: `StartSwap`, `Publish`, `ExecOK`, `Health`, ..., `WatcherMarksStopped`, `WatcherCloses` |
| `ProcessGroup` | groups, eviction, unloads and TTL over processes reduced to their life cycle | `lock`, `lastUsed`, the `Stop` calls each thread waits for; `Arrive` ... `Release` follow one request |
| `Pricing` | `ReserveCost`, `ActualCost` with int64 wrap-around | operators |
| `CreditGate` | the account of one key, the gate with its panics, HOME | one action per gate or ledger call; `EXTENDS Pricing` |
| `DebitLog` | emitter, writer, file, pull, shutdown, crash, restart | the file is a sequence of whole, torn and bad lines with a synced prefix |
| `PeerRouting` | pick, affinity, pinned dispatch, admission | biases read in one step (`ReadBias`); then, under `selectMu`, one step per load of an in-flight counter (`Lock`, `ReadCount`, `ReadAffine`, `ReadOther`, `Discount`) and the reservation (`Reserve`), between which pinned requests and departures move the counters; `joined` and `left` count those moves |
| `PeerAddress` | addresses, biases and the loaded-state cache | ages of snapshots instead of timestamps; a poll is `CacheMiss`, `PeerAnswers` and one of `Store`, `KeepStale`, `StoreEmpty`; the peers load, unload, go down and come back |
| `EventBus` | abstract: what the dispatcher promises to a subscriber | `subs`, `unseen` |
| `EventDispatcher` | the dispatcher with the publishers and handlers of the proxy | each critical section of the group lock is a step; `cond.Wait` is a state that Broadcast ends |
| `UsageMeter` | meters of successive proxy managers over one file | names and inodes of the two files, so that flushes that share a temporary file share its contents |
| `Config` | `LoadConfig` | operators from a document to a verdict (`Loads`) and a configuration (`Loaded`); a text is a sequence of macro references and literals; `InForce` and `FullExpansion` say what macros mean without the order the loader works in, `Reachable` what every model has |
| `ConfigReload` | the main program: start, watcher, debounce, reloads, signal | the start loads the file twice (`FirstLoad`, `SecondLoad`), installs the manager (`Start`) and only then adds the watcher (`Watch`); `Edit` raises an event only once it is added.  `conf`, `err` and `srv.Handler` are shared by reload goroutines; one action per access to them: `ReadFile`, `Assign`, `CheckError`, `ShutdownBegins`, ..., `New`, `SwapHandler` |
| `ServedConfig` | the main program with the loader | whether a document loads is the loader's verdict; the properties of the configuration that is served |
| `LogStream` | the log monitor and its two streams | the buffer with its head and size; `BufferChunk` and `BroadcastChunk` are separate steps; per client the subscription, its channel and where the handler is |
| `MC*` | instances for TLC | |
| `*Proofs` | TLAPS proofs; `CreditGateProofs` also holds those about `Pricing`, `EventDispatcherProofs` those about `LogStream`, whose dispatcher it is, and `ConfigReloadProofs` those about `Config`, which a reload loads, and `UsageMeter`, whose meters it replaces | |

The constants, variables and actions of `LogStream` and `UsageMeter` have names
of their own (`LogSpec`, `MeterSpec`, `windows`, ...), so that one module of
proofs can extend two components.

Composition: `CreditGate` uses `Pricing`; `EventDispatcher` is shown to
implement `EventBus`; `ProcessGroup` uses processes at the level of states,
which `Process` justifies (`StoppedMeansExited` says what a stopped model
means for the GPU).  `LogStream` uses `EventBus` as its dispatcher, with a bound
on the queues, in place of `EventDispatcher`.  `ServedConfig` composes
`ConfigReload` with `Config`: whether a document loads is the loader's verdict.
The log `CreditGate` walks is the one `DebitLog` keeps.

What the models leave out on purpose:

- `Process`: the errors of `start` before it swaps the state (an empty
  command) and the error of joining the health URL, which is unreachable after
  configuration loading.
- `ProcessGroup`: `ProxyManager.StopProcesses` is `UnloadGroup` of all groups in
  parallel.  A slot of the concurrency limit is taken and given back in one step
  with the in-flight count.
- `CreditGate`: one key, since keys share nothing; the gate switched on; the
  anomaly counters.  The debit event of a completion without usage carries no
  tokens while the ledger bills the hold; the log entry stands for the cost
  `Confirm` is called with, which its contract makes the billed one.
- `PeerRouting`: the biases of a request are read in one step; since a poll may
  change any of them at any time before it, every mixture is read anyway.  A
  single candidate is counted without `selectMu`, which is what `Pin` does.
  How a conversation key is derived from a request body is a model value.
- `PeerAddress`: aliases and sizes; a capability is the set of models whose
  signature satisfies it; the syntax of addresses, whose errors change no
  state.  Local computation takes no time, a poll at most `Timeout`.  The age
  of a snapshot stops growing beyond `2 * TTL`, the largest one the code tells
  apart.  The histories `idle`, `hot` and `quiet` exist for the properties.
- `CreditGate`: the freshness of an allowance, which no code of the gate reads
  (section 5).
- `EventDispatcher`: `maxLen`, which is recomputed under the lock before each
  use; `Readers` and other subscribers share one group, a superset of what the
  event types have.
- `UsageMeter`: power loss (the code never syncs this file), a configuration
  without a usage file, and marshalling errors, which these types cannot have.
  One write of the file is one step.

- `Config`: yaml.v3, environment values (`env` is the set of variables a
  document mentions), the length limits of macros and types other than text;
  `metadata` stands for all texts nested in it.  A comment line is a token that
  mentions a macro; comment lines stand in `cmd` only.
- `ConfigReload`: the program runs with `-watch-config` and can watch the
  directory (otherwise it logs the failure and never reloads).  The loads of the
  start read and assign in one step, because nothing else uses `conf` yet.  The
  watcher's event is one step behind the edit; a proxy
  manager is its configuration and its life, and its `Shutdown` is two steps
  around the lock.  The interval of the debounce is not timed: the timer fires
  at any moment after it was armed.
- `LogStream`: one monitor (`apiSendEvents` follows two); the other messages
  that share the channel of `apiSendEvents`; log levels and time stamps.

## 3. What the runs check

All runs use a handful of model values per set.  Each bound is a named
constant.  Where the code keeps a promise only outside certain windows, the
property names them; in `usage`, for instance, removing any one window from any
one property makes TLC refute it.

| Run | Bounds | Shows |
|---|---|---|
| `process` | 2 reusable requests, 1 stopper that may stop and shut down repeatedly, 2 starts, TTL | `AtMostOneUpstream`, `StoppedMeansExited`; `ShutdownSticks`: only a start or a command that Shutdown met may leave its state; `TransientStatesEnd` and `StopCommandReturns` outside two windows (`Overlooked`, `NobodyCloses`) |
| `process_wait_chan` (violation) | as above, no TTL | `WaitChanMeansExited` fails |
| `group` | 4 models: two in a swapping exclusive group, one in another exclusive group, one in a persistent group; a concurrency limit of 1 for the last and of 2 for the others; 2 requests, 1 unload, TTL on one model, crashes; started fresh or after a model was used | `OneModelUnlessRaced`: two models of a swap group are up only after one of three windows; `ExclusiveUnlessRaced`: two groups that exclude each other are up only after one was started beside a request that had stopped it, or was still stopping; `CallsReturn`: no circular wait |
| `credit` | 2 requests, 3 rates (one dropped), 2 grants, 2 snapshots, panics everywhere, drops, replays | `NoOverspend`, `BalanceIsHonest` (never overstated, exact at rest), `ReservedIsHeld`, `HoldCoversBill` |
| `debit` | 3 events, channel of 2, 2 crashes, 1 clean shutdown, all faults | `AppendedSurvives`, `SeqNeverReused`, `NothingSkipped`, `CleanShutdownPersists`, `EmitterProgresses` |
| `debit_torn_write` (violation) | 3 events, 1 kill, failed writes | `DebitSurvivesRestart` fails |
| `peer` | 2 peers, 3 requests, cap 1, bonus 2, biases 0 and 3, up to 2 pins to one peer during one pick | `CountsAreExact`; `CapHolds`: no peer serves more than its cap, and a count below it means a free slot (`RoomIsReal`); `AffinityIsBounded`: the peer about to be reserved is within the bonus of the best rank, up to the pins to it and the departures from the other during this very pick |
| `address` | 2 peers, 2 models, 2 requests, lifetime and timeout of one unit, 1 change of the peers and 1 failed poll of a peer that is up | `WarmIsRecent`, `LoadedIsRecent`, `RefusalIsJustified`, `UnreachableIsEarned` |
| `events` | 2 models, 2 consumers (one reads model states), queues of 2 | `NoLostWakeup`, `ImplementsBus`, `BusProgresses` |
| `usage` | 2 requests, 1 reset, 3 proxy managers, 1 kill, failed writes | `FileIsWhole`, `ResetSurvives`, `SavedStays`, `RecordsArePersisted` outside four windows |
| `reload` | 3,514 documents to start from, 840 of which load (macros, ports, groups and aliases of up to two models, and one document for each remaining check), 3 edits among three documents, one of them broken, at any point from the first load on, 2 overlapping reloads, 4 managers, a signal | `ExpansionIsFull`, `ModelsAreReachable` for every document; `ServesALoadedConfig`, `NoManagerLeftBehind`, `ServesTheLastDocument` unless reloads overlap each other or the shutdown, the last one also unless the last edit came between the last read of the start and the watcher (`unwatched`) |
| `logs` | 2 writers, 3 chunks of 2 or 4 bytes, a buffer of 3 bytes, one client of either stream, a channel and queues of 1, clears, disconnects, shutdown | `HistoryIsTheTail`, `NothingGoesPast`, `WritesReturn`, `StreamsEnd` |

Why the bounds are enough: two starts are what a channel or context of the wrong
generation needs; in `group`, a model that was used before stands for the third
request that a displaced model, its displacer and a late fast-path request need;
three events fill a channel of two; three proxy managers are a reload and a
restart. Two reloads and a signal are what every overlap of reloads needs, and a
third edit can hit each phase of them. In `peer`, a third request moves a
counter while one picks and another waits for the lock, and two pins (`MaxPins`)
are all that the other two requests can add to one peer; three by-name requests
on two peers with a cap of 1 fill both and queue the third. Two lists of up to
two macros each, global ones and the model's, hold every order in which two
macros are defined and use each other, overriding included; 67 of the documents
that load use a macro before it is defined. Chunks of 2 and 4 bytes in a buffer
of 3 fit, wrap around and exceed it; one chunk fills the channel and another the
queue behind it, and the streams of two clients share nothing but the writers
they must not block. In `address`, two requests are what overlapping polls need,
one change between a poll's answer and its storage makes it stale, and `Horizon`
lies above every age a property compares with, so that no history is cut short.

Types are proved for `Process`, `ProcessGroup`, `CreditGate` (if prices fit),
`DebitLog`, `PeerRouting`, `PeerAddress`, `EventDispatcher`, `LogStream`,
`UsageMeter` and `ConfigReload`; `EventBus` needs none, since the refinement
relates its state to that of `EventDispatcher`.

Runs without deadlock checking are those in which the bounded inputs are used
up, or in which a start limit is reached: the server then simply idles.  The
`peer` and `address` runs have no such end and are checked for deadlock.

Symmetry is used over interchangeable requests in safety runs only.

### Fairness

- `Process`, `ProcessGroup`: a goroutine that can run does; a cancelled command
  is killed in the end (`gracefulStopTimeout`); an unhealthy start times out
  (`healthCheckTimeout`, strong fairness because the probe loop toggles it);
  the upstream answers; `sync.Mutex` does not starve a waiter.  Nobody has to
  send a request, stop a model or crash.
- `DebitLog`: the writer goroutine and the shutdown that waits for it run on.
- `EventDispatcher`: woken publishers and listeners run; nobody has to publish,
  subscribe or leave, so `IdleConsumerEnds` assumes further publications
  explicitly.
- `ConfigReload`: the start loads the file, goes on and comes to add the watcher
  (no step of it waits for anything); watcher events are delivered, an armed timer fires, reload
  goroutines and the shutdown run on, managers shut down.  Nobody has to edit
  the file or send a signal.
- `LogStream`: writers, handlers and subscribers run; a client need not read
  what it is sent, but a write to a client that is gone returns.
- `UsageMeter`: `persistLoop` wakes up for ever and a flush runs on.

## 4. What is proved

Every theorem below holds for every value of the constants.

| Theorem | States | Argument |
|---|---|---|
| `ProcessProofs!TypeCorrect` | types, any number of goroutines and starts | by action |
| `ProcessProofs!UpstreamSafety`, `StoppedMeansExitedAlways` | `AtMostOneUpstream`, `StoppedMeansExited`, `StateHasOwner` | ownership: a start that won the swap owns the process until it launched, then the `waitForCmd` of that command does; `IInv` adds to the types that there is at most one owner, none in *stopped*, that a running command is watched and that a launch has its generation.  The properties alone are not inductive: nothing in them says that the `starting` state belongs to one start |
| `ProcessProofs!ShutdownIsFinal` | `ShutdownSticks` | from the types and the same lemmas: a step that keeps the owners moves the state only between *starting*, *ready* and *stopping*, or to *shutdown*; the steps that do not are those of an owner |
| `ProcessGroupProofs!SwapGroupRunsOne`, `TypeCorrect` | `OneModelUnlessRaced`, any models, groups and settings, any number of requests and unloads | in a swap group no window was hit in, a model that is up is the one used last or that of the request holding the group lock (`UpIsUsed`), and `OldModel` says what that request knows of the model it stops, for each phase of `Stop`; below it, who holds which lock and that a start belongs to one request in flight |
| `ProcessGroupProofs!ExclusiveGroupsRunAlone` | `ExclusiveUnlessRaced` | `StoppedStaysDown`: a group that a request in progress has stopped stays down, unless `beside` notes it |
| `CreditGateProofs!ReserveCoversActual` | `ReserveCost` covers `ActualCost` of every completion within the bounds | monotonicity of rounded-up division, *assuming the products fit in int64*: the code does not bound the rates |
| `CreditGateProofs!HoldsGivenBackOnce` | `ReservedIsHeld`, any number of requests, *any* prices | every step changes at most one request, and `reserved` by what it changes in the sum of the holds |
| `CreditGateProofs!HoldsCoverBills` | `HoldCoversBill`, if prices fit | a hold is the `ReserveCost` of the price it keeps (`Shape`), then `ReserveCoversActual` |
| `CreditGateProofs!CreditsNeverOverspent`, `BalanceHonestAlways`, `TypeCorrect` | `NoOverspend`, `BalanceIsHonest`, types, if prices fit; any grants, snapshots, losses, repetitions and replays | `Ledger` says where a logged debit is: up to the watermark in the allowance, then up to `confirmedHigh` in `confirmedSum`, beyond that in `pending`, in the hold of its request or in a bill never trued up; and that snapshots agree on a prefix of the log, newer ones on a longer one.  `NoOverspend` alone is not inductive: nothing in it relates the balance the next `Reserve` sees to the log |
| `DebitLogProofs!AcknowledgedSurvives`, `TypeCorrect` | `AppendedSurvives`, any events, channel size, faults, crashes and shutdowns | `AppendedDurable`: an acknowledged event has a whole line, with only whole lines before it, in the synced part of the file; `FileTail` adds what fragments there are and that the line waiting for its fsync ends the file |
| `DebitLogProofs!OrdinalsNeverReused`, `CursorSkipsNothing` | `SeqNeverReused`, `NothingSkipped` | `Numbered`: the n-th whole line has ordinal n, the memory is the prefix of the file of length `seq`, and what HOME has is the prefix up to its cursor; a restart reads the same prefix |
| `DebitLogProofs!ShutdownPersists` | `CleanShutdownPersists` | `Accounted`: an emitted event is in the channel, with the writer, appended or counted; `ShutdownOrder`: the log is closed only after the channel is empty and the writer has left |
| `PeerRoutingProofs!AdmissionSafety`, `CountsAreExactAlways` | types, `CountsAreExact`, `RoomIsReal`, `CapHolds`, any number of peers and requests and any cap | `IInv` adds that the holders of slots are the requests being served and fit the cap; a counter below the cap then leaves room |
| `PeerRoutingProofs!AffinityIsBoundedAlways` | `AffinityIsBounded`, any biases, bonus and cap | `PicksInv` says of the one pick under `selectMu` (`OnePick`), at each of its steps, what the values it has loaded still tell about the counters: they are off by at most the pins and departures since the lock was taken, because another pick cannot reserve meanwhile.  `OthersDrift` shows this for the steps of other requests, one lemma for each step of the pick that it loads or compares what the next one needs; the property alone speaks only of the last step |
| `PeerAddressProofs!LoadedIsRecentAlways`, `WarmIsRecentAlways`, `UnreachableIsEarnedAlways`, `TypeCorrect` | what a request believes of a peer is recent, any number of peers, models and requests, any lifetime and timeout | `IInv` says of every snapshot, cached, in a poll or kept by one, that what it says was so at most its age and one poll ago; the properties speak only of the snapshots a request may use now and say nothing of one that is still under way.  `Tick` adds at most one to both sides, every other step only sets histories back |
| `PeerAddressProofs!RefusalIsJustifiedAlways` | `RefusalIsJustified`, under the same generality | `WalkInv`: a peer the walk has passed lacked what is asked for at most one lifetime, one poll for it and for each peer since, and the wait of the present poll ago; the property speaks only of the end of the walk |
| `EventDispatcherProofs!WakeupSafety` | `NoLostWakeup` and the queue limit, any number of models and consumers | `IInv` adds that a batch is in work exactly while its consumer is outside the lock, and that a listed consumer has a goroutine; without it the last notifier of a sleeping publisher could vanish |
| `EventDispatcherProofs!Refinement` | `EventDispatcher` implements `EventBus` | mapping: unseen events are the rest of the batch followed by the queue; swapping the two leaves it unchanged |
| `ConfigReloadProofs!NeverServesABrokenConfig`, `TypeCorrect` | `ServesALoadedConfig`, any documents, any verdicts of the loader, any number of edits, reload goroutines and managers | `ConfInv` adds that no reload runs before the program serves and that what the start installs has loaded (`StartIsAlone`), that two reloads are never in progress together and that, past the check of `err`, `conf` is a document that loads; the property alone says nothing of a manager that is not yet installed |
| `ConfigReloadProofs!ReloadLeavesNoManager` | `NoManagerLeftBehind`, under the same generality | `LiveInv` adds which manager is alive at each position of the one thread that runs: the handler until its shutdown ends, then none, then the new one |
| `ConfigReloadProofs!ExpansionAlwaysFull`, `SubstitutedIsFull` | `ExpansionIsFull`, any documents, model IDs and macros, texts of any length | `MergedIsInForce`: the merged list holds the macros in force, none twice.  If the pass leaves no reference to a macro, it is the full expansion (`OnePassIsFull`): before each of its steps the text needs one expansion more than after it, so that the text it began with needs no more than there are macros (`ReplaceFirst`).  It leaves none in a document that loads, because the loader refuses what is left (`LoadedIsFinal`), and none when macros are defined before they are used, because a value that is put in refers to macros whose turn is still to come (`InOrderIsFinal`) |
| `ConfigReloadProofs!ServedIsReachable`, `LoadedIsReachable` | `ModelsAreReachable`, any documents and any number of edits and reloads | `NeverServesABrokenConfig` and, for every document that loads: ports are counted up along the sorted models that use one, so that of two such models the later one has the higher port (`PortsDiffer`); the default group takes exactly the models no other group has, and the loader refuses a model that two groups have (`OneGroup`) |
| `ConfigReloadProofs!FileAlwaysWhole`, `MeterTypeCorrect` | `FileIsWhole`, types of `UsageMeter`, any number of requests, resets, proxy managers and kills | `FileInv`: without overlap one flush at a time is between marshalling and renaming; its open file is the one the temporary name names, truncated or holding the marshalled rollup, and that name never names the inode of the usage file.  The property alone does not say what the rename will put in place |
| `ConfigReloadProofs!SavedAlwaysStays` | `SavedStays`, under the same generality | `SavedInv`: what was saved and not reset is also in the newest meter, which every restart and reload loads from, and in the bytes of the flush under way |
| `ConfigReloadProofs!ResetAlwaysSurvives` | `ResetSurvives`, under the same generality | `ResetInv`: from the moment a meter was marshalled after the reset, by whichever flush, no meter, no bytes under way and, when nothing is under way, no file holds what was reset (`Forgotten`); until then the meter is dirty.  Only recorded requests are anywhere (`KnownInv`), so a late `Record` cannot bring one back |
| `EventDispatcherProofs!HistoryAlwaysTheTail`, `LogTypeCorrect` | `HistoryIsTheTail`, types of `LogStream`, any buffer size, writers, clients and chunks of any length | `RingInv`: where the i-th newest byte lies follows from the head alone; `Write` keeps it in each of its three cases (a chunk that fits, that wraps around, that is longer than the buffer) |
| `EventDispatcherProofs!NothingEverGoesPast` | `NothingGoesPast`, any number of clients and limits of channels and queues | `StreamInv`: a client that follows listens, and the chunks owed to it are covered from the step that read the history on, also while it is still before the subscription or flushes; each step moves a chunk from one place where it is accounted for to the next |

The assumptions are the named `ASSUME`s of the modules; TLC evaluates them in
every run. They say that bounds are numbers, that the sets of requests, unload
calls and models of `ProcessGroup` are disjoint (they are goroutines of
different kinds) and concurrency limits positive, that "no event" is no event,
"no buffer" no buffer and "no file" no inode, that the resets of `UsageMeter`
are finite and no `persistLoop`, that model IDs are sorted without repetition,
that documents have the types yaml.v3 delivers and load when `LoadConfig`
returns no error for them, and that the requests of `CreditGate`, over which it
sums, are finite. That prices fit in int64 (`PricesFit`) is no assumption of the
model but a hypothesis of the theorems that need it, because the code does not
check it; `MCCreditGate` has TLC evaluate that it holds in the `credit` run, so
those theorems speak of that instance too.

The sums of the credit account are the community modules' `SumFunctionOnSet`,
a fold that takes elements in an arbitrary order.  The induction theorems of
the library cannot be instantiated by the installed provers, so
`CreditGateProofs` takes a least counterexample instead: among the finite sets
for which a sum is not what it should be there is a smallest one
(`LeastSubset`), and removing one element of it gives a smaller one.
`DebitLogProofs` finds the largest ordinal of a file, and the longest prefix
that `load` accepts, in the same way.  The loops of the loader are recursive
functions on the positions of a list; `ConfigReloadProofs` shows that each
exists (`IteratesExists`) and takes the least position where a fact about it
would fail (`UpTo`).

Only model-checked:

- all liveness properties: the prover has no fairness reasoning.

Every other property of the runs is stated by a theorem.

## 5. Findings

Each is shown by a violation run and quoted in `PROJECT.json`.

1. `process_wait_chan`: `waitForCmd` sets *stopped* before it closes
   `p.cmdWaitChan`.  A start in between installs its own channel, which is then
   closed while its command runs; the second close panics.
2. `debit_torn_write`: a short write leaves a fragment, the next append merges
   with it, and `load` drops a debit that was acknowledged.

Further behaviour met while modelling, without a run of its own:

- `process.go:404`: after `Shutdown`, the `waitForCmd` of a command that it met,
  or a failed launch that was under way, sets *stopped* again, and a request can
  start the model; the comment says that a process in this state "can not be
  started again".  `ShutdownSticks` names the two.
- `processgroup.go:81`: the fast path of a swap group gives up the lock before it
  proxies, so a request may restart a model the group swapped away from, and two
  models run; `docs/configuration.md:373` says "only one model is allowed to run
  at a time".  It is one of the windows of `OneModelUnlessRaced`.
- `process.go:382`: `Stop` drains and swaps afterwards; a request admitted in
  between is cut off.
- `process.go:411`: `Shutdown` may wait for the channel of a command that was
  never launched (`NobodyCloses`); `process.go:394`: a command that was marked
  ready by an earlier start may keep *stopping* (`Overlooked`).
- `process.go:185`: events are emitted under `stateMutex`; with a full queue
  this is a circular wait with a handler that reads model states (`Entangled`,
  the exception of `PublishReturns`).  The queue holds 50000 events, so it
  needs a handler stuck for long.
- `process.go:215`: `forceState` emits no event, so the UI keeps showing a
  crashed model as ready; `proxymanager_api.go:335`: the first push of model
  states may overtake a newer one.
- `proxymanager.go:588`: exclusive eviction is not atomic with the start that
  follows, unlike `docs/configuration.md:379`: an evicted group that is started
  meanwhile stays up beside the exclusive one, even when all requests are done
  (`beside` of `ExclusiveUnlessRaced`).
- `llama-swap.go:90`: reloads that overlap share `conf` and `err`.  A broken load
  in one can clear the configuration that the other passes to `New`, which then
  serves no models; both may replace the same manager, and the first successor
  is never shut down; the older document may win.  `llama-swap.go:180`: a signal
  during a reload shuts the old manager down and exits with the new one, and its
  models, running.  These are the values of `overlap` in `ConfigReload`.
- `config.go:405`: a model macro that overrides a global one takes its early
  place, so that it cannot use a macro defined after it, although
  `docs/configuration.md:183` only asks for definition before use; such a
  document is refused with "unknown macro" (`UsedTooEarly`).  In `cmdStop` what
  is left of a macro named `PID` is not refused but later replaced by the process
  ID, and two global macros of one name are accepted, of which the later one is
  substituted first: `ExpansionIsFull` speaks of neither.
- `config.go:647`: a group the user names `(default)` is overwritten, and its
  members are in no group (`hidden` in `ModelsAreReachable`).
- `proxymanager_loghandlers.go:51`: a chunk that is broadcast between the history
  and the subscription never reaches the client; a chunk buffered before the
  history is read and broadcast after the subscription reaches it twice, as it
  can in `apiSendEvents`.  `:78`: a handler that is blocked in a write to a slow
  client does not notice the shutdown of the server (`StreamsEnd`).
- `debit_log.go:136`: after a failed fsync the ordinal is used again; `:194`:
  `load` accepts a line that was never synced; `debit_emitter.go:88`: `Emit`
  after `Close` is not counted; `debit_emitter.go:30`: a dropped debit stays in
  pending.  The windows of `DebitLog` and the terms of `ExactAtRest` name them.
- `credit_gate_wiring.go:72`: the prompt bound counts `messages` and `prompt`
  only; a request whose prompt also renders `tools` may exceed it, and the bill
  is then clamped to the hold.
- `credit_gate.go:95`: `admit` never asks for the freshness of the allowance,
  although `allowance.go:88` says that the gate fails closed on an expired one;
  only tests call `Freshness`.
- `peeraddress.go:457`: a stale snapshot is kept without a new timestamp.  While
  a peer is down, every request polls it, and `any` keeps resolving to what it
  had loaded, for as long as the polls fail; the comment at line 440 says "for
  one more cycle" and that a down peer "isn't hammered every request".  Only
  `peerModelBias` limits the age, which is what `WarmIsRecent` shows.
- `peeraddress.go:460`: a first poll that fails stores an empty snapshot over
  one that another request stored meanwhile; `UnreachableIsEarned` bounds how
  long it lasts.
- `peerproxy.go:477`: the in-flight counters of a pick are loaded one after the
  other.  When a request leaves the other peer, or a pinned one joins the affine
  peer, after the best rank was formed (`:442`) and before it is compared, the
  affine peer wins although its rank exceeds the best one by more than the bonus;
  the comment at line 455 says that it "can never".  `AffinityIsBounded` says by
  how much: twice the pins to the one and departures from the other during the
  pick; without that allowance TLC refutes it in the `peer` instance.
- `llama-swap.go:145`: the goroutine that watches the file adds its directory
  after the start has read the file (`:110`).  An edit in between raises no event:
  the old document is served until the next edit, and for ever without one,
  although the help of `-watch-config` (`:35`) says "on change".  It is the
  exception `unwatched` of `ServesTheLastDocument`.
- `peerproxy.go:442`: four more requests in flight outweigh the bias of an
  unreachable peer.
- `usage_meter.go`: a reset that meets a running flush answers before the file
  is written, or is undone by the older rollup; two flushes on one temporary
  file can leave an empty one under the real name; a failed write is not
  retried; after a reload the old `persistLoop` never ends and may overwrite
  what its successor saved.  These are the windows `overlap`, `failed` and
  `older` of `UsageMeter`; the comments at lines 124, 364 and 383 promise more.

## 6. Plan

Done, in this order: `Process`, `ProcessGroup`, `Pricing` and `CreditGate`,
`DebitLog`, `PeerRouting`, `EventBus` and `EventDispatcher`, `UsageMeter`,
`PeerAddress`, `Config` and `ConfigReload`, `LogStream`, with the proofs of
section 4, which cover every safety property of the runs.
What remains is to prove the liveness properties in a prover that has them.

## 7. Not modelled

- `scheduler.go`: the serverless ranker is constructed and never called.
- `rate_limiter.go` and the history of `metrics_monitor.go`: one critical section
  per operation, nothing shared with other components.
- `cmd/wol-proxy`: a separate program; it could have a module of its own.
- The HTTP handlers around the modelled operations, authentication and CORS
  headers, the status-streaming response writer, the UI, test servers and
  benchmarks: transformations of one request or response, or user interface.
- The derivation of a conversation key from a request body
  (`peer_affinity.go`): a hash of text, a model value here.
