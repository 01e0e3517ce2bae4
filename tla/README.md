# NekoEcat: a TLA+ development

NekoEcat is an EtherCAT engineering workstation for the IgH master. It is two
programs and a library: **ecat-studio**, a Qt user interface; **ecatd**, a
daemon that talks to the master; and a C client library for programs that
exchange process data with the daemon's cycle. This directory models the parts
of them that run against each other: the shared-memory data plane, the request
protocol with its timers and reconnects, the pool of asynchronous operations of
the studio, the masters the daemon's parts reserve, the daemon's handlers that
keep something between calls, and what the studio's main window shows and writes:
the online view, the SDO workspace, Free Run and the RT test.

Paths below are relative to the repository's root, shortened where there is no doubt:
`client.c` is `client/nekoecat_client.c`, `EcatClient.cpp` is
`apps/ecat-studio/infra/EcatClient.cpp`, `MainWindow*.cpp` are in
`apps/ecat-studio/` and its `workspaces/`, the controllers are in `apps/ecatd/`.

## 1. Inventory

| Part | Keeps | Does | Talks to |
|---|---|---|---|
| FreeRunController (`apps/ecatd`) | `running_`, the cycle thread, the reserved master, the domain, the PDO layout, the shm object | start, stop, `loop` (receive, mirror, queue, send each 1 ms, SCHED_FIFO), telemetry | IgH library; C clients through shm |
| shm mirror (`freerun_shm_mirror.cpp`, `src/core/nekoecat_shm.h`) | header and two buffers of `/nekoecat_proc_0` | copy the domain to the inactive buffer, overlay the outputs, flip, bump `version` | the cycle thread; clients, with no lock |
| C client (`client.c`) | socket, mapping, layout | attach, read, wait, write, get_state, disconnect | daemon by RPC (layout) and by shm (data) |
| RtTestController | `running_`, thread, master, statistics | start, stop, loop | IgH library |
| EcatDaemon, CommandDispatcher | connections with reassembly buffers, backend, handlers, two poll timers | accept, frame, dispatch, reply; AL poll each second, DC poll each 500 ms | studio over newline-delimited JSON on TCP 5877 |
| Protocol handlers (`apps/ecatd/handlers`) | AL event log, signal channels, redundancy history, phase of an online change | one command each; AL and DC polls | backends |
| IgH adapters (`src/igh`) | none (CLI), a master handle (native) | run `ethercat`, parse its text; native calls | IgH |
| EcatClient | socket, `nextId_`, `handlers_`, `requestTimestamps_`, `buffer_`, three timers, failure counters | connect, send, handleLine, sweep, heartbeat, reconnect | daemon; services by signals |
| AsyncOperationManager | operations, queue, running count, retained list | execute, cancel, cancelAll, completion, eviction | `QThreadPool`; callers by signals |
| SDO workspace of the window (`MainWindowSdoWrite`, `...StartupSdoWorkspace`, `...WatchWorkspace`, `...Wiring`) | `pendingSdoReads_`, `...Writes_`, `...Verifications_`, `pendingStartupSdoChecks_`, the evidence shown, the startup table | write with read-back, watch reads, verify and apply startup rows, flush | EcatClient; SdoService on the same connection |
| Online view (`MainWindow`, `MainWindowTopologyUi`, `...SdoSelection`, `...Settings`, `...ProjectIo`) | `slaves_`, the tree and its current item, the loaded texts, the active master | select, jump, switch the master, open a project, confirm a write, refresh | EcatClient |
| Free Run and RT test views (`MainWindowFreeRunWorkspace`, `...RtTestWorkspace`) | `freeRun_`, `rtTestRunning_`, the toolbar action | start, stop, confirm, poll | EcatClient |
| SDO services | pending operation, value cache, batches, watch list | read, write, cache, evict | EcatClient |
| State services | local state per slave, transitions, safety and watchdog settings | request a state, validate, time out | EcatClient |
| Other services, plugins, views | lists for one view each | presentation | services, EventBus |
| Core types (`src/core`) | none | JSON frames, ENI text | everyone |

What is hard, by where it happens:

* **Two processes, no lock.** The cycle thread writes the buffers that clients read
  and write. Only the two atomics `active_buffer` and `version` order them.
* **Threads of the daemon.** RPC handlers run one after the other on the main
  thread; the two cycle threads run beside them and may end by themselves. `stop()`
  joins them and then writes the same header.
* **Things that outlive their maker.** A shm object outlives its name, the name
  outlives a killed daemon, bytes of a cut frame outlive their connection, a late
  reply outlives its request, a worker outlives the cancellation of its operation.
* **Timers that meet.** Heartbeat, pong check and sweep share two variables;
  connect timeout, reconnect timer and the singleShot after each attempt share
  three. All run on one event loop in any relative phase.
* **Answers matched by content.** The window takes a value for whatever is pending
  for its object, a text for the slave that is selected now, a status for the
  present run; and a request that fails is answered with an empty result, which most
  handlers take like any other.
* **Dialogs.** A confirmation is modal for the user and not for the network: replies are
  handled while it is open, and what it asked about is read again after it.
* **Commands that return early.** A state request returns before the slave has moved; a
  handler with several commands may have done some when one fails.

What makes each part correct: a read that succeeds is one published image, no
older than the call; a write is sent and kept; a client never takes an ended
session for a live one nor reads with a foreign layout; a master reserved is one
that will be released, and a cycle thread drives its own master; a request is performed at
most once and answered exactly once with its own answer; a silent daemon is
noticed and a busy one is not; a client that lost its daemon comes back; no slot
of the pool is lost or given twice, and a worker reads no freed operation; what is
shown as under way is waited for, what is shown as verified was read back, what is
loaded is of the slave selected, and what is shown comes to agree with the bus and with the
daemon while the connection holds; a fault is logged before it is taken for known, and what an
online change leaves behind is what it tells.

## 2. Modules

| Module | Models | State and actions |
|---|---|---|
| `ShmSnapshot` | abstract: a register of whole images | `image`, and per reader `rstate`, `since`, `result`; Publish, Begin, Return, Fail, End |
| `ShmMirror` | `mirrorToShm`, the loop and `stop()` of FreeRunController, `read_raw_at`, `wait_next_cycle`, `write_raw_at` | every load, store and word of a memcpy is a step; `dpc`, `spc`, `rpc[r]`, `wpc[w]` are the program counters |
| `ShmOutputs` | the output direction: the steps of `ShmMirror` with history of each store | `quiet`, `expect`, `due`, `last`, `age` are histories; no step is added or removed |
| `ShmSession` | the life of the shm object over sessions and crashes; attach, get_state | `name`; `length`, `headers`, `image` of each object; `fetched`, `info`, `object`, `valid` of the client |
| `SharedMemory_proofs` | theorems about `ShmMirror`, `ShmOutputs` and `ShmSession` | |
| `MasterLease` | who holds which master: both controllers with their threads, the cached master of the native backend (`MasterGuard`), `setBackendMode`, another program | `owner`, `running`, `thread`, `master`, `active`, `native`, `cached`; `terminated` and `lost` are histories |
| `CycleView` | `setFreeRun` with its confirmation, the buttons of the RT test, `requestRefresh`, the switches of the master, the handlers of the answers; the freeRun and rtTest handlers of the daemon, other clients | `freeRun`, `rtTest`, `checked`, `confirm`, `target`; requests in `flight`, given up (`failing`) or performed after their connection (`orphans`) |
| `CycleView_proofs` | theorems about `MasterLease` and `CycleView` | |
| `RequestContract` | abstract: what a caller of EcatClient relies on | `issued`, `done`, `outcome` |
| `EcatRpc` | `send`, `handleLine`, sweep, flush on disconnect; the daemon's framing and dispatch | `handlers`, `buffer`, frames in each direction, `orphans` |
| `EcatRpc_proofs` | theorems about `EcatRpc` | |
| `EcatHeartbeat` | ping timer, pong check, sweep | `heartbeat`, `check`, `sweep`, `pendingPing`, `consecutiveFailures`, ages of the pings `waiting` |
| `EcatReconnect` | connect timeout, reconnect timer, singleShots, back-off | `state`, `socket`, the timers, `interval`, `failures` |
| `EcatTimers_proofs` | theorems about `EcatHeartbeat` and `EcatReconnect` | |
| `DaemonHandlers` | AlEventHandler with its poll, OnlineChangeHandler, RedundancyHandler, DcSyncHandler, the state requests, `setBackendMode` | the bus (`state`, `asked`, `object`), `previous`, `events`, `change` (the locals of `handleApply` while it runs), `history`, the clock flags; `wanted` is a history |
| `DaemonHandlers_proofs` | theorems about `DaemonHandlers` | |
| `OnlineView` | `updateSlaves`, `setSelectedSlave`, the selections that load and those that do not, `clearOnlineViews`, projects, `writeCurrentSdo` up to its send | `slaves`, `tree`, `current`, `label`, `loaded`, `dialog`; requests in `flight` with their answers |
| `OnlineView_proofs` | theorems about `OnlineView` | |
| `SdoWorkspace` | upload, download, applyStartupSdos at both ends; the pending maps, the evidence, the startup table, the write field, the flush | `reads`, `writes`, `verifications`, `checks`, `evidence`, `rows`, `field`; `performed` and `verdict` are histories |
| `SdoWorkspace_proofs` | theorems about `SdoWorkspace` | |
| `AsyncOps` | the whole AsyncOperationManager | `state`, `queue`, `runningCount`, `worker`, and `pc` of the manager's thread inside `onOperationFinished` and `processQueue`; `abandoned` is a history: the operations `cancelAll` deleted under their worker |
| `AsyncOps_proofs` | theorems about `AsyncOps` | |

`SharedMemory_proofs` and `EcatTimers_proofs` are about modules that run side by side, so the names of
`ShmSession` and `EcatHeartbeat` are their own (`SessionSpec`, `HeartbeatSpec`, ...).

An `MC...` module extends one module and holds what its configurations need. Two of them bring modules together
that do not act on one another: a behaviour of `MCSharedMemory` is of a reader over the cycles of a session, or of
writers over them, or of sessions one after the other; one of `MCEcatTimers` is of a connection
under watch, or of a client that connects. Each part takes the steps of its module and no others. How
the modules compose: `ShmOutputs` extends `ShmMirror`; `CycleView` extends `MasterLease` and runs
its actions from the handlers of requests (every step of it is a step of `MasterLease` or
leaves it alone, which is proved); `ShmMirror` implements `ShmSnapshot` and
`EcatRpc` implements `RequestContract`, each by `INSTANCE ... WITH` and a
refinement mapping. `EcatRpc`, `EcatHeartbeat` and `EcatReconnect` are three views
of one class: the first has no clock (any pending request may be old enough for the sweep),
the others have a clock and look at the requests of their own timers only. `Drop`
of `EcatRpc` is what `CheckFires` of `EcatHeartbeat` (abort) and `Dropped` of
`EcatReconnect` lead to; `ShmMirror` is one session of `ShmSession`. `OnlineView`,
`SdoWorkspace` and `CycleView` are three views of the main window over the protocol
of `EcatRpc`, which they take as a FIFO of requests with answers, a sweep and a loss: they
share the selection and the active master, and no reply of one is handled by another.

Operators whose comment begins with "mutant:" are altered forms of the
definition that follows them; no specification uses them. They are the altered
programs the properties were tested against: each property of a run is violated
when one such form takes the place of the original.

### Abstractions

* A word of the process image is the number of the cycle that brought it (inputs)
  or of the write it comes from (outputs). `version` and `cycle_count` are naturals: both
  are 64 bits wide and do not wrap in the life of a machine.
* A session begins in an object that is new or was left by a killed daemon: `initSharedMemory` sets the header and
  keeps what the buffers hold, so `LeftOver` may be any words in either buffer, and image 0 is what is found there.
* A memcpy moves one word per step in any order. The release and acquire accesses take
  effect in program order; the plain loads of a reader are done before its second
  load of `version` if `OrderedLoads` is TRUE (x86) and may be later if it is FALSE.
* A TCP connection is a FIFO of frames; the last may have arrived in part. The
  daemon dispatches one frame to its end before the next. The results are "ok" and "failed".
* Time is in ticks (500 ms in `EcatHeartbeat`, 1 s in `EcatReconnect`); a timer that
  is due runs before time goes on, in any order with others due at the same tick.
* In the views a request is performed when the daemon reads it and answered later, in
  order; the answer to a request that was swept is dropped. The handlers of
  requests given up together are called one after the other in any order
  (`QHash`), and no other event comes between them.
* The four texts of a slave are one "dictionary" (`OnlineView`), a key stands for
  position, index and sub-index (`SdoWorkspace`), a slave has one object (`DaemonHandlers`). A text to be written is a
  value or `Blank`; the checks of a startup row before it is applied come to whether its text is blank.
* Every call of AsyncOperationManager that holds `mutex_` is one step;
  `processQueue` does not hold it and is split where it reads and where it starts.

## 3. Runs

Each is `tlc -config <cfg> <module>` on the module named in `PROJECT.json`.

| Run | Instance | Distinct states | Checks |
|---|---|---|---|
| `shm` (`SharedMemory_all.cfg`) | reads: 1 reader, 2 input words, 1 output, 1 entry out of bounds, 2 attempts, 4 cycles; writes: 2 writers of 1 word, 3 writes, 3 cycles; both in an object with words of two old cycles; sessions: 2 layouts of different size, 3 objects, 2 crashes | 600 571 | TypeOK, NoTornRead, StoppedIsVisible, QuietWritesAreSent, QuietWritesAreKept, LayoutAgreesAfterStops, RunningIsLiveAfterStops, NameLeadsToSession; SnapshotSpec, ReadReturns |
| `lease` (`CycleView_all.cfg`) | 2 masters, both controllers with loops that may end, 2 operations of the user or another client, 1 sweep or loss | 333 232 | HeldIsReleasable, CyclesOwnMaster, NeverTerminates; ShownCatchesUp |
| `rpc` (`EcatRpc_all.cfg`) | 3 requests, 2 losses, downloads with readback and uploads | 66 575 | TypeOK, AnnouncedAsDone; ContractSpec, EveryRequestEnds |
| `timers` (`EcatTimers_all.cfg`) | watch: ping 5 s, check 3.5 s, sweep 2 s, timeout 10 s (as shipped) or 20 s, answers within 9 s; connect: the code's times, 3 failures allowed, 3 user connects, 4 network changes | 429 693 | NoFalseAlarm, NeverStranded, AttemptsAreWatched; Recovers |
| `async` (`AsyncOps_all.cfg`) | 3 operations, 2 priorities, 1 or 2 slots, 1 retained; two cancels, two cancelAlls or one of each | 380 676 | SlotsAreCounted, NoIdleSlot; QueuedIsServed, StartedIsReported |
| `handlers` (`DaemonHandlers_all.cfg`) | 2 slaves, logs of 2; 2 calls with 1 failing command and 1 fall of a slave, or 5 calls about the clocks and 1 other | 266 070 | FaultsAreLogged; ChangesAreTold, FaultIsSeen, ActivationIsApplied |
| `view` (`OnlineView_all.cfg`) | 2 masters with buses of two sizes, 2 requests on their way, 2 operations, 1 failure, 1 loss, 1 change of a bus | 379 000 | LoadedIsOfSelection, EvidenceIsOfList; ViewCatchesUp |
| `sdo` (`SdoWorkspace_all.cfg`) | 1 object, 2 values, 2 rows, 2 operations, 1 failure, 1 loss, a write field typed into and cleared at any time | 1 223 444 | TypeOK, OkIsReadBack, WaitingIsPending; RowVerdictsAreTrue, WritesAreJudged |

Four more runs end in a counterexample, each about one statement of the code's comments that does not hold (section 4):

| Run | Instance | Property |
|---|---|---|
| `heartbeat_default` (`EcatHeartbeat_default.cfg`) | the heartbeat with the request timeout as shipped | DeadDaemonDetected |
| `async_dangling` (`AsyncOps_dangling.cfg`) | one cancel or timeout and one cancelAll | NoDanglingRead |
| `rttest_lost` (`CycleView_rttest.cfg`) | as `lease` | NothingIsLost |
| `sdo_rows` (`SdoWorkspace_rows.cfg`) | as `sdo`, any selection of rows, no failure | RowVerdictsAreTrue |

The type invariants that no run names hold when added to the runs' configurations.

Why the bounds are enough:

* `shm`. Two words suffice to see a torn read and four cycles to overwrite the
  buffer a reader copies from, twice over; two attempts take both ways out of the loop (retry, give up).
  Readers do not influence one another or the mirror. Two writers and three writes put an older and a newer store on
  either side of an overlay; the third cycle carries the store of the first into the next active buffer.
  Three objects give a session after a crash, after a stop, and after both;
  the sizes of the two layouts are what the only check of attach compares. Layouts of equal size are the configuration `same` below.
  The safety part is proved for all bounds (section 5), layouts of equal size apart.
* `lease`. A controller holds one master; with two each start may be on another one than
  before, or, after a loop that ended by itself, on the same one. Two operations are a start and what crosses it (a stop, a switch of the master, another client's start);
  one sweep or loss, with the frames that are performed after it, meets each of them. The
  bound on requests on their way keeps one refresh beside an operation. The safety part is proved for all bounds.
* `handlers`. Two slaves tell a change that reached one from a change that reached both; two calls
  are an online change and what follows or precedes it; logs of two fill up. Two sessions with an activation before, between or
  within them are four calls (start, stop, start, activate), a fifth takes the activation back or repeats it, and the other
  call may hold up the poll. The clocks share nothing else with the bus, so they have a budget of their own. FaultsAreLogged and
  ChangesAreTold are proved for all bounds.
* `view`. Buses of one and of two slaves make a position disappear and stay; two operations are a
  selection and a switch, or a write confirmed and what moves it.
  The safety part is proved for all bounds.
* `sdo`. One object, because nothing but the key ties an answer to what is
  pending: two pending things of one key are the hard case. The field may hold any text, the blank one included, when an announcement takes it for the
  expected one. The
  safety part (OkIsReadBack, WaitingIsPending) is proved for all bounds.
* `rpc`. Two requests pending while a third is the readback of the first; two losses put
  bytes of a first connection in front of frames of a third. The safety part is proved for all bounds.
* `timers`. The constants are those of the code, with its request timeout and with twice that; the phases of the
  timers are free, and `silent` counts to 30 s. Answers within 9 s leave room for commands of 5 s that block
  the daemon, and come before three misses. What happens while the client connects needs the code's constants but `kMaxConnectAttempts`,
  kept small so that giving up happens; four changes of the network give each order of up, refused and lost around one attempt. The safety part is proved for all bounds.
* `async`. With one slot and three operations one runs and two of different
  priority wait; with two slots one may be lost while the other goes on; retaining one makes eviction happen. Two cancellations are a cancel that the timeout or a
  cancelAll (that of the destructor, too) meets, or a cancelAll that another meets. Calls come from the manager's
  thread, its slots included. The safety part is proved for all bounds.

Deadlock is not checked: the modelled systems rest when their bounded inputs are used up
(no client call left, no timer armed, all operations done), which is where
the code rests too, and their configurations say `CHECK_DEADLOCK FALSE`; `handlers` alone never rests and checks it.
That something still happens is what the liveness properties say.

### Fairness

* `MCSharedMemory.PartsSpec`: weak fairness of a read or wait once begun. No one is
  obliged to begin a call or to stop, and the daemon owes the reader nothing.
* `EcatRpc.Spec`: the sweep alone, a timer that runs while the client is connected.
  Nothing obliges the daemon to answer or the network to come back; without a
  connection no request is pending.
* `EcatHeartbeat.HeartbeatSpec`, `EcatReconnect.Spec` (`MCEcatTimers.TimersSpec` for the latter): time passes and the event loop
  serves what is due. The daemon owes nothing.
* `DaemonHandlers.FairSpec`: a handler that has begun comes to its end (every command has a
  time-out) and the two poll timers go on. The bus owes nothing.
* `OnlineView.FairSpec`, `CycleView.FairViewSpec`: the refresh timer runs while connected, the
  daemon performs what it has read, the event loop delivers. Nobody has to connect, and a
  property holds from where the connection stays up.
* `SdoWorkspace.FairSpec`: the daemon, the event loop and the flush go on.
* `AsyncOps.Spec`: a worker's function returns, posted events are handled and the
  manager's thread goes on. Nobody must call.

## 4. Disagreements between the code and what it says

Four are listed as findings, each with a run that ends in its counterexample:

* `heartbeat_default`. "Heartbeat: ping daemon every 5s to detect silent disconnects" (`EcatClient.cpp:711`). The sweep answers a ping that
  has waited for the request timeout, 10 s in the program, with an error, and the handler of a ping, which looks at no result, ends the run of misses as if a
  pong had come; the third miss would take 13.5 s. A daemon that went silent is never noticed (proved for all such periods: `SilenceGoesUnnoticed`).
  With a timeout of 20 s it is noticed if answers take less than 10 s; with slower ones an old pong, or a ping that was waiting
  when the daemon fell silent and is swept late, clears the misses made since (13 s do).
* `async_dangling`. "running operations are cleaned up by onOperationFinished() once their worker thread finishes"
  (`AsyncOperationManager.cpp:147`). `cancelAll` deletes an operation that an earlier cancel or timeout marked while its
  worker runs (`:143`); the worker then reads a freed flag. Its end is not found in the table, so its slot is never given back and its caller gets no signal:
  SlotsAreCounted counts the slots of such operations (`abandoned`) as taken, QueuedIsServed holds as long as one slot is left, and
  StartedIsReported leaves them out.
* `rttest_lost`. "Stop the RT stability test and release the IgH master." (`EcatClient.cpp:344`). An RT loop that ends by itself clears `running_` and
  leaves its master reserved and its thread joinable; the next start replaces `master_` (`RtTestController.cpp:53`) and nothing
  releases the old one, and if it succeeds it assigns over a joinable thread, which ends the daemon by `std::terminate`. HeldIsReleasable and NeverTerminates except what follows from
  such a start and nothing else.
* `sdo_rows`. "reports per-row success/failure" (`EcatClient.cpp:267`). RowVerdictsAreTrue does not hold when rows from the middle of the startup table are applied. The daemon numbers its
  results by their place in the request (`EcatDaemon.cpp:249`), and the studio takes the number for a row of its table.

The others are reproduced by putting the property into the configuration named here in place of its own (some hold it
already); each ends in a counterexample.
`ShmSession_*` are configurations of `ShmSession`, `ShmOutputs_settle` and `ShmMirror_weak` of `MCShmOutputs`,
`EcatReconnect_hang` of `EcatReconnect`, the others of the `MC` module of that name (`SharedMemory_all` of `MCSharedMemory`).

| Configuration | Property | What happens |
|---|---|---|
| `ShmOutputs_settle` | WritesSettle | A writer looks up `active_buffer`, the mirror overlays and flips, the writer stores into the buffer that is now inactive, and the next cycle overwrites it. `client.c:477` says such a write "self-corrects next cycle". |
| `ShmOutputs_settle` | NewestWriteWins | An RxPDO entry is copied by two memcpys (`freerun_shm_mirror.cpp:56`, `:58`); a store in between reaches the bus, and the next cycle brings the older value back. |
| `ShmMirror_weak` | NoTornRead | On a CPU that may do the plain loads of the copy after the second acquire load of `version` (`client.c:466`), a read of two images is accepted. An acquire fence before that load would order them. |
| `SharedMemory_all` | WaitBringsNewData | A reader that read between the stores of `active_buffer` and `version` has the new image already; the next wait returns true for it. |
| `ShmSession_same` | LayoutAgrees | A session ends and one of another layout of the same size starts between fetch and mapping; `layout_version` is a constant and does not tell them apart (`client.c:364`). |
| `ShmSession_reused` | RunningIsLive | A killed daemon leaves RUNNING set; the client reports RUNNING for ever (`client.c:640`). |
| `ShmSession_reused` | MappingFits | The next daemon truncates the object under the name, which a client still maps (`FreeRunController.cpp:276`). |
| `ShmSession_again` | AttachedIsMapped | A second attach without disconnect that is refused unmaps the object and leaves `attached` set (`client.c:343`). |
| `CycleView_all` | RunningIsCycling | The Free Run loop that ends by itself leaves `running_` TRUE (`FreeRunController.cpp:729`). |
| `CycleView_all` | IdleIsFree | The native backend keeps the master of its last call reserved; a Free Run on it is refused until a call for another master or a switch of the backend (`EthercatNativeBackend.cpp:12`). |
| `CycleView_all` | TestIsShown | An RT test is polled only while it is shown (`MainWindow.cpp:486`); a status that is swept or lost clears the flag (an error has no "running"), the polling ends, and the stop button stays disabled while the test runs. |
| `CycleView_all` | ArmedStarts | "Free Run armed; waiting for runtime" (`MainWindowFreeRunWorkspace.cpp:50`): nothing starts it when the connection comes up. |
| `CycleView_all` | CyclesTheTarget | Free Run goes on cycling a master the window no longer works on: a switch in the settings dialog or by a project sends no stop, and neither does one in the toolbar while a status from before the start has cleared `freeRun_` (`MainWindowWiring.cpp:879`). |
| `EcatRpc_lost` | NoFalseSuccess | The flush of a lost connection gives no `error` key (`EcatClient.cpp:38`), so a pending download is announced as complete. |
| `EcatRpc_all` with `Methods = {"freeRunStart"}` | NoFalseSuccess | The handler of `freeRunStart` looks at no error (`EcatClient.cpp:312`). |
| `EcatRpc_all` | RepliesAreDelivered | `buffer_` is not cleared when a connection is lost (`EcatClient.cpp:388`): its bytes spoil the first reply of the next. |
| `EcatReconnect_hang` | HangingConnectAborted | The singleShot arms the reconnect timer while a connect hangs; it fires and restarts the connect timeout, time and again (`EcatClient.cpp:797`). |
| `EcatReconnect_hang` | RetriesBackOff | A refusal arms the timer before the singleShot has advanced the interval (`EcatClient.cpp:88`): the first attempts come at one distance. |
| `AsyncOps_threads` | ConcurrencyBounded | `processQueue` tests the limit without the mutex (`:156`); calls from another thread start an operation in between. |
| `AsyncOps_all` with `Budgets <- Undisturbed` | PriorityRespected | `execute` starts at once when a slot is free (`:38`) though better operations wait for `processQueue`. |
| `DaemonHandlers_all` | SuccessMeansRestored | An online change that could not bring a slave back to its state answers success and names it in a list (`OnlineChangeHandler.cpp:143`). |
| `DaemonHandlers_all` | HistorySurvivesSwitch | A switch of the backend makes new handlers and forgets the redundancy history (`EcatDaemon.cpp:462`). |
| `DaemonHandlers_clock` | EcrtRefSetIsLive | `DcSyncHandler.cpp:450` says "True if a live master is active"; `rtDataValid_` is never reset, so it may be true after Free Run has stopped. |
| `OnlineView_all` | ConfirmedIsWritten | The selection is read again after the modal dialog (`MainWindowSdoWrite.cpp:825`); a scan that fails while it is open and the one after it move it to the first slave, which is written. |
| `OnlineView_all` | LabelIsSelection | A jump from the evidence trail moves the tree's current item and not the label. |
| `OnlineView_all` | LossClearsViews | `MainWindow.cpp:334` says "called on disconnect or master switch"; it is not called on a disconnect. |
| `OnlineView_all` | ListIsOfMaster | The scan of the old master that is on its way is taken for the new one. |
| `OnlineView_all` | DictionaryCatchesUp | A text that failed is not asked for again. |
| `OnlineView_local` | LocalEvidenceIsOfList | A selection made with the tree's signals blocked loads nothing, and takes the late answer to an earlier one (`MainWindowSdoBookmarks.cpp:179`). |
| `SdoWorkspace_all` | AnyOkIsReadBack | The announcement of a write that has no pending entry (the second of two of one object, or a service's) takes the text of the write field (`MainWindowWiring.cpp:824`); if the user has cleared it, it equals the empty result of a read that was lost, and the write is shown as verified with nothing read. OkIsReadBack leaves the blank text out. |
| `SdoWorkspace_all` | AnnouncedIsShown | For the same reason, or after a refused write, or by a download of SdoService, the write shown is not the one done. |
| `SdoWorkspace_all` | ApplyIsJudgedAfter | The check of an applied row is entered with the request (`MainWindowStartupSdoWorkspace.cpp:730`); a read on its way answers it before the row is written. |
| `SdoWorkspace_all` | WritePendingEnds | A write the daemon refuses stays "Write Pending" (`MainWindowWiring.cpp:729`). |
| `SdoWorkspace_all` | RowsSettle | The flush of a lost connection leaves the rows of the startup table "Applying". |

Three more are seen without a property of their own. The first read of a session in an object that a killed daemon left may return what was found there, torn
or of another layout, with `version` 0 on both sides: NoTornRead and the snapshot count it as image 0. The first overlay
takes the outputs that were left there for those of a client and puts them on the bus (`QuietWritesAreSent` is about stores of this
session). And a startup row with a blank text is "Verified" by a read that was lost.

## 5. Proofs

Checked by `tlapm`; each holds for every value of the constants that the named
assumption of the module allows.

`SharedMemory_proofs`, on `ShmMirror` (assumption `ShmAssumption`):

* `TypeCorrect`: `Spec => []TypeOK`, by the actions of the cycle thread, of stop,
  of a reader and of a writer.
* `ReadInvariant`: `[]ReadInv`, if `OrderedLoads`. `NoTornRead` alone is not inductive:
  one must know why a copy made under an unchanged `version` is of one image. `BufferInv` says that the
  active buffer holds one whole image and where the other one is on its
  way to being the next; `ReaderInv` says of a reader whose first `version` is still current
  that it copies from the active buffer, or, between flip and bump, from the one just retired,
  which nobody writes until the next cycle, and by then `version` has moved.
* `ReadsAreWhole` (NoTornRead) and `ReadsAreFresh` (FreshRead) follow, for any number of
  readers, writers, words, cycles and attempts.
* `MirrorIsSnapshot`: `Spec => SnapshotSpec`. Flip publishes, Accept returns an
  image between the one at the call and the present one, every other step stutters or begins, fails or ends a read.
* `StoppedStaysVisible` (StoppedIsVisible): the invariant is that the loop has
  exited once `spc` is past the join.

`OrderedLoads` is assumed where it is needed and nowhere else; `ShmMirror_weak`
shows that it is needed.

On `ShmOutputs`:

* `OutputsAreMirror`: `OSpec => Spec`. The histories add no step, so all of the above holds of it.
* `OutputInvariant`: `[]OutInv`. A value expected must be followed from the store to the frame. `ExpectedIsActive`
  says that it is in the active buffer, which needs that a writer still quiet holds that buffer (`QuietWriters`);
  `OverlaidIsInactive` and `OverlaidIsSent` say, of each word the overlay has passed, that the
  inactive buffer and the domain have it, and the flip turns the first into the active buffer.
* `QuietWritesReachTheBus` (QuietWritesAreSent) and `QuietWritesStay` (QuietWritesAreKept) follow, for any number of
  writers, words and cycles. Nothing is assumed of the order of loads.

On `ShmSession` (assumption `SessionAssumption`):

* `SessionInvariant`: `[]SessionInv`. `MapsItsSession` ties what the daemon maps to its phase, layout and name, kills or not.
  `StopsLeaveNoTrace` and `ClientKnowsItsObject` hold only as long as no daemon was killed: RUNNING is set in the header of the mapped
  object alone, and a header tells the length of its object.
* `NamesLeadToSessions` (NameLeadsToSession), `StoppedSessionsAreOver` (RunningIsLiveAfterStops) and `MappingsFit`
  (MappingFitsAfterStops) follow, and `LayoutsAgree` (LayoutAgreesAfterStops) if no two layouts have
  one size (`SizesTell`): `data_size` is all that attach compares, and `ShmSession_same` shows what happens otherwise.

`EcatRpc_proofs` (assumption `RpcAssumption`):

* `RpcInvariant`: `[]RpcInv`. `AnswersAreOwn` needs that a reply on its way is
  true (`RepliesAreTrue`), which survives a dispatch only if no frame is on
  its way twice or after it was done (`FramesAreOnce`: the live and the orphaned frames are distinct and undone), and
  that ids never handed out are untouched (`FutureIsFresh`).
* `RpcTypeCorrect` (TypeOK), `HandlersGetOwnAnswers` (AnswersAreOwn),
  `RequestsAreKept` (NoneForgotten), `AnnouncementsAreTrue` (AnnouncedAsDone) follow.
* `ProtocolKeepsContract`: `Spec => ContractSpec`. A call issues, a dispatch performs,
  a reply answers (and may issue the readback), a sweep and a loss abandon; the rest stutters.

`CycleView_proofs`, on `MasterLease` (assumption `LeaseAssumption`):

* `LeaseInvariant`: `[](LeaseInv /\ NeverTerminates)`. The strengthening is
  `RunningHolds`: a controller with `running_` set holds the master it was started
  on, one without holds none and has no thread to join, unless it is an RT test that ended by itself, whose master is in
  `master_` or already among the lost. It is what makes a failed start
  harmless and an assignment of `thread_` safe, and it shows that only the start after such a test loses anything. `CachedHolds` says that the native backend
  keeps only a master that is reserved for it, so that giving it up takes none from a controller.
* `MastersAreReleasable` (HeldIsReleasable), `CyclesOwnTheirMaster`
  (CyclesOwnMaster), `ThreadsAreJoined` (NeverTerminates) follow.

On `CycleView` (assumptions `LeaseAssumption`, `CycleAssumption`):

* `CompositionKeepsLease`: `ViewSpec => Spec` of `MasterLease`. Each step of the window, of another client
  and of the connection leaves the leases alone or is one of their actions, because what a request names is a master there is:
  `WindowType` says so of the target and of every request on its way or orphaned, and is inductive
  together with `TypeOK`.
* `ViewLeavesMastersReleasable`, `ViewCyclesOwnMaster`, `ViewNeverTerminates` bring what is proved of the
  leases over to the composition, for any number of requests, sweeps and losses.

`SdoWorkspace_proofs` (assumption `SdoAssumption`):

* `SdoInvariant`: `[]SdoInv`. OkIsReadBack is not inductive: one must know that no value read before the
  write can still answer its verification. The announcement of a write is taken when every answer before it was taken
  (`AnswersInOrder`: answers carry the daemon's clock and arrive in its order), so
  whatever comes after it was read after it; and what is shown as under way has its entry.
* `ShownIsWaitedFor` (WaitingIsPending) and `VerifiedIsReadBack` (OkIsReadBack, which is of texts that are not
  blank; the user may clear the write field at any time, and section 4 shows that the exception is needed) follow, for any objects, rows, operations, failures and losses.
* `TypeInvariant`, `SdoTypes` (TypeOK): what a request carries is typed only because the open dialog asks about a row
  there is and a value that was typed (`DialogOK`), and an answer's id was handed out because the id of
  every frame on its way was (`WireOK`). For the connection a step is one of five: it sends calls or
  an application, writes nothing, has the next frame performed, or loses the connection (`WireSteps`).
* `ResultsAreTrue` (RowVerdictsAreTrue, an action property), if the rows applied together are the first ones of the table, as
  they are when the whole table is applied; the run `sdo_rows` shows that it fails for others. The frames on
  their way have growing ids and were neither performed nor answered (`FramesAreOnce`, `FramesAreUndone`), a handler
  has the call of the frame with its id (`HandlersKnowCalls`), and its items are rows of the table in their order (`ItemsAreRows`, with
  `RankOf`: of n rows, one has i - 1 before it). So an answer tells of each item whether it was written
  (`RepliesAreTrue`), and its place is its row. The history `performed` keeps the whole item, row included, because two rows may hold the same
  object and value.

`OnlineView_proofs` (assumption `ViewAssumption`):

* `ViewInvariant`: `[]ViewInv`. EvidenceIsOfList is not inductive: an answer that an earlier list or master
  gave may be taken while a newer request is on its way. `Replaced` says that what is shown and is not
  of the present list has a request on its way, or given up, that will replace it; `LastIsGood` says that the
  last such request on its way was asked since the list changed and of the active master. A request given up
  is answered with the empty text and may be called in any order.
* `LoadedFitsSelection` (LoadedIsOfSelection) and `EvidenceFitsList` (EvidenceIsOfList) follow, for any
  masters, buses, projects, requests on their way, operations, failures and losses.

`EcatTimers_proofs`, on `EcatHeartbeat` (assumption `HeartbeatAssumption`):

* `HeartbeatTypeCorrect`, from `Timers`: the check belongs to the last ping, and no ping outlasts the sweep.
* `BusyDaemonIsKept` (NoFalseAlarm), if the daemon answers before the pings that may be missed and the last check are over
  (`NoAnswerOutlastsMisses`, 13.5 s with the code's constants). A count of n misses must be a ping that has waited for n periods
  (`Overdue`); so at the last miss one would have waited longer than the daemon takes.
* `SilenceGoesUnnoticed`: the client never leaves the connection, if the sweep gives a ping up before the last check
  (`SweepComesFirst`, as with the code's constants: 12 s against 13.5 s), whatever becomes of the daemon. `QuietInv` says, as above,
  that n misses need a ping that has waited for n periods; the sweep leaves none that old.

On `EcatReconnect` (assumption `ReconnectAssumption`):

* `ReconnectInvariant`: its TypeOK, NeverStranded and AttemptsAreWatched are inductive together. Every way
  into "Disconnected" arms the timer or gives up; the timer that fires leaves that state or finds it left;
  `ReconnectTypeCorrect`, `ClientIsNeverStranded` and `EveryAttemptIsWatched` say so of each, for any periods, numbers of
  attempts and changes of the network.

`AsyncOps_proofs` (assumption `AsyncAssumption`; any number of cancels, timeouts and cancelAlls):

* `AsyncInvariant`: `[]AsyncInv`. SlotsAreCounted holds only because the end of a closure always finds its
  operation, or the operation was abandoned: one must know that what is evicted has no closure (`RetainedIsGone`, `EndIsHandled`)
  and that nothing but a cancelAll deletes an operation whose worker runs.
* `SlotsAreKept` (SlotsAreCounted) and `FreeSlotsAreUsed` (NoIdleSlot) follow, for calls from any thread.
* `OwnThreadKeepsLimit` (ConcurrencyBounded), if only the manager's own thread calls; `AsyncOps_threads` shows
  that this is needed.

`DaemonHandlers_proofs` (assumption `HandlersAssumption`):

* `HandlersInvariant`: the type invariant, FaultsAreLogged and `ChangeInv` together, for any slaves, changes and sizes of the logs.
  `HandlersTypeCorrect` and `KnownFaultsAreLogged` (FaultsAreLogged) follow: a poll that finds several slaves changed appends their
  events after all older ones, so each slave's newest event is what `previous` holds of it, until the log is full.
  `ListedInOrder` shows that the slaves of a poll can always be listed: no poll waits for its log.
* `RepliesTellTheChange` (ChangesAreTold, an action property): when `handleApply` answers, each slave of the change was asked for its target
  state or is named, and with success each object holds the last value of the list. `ChangeInv` is the invariant of its three loops: `Phase` (what is left to do), `Writes` (a download done is in
  the object unless a later one of the list replaced it), `Written` (so the last of each slave is), `Restores` (a slave
  passed was asked for its state, or is named).

Only model-checked: every liveness property (ReadReturns, EveryRequestEnds, Recovers, QueuedIsServed,
StartedIsReported, FaultIsSeen, ActivationIsApplied, ViewCatchesUp, WritesAreJudged, ShownCatchesUp), because fairness and
ENABLED are beyond these provers.

## 6. Not modelled

`PROJECT.json` lists every part with its reason. In short:

* *Pure conversions*: JSON frames, ENI, the text of the `ethercat` command and of
  `ethercat cstruct`, the bit packing of typed accessors, the integers the native backend parses as 32 bits and casts to the width of the type.
* *No state between calls*: the handlers of FoE, SoE, EoE and adapters, each of which wraps one command; SignalHandler, whose
  channels nothing in the repository fills; the C client's own RPC, one blocking call at a time.
* *No interaction*: the pending operation and cache of SdoService and its batches, which answer to no view that
  writes the bus; StateMachineService, which sets a local state when it sends a request and keeps it when the daemon refuses; some 80
  services that keep a list for one view or fail closed until a backend exists.
* *Presentation*: the building of widgets, menus, tables, themes and translations, and the text
  builders: most of the repository's lines.
* *Left out of modelled parts*: several clients of the daemon with buffers of their own and the 1 MiB bound of
  one; an online change without a position, which goes to slave 0; the
  statistics of the RT test; the reload buttons in the context menus of the online view, which ask again for a text that is loaded; which of the
  checks before an application a startup row fails; calls back into AsyncOperationManager or SdoCacheService from a slot
  run under their lock, which no receiver in the repository makes.

## 7. Plan

In order of what matters to the running system:

1. *Data plane, requests, timers, pool, resources; the window over them; the handlers*: done.
2. `OnlineView`, `SdoWorkspace` and `CycleView` over one selection and one active master.
3. Several clients of the daemon, with their reassembly buffers.
