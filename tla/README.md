# CHM6 data plane: TLA+ models, checks and proofs

The repository is the data-plane microservice of the CHM6 card (C++). It receives
configuration from an agent through Redis, programs the DCO (the coherent optics
processor, reached over gRPC/gNMI by two CPUs, ZYNQ and NXP), the gearbox and the serdes,
and publishes state, faults and performance data back to Redis. The heart of it is a
promise between four kinds of threads: *configuration flows to the DCO only while the
DCO is connected, ready and holds everything configured before; what is answered
with success stays configured, over outages of the DCO and restarts of the program.*
That promise is what these modules are about.

Paths below are relative to `src/src/` of the repository.

## 1. Inventory

| Component | State | Operations | Hard because |
|---|---|---|---|
| Sync-ready gate, `manager/DataPlaneMgr` | `mIsConnected`, `mIsSyncReady`, init flags, `mDpSyncState`, `mFaultStable` | `PollConnectUpdates` (1 s thread), `HndlConnectChgLowPwr`, `handleBoardInitStateUpdate`, `setSyncReady`, `onResync` | reads what five other threads leave, without a common lock |
| Object managers, `manager/DpObjectMgr` and the Dp*Mgr classes | connection bitmap, `mIsConnectionUp`, `mIsStartCalled`, `mIsNeedSubscribe`, subscription flags | `updateDcoConnection`, `start`, `reSubscribe`, `syncConfig`, `handleConfig` | the same methods entered by poll, callback and CLI threads |
| Card status, `manager/CardStateCollector`, `adapter/DcoCardAdapter` | `mDcoState`, notification cache, `mCardPowerUp`, the published `sync_ready` | `collectCardStatus` (5 s thread), `getCardStatus`, `isDcoSyncReady`, `setIsConnectionUp` | a state read before an outage and used after it |
| Connection monitor, `adapter/DcoConnectHandler` | one link state per CPU | `DcoConnectMonitor::Poll` (1 s thread) | sampling: a short outage is invisible |
| Notification callbacks, `adapter/DcoPmSBAdapter` | subscription flags, caches | `HandleSubResponse` per stream | errors late, streams lost without a connection change |
| Configuration pipeline, `DpObjectMgr::handleConfig`, `DpConfigHandler`, `DpGigeClientMgr`, `GigeClientConfigHandler` | config cache, error string, retry counters, cancel count | create, modify, delete, resync, sync, complete | retries for 15 minutes with the mutex released between tries; a gap between send and completion; crash |
| Redis callbacks, `DataPlaneMgr::onCreate/onModify/onDelete/onResync` | init flags | dispatch of a message to the manager it belongs to | messages before initialisation |
| Other config handlers (carrier, SCG, OTU, ODU, xcon, GCC, card) | as gige client | as gige client; express cross-connects take several DCO objects | partial failure |
| State collectors and soak | fault caches, collection flags | collect, soak, publish | enable/disable against sync |
| Security processor adapters, `InfnDeQueue`, retry helper, OFEC soak timer | bounded de-duplicating queue, retry counts, timers | enqueue, drain, retry, expire | queue at its limit, timer racing an event |
| Key management, peer discovery, GCC/LLDP | key files, frame pools | relay, swap buffers | two writers |
| DCO adapters (gNMI), `waitForDcoAck` | operation status and transaction id per object | set, wait for the acknowledgement | two-step update read by a poller; late acknowledgement |
| PM, protobuf translators | none worth a state machine | conversions | numeric edges |
| Gearbox, serdes tuner, serdes init marker, NOR flash | registers, scratchpad marker | program | marker over warm restart |
| Simulators, debug CLI, environment, main | - | - | not part of the product's promise |

How they interact: the agent writes Redis; Redis callback threads call `checkAndCreate`
(and so on) of a manager, which calls `handleConfig`; `handleConfig` asks
`DataPlaneMgr::getSyncReady` and sends through the config handler and the adapter; the
poll thread calls `updateDcoConnection` and `syncConfig` of every manager under the
manager's mutex and then sets `SyncReady`; the card collector thread feeds `mDcoState`;
gRPC callback threads feed the card state cache and clear subscription flags; the
agent itself waits for the `sync_ready` that `setSyncReady` publishes in Redis.

What makes each part correct, and the places where a test would hardly reach, is the list
"hazards" of `PROJECT.json`, each at its source line with the property that covers it.

## 2. Modules

| Module | Models | Kind |
|---|---|---|
| `DpObjectMgr` | connection and subscription state of all managers: `updateDcoConnection`, `start`, `reSubscribe`, the stream error callback | variables and operators, extended by `DpSyncReady` |
| `DpSyncReady` | the poll thread, one action per step between two accesses to shared state, against the monitors, the collector, the notification callbacks, the board init callback and the DCO | detailed specification |
| `SyncGate` | what the poll thread promises the configuration pipeline: a gate that opens only over connected and synced managers and closes before one is disconnected | abstract specification |
| `DpSyncReadyProofs` | TLAPS proofs about `DpSyncReady`, among them that it implements `SyncGate` | proofs |
| `SyncHealsProofs` | TLAPS proofs about what SyncReady means once an outage is over: configuration and streams | proofs |
| `DpConfig` | the configuration pipeline of one manager, with `SyncGate` as its environment: agent, Redis, callback threads in `handleConfig`, sync, DCO outages, restart | detailed specification |
| `DpConfigProofs` | TLAPS proofs about `DpConfig`: what an answer promises | proofs |
| `Transactions` | what the pipeline promises the agent: a request is taken once and answered once, Redis says what was asked last, a restart loses what it finds unanswered | abstract specification |
| `DpConfigStoreProofs` | TLAPS proof that `DpConfig` implements `Transactions` | proofs |
| `MCDpConfig` | symmetry for TLC | model checking |
| `InfnDeQueue` | the bounded, de-duplicating event queue of the security processor actor | operators, extended by `CarrierSecProc` |
| `CarrierSecProc` | how carrier faults and Rx states reach the DCO security processor: two collector threads, the queue and its actor, the OFEC soak timer, force flags, creation and deletion of carriers, outages and the sync after them | detailed specification |
| `LatestEvent` | what the queue and its actor promise: a mailbox with the latest event of each carrier and class | abstract specification |
| `CarrierQueueProofs` | TLAPS proofs about the event queue: types, one event per carrier and class, never full, an implementation of `LatestEvent` | proofs |
| `CarrierSecProcProofs` | TLAPS proofs about `CarrierSecProc`: the soak, and that no news is no difference | proofs |
| `SecProcSubs` | the state subscriptions to the security processor and the retry helper behind them, entered by poll, configuration, callback and retry threads | detailed specification |
| `SecProcSubsProofs` | TLAPS proofs about `SecProcSubs`: an active object has a stream, none is forgotten | proofs |
| `XconExpress` | the multi-step create and delete of an express cross-connect, the two-step store of the DCO's acknowledgements and `waitForDcoAck`, DCO restarts and the sync | detailed specification |
| `XconExpressProofs` | TLAPS proofs about `XconExpress` | proofs |

The composition is assume-guarantee: `DpConfig` uses the gate only through `SyncGate`
(`Gate!Close`, `Gate!Open`, ...), and `DpSyncReady` is shown to implement `SyncGate`, by
TLC on an instance and by proof for any number of managers. The managers are numbered
`1 .. NumMgrs`, 1 being the card manager, told first and treated apart by the code.

### Correspondence of `DpSyncReady`

`pc` is the position of `PollConnectUpdates`; `conn`, `mgr`, `rdy` its locals. `PollBegin`
and `PollLock` wake up, choose the low or high power loop and take `mMutex`. `PollConnUp`, `PollConnLost`,
`PollTellDown` are the scan of the two connections (a connection that comes up is told to
the card manager only; one that goes down to everybody, after `setSyncReady(false)`).
`PollCheck` reads `isDcoSyncReady` once and compares it with `mIsSyncReady`; `PollNotify`
tells the remaining managers, `PollSync` calls `syncConfig` manager by manager. `setSyncReady`
is two steps: `PollConnLost` or `PollSet` sets the flag, `PollPublishLost` or `PollPublish` publishes
it afterwards, for `setCardStateSyncReady` waits for the collector's mutex, which may be held across a gRPC read;
`handleConfig` reads the flag in between. Nothing is published while `mpCardState` is NULL
(`cardState`): the card's configuration (`CardConfig`) or the collector's first pass creates it. What an
earlier life of the process left in Redis stays there until this one publishes (`own`). `TellMgr` is the whole of
`updateDcoConnection`, what the card manager tells its collector included. `CollectCardStatus` is one round of the collector with the adapter call in
it; `BoardInit` the callback of `Chm6BoardInitState`; `MonitorPoll` one sample. A DCO
state is abstracted to UNSPEC, INIT and READY, which is what `isDcoStateReady` tells
apart. `synced` and `dcoCfg` are history variables: who was synced since the gate
closed, and whose configuration the DCO really holds.

### Correspondence of `DpConfig`

`cfg[t]` holds the locals of `handleConfig` of callback thread `t`, and its position:
`try` (the loop's condition), `lock` (waiting for the manager's mutex to check
readiness), `send`, `complete` (waiting for the mutex again), `cleanup` (a delete that was
answered and is not yet taken from Redis). `cache` is `mMapCfgMsg`, `cacheMark` its
entries with `mark_for_delete`, `errString` the handler's one transaction error string,
`lock` the manager's mutex. `CompleteFail`, `CompleteConfig`, `CompleteDelete` and `Cleanup` are
`completeConfig`; `SyncBegin`, `SyncObject`, `SyncEnd` are `syncConfig`; `Restart` loses
the process and rebuilds the cache by `checkOnResync`. A send to the DCO is accepted
(only while the DCO is reachable) or fails, and a failing one may have been applied. A MODIFY sends only the fields that differ: `Applied` says
that it completes an object which the DCO has as the cache has it, and may leave anything of any other; it never creates
one by intention. Without a field to send (`NothingSent`; the port rate alone is none) it succeeds whatever the DCO
has, reachable or not. If it fails some of its Sets may be done (`Halfway`). `unsure` are the objects for which a request
failed and that no create, delete or sync has put right since: such a request is cached all the same, so
that the next MODIFY builds on what the DCO does not have. How many
callback threads the Redis library uses is not in this repository; `Threads` leaves it open.

### Correspondence of `CarrierSecProc`

`bitmap` and `rx` are what the DCO reports of a carrier, `seenBitmap` and `seenRx` what the
`CarrierStateCollector` saw last (`mMapCarFacFaultBitmap`, the `rx_state` in `mMapCarState`).
`CollectFaults` and `CollectState` are one carrier of `getAndUpdateCarrierFaults` and
`getAndUpdateCarrierState`: compare, post an event; `ClearForce` is the end of the pass,
which clears the force flag it found set. The two are separate because the actor runs in
between. `queue` is `InfnDeQueue`; `Take` is `DeQueue` with the part of
`DcoSecProcCarrierCfgHdlr` before the gNMI Set, `SetDone` and `SetFails` the return of the
Set. `timer` and `inCallback` are `OfecStatusSoakTimer`: an OFEC that comes up only starts
it, `TimerExpired` enters the callback, `TimerSetDone`/`TimerSetFails` send the "up" from the
timer thread. `CreateCarrier`, `DeleteConfig` and `DeleteCarrier` are `processConfig`
and `completeConfig` of a carrier; a delete is two steps, and everybody else may run between them.
The Set to the security processor is done whatever the DCO answers, and its status is not looked at. What the DCO refuses
(`CreateRefused`, `DeleteRefused`) is not told to the collector: a carrier whose creation was refused is cached and has
no objects in the collector (`HasObjects`); one whose deletion was refused stays configured (`kept`) while
the security processor has lost its configuration and its Rx state.
`SetIsConnectionUp` and `SyncConfig` are the poll thread. A fault bitmap is abstracted to
whether it has an OFEC fault; an Rx state to acquired or not. `nxp` is what the security
processor holds, by the Sets of this code.

### Correspondence of `SecProcSubs`

`active` and `retry` are the lists of `RetryHelperIntf`. Three threads subscribe: the poll and the
configuration thread to the objects of a carrier, the loop to those of its list. `todo` are the objects a thread has
before it, `inHand` the one it is at: `CheckActive` looks into the active list, `Subscribe` opens the stream,
`AddCall` registers its callback (`called`), three steps with no lock around them, so that two threads may pass the check
for one object and open a stream each. An answer that is late has the same effect within one thread: the object stays on the
retry list, and the next iteration subscribes again. A stream is therefore a slot of its object, and there may be several.
`CollectRetries` is the iteration of `ReSubscribeLoop` under the mutex; the objects of its `tmpRetryList` are then in
the loop's `todo`, to be subscribed to without it. `Answer` and `Error` are the callbacks of the VLAN
adapter. An error before `AddCall` is a named assumption (`EarlyCallback`); an answer before it is not modelled,
since the code then dereferences the end of its map. `kept` are carriers that are cached although the DCO refused to create or to
delete them: the adapter is not told of them until the next sync sends them again. `ConnectionDown` and `CleanUp` are the two halves of `SetConnectionState(false)`. The adapter's `mIsConnectUp` is not initialised in the
code: `known` starts with either value.

### Correspondence of `XconExpress`

`run` is the try under way, of `handleConfig` or of the poll thread's sync, its `at` the step
of `createXpressXcon` or `deleteXpressXcon` (`CreateOrder`, `DeleteOrder`). `SendCreate` is one
create with a fresh transaction id; the thread then sits in `waitForDcoAck` until
`AckSuccess`, `AckError` or `AckTimeout`. The DCO takes its transactions in order
(`work`), carries them out or fails (`DcoCarriesOut`), and its answers (`acks`) reach the callback
thread, which stores the status and then the id (`StoreStatus`, `StoreTransactionId`):
`half` is an answer of which only the status is stored. `DeleteRefused` and `SendDelete` do not wait.
`EndTry` is what `handleConfig` makes of a try, `Complete` `completeConfig`. A delete reads the
first one-way cross-connect to learn the rest (`NothingToDelete`): after a create that failed before
that step, or a delete that was interrupted after it, every further delete of this cross-connect fails and
its clients stay in the DCO. That is what the code does; no doc says otherwise, and
`DeletedIsGone` speaks of deletes answered with success only. Left out is an outage without a restart of
the DCO, whose sync would send the creates again; a delete the DCO accepted counts as carried out.

## 3. Runs

| Run | Module, bounds | Shows |
|---|---|---|
| `sync_sound` | `DpSyncReady`: 2 managers (the card manager on both connections, another on ZYNQ only), every disturbance on, one board initialisation | `TypeOK`, `SyncReadySound`, `DcoStateSound`, `PublishedSound` (Redis shows ready only until the loss is told to the first manager), and that the poll thread implements `SyncGate` |
| `sync_heals` | `DpSyncReady`: 3 managers, outages long enough to be seen | `SyncEffective` (a settled, ready board really holds every configuration), `SubscribedWhenReady`, `EventuallySyncReady` |
| `config` | `DpConfig`: 2 objects, 2 values, 2 callback threads, 3 requests, one restart, 3 tries, 2 failed sends | `TypeOK`, `SuccessMeansInstalled`, `RestartRebuilds` |
| `config_answers` | `DpConfig`: 2 objects, 2 threads, 2 requests, a CLI cancel, one restart, no send tried again | `EveryRequestAnswered`, and that the pipeline implements `Transactions` (`ImplementsStore`) |
| `ofec` | `CarrierSecProc`: 1 carrier, a fault bitmap with and one without an OFEC fault, 1 change in the DCO, 2 creations, 2 troubles (a failing Set, a restart, a request the DCO refuses) | `TypeOK`, `NoNewsIsNoDifference`, `UpOnlyAfterUp`, `LatestEventFirst` (the queue implements `LatestEvent`), `OfecConverges`, `RxConverges`, `DeletedIsGone` |
| `resub` | `SecProcSubs`: 1 object of 1 carrier, up to 3 streams of it at a time, 6 tries, 2 stream failures, 2 outages, 2 creations | `TypeOK`, `NothingForgotten`, `ActiveHasStream`, `EventuallySubscribed` |
| `xcon` | `XconExpress`: both payloads (8 and 6 steps), a create and a delete, 2 tries, 2 troubles, one DCO restart | `TypeOK`, `CreatedIsWhole`, `DeletedIsGone`, `RequestAnswered` |
| `sync_publish` | violation of `PublishedAgrees` | a repeated board init takes `sync_ready` from Redis for good |
| `sync_power` | violation of `ConfigReadyMeansConnected` | low power at run time: the gate stays open over a lost connection |
| `config_delete` | violation of `DeletedIsNotCached` | a failed delete is created again by the next sync |
| `config_reason` | violation of `FailureIsExplained` | the reason of a failure is overwritten by an empty text |
| `ofec_rx` | violation of `RxConverges` | a Set of the Rx state that fails with the processor up asks for the faults to be sent again, not for the Rx state: the two `SetForce...` functions are copies |

The five violations are described with their source lines under "findings" in `PROJECT.json`.

**Bounds and why they are enough.** The poll thread treats all managers but the card
manager alike, one after the other, and a manager listens to one connection or to
both; 2 managers have one of each kind, 3 add a second one on both connections. The proofs then remove
the bound. In `DpConfig` two threads work on two objects (the agent has one request per object
outstanding), three requests reach create-modify-delete and create-delete-create,
one restart may come anywhere. 900 tries and 3 retries become 3 and 1 (`MaxTry`,
`MaxSendFail`): the loop's exits by tries, by failed sends in a row, by cancel and by a
data failure are all reached. `config` leaves out the cancel, `config_answers` the second try of a failed send, to keep the state spaces small; a restart loses the request (`orphans`), which the
property excepts. In `CarrierSecProc` carriers meet only in the queue and the actor, where
events of different keys do not touch each other, so that one carrier with two classes of
events has the races; the two troubles reach a refused delete followed by a failed Set or an outage. The queue's limit of 256 is not
reached by one carrier, and `NeverFull` proves that it is not by any number the code has, so `LatestEventFirst` says
nothing of a full queue. With a queue of size 1 TLC
finds `LatestEventFirst` violated: a full queue drops the newest event before looking for the one it
would replace (`InfnDeQueue.h:48`). `resub` has more tries (6) than failures and outages
together; the theorem `NothingIsForgotten` asks for no fewer (100 tries in the code). What happens
when the tries are used up is `LongWait`. One object suffices because objects meet in nothing but the thread that has one after the
other in hand; three streams are one for each thread that subscribes. A fourth is out of the run, not of the proofs, where
`MaxStreams` and `Kinds` are any. In `xcon` two
troubles reach a late answer that meets the next try of the same object, which takes one lost
wait and one more failure. `MaxSendCount` 1 gives two tries, the least in which an answer to
an earlier try can be mistaken. The symmetry of `config` (objects, values, threads) is used for invariants only.

**Deadlock** is checked in the `DpSyncReady` runs. In the other runs it is off
because requests, changes and troubles are bounded: once they are spent and answered, the system rightly
stops.

**Fairness.** `DpSyncReady!Fairness` is weak fairness of the threads that run for ever with a
sleep in between (poll, monitors, collector) and of gRPC and Redis delivering what they have;
none of the DCO, of outages or of the agent. `DpConfig!Fairness` is strong fairness of
each callback thread, because a mutex is released and taken again (the poll thread and
other callbacks may have it whenever the thread looks) and a free mutex is granted
eventually, and weak fairness of the sync, which has no such competitor once begun. The gate
itself is under no fairness: it may stay closed for ever. `CarrierSecProc!FairSpec` and
`SecProcSubs!FairSpec` are weak fairness of the collectors, the actor, the timer, the retry loop, the poll
thread and of a Set or a stream returning, strong where a mutex is shared with a thread that
takes it every second (`SetIsConnectionUp`, the collectors, `DeleteCarrier`); nothing makes the
security processor come back. `XconExpress!FairSpec` is weak fairness of the tries, the wait, the
callback thread, the poll thread and of the DCO answering what it accepted; an answer that is lost or
late counts as trouble, and trouble is bounded.

### Named assumptions on the environment

Each is a constant; the properties that need it hold with FALSE and TLC finds them
violated with TRUE, unless said otherwise. They are what the code relies on and does not enforce.

| Constant | TRUE means | What then fails |
|---|---|---|
| `ShortOutage` (both modules) | a channel or the DCO is back before the poll thread saw it gone | `SyncEffective`, `SuccessMeansInstalled`: nobody syncs |
| `EarlyConnect` | the DCO accepts connections while it still initialises | `SyncEffective`: the cached READY is stale |
| `StreamBreak`, `LateError` | a stream fails without an outage, or its error is delivered after the reconnection | `SubscribedWhenReady` |
| `PartialNotify` | a card state notification without a state | nothing of safety; SyncReady may never come, so `sync_heals` keeps it FALSE |
| `RepeatInit` | a second board init COMPLETE, and a power mode changed at run time | `PublishedAgrees`, `ConfigReadyMeansConnected`, `SyncReadySound`, `PublishedSound` |
| `GapOutage` | a resync fits between a send and its completion | `SuccessMeansInstalled`. The gap is a mutex hand-over, a resync takes at least one poll period of a second |
| `SyncLoss` | a send of a sync fails with the DCO reachable | `SuccessMeansInstalled`: the code logs "what todo on failure?" |
| `Recreate` | the agent creates an object again between the answer to its delete and the cleanup | `SuccessMeansInstalled`, `RestartRebuilds`, `ImplementsStore` (all with three requests of one object, the last one more than `config_answers` makes) |
| `Overlap` (`CarrierSecProc`) | the actor handles a carrier while its timer callback runs | `UpOnlyAfterUp`: a down does not stop the "up" of the callback |
| `FastActor` | a Set fails between the collector's post and its clearing of the force flag | `NoNewsIsNoDifference`, `OfecConverges`: the flag the failure set is cleared |
| `LateRx` | an Rx event is on its way while its carrier is deleted | `DeletedIsGone`: the Set creates the carrier again |
| `RxFail` | a Set of the Rx state fails with the processor up | `NoNewsIsNoDifference`, `RxConverges` |
| `DeleteFail` | a Set of a deletion fails with the processor up | `DeletedIsGone`: "If Delete fails there is no way this is again tried" |
| `ShortOutage`, `GapOutage` | an outage ends before the poll thread saw it, or between the halves of a deletion | `NoNewsIsNoDifference`; `DeletedIsGone` |
| `EarlyCallback` (`SecProcSubs`) | a stream ends before `AddCall` registered it | `NothingForgotten`, `EventuallySubscribed`: nobody knows whose error it is |
| `LongWait` | an outage, or a late answer, uses up the tries of an object | `NothingForgotten`, `EventuallySubscribed`: it is given up silently |
| `ShortOutage` (`SecProcSubs`) | an outage ends before the poll thread saw it | `EventuallySubscribed` |
| `RestartInGap` (`XconExpress`) | the DCO restarts between its last answer to a request and the completion of the request | `CreatedIsWhole`; `DeletedIsGone`: the sync creates again what the delete has just removed |

`XconExpress` also has no restart of the DCO during the poll thread's sync: that would be found
by the poll thread as a new outage, which `DpSyncReady` models.
`sync_sound` has all disturbances of `DpSyncReady` but `RepeatInit` on.

## 4. Proofs

### The gate: `DpSyncReadyProofs`

For any number of managers and any binding of them to connections (`MgrAssumption`,
`SyncAssumption`).

* `TypeCorrect`: `Spec => []TypeOK`.
* `SyncReadyIsSound`: `SyncReadySound`, for `RepeatInit = FALSE`.
* `DcoStateIsSound`: without that assumption.
* `PublishedIsSound`: `PublishedSound`, for `RepeatInit = FALSE`: once this process has published, Redis says ready
  only while every manager is started and has its connections, although the flag may be cleared already. With it goes
  that nothing was published before there was a card state (`PubInv`).
* `GateIsImplemented`: `DpSyncReady` implements `SyncGate` under the mapping
  gate = SyncReady, state of a manager = down, up or synced; for `RepeatInit = FALSE`.

`SyncReadySound` is not inductive: `PollSet` raises the flag without looking at the
managers or the connections again. The inductive invariant `IInv` says what each position
of the poll thread knows (`StepOK`), that the card manager's connections are the poll
thread's (`CardOK`, but for the step in which it is being told), and that a DCO state
remembered by the collector implies that the card manager still has both connections
(`CollectOK`). The last one is the crux: the code is right only because
`setIsConnectionUp(false)` erases the state and `collectCardStatus` refuses to store one
while it believes the connection down. The proof has one lemma per action. `DcoInv` is the
smaller invariant behind `DcoStateIsSound`.

For the refinement, each action is shown to map to `Close`, `Open`, `Connect`, `Drop`,
`Sync` or to a stutter, using `IInv`: that a manager is dropped only with the gate closed is
exactly the order of the two calls in `PollConnectUpdates`.

### After an outage: `SyncHealsProofs`

On top of `IInv`, for `RepeatInit = FALSE` and any number of managers.

* `SyncIsEffective`: `SyncEffective`, for `ShortOutage = FALSE` and `EarlyConnect = FALSE`. The
  invariant `DcoFresh`: a reachable DCO is ready and has what was synced since the gate closed. A
  channel may return only after the poll thread saw it down, and by then nothing counts as synced.
* `EveryStreamOpen`: `SubscribedWhenReady`, for `ShortOutage`, `StreamBreak` and `LateError` all
  FALSE. `ConnInv` says that no manager believes in a connection that DataPlaneMgr saw down; with
  it, `StreamInv` follows the handover between the outage, the error callback and the reconnection: the
  flag is set exactly when there is a stream, a started manager whose connection is down has
  `needSub` set, and on a reachable DCO no stream is left broken. The last part needs the error
  before the reconnection: otherwise `SubscribeStreams` finds the flag still set and opens nothing.

### The configuration pipeline: `DpConfigProofs`

For any objects, values, callback threads and retry bounds (`ConfigAssumption`).

* `ConfigTypeCorrect`: `TypeOK`, for `Recreate = FALSE`. Its bounds on `tries` and `fails`
  are not there by construction: no action tests them, the loop's exits do.
* `RestartRebuildsCorrect`: `RestartRebuilds`, for `Recreate = FALSE`.
* `SuccessIsKept`: `SuccessMeansInstalled`, when all four assumptions on the environment
  are made (`Assured`).

The inductive invariant has two parts. `AgentInv` relates the threads to the data:
a thread's request is the last one of its object and not answered, but for the cleanup of a
delete (`WorkOK`); no two threads work on one object (`OneEach`); what Redis has is what the
agent wants (`RedisOK`); what a restart found marked for deletion is not touched again but by
a sync (`MarkOK`); and `RestartRebuilds` itself. Without the second part of `WorkOK` the
theorem is lost: while a delete's cleanup is due the answer already says success, and a create
in that gap (`Recreate`) has its object taken out of Redis and the cache.

`HoldsInv` follows what the DCO has through an outage. A settled object is there as the agent wants it, unless it is
`unsure` (`SettledHeld`); of one that is being modified the DCO has what the MODIFY takes for granted, the object at
all, and all of it if nothing differs (`ModifyHeld`); and such an object is in the cache (`ModifyCached`), so that the
sync that ends its uncertainty sends it. Deleted objects stay away whatever happens
(`DeletedHeld`); both hold of every object when the DCO is reachable and the manager is synced
(`SyncedHeld`), and, during a sync, what is not left to send (`SyncSoFar`). Each of the
other assumptions is used in one place: `ShortOutage` in the step in which the DCO comes back,
`GapOutage` in `SyncAlone` (a sync that starts between a send and its completion would not
find the object in the cache), `SyncLoss` in the step that sends one object.

`DpConfigStoreProofs`: `StoreIsImplemented` (`ImplementsStore`), for `Recreate = FALSE`. The stage of
a request is its answer in Redis, or `accepted` from the send that succeeded to its completion; what is
asked for is what Redis holds unmarked. To `AgentInv` the proof adds that a request lost
in a restart is in no thread's hand (`WorkFresh`). `OneEach` is what makes the stage of
an object a matter of one thread, `RedisOK` what makes the cleanup of a delete a stutter. With
`Recreate` TLC finds the refinement broken: the cleanup takes a newer object from Redis.

### The security processor: `CarrierQueueProofs`, `CarrierSecProcProofs`

For any set of carriers, any fault bitmaps and any queue size.

* `CarrierTypes`: `TypeOK`, with no assumption on the environment.
* `NeverFull`: with more than two places per carrier (`RoomForAll`; the code has 256 places) the queue is
  never full, so the branch that drops the newest event is never taken.
* `QueueIsMailbox`: under `RoomForAll` the queue and its actor implement `LatestEvent`
  (`LatestEventFirst`): a post replaces the event of its carrier and class, a take removes it.
* `SoakIsSound`: `UpOnlyAfterUp`, for `Overlap = FALSE`. The
  invariant: a running timer, or one in its callback, belongs to a carrier whose last OFEC event
  the actor took was an up. Without the assumption the callback is past the point where
  `Cancel()` would help.
* `NoNewsIsSound`: `NoNewsIsNoDifference`, under `RoomForAll` and with `Overlap`, `FastActor`, `RxFail` and
  `ShortOutage` all FALSE. It speaks of every carrier the collector was told of, but not of the Rx state of one
  whose deletion the DCO refused (`kept`): the deletion has taken that away, and the code sends it again only at the next
  create, change or outage. `LateRx`, `DeleteFail` and `GapOutage` are left free, and so are the
  number of failing Sets, outages, deletions and creations.

The replacement loop of `EnQueue` is the recursive function `Without`. What it leaves for a queue of
any length is shown by induction on the position, stated as the least counterexample of a set of
numbers, because the library's induction theorems take an operator as parameter. From it follow one event per
key (`QueueInv`), and, by counting the keys, that there is always room.

`NoNewsIsNoDifference` speaks of a quiet carrier only. Its invariant `NewsInv` follows what the
collectors saw last while the carrier is not quiet: the event waits in the queue, or the actor holds it, or
the soak of an up is under way, or the security processor shows it. The first of these that is
there decides, so each must agree with what was seen only while nothing newer is before it
(`OfecOnItsWay`, `RxOnItsWay`). An event leaves one place exactly when it enters the next; where a Set
fails, the force flag takes over, and `Asked` tells a flag that will be honoured from one
the collector is about to clear, which is where `FastActor` is needed.

### The subscriptions: `SecProcSubsProofs`

For any carriers, tries, failures and outages.

* `SubsTypes`: `TypeOK`, with no assumption on the environment.
* `ActiveIsAlive` (`ActiveHasStream`), for `EarlyCallback = FALSE`: an object for which a new
  subscription would be refused has a stream whose end will be reported, however slow the
  answers, however long or short the outages.
* `DroppedOnlyWhenSpent`: `NothingForgotten` in every state in which no object has used up its
  tries, for `EarlyCallback = FALSE`, whatever the threads that subscribe do to each other. The
  invariant `IInv` adds to the two before that a connection reported down leaves no carrier and no
  sync behind (`DownIsEmpty`); without it a carrier of an earlier connection would be known and in
  nobody's hand.
* `NothingIsForgotten`: `NothingForgotten` outright, for `EarlyCallback` and `LongWait` FALSE and
  `MaxFail + MaxLoss <= MaxRetries`. `TriesInv` relates the tries an object has left to the failures
  and losses still to come, and grants one try less to an object whose current try has been counted
  and not yet failed. The bound is tight: with one retry fewer than the failures and losses together TLC finds an
  object given up.

### Express cross-connects: `XconExpressProofs`

* `XconTypes`: `TypeOK`, with no assumption on the environment.
* `CreatedWhole` (`CreatedIsWhole`), `DeletedGone` (`DeletedIsGone`), for any number
  of tries, troubles, restarts and requests, for `RestartInGap = FALSE`.

What `waitForDcoAck` relies on, the invariant spells out: ids are given out in increasing order, so the
newest transaction is the last on its way in every queue (`InOrder`), is about the object
in hand, and a success of it is true of the DCO (`Awaited`); an older answer has another id,
and a half-stored one still the old id. By then every earlier step of the create works, and no older
transaction is left that could break it again (`Built`). A restart before the last
answer keeps that answer from coming (`NoLateSuccess`): this is where `RestartInGap` is used. For
the delete, `Removed` follows the steps taken, and `OthersAbsent` covers the objects of the
other payload. All parts of `IInv` were checked by TLC before they were proved.

### What is only model-checked

Every invariant, action property and refinement of the passing runs is stated by a theorem above. Left to TLC are the
liveness properties, which are beyond the prover (fairness and ENABLED): `EventuallySyncReady`, `EveryRequestAnswered`,
`OfecConverges`, `RxConverges`, `EventuallySubscribed`, `RequestAnswered` and the `DeletedIsGone` of `CarrierSecProc`; and
what the violation runs show. No module declares a RECURSIVE operator.

## 5. Not modelled

* The CLI's force flags (`mIsForceSyncReady`, `mForceDcoState`) and cache clearing:
  debug back doors that break the properties on purpose.
* `DpSyncState`, the fault-stable countdown and the boot-up traffic thread at the end of a
  poll iteration: a countdown that publishes a hint for other cards; nothing waits for it here.
* Payloads, translators, PM, gearbox and serdes programming: no protocol in them, or a
  conversion better tested by functions.
* The single fields of an object: a value of `DpConfig` is all of them, and what a MODIFY does to an object the DCO
  has not as cached is left open (`Applied`).
* The environment variable that blocks the publication of `sync_ready` (`isBlockSyncReady`).
* An answer of the security processor before `AddCall`: undefined behaviour of the code, not of the protocol.
* Carrier and SCG requests that share `mIsConfigScg`, messages that arrive before a manager is
  initialised, the serdes init marker over warm restarts: listed as hazards without a property.
* The collectors of the other objects (OTU, ODU, gige): they post no events to the security
  processor; their fault and PM publication is a copy per object.
* Redis itself, gRPC, the security processor and the DCO are external and modelled from their use.

## 6. Plan

What would come next, in this order: `mIsConfigScg` and the completion of a carrier with its
SCG; the Redis dispatch before initialisation; the serdes init marker over warm restarts; the
LLDP frame pools; bounded function checks of the fault bit tables and PM conversions.
