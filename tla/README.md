# A verification development for the OCPP charge point simulator

TLA+ modules, TLC configurations and TLAPS proofs for the charge point of
`src/src/cp`, the daemon that runs it (`src/src/cli`) and the console that
follows it (`src/src/data/remote`). Abbreviations below: *MH* is
`infrastructure/transport/OCPPMessageHandler.ts`, *WS* is
`infrastructure/transport/OCPPWebSocket.ts`, *CP* is
`domain/charge-point/ChargePoint.ts`, *PQ* is `domain/transport/PendingMessageQueue.ts`,
*EX* is `application/scenario/ScenarioExecutor.ts`, all under `src/src/cp/`; *SV*
is `src/src/cli/service.ts`, *RC* is `src/src/data/remote/RemoteChargePointService.ts`.

## 1. The system

The simulator plays one or more OCPP charge points against a CSMS (central
system). It runs in a browser, in a Tauri shell or as a command-line daemon; the
charge-point code is the same. All of it is one JavaScript event loop per
process. Nothing runs in parallel, but a charge point is driven by independent
sources whose order is not fixed: frames and events of the socket, timers, the
user (or the daemon's commands, or a scenario), and the continuations an `await`
or a `queueMicrotask` leaves behind. The daemon may die and be restarted; a
console is another process, connected to it by a socket that may break.

| Part | State | Operations | What makes it correct |
|---|---|---|---|
| Outgoing CALLs, 1.6J (MH) | the serializer's queue and slot, its 30 s watchdog, the table of requests | `sendRequest`, `pumpSerialQueue`, `flushPendingQueue`, answers, timeout, close | one CALL outstanding; no CALL twice, or answered twice; order; nothing starves |
| Boot gate (`BootGate.ts`, boot result handler) | status, retry time, retry timers | accept, pending, reject, `isCallAllowed` | nothing but a boot leaves while closed; a rejected charge point boots again |
| Persistent queue (PQ) | rows of `pending_messages` | `enqueue`, `flush` | what is stored is sent after the next accepted boot |
| Heartbeat | an idle timer, its interval | re-arm, fire, disable | a quiet connection gets heartbeats |
| WebSocket (WS) | `_ws`, manual flag, reconnection timer; sockets that outlive their reference | `connect`, `disconnect`, callbacks, reconnection | a wanted connection comes back, an unwanted one does not, one socket serves |
| Charge point aggregate (CP) | status, connectors, parked starts, watchdog timers | connect, disconnect, reset, boot, start, stop, authorize, status, reserve, teardown | transactions survive what they should survive; statuses agree with them |
| Connector, Transaction | status, availability (and the deferred one), transaction, runtime snapshot | setters, save, restore | as above |
| Reservations | map of reservations, clean-up timer | create, cancel, use, expire, dispose | `Reserved` always ends |
| Handlers of CALLs and results, 1.6J | none of their own | one per action | look at the state that is there when they run |
| 2.0.1 / 2.1 handler | transaction ids, sequence numbers, charging states | the same without a serializer | sequence numbers without gaps, nothing after Ended, also across a restart |
| Smart charging | profiles of the connector and of the station, the pause seen last | install, clear, resolve, composite | the limit in force, and what is promised of it |
| Metering | the interval timer | start, stop, tick, target reached | obeys the limit; ends with the transaction |
| Scenario engine (EX) | a state machine, one walker per branch, waits, overrides | run, pause, resume, step, skip, stop | a stopped run acts no more and settles; nothing of it is left |
| Daemon (SV, `CPRegistry.ts`) | runs, transcripts, reports and positions per connector; rows | start, stop, reset, upload, triggers, restore | what is registered runs; a crash resumes at the right node |
| Remote console (RC, `socketServer.ts`) | subscription entry, pending calls, the server's room | mount, unmount, subscribe, resynchronise | the room follows the views; no change is missed |
| State machine, state manager | the transition table, history | observe | records what happened |
| SOAP handler (1.5/1.6S) | an HTTP server | request, response | formatting |
| Configuration | keys | get, set | validation |
| Persistence | SQLite, coalesced flush | save, restore | a later state is never overwritten by an earlier one |
| User interface, trace tools, build | - | - | out of scope |

How they interact. A user's command, a scenario or a CALL of the CSMS reaches CP,
which changes its connectors and sends CALLs through MH. MH sends through WS, or
stores a refused transaction CALL in PQ; what leaves re-arms the heartbeat. A
frame goes from WS to MH, which dispatches an answer to a result handler by the
request table, settles the slot and pumps. Result handlers call back into CP
(boot accepted, authorization result) or write connectors directly. The close
event of any socket ends in CP's `teardownAfterClose`. Events of connectors
trigger the daemon's scenarios and the saving of rows; the registry's event bus
feeds the rooms of the console's socket server.

What is hard in it: answers correlate with a table that outlives the slot, the
watchdog and the connection; a parked start looks at the connector before its
`await` and not after; result handlers address *the connector*, whose
transaction may be another one by then; a flush puts into a queue what a refusal
puts back; five paths end a reservation and four of them rewrite statuses; a
socket without its reference still has its callbacks; a number is used up before
the send that may fail, and saved later than both; branches of a scenario share
one set of flags; the daemon's maps know scenarios and not runs; a snapshot and
the events around it reach the console by different ways. `PROJECT.json` lists
these hazards line by line, with the property for each or the reason there is
none.

## 2. The modules

| Module | Models | Checked by |
|---|---|---|
| `CallDelivery` | the abstract life of a CALL: queued, sent, stored, expired, answered, dropped | refined in `handler_safety`, proofs |
| `OCPPMessageHandler` (`MC...`, `...Proofs`, `...Claims`) | MH's outgoing path, the boot gate, PQ as MH uses it | `handler_safety`, `claim_close`, proofs |
| `HeartbeatService` | the heartbeat timer composed with `OCPPMessageHandler` | `heartbeat`, proofs (in `OCPPMessageHandlerProofs`) |
| `TransactionLifecycle` (`MC...`, `...Proofs`, `...Claims`) | connectors, transactions, parked starts, reservations, availability, resets in 1.6J | `transaction`, `claim_start`, proofs |
| `ConnectionLifecycle` (`...Proofs`) | sockets, reconnection, connect, disconnect and reset | `connection`, proofs |
| `TransactionEvents` (`MC...`, `...Proofs`) | transactions of 2.0.1 as the CSMS is told of them, with restarts | `events`, proofs |
| `ChargingLimits` (`MC...`, `...Proofs`) | charging profiles, the limit, the composite schedule, the meter timer | `limits`, proofs |
| `ScenarioExecutor` (`MC...`, `...Proofs`) | one run of a scenario with concurrent branches | `executor`, proofs |
| `ScenarioService` (`MC...`, `...Proofs`, `...Claims`) | the daemon's runs of a connector, with crashes | `scenarios`, `claim_position`, proofs |
| `RemoteMirror` (`...Proofs`) | a console that follows one charge point | `mirror`, proofs |

A definition named `F_Word` in any of them is `F` with a plausible bug. No
behaviour of a specification uses it. Each checked property has one: put in the
place of `F`, it makes TLC find the property violated, so no property holds by
the shape of the model.

### OCPPMessageHandler

A macrotask runs to its end, then the microtasks it queued, before the next one
starts. The variable `todo` is what is left of the running macrotask.
Synchronous calls go to its front, `queueMicrotask` appends at its end, and an
action that starts a macrotask is guarded by `Idle` (`todo` empty). This is the
order in which `handleCallResult`, `settleSerialInFlight`, `pumpSerialQueue`,
`flushPendingQueue` and the fan-out after an accepted boot interleave.

| Variable | Code |
|---|---|
| `gate`, `bootTimers` | `BootGate._status` and retry time; the `setTimeout`s of CP's `onBootNotificationRejected` |
| `serialQueue`, `inFlight` | `_serialQueue`, `_serialInFlight` |
| `requests` | the `RequestHistory` |
| `pendingQueue` | rows of `pending_messages` for this charge point |
| `socket` | what `isOpen()` and `send()` see: down, open, closing |
| `wire`, `answered`, `repeated`, `outstanding`, `booted` | history, read by properties only |

A `gate` of "Lapsed" is Rejected with the retry time past: from then on
`isCallAllowed` lets everything through. The actions are `UserSends`, `SocketOpens`,
`BootRetryFires`, `HandleTrigger`, `Answer` (result or error, a BootNotification
result in three kinds), `SerialTimeout`, `RetryAfterElapses`, `SocketCloses`,
`WebSocketClosed`, and for the tasks of a macrotask `RunSendRequest`, `PumpSends`,
`PumpFails`, `PumpReturns`, `FlushHandsOver`, `FlushReturns`,
`SettleSerialInFlight`, `SendCallResult`.

Abstracted: payloads and message ids. A CALL is a number and an action. A stored
CALL keeps its number when it is sent again; the code gives it a fresh message
id, and the old id was never on the wire, so no answer can name it. Of incoming
CALLs only TriggerMessage is here, because its handler sends a CALL around its
own reply.

### HeartbeatService

`interval` and `timer` are `_intervalSeconds` and the armed idle timer. Every
step is a step of `OCPPMessageHandler` together with what it does to the timer:
`CallLeaves` (the pump, once the socket took a CALL) re-arms it, `BootAnswered`
sets or disables it, `HeartbeatDue` spends it and issues one more CALL,
`ChangeInterval` is a changed key, `TornDown` the teardown, and `OtherStep`
everything that leaves it alone. The question is whether a heartbeat that is
queued, gated, refused or dropped can leave an open, accepted connection without
a timer and without a CALL that will re-arm it.

### TransactionLifecycle

A step is a macrotask, except for the continuations of parked starts, which run
before the next macrotask, the oldest first. CALLs are a set of those still
answerable: how they travel is the business of the module above, here answers
come in any order or never.

| Variable | Code |
|---|---|
| `link`, `gateOpen`, `booted` | the socket, the boot gate, whether a boot was accepted since the last teardown |
| `awaiting`, `stored` | start, stop and authorize CALLs that may be answered; those kept for the next accepted boot |
| `status`, `availability`, `scheduled`, `tx` | the fields of `Connector`; `open` is that the transaction has no stop time |
| `timers` | CP's ConnectionTimeOut timers |
| `reservation`, `sweeping` | `ReservationManager`: its map, its interval |
| `waiting` | the promises of `authorizeAndWait` in order, each with the verdict it was resolved with, if any |
| `starts`, `stopped`, `restopped` | history |

Actions: local and remote start (with authorization first or not), the result
and the timeout of a parked authorization, Start.conf accepted, refused or in
error, Stop.conf, local and remote stop, unlock, soft and hard reset,
ChangeAvailability, ReserveNow, CancelReservation, expiry and clean-up, a status
set by hand, ConnectionTimeOut, and open, close, disconnect and boot of the
connection with their effect on connectors.

### ConnectionLifecycle

`ws` is `_ws`, `manual` is `_isManualDisconnect`, `timer` is `_reconnectTimer`,
`available` is the charge point's own status. `sock` holds every socket there is,
also those without a reference: `disconnect()` drops the reference before the
close event, `connect()` and the reconnection timer overwrite it, and the
callbacks do not ask whether theirs is the current socket. `wanted`, `accepted`
and `raced` are history: the last command, the sockets a boot was accepted on, and whether
a connect came before the close event of an earlier socket or while a
reconnection was pending.

Each module has its own view of the connection because each asks a different
question of it. `OCPPMessageHandler` and `TransactionLifecycle` have one socket
at a time, which `CalmIsSingle` shows to be so as long as no connect races a
close event or a pending reconnection.

### TransactionEvents

The 2.0.1 handler has no serializer: an event is built, its number is used up,
and `send()` drops it if the socket is down. `runtime` is what the objects hold
(status, availability, the deferred one, and of the transaction its id
`cpTransactionId`, its next number `cpNextSeqNo` and the charging state last
told), `disk` the rows of `connector_runtime`, `parked` the starts waiting for
Authorize. `events` is the history of what was issued, delivered or not. A crash
falls between two macrotasks; a restart (`Crash`) or a replacement of the charge
point (`Replace`) takes the objects back to their rows. When a row is rewritten
follows the events SV listens to: a status or transaction change does, the minting
of an id by the Started event does not.

### ChargingLimits

One connector and its station, in 1.6 or 2.0.1 (`protocol`, fixed at the start).
`connector` is a record: the connector's own profiles in order, the transaction,
the status, `paused` (`lastSchedulePaused`, which is unknown, yes or no) and
whether the meter timer runs; `station` is the `ChargingProfileStore`. A macrotask is a composition
of operators on that record in the order of the code: a tick is `Looked`
(`currentScheduleLimitWatts` with the event it emits), then possibly the stop of
the transaction at the target, then `Sampled` (the power of the MeterValues is
looked up again). Time is counted in units in which periods, cycles and validity
are whole; a limit is watts, a missing one `Uncapped`. `Limit`, `Active`,
`Tightest` and `Slices` are the resolver: `CompositeIsExact` compares the
composite schedule, which looks the limit up at boundaries only, with the limit
at every instant, as the resolver finds it with the start of the window for its
anchor (`ChargingScheduleResolver.ts:261` documents it so). For a Relative profile
of a running transaction, whose periods count from the start of that transaction,
this is not the limit that is imposed on it.

Abstracted: units and phases, how far the register rises (so a tick may or may
not reach the target), request validation, `startSchedule` (the 1.6 handler drops
it). A Start.conf, a CALLERROR and a Stop.conf of 1.6 come late or never; what
they do to other state is in `TransactionLifecycle`.

### ScenarioExecutor

A walker executes the Start node, then one walker per outgoing edge executes a
branch. `pc` is where in `executeSingleNode` each walker is: runnable (its promise
is settled, its continuation is a microtask) or parked (held by a pause, waiting
for a step, for a slow callback or for an event). Commands and timers are
macrotasks and come when no walker is runnable; the order of the microtasks of
two walkers is left open. Nodes are of four kinds, all the executor tells apart:
a callback that ends at once (`act`), one that also arms a response override
(`override`), one that is awaited as it is (`slow`), and an external event that
is raced with a stop and a skip (`wait`). `aborted`, `stepResolve`,
`pendingSteps`, `forceSkip`, `expectation`, `tracked` are the fields of EX,
`machine` is the robot3 machine, `armed` the overrides left on the charge point.

### ScenarioService

`run` holds every run so far, cut down to one branch of the module above.
`executors`, `transcript`, `position`, `pending` are SV's maps, keyed by scenario
(or connector) as there; a run has an identity only in the model, and `report`
says with whose transcript each was reported. `row` is what the connector's row
keeps of this: the position and the scenario that was started last by a trigger
(`lastAutoStartedScenarioKey`, part of the snapshot of `Connector.ts:202`).
Actions: start, stop, reset (also of a scenario that does not run) and upload by a
user, going online and offline with the scenarios they start, saving, `Crash` with
what the next daemon restores, and for a run its walk, the return of a slow node
and the event it waits for.

A resume is matched by the ids of nodes, not by the scenario's (SV:1073-1089); the ids
of nodes of different scenarios are assumed to be distinct. `Seeded` are the
scenarios made of a template, whose id is new in every process
(`utils/scenarioTemplates.ts:112`): their stored key fits nothing after a restart.
`alone` is history: when the run began no other run of its scenario was going.
`NeverAhead` compares the position with the run in the registry itself, with the node
it has come to, and not with what any run has completed; it is about the runs
that began alone. For the others it is false: `claim_position` shows a stopped run
whose slow node returns when the next run of its scenario has begun.

### RemoteMirror

The charge point is a version number: a snapshot carries the version it was taken
at, an event the one it brings. `handlers`, `ready`, `queued` are the entry of
`subs` with its views; `cache` is `snapshotCache`; `asked` says by which call a view
asked for the charge point; `pending` and `timers` are RC's calls; `joined` and
`working` the server's room and the answers it has computed; `up` and `down` what is
on the way, in order in each direction and lost with the connection. Packets of one
poll are handled one after the other, and the microtasks of the calls they answer
follow in order (`tasks`, `draining`). Reconnection happens in two steps, each of
which resynchronises: the manager's `reconnect` and the socket's `connect`.

A view (`useChargePointView`) is told the charge point by four ways, each an action
or a part of one, and what it was told is kept per view (`heard`, and the newest in
`top`): the events (`HandleEvent`), the snapshot of the subscription with the events
queued before it (`Apply`), the answer to its own question (`Fetch`, then `Show` in
a microtask of its own), and, if it joins an entry that is ready, the cached
snapshot (`ToldCached`, RC:1311-1317), which answers replace and no event does. The
microtask of the last is part of `Mount`, since no other step of the client can
come between.

The daemon answers the requests in their order, as it does for a client whose
calls are handled without a pause in between. Left out: what other parts of the
console ask of the same charge point (the editor and the connector panels, which
also refresh the cache), the queries `refetchActiveNonSnapshotViews` makes
beside the subscription, and the other scopes, which are the same code.

## 3. The runs

| Run | States | Shows |
|---|---|---|
| `handler_safety` | 374 thousand | One CALL outstanding (`OneOutstanding`), none twice (`EachCallOnce`) or answered twice (`HandledOnce`), informational CALLs in order (`IssueOrder`), the store empty after an accepted boot (`StoredDrained`), the gate on the wire (`GateHonoured`), and that every step is a step of `CallDelivery` (`ImplementsDelivery`): answered and dropped are final, what a refusal stores is kept |
| `heartbeat` | 158 thousand | The chain of heartbeats survives whatever happens to each (`HeartbeatKept`); in the same composition the slot is released, a rejected charge point boots again, the queue drains |
| `transaction` | 1.22 million | Two connectors: one StopTransaction per transaction (`StopOnce`), the ConnectionTimeOut runs exactly in Preparing (`WatchdogMatches`), Reserved has a reservation (`ReservedIsHeld`), a running transaction is not hidden (`ActiveIsShown`), a late id stays with its connector (`IdsStayLocal`), ChangeAvailability waits for transactions (`AvailabilityDeferred`), a parked start ends (`StartsUnpark`) |
| `connection` | 9 thousand | A wanted connection is never given up and is attempted again, a disconnect sticks, without a race one socket is alive and the status is right |
| `events` | 433 thousand | The numbers of a 2.0.1 transaction run without gap or repetition, nothing follows Ended, a row is never behind the events of its id, through two restarts at any points |
| `limits` | 116 thousand | The composite schedule agrees at every instant with the resolver anchored at the start of the window (`CompositeIsExact`); a TxProfile does not outlive its transaction (`TxProfileEnds`) |
| `executor` | 3 thousand | After a stop or while paused no branch executes a node, every step given is used once, overrides do not outlive the run, a stopped run settles |
| `scenarios` | 275 thousand | What is registered is a live run, a resume after a crash never runs ahead of the run that is resumed, what is stopped ends |
| `mirror` | 1.29 million | The server's room follows the views (`RoomFollows`), every view is told the newest version, also one that joins late (`NothingMissed`), only a second snapshot or the answer to a view's own question goes back in time (`OnlySnapshotsGoBack`), a mounted view gets ready (`GetsReady`) |
| `claim_close`, `claim_start`, `claim_position` | - | statements of the sources that the code does not keep, see section 6 |

Bounds, and why they are enough:

- `MaxCalls = 4` (handler, heartbeat): new work starts only while fewer than this
  many CALLs were issued; work in progress may issue more (a boot's fan-out and
  flush). Four are a boot, a CALL that times out, one that takes the slot after
  it, and one stored across a reconnection. A second outstanding CALL, a duplicate
  or an inversion needs two or three. `FanOut`: StatusNotifications after an
  accepted boot, 1 or 0. `MaxIds = 8`: the ids the refinement looks at.
- `LateFrames = FALSE`: a frame delivered after the socket left the open state
  makes the flush of section 6 endless, so it is an explicit constant. The proofs
  hold for both values.
- `MaxTx = 2`, `MaxWaiting = 2` (transactions): two transactions are an old
  answer and the newer transaction it meets; two parked starts are one whose
  authorization resolves under the other. `Tags` has one tag, which makes every
  authorization result match every parked start, the worst case.
- `AutoReset`, `Reservable`, `Attended = {2}`: connector 2 returns to Available by itself, is
  reserved and is set by hand; connector 1 is what remains, and what a step on the
  other one must leave alone.
- `UserStatuses`: a user can set any status. Only those are given that do not
  contradict a property by fiat (a user who sets Available under a running
  transaction hides it); Faulted is not modelled.
- `Ranges`: ChangeAvailability for connector 0, all connectors.
- `Sockets = {1, 2, 3}`: the current socket, an orphan and one closing. A slot is
  used again once closed.
- `MaxEvents = 4`, `MaxRestarts = 2`, `MaxTx = 2` (events): a Started, two updates
  and an Ended; a restart that loses a number and a second one that finds the row
  written since.
- `MaxTime = 2`, `Horizon = 7`, `MaxProfiles = 2`, `MaxTx = 2` (limits): the
  windows begin before, in and after the first period and validity of each
  profile, and span two whole cycles of the recurring one. The three profiles are
  a pause in the middle of a session, a daily pause whose periods are out of
  order, and a cap of the station that expires.
- Three branches that differ in the order of slow, waiting and arming nodes,
  `MaxPauses = 2`, `MaxSteps = 8` (executor): a step for
  each of the eight nodes of the branches.
- Two scenarios, `MaxRuns = 3`, `MaxCrashes = 1` (scenarios): a stopped run, its
  successor, and the one a crash resumes.
- Two views, `MaxChanges = 1`, `MaxCalls = 4`, `MaxDrops = 1`, `MaxFailures = 1`
  (mirror): mounting asks twice, leaving once and a reconnection twice; views mount
  while fewer than four calls were made, which allows one that joins late, and one
  that comes back after the last has left. One change makes two versions, an
  older and a newer one; for more of them the safety properties are theorems (section 4).
  An event queued when the connection breaks is older than the snapshot of the
  reconnection only from two changes on: with `MaxChanges = 2` the three safety properties
  hold in 7.3 million states, which is too many for the liveness property of the same run.

Fairness. Assumed is that the event loop runs what is queued, that a timer which
stays armed fires, that a closing socket has its close event (the WebSocket
implementation gives up on the closing handshake by itself), and that an awaited
callback which has a time limit of its own returns. As weak fairness:

- `OCPPMessageHandler`, `HeartbeatService`: `RunTask`, `SerialTimeout`,
  `BootRetryFires`, `RetryAfterElapses`;
- `TransactionLifecycle`: `ResumeStart`, `AuthorizeTimeout`,
  `CleanupExpiredReservations`;
- `ConnectionLifecycle`: `ReconnectFires` and the `CloseEvent` of every socket;
- `ScenarioExecutor`: `Walk`, `Poll` (a held walker looks again) and `Returns` of
  every walker; `ScenarioService`: `Progress` and `Returns` of every run;
- `RemoteMirror`: the daemon serves (`Take`, `Reply`), what it sent arrives and the
  client runs its microtasks (`Receive`, `Apply`, `Fetch`, `Show`), and socket.io keeps
  trying (`FirstConnect`, `ManagerReconnect`, `SocketConnect`).

Nothing is assumed of the CSMS, the user or the events a scenario waits for, and
of the network only in `RemoteMirror`, where a connection that stays lost shows
nothing. `QueueDrains` is checked with a CSMS that accepts or rejects; one that
answers Pending for ever keeps the gate closed for ever, which is what Pending
means.

`CHECK_DEADLOCK FALSE` stands in every configuration but `Events.cfg` and
`Limits.cfg`: a charge point with nothing to do, a run that is over or a console
without views really stops, and the bounds end the behaviours.

## 4. What is proved

Eight proof modules are checked to the last leaf, from the assumptions on the
constants that the models state: any number of CALLs, connectors, transactions,
branches, scenarios, sockets, restarts, changes and reconnections. Each states an
inductive invariant, has a lemma per operation with a step per conjunct that the
operation can disturb, and derives the properties from it.

`OCPPMessageHandlerProofs` (`SerializerExcludes`, `AnswersOnce`, `NoDuplicates`,
`InformationalInOrder`, `FlushDrains`, `GateGuardsWire`, `FlushMeetsOpenGate`,
`DeliveryImplemented`, `TypeCorrect`). The invariant (`InductiveInv`) says

- `OnePlace`: a CALL is in one of the queue, the store and the wire, once, and
  was issued. `EachCallOnce` alone is not inductive: a pump, a refusal and a
  flush each move a CALL, and nothing else says that the place it moves to does
  not have it yet.
- `SlotCovers`: what is outstanding is the CALL in the slot, and a CALL whose
  settling is still queued is outstanding no more. This is why the answer of a
  timed-out CALL cannot release the slot of another one.
- `AnsweredSettles`: an answered CALL is no longer in the request table, or its
  settling is still to run; so a second answer finds nothing to dispatch to.
- `OrderKept`: the informational CALLs of the queue are ordered, and come after
  those on the wire; none is stored.
- `FlushComes`: what is stored after an accepted boot has its flush to come.

`DeliveryImplemented` is the refinement of `CallDelivery`, step by step: `Init` maps
to its initial state, every action has a lemma that names the abstract step it
takes for the CALL it touches, or shows that no CALL's life changes
(`NothingMoves`, `OneMoves`). It holds for any number `MaxIds` of observed CALLs.
`InductiveInv` alone does not give it: a flush takes a CALL out of the store and
hands it to `sendRequest`, which suppresses it when the gate is shut, and
the life of a stored CALL has no way to end so. That the gate is still open when the
flush comes to run (`FlushAllowed`) follows from the order of the macrotask, not
from the code at hand; `FlushMeetsOpenGate` proves it.

The same module proves the composition with the heartbeat. `HeartbeatImplementsHandler`
shows it to be a behaviour of the handler's specification, so that all of the above holds of it.
`HeartbeatNeverBreaks` is inductive with the handler's type correctness: an open,
accepted connection with a positive interval has its timer armed or a CALL queued,
and a queued CALL re-arms it when it leaves.

`TransactionLifecycleProofs` (`StopsAreSingle`, `WatchdogAlwaysMatches`,
`ReservedStaysHeld`, `ActiveStaysShown`, `IdsStayWithConnector`,
`AvailabilityWaits`, `LifecycleTypeCorrect`).
`LifecycleInv` adds `Numbered`: the CALLs under way and the transactions of
connectors name transactions begun on *their* connector, and no connector holds
one that was stopped. The second half is what makes a second StopTransaction
impossible, the first what keeps ids local. `Unreserved` (no connector with a transaction is shown
Reserved) is what a disconnection, which drops the reservations and leaves such a
connector's status alone, needs to preserve `ReservedIsHeld`.

`ConnectionLifecycleProofs` (`WantedIsKept`, `CalmHasOneSocket`,
`DisconnectHolds`). The invariant adds `Intent` (what the manual flag, the timer
and the reference say of the last command: `disconnect` sets the flag whether it
has a socket or not, and `connect` and a reset clear it; a connection that is unwanted without
the flag is one nobody has asked for yet, and has no socket), `AcceptedServed`, and `CalmIsQuiet` (without a race, an armed reconnection
means that every socket is gone).

`TransactionEventsProofs` (`NumbersAlwaysRun`, `EndedStaysLast`,
`RowStaysCurrent`, `EventsTypeCorrect`). None of the three is inductive: what a
crash makes of them depends on the row. `Fitting` relates a transaction to the
log of events: its id is minted, every event of that id has a smaller number and
is not Ended, and the number before its own is there. It is required of the
object *and* of the row; an event is only issued from a fitting transaction, and
after it the row either bears another id or is rewritten in the same step.

`ScenarioExecutorProofs` (`OverridesAlwaysCleared`, `StepsAlwaysAccounted`,
`StopSilences`, `PauseHolds`). `RunInv` says who may wait for a step in which state
of the machine, what a settled run has left, that no branch is born before the
Start node is done, and counts the steps by the set of walkers on their way.

`ScenarioServiceProofs` (`RegisteredStaysLive`, `ResumeNeverAhead`).
`ServiceInv`: a run at a node is at a node of its scenario, what is registered is
registered under its own scenario and goes on. `NeverAhead` is not inductive: the
position belongs to the connector, and runs of other scenarios append to it, clear
it and store it. `Own` says whose it can be: a position that fits a scenario none
of whose runs is going is the one a restart has read, which is also the
one that is pending, so a run that begins alone and finds a position that fits it resumes
from that one and has come as far.

`RemoteMirrorProofs` (`RoomAlwaysFollows`, `EventsNeverGoBack`, `NoChangeMissed`,
`MirrorTypeCorrect`). `BaseInv` has the shape of a connection (nothing under way
without one, nothing queued for a ready entry) and `RoomInv`: the requests under
way lead to the room the views want, or a call was refused, or the connection is
down and a resynchronisation is to come. `StreamInv` speaks of each view: `Fresh` (every version
on its way, told or cached is one there is, and an event is newer than what any view
was told or is told before it), `Rises` (the answers, in the order they are handled, bring no
older version than those before them), and `Waits` (a snapshot on its way to an entry that waits
for one is no older than what any view was told, nor newer than the events that come
after it by another way).
`NoChangeMissed` needs to know where the newest version is while a view is not told
it yet, which is `MissInv`: as long as somebody watches and no call failed, either a
subscription is on its way after which no view leaves, and its call is not given
up (its snapshot will bring whatever changes meanwhile), or the socket stays in
the room and every view is served (`Served`): it was told the newest version, or that is queued, or on its
way to it in an event, in a snapshot that is still awaited or in the answer to
its own question (`Covered`), or that question has yet to be answered
(`Querying`). The last is what a view that joins late rests on: what it is
told first may be stale, and the event that brought the newest version has passed. `InOrder` is what makes the
first half last: requests and answers are numbered and do not overtake each
other, so a later leave cannot be handled before an earlier subscription.

`ChargingLimitsProofs`, for any profiles, horizon and bounds, has three parts.

- The store: `TxProfilesEnd` and `LimitsTypeCorrect` by `LimitsInv`, which adds
  that a running transaction was begun here. Each macrotask is a composition of
  operators on the connector's record, so there is a lemma per operator, and
  `Watches` says once what the look-up of a limit may change.
- The resolver: `LatestPeriodLimits`, `HighestIsOne` and `TightestLimits` show that
  the choices of the model are attained and unique, as the loops of
  `ChargingScheduleResolver.ts` are: the latest period begun, one profile of the
  highest stack level, the lowest limit.
- The composite schedule: a limit is constant between two boundaries
  (`LimitSteady`: between them no period begins, by `CyclesBetween` no cycle
  either), hence the tightest one is (`TightestSteady`); a function
  that is constant between boundaries is recovered from its values at those
  where it changes (`StepWise`). Together `SlicesAreExact`, which assumes of the
  profiles that they are valid when the window begins, and `CompositeExact`, which
  discharges that for every reachable state. `LastUpTo` and the induction over the
  instants of the window rest on `Least` and `Greatest`: the least
  counterexample of a set of naturals exists since their order is well-founded.

Model-checked only: the liveness properties (`SlotReleased`, `RejectedRetries`,
`QueueDrains`, `StartsUnpark`, `Recovers`, `StopSettles`, `StoppedEnds`,
`GetsReady`). Each rests on fairness, whose ENABLED is out of the prover's
reach. The claims of section 6 are false, so there is nothing to prove. Every
other property of a run is a theorem. What a recursive function computes for
every input is not stated as such: where a proof needs it (the profiles that
`Without` keeps, the last boundary before an instant), it goes by the least
position at which it would fail.

The proofs changed the models in three places, without a change to what TLC finds.
A `CASE` whose guards overlap has no determined value in TLA+ (TLC takes
the first arm that holds, as the code does); `StatusOf`, `ForceStep`, `Walk` and
`Goes` were such, and are IF chains now. `ChargingLimits` filters by the function
`Without` and picks profiles by their position (`Of`, `Highest`): what `SelectSeq`
returns cannot be expanded in a proof. `MaxIds` is a natural by
assumption.

## 5. Not modelled, and why

- Fresh message ids of re-sent CALLs: no answer can tell them apart (section 2).
- PQ's rows read back after a restart, in the order of `created_at`: planned.
- Amounts of energy: register, state of charge, curves, rounding; units and phases of
  limits. Arithmetic over real numbers, for unit tests.
- Requests without state of their own: variables and reports, GetChargingProfiles,
  certificates, display messages, local list, data transfer, firmware and
  diagnostics simulation.
- ScenarioManager, the browser's counterpart of the daemon's part that is
  modelled, where both differ; what each kind of node does to the charge point
  (other modules have its effect).
- The coalescing flusher, SOAP, repositories, user interface, trace tools,
  assertions over recorded traces: formatting, input and output.
- Connector state machine and state manager: they record, and decide nothing.
- Reservations of connector 0: ReserveNow rejects them.

A large part of the repository's lines is user interface, generated types,
formatting and tools of these kinds, which is why the modelled lines are a small
share of all.

## 6. Where the code and its comments disagree

Each of these is a run in which TLC finds the counterexample; `PROJECT.json` quotes
the lines.

1. `claim_close`: a close discards transaction CALLs waiting in the serializer,
   though MH:742 says that they survive. A flush has already deleted the row of
   those it handed over.
2. `claim_start`: a start parked on Authorize.req does not look at the connector
   again and replaces the transaction another start has begun meanwhile (CP:1316), though a
   duplicate start is to be ignored (CP:1295) and to leave the active transaction intact.
3. `claim_position`: the position is stored so that a restart resumes after the last
   completed node (`ConnectorRuntimeRepository.ts:52-54`). A run stopped in a slow
   node adds that node to the position of the run of the same scenario begun
   since, and a resume skips what this one has not done.

Seen while modelling, and without a run of their own:

- CALLs. Attempts are never counted, since the flush reports success for every
  hand-over (MH:755-775). The CALL a TriggerMessage defers with `queueMicrotask`
  overtakes the reply it was meant to follow (`OtherCallHandlers.ts:56-58`).
  CP:1373 calls the queue "strictly serial/FIFO"; informational CALLs are
  (`IssueOrder`), a stored transaction CALL is overtaken by what was issued later.
  MeterValues are stored also when they carry no transaction id (MH:174-185). The
  boot gate is not reset by a reconnection (CP:1143, against the teardown at
  CP:1169-1201). A transaction CALL that times out is not stored again (MH:727).
  PQ:91 loops until the store is empty: if a frame that accepts a boot were
  delivered once the socket has left the open state, every hand-over would be
  refused and stored again, and the loop would not end. Sockets do not deliver
  such frames, which is what `LateFrames = FALSE` says.
- Transactions. Stop.conf clears whatever transaction runs on the connector by
  then (`TransactionResultHandlers.ts:86`). An accepted boot shows an inoperative
  connector Available (CP:1099 against CP:191). The clean-up timer of reservations
  does not survive the first disconnection (`Reservation.ts:294`), so a lapsed
  one keeps its connector Reserved until a look-up.
- Connection. A hard reset, or a connect while a reconnection is pending, leaves
  two sockets alive, and the close of the orphan tears down the charge point under
  the other (WS:157, CP:758).
- 2.0.1. A crash between the minting of an id and the next save starts the
  transaction's events again under a fresh id, whose first event is not a Started
  (`Transaction.ts:30-32`). `scheduledAvailability` is saved with the row but has
  no event that saves it (`ConnectorRuntimeRepository.ts:8-10`, `Connector.ts:375`).
- Charging limits. CP:215-218 says that the charge point should show a period of
  limit 0 as SuspendedEVSE. The event is emitted only when the pause differs from
  the one seen last (`Connector.ts:296`): a pause first looked up while the
  connector was Preparing, or in the transaction before, is not shown, and
  Charging is reported while nothing is delivered. The end of a profile, by its
  validity or by the teardown that clears the station's, emits nothing either
  (`Connector.ts:303`), so SuspendedEVSE stays. 1.6 judges a pause by all periods
  (`SmartChargingHandlers.ts:169`), 2.0.1 by the one in force. The composite
  schedule looks at what is valid now and ignores a validity that ends in its
  window, though its comment speaks of inputs "live" at each instant
  (`ChargingScheduleResolver.ts:223`). A recurring schedule whose first period
  does not start at 0 lacks a boundary where each cycle begins. A transaction that
  survives a disconnection has no meter timer any more; a stop inside a tick lets
  the tick's MeterValues follow the StopTransaction, without a transaction.
- Scenarios. SV:1246 calls the finalisation of a run idempotent. The maps are keyed by
  scenario, so the finally of the run of `claim_position` goes on to take the transcript
  of the run begun since, which then ends without a report, and to drop its
  registration. A reset is to "drop the persisted scenario position" (SV:1393-1400):
  it drops the one in memory, after the last write of the row (SV:1424); with no run whose
  end clears it, the stored one stays, also as the pending resume, and the next run
  begins in the middle. Branches share one field for the current expectation (EX:501, issue
  #179). The first branch to fail settles the run while others go on, and may arm
  overrides afterwards. A listener of a status wait that timed out stays. A
  pending resume is kept until the first run that matches it. SV:1700 has the
  auto-start resume a scenario at its stored node after a restart; for a scenario
  whose id is not new in every process the key restored with the same row keeps the
  connection from starting it (SV:1963), so nothing resumes it until a user does.
- Console. `docs/migration.md:103` has a client apply the snapshot first and then the
  events. The answer to a view's own question is applied in a later microtask than
  the packets of the same poll (RC:728, `useChargePointView.ts:129-134`), over a newer
  snapshot or event the view was told before, and nothing carries a version to
  compare. A view that joins late and whose question is refused stays with a cached
  snapshot no event updates (RC:1311). After a reconnection both resynchronisations ask for a snapshot; the
  second is applied over events already told (RC:1776), although
  `docs/server.md:290-291` has the client apply the snapshot first. The time limit of one call
  rejects every pending one (RC:1554). A refused subscription is not asked for
  again before the next reconnection, and its queue grows meanwhile.

## 7. The plan

Done: the CALL path, the heartbeat, transactions and connectors, the connection,
2.0.1 events with restarts, charging limits, scenario runs, the daemon's scenarios
and the console, each checked, and every safety property, action property and
refinement of a run proved. What comes next:

1. Proofs of what liveness rests on: that the actions fairness is asked of lead where they
   should (a measure that each of them decreases), so that only the
   temporal step is left to TLC.
2. Theorems beyond the runs: a pause that was shown is one of the limits in force;
   a parked start has the CALL it waits for queued, stored or under way.
3. PQ with its `created_at` order and restarts between hand-over and delete.
4. The coalescing flusher; the commands of ScenarioManager; the other scopes of
   the console.
5. The request handling of the SOAP adapter, as far as it keeps state.

Abstract specifications worth stating: `CallDelivery` (done); a flush that saves
every state at most once and the last one finally; a subscription as a stream of
versions. Runs stay at a few million distinct states at most, with two of every
thing whose order matters.

## 8. Running it

    tlc -config Handler_safety.cfg MCOCPPMessageHandler
    tlc -config Limits.cfg MCChargingLimits
    tlapm TransactionLifecycleProofs.tla

`PROJECT.json` names, for each run, its module, its configuration and its
properties; for each definition, the lines of the source it models; for each
theorem, the property it states.
