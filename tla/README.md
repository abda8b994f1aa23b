# DarkRide: a TLA+ model of the device control plane and its services

DarkRide drives Android (and iOS) devices: it runs automations on them, captures
their traffic through mitmproxy behind a WireGuard tunnel, instruments
applications with Frida and streams their screens. Its back end is one Node.js
process. Nothing in it runs in parallel, but every device operation is a chain of
awaits (adb, child processes, timers), and many such chains run on one device at
a time. This project models that part: who holds a device, what is started on it
and what is taken down again; how automations are queued for it; and the services
beside it that have a protocol of their own: the ADB proxy, interactive
intercept, device discovery, notifications and the live stream.

## Inventory

Paths are relative to `src/backend/`.

| Component | State | Operations | Talks to |
|---|---|---|---|
| DeviceManager (`services/device-manager.ts`) | `busyDevices`, `onlineDevices`, last interaction; the phone's `wg0` tunnel | `tryAcquireBusy`, `markBusy`, `markIdle`, `refreshBusy`, `checkStandby`; activate, deactivate, test and reconcile the tunnel; discovery polls | adb; everything that uses a device |
| MitmproxyManager (`services/mitmproxy-manager.ts`) | `processes`, `socksProxies` by device; child processes | `startCapture`, `stopCapture`, `restartCapture`, `isCapturing`, exit and error handlers, READY and exit timers | mitmdump; runner, capture sessions |
| AutomationRunner (`services/automation-runner.ts`) | per run: capture and tunnel flags, handlers with `closed` and `scriptCaptureStarted` | `runAutomation`, `proxyHandler`, `tlsProfileHandler`, `cancelSession` | DeviceManager, MitmproxyManager, sandbox, database |
| CaptureSessionManager and capture modes (`services/capture-session-manager.ts`, `services/capture-handlers.ts`, `api/capture.ts`) | `activeSessions`, session rows, detached probes | `startCapture`, `stopCapture`, connectivity probe | DeviceManager, MitmproxyManager, clients over WebSocket |
| Frida endpoints (`api/frida.ts`) | none | spawn, stop | `markBusy`, `markIdle` |
| AutomationScheduler (`services/automation-scheduler.ts`) | `schedules`, `queue`, `processingQueue`, alert timer | `enqueue`, `checkSchedules`, `processQueue`, `clearQueue` | runner, DeviceManager |
| Discovery (`services/device-manager.ts`, `reconcileDiscovered`) | `onlineDevices`, device rows | poll, online and offline listeners | adb, live stream, ADB proxy |
| ADB proxy, sessions (`services/adb-proxy/session.ts`) | streams by id, queue, window and acknowledgement of each, their sockets | OPEN / OKAY / WRTE / CLSE, dial, read, pause, restart of the device, close | adb server, remote adb clients |
| ADB proxy, pairing (`session.ts`, `auth-gate.ts`, `pending.ts`, `limits.ts`, `key-store.ts`) | state of each handshake, pending requests, pre-auth count, key records | signature, public key, decision, banner, revoke, forget, restrict, timeouts | clients, operators, device presence |
| ADB proxy, listeners (`adb-proxy-service.ts`, `port-allocator.ts`, `listener.ts`) | settings, port rows, listeners, binds and stops in flight, errors | `updateSettings`, `setDevice`, device online and offline, the five-second tick, `stop` | discovery, database |
| Interactive intercept (`services/intercept-hold-store.ts`, `api/intercept-live.ts`) | `armed`, `heldFlows`, each UI's queue | hold, resolve, timeout, drop all, arm | mitmproxy addon, UIs over WebSocket |
| NotificationService (`services/notification-service.ts`) | `notification_queue`, flush timer, dispatches, history | emit, flush, send or discard a queued row, attempts, restart | channels |
| Live stream (`websocket/live-stream.ts`) | `activeStreams`, `pendingStarts`; per stream its viewers, scrcpy process, poller, restart count and reset flag | start, stop and restart requests, socket close, grace timers, reset; exit, close and relaunch of scrcpy | scrcpy on the device, clients over WebSocket, discovery |
| Job registry, Python bridge | maps by job and device | cron ticks, requests and replacement | runner |

The other parts (plugins, AI agents, APK analysis, storage, authentication, iOS,
providers, tools, front end) are listed in `PROJECT.json` with the
reason why they are left out: mostly I/O, external services or synchronous code
that unit tests reach.

What is hard about the modelled part:

* the busy lease is a map entry without an owner; three kinds of users acquire it
  and release it in clean-up code after several awaits, two endpoints overwrite it
  and a timer deletes it;
* a mitmproxy child is registered under its device after two awaits, and
  deregistered by its exit handler, its error handler, a failed start, a stop and
  a restart;
* `setProxy` can outlive the run whose script called it;
* a capture session is registered only when everything is up, and stays
  registered until everything is down;
* a connectivity probe runs on after the start that began it has returned;
* the scheduler's queue is drained by enqueues, an interval and a timer, one run
  at a time, while deadlines, devices, plugins and database rows change under it;
* a stream of the ADB proxy has two ends, a socket that is still being dialled, a
  flow-control window and a queue, and each of them may end first;
* a handshake waits for an operator and then for the device, while keys are
  revoked or restricted, devices vanish and three timers run;
* the listeners' changes run one at a time, but a forgotten device, a vanished
  one and `stop()` do not wait for them, and a port may have to be handed over by
  a listener that is still closing;
* a held flow is ended by a verdict of one of several UIs, a timer or the end of a
  capture, and every UI must hear of it;
* polls overlap and work on device lists of different ages;
* queued notifications must survive a restart without being sent twice;
* the timers and handlers of a live stream outlive it: some act on the object they
  belong to, others on whatever stream is registered by then.

What makes the parts correct, and where it is stated: exclusive use of the device
(`LeaseExact`, `ImplementsLease`), nothing left behind (`NoOrphan`,
`FreeDeviceIsClean`, `EndedCaptureIsGone`, `UnwatchedIsTimed`), truthful status (`StatusIsItsOwn`,
`ShownPortServes`), no lost work (`LeavesATrace`, `EveryEntryLeaves`, `HoldsEnd`,
`QueueDrains`), admission by approval only (`AuthenticatedIsApproved`), the byte
stream (`ImplementsByteStream`), and no waiting for ever (`RunEnds`,
`CaptureCallsReturn`, `StreamsSettle`, `HandshakesEnd`, `ChangesProceed`).

## Modules

| Module | Models |
|---|---|
| `DeviceLease` | What the lease promises: one holder, taken only when free. Abstract. |
| `DeviceManager` | The lease flag and the tunnel of one device. |
| `MitmproxyManager` | The registry, the children and the calls in flight on one device. |
| `AutomationRunner` | Runs, `setProxy` and `setTlsProfile`; extends the two managers. |
| `CaptureSessionManager` | Capture sessions in the wireguard mode, their stops, probes and status broadcasts; extends the two managers. |
| `DeviceControl` | One device under all of them, the Frida endpoints and the standby check: next-state relation, fairness, properties. |
| `AutomationScheduler` | The table of schedules, the queue, `processQueue` and its timers, over several devices whose lease is the abstract one. |
| `ByteStream` | What the ADB proxy promises of a stream. Abstract. |
| `AdbSession` | The streams of one ready session, with the client and the device's sockets. |
| `AdbPairing` | The handshakes of all sessions, the limits, the requests and the keys. |
| `AdbListeners` | The listeners, the port rows and the serialised changes. |
| `InterceptHold` | The hold store with the addon and the UIs around it. |
| `DeviceDiscovery` | Overlapping polls and the listeners that are told. |
| `NotificationService` | Events, the queue of quiet hours, dispatches, crash and restart. |
| `LiveStream` | Viewers, starts, grace timers and the life of scrcpy, over several stream objects of one device. |
| `BackendServices` | The services from `AdbSession` on together, one per behaviour. |
| `MCDeviceControl`, `MCScheduler`, `MCBackendServices`, `MCDeviceDiscovery`, `MCLiveStream` | Instances for TLC. |
| `DeviceControl_proof`, `AutomationScheduler_proof`, `AdbSession_proof`, `AdbPairing_proof`, `AdbListeners_proof`, `InterceptHold_proof`, `LiveStream_proof` | Theorems of one module each. |
| `BackendServices_proof` | Theorems about notifications, discovery and the composed services. |

**One device.** Every map of the classes under `DeviceControl` is keyed by the
device and none of their modelled steps touches two devices, so that model has
one.

**Threads and atomicity.** Each asynchronous invocation is a thread of
`MitmproxyManager`: a run, a handler call, a start, a stop. Code between two
awaits is one step. `call[t]` says where a thread's call of the manager is. When
a promise settles, its continuation runs before the next event is taken from the
queue: a settled call stays in `call[t]` (`"ready"`, `"already"`, `"failed"`,
`"stopped"`) and `Quiet` in `DeviceControl` holds every other step back until it
has been consumed. This matters: a looser grain would show interleavings that
Node.js cannot produce.

**Correspondence.** `MitmproxyManager`: `StartCapture` is the test and return of
lines 106-109; `Spawn` everything up to `processes.set`; `Ready`, `ReadyTimeout`
and `ChildExits` the three ways the READY promise settles, the last two with the
catch block; `Detach` the body of `stopCapture`; `ExitTimeout` its three-second
timer, after which `restartCapture` goes on in the same step to its start.
`AutomationRunner`: `run[r]` is the await the run is at (`"capture"`, `"tunnel"`,
`"script"`, `"down"`, `"stopping"`), `script[s]` the await of a handler call;
`Proceed` is `abandonIfClosed`. `CaptureSessionManager`: `start[q]` and `stop[k]`
likewise; `StartFails` and `StartFailed` are the catch block before and after its
await; `ProbeReports` is the end of `confirmConnectivityDetached`; `shown` is the
session that the last broadcast named as capturing.

`AutomationScheduler`: `ProcessQueue(q, armed, pending)` is one call of
`processQueue` on the queue `q`: it returns at once (`Blocked`, or nothing
queued), or sweeps (`Swept`, `TimedOut`) and takes the first entry that
`Resolvable` admits. It is atomic up to the await of the run; `awaited` holds that
run, `RunFreesDevice` is its `markIdle`, after which a scheduled run still
switches the screen off, and `PassEnds` the `finally` of the pass. A run that the
runner refuses throws before its first await, so its pass ends in the same step.
`Enqueue`, `Tick` and `Redrain` are the three callers. A tick calls
`processQueue` for every schedule that is due and once more at its end; only the
first of these calls that starts a run has an effect, so one call on the extended
queue stands for all. `existing`, `enabled` and `scheduled` are the database
rows, `table` the map in memory.

`AdbSession`: packets are their commands and travel in one queue per stream and
direction (`toProxy`, `toClient`); a payload is counted in pieces. `stream[s]` is
the session's `Stream`; `sock[s]` the device's socket, `"paused"` when the session
has stopped reading; `dialing[s]` says that `openService` has not settled, which
outlives the stream. `Pump` is `pump`, with `Over` and `Resumes` its two tests at
the end; `CloseStream` is `closeStream` with its flush of the queue and the
restart of the device for services that do that. The client keeps the protocol:
it acknowledges each WRTE, and it may close or vanish at any time.

`AdbPairing`: `session[c]` is the state of a connection's session; `Close(S)` is
`close` of several sessions at once, which returns their place in the pre-auth
limit and withdraws their request. `Decide`, `RevokeKey`, `ForgetKey` and
`SetKeyDevices` are the operator's calls. The promise of a request that settles
continues in `DecisionArrives`, and a banner is awaited in the state
`"finishing"`: those are the gaps that a revocation falls into.

`AdbListeners`: `changes` is the chain of `serialised`; the first change runs, its
`stage` is the await it is at, `left` the devices it still has to stop or start in
that stage. `listenFor` of a device is `starting[d]`, a `stopDevice` is
`stopping[caller][d]`, since a change, a hand-over and `stop()` may each wait for
the same listener. `Forget` deletes the rows without asking the service, `Polled`
brings the device row back, `Reconcile` is the tick.

`InterceptHold`: `heldFlows[i]` is the post registered under flow id `i`;
`inbox[u]` and `verdicts[u]` are the messages to and from a UI. A promise that
resolves is answered in the same step, as its continuation runs first.
`DeviceDiscovery`: `poll[p]` holds the list a poll was given and the devices that
are left of it; `running` is the poll between two awaits, so a poll is interrupted
at its root checks only. `NotificationService`: `rows` is the table,
`attempts[e][c]` what is left of the retries on a channel; a crash loses timer and
attempts and keeps the table. `LiveStream`: `feed[f]` is a `DeviceStream` object,
`active` and `pending` are the device's entries in `activeStreams` and
`pendingStarts`; `feed[f].scrcpy` says where `tryStartScrcpy` and the handlers it
installs are (`"boot"`, `"attached"`, `"up"`, `"closing"`, `"timer"`), and `exit` that
the child's exit event is still to come, which may be before or after the close
event of its socket. An object is used again when nothing can happen to it any more
(`Spent`).

**One service per behaviour.** The seven services share no state with each other:
discovery tells the listeners of presence, which `AdbListeners`, `AdbPairing` and
`LiveStream` take as free events that come at any time. Interleaving them would multiply their
states without adding a behaviour of any one of them, so the variable `service` of
`BackendServices` picks the one that moves.

**Abstractions.** Of the live stream: the device has no minicap, so a start means
scrcpy or, where that fails, the poller; ports, frames, bitrates and key frames are
left out, and a reset may come at any time while scrcpy is up. A scrcpy that dies
before its handlers are installed is left out, and so is a relaunch that overtakes
the exit event of the child before. A stop that leaves a stream empty arms one
timer, or none when `MaxTimers` run already. Of the services: takeRate's clock is left open, so a request
may be refused at any time; limits on traffic and log lines are left out; a
root check, a bind, a dial, a banner and an attempt on a channel may succeed or
fail; which flow an intercept rule matches, and when quiet hours begin and end, are free
choices. A flow id that is held twice at once (the code calls it defensive) is
modelled, and exempt from `QueuesFollow`: the end of the first hold removes the
second from the queues. Of the scheduler: which schedules are due at a tick is a free
choice, and so are the order of the table, the device among those that match,
and the moment at which an entry passes its deadline; one plugin owns all managed
automations; the runner's insert does not fail. The history variable `recorded`
says whose latest entry has left a session row, the flag `away` of an entry
whether its plugin was unloaded since `queuedAt`. Of the device: session rows other than captures', logs, options, certificates
and the contents of traffic are left out. An activation of the tunnel may fail
without an effect or, with `HalfActivations`, leave either state behind;
deactivation is assumed to reach the phone. A mitmdump may crash at any moment,
or not be executable, where `Crashes` is set. A script is any sequence of proxy
calls. `InFlight` lets such a call outlive its run, `TlsChanges` lets scripts
call `setTlsProfile`, `Deviceless` names runs of automations that need no device
and are started with one all the same, `Frida` and `ForcedIdle` enable the
endpoints and the standby check's forced idle. Slots for runs, sessions, stops,
calls and processes are used again once everything that knew their previous use
is over.

## Runs

| Run | Instance | Shows |
|---|---|---|
| `lease` | 2 runs, 1 script call at a time, 2 sessions, 1 stop, 2 processes; crashes, half activations, TLS changes | `TypeOK`, `LeaseExact`, `RunningSessionReachable`, `StatusIsItsOwn`, `NoOrphan`, `CaptureUndisturbed`, refinement `ImplementsLease`, action property `EndedCaptureIsGone`, liveness `CaptureCallsReturn` |
| `set_proxy` | 1 proper run, 1 run without the lease, 1 script call that may outlive its run, 2 processes; crashes, half activations, Frida, forced idle | `NoDeadEntry`, `FreeDeviceIsClean`, liveness `RunEnds` |
| `failed_start` | 1 session, 1 stop, crashes | `FreeDeviceIsClean` fails |
| `late_set_proxy` | 1 run, 1 late script call, 1 session, 1 stop | `LateSetProxyUndoesItsOwn` fails |
| `overlapping_stops` | 2 sessions, 2 stops | `StopEndsItsOwn` fails |
| `stale_status` | 1 run, 1 session, 1 stop | `ShownSessionRuns` fails |
| `scheduler` | 1 automation of a plugin that needs the device, 1 that needs none and whose row is edited, 1 device | `TypeOK`, `AlertMeansWaiting`, `OneRunAtATime`, `LeavesATrace`, `RunnableIsNotDropped`, liveness `EveryEntryLeaves` |
| `outage_counted` | the same | `OutageIsNotWaited` fails |
| `schedule_forgotten` | the same | `SchedulesInSync` fails |
| `services` | the seven services, see below | 14 invariants, refinement `ImplementsByteStream`, 7 liveness properties |
| `stopped_stream` | 2 viewers, 2 streams of one device | `StoppedStartsNothing` fails |
| `offline_told` | 1 device, 1 poll | `OfflineIsTold` fails |

In `services`, by service: the *session* (`NoSocketLeak`, `NothingAfterClose`,
`OneUnacknowledged`, `ImplementsByteStream`, `StreamsSettle`); *pairing*
(`AuthenticatedIsApproved`, `WaitingIsListed`, `AskedOnce`, `PreAuthExact`,
`HandshakesEnd`); the *listeners* (`SilentWhenOff`, `ShownPortServes`,
`ChangesProceed`, `ListensInTheEnd`); the *intercept hold* (`QueuesFollow`,
`HoldsEnd`); *discovery* (`OnlineSettles`); *notifications* (`SentOnce`,
`QueueDrains`); the *live stream* (`UnwatchedIsTimed`, `OneStreamAtOnce`).
`ServicesTypeOK` joins their type invariants.

Bounds. Two users of each kind are enough to have one that holds the device and
one that wants it, and one that succeeds another; slots are reused, so a
behaviour may contain any number of runs and sessions. With exclusive use at most
one child boots while another one exits: two processes. `set_proxy` has two as
well: a late call's child can boot or be registered beside one that exits; a third
start waits until a process slot is free. The scheduler gets two automations: an
entry that can run is then behind one that cannot, is swept beside one that
survives, and leaves one behind that the redrain must pick up; one automation
waits for device and plugin, the other is disabled and deleted while it waits. The
free actions make the device busy, captured, offline and back at any moment.
Deadlock is checked in every run of the device and the scheduler. It is not checked
for the services and the listeners, whose clients may all be done and closed.

Bounds of `services`. Session: two streams under a limit of one, so that one is
refused or follows the other's end; two pieces fill the window and the queue. One
stream may announce a restart of the device, the other always restarts it.
Pairing: three connections of one key, two of them on one device, with limits of
two handshakes, two requests, one session per device and two per key: each limit
can be hit, and a decision concerns several waiting requests. Listeners: two
installations (`Installations`). In one, two devices compete for one port, so that
every second start needs a hand-over; in the other, one device has a range of two
ports, so that an edit can move it, and the port that is shown can differ from the
one that is served. One device comes, goes, is forgotten and is edited, the other is
edited; the operator may shrink the range to one port (`NewRanges`); listening on the
second port may fail for another reason than a port in use (`Faulty`). One change
waits behind the running one, and `stop()` may overtake one (`MaxOvertaken`); what
would arrive after it is left out. The run has 165,955 distinct states.
Intercept: the request and the response of one flow, two UIs. Discovery: one device, since a poll treats them
one after the other and only the list is shared, and two polls that overlap.
Notifications: two events of one source, which share a row, and a critical one.
Live stream: two viewers, so that one leaves while the other watches or waits, and
one stream object at a time; `stopped_stream` has two that overlap. `MaxRestarts` is
1 in `services` and 2 in `stopped_stream` (3 in the code): with 1 the first quick
death is the last, and a healthy run starts the count anew. With `MaxTimers` at 1
the one timer stands for the last that was armed, which is the hardest case for
`UnwatchedIsTimed`.

Fairness (`services`). Handlers run when their event is there; timers fire (the
1 s close of a restarting session, the timeouts of a handshake and of a hold, the
flush, the tick); dials, binds, closes and attempts settle; the process is
restarted after a crash. A client reads what it is sent and acknowledges it, or
loses its link. No client, operator or UI has to ask or decide anything, and no
device has to come back. Polls get strong fairness: a poll's continuation may be
kept waiting by the other poll's synchronous part again and again, but the event
loop serves settled promises in order. The live stream's properties are safety
properties and need none.

Fairness (`scheduler`). The interval and the timers fire, deadlines pass, and an
awaited run returns, because the runner bounds every script. No device need ever
come back. The plugin need not either: `EveryEntryLeaves` asks nothing for an
entry while its plugin is away.

Fairness (`lease`, `set_proxy`). Weak fairness of whatever has been begun: every
await of the code is bounded by a timeout (adb calls, READY, exit). Strong
fairness of a run, whose script timer stays in the event queue while settled
calls go first, however often the script calls `setProxy`. A child that received
SIGKILL exits. Nothing requires a request to come, a mitmdump to become ready, to
obey SIGINT or to stay alive.

### What the properties leave out

`ShownPortServes` and `ListensInTheEnd` exempt a device while it is *overlooked*. A
device that was forgotten has no port row and, until the tick finds its listener
orphaned, still listens. When the operator edits it at that moment, `setDevice`
makes a new row (`services/adb-proxy/adb-proxy-service.ts:272`), and `startDevice`
finds a listener and does nothing (`:417`); from then on it has a row, so that
neither `orphanedListeners` nor `unlisted` (`:564`) sees it. The same happens to a
device without a row and without a listener when its new row is made and the port it
asked for is then refused: `setDevice` returns before it starts anything. The port
that the interface shows is then not served, although `docs/adb-proxy.md` says that
each online device gets a port and has its users connect to the one that is shown. The
exception is a history: the variable `overlooked`, which no action reads, holds a device
from the step that gives it a row without starting it up to the step that starts it.
Every other device is covered, also one that was forgotten, edited after the tick,
handed over or moved. Without the exception TLC finds a refused port in a trace of ten
states, and restricted to devices that listen, the listener at port 2 under a row of
port 1 in one of seventeen.

`OneStreamAtOnce` speaks of what `activeStreams` and `pendingStarts` hold, not of
the objects that were stopped: those are the subject of `stopped_stream`.
`SentOnce` says nothing about events that a crash loses between the deletion of their
rows and their dispatch (`services/notification-service.ts:298`): the code prefers
that to sending twice, and `QueueDrains` asks for an empty table only.

### What the failing runs show

* `failed_start`. mitmdump exits while the tunnel is being activated. The handler
  throws after the activation, so `startCapture`'s catch block does not know that
  there is a tunnel and frees the device with the tunnel up
  (`services/capture-handlers.ts:203`, `services/capture-session-manager.ts:269`).
* `late_set_proxy`. A run ends while its `setProxy` starts mitmproxy, a capture
  session takes the device, and the late call then tears the session's tunnel
  and mitmproxy down (`services/automation-runner.ts:794`).
* `overlapping_stops`. The slower of two stops deletes the entry of a session that
  was started in between and frees its lease
  (`services/capture-session-manager.ts:335`).
* `stale_status`. The probe of a stopped session finds mitmproxy running again and
  no session registered, because the successor is registered only when its start
  returns, and announces the stopped session as capturing
  (`services/capture-handlers.ts:129`).

* `outage_counted`. The sweep moves the deadline of a managed entry only when it
  finds the entry late while the plugin is unloaded. An outage that is over by then
  counts as waiting, and the entry is dropped too early
  (`services/automation-scheduler.ts:434`).
* `schedule_forgotten`. A tick that meets a disabled row deletes its schedule from
  memory; enabling the row does not bring it back, so it does not fire until the
  next restart (`services/automation-scheduler.ts:298`). A schedule created on a
  disabled automation has the same fate.

* `stopped_stream`. `stopStream` leaves the viewers in the object that it stops. When
  a watched stream is stopped, by a restart request or because the device went
  offline, the exit event of its scrcpy finds viewers and no poller and starts one,
  on an object that nobody will stop again: its frames go to the same viewers as
  those of the new stream, which is the glitch that lines 917-927 are there to
  prevent (`websocket/live-stream.ts:863`). A reset before the stop relaunches scrcpy
  for it as well (`:1163`).
* `offline_told`. A device that becomes `offline` or `unauthorized` leaves
  `onlineDevices` in the loop over the list, where nobody is told; when it later
  disappears, it is not in `onlineDevices` any more and nobody is told either
  (`services/device-manager.ts:545`). The ADB proxy makes up for it by reading the
  directory every five seconds; the live stream's ports stay.

`LeavesATrace` exempts one way out of the queue: `processQueue` splices the entry
before it calls the runner, and when the runner refuses a free device that is
still captured, the entry is gone and only a log line remains.

## Proofs

All theorems hold for any sets of runs, handler calls, sessions, stops, processes,
clients and streams and for any limits, and are checked by TLAPS. Three sets are
assumed to be finite, because the code walks or counts them: the automations
(`SchedulerAssumption`), the devices of the ADB proxy (`ListenersAssumption`) and its
connections (`PairingAssumption`). Conditions beyond the assumptions of the modules
(`ExclusiveUse`, `SoleUse`, `RunsAlone`) are named below; each says who uses the
device, and a run of TLC has constants that satisfy it.

* `TypeCorrect`: `TypeOK` is inductive; one lemma per component.
* `LeaseIsExact`, `SessionsReachable`, `LeaseImplemented`: under `ExclusiveUse`
  (every run acquires the device, no Frida endpoint, no forced idle, one stop at a
  time; crashes and late handler calls are allowed). The run `set_proxy` has the
  behaviours that the assumption excludes. The inductive invariant is `LeaseInv`:
  `LeaseExact` alone does not survive the last step of a stop, which frees the
  lease for whatever session its entry names; `SessionsMatch` adds that a start or
  a stop in progress works for the one session that holds the lease.
  `StarterAlone` and the lemmas for each kind of thread show that a step either
  leaves the holders alone or is a `Take` or a `Yield` of `DeviceLease`, which
  gives the refinement too.
* `StatusStaysOwn`: `StatusIsItsOwn` from `LeaseInv`.
* `RegistryIsLive`: `NoDeadEntry` without assumptions on the users. It needs
  `LeavingChildren`: the exit timer kills the child a stop waits for, which must
  not be a registered live one.
* `NoChildIsOrphaned`, `CaptureStaysUndisturbed`, `EndedCaptureIsAlwaysGone`: under
  `SoleUse`, which adds to `ExclusiveUse` that no handler call outlives its run and
  that a script awaits one call before it makes the next, as the run `lease` has it.
  `late_set_proxy` and `overlapping_stops` show why the condition is needed. Four
  steps: `CallsMatch` says, thread by thread, that a call of the manager is in flight
  only at the await of its caller that asked for it (`Phase`); with `LeaseInv` it
  follows that whoever is in the middle of something is alone (`EngagedAlone`), so
  that no two calls of the manager overlap; a single call leaves nothing registered
  but its own child (`CallsOwn`), from which `NoOrphan` is inductive; and a stop has
  taken the session's tunnel down before it stops mitmproxy (`TunnelDown`). Crashes
  and half activations are allowed throughout.
* `FreeDeviceStaysClean`: `FreeDeviceIsClean` under `RunsAlone`: no capture sessions
  (with them it is false, see `failed_start`), no `setTlsProfile`, one call of a
  script at a time. Any number of runs may overlap on the device, their scripts'
  calls may outlive them, Frida and the standby check may free the lease and
  activations may fail half way: the run `set_proxy` is such an instance. `CleanInv`
  is an invariant about responsibility: a registered child has a run whose clean-up
  will stop it or a call that will (`CaptureOwned`), a tunnel that is up likewise
  (`TunnelOwned`). The flag of a run does not count while its script is in
  `setProxy('none')`, which will clear it.
* `OneRunAlways`: `OneRunAtATime` for any automations, devices and filters. It is
  inductive once `processing` is known to be Boolean; `PassesStayApart` treats all
  three callers of `processQueue` at once.
* `SchedulerTypes`, `AlertAlwaysMeansWaiting`, `EntriesLeaveATrace`,
  `RunnableIsNeverDropped`: what a pass does to the queue. The sweep is a recursive
  function over the prefixes of the queue, and the lemmas about it say which entries
  survive, in which order, and that an entry leaves only past its deadline and with a
  recorded session. `SchedulerInv` joins what they rely on: the types, an alert that
  has a queue, and one run at a time.

* `PairingAuthenticates`, `PairingLists`, `PairingAsksOnce`: for any connections,
  keys, devices and limits. The properties are inductive together once four facts
  are added: `ApprovalStands` (an approval that has not reached its session still
  holds, which is why every way to revoke closes waiting sessions too),
  `NoEarlyVerdict`, `UnknownUnrestricted` (a key without a record has no
  allow-list, so that an approval covers all its requests) and the types.
  `CloseKeeps` treats all closing actions at once.
* `PairingCounts`, `PairingTypes`: the number of pre-auth places in use is the number
  of sessions that hold one, and stays within its limit. `LeftInStage` adds that a
  session has given its place back only in a later stage; closing many sessions at
  once takes the cardinality of a difference.
* `SessionLeaksNoSocket`, `SessionClosesLast`: for any streams, services, limits
  and amounts of data. The leak is excluded by `SocketsHaveStreams` (an open socket
  belongs to a stream in the stage `"open"`, and a closed session has none), the
  last packet by `ClosesLast` (a CLSE is last and its stream is gone); both need
  `OpensOnce`, because a second OPEN of the same stream would bring it back.
* `SessionKeepsFlowControl`, `SessionKeepsTypes`, `SessionIsByteStream`: at most one
  WRTE of the proxy is unacknowledged per stream, and every step is one of
  `ByteStream` or a stutter. `FlowInv` counts, for each stream, the tokens of the
  acknowledgement (in the stream's flag, as a WRTE or as an OKAY on its way) and the
  pieces of data (delivered, on their way, queued): the first sum is at most one, the
  second is what the device has sent. A count is the cardinality of the places of a
  packet in a queue, with lemmas for a packet more and a packet less.
* `QueuesAlwaysFollow`, `HoldTypesHold`: `QueuesFollow` speaks of the moment at which
  a UI has read everything. `HoldInv` is what makes it inductive: the queue a UI
  shows, with the messages on their way to it replayed (`Replays`), is the set of
  flows that are held, but for those on which its own verdict is under way.
* `OffMeansSilent`, `ListenersTypesHold`: with the proxy switched off and no change
  left, nothing listens. By `ListenersInv`: whoever listens or starts while the
  settings say off is about to be stopped by the change that switched it off or by
  a later one; a stop that is in progress is awaited by its caller, and a bind that
  settles while off is undone.
* `ShownPortsServe`: `ShownPortServes`, the port that the interface shows is the one
  that is served, for every device that is not overlooked (see above). `ServeInv`
  adds to `ListenersInv` what each stage of a change has still to do: a device that
  ought to be served and is not has a change coming for it, a listener serves the
  port of its row unless a change that rebinds it or hands its port over is under
  way, and a row that was forgotten keeps its listener until the tick finds it
  orphaned. The conjuncts that bind a listener to its row are stated of the devices
  that are not overlooked (`Tracked`). A device becomes tracked again by the step
  that starts it, when it has no listener, or that takes its row away; every other step keeps the
  tracked ones (`StillTracked`), but for an edit that makes a row.
* `NotificationSentOnce`: an event is in one place at a time: not emitted, in the
  table, deleted by a flush that has not dispatched it yet, or dispatched. The flush
  is two kinds of steps, the deletion of the rows and the dispatch of each, with
  crashes in between; `NotificationInv` says that what a flush holds has never been
  dispatched and is in the table no more.
* `UnwatchedStreamsAreTimed`, `OneStreamIsStarted`: for any viewers, stream objects and
  limits. `UnwatchedIsTimed` needs `OneStreamAtOnce`: a start that ends is awaited by
  somebody, so that the stream it registers begins with a viewer and needs no
  timer, and no stream is registered meanwhile. That in turn holds because a restart
  stops the registered stream in the same step in which it begins or joins a start,
  and because the requests that wait for a start are answered together when it ends
  or throws. The steps of scrcpy are treated together (`ScrcpyKeeps`): they change
  neither viewers nor what is registered.

* `DiscoveryTypes`: the polls keep their shape, however many overlap.
* `EveryServiceIsImplemented`, `ServicesTypes`, `ServicesStaySafe`: a behaviour of
  `BackendServices` is one of each service, because the steps of one are stutters of
  the others. So `ServicesTypeOK` and all invariants of the services hold in the very
  specification that the run `services` checks, and so does `ImplementsByteStream`.

Only model-checked: all liveness and `OnlineSettles`, since neither fairness nor
ENABLED is within the prover's reach. Every invariant that a passing run checks is
also a theorem.

## Not modelled

* `reconcileOrphanTunnel`, the stay-awake and display state of `DeviceManager`.
  The hazards listed for them are single calls that race with a capture; no
  document says who should win.
* The emu-http-proxy and ios-bridge capture modes, `startHttpProxyCapture`, the
  SOCKS bridges and `stopAll` at shutdown: they use the registry the way the
  wireguard mode does, with a forwarder in the place of the tunnel.
* Compilation and the sandbox of automations, rows of automation sessions, cron
  arithmetic, packet framing, the adb server's side of a dial, the formats of
  notification channels: data without a protocol.
* Of the live stream: minicap and minitouch, which start before scrcpy and have
  handlers of the same kind, iOS streams, ports and adb forwards, frames and
  backpressure, gestures, TURN.
* Plugins, AI agents, APK analysis, storage, documents, exports, authentication,
  iOS and providers, proxied requests, tools, migrations, scripts and
  the front end, which are the greater part of the repository's lines: I/O,
  external services, presentation, or synchronous code that unit tests reach.

## Plan

1. Theorems: what replaces `FreeDeviceIsClean` when capture sessions take turns with
   runs, namely that only a start that fails after its activation leaves a tunnel.
2. The emu-http-proxy mode in `CaptureSessionManager` and
   `startHttpProxyCapture` in `MitmproxyManager` (forwarder and teardown stage).
3. `reconcileOrphanTunnel` against a starting capture, in `DeviceControl`.
