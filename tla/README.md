# SmartCar V2026: specifications, model checks and proofs

This directory holds TLA+ specifications of the car's software. The core is what decides whether
the wheels may turn: the motion lease of the direction guard, the safety node behind it, the
navigator that drives one Nav2 goal at a time under a lease, the mission on top, and the chassis
driver at the end. Around it are models of the vision services, the route and its editor, the
sensor relays, the supervised drive, the startup observer and the simulation with its tuning
trials. Paths are relative to the repository; `task/` stands for
`src/smartcar_task/smartcar_task/`, `safety/` for `src/smartcar_safety/`, `sim/` for
`src/smartcar_sim/` and `tools/` for `src/smartcar_tools/smartcar_tools/`.

- [1. The system](#1-the-system)
- [2. Modules](#2-modules)
- [3. How the models read the code](#3-how-the-models-read-the-code)
- [4. Runs](#4-runs)
- [5. Bounds](#5-bounds)
- [6. Fairness](#6-fairness)
- [7. Proofs](#7-proofs)
- [8. Where code and documents disagree](#8-where-code-and-documents-disagree)
- [9. Not modelled](#9-not-modelled)
- [10. Plan](#10-plan)

## 1. The system

```
 services start/stop/reset, autostart              vision node (QR, scene)
          |                                         ^
          v                                         |  services
   task node  --->  mission thread  ----------------+
          |              |         \
     cancel()       navigate()      route document  <---  waypoint editor
          \              |  ^                ^
           v             v  | callbacks      |
             RosNavigator  --+--- goals ---- Nav2 action server
                  |                               |  /cmd_vel_nav (candidates)
                  |                               v
                  |                         velocity smoother
                  |                               |
      Prepare/Activate/Renew/Stop                 v
                  +----------------------->  direction guard --> /cmd_vel
                                             ^ raw odometry        |
                                             |                     v
   depth relay ---- emergency stop, sensors, voltage ------> safety node
                                             |                     | /cmd_vel_safe,
                                             |                     v /ackermann_cmd
                                             +--------------- chassis driver <--> STM32

 beside it: the startup observer and the supervised drive (processes that call these services),
 and the simulation: launch gates, lifecycle helper, route trainer, tuner, sensor preflight,
 perception monitor
```

| Component | State it keeps | Operations | What is hard | What makes it correct |
| --- | --- | --- | --- | --- |
| Direction guard (`safety/src/direction_guard*.cpp`) | phase, identity of the lease, its stamps, the last candidate, the stop barrier, the lease counter, the uuids used | Prepare, Activate, Renew, Stop, candidate, raw odometry, timer | requests that arrive late or twice, samples that go stale, a counter that wraps, a restart | motion only under the lease, in its direction, and fresh; a lease starts from rest; no revoked lease returns |
| Safety node (`safety/src/guard.cpp`, `safety_node.cpp`) and its Python reference (`safety/smartcar_safety/`) | ages of command and sensors, two latches, the last command, the steering hold | command, sensors, voltage, emergency stop, hold, timer | latches cleared by another event, a repeated command, throttled samples, two implementations of one gate | what is repeated is the newest command and everything it depends on is fresh; the two nodes agree |
| Navigator (`task/navigation_runtime.py`, `protocols.py`) | generation, flags of the operation, handle and futures, three generations of the guard's Stop, `_poisoned` | navigate, cancel, three callbacks | mission thread, operator's thread and executor threads; calls that time out with their request under way | one goal at a time, no lease forgotten, honest results, everything returns |
| Mission and task node (`task/mission.py`, `task_node.py`) | state, generation, reserved/running/resetting, the stop event | start, stop, reset, autostart, shutdown, the mission thread | stop, reset and shutdown beside the thread; a goal left behind by a failure | a quiet state means a quiet car; a stop ends the mission; a shutdown shuts the gate |
| ROS adapters (`task/ros_adapters.py`) | futures, the last `/odom`, a reader process | guard calls, wait_stopped, QR, scene, reset_origin | time-outs equal to the server's, processes | covered as far as Navigator, Mission and Vision use them |
| Vision (`src/smartcar_vision`) | newest QR and newest image with their stamps | read_qr, describe_scene | one exclusive service group, two sets of time-outs, a remote service | an answer is newer than the request's threshold; a sample in time is served |
| Depth relay (`src/smartcar_vision/.../depth_pointcloud_relay.py`) | stamps of the last cloud received and published, the status | cloud, freshness timer | clouds that repeat, run ahead or hold nothing | "active" is said only of a stream that flows |
| Chassis driver (`src/origincar/origincar_base`) | parser buffer, newest frame, watchdog, failure latch | command, watchdog, read, publish, write and read failure | backlog, short writes, a one-shot stop | the wheels follow the newest command or stand; what is published is never older than the newest whole frame, and true unless damaged bytes pass for a frame |
| Route (`task/planning_segments.py`, `waypoints.py`, `c_zone_direction.py`, ...) | none (pure) | load, split, validate, mirror, choose the C-zone variant | rules that interact | what one layer accepts the next ones drive |
| Waypoint editor (`tools/waypoint_drag_editor.py`) | the route shown, selection, drag, history, the file | every mouse, key and panel event, atomic save | long sequences of legal edits; a crash in a save | the status line is true, every edit can be undone, the file is always a whole route |
| Supervised drive (`tools/short_drive_test.py`) | what it saw, its own steps | preflight, limits, release, start, watch, stop and latch | calls served after their caller gave up | what it releases it watches over; a pass is earned |
| Startup observer (`scripts/nav_status.py`) | what it knows of nodes, parameters and streams, pending requests, the prearm phase | poll, answer, timeout, message, tick | requests given up and asked again, answers in any order | a prearm that says it is ready has latched and reset once |
| Simulation bring-up (`sim/launch/sim.launch.py`, `scripts/nav2_lifecycle_startup.py`, `auto_train.py`) | processes and their exits, the lifecycle of Nav2 | gates on exit, startup with probes, route | a lost or refused response, a node that leaves active while the helper looks or after it | no goal before one probe saw every node active; a bring-up decides |
| Tuning trial (`scripts/sim_tune.sh`, `sim/scripts/tune_params.py`, `validate_sim_results.py`) | parameter file, snapshot, lock, results | build, launch, save, judge, die | two writers, a shell that dies | the verdict is right both ways |
| Sensor preflight, perception monitor (`sim/scripts/sim_sensor_preflight.py`, `gazebo_ground_truth_odom_relay.py`, `sim_perception_monitor.py`, `sim_depth_pointcloud_adapter.py`) | stamps and samples, the newest of each stream, the landmarks seen | every callback, the timer | late and foreign messages, streams that are wrong together | success speaks of live streams; ready is said only of the world as it is |
| Nav2 configuration, launch files of the car, operator tools that only read, interfaces | - | - | - | see [9](#9-not-modelled) |

Interactions: services between task node and guard, vision node, safety node and the tools
(request and answer, with a client-side deadline), the Nav2 action interface (goal response,
cancel response, result as callbacks), topics from the smoother through guard and safety node to
the chassis, the route file between editor and task node, lock and parameter files between the
tuner and the trial, and shared memory under `_condition` and `_guard_call_lock` inside the
navigator, and `_lock` and an event inside the mission.

The hazards, each at its line with the properties that would catch it, are listed in
`PROJECT.json`.

## 2. Modules

| Module | What it is |
| --- | --- |
| `MotionGate` | the abstract promise of the guard: granted to each identity at most once, opened only for it, motion only while open, a fault keeps it shut |
| `DirectionGuard` | the guard in its node, one action per callback; instantiates `MotionGate` as `Gate` |
| `DirectionGuardRest` | the same with three history variables that tell, without the guard's own timers, when the car and the smoother last moved; for the stop barrier |
| `DirectionGuardProofs` | the theorems about `DirectionGuard` and its stop barrier |
| `SafetyNode`, `SafetyNodeProofs` | the safety node and its theorems |
| `SafetyReference` | the Python safety node, instantiating `SafetyNode` as the specification it implements |
| `Navigator` | `navigate()`, `cancel()`, the callbacks, the guard reduced to the phase of its lease, Nav2 as an external server |
| `Mission` | extends `Navigator` with the mission thread, the services, autostart and shutdown |
| `Vision` | the mission's client with its retries, both services, the sample buffers, the scene service |
| `Route` | the route document and everything that reads it, as operators |
| `RouteEditor` | extends `Route` with the editor and its file |
| `Chassis` | the chassis driver and the microcontroller's line |
| `DepthRelay`, `SimPreflight`, `SimPerception` | the relay of depth clouds; the simulation's odometry relay and sensor preflight; its perception monitor |
| `SimLaunch`, `SimTrial` | one bring-up of the simulation with its route; `SimTrial` extends it with the trial, its lock and the verdict |
| `ShortDrive` | the supervised drive and the calls it leaves under way |
| `StartupStatus` | the startup observer and the stack that answers it |
| `NavigatorProofs`, `MissionProofs` | the theorems about `Navigator`, and about `Mission` with it inside |
| `DriveToolsProofs` | the refinement of `SafetyReference`; the theorems about `ShortDrive` |
| `StartupProofs` | the theorems about `StartupStatus`, `SimPreflight` and `SimTrial` |
| `CameraProofs` | the theorems about `DepthRelay`, `Vision` and `SimPerception` |
| `RouteEditorProofs` | the theorems about `RouteEditor` |
| `MCDirectionGuard`, `MCDirectionGuardRest`, `MCSafetyNode`, `MCNavigator`, `MCMission`, `MCSimTrial` | model values and definitions for TLC |
| `MCVision`, `MCSensors`, `MCDriveTools`, `MCOperatorTools` | the same for several components in one run: a *scene*, chosen in the initial state, says which of them moves; the others stand still, and they share nothing |

`Mission` composes with `Navigator` by EXTENDS: Navigator's `worker` is the mission thread inside
`navigate()` and its `operator` is the stop service, or the main thread at shutdown, inside
`cancel()`, so every interleaving of the two modules is explored. `DirectionGuard` and
`Navigator` are not composed: Navigator keeps of the guard exactly the phase and the generation
of its lease (`StopLease`, `PrepareLease`, `ActivateLease`, `RenewLease`, `GuardRevokes`), which
is what `MotionGate` promises of it. In the same way `ShortDrive` and `StartupStatus` keep of the
safety node and the mission what `SafetyNode` and `Mission` show of them.

Operators whose comment begins with *Mistake* are plausible bugs kept beside the definition they
would break; no specification uses them. For each property of a passing run `PROJECT.json` names
one, and the property fails when it takes the definition's place.

## 3. How the models read the code

**DirectionGuard.** The node runs on a single-threaded executor, so a callback is one action: the
operation, the `evaluate` that follows it and the command published. The fields keep their names;
`out` is what the last step published. A request may quote any identity the node ever handed out
(`issued`), which covers requests that are late, repeated or sent by an operation that has given
up. A Stop needs no identity, as in the code. A twist is its signed linear speed, whether it
turns, and whether it uses one of the four axes that are refused. Time is counted in ticks of the
steady clock, so the branches for a clock that is invalid or runs backwards are left out, with
`stop_started_at_` (only compared in such a branch) and `status_` (only text). `Restart` is the
death of the process: a new boot epoch and an empty memory, while the requests under way live on.

**SafetyNode.** Again one action per callback. Commands are zero, within the limit, over it, or
not finite. `arrived`, `arrived_at`, `heard_at` and `tripped` are history: what came in,
regardless of what the node made of it. Voltage samples are good, low or not finite.

**SafetyReference.** The Python node from its own source, with its dictionaries of ages, its
status topic and its order of reasons. Its state is mapped to the variables of `SafetyNode` by
`INSTANCE ... WITH`, and every step is a step of the C++ node with the same input and the same
output. What is shown of one node holds of the other.

**Navigator.** A region under `_condition` is one action; between two regions, in every blocking
call and in every wait the others run. `thr[t].pc` names the place in the code a thread has
reached, `ret` and `after` the caller to go back to. A call of the guard puts a request in
`requests` and waits; if the call times out, the request stays under way with nobody waiting for
it (`CallTimesOut`), and requests are served in any order. A wait with a deadline may end at any
moment, as far as the fault `"deadline"` is on. `navigate()` and `navigate_through()` share
`_navigate_goal` and are one operation here. A lease is named by the generation, which no two
goals share. `nav.goal_pending` and `goal_handle` stand for the futures and the handle.

**Mission.** The mission thread between two questions to the stop event is one action. Start,
autostart, stop and reset share one service group, so no two handlers overlap, but a stop waits
inside `cancel()` and inside the join of the thread while the thread goes on. A segment is only
the task at its end. That a route is malformed, or its C-zone variant rewrites what was driven,
is an outcome (`"route"`); which route is so is the business of `Route`. A mission goes on in any
order of answers from QR and scene services that the configured retries allow; what those
services do is the business of `Vision`. Shutdown ends the executor first: no callback runs and
no answer is heard any more, but requests still reach the guard, the main thread calls `cancel()`
and joins the mission thread for a bounded time, and then the process ends, with the thread
wherever it is. A SIGINT in the middle of a stop or reset handler is taken after the handler.

**Vision.** The client of the mission with its reader process, its equal deadline and its retries;
the node whose two services share an exclusive group while the subscriptions are reentrant; the
two sample buffers; and the scene service behind HTTPS with each of its ways to fail. A tick is
coarse, `Transport` bounds what a message or a callback takes, and the ROS clock does not jump.
`Overrun` names how far an HTTPS exchange may exceed its own limit, here by what the client waits
beyond it (`Grace`); one that lasted longer would hold the group and make the next QR request
queue. A barcode from
a reader that was told to stop may come late; what the buffer makes of it is part of the model.
An `IncompleteRead` out of the HTTP library, which the node does not catch, is left out.

**Route and RouteEditor.** A position is a cell of a grid and a heading one of eight directions,
so that every rule that compares, orders, mirrors or completes waypoints can be evaluated exactly.
`Route` has the loader, the task node's checks with its test modes and variants, the mission's
checks and the goal factory. The editor is one thread of events; each handler is one action with
its trailing validation, history and RViz publication. A save goes through a temporary file and a
rename, and may fail or die at any point between; the rename and the reading back of the file that
follows it (`waypoint_drag_editor.py:1576-1582`) are one step, since a death between them leaves
the same file as one after. A new through point in a route without points fails after its push to
the history; two edits cannot empty the route, so only the proofs reach that branch. The editor
admits more than the others: a split always yields a route it then refuses to save, its direction
panel offers "reverse" although only forward routes are valid, and it does not ask which profiles
may share a segment nor whether the C zone is complete. `TakenRouteLoads` states these conditions,
and for no other reason does the task node refuse a route that the editor saves.

**Chassis.** One thread, the command topic and a timer of 5 ms. A frame is a header, one byte of
payload for all of them, their exclusive or and a tail. Every write and every read may be cut
short after any byte. The microcontroller is external: it either scans for a header as the
driver's parser does, or counts bytes from one and drops the whole of a bad frame; both occur. A
frame of the car has 24 bytes from it and 11 bytes to it; here both have four, and a check of one
byte as there. What the microcontroller sends may lose a run of its bytes or have one byte
changed, and its readings may equal header and tail. So bytes of a damaged frame and of the next
one can pass tail and exclusive or (`serial_frame.hpp:148`, `160-167`), are published as a frame,
and swallow the frame they end in. That is a limit of the frame format; the history `mimics`
records where it happens, by what was sent and not by what the parser made of it, and
`NewestFrameIsPublished` excepts the payload of those frames only. With one byte of payload no
remainder of a command turns the wheels by such an accident, as a remainder of 11 bytes might. A
pending frame may be put off while a backlog is read, and expires. The recovery stream may fail as
well; when it failed twice the node says that the stop state is unverified, and the property makes
the same exception and no other.

**DepthRelay.** One clock is both the relay's monotonic clock and the ROS clock of the camera. A
cloud is its frame, whether its layout is whole, its size and which of its points are finite; the
points looked at and the points sent on are computed as the code computes them.

**SimLaunch and SimTrial.** Time is left out: a wait may end by its deadline at any moment the
faults of the run allow. The helper's probe and its service call are separate steps, the manager
answers late, never, or with a refusal, and Nav2's nodes are active or not whatever it answered. A
node that was brought up may leave active at any moment after, in the middle of a probe too, and
come back (`NodeLeaves`, `NodeReturns`): the manager resets its nodes when it loses a bond, here
node by node. Nothing in the repository looks again after the probe, and goals are then served,
rejected or aborted as by any Nav2. The history `witnessed` holds the nodes that were active at
some moment of the last probe. In `SimTrial` a shell that dies leaves its simulation behind and
its lock free, and somebody may save parameters whenever the lock can be had.

**SimPreflight.** Samples come in any order, and a simulation that survived the cleanup may
publish on the same topics with a clock of its own; its messages carry stamps of that clock and
its clock message may be the one the preflight hears.

**SimPerception.** The world is a line with two cones; a frame that is displaced by one cell or
an odometry that is off by two stands for every transform that is wrong. Scans, clouds and the two
costmaps are computed from the world through the transform that was in force when they were taken.

**ShortDrive.** Each service call is a request that may be served in time, after its caller gave
up, or never. Around it are a car with somebody else's mission already under way, stalled by the
emergency stop, resets by an operator between missions, and topics that lag by a
bounded queue. The five watchdogs of the loop are one condition.

**StartupStatus.** A request is served late or never, its answer may come after it was given up
and asked again. The clock is coarse. What is heard, once the prearm has begun, is dropped as the
code drops it. The parameters of a scope are read when they are answered; the frames, the age of a
capture and the text of a status are one word each.

Operators whose names differ from the source's stand for a piece of a function; `PROJECT.json`
gives the lines of each.

## 4. Runs

Passing runs:

| Run | What it checks | What it shows |
| --- | --- | --- |
| `DirectionGuardMotion` | `MotionObeysLease`, `MotionIsFresh`, `CarRestsBeforeMotion`, `SmootherQuietBeforeLease` | seven kinds of candidates and all four directions over six ticks. The age of a forwarded command is bounded by *two* candidate timeouts, not one: a sample received while the lease was prepared counts as its first motion. The stop barrier holds even when a stop arrives twice or odometry has a gap |
| `DirectionGuardLease` | `LeasesAreUnique`, `GateSafety` | three uuids and the zero one, an invalid generation, a lease counter that wraps after two leases, a restart: no identity is reused, no late request revives one, the guard implements `MotionGate` |
| `SafetyNode` | `DriveFollowsNewestCommand`, `HoldIsQuiet`, `EmergencyStopReachesWheels` | every order of commands, samples, stops, holds and timer ticks over three ticks |
| `Navigator` | `OneGoalAtATime`, `NoLeaseForgotten`, `CancelFollowsRevoke`, `SuccessIsEarned`, `CancelTrueMeansStopped` | two goals, an operator's cancel at any moment, a late request and all faults: the claim of the class (`navigation_runtime.py:536`) and the order of revocation and cancel (`CHANGELOG.md:349`) hold |
| `Mission` | `QuietStates`, `ResetFindsTheCarStill`, `CancelStaysWithItsGoal` | two segments, a QR retry, autostart, two stops, start and reset, malformed routes: a mission that says IDLE, COMPLETED or STOPPED leaves nothing that could drive; "mission stopped" stays true until the next start |
| `MissionReturns` | `StopEndsMission`, `CallsReturn`, `ShutdownShutsGate` | no wait and no lock blocks a thread for ever, a stop ends the mission thread, and a node that is shut down, deaf and with a thread that may be killed anywhere, leaves no open gate behind |
| `Vision` | services: `SuccessIsFresh`, `DescriptionIsComplete`, `SampleInTimeIsServed`; perception: `ReadyIsOfThisWorld` | a retry is never served with the sample of the attempt it follows, and although client and server wait equally long a sample that came in its time is lost only to the time two messages take; the monitor's "ready" needs every stream to agree with the world |
| `SimTrial` | `VerdictIsRight`, `RouteStartsVerified`, `BringUpDecides` | ten kinds of failure in two runs with a save of the tuner between: no goal is sent before a probe of the same launch saw every node active (one may leave after it, and nobody looks), a verdict speaks of the parameters it names, no bring-up waits for ever |
| `Sensors` | `PreflightSawStreams`, `ActiveMeansFlowing`, `WheelsFollowNewestCommand`, `NewestFrameIsPublished` | what a preflight that succeeded has seen; what "active" means; the wheels after any cut of any write, for both kinds of microcontroller; that what is published keeps up with the newest whole frame through any cut of the reads, a damaged frame and a backlog, and is what was sent unless damaged bytes passed for a frame |
| `DriveTools` | `ReleasedOnlyUnderWatch`, `PassIsEarned`, `ImplementsCppNode` | the Python safety node implements the C++ one; the supervised drive keeps watch over what it released, whatever call was late |
| `OperatorTools` | editor: `StatusIsTrue`, `EditsAreUndoable`, `DiskRouteDrives`, `SaveWritesTheRoute`; startup: `PrearmIsEarned`, `KnowledgeMovesForward` | two entries of history from 49 documents with every event, failed saves and crashes between; the observer with requests that are late, lost and repeated |

`NavigatorFree` is the run that ends in a violation: it checks the sentence the navigator's
callers rely on, that a cancel which returned TRUE leaves the navigator free. It and the
disagreements that need no run of their own are in
[8](#8-where-code-and-documents-disagree).

Type invariants (`TypeOK` and its kin) are written beside each state. They are the first part of
the inductive invariants of section [7](#7-proofs), so no run repeats them; that of `Chassis` documents the
types.

Deadlock is checked for the guard, the safety node and `DriveTools`. It is off where the system
or the bound really stops: the goals, cancels and generations of `Navigator`, `NavigatorFree`,
`Mission` and `MissionReturns`; an observer that has ended and an editor out of edits
(`OperatorTools`); the horizons of `Vision` and `Sensors`, where also a chassis node ends; the
trials of `SimTrial`. `CallsReturn` asks what deadlock checking would of `MissionReturns`.

`CancelTrueMeansStopped` is deliberately narrow: it speaks of the goal `cancel()` found. After a
stop that fell into the gap of `mission.py:381` the next goal may well drive.
`CancelStaysWithItsGoal` explains why the unguarded verdict of `cancel()`
(`navigation_runtime.py:270-275`) is harmless in the task node: the stop event keeps a second goal
from starting while a cancel waits. It is a property of the composition; Navigator alone, driven
by a caller that starts goal after goal, does not have it.

`ReleasedOnlyUnderWatch` excepts a Ctrl-C, which is a finding, and a safety node that was not
there to be asked. `PassIsEarned` is checked for a car whose other mission, if there is one, is on
its last segment, and which an operator resets only between missions.

Two habits of autostart are worth knowing though no document denies them: up to sixty tries go on
while somebody else's mission runs, and after that mission was reset to IDLE the next try starts
one that nobody asked for (`OnAutostart` in `Mission`).

## 5. Bounds

| Bound | Value | Why it is enough |
| --- | --- | --- |
| `MaxTime` (guard) | 6 / 3 | `DirectionGuardMotion` needs settle (2), prepare, activate, one timeout before and one after; 6 leaves room for a second lease. The run about identities needs no aging beyond one timeout |
| timeouts of the guard | 1 or 2 ticks | each is crossed in both directions; settle 2 so that one sample at rest is not enough |
| `Candidates` | 7 / 2 | one per class the code distinguishes: zero, below the direction threshold, forward turning, reverse at the cap, turning reverse, reverse above the cap, unsupported axis; their signs cover the three directions |
| `LeaseModulus`, `Uuids`, `MaxBoots` | 3, 4, 2 | the counter runs out with uuids left; a second process meets the identities of the first. More leases per process add no new comparison |
| `MaxTime` (safety, `SafetyNode`) | 3 | one timeout of 1, the longer sensor timeout of 2, and a tick beyond each |
| `MaxTime` (safety, `DriveTools`) | 2 | a step of one node against a step of the other: what matters is that each timeout is met and missed |
| `MaxGoals`, `MaxCancels` (Navigator) | 2, 1 | hazards need a goal, its successor and one cancel that spans them |
| `MaxLate` | 1 | one request under way that nobody waits for; 2 was also run without a violation (6.2 million states) |
| `MaxGenerations`, `MaxCancels`, `AutostartTries` (Mission) | 2, 2, 1 | a start and a reset in either order, by hand or by autostart, with two stops |
| `Segments`, `QrRetries` | QR then return, 1 | the first task may fail, retry, succeed; the last segment has none |
| `MissionReturns` | 1 goal, 1 cancel, 1 generation | a wait that never ends needs no second mission; a stop and a shutdown use the same cancel, so it is one or the other |
| `Plans`, `Codes`, `MaxSamples` (Vision) | 2 orders of one QR and one scene task; 2 codes; 2 barcodes, 1 image | an attempt, its retry and the other service in the same group before or after; the sample before and the one after a threshold |
| `MaxTime` (Vision), `PerceptionHorizon` | 12, 3 | two attempts of 3 ticks with reader start-up and transport and the other service; a stream that is fresh, stale and back |
| `Cones`, `Frames`, `LocalReach` | 2 cones, 3 frames, 2 | one cone alone cannot be told from a displaced one, two can |
| `MaxRuns`, `MaxSaves`, `Nav2Nodes`, segments (SimTrial) | 2, 1, 2, 2 | a second run meets the first one's snapshot, lock and remains; one node may be active and the other not |
| `SimHorizon`, sample minima 3 and 2, `MinStreamSpan` 2 | 4 | enough samples too close together and far enough apart but too few both occur |
| `RelayHorizon` | 14 | a stale timeout of 5 twice with the publish interval between |
| frames (Chassis) | 4, of them 1 damaged, `ReadBudget` 6 | a budget smaller than two frames leaves a backlog; the damaged frame can be first, last or between |
| `Readings`, `Speeds` (Chassis) | 0, header, tail; header, tail, another | a payload that looks like a header or ends a false frame; the excepted case occurs, and without the exception the property fails |
| `HistoryLimit`, `MaxEdits` | 2, 2 | the history is filled to its limit; 49 documents stand for longer pasts |
| startup timeouts, `MaxElapsed` | 1, 2 | each request is given up and asked once more, and the answers come in either order |
| `MaxQueue` | 2 | a topic that lags by two states |

In `Mission` the fault kinds `"send"`, `"response"` and `"result"` are off to keep the run short;
`Navigator` has them on, and `MissionReturns` has `"result"`.

## 6. Fairness

- SafetyNode: the publishing timer is a wall timer of a node that spins; `WF(OnTimer)`. Nothing
  else is fair: neither messages nor the clock.
- Mission (`FairMissionSpec`): the mission thread, the handlers that are under way and the main
  thread at shutdown go on (`WF` of `MissionThread`, of the service steps, of `WorkerGoes` and of
  `CancelGoes` of each thread), and the process ends when its main thread is through; the guard's
  node, another process, serves what reaches it (`WF(GuardGoes)`); the two loops with a deadline
  (the retries of Prepare and the loop beside the moving car) end when it passes, as long as the
  process lives (`SF`, since the loop's other branches disable the step for a moment on every
  turn). Waits whose step is enabled throughout need `WF` only. Nothing is asked of Nav2, of the
  executor's callbacks or of odometry, so the liveness results hold for a server that never
  answers.
- SimTrial: the launch service, the helper and the manager go on (`WF`) as long as they live; the
  helper's overall deadline passes (`SF`: probes come between).
  Nothing is asked of the shell, the tuner or Nav2's nodes.
- The other modules state no fairness and have no liveness property.

## 7. Proofs

Checked by TLAPS, for all values of the constants that the modules' assumptions admit:

| Module | Inductive invariant | What follows from it |
| --- | --- | --- |
| `DirectionGuardProofs` | `LeaseInvariant`, `RestInvariant` | the properties of the lease; the guard implements `MotionGate`; the stop barrier: `CarRestsBeforeMotion`, `SmootherQuietBeforeLease` |
| `SafetyNodeProofs` | `SafetyInvariant` | `DriveFollowsNewestCommand`, `HoldIsQuiet`, the throttle |
| `NavigatorProofs` | `NavigatorInvariant` | `OneGoalAtATime`, `NoLeaseForgotten`, `CancelFollowsRevoke`, `SuccessIsEarned`, `CancelTrueMeansStopped` |
| `MissionProofs` | `MissionInvariant` | `QuietStates`, `ResetFindsTheCarStill`, `CancelStaysWithItsGoal`, `ShutdownShutsGate` |
| `DriveToolsProofs` | `ReferenceInvariant`, `DriveInvariant` | the Python safety node implements `SafetyNode`; `ReleasedOnlyUnderWatch`, `PassIsEarned` |
| `StartupProofs` | `StartupInvariant`, `PreflightInvariant`, `TrialInvariant` | `PrearmIsEarned`, `KnowledgeMovesForward`; `PreflightSawStreams`; `VerdictIsRight`, `RouteStartsVerified` |
| `CameraProofs` | `DepthInvariant`, `VisionInvariant`, `PerceptionInvariant` | `ActiveMeansFlowing`; `SuccessIsFresh`, `DescriptionIsComplete`; `ReadyIsOfThisWorld` |
| `RouteEditorProofs` | `EditorInvariant` | `StatusIsTrue`, `EditsAreUndoable`, `SaveWritesTheRoute` |

All are about the specification of the component, under no fairness and with the bounds (goals,
cancels, restarts, time) arbitrary naturals. A proof is laid out alike in every module: lemmas
about the operators, one lemma per action (the parts of the invariant an action disturbs have a
step each, the others one together), the invariant, the properties.

*Assumptions.* Those the modules declare. Candidates are twists with integer speed; the zero
threshold is not above the direction threshold (`safety.yaml` has it so; the constructor does not
check the relation); timeouts are natural numbers; the modulus of the lease counter is at least
2; `None` is none of the other values. A route is a sequence of segments. The documents an editor
may find on disk parse (`IsRoute`: sequences of waypoints and of segments with their fields); whether
they load is not assumed, `OpenEditor` asks. In the perception
monitor's world the cones are finitely many points and `FramesAreTold`: a frame that is displaced
does not lay enough cones on cones to be accepted, which TLC
evaluates on the field of the run and which a field that repeats itself would not satisfy.

*The lease.* `MotionObeysLease` and `MotionIsFresh` are not inductive: they speak of the last
output, while the next output is computed from fields they do not constrain. `LeaseInvariant` adds
(1) `LeaseFields`, the optionals agree with the phase; (2) `CandidateFields`, the candidate, its
stamp and the quiet time agree; (3) `HeldCandidateScreened`, a held candidate has passed every
screening of the current lease (in phase Prepared the direction is screened again at activation);
(4) `WatchdogArmed`, held motion is always under the candidate watchdog, and was received under
the lease at most one timeout before the activation. The last one is what gives the bound of two
timeouts. `Stop` and `Restart` share `ResetStep`, and every latched fault is `FaultStep`.

*Identities.* `LeaseBookkeeping` connects what was issued with the counter and the consumed uuids:
every number issued in this process is below the counter, unless the counter has wrapped to 0,
and then nothing more is issued. With it `LeasesAlwaysUnique`, `HolderAlwaysNewest` and
`RevokedStaysRevoked` follow from `IdentitySteps`, which sorts all steps into four kinds.

*Refinement of the gate.* `GuardImplementsGate` proves `Spec => Gate!Spec`: `Prepare` is `Grant`
or a fault, a successful `Activate` is `Open`, forwarding is `Pass`, everything else shuts the gate
or holds.

*The stop barrier.* The two properties speak of history variables that the guard does not read.
`RestInvariant` adds that the guard's own memory is never more favourable than the history: its
rest time starts no earlier than the car was last seen moving (`OdometryFollows`), its quiet time
no earlier than the smoother last asked for motion (`QuietFollows`).

*Safety node.* `SafetyInvariant` is the type invariant, the two properties and `CommandMemory`: the
last command still worth repeating is the newest message, and the latch is the history's.
`ThrottleAlwaysHidesLittle` (lemma `ThrottleStep`): the age the node sees of a throttled sensor
exceeds the true one by less than one interval.

*The Python safety node.* `ReferenceImplements` proves that every step is a step of `SafetyNode`
under the refinement mapping or leaves it alone. `evaluate()` asks a sequence of questions and
answers with the first that says yes; the C++ guard is a conjunction. `AllowedIs` and `SameVerdict`
show by induction along the questions that they agree. What is proved of the C++ node so holds of
the Python one.

*Navigator.* `NavigatorInvariant` has eleven parts beside the types, each a sentence about two
places that hold the same fact: the threads and the lock (`LockFollows`), requests and replies
under way (`RequestsFollow`), goals of Nav2 and the handles that know them (`GoalsFollow`,
`HandlesFollow`), the callbacks still to come (`CallbacksFollow`), the guard's lease and the
navigator's book of it (`LeasesFollow`), Stops sent and acknowledged (`StopsFollow`,
`StoppingFollows`, `SettlesWhatEnded`). `OneGoalAtATime` needs nearly all of them: a second goal is sent
only behind an acknowledged Stop and a settled result of the first one, and neither can be read
off the navigator's own fields while answers are late.

*Mission.* `MissionInvariant` contains `NavigatorInvariant` as long as the node lives. The mission
reads little of the navigator, so the proof first states what the navigator's actors leave alone
and what keeps a lease shut that a shutdown revoked; each action of `Mission` then needs only
those facts. `CancelStaysWithItsGoal` is the least obvious of its results: `cancel()` never asks
whether the goal is still its own; that it is follows from the order of the mission thread's calls alone.

*Supervised drive.* `DriveInvariant` relates the phase of the drive to its watch, to the release
of the emergency stop and to the missions it may take for its own. `MissionFollows` carries
`PassIsEarned`, with `StatesFollow`: a NAVIGATING that is heard or still queued is never of the
mission before the test, so a COMPLETED heard behind it is of the test's own.

*Startup observer.* `MomentsFollow`: what is known of a node was served before the outstanding
request to it was sent, so an answer that still counts cannot be older. `LatchingFollows` and
`ResetFollows` tie the reset of the origin to the stop latched before it.

*Simulation.* `TrialInvariant` chains the gates of a bring-up (`GatesFollow`), shows that the
helper's answers add up within one probe and no further (`NodesFollow`), relates what the runner
wrote to what Nav2 drove (`RunnerFollows`, `ResultsFollow`) and says that nobody changes the
parameters while a trial holds the lock (`LockFollows`); the verdict then is right both ways.
`PreflightInvariant`: a stream counts no more samples than it heard different moments.
`PerceptionInvariant`: a registration counts cones that lie on cones, and a displaced frame has
fewer of them (`MatchedTellsFrame`, through cardinalities).

*Depth relay.* `FlowFollows`: the relay's lifecycle, its subscription and its watchdog agree. The
points sent on are counted through a surjection (`SpreadIsSmall`), for any size of cloud.

*Vision services.* `CallFollows`: whatever carries the number of the current call is of that call,
and nothing carries the number of a call not yet made, with answers to given-up calls under way in
any number and order.

*Waypoint editor.* `EditorInvariant` says of an open editor that what is selected or dragged still
points into the route (`IndicesFollow`, which the handlers rely on without asking), that a drag
that has moved left an entry in the history (`HistoryFollows`), and that a save under way writes the
route as it stands (`SaveFollows`). Each handler has a lemma; an edit keeps the invariant if it
leaves a route that parses, indices that point into it, and pushed the old one (`EditKeeps`). For
`SaveWritesTheRoute` a saved document has to load again and show the same route
(`SavedRouteLoads`): the order of the segments yields each waypoint once, since the names are
distinct and as many on either side (cardinalities), headings that the save removes leave the
route valid, and putting a route in order that is in order changes nothing (`SavedStaysForward`,
`OrderedIs`). Flattened sequences are handled by what their recursion does in each step (`FlattenIs`).

*Checked by TLC first.* Each invariant was an `INVARIANT` of a run before it was proved, with no
error: `RestInvariant` in 595 840 distinct states; `NavigatorInvariant` in 2 241 648 with two goals,
one cancel, one late request and every fault; `MissionInvariant` in 3 224 254, 152 366 and 1 127 317;
`ReferenceInvariant` and `DriveInvariant` in 984 817; `StartupInvariant` and `EditorInvariant` in 309 545;
`PreflightInvariant` and `DepthInvariant` in 2 186 247; `VisionInvariant` and `PerceptionInvariant`
in 1 838 082; `TrialInvariant` in 617 477. Several needed strengthening there: `ResultsFollow` had to
say when the runner is done, `VerdictFollows` had to be added beside `VerdictIsRight`.

*Only model-checked.*

- Liveness, which is out of the prover's reach, as is ENABLED: `EmergencyStopReachesWheels`,
  `StopEndsMission`, `CallsReturn`, `BringUpDecides`, `SampleInTimeIsServed`.
- `Chassis`: it takes exclusive or from Bitwise, which the prover cannot use.
- `DiskRouteDrives` of `RouteEditor`: it is about the sample of documents it is checked on, since
  not every document that parses drives.

## 8. Where code and documents disagree

| Where | What |
| --- | --- |
| `navigation_runtime.py:508` (run `NavigatorFree`) | a cancel that times out, then a late result, then a cancel that returns TRUE: the navigator stays active for ever and only a restart of the node helps |
| `direction_guard.cpp:453` | the comment on `permit_timeout_sec` gives a positive value a meaning; the code validates the parameter and never uses it. A lease whose holder has died is ended by the candidate watchdog or not at all |
| `mission.py:428` | README and deployment guide promise a fallback route when the QR code cannot be read; the mission fails instead |
| `navigation_runtime.py:370` | the changelog says that a revoked lease is enough for the next segment; the code still waits for `/odom` and poisons the navigator when it does not settle |
| `mission.py:381` | a stop just before the navigator becomes active is answered "terminal confirmation pending", but nothing was asked to stop and the car drives the goal to its end. The stop is honoured after that (`StopEndsMission`) |
| `waypoint_drag_editor.py:783` | a via point may get the name of a C-zone point before the QR point; the mission then fails when the QR code asks for the clockwise variant |
| `waypoint_drag_editor.py:675` | six edits change the route without publishing it to RViz, which is said to mirror it |
| `sim_perception_monitor.py:799` | a fresh depth cloud whose transform is missing ends the monitor with a TypeError |
| `sim_sensor_preflight.py:168` | one stale first sample followed by a pause counts as a second of stream |
| `nav2_lifecycle_startup.py:185` | a refusal that comes while a probe is under way is never read |
| `auto_train.py:395` | the handler of an invalid route raises itself, and no result is written |
| `auto_train.py:262` | a goal accepted late is reported as rejected and goes on driving |
| `tune_params.py:240` | the parameters are read before the lock is taken: two tuners overwrite each other |
| `depth_pointcloud_relay.py:175` | a cloud with no finite point among those sent on may pass, one with many may be refused |
| `short_drive_test.py:550` | a Ctrl-C leaves the emergency stop released; a latch that fails is only logged |
| `steering_hold.py:100` | a cancel after an unanswered hold cancels nothing |
| `nav_status.py:958` | PREARM_READY says that nothing is missing without looking again |

The texts with their quotations are in `PROJECT.json`.

## 9. Not modelled

- In Navigator: `get_result_async` or `cancel_goal_async` raising, goal construction, the wait for
  the action server (in Mission it is one outcome of `Navigate`). In Mission: the motion gates
  asked before a start, publishers that raise once the context is shut down, a SIGINT in the
  middle of a stop or reset handler.
- In Chassis: Twist mode (the same with another payload), scales and calibration, the gyro bias,
  the integration of the pose, statistics, steps of the clock.
- In the validator of results: the schema's version, the input manifest with its hashes, and the
  age of a result (`validate_sim_results.py:197-217`). Each run of a trial names its result file for
  itself and removes it before (`sim_tune.sh:131-136`), so a result of an earlier run is none of
  the trial's states; the check of age serves a use by hand.
- In the simulation: the adapter's scan mode, a twist relay wedged by a reset of Gazebo's clock,
  malformed costmaps and messages, the tuner's text menu, Gazebo, world and model files.
- Vision: a ROS clock that jumps, image encoding, the prompt, the credentials' file.
- The startup observer's vision services and RViz process, asked as the task services are.
- Nav2, behaviour trees and their configuration: external. The behaviour tree node is a stateless
  filter on a path; the stack probe only reads.
- `route_preflight.py`: a geometric search without state. Displays and offline analysis only read.
  `steering_hold.py` is one call and its cancel; `steering_circle_drive.py` renews a lease that
  `DirectionGuard` models.
- The car's launch files and message definitions: declarations without control.
- Speeds, angles, real-valued geometry, costs: data that no property tells apart beyond its class.

## 10. Plan

Done: every component with control of its own is modelled; every safety property of a run is proved
but those of `Chassis` and `DiskRouteDrives`.

Left, in this order:

1. `CommandChain`, a composition of guard, safety node and watchdog: from the end of a lease to a
   stop at the wheels within the sum of the timeouts.
2. An abstract navigator (one goal, requested, running, ended, stopped) that `Navigator`
   implements; `NavigatorInvariant` is what its refinement proof would rest on.
3. Proofs about the serial line, with exclusive or written as a function on bits.
4. Longer bounds where a faster machine allows them: a second mission after a reset in `Mission`,
   three edits in `RouteEditor`.
