# HomeRover: a TLA+ development

HomeRover drives a rover over the internet: a *controller* with a joystick and a
*rover* with cameras and motors set up a WebRTC connection through a *relay
server*, send video one way and joystick data the other. This directory holds
TLA+ modules that model the programs, TLC configurations that check them on
small instances, and TLAPS proofs of what holds for every instance.

All paths below are relative to the repository (`base/service.go` is
`src/base/service.go` in `PROJECT.json`).

## 1. The system

| Part | State it keeps | Operations |
|---|---|---|
| `base.Service` (`base/service.go`) | the TCP connection to the relay; four channels of capacity 1: `SendCh`, `SDPReqCh`, `RemoteSDPCh`, `WebrtcEndSignal` | `InitConn`; goroutines `Send`, `ServerRecv`, `SignIn` |
| rover (`rover/service.go`) | the above; one goroutine per WebRTC session; UDP port 5004 in CLI mode | `Run` (start a session, wait for a request, post an end signal, sleep, repeat); `webrtc`, `webrtcGstreamerCli`; `cmdService` |
| controller (`controller/service.go`) | the above; one goroutine per session | `Run` (ask for a session, then the same loop driven by offers); `webrtc`, `webrtcGstreamerCli` |
| relay (`server/service.go`) | tcpx's pool: user name -> connection | handlers `online` (1), `offline` (3), `send` (5) |
| command path (`joystick/`, data channel handlers, `rover.cmdService`) | channels `joystickData`, `joystickDataCh`; one `OnOpen` loop and one data channel per session | read the stick, send over the data channel, forward by UDP |
| driver (`driver/*.py`) | PCA9685 registers | stick values -> pulses -> registers, one register at a time |
| pipelines (`gst/`) | a map of pipelines and its lock; GStreamer's streaming threads | create, start, stop, buffer callbacks, bus errors |
| forwarding (`controller/service.go:199-269, 345-374`) | one UDP socket per track, one `err` for all | write each packet, forgive a refusal; run gst-launch |
| start-up (`models/config/`, `main/`) | the settings | read ini files, log errors or panic, start the joystick and the service |
| codecs, helpers | none | pure functions, most without a caller |

### How the parts interact

A controller starts by putting a request into its own `SDPReqCh`; its `Send`
turns that into message 5 (`SDPReq`) to the relay, which forwards it as message
6. The rover's `ServerRecv` puts it into the rover's `SDPReqCh`. There the
rover's `Run` should take it: it posts an end signal for the running session,
sleeps a second and starts the next one. That session makes an offer, waits for
the answer on `RemoteSDPCh` and streams. The controller's session waits for an
offer on *its* `RemoteSDPCh`, answers, and serves.

What makes this hard:

* **Shared receivers.** `Send` and the rover's `Run` both receive from
  `SDPReqCh` (`base/service.go:77`, `rover/service.go:379`). A request may be
  taken by `Send`, which returns it to the controller, whose `Send` returns it
  again. In CLI mode the controller's `Run` and its session both receive from
  `RemoteSDPCh`.
* **Anonymous signals.** An end signal, an answer or an offer goes to whichever
  session reads the channel first, not to the one it is meant for.
* **A sleep as synchronisation.** `time.Sleep(time.Second)` is all that keeps the
  next session from reading the last one's signal.
* **Channels of capacity 1** everywhere, so each send may block a goroutine that
  others wait for.
* **Process exits**: a read error is `os.Exit(0)`, almost every other error is
  `panic(err)`; nobody sends the heartbeats the server asks for every three
  seconds (`server/service.go:48`), so a connection may end at any time.
* **Loops that outlive their session.** An `OnOpen` loop has no way out: it goes on
  taking readings from `joystickData` after its data channel has closed, and
  panics with the first one (`controller/service.go:121-127`).
* **Foreign threads.** GStreamer calls back from a streaming thread, for which
  `Stop` waits while the callback may wait for `pipelinesLock`
  (`gst/gstreamer-src/gst.go:108`).
* **A shared variable.** The `OnTrack` handlers of both tracks store and read back
  the session's `err` (`controller/service.go:256-266`), in which the session's own
  goroutine stores what `Close` returns (335).
* **Sources that owe nothing.** gst-launch may send no packet, the stick no report:
  who waits for one (`rover/service.go:234`, `joystick/joystick.go:71`) looks at
  nothing else meanwhile.
* **Hardware that shows half-written state.** A pulse is four register writes,
  and a crash between them leaves it standing.
* **Errors that are only logged**, at start-up in particular: main goes on with
  what a reader returned along with its error.
* **The relay** asks `IsOnline` first and looks the user up again to send; a
  connection's end is noticed later and unregisters its user by name.

### What makes each part correct

* `base.Service`: no message is lost, doubled or blocked for ever between a
  channel and the connection.
* rover and controller: sessions do not pile up and do not all disappear; in the
  end one session is left and `Run` listens.
* relay: each message is delivered once and in order, or its sender is told.
* the whole: requests are neither lost nor multiplied; a description is applied
  once; two ends that stay online meet.
* command path: the newest stick position reaches the driver, and an ended
  session neither takes data nor takes the process down.
* driver: what the chip shows at rest is one stick position's pulses, what it
  shows in between is near; no position leaves the frame.
* pipelines: a frame reaches its own track or none, and ending a session ends.
* forwarding: somebody who is not watching does not end the controller.
* start-up: a program never runs on settings nobody asked for without saying so.

## 2. Modules

| Module | What it is |
|---|---|
| `SessionSupervisor` | abstract: what a `Run` loop promises. Counts of sessions and unread signals, nothing else |
| `BaseService` | `base.Service`: state of a process, `Send`, `ServerRecv`, `SignIn`, start and end of a process |
| `RoverService` | the rover's `Run` and both session functions |
| `ControllerService` | the controller's `Run` and both session functions |
| `RelayServer` | the relay's handlers and the pool of users |
| `RoverAlone`, `ControllerAlone`, `RelayAlone` | each component closed with the most general environment; its properties |
| `HomeRover` | rover + controller + relay, composed |
| `CommandPath` | from `Joystick.Run` to the driver's UDP socket, for overlapping sessions |
| `Datagrams` | what the rover sends the driver: four signed bytes |
| `Actuator` | abstract: what the driver promises the command path |
| `Driver` | `drive.py` and `PCA9685.py`: arithmetic and register writes. Implements `Actuator` |
| `Teleop` | `CommandPath` composed with `Actuator`; properties from stick to driver |
| `MediaPipelines` | the pipelines of the rover's `webrtc()` sessions; uses `SessionSupervisor` for the sessions |
| `Startup` | ini readers, main, joystick start, `InitConn`, `SignIn` of the three programs |
| `Forwarding` | `OnTrack` forwarding and `startGstreamer` of the CLI controller |
| `Programs` | `Startup` composed with `Forwarding`; their properties |
| `MC*` | instances for TLC |
| `ServiceProofs` | lemmas about the steps of one process, for any environment |
| `RoverAloneProofs`, `ControllerAloneProofs`, `RelayAloneProofs`, `HomeRoverProofs` | theorems about the signalling |
| `TeleopProofs` | theorems about `Teleop` and `Driver` |
| `MediaPipelinesProofs` | theorems about `MediaPipelines` and the `SessionSupervisor` in it |
| `ProgramsProofs` | theorems about `Programs` |

### From code to model

* A **process** is an element of `Rover` or `Controller`; a restarted program is
  another element with the same user name (`Id`), started after the last one
  ended. `proc` says whether it has not started, is up, or has ended. Which
  element is started first makes no difference to the code; the constant
  `Earlier` fixes an order in the runs with several, so that TLC does not look
  at renamed copies of one behaviour. `GstreamerCli` is the set of processes
  whose configuration sets it.
* A **session** is one call of `webrtc()` or `webrtcGstreamerCli()`, numbered in
  the order `Run` starts them. Its `stage` is its program counter between
  blocking operations: rover `starting`, `listening` (CLI: port and first RTP
  packet), `offering` (before `SendCh <-`), `waiting` (for an answer),
  `streaming`, `closing` (the end signal has been read; `Close` and the deferred
  `listener.Close` are still to come, so a CLI session holds its port);
  controller `waiting`, `answering`, `serving`, `done` (CLI: after `ctx.Done`);
  and `closed` once `runtime.Goexit` has run. A controller's session goes from
  reading its signal to `closed` in one step: it holds nothing in between that
  another session or `Run` could miss.
* **Run**: `run[c].pc` is `spawn` (loop head), `select`, `mainloop` (inside
  `gst.StartMainLoop`, which does not return), `signal` (before
  `WebrtcEndSignal <- true`) and `putback` (before `RemoteSDPCh <- remoteSDP`).
* **Channels** are sequences of at most `ChanCap` = 1 elements. `outbox` and
  `inbox` are the two directions of the TCP connection, of at most `SocketCap`
  messages before a write blocks.
* **Steps.** One action per blocking operation, together with the local work up
  to the next one. `Send`'s receive and write are one step: nothing else can see
  what it holds in between. `ServerRecv`'s read and its channel send are one
  step: until the channel has room it is blocked and reads nothing further. The
  relay's `send` is two steps, `SendOnline` and `Forward`, since the pool may
  change between its two look-ups.
* **Handlers.** `RelayStep` is every handler; `Serve` is all but `Offline`, which
  is what can happen in `HomeRover`: neither program ever sends message 3.
  `RelayAlone` has clients that do.
* **Data.** An SDP is `[type, from, re]`: the session that made it, and for an
  answer the session whose offer it answers. Which one is applied is what the
  properties are about; its text is not. The `message` text that accompanies a
  request is whatever `Send` sent last and is never read: it is `None`.
* **Failures.** `Exit` is a process losing its connection or panicking, at any
  time. What it had written reaches the server up to any point. The relay
  notices the end of a connection later (`ConnClosed`). `tcpx` is not in the
  repository: it may unregister by name or by connection, so both happen.
  `RoverPortConflict` and `ControllerTrackPanic` are the panics that the code's
  own behaviour leads to.

**CommandPath, Teleop.** Stick positions are numbered in the order the stick takes
them; `Report` maps a number to the device's report, and `ReadOnce` to the four
bytes that travel. `ReadStick` returns a report that is not older than the last
(`reported`) and need never happen: the read blocks until the device has one, and
a reading that fails is one that does not happen. What is under way is the number with its session, so that
order can be spoken of; the driver gets the bytes. `reading` is what `Run` holds
before `js.Data <-`, `loop[s]` what an `OnOpen` loop holds before `d.Send`,
`handler[s]` what an `OnMessage` call holds before `joystickDataCh <-`. Data
channels are reliable and ordered until they close, when a suffix of what is
under way is lost. `cmdService` loses a datagram when the driver is not there or
its socket buffer is full, and one more when the kernel answers the next `Write`
with the refusal of the last (`refused`). When the process of either end goes, pion notices
later: `ChannelCloses` is a step of its own.

**Driver.** Arithmetic is exact: 1/128 us and 1/128 degree, with Python's `int()`
as integer division of a positive number. `phase` and `step` are the program
counter between two `write_byte_data`; `DriverDies` may come between any two.
The chip updates a channel with each register write and starts with all
channels fully off.

**MediaPipelines.** A session is at `waiting`, then at `create`/`creating` (in
`CreatePipeline`, which has the lock), `start`, `streaming`, `stop`/`stopping`
(inside `gst_element_set_state(.., NULL)`), `close`, `gone`; `kind` tells audio
from video. A streaming thread is `idle`, has a `sample` (before the look-up), or
is at `write`. Three facts about libraries are assumed: setting a pipeline to
`NULL` waits for its streaming thread; the camera (the default `-video-src`) can
be opened once; `WriteSample` fails once the peer connection is closed.

**Startup.** A file maps each key to a value, `Missing` or `Bad`. One step per key:
between two of them nothing else runs yet, but where the reader stops matters.
`logged` is set where main logs an error. The joystick's goroutine is `run`
until its first reading, then `reading`, or `mute` on a nil ticker.

**Forwarding.** One session with its goroutine (`session`) and a handler per track.
`err` is an interface, two words: whoever stores into it does so in two steps, and
a handler tests and checks it in two more. Until its answer is sent the session is
alone with `err` (no track starts before), so of its stores only that of `Close`
(335) is apart. The kernel reports "connection refused" with the next write on a
connected UDP socket, and then forgets it; a `Write` may fail in another way at any
time, and does once the deferred `conn.Close` has run. `track.Read` fails after
`Close`. `stored` and `faults` remember who has stored an answer and which ones
were no nil: they are there for the properties and guard nothing.

## 3. What TLC checks

All configurations set `CHECK_DEADLOCK FALSE`: when every process has settled or
ended, the system rightly waits for an outside event that need not come.

| Run | Instance | What it shows |
|---|---|---|
| `rover_alone` | a non-CLI rover that may exit and its CLI successor that nothing outside ends, 3 requests, socket of 1; 1 173 000 states | `TypeOK`; `RoverBalanced`: one session per unread signal, one more unless `Run` is about to start it; `Supervised`: the first refines `SessionSupervisor`; `Settles`: in the end one session that has not closed, no signal, `Run` listening; `DiesOnlyWhileEnding`: the process is lost to port 5004 only while an end signal is unread or its reader is closing |
| `rover_cli_restart` | CLI, sleep suffices | **violated**: `RestartKeepsProcess` |
| `controller_alone` | CLI controller that may exit, 3 offers, socket of 1; 135 000 states | `TypeOK`, `ControllerBalanced`, `Supervised`; `OffersKept`: no offer lost or used twice between `ServerRecv`, `Run` and the sessions; `PutBackEnds`: `Run`'s put-back ends if at most two offers come |
| `relay_alone` | two connections of one user, one of the other, 2 sends each, socket of 1; 633 000 states | `TypeOK`; `Accounted`: nothing lost or doubled while the recipient's user stays; `InOrder`; `Drains`: a handler waits for nobody but the connections it writes to, though any client may stop reading for good |
| `home_rover` | rover, three controllers in succession of which the first two may end, socket of 1; the usual schedules (below); 988 000 states | `TypeOK`, `MisledByThePast`, `Meets`; `RequestsSettle`: in the end no request is under way, unless some `ServerRecv` is choked |
| `any_schedule` | rover that may end, a controller that may end, its successor, socket of 2, every schedule; 649 000 states | `ClientsBalanced`, `RequestBudget`, `OneCopy` |
| `teleop` | two stick positions, two sessions, wire and socket of 1; 397 000 states | `TypeOK`; `SessionOrder`: a session never brings an older position after a newer one; `DriverFollows`: connected for good and with a stick that keeps reporting, the driver ends up doing what the stick asks; `EndOfSessionIsFatal`: while the stick is read, a closed data channel in the end takes the controller down |
| `driver` | 25 datagrams, every pairing of -128, -1, 0, 1, 127 on each axis; about 60 000 states | `DriverTypeOK`; `Settled`; `PulseBounded`; `TurnBounded`; `TornPulseNear`; `Actuates`: implements `Actuator` |
| `media` | two sessions, signal capacity 1; about 17 000 states | `TypeOK`; `OwnTracks`; `NoLateWrite`; `CameraTakenOnlyEarly`; `EndingEnds`: Stop and the lock do not deadlock; `VideoFlows` |
| `programs` | three programs, files with one odd key; 1 621 000 states | `QuietStart`: nothing logged, every setting as written or default, and never a mix; `StickLives`: a serving controller reads its stick or ends, unless its rate is unusable; `LoneRefusalForgiven`: a refused packet is fatal only if another goroutine stores into the same `err` or another call fails |
| `forwarding_refused` | the same | **violated**: `RefusalsForgiven` |
| `new_sdp` | rover and controller, non-CLI | **violated**: `NewSDPRestarts` |

### Bounds, and why they are enough

* Three requests or offers: one is held by `Run`, one by the channel, one blocks
  `ServerRecv` behind them. A fourth waits where the third does. Two sessions
  can overlap by `LiveBound`; three requests start four sessions one after
  another.
* `SocketCap` is 1 where blocked writes are the point and 2 in the composition,
  so that messages queue behind each other there too.
* One rover, three incarnations of the controller: a predecessor's registration,
  requests and answers meet the successor, and with the third a request is left
  that can stand behind the SDP which chokes a `ServerRecv`. With a socket of 1
  the relay's handler is then stuck as well. `MayExit` names the processes that
  may end; the others are "a process that stays online" in `Meets`. Without the
  timing assumptions two controllers and a socket of 2 are what TLC finishes; the
  properties of `any_schedule` are proved for any number.
* `rover_alone` has one rover of each kind, one after the other, so that the run
  shows the port as well as the refinement.
* `teleop`: two sessions are what the `Run` loops leave standing; two positions,
  since order needs an older and a newer one, and everything between them holds
  one element. The proofs about the driver cover all positions.
* `driver`: arithmetic is monotone in each axis, so extremes, rest and its
  neighbours are where it can go wrong; the theorems cover every byte.
* `media`: one session that ends and one that follows meet in the lock, the map
  and the camera. The safety properties are proved for any number.
* `programs`: a reader stops at the first bad key, so one odd key per file is
  enough; numbers are at the boundaries 0, 1, 10^9 and beyond them.
* Nothing is counted without bound but sessions, and those are bounded by the
  controllers that are started (`RequestBudget`, and the theorem `SessionsPaid`).
* Every invariant and every action property of a passing run is also proved
  (section 4), so what rests on the bounds is liveness.

### Two timing assumptions

Both are constants, `FALSE` in all runs but `home_rover`, `new_sdp` and, the second of
them, `rover_cli_restart` (where they make the counterexample stronger: it is not a
freak schedule).

* `SignInFirst`: `SignIn`'s write comes before anything `Send` writes. The code
  starts `Send` first (`controller/service.go:384-388`). Otherwise the request
  may be handled before its sender is registered, and the offer it causes is
  dropped as "offline".
* `SleepSuffices`: a session that can end within the second `Run` sleeps has ended,
  closed its connection and given up its port. Who cannot is a `webrtcGstreamerCli`
  session that waits for a packet or an answer. Without the assumption the new
  session may read the signal, or find the port still taken by one that closes.

`Meets`, `RequestsSettle` and `MisledByThePast` are checked under them; `any_schedule` shows what
holds without them.

### Fairness

Weak fairness for each goroutine: a Go goroutine that can go on does. `Send` is
one fairness condition over both of its `select` cases, a session one over all
its steps, since each is a single goroutine. Strong fairness for the rover's
`Run` taking a request: `Run` and `Send` wait on the same channel, waiters are
served first come first served, so `Run` is not passed over for ever. Strong
fairness too for the rover's `Send` taking an SDP: requests keep coming back to
its other case, and `select` chooses among its ready cases at random. No
fairness for what is outside: starting and ending a process, requests and
answers of an environment, remote tracks, the packets of gst-launch, loss of ICE.
In `relay_alone` only the relay's handlers are fair: a client's `ServerRecv` may be
blocked for good on one of its channels (`base/service.go:152`, 154), so its
reading is owed by nobody, and `Drains` says for which senders that matters.

In `teleop` the loops' receive from `joystickData` is strongly fair for the same
reason: a loop that waits is served before one that comes later. `ReadStick` has no
fairness: `js.device.Read` waits for a report that the device need not send.
`DriverFollows` and `EndOfSessionIsFatal` say what they need instead, that the stick
is read again and again, and `DriverFollows` that it reports its last position again
and again: one report can be lost for good. In `media`
streaming threads, sessions and the GLib main loop go on when they can and
sources deliver samples; nobody need answer or ask. In `programs` main and the
joystick's goroutine go on, but `js.Init` may wait for the user for ever.
`driver` states no fairness: it has safety properties only.

### Disagreements with what the code says

1. `new_sdp`: `controller/service.go:160` logs "got new SDP, webrtc will
   restart". Without `gstreamerCli` the `Run` loop never gets past
   `gst.StartMainLoop()` (399), so no new SDP ever restarts it; a second offer
   stays in `RemoteSDPCh`, a third blocks `ServerRecv`.
2. `rover_cli_restart`: `rover/service.go:309` logs "webrtc exit signal got,
   restart webrtc". A CLI session that still waits for its first RTP packet (234)
   or its answer (279) does not look at the signal and holds port 5004; the next
   session's `ListenUDP` fails and the rover panics. The run's counterexample has
   the first of the two.
3. `forwarding_refused`: `controller/service.go:257-262` says that the forward must
   not be killed on "connection refused". It is when another goroutine stores into
   `err` between the test at 256 and the check at 263: the other track's handler,
   whose packet somebody did watch, or the session's, whose `Close` returned nil.
   `LoneRefusalForgiven` states what is left of the intention.

Two more that are not runs of their own:

4. The same log line as in 1, and the loop around it (`controller/service.go:394-408`),
   are about restarting a session. `EndOfSessionIsFatal` shows that the restart ends
   the controller: the `OnOpen` loop of the old session goes on receiving and panics
   at its closed data channel (126, 297) with the first reading it gets. The property
   holds of the code; it is the intention that does not.
5. `conf/rover.ini` and `conf/controller.ini` set `gstreamCli`, the code reads
   `gstreamerCli` (`models/config/common.go:102`); `conf/rover.ini:11` has
   `cmdServicePort` in section `rover`, the code looks in `common`
   (`models/config/rover.go:32`). Both settings have no effect. The port would
   not matter much: `driver/drive.py:38` listens on 10008 whatever it says.

`Meets` names two more ways in which the ends may miss each other: an offer that
finds the controller busy (consequence of 1), and a late answer that the next
session applies (`MisledByThePast` says it is always one for a session that has
been ended).

## 4. What is proved

Every invariant and every action property that a passing run checks is a theorem.
It holds for every value of its module's constants: any sets of rovers and
controllers, any socket capacity, any number of requests, offers, sends and
sessions, any set of processes with `GstreamerCli`, both settings of the timing
assumptions, any start order, any
reports of the stick, any set of datagrams, any files. The assumptions are named,
in the modules that declare the constants, and TLC evaluates them: capacities are
positive, a rover is no controller, a report is a sequence of 16 bit axes, `None`
is no process, description, message or datagram. One theorem is about some
values of the constants only and says so: `MisledByThePastHolds`.

| Theorem | Statement |
|---|---|
| `MediaPipelinesProofs!TokensFit`, `AccountingHolds`, `LiveBounded` | the supervisor's types; sessions = unread signals (+1 while `Run` waits); never more than the capacity and one. For every capacity of the signal channel |
| `RoverAloneProofs!TypeCorrect`, `BalancedHolds` | `[]TypeOK`, `[]RoverBalanced` |
| `RoverAloneProofs!RoverIsSupervised` | the rover implements `SessionSupervisor` |
| `RoverAloneProofs!DiesOnlyWhileEndingHolds` | `DiesOnlyWhileEnding`; it speaks of the rovers that are not in `MayExit`, since an exit from outside needs no signal |
| `ControllerAloneProofs!TypeCorrect`, `BalancedHolds`, `ControllerIsSupervised` | the same three for the controller |
| `ControllerAloneProofs!OffersKeptHolds` | `[]OffersKept` |
| `RelayAloneProofs!TypeCorrect`, `InOrderHolds`, `AccountedHolds` | the invariants of run `relay_alone` |
| `HomeRoverProofs!TypeCorrect`, `BalancedEverywhere` | `[]TypeOK`, `[]ClientsBalanced` for the composed system |
| `HomeRoverProofs!EveryoneIsSupervised` | in it every rover and every controller implements `SessionSupervisor` |
| `HomeRoverProofs!OneCopyHolds`, `RequestBudgetHolds` | `[]OneCopy`, `[]RequestBudget`, under every schedule |
| `HomeRoverProofs!SessionsPaid` | a rover never starts more sessions than controllers were started, and one |
| `HomeRoverProofs!MisledByThePastHolds` | `[](SleepSuffices /\ GstreamerCli \cap Rover = {} => MisledByThePast)`: the setting of run `home_rover` |
| `TeleopProofs!PathTypeCorrect`, `SessionOrderHolds` | `[]TypeOK` and `[]SessionOrder` of run `teleop` |
| `TeleopProofs!StickByteKeepsSign` | the byte the controller sends of an axis is the axis divided by 256 to the driver |
| `TeleopProofs!PulsesInRange` | all four pulses are positive and below 768 counts, no angle is rejected |
| `TeleopProofs!TypeCorrect`, `SettledHolds`, `PulsesBounded`, `TurnsBounded`, `TornPulsesNear` | the properties of run `driver` |
| `TeleopProofs!DriverIsActuator` | the driver implements `Actuator` |
| `MediaPipelinesProofs!TypeCorrect`, `OwnTracksHold`, `NoLateWrites`, `CameraTakenOnlyEarlyHolds` | the safety properties of run `media` |
| `MediaPipelinesProofs!MediaIsSupervised` | its sessions are those of `SessionSupervisor` |
| `ProgramsProofs!QuietStartHolds` | `[]QuietStart` |
| `ProgramsProofs!LoneRefusalForgivenHolds` | `[]LoneRefusalForgiven` |

### The arguments

*Sessions and signals.* `Balanced` is not inductive: a step of a session needs to
know that the process is up and has a `Run` loop at all, and a process that ends must
leave nothing behind to count. The invariant adds `WellFormed`: a process that
is up has a `Run` loop, one that is not has no sessions and no signals. For the
controller it adds `HasOffer`: what `Run` puts back and what a session answers
is an offer taken earlier, without which the answer's type cannot be derived.
For the composition it adds that the relay's handlers hold messages of type 5.

`ServiceProofs` proves for each action, once and independently of the
environment, one of nine *effects* on a process (nothing changes; calm; starts;
spawns; asks; signals; puts back; ends a session; dies). `EffectKeeps` shows
that each effect preserves the invariant, `EffectSeen` that each is a step of
`SessionSupervisor` or changes nothing it sees. The proofs for rover, controller
and composition then only add that the environment touches connections alone;
`EveryoneIsSupervised` applies `EffectSeen` to each process of the composition.
Counting is done with `FiniteSetTheorems` on the set of sessions that have not
exited.

*Port 5004.* `DiesOnlyWhileEndingHolds` needs no new invariant: the session that finds
the port taken and the one that holds it are two. The holder is closing, or it
counts as live, and then `Balanced` makes of the second live session a signal that
nobody has read.

*Offers at a controller.* `OffersKept` counts offers in `inbox`, in `RemoteSDPCh`, in
`Run`'s hands and with sessions. `KeptInv` adds what makes the counts change
together: `Run` holds an offer exactly at `signal` and `putback`, a waiting
session has none yet, only offers arrive, and none before the process starts.

*Messages through the relay.* A sender numbers its messages. `RelayInv` says, for each
sender, that each place on the way (its `outbox`, its handler, every recipient's
`inbox` and what it has read) holds rising numbers, that every place holds later
ones than the next, and that no two recipients have the same one (`Lined`,
`Placed`). Taking the head of one queue and appending it to another then keeps
the order without counting. `Account` equates the numbers that are neither
waiting nor delivered with the notices its sender got, as long as nobody of the
recipient's user has left; for that `Life` says that a handler at its second
look-up has seen a recipient that is registered still, or has left.

*One copy of a description.* Each channel, connection, handler, `Run` and session is a
*place*. `Apart` and `Single` say that no description is in two places or twice in
one. They are not inductive by themselves: a session that makes an offer must not
find that offer somewhere already. `Known` says that whatever is under way comes
from a session that exists, `Kinds` that offers are where rovers send
and controllers receive and answers where it is the other way round, with an
existing session of a rover in `re`; `Addressed` adds that the pool, handlers and
connections lead a message to the other side. Then every action *brings* at most one
description to one place (`Brings`, `BringsNothing`), and a lemma per
kind of step shows it does (`MoveFlows`, `PassFlows`, `GivenFlows`, ...).

*Answers from the past.* `InTurn` says for each rover that all its sessions but the
last are closed, that `Run` waits only with no signal unread, and that what a session
has been given answers, if its process made the offer, an offer of its own or of an
earlier session. This uses `Kinds`: a session for which there is an answer exists, so
the last session cannot be given the answer of a later one. A wrong answer of the same
process is then of an earlier session, and all those are closed. Both hypotheses are needed: without
`SleepSuffices` the old session may still be there (or still be closing), and a `webrtcGstreamerCli`
session that waits for its answer does not look at its signal, however long the
sleep is, so that it may take the answer to the next session's offer.

*Requests.* `Paid`: the requests of each process, numbered, form a finite set of
*tickets*, no larger than the set of controllers started. No sum over processes is
needed: each step lets no process's requests grow (`Settles`), moves one from a
process to another (`Passes`) or comes with a controller that starts (`Pays`), and
for each of the three the new tickets map into the old ones and at most one more.
`SessionsPaid` reads the sessions of one rover off its tickets.

*Command path.* `Ordered(s)` describes the way of a session's positions as a ladder:
stick, the last report, `Run`'s hands, `joystickData`, the loop's hands, the data
channel, the handler, `joystickDataCh`, the datagrams. What each rung holds is at least as new as
what the rungs below it hold, and the two longer queues are sorted. A step moves one
position one rung on, or loses some. `Labelled` ties a position to its session.

*Driver.* The arithmetic is proved first, for all bytes, as facts about integers
(`PulsesInRange` and the lemmas before it). The inductive invariant of
`SettledHolds` adds to it, channel by channel, which of its registers the current
round has written already (`Progress`), and `PulseBounded`, which says that none
is left from power-up once the driver listens. `TornPulsesNear` follows because
the high byte is at most 2 and the low byte a byte.

*Pipelines.* The invariant says for each stage which pipelines a session has made
and which may play (`Made`, `MayPlay`), that the map's numbers are `0..n-1`, that a
pipeline that has been made is the map's entry under its number, and that only a
playing pipeline's thread is in its callback. `CameraTakenOnlyEarlyHolds` needs the sets
of live and ending sessions counted, as `SessionSupervisor` counts them: two
sessions that both want the camera are two live ones or one that is ending.

*Start-up.* `StartInv`: a reader that has returned has set its keys up to one of them,
and all of them if nothing was logged (`Settled`); one that has not been called has
set none, and one that is reading has set those before the part of its list that is
left (`UpTo`, `IsTail`). A quiet start is then one after which no reader is left.

*Forwarding.* `SoleWriter`: while no call has failed but by a refusal and nobody else
has stored an answer, a track finds in `err` what it stored, both words, and at
the check that is a refusal. `RefusalsAccounted`: while no call has failed
otherwise, what stands in `err`, or is about to be stored there, is nil or a
refusal that some `Write` has had. `StoresAccounted`: who is past its call is one of
those that have stored. At a panic of the check somebody else must then be one of
them, and a refusal must have come.

### Only model-checked

Everything about liveness (`Settles`, `PutBackEnds`, `Drains`, `Meets`,
`RequestsSettle`, `DriverFollows`, `EndOfSessionIsFatal`, `EndingEnds`,
`VideoFlows`, `StickLives`), since fairness and `ENABLED` are beyond the prover.
The refinements (`Supervised`, `Actuates`) are proved as they are stated, initial
states and steps: neither abstract specification has fairness. The three properties
that are violated are of course not theorems.

## 5. What is not modelled, and the plan

Left out for good:

* the text of SDPs and messages, logging, STUN and ICE negotiation, media itself;
* the INA226 script, which nothing imports;
* `Data`, `EntityData` and `Client`'s codec, `BytesToInt` for lengths other than
  two, `MustReadStdin`, `RandSeq` and the HTTP helper: nothing calls them;
* the sink of GStreamer (`gst/gstreamer-sink`) but for `StartMainLoop`: its
  pipelines end in a display and call nothing back;
* `setPWMFreq` and the GPIO enable pins of the driver, written once before it
  listens; the PLI tickers of the controller, which change no state;
* start-up failures of libraries (they are `Exit`).

What comes next:

1. A composition of rover and controller in CLI mode over the relay, with
   the forwarding of one and the port of the other; then `DiesOnlyWhileEnding`
   without the most general environment.
2. `MediaPipelines` against `RoverService` itself instead of `SessionSupervisor`,
   so that answers and end signals come from the same schedule.
3. Proofs: what safety says of the liveness properties, in particular which
   states block `ServerRecv` for good (`new_sdp`), and the two named ways of
   `Meets` as the only ones.
