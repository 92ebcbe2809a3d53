# A verification project for the lightweight GPS tracker

TLA+ modules, TLC configurations and TLAPS proofs for the firmware of the
tracker (ESP32, Arduino framework, SIM7000G modem): a box that a team carries
from waypoint to waypoint, that sends its position to an MQTT broker over a
mobile network, plays the music of each waypoint it reaches, and sleeps between
two positions to save its battery.  Paths below are relative to the repository.

Contents: [the system](#1-the-system) · [the modules](#2-the-modules-and-the-code) ·
[the runs](#3-the-runs) · [fairness](#4-fairness) · [the proofs](#5-the-proofs) ·
[where the code and its documentation disagree](#6-where-the-code-and-its-documentation-disagree) ·
[what is not modelled](#7-what-is-not-modelled) · [the plan](#8-the-plan)

## 1. The system

### Components, their state and their operations

| Component | State | Operations that change it |
|---|---|---|
| Start-up, `src/main.cpp` | the preference `rc` (flash) | `setup()`: raise `rc`; three boots in a row that do not live for half a second lead to the service mode |
| Tracker, `src/Tracker.cpp` | `shouldSleep` | `begin()`; the "loop" task: send, decide about sleeping, sleep, restart |
| State manager, `src/StateManager.cpp` | `visitedWaypoints`, `lastFastFixFileUpdate`, `actPosition` (RAM); `/state.json` (flash) | `begin()`, `updatePosition()`, `setLastFastFixFileUpdate()`, each with `persistState()` |
| Audio player, `src/audio/Player.cpp` | `fileQueue` under `queueMutex`; `isPlaying` under nothing; the audio generator | `play()`, its "sound" task, `enqueueFile()`, `playing()` |
| SIM7000G driver, `src/networking/SIM7000G.cpp` | none of its own; the modem's, the network's | `init()`, `sendActPosition()` (`reconnect()`, `actualPosition()`, `sendMessage()`), `sleep()` |
| MQTT client, `src/networking/MqttClient.cpp` | the session with the broker | `begin()`, `reconnect()`, `sendString()`, the "mqtt" keepalive task |
| SSL client, `lib/SSLClient` | `_connected`, `_peek`, the mbedTLS contexts | `connect()`, `read()`, `peek()`, `available()`, `write()`, `stop()` |
| `SERIAL_LOCK`, `src/HwLocks.cpp` | owner of the recursive mutex | taken by nearly every function of the driver and the MQTT client |
| Tasker, `lib/Tasker` | the FreeRTOS tasks | `loopEvery()`: a body again and again, with a delay |
| Configuration, `src/Configuration.h` | `config.json` (flash), beside the state file; the driver's and the MQTT client's copies | `read()` at every boot; replaced, with the state file, by an upload |
| OTA updater, `src/OtaUpdater.cpp` | none of its own | `begin()`: an upload, then a restart |
| Protocol, Logger, Utils | see [section 7](#7-what-is-not-modelled) | |

### How they interact

- `setup()` constructs everything and calls `Tracker::begin()`, which loads the
  state file, initialises the modem, starts the sound task, registers the
  waypoint callback and creates the loop task.  After it, three tasks run: loop
  and mqtt, which share the serial line under `SERIAL_LOCK`, and sound, on the
  other core.
- Every round of the loop task calls `sendActPosition()`, which calls
  `StateManager::updatePosition()`, which calls the tracker's callback, which
  enqueues a file for the sound task: four components in one call, with the
  state file rewritten in the middle of it.
- The state manager is also called from `connectGPS()`, to save the time of a
  download: the same file holds the progress of the game and that timestamp.
- The loop task polls `playing()`, which the sound task writes without a lock,
  before it sleeps (both cores stop) and before it restarts the chip (everything
  in RAM is lost).
- The sleep time of the configuration arms the wake-up timer, and sets the
  keepalive that tells the broker how long a silent tracker is still alive.
- The MQTT library reads and writes through the SSL client, which reads and
  writes through the modem's TCP socket.

### What is hard about it

Power may be cut at any instruction, and the file that must survive it is
removed before it is written.  Each operation on it can fail, and the code
goes on regardless.  A failure deep in the driver ends in a restart,
so restarts are a normal event.  Links drop between a test and its use.  Loops
that retry hold the lock the keepalive task needs.  Flags cross cores without
synchronisation, and a decision taken in one round is acted on in a later one.
Counters, clocks and timeouts are unsigned and wrap.  None of this shows in a
unit test, and the repository has none.  `PROJECT.json` lists each hazard at its
line, with the properties that cover it or the reason why none does.

### What makes each component correct

- **State manager**: no waypoint is ever skipped; a power cut outside a save
  costs nothing, unless the flash failed; otherwise it costs at most what
  `WaypointProgress` says.
- **Player**: every sound asked for is started once and in its turn, and the
  flag others wait for is neither wrong for long nor stuck.
- **Driver and MQTT client**: a status code means what the tracker takes it to
  mean; the lock is given back on every path; neither the callers nor the
  keepalive task wait for ever once the network behaves.
- **Tracker**: music and progress agree, a self-made restart loses no progress,
  the tracker does not disappear into sleep unheard.
- **Start-up**: only a person who switches the box on and off enters the service
  mode, never the tracker's own restarts; a tracker that gave up comes back.
- **All of it together**: the loop calls the driver only in states that this
  takes for granted; the broker is told of nothing that a power cut can take
  back; after any trouble, position messages and music come back.
- **Configuration**: no state file indexes beyond the waypoints, no file system
  locks the service mode out, the configured sleep is the one slept, and the
  broker's session outlives it.
- **SSL client**: the bytes the server sent are read once and in order, a failed
  connection leaves nothing behind, `connect()` returns.

## 2. The modules and the code

| Module | What it models | Composed with |
|---|---|---|
| `WaypointProgress` | abstract: the progress of the game under restarts | |
| `StateManager` | `StateManager.cpp` | implements `WaypointProgress` |
| `SoundQueue` | abstract: a queue of sounds | |
| `Player` | `Player.cpp` | implements `SoundQueue` |
| `ISim` | abstract: a call of the modem and its status code (`ISIM.h`) | |
| `Modem` | `SIM7000G.cpp`, `MqttClient.cpp`, `HwLocks.cpp` | implements `ISim` |
| `Tracker` | `Tracker.cpp` | `StateManager`, `Player`, `ISim` by INSTANCE |
| `Boot` | `setup()` in `main.cpp` | |
| `Device` | `setup()` with the tracker behind it | `Tracker` and `Boot` |
| `System` | the tracker on the driver itself, step by step | `Tracker` and `Modem` |
| `Timers` | the arithmetic of the sleep time, `Tracker.cpp:25`, `MqttClient.cpp:26` | |
| `Configuration` | `Configuration.h`, `OtaUpdater.cpp`, file systems over the tracker's life | `Boot`, `Timers` |
| `ISocket` | abstract: a stream of bytes | |
| `SSLClient` | `SSLClient.cpp`, `ssl_client.cpp` | implements `ISocket` |
| `PeerCheck` | `verify()`: `ssl_client.cpp:384-524` | `SSLClient` |
| `MC*` | instances for TLC | |
| `*Proofs` | theorems | |

Names are the code's where it has one.  In every module `pc` (or `loopPc`,
`soundPc`, `bootPc`) is the place in the code where a task is, "off" before it
exists.  Variables marked *history* do not exist in the code; they record what
happened so that a property can speak of it, and no guard of an action reads
one, except for a named bound.  Operators that begin with *Mutant* in their
comment are not part of any specification: each is a way the definition after
it could have been got wrong, and is known to break a property.

**StateManager.**  `updatePosition()` is two actions, up to the callback
(`UpdatePosition`) and from there to `persistState()` (`ReachWaypoint`), because
the tracker's callback enqueues a sound in between.  `persistState()` is one
action per operation of the flash: `RemoveFile` or `RemoveFails`
(`clearMemory()`, which does not look at the result), `OpenFile` or `OpenFails`,
`WriteFile` or `WriteFails`; `PowerLoss` may come between any two.
A file is absent, torn (created, not completely written) or whole; the first two
are the same to `loadPersistState()`, which then keeps the members' initial
values, 0 and 0, as it does when a whole file cannot be read (`BeginUnread`).  A
file that could be neither removed nor opened stays as it was, so that it may
be any number of waypoints behind; `flashFailed` records that the boot's last
save, or its loading, went wrong.  In `WaypointProgress` there is, beside the
`progress` in RAM, what is `saved`: a save in doubt can only `Lose` it, a restart
goes on from it, and one that cannot read it starts again (`Forget`).

That the position is a member of a small set and its distance to each waypoint a
constant abstracts the formula of `distanceToNextWaypoint()` to its result, of
which one value is NaN: `sin`/`cos`/`acos` give it on (or opposite) the waypoint
itself, and every comparison with it is false.

**Player.**  `audioGenerator->loop()` is external: while it returns TRUE nothing
that others see changes; `GeneratorEnds` is the call that returns FALSE.
`playNext()` holds `queueMutex` from its start to its end; `SelectFile` and
`FinishSelect` are its halves, with the flag still down in between, and
`EnqueueFile` waits for the second.  A file that cannot be opened makes
`begin()` fail, which nobody looks at: `running'` is then FALSE.

**Modem.**  The caller is `setup()` first and the loop task later, one after the
other.  `pc` walks through `init()` and `sendActPosition()` with the functions
they call; `call` distinguishes the two where a function is shared
(`connectGPRS()`, `reconnect(n)`, `connectGPS()`).  The lock is recursive and
RAII, so nested acquisitions never wait, and only the outermost ones
(`Acquire`, `Release`) are modelled; `Locked` is the set of places inside.
`net`, `broker` and `fix` are what the modem would answer; `Drops` takes one
away between any two steps, `Answer` lets a sleeping modem fail to answer.  AT
commands that set something up are one step that succeeds or fails.  What
`modem.restart()` does to the links is `RestartModem`, a part of `SetUpGprs`: they
are down, or, if it was left out or failed, as they were.  The
subtraction of timestamps is modulo `ClockModulus`.  `ActTime` contains every
value when `ClockMayFail`, because `getActTime()` does not look at the result of
`getNetworkTime()`.  A message with QoS 1 is delivered and acknowledged in two
steps, and the acknowledgement can be lost.

`enabled`, fixed by `Init`, is the set of parts that `config.json` enables.
Without GSM the serial line is never opened, so that `Answer` is FALSE, and the
MQTT client is never set up: its `reconnect(2)` then calls through members that
are null, which resets the chip (`Panics`).

**Tracker.**  Its actions are conjunctions of actions of its components, as the
code's calls are: `ReachWaypoint` is the state manager's step and
`AP!EnqueueFile`, because the callback runs inside `checkCollision()`;
`UpdatePosition` is the state manager's and `Sim!HandPosition`.  `loopPc` is the
place in `begin()` and in the loop task; the switch over status codes is
`SendReturns`.  `SoundTask` stops while `loopPc = "asleep"`, light sleep
stopping both cores.  `Reset` is a power cut or `esp_restart()`: RAM is gone in
all three components at once, `file` remains.

**Boot, Device.**  `rc` is raised at once (`PowerOn`) and cleared after
`delay(500)` (`LeaveWindow`); between the two the chip may be reset (`Cut`).
`Device` puts `Boot` before every start of `Tracker`, whose actions run in
`bootPc = "tracker"` only.

**System.**  `Tracker` on `Modem` in place of `ISim`: the variables of `ISim` and
`lastFix` are shared, the driver's `pc` is `modemPc`.  A step inside the driver
is nothing to the tracker, or the return of the call (`SeenFromLoop`); where the
driver calls the state manager, or the broker gets the message, the step is one
of both (`DriverServes`), and the driver then waits until the state manager is
done.  `sim->sleep()` and the light sleep are two steps (`ModemToSleep`,
`FallAsleep`), with the other tasks running in between; a chip asleep runs no
keepalive.  A restart resets both (`M!ChipReset`), but not the modem's power nor
the network.  GSM is enabled, by an assumption: `Modem!NothingWithoutGsm` shows
that nothing happens without it.

**Timers, Configuration.**  `Timers` has no state.  It counts in units of 64
microseconds, so that a 32-bit product fits TLC's integers with nothing rounded
(10^6 is 64 times 15625).  `Configuration` follows a file system through boots
and uploads: `image` is what was uploaded, `saved` the count that the state file
in it restores.  An upload replaces both (`ReplaceFileSystem`); one cut short
leaves a file system that does not mount.  `PersistState` is the state manager's
save in one step: the file has the new count, the old one or none.  Members of the JSON that are left out
become 0, FALSE or "null" (`as<T>()` of a null), not the initial values of the
structs: `AsBool`.  Of the running tracker there is the counter, the timer and
the session with the broker, which `GivesUp` closes after one and a half
keepalive intervals.

**PeerCheck.**  `verify()` is a function of what it is given, so it is operators,
run in every state of a session by the invariants.  `Reading` is the loop
over the bytes as a recursive function, `FingerprintLocal` its last value; a name is the sequence of its labels, of which
only its text in lower case, whether it has capitals, "*" and "contains a *" are
kept.  The reference definitions, `BeginsWithWriting` and `StandsFor`, say what a
fingerprint and a name mean without scanning, from a table of the digits of
their own.  `verify_ssl_fingerprint()` stops after the last byte, and so does the
reference: a string may have anything after it.

**SSLClient.**  Its callers hold `SERIAL_LOCK`, so a call that does not wait is
one action.  `connect()` is several, with its error exits (`ConnectFails`,
which is `stop()`) but one: the branch for a verification result other than 0
(`ssl_client.cpp:299-304`) is left out, because the firmware sets no
certificate, `start_ssl_client()` then asks for `MBEDTLS_SSL_VERIFY_NONE` (line 234),
and a client's verification result is 0 after the handshake.
`write()` loops.  Bytes are numbered in the order in which
the server sent them, so that "once and in order" can be said; byte 0 is the
code's -1, no byte.  mbedTLS, the socket and the server are external: `Readable`
says what a read may answer.  The oddities of the code are kept: `available()`
counts a byte that the `stop()` it made has just thrown away, and the read that
follows fails on freed contexts.

## 3. The runs

| Run | Question | Distinct states |
|---|---|---|
| `state_manager` | Does progress survive power cuts and a failing flash as `WaypointProgress` promises? | 8 188 |
| `player` | Is no sound lost, doubled or reordered, and does the flag tell the truth and drop? | 908 |
| `modem` | For every choice of GSM and GPS: does the driver implement `ISim`, share its lock and return? | 40 824 |
| `tracker` | Do music, progress, sleep and restarts agree in the composition? | 273 840 |
| `device` | Does the reset counter tell people from self-made restarts? | 20 726 |
| `system` | With the driver itself: is it called right, is what the broker is told saved, and does everything come back after any trouble? | 177 609 |
| `configuration` | Do file systems, boots and uploads in any order keep the saved index in bounds and the service mode in reach, and short sleeps right? | 2 044 |
| `ssl_client` | Is the stream read once and in order, with all failures cleaned up after, and does `verify()` agree with its reference? | 1 500 |
| four more | expected violations, see [section 6](#6-where-the-code-and-its-documentation-disagree) | |

`system` takes about two minutes, all others seconds.  What each property says
stands before it in its module.

**Bounds, and why they are enough.**

- `StateManager`: three waypoints, so that there is a first, a middle and a
  last; a position at each, one just beyond `Accuracy` (101 m against 100 m),
  one exactly at it (100 m), one far, one with distance NaN; three timestamps.
  The number of saves and power cuts is not bounded.
- `Player`: `MaxRequests = 4` between two power cuts: one file sounding, one
  being selected and two waiting; two different sounds.  Power cuts are not
  bounded.
- `Modem`: `MaxClock` and `ClockModulus` scale 216000 s and 2^32 down and keep
  their order: `FastFixAge < ClockModulus`.  In `modem`, `ClockModulus = 4` and
  `FastFixAge = 2` let both outcomes of the wrapped comparison happen.  The
  counters of attempts have the code's limits.
- `Tracker`: two waypoints, the least with an order; positions at both, at
  exactly 150 m from the second, and at 151 m.  The `Player`'s bound on requests
  is `NumWaypoints`, and never restricts anything: each waypoint is announced at
  most once while the power stays on, which `MusicFollowsProgress` shows.
- `Device`: one waypoint, `ServiceResets = 3` as in the code, `MaxResets = 5`
  bounds quick resets in a row, past the threshold by two.
- `System`: one waypoint, a position at it and one far from it: the music of
  one waypoint, a save, and both sleeping and staying awake happen.
  `ClockModulus = 2` leaves the timestamp two values; a download is due or
  not.  The flash does not fail in this run (`FlashMayFail = FALSE`); with
  failures the properties hold as well, in 749 590 states and four minutes.
- `Configuration`: up to three waypoints, of which two fit the document; the
  sleep times are those at which something changes: 0 (left out), 114 (of the
  times up to 312, the one whose keepalive is the tightest), 295 (lost
  if microseconds were milliseconds), 313 (the first whose session is lost),
  2147 and 2148 (the last to fit a long and the first that does not).  The
  widths are the code's.
- `PeerCheck`: fingerprints of two bytes and strings of up to six characters:
  the shortest has four, so that there is room for separators before, between
  and after, for one digit too few, and for a wrong character anywhere; names of
  one and two labels of each kind.
- `SSLClient`: `MaxBytes = 4` in a session and reads of up to `MaxRead = 3`, so
  that a byte looked at, a read that splits a record and one that takes all of
  it follow one another; `HandshakeTimeout = 2` ticks.  Sessions are not bounded.

Deadlock is checked in every run.  Outside the Boolean choices above nothing is
fixed: links, commands, the flash (to remove, open, write and load) and the power
fail in any state in which they can.

`state_manager`, `player`, `modem` and `ssl_client` check a refinement, with the
abstract specification as a property.  `tracker` does so with the sounds:
`MusicPlays` is `SoundQueue!Spec`, liveness included, for a player whose core is
stopped again and again by light sleep.

## 4. Fairness

Stated only where a run checks liveness, and only as strong as the scheduling
gives it:

- **`Player`**: `WF(SoundTask)`: FreeRTOS schedules the task for ever, and a file
  ends.  `WF(Play)`: `begin()` calls it.
- **`Tracker`**: `SF(SoundTask)`, because sleep disables it again and again, and
  whenever the chip is awake the sound core runs.  `WF` for the timer's wake-up,
  for `esp_restart()`, and for the wait for silence: `playing()` is polled, and
  once nothing is enqueued any more it stays FALSE.  Nothing is assumed of
  the modem, of positions or of the loop task otherwise.
- **`Modem`**: `WF(CallerStep)`: the task in the driver runs.  `SF` for
  taking the lock, `CallerLocks` and `MqttLocks`: a FreeRTOS mutex is given to
  waiting tasks by priority and then in order, so that a task is not passed over
  for ever.  `WF(FixFound)` and `SF(Attach)` are about the world: a receiver that
  is on finds a position, a network asked to attach again and again attaches.
  `CallReturns` and `KeepaliveServed` suppose in addition that links stop
  dropping (`<>[][~Drops]_vars`).  Without that they are false, and the code
  does not claim more: `connectGPRS()` retries `gprsConnect()` without counting,
  with the lock held.
- **`System`**: as in `Tracker` and `Modem`, except that the network owes nobody
  anything; only a receiver that is on finds a fix.  The lock is waited for
  strongly fairly.  The two properties say what they suppose: from some
  time on there is no `Trouble` (no link lost but by the driver's own `modem.restart()`, no failing
  command or call, no power cut), and for `MusicStarts` positions at the next waypoint (`AtNext`).
  Without the network neither music nor messages come, see section 6.
- **`Configuration`**: `setup()` runs and `esp_restart()` restarts a tracker that
  cannot begin; a person who wants the service mode cuts the power of a
  running tracker, and then in the first half second of each boot, and does not
  give up.  `ServiceReachable` supposes that they are quick enough from some
  boot on: `<>[][~LeaveWindow]`.
- **`Device`**: `setup()` runs and `esp_restart()` restarts.
- **`SSLClient`**: a task in `connect()` runs; `WF(WriteReturns)`: a socket takes
  what is written or fails, which `send_ssl_data()` leaves to mbedTLS;
  `SF(Available)` and `SF(Read)`: the mqtt task polls every 100 ms and
  reads what it is told there is.

## 5. The proofs

TLAPS checks them for every value of the constants that satisfies the `ASSUME`s
of the modules, for instance for any number of waypoints, requests and bytes.
Each safety theorem goes through an inductive invariant that TLC was
first asked about:

- **`StateManagerProofs`**.  `IInv` adds `SavePoint` to the properties: at "write"
  the file is torn, at "reached" there is a waypoint left, and a tracker that is
  off has no failure to remember.  It is needed because `QuiescentIsDurable` alone
  says nothing of states inside a save, from which a write or a failure leads
  back to "idle"; and `NeverSkip` speaks of RAM and of the file together because
  each is restored from the other.  It holds of old files too: what they count was
  announced before.  From it follow `NoWaypointSkipped`, `QuietPowerCutIsHarmless`,
  `FileAtMostOneBehind` and, step by step under the mapping `progress <- Progress`,
  `saved <- Restored(file).visited`, `StateManagerImplementsProgress`.
  `ProgressKeepsPromises` says what that is worth: no waypoint is skipped, and
  when nothing is in doubt a restart keeps the progress.
- **`PlayerProofs`**.  `PlayerInv` adds what is known of the flag, the generator
  and the queue at each place of the sound task; the essential one is that at "selected" the
  queue is not empty, or `FinishSelect` would pop nothing and
  `SoundsInOrder` break.  `PlayerIsSoundQueue` is the safety part of the
  refinement, `PlayerServesQueue` all of it, and `PlayingDrops` says that the
  flag drops though others go on enqueueing (see *Liveness* below).
- **`ModemProofs`**.  `ModemInv` ties the caller's place to what has happened:
  `CallMatchesCode` (in which call a place is, and that a position was handed
  over, and a message delivered, exactly at the places after it), `TriesInRange`
  (each loop finds its counter at 0, and leaves it within the limit),
  `KeepaliveCreated` (`init()` cannot be past `begin()` without the task).  The
  properties say nothing of the places in between, and so are not inductive.
  `ModemIsISim` is the whole of `ImplementsISim`, which has no liveness.
  `PoweredOffForGood` and `GsmIsNeeded` rest on an invariant each, and on the
  configuration being what it was (`ConfigurationKept`).  With neither GSM nor
  GPS enabled `init()` succeeds without waking the modem, and `reconnect()` is
  the first to do so: `PowerOffIsFinal` is about the other cases.
  `CallsReturn` goes through the places of a call: each is left (`DoorsOpen`,
  `GprsEnds`, `MqttEnds`, `GpsEnds`), and after one round of `reconnect()` net,
  fix and broker are all there (`StepInSend`), so that the next test of its loop
  is the last.  `KeepaliveIsServed` follows, with `OneKeepalive`: `init()` creates
  the task once between two restarts.  `FastFixNeverReused` says how far the first
  finding goes: while the clock has not come near its wrap, a file is used
  without a download only in the second of its own.
- **`TrackerProofs`**.  The tracker's steps are steps of `StateManager`, `Player`
  and `ISim`, or leave them alone; so the components' invariants, instantiated
  from `StateManagerProofs` and `PlayerProofs`, hold in the composition.
  `TrackerInv` adds `PhasesFit` (which component is at work in which part of the
  loop; in particular no save is under way when the chip is restarted) and
  `SleepyIfHeard` (the wish to sleep comes of a delivered message, and ends with
  the sleep).  From it follow `MusicIsProgress`, `SleepsHeard` and
  `RestartsKeepProgress`.  The abstract specifications carry over from the
  components, step by step: `TrackerImplementsProgress` and `TrackerIsSoundQueue`;
  together they give `MusicHeardInTurn`, that what is heard is what the game is
  at.  `TrackerPlaysTheMusic` is the whole of `MusicPlays`: the rounds of the sound
  task are those of `PlayerProofs`, and each sleep that stops it ends.
  `TrackerPromises` collects all that does not rest on fairness, for those who
  build the tracker in.
- **`DeviceProofs`**.  `BootInv` adds `CounterCounts`: while the counter is up it
  counts the quick resets.  The tracker's steps leave `bootVars` alone, so the
  theorem holds of the composition, whatever the tracker does; and the device's
  steps are steps of the tracker or leave it alone, so that
  `DeviceKeepsTrackerSafe` and `DeviceKeepsPromises` carry the theorems about the
  tracker over.  `RestartedTrackerComesBack` follows a tracker that gave up through
  its reset and the first half second: it needs `RunsBehindCounter`, that a
  tracker runs only once the boot is through with the reset counter.
- **`SystemProofs`**.  Every step of the system is a step of the tracker or
  leaves it alone, which takes `TrackerInv` to see that the driver returns one
  of the interface's codes: `SystemIsTracker` is the refinement,
  `SystemKeepsTrackerSafe`, `SystemKeepsPromises`, `SystemDriverIsISim` and, with
  liveness, `SystemPlaysTheMusic` carry the theorems over, and `BrokerToldIsSaved`
  follows because `Publish` waits for the state manager.  On the driver's side,
  every step but the one that enters `begin()`, which loads a timestamp, is one
  of `Modem`'s; `DriverInv` keeps `ModemInv` and `OffOnlyBeforeWakeUp` through
  both kinds (lemma `BeginInitInv`).  With `CodesFit`, which says after which
  codes the loop is where, `LoopCallsDriverRight` follows: it takes a fact about
  each side, that the loop goes on after three codes only, and that a modem is
  off after none of them.  `SystemLocksRight` and `SystemPoweredOffForGood` are the
  driver's theorems with the tracker's sleeps, restarts and power cuts around it.
- **`ConfigurationProofs`**.  `ConfigInv` is needed because `IndexInBounds` speaks
  of a running tracker only: `SavedInBounds` says it of the file, between boots,
  `CopyIsCurrent` that file system and copy agree, and `TimerMatchesConfig` the
  same of the timer and the session.  `ShortSleepsExact` is for any width of a
  long; `ShortSleepsKeepTheSession` takes the code's numbers as assumptions, and
  rests on 313 being the inverse of 15625 modulo 512 (`FirstSmallKeepAlive`):
  no shorter time has a keepalive of one unit.  `LongSleepsNeverExact` says how
  far the fourth finding goes: all sleep times that do not fit go wrong.
  `UploadsLeaveResetCounter` shows that the steps of the boot are `Boot`'s, whatever
  is uploaded in between, and `ServiceModeIsReached` goes through the three boots,
  for the threshold of the code.
- **`SSLClientProofs`**.  `IInv` is the type invariant and `StagesFit`: what is
  set up at each stage, and `ReadsInOrder`, which says where the bytes are:
  read, or kept by `peek()`, or still with mbedTLS.  From it follow
  `SSLNothingLeftBehind` and `SSLClientIsISocket`.  `SSLFingerprintsRead` and
  `SSLNamesMatch` are about strings, certificates and names of any length.  The
  first is by induction over the bytes read, with a set of numbers in
  place of the predicate (`SetInduction`, from the least element of a set of
  numbers): so many turns of the loop succeed exactly if so many bytes are
  written at the start of the string, and then stand where that writing ends,
  which is unique because separators are no digits.  `EveryNameIsFound` compares
  label by label.

So every safety property that a passing run checks is proved, invariants, action
properties and refinements alike.

**Liveness.**  The prover knows nothing of ENABLED, and so nothing of what
`WF_` and `SF_` demand in a state.  Eight theorems therefore have a hypothesis that
names what they need: `GuardsEnable`, `SoundGuardsEnable`, `DriverGuardsEnable` and so
on say of a few actions that they are enabled where their guards hold, and of the
`Start` of `SoundQueue` that it is enabled only when a sound waits.  It is a fact
about the actions, true of every reachable state of every instance that was
tried with TLC; that it cannot be proved here is the only gap.  Everything else
(which places follow each other, that no other task disturbs them, that loops
are left, that what was waited for is still there when it is used) is proved for all
values of the constants: `PlayerServesQueue`, `PlayingDrops`, `TrackerPlaysTheMusic`,
`SystemPlaysTheMusic`, `CallsReturn`, `KeepaliveIsServed`, `RestartedTrackerComesBack`,
`ServiceModeIsReached`.  The runs check the same properties with ENABLED as it is.

**Only model-checked**: `RestartHappens`, `ConnectReturns`, `CloseNoticed`,
`HeardAgain` and `MusicStarts`.  Each counts down a number that only a constant bounds
(sounds that wait, ticks of the timeout, bytes unread, waypoints to go), which is
an induction over a temporal formula; the prover's library has none that it can
use, and a set cannot take the place of the predicate there.  The loops of the
driver need no such induction because their limits are numbers in the code.  No
module uses a RECURSIVE operator.

## 6. Where the code and its documentation disagree

Each is a run of its own that TLC must find violated; `PROJECT.json` has the
quotations.

1. `FastFixOnlyWhenOld`, `SIM7000G.cpp:161`: the subtraction of the two
   timestamps is the wrong way round, and unsigned.  The GPS assistance file is
   downloaded on nearly every `connectGPS()` instead of every 2.5 days.
   The clock of this run never fails.
2. `AwakeNearWaypoint`, `Tracker.cpp:80`: far from the waypoint the tracker
   wants to sleep, music keeps it awake, it comes near, which does not reset the
   wish, and when the music ends it sleeps.
3. `RestartLosesNoMusic`, `Tracker.cpp:71`: the loop waits for `playing()` to
   drop, which it does between two files, and also before the sound task has taken
   the first; then it restarts with music queued that is not announced again.
4. `SleepsAsConfigured`, `Tracker.cpp:25`: from 2148 seconds on, the product in
   microseconds is no 32-bit number any more, and the timer is armed with a
   negative time or a short one.

Met while modelling, and visible in the models, without a run of their own:

- `StateManager.cpp:26`: the result of `SPIFFS.remove()` is ignored.  A file that
  can be neither removed nor opened stays, and a later restart goes on from an
  older progress, not from the beginning (`RemoveFails`, `OpenFails`).
- `MqttClient.cpp:61`: `reconnect(n)` tries n + 1 times (`MqttConnectFails`).
- `SIM7000G.cpp:49`: `actualPosition()` returns three codes that its
  documentation excludes, and never the one it names (`PositionCodes`).
- `MqttClient.cpp:26`: the keepalive is cut to 16 bits.  It is 0, none, for
  sleep times that are multiples of 512 s, and 128 s for 313 s of sleep, the
  first whose session the broker closes every time (`KeepAlive`).  The example
  configuration of `README.md` has no sleep time at all, which is 0.
- Without a network there is no music either: `begin()` fails and restarts, and
  the position is read only behind a connected broker, so that a tracker with a
  fix, at a waypoint, plays nothing (`Check`, `InitModemReturns`).
- With GSM disabled, which it is when `config.json` does not say, the first
  round ends in a client that was never set up (`Panics`).
- `ssl_client.cpp:513`: the common name is the one name that is not put into
  lower case, so that one with a capital letter is never found (`HasName`).

Properties that hold and might have been doubted: no order of power cuts skips a
waypoint; a self-made restart never interrupts a save; the sleep never comes
before the broker has heard from the tracker; the broker is never ahead of a
flash that works; no state that failures lead to is one from which the tracker does not
recover; a byte peeked at does not survive
into the next session.

## 7. What is not modelled

- **Protocol**: formatting of the message; that `serialize()` may give nothing is
  in `Modem`.
- **Configuration**, apart from the number of waypoints, GSM's flag, the sleep
  time and what makes a file unreadable: the values are the CONSTANTS of the
  other modules.  That FAT or SPIFFS might corrupt one file while another is
  written is not considered.
- **OTA updater**: its access point and third-party web server; `Boot` says when
  it runs, `Configuration` what it does.
- **The credentials of the SSL client** (`SSLClient.cpp:228-304`): the firmware
  sets none.  A reader finds that `_streamLoad()` frees the credential loaded
  before while the client still points to it (`SSLClient.cpp:263`), and that
  `connect()` with a pre-shared key ignores its arguments (line 129).
- **Logger, Utils**: output and random strings for it; nothing depends on them.
- **Operations that nothing calls**: `StateManager`'s setters for MQTT, GSM and
  connected devices (`couldSleep()` is therefore always TRUE), `Player::playFile()`
  and `stop()`, `sendData()`, `powerOff()`, `warmStart()`, `Tasker::once()`.
  `SERIALIZATION_ERROR` is a status code no path returns.
- **Below the level of the models**: bytes of two tasks mixing on the serial line
  when `sleep()` talks to the modem without the lock; the reference into a
  destroyed document in `Protocol.h`; the contents of uninitialised mbedTLS contexts.
- **TLS itself**: no certificate is configured, so mbedTLS verifies nothing, and
  the firmware does not call `verify()`, which `PeerCheck` models.
- A TCP connection that is lost without a word: the SSL client takes it for a
  silent one until a write fails, so that `CloseNoticed` is about a
  `close_notify` only.

## 8. The plan

Done: the modules of section 2, in the order `StateManager` (with its abstract
specification and proofs), `Player`, `ISim`/`Modem`, `Tracker`, `Boot`/`Device`,
`SSLClient`, `Timers`/`Configuration`, `PeerCheck`, `System`.

Proved since: the tracker's refinements of `WaypointProgress` and `SoundQueue`, and
the same for device and system; the driver's locks and power inside the system;
`PeerCheck` for every length; liveness of the player, the tracker's music, the
driver's calls, the device's restart and the service mode.

Next, proving:

1. The driver's `CallsReturn` inside `System`, where `Trouble` ends and the network is
   there: the first half of `HeardAgain`.
2. How far the findings 2 and 3 go: that the tracker near a waypoint sleeps only
   with a wish from an earlier round, and that a restart loses at most what was
   queued after the flag dropped.

Next, modelling: `Player::playFile()` and `stop()`, should the firmware come to
use them; the loading of credentials.
