# Verification of polhemus_ros_driver

TLA+ specifications of the Polhemus ROS driver, TLC configurations that
model-check them, and theorems about them with proofs checked by TLAPS.
`PROJECT.json` lists runs, mutants, the map from definitions to source lines,
findings, hazards and theorems. Paths below are relative to the repository.

## 1. The system and its parts

| part | source | state | operations | modelled |
|---|---|---|---|---|
| Viper protocol | `include/polhemus_ros_driver/viper_protocol.h` | none (frame formats) | build a command (`CVPcmd`), classify a frame (`CFrameInfo`), CRC, bitmaps | `ViperProtocol` (what is said), `WireFormat` (the numbers) |
| USB link | `polhemus.cpp` 61-150, reading parts of `viper.cpp` | rx buffer and its size, last result, last PNO frame, `station_count` | write, read, clear input, wait for a reply, read a PNO frame | `ViperLink` |
| Viper tracker (hardware) | not in the repository | pipes, units, continuous mode, boresight, source maps, sensors | carry out and acknowledge, refuse, stream | `ViperDevice` (external) |
| Viper driver | `viper.cpp`, `polhemus.cpp` 152-256 | retries, station, timer | set-up commands, `send_saved_calibration`, `calibrate`, `set_source` | `ViperDriver` |
| Liberty tracker (hardware) | not in the repository | pipes, ASCII or binary, format, continuous output, boresight, sensors | carry out a text command, answer a request for data, stream | `LibertyDevice` (external) |
| Liberty driver | `liberty.cpp`, `liberty_protocol.h`, `polhemus.cpp` | `station_count`, the frame buffer and its size, timer | the same interface over text commands | `LibertyDriver` |
| Main program | `polhemus_tf_broadcaster.cpp` 275-544 | recovery flag, `keep_main_loop_running` | set-up, loop with recovery, publishing, services in `spinOnce`, SIGINT, shutdown | `ViperDriver`, `LibertyDriver` |
| USB discovery | `polhemus_tf_broadcaster.cpp` 93-273 | handle, claimed interfaces | search, claim, clean up, release | `UsbDiscovery` |
| Calibration storage | parameter server, `rosparam dump`, `launch/start.launch` | node parameters, `/calibration`, the yaml file | save, dump, load at launch | in both drivers (`params`, `store`, `file`) |
| Knuckle calibration server | `knuckle_position_calibration_action_server.py` | per-hand data, markers, goals, yaml files | action goal, publish service, TF callback | `KnuckleCalibration` |
| Sphere fit | `sphere_fit.py` | none | least squares | no: floating point (its use is in `KnuckleCalibration`) |
| Installation, firmware, udev, launch arguments | `etc/`, `launch/` | none | none at run time | no |

**Interaction.** The driver is one process with one thread: `main` runs the
set-up, then a loop that reads one position-and-orientation (PNO) frame,
publishes it or recovers, and calls `ros::spinOnce`, in which the services
`calibration` and `set_source` run to their end, every request that is queued
directly after the one before it. The driver and the device
share two USB pipes and nothing else. A Viper's replies and, once continuous
mode is on, PNO frames arrive in the same IN pipe; a reply carries only the type
of its command. A Liberty acknowledges nothing at all. The calibration travels
from the parameter server to a file (`rosparam dump`) and, at the next launch,
from the file to the node's own parameters. The device outlives the process: it
keeps units, mode, corrections and unread frames.

The calibration node is a second process, joined to the first by `/tf` alone. It
has threads: actionlib's execute thread runs one goal at a time; rospy threads
deliver goals and cancel requests, `/tf` messages, and each call of the publish
service. They share the finger data, the interactive markers and the transforms
without a lock, and one yaml file per hand.

**What is hard.** The interleaving of the stream with acknowledgements;
acknowledgements that are late, missed, taken for another command's, or absent;
services that run back to back with no read between them;
procedures of five to nine commands each of which may fail; retries of commands
that accumulate; the recovery's three-valued flag; waits with a timeout looked
at only after a read; a count of stations that comes from several places;
memory that is read before it is set; SIGINT during any of it; crashes and
relaunches on a device that remembers; and, in the node, goals that are
overtaken or cancelled between two looks at a flag, and files rewritten in
place. `PROJECT.json` lists each hazard at its line.

**What makes each part correct.**
- Link: a call ends; a success means the command reached the device; the last
  frame and its count belong together.
- Set-up: the loop starts on a configured device; no correction is layered twice.
- Loop: it recovers; it publishes Euler angles as quaternions at most while the
  device is in Euler units; SIGINT ends it.
- Calibration and source selection: a success tells what the device did; one that is
  told the device is in Euler units sets it back; every request is answered.
- Discovery: one device whole or nothing; everything is given back.
- Liberty: no correction on top of another; a correction is computed from a fresh
  measurement of its own station; the loop starts in quaternion format.
- Calibration node: no success for a goal that was cancelled; every goal ends;
  a file holds what was published, and is whole unless a crash tore it.
- Wire format: the device can delimit and check a command; all ways of counting
  stations agree.

## 2. The modules

Each module extends the one before it in its chain, so a driver step can name
the link's and the device's state:

    ViperProtocol <- ViperDevice <- ViperLink <- ViperDriver <- ViperProperties <- MCViper
    ViperProtocol <- TrackerService         (abstract; ViperProperties instantiates it)
    LibertyDevice <- LibertyDriver <- LibertyProperties <- MCLiberty
    KnuckleCalibration <- KnuckleProperties <- MCKnuckle
    UsbDiscovery <- MCUsb        WireFormat <- MCWire

and the theorems of section 4 beside them:

    ViperProperties <- ViperTypeProofs <- ViperOutcomeProofs <- ViperLinkProofs
    LibertyProperties <- LibertyProofs <- LibertyLinkProofs
    KnuckleProperties <- KnuckleProofs
    UsbDiscovery <- UsbProofs        WireFormat <- WireProofs

- **ViperProtocol** (constant `Stations`). Commands and frames as records.
  A payload keeps what behaviour depends on: the units of UNITS, whether
  BORESIGHT sends zeros or a correction, the source map as the set of its bits.
  Frame sizes are the true ones, because `device_clear_input` passes the size of
  the last frame as the room for the next.
- **ViperDevice** (`PipeRoom`, `Faults`, `MaxFaults`). External: what the code
  relies on. `inbox` is the OUT pipe (one command at most), `pipe` the IN pipe.
  The device takes a command, carries it out and acknowledges it
  (`DeviceExecute`), or refuses it (`DeviceRefuse`), and streams while there is
  room (`DeviceStream`). Whether a single-frame request ends continuous mode is
  left open, since the code does not say. `layers` counts the corrections a
  station has accumulated, up to "more than one".
- **ViperLink**. One action is one USB transfer together with the code up to the
  next one; `call` says where the call stands. `ReceiveDataFrame` is
  `receive_data_frame` with its three attempts and the buffer size a failed read
  leaves at 0; `ReceiveStationMap`, `ReceivePno` and `ClearInput` are the other
  readers; `ReadFailed` is what each does when the read fails.
- **ViperDriver** (`RequiredSensors`, `Requests`, `Sources`, `Interrupts`). `pc`
  names the call reached: `su_` main's set-up, `sv_` `send_saved_calibration`,
  `lp_` the loop, `cal_` `calibrate`, `src_` `set_source`, `sd_` the shutdown.
  There is one action per call's return, with everything the code does before
  its next call. At `lp_spin` a request is served at once, and a service that
  answers goes back there: a request that waits in the queue of `spinOnce` is one made
  there, and main goes on (`SpinIdle`) when none is left. The environment makes requests, lets the three seconds of
  `CALIBRATE_TIMEOUT_IN_SECS` pass (`TimerExpires`), sends SIGINT, and kills and
  relaunches the process (`Relaunch`).
- **ViperProperties**. The properties. They speak of the device through
  `EffUnits`, `EffStreaming`, ...: its state once the command on its way has been
  carried out. That is the most the driver can know.
- **TrackerService** (`Stations`). What a user of the tracker may rely on, without
  packets: three phases, one request at a time, a tracker with units, stream,
  zero and sources. Being ready and answering with success is possible only when
  it is true; units, boresight and sources change only during start-up or on
  behalf of the request served. `ViperProperties` maps `phase` to `Phase` (a
  function of `pc`), `request` to `client`, and the tracker to the `Eff` operators.
- **UsbDiscovery** (`NumDevices`, `NumInterfaces`, `ErrorCodes`). One action per
  libusb call, each of which may fail with any of the codes.
- **LibertyDevice** (`PipeRoom`, `Faults`, `MaxFaults`). External. Text commands are
  carried out some time after they were written; only `p` and `^u` are answered.
  A frame has one record per sensor present, of 48 bytes in quaternion format and
  44 in Euler format, and remembers which stations were measured without any
  boresight (`raw`). `bore` is what a station's boresight is made of: nothing,
  zeros, one correction, or a correction on top of something (`layered`).
- **LibertyDriver** (`RequiredSensors`, `Requests`, `Interrupts`, `Garbage`). `pc` and its
  prefixes as in `ViperDriver`, `end_` being the failing end of a procedure. A
  command is a write, so there is one action per transfer. `Garbage` is the set of
  counts that memory the code never set may hold: `station_count` before the
  stations are counted, and the stack buffer of `request_num_of_stations` when
  nothing was read into it. `store` says for each station what kind of angles were
  saved.
- **KnuckleCalibration** (`HandOrder`, `Sides`, `Goals`, `Callers`, `Faults`). `exec` is where
  the execute thread is in `_calibration`; goal status and the two preempt flags are
  actionlib's (external). One record of `call` per service caller is its stack frame:
  the step of `_publish_calibration_cb`, the hand it is at, the transforms collected.
  `marker` is `bare` between the emptying of the finger data and the insertion of
  the new markers, where any reader raises. `file` is `Torn` between the `open` that
  empties it and the dump. `Crash` ends the process anywhere; `Start` loads the files
  and does not survive a torn one. One finger stands for the four: the code treats
  them alike, one after the other.
- **WireFormat** (`Bytes`, `StationNumbers`, `Payloads`). A behaviour does one job:
  runs `CalcCRC_Bytes` beside a bit-by-bit division, reads the records of a frame
  into `SensorMap` and counts it with `count_bits`, or sizes and prepares a command.
  A word is the set of the positions of its 1 bits, so a shift, an
  exclusive or and a mask are operations on sets of numbers, of which the proofs can
  speak without arithmetic on powers of two.

Definitions named in comments as mutants are changed versions of an action, used
to show that a property notices the change; no specification uses them.

## 3. Runs

| run | instance | properties | distinct states |
|---|---|---|---|
| `viper_any_fault` | 2 stations, calibration, any 1 fault of the seven kinds | `TypeOK`, `IndexesFrame` | 2.9 M |
| `viper_services` | 1 station, both services, 1 link fault | `ReadyMeansConfigured`, `CalibrationSuccess`, `SourceSuccess`, `EulerOnlyWhileEuler`, `ImplementsService` | 2.1 M |
| `viper_relaunch` | 2 stations, calibration, 2 crashes, fairness | `LayeredAtMostOnce`, `SetsBackPastEuler`, `Answered` | 666 k |
| `viper_recovery` | 1 station, sources, SIGINT, 1 failed read or sensor change, fairness | `Recovers`, `InterruptEnds` | 214 k |
| `usb_discovery` | 3 devices, 3 interfaces, 3 error codes | `TypeOK`, `AllOrNothing`, `ReleasesAll`, `SearchesAll` | 175 |
| `liberty_any_fault` | 2 stations, calibration, any 2 faults of the six kinds, uninitialised counts that may look like 3 | `TypeOK`, `NeverLayered`, `ReadyInQuaternions`, `RestoresKept` | 1.7 M |
| `liberty_sound_link` | 2 stations, calibration, SIGINT, 1 failed read, sensor change or crash, fairness | `CorrectsWhatItAwaited`, `PublishesQuaternions`, `CalibrationCompletes`, `Recovers`, `InterruptEnds`, `Answered` | 111 k |
| `knuckle_node` | 2 hands, goals for one of them or for an unknown side, 2 goals, 1 caller, 1 crash or failed broadcast, fairness | `TypeOK`, `SucceedsLiveGoal`, `NoStraySubscription`, `FilesWhole`, `PreemptHonoured`, `SavesWhatItPublishes`, `GoalsEnd` | 494 k |
| `wire_format` | all bytes, 2 of them; 11 station numbers; 4 payload sizes | `TypeOK`, `ChecksumIsCrc`, `TrailerChecks`, `SizeEndsFrame`, `CountsAgree` | 83 k |

The calibrations and sources of a run are requested without number, alone or queued.
`viper_services` has a VIEW (`WithoutCalibrations`) that leaves out what neither the rest
of a behaviour without relaunches nor its properties look at.

In the fair specifications and elsewhere a process that has ended stutters
(`Ended`), and everything else must always have a step; only `wire_format` turns the
deadlock check off, because its jobs end.

**What the properties hold for.** Each run states its faults, and some
properties are true only there:
- `TypeOK` and `IndexesFrame` hold for every fault.
- `ReadyMeansConfigured`, `CalibrationSuccess`, `SourceSuccess` and
  `ImplementsService` are claimed for a device that refuses nothing. The
  acknowledgement of RESET is never read (`viper.cpp` 57-62, 91) and has the type of
  CONTINUOUS, so it can stand in for the refusal of the next CONTINUOUS: a refusal
  after a read that fails while the input is cleared violates
  `ReadyMeansConfigured` (2 stations, 1 required, `Faults = {"nak", "read"}`, `MaxFaults = 2`). One
  refusal violates `SourceSuccess`: the acknowledgement of an earlier source request,
  missed behind three frames, answers the refused one.
- `EulerOnlyWhileEuler` is claimed for a device that refuses nothing; one
  refusal violates it.
- `LayeredAtMostOnce` and `SetsBackPastEuler` hold over a sound link, through crashes and
  relaunches at any point. With link faults the former is refuted below, and so it
  is by a sensor that drops out; the latter needs each answer to arrive.
- `Recovers` holds with failed reads and sensor changes for a driver whose
  clients only select sources. A lost write, or a calibration that fails,
  refutes it.
- `ReleasesAll` is about what `release_usb` does when it is called: main's early returns
  (361-421) never call it and leave the interfaces to the end of the process.
- `Answered` and `InterruptEnds` hold without lost or refused commands.
- Liberty: `NeverLayered`, `ReadyInQuaternions` and `RestoresKept` hold for every fault.
  The properties of `liberty_sound_link` need writes that do not fail, because
  `calibrate` acts on the result of none of the three between which the format is
  Euler angles: one lost write (`Faults = {"write_lost"}`, `MaxFaults = 1`) violates
  `PublishesQuaternions` and `CalibrationCompletes`, and a lost RESET, after which
  `device_clear_input` reads the stream for ever, violates `Recovers`. `CorrectsWhatItAwaited` is false under any two faults (a clearing
  that ends early, with a count made of garbage, leaves stale frames), after enough
  relaunches with failed reads (one station, `Faults = {"read", "crash"}`, `MaxFaults = 9`,
  `PipeRoom = 4`: each life leaves one more answer to `^u` unread, until a life goes on
  with its predecessor's frames still behind the answer it reads), and with
  `RequiredSensors = 1` and a sensor missing (the record is another station's).
  `Recovers` is false with a failed dump together with a failed read: the
  calibration returns with the stream off and the flag at 1.
- Node: `SavesWhatItPublishes` is claimed for one caller at a time; with a second one
  it is violated (below). `FilesWhole` is claimed as long as no fault happened.

**Bounds and why they are enough.** `PipeRoom = 3`: with three PNO frames ahead of
a reply `receive_data_frame` exhausts its attempts, so each outcome of that loop
occurs. Nothing in the code bounds the frames that wait, so the properties that could
depend on it were also run to the end with more room: `EulerOnlyWhileEuler` without a
fault up to 8, with link faults at 4 and 5 (one station); it, `SetsBackPastEuler` and
`LayeredAtMostOnce` with two crashes or failed dumps at 4 and 5 (two stations, up to 5.9 M states). `viper_recovery`
has `PipeRoom = 2` for time; with 3 (696 k states) the result is the same.
`MaxFaults` of 1 or 2 puts a fault
at every transfer of every procedure. One station shows each command's
outcome; two show the loops over stations, incomplete frames
(`RequiredSensors = 2`) and per-station parameters. Source numbers 0, 1 and 3 are
an invalid one, the one in effect at power-up, and another. Three devices
give a first, a middle and a last one to fail at.

The Liberty runs use `PipeRoom = 2`: no wait there counts frames, and two stations with
two unread frames already give stale frames, records of the wrong station and
frames that overflow. `Garbage = {3}` is a count larger than the number of stations,
0 is always possible. In the node, two goals give a running goal and one that
overtakes it (a third one recalls the second, which happens with the first not
yet accepted); two hands give a file that is written while the other hand's goal
runs; `head` stands for a side that is not served. In `wire_format`, two
bytes take the register from its start through 64 k of its values, and the theorem
`ChecksumCorrect` covers the rest; the eleven station numbers include 0 and 15 and both
gloves' ranges.

**Fairness.** Weak fairness of the driver's own steps (the process runs), of
`DeviceExecute` and `DeviceStream` (the device answers and streams) and of
`TimerExpires` (time passes), and strong fairness of the end of `spinOnce` (`SpinIdle`,
`SpinEnds`), which takes the queue of callbacks once, as it begins, so that requests
cannot keep main in it for ever; for the node, of `Start`, of the execute thread and of
`TimePasses`. No fault, request, goal, cancel request, `/tf` message, publish call,
signal or relaunch is fair. The code relies on the same: `libusb_bulk_transfer`
returns after its timeout at the latest, the waits end by the clock, and the
acquisition loop sleeps and looks at the clock.

**Disagreements** (runs that expect a violation; details in `PROJECT.json`):
- `layered_retry`: the retry of a station's saved calibration sends the
  accumulating boresight twice.
- `recovery_flag`: a calibration that fails between RESET and CONTINUOUS, right
  after a recovery, leaves the flag at 1 and the stream off: nothing restarts it.
- `liberty_sensor_back`: a Liberty's count shrinks with a dropout and never grows
  again; when the sensor is back every frame overflows the read.

**Further disagreements**, not runs of their own. Each is reproduced by giving TLC
the property named, under the instance described:
- Viper, `CalibrationRestores` (at the end of `ViperProperties`), one station, calibrations
  only, `PipeRoom = 3` and no fault at all. Three calibrations queue up. The first misses
  the acknowledgement of SINGLE behind three PNO frames. The second takes that one, and
  misses BORESIGHT's in the same way. The third takes both late answers and a
  streamed frame for its own; the clearing after its RESET ends when a frame is larger
  than the reply before it, so one BORESIGHT answer stays in the pipe, is read as the answer
  to EULER, which the device carries out, and the call fails in Euler units (README.md:95: "The data
  type is then set back to quaternion"). Main's recovery restarts the stream, and Euler
  frames are published as quaternions until a calibration gets through; the next
  one saves its angles from such a frame. With `PipeRoom = 4` it also happens to
  calibrations that do not queue. What does hold then is `EulerOnlyWhileEuler` and
  `SetsBackPastEuler`: only the reply to EULER itself can be missed so, and the next QUATERNION
  ends it.
- Viper, `InterruptEnds`, `viper_recovery` with `Faults = {"write_lost"}` and no requests:
  after a lost RESET write `device_clear_input` reads the stream for ever.
- Viper, `SourceFailure`, `viper_services` with source requests only and no fault at
  all: the acknowledgement behind three streamed frames is missed, and a source
  that is set is answered as a failure (`set_source.srv`).
- `UsbDiscovery`, `ConnectedHasHandle`, `usb_discovery`: main compares the search's
  result with -1 only (`polhemus_tf_broadcaster.cpp` 333), so other libusb codes pass
  with no handle.
- Liberty (2 stations, `RequiredSensors = 2`, calibration, `Garbage = {}`; the
  definitions are at the end of `LibertyProperties`), without any fault:
  - `ActivatesBinary`: `device_binary_mode` is called from `device_init`, before the object
    has its handle, so `f1` is not sent to the device (README.md:62).
  - `FrameFitsBuffer`: the frame buffer is made in `device_init`, before the stations are
    counted (`liberty.cpp` and main; README.md:72 has it after).
  - `RestoresCalibration`: the launch loads the calibration into the node's own
    parameters, `send_saved_calibration` looks it up under `/calibration`, where only
    a calibration of the same `roscore` is.
  - `SavesRaw`: the frame whose angles `calibrate` saves may be older than the `^b` before
    it, so an old boresight is part of them.
- Liberty, same instance, `CalibrationSuccess` with `Faults = {"sensor"}`: `calibrate`
  returns -1 from a function of type `bool`, which is true (`liberty.cpp:344`).
- Liberty, same instance, `CorrectsWhatItMeasured` with `Faults = {"crash"}`: relaunched
  with angles under `/calibration` but none among its parameters, the driver corrects
  from a frame it never read.
- Node, `SavesWhatItPublishes` with two `Callers`: each call sends the transforms it
  collected earlier, and the older ones may be sent last, so `/tf_static` and the file
  differ until the next call (the comment at 135 says the service publishes the
  current calibration).
- Node: a publish call for one hand saves every hand (260-311), also the half-done
  pose of a hand whose goal is running.
- Node: a crash between `open` and `dump` in `_save_calibration` leaves an empty file;
  at every later start `yaml.load` gives `None`, the look-up at 207 raises, and the node
  never comes up (`exec = "dead"`).
- Node: a fit to no points returns its start and the goal is reported as a success
  (`fitted = FALSE`); the service answers True although sending raised (319-323).
- Outside the models: `set_source.srv` has a 64-bit source, truncated to `int`, and
  `viper.cpp:374` shifts by it, which is undefined above 32; the comment at
  `polhemus_tf_broadcaster.cpp:505` speaks of the first 5 sensors, the constant is 8.

None of the Viper ones depends on whether a single-frame request ends continuous
mode: they occur with a device that goes on streaming.

## 4. Theorems

All hold for every value of the constants allowed by the named assumptions
`StationsAssumption`, `DeviceAssumption`, `DriverAssumption` (finite station
numbers up to 15, at least one place in the pipe, known fault kinds, natural
numbers), `DiscoveryAssumption`, `KnuckleAssumption` and `WireAssumption`.

- **`TypeCorrect`** (`ViperTypeProofs`): `Spec => []TypeOK`. `TypeOK` is not quite
  inductive, because the command on its way must be well-formed when `set_source`
  sends it. `TInv` adds `SourceAccepted`: at `src_set` the request is pending and
  its source at least 1.
- **`FramesIndexed`** (`ViperTypeProofs`): `Spec => []IndexesFrame`. `station_count`
  is set from the station map and from frames, so the property is false in
  between. `FrameInv` adds which kind of call runs at each label (`Calls`) and that,
  from the first complete frame of a wait on, count and frame agree (`Frame`):
  no call in between touches either.
- **`ReadyConfigured`, `CalibrationDone`, `SourceDone`** (`ViperOutcomeProofs`):
  `ASSUME "nak" \notin Faults` (`NoRefusals`) they prove `ReadyMeansConfigured`,
  `CalibrationSuccess` and `SourceSuccess`, for any mixture of lost and unreported
  writes, failed reads, sensor changes, failed dumps and relaunches. A reply does
  not say which command it answers, so an argument from replies fails. `Outcome`
  argues from the OUT pipe: a command whose write went through is in the pipe or
  done, and what it set stays set until the next command about the same
  thing is written. `ExecuteKeepsEffects` is the step that makes this work: carrying
  a command out does not change the `Eff` operators. `Serves` says that a calibration
  label is reached only for a pending calibration request.
- **`LayeredOnce`, `EulerOnlyInEuler`, `SetBackOnceEuler`** (`ViperLinkProofs`):
  `LayeredAtMostOnce`, `EulerOnlyWhileEuler` and `SetsBackPastEuler` over a sound link
  (`SoundLink`: at least one station, no fault but failed dumps, no relaunch), for any stations,
  sources and signals, any room in the pipe, and any number of requests, queued or not.
  Here the argument has to be about replies, since what must not happen is that a command
  that was carried out is taken for a failure at the wrong place, and any number of late
  answers may be under way. The invariant `SInv` is about what is outstanding, the
  acknowledgements in the pipe and the command in the inbox:
  - `Orderly`: while main sets the device up and sends the saved corrections, nothing is
    outstanding but the answer to the present command, and it is the next thing a read
    returns: the stream is off there, or was off when the command was sent. So a saved
    correction is never sent twice (`Layered` adds that the stations from the present one on
    still have none). In the loop anything may be outstanding, until `calibrate` has
    stopped the stream and read until a read failed: then either nothing is left, or the
    next answer is there and is not one to UNITS (`Cleared`, `Spoilt`), so that the reply to EULER is
    found only on a link with nothing else under way, and the rest of the call is in step.
  - `Paired`: the stream stops before any command that sets the units is sent, so the answer
    to one is first in the pipe or directly behind another answer; a clearing that gives up
    in front of a PNO frame therefore never leaves such an answer first.
  - `Timely` and `Used`: a Euler frame in the pipe, or read and not yet used, means that
    the device is still in Euler units, since QUAT is sent only when no frame is left.
  - `Kinds` and `Mapless` (in the loop no station map is outstanding, so all answers are of one
    size) tell how far a clearing gets.

  A relaunch breaks `Orderly`: the new process knows nothing of what the dead one left in the
  pipe and in the inbox.
- **`TypeCorrect`, `SearchIsClean`, `ReleaseIsComplete`, `SearchIsExhaustive`** (`UsbProofs`): `TypeOK`,
  `AllOrNothing`, `ReleasesAll` and `SearchesAll` for any number of devices and interfaces. `Search` says for each call
  of the search what is open and claimed: all devices but the current one are
  untouched, the current one has claimed the interfaces below `claimed_ifaces`.
- **`ServiceImplemented`** (`ViperOutcomeProofs`): under `NoRefusals`,
  `Spec => ImplementsService`. The step that changes the abstract tracker is the write
  of a command, since the `Eff` operators already count it; the device carrying it
  out is a stutter (`ExecuteKeepsEffects`), as are reads and the driver's own
  steps. A write during start-up is `SetUp`, a write of the recovery or the shutdown is
  `Stream`, one of the calibration `Calibrate` or `Stream`, one of `set_source`
  `SelectSource`. That an answer of success is `CalibrateDone` or `SourceDone`, and
  entering the loop `BecomeReady`, is what `Outcome` gives.
- **`TypeCorrect`, `NotLayered`, `EntersInQuaternions`, `CorrectionsInForce`** (`LibertyProofs`): for any
  stations, faults and garbage. With nothing acknowledged the argument is again about
  writes: one that failed may still have arrived, so `EffBore` and `EffUnits` after a
  write are those before it or those after its command. `BareInv` says that from the
  reset of the boresight to the first correction no station has one, and that at
  `sv_bore` the stations from `station_id + 1` on still have none; `UnitsInv` says that
  from `O*,...` on the format is quaternion. A failed write leaves those parts of the
  program, which is what a dropped check of a result would break.
  `CorrectionsInForce` proves `RestoresKept` for stations numbered without a gap
  (`Contiguous`; otherwise the driver's index stops at the gap): `RInv` says that the
  stations up to the index are corrected, `BareInv` that the next one starts from
  nothing, so that the walk over the stations ends with all of them corrected.
- **`PublishedInQuaternions`, `CompletedCalibration`, `CorrectedFromAwaited`** (`LibertyLinkProofs`):
  `PublishesQuaternions`, `CalibrationCompletes` and `CorrectsWhatItAwaited` where writes do not
  fail (`WritesSucceed`); reads fail, sensors come and go, and signals and requests come
  without number. A record does not tell its units to the driver, so `LinkInv` is about
  the order in the pipe: no Euler record is behind an answer to `^u`, because that is
  asked while nothing streams, and main goes on only when it has read one. The first
  two hold through any relaunches (the first needs a stack that cannot pass for a
  reply, `Garbage = {}`). `CorrectedFromAwaited` is for the first life of the process
  (`"crash" \notin Faults`), with `Garbage = {}`, stations numbered without a gap and all of them
  required: `FirstInv` adds that the answer main reads is the last frame of the pipe, so
  that every frame after it was measured without a boresight.
- **`NodeInvariant`, `TypeCorrect`, `SuccessIsForLiveGoal`, `NeverStraySubscription`,
  `FilesStayWhole`, `PreemptIsHonoured`, `PublishedIsSaved`** (`KnuckleProofs`): for any hands, goals and number of callers.
  `GoalInv` is the heart: before the loop is left the goal is live; after a break it may
  have its result, but then the preempt flag is still up, because only the acceptance
  of the next goal lowers it. So the last look at the flag tells the two cases
  apart, whatever arrives between. `TfInv` bounds the labels with a subscription.
  `PreemptIsHonoured` (`PreemptHonoured`) needs no history variable: from the first look
  that sees the flag, "this goal is current, past the loop or the flag still up, or it
  has a result that is not success" is kept by every step. `PublishedIsSaved` proves
  `SavesWhatItPublishes` for one caller at a time (`SingleCaller`; it is false for two), with
  any number of hands and goals beside it: `PubInv` says that the transforms a call has
  collected are the poses of the hands it has passed.
- **`WireInvariant`, `TypeCorrect`, `ChecksumCorrect`, `TrailerCorrect`, `SizeCorrect`,
  `CountsCorrect`** (`WireProofs`): the five invariants of
  `wire_format` for messages of any length, any station numbers and payloads. `CalcCRC_Bytes` divides two bits at
  a time in effect (the parity of the byte decides `0xc001`, its shifts by 6 and 7 the
  rest), so the proof needs what the register is in the middle of the bit-by-bit
  division: `Partial` gives it after `k` bits in closed form, from the parity of the
  bits shifted out so far, and the eighth step gives the code's formula. The trailer
  sums to zero because appending the register's two bytes shifts it out. For
  `count_bits`, `Counting` says that the bits counted and the bits left are those of the
  map: `v & (v - 1)` takes away the lowest, which exists by the well-foundedness of `<`.

**Only model-checked.**
- The liveness properties `Answered`, `Recovers`, `InterruptEnds`, `GoalsEnd`: fairness and
  `ENABLED` are outside the prover's reach.
- `LayeredAtMostOnce`, `SetsBackPastEuler` and `EulerOnlyWhileEuler` across relaunches, where a life may begin
  with any number of late answers outstanding, and `EulerOnlyWhileEuler` with
  faults of the link.
- `CorrectsWhatItAwaited` across a relaunch or with uninitialised counts: false for
  enough of them (section 3).

## 5. Not modelled

- The byte layout of the configurations that commands carry, and the accessors of
  `viper_protocol.h` no code calls (names, printing, unused configurations). A frame
  is well-formed in the drivers' models or lost; the CRC alone is in `WireFormat`.
- The angles of the corrections and the transforms' contents, and the numerics of
  the sphere fit: floating point.
- The node's scaling parameters (dynamic reconfigure), its colour markers, and the
  dragging of interactive markers by a user.
- `persist_srv`: no code advertises it. `persist_commands` has no caller.
- SIGINT before `signal()` is called (ROS's handler is then in place), and a death
  of `roscore` (`ros::ok()`).
- More than 16 matching devices (`arrDevInfo` overruns), and the second
  `libusb_close` after a failed descriptor: listed as hazards.
- Source numbers above the width of an `int` shift.
- Hemisphere vectors and the Liberty's text formatting: no property depends on them.

## 6. Plan

1. Done: the Viper (protocol, device, link, driver with both services and main), the
   Liberty over the same main, USB discovery, the calibration node, the wire format,
   the abstract service and its refinement, with the theorems of section 4.
2. Left to prove: `CorrectsWhatItAwaited` with the number of unread answers bounded by
   the faults, and the three properties of `ViperLinkProofs` through relaunches. The liveness
   properties stay with TLC.
3. Left to model: nothing whose control flow is in the repository, apart from what
   section 5 names.
