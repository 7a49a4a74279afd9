# TLA+ models of the Timelapse+ firmware

These modules model the control logic of the Timelapse+ intervalometer
firmware under `src/src/`, and TLC checks them. `PROJECT.json` lists every
component, run, mutant, finding and hazard. It also maps each TLA+ definition
to the source lines it translates.

## The system

The firmware runs on an AVR with one cooperative main loop and a set of
interrupt handlers. Its parts and how they interact:

| Part | Source | State | Operations |
|---|---|---|---|
| PTP transaction engine | `PTP_Driver.c`, `PTP_Codes.h` | `PTP_Error`, `PTP_Ready`, `PTP_Connected`, `configured`, `PTP_Response_Code`, the shared container `PIMA_Block`, `PTP_Bytes_Received/Remaining` (uint16), `PTP_IgnoreErrorsForNextTransaction`, LUFA's `USB_HostState` | `PTP_Transaction`, `PTP_FetchData`, `PTP_GetEvent`, `PTP_Task`, `PTP_Enable`, `PTP_Disable`, `PTP_OpenSession/CloseSession`, `PTP_GetDeviceInfo`; USB events Attached, Unattached, EnumerationComplete, HostError |
| Camera facade | `PTP.cpp` (not in `src/`) | `camera.ready`, `busy`, `bulb_open`, exposure settings | bulbStart/End, capture, setISO/Aperture, resetConnection |
| Run state machine | `shutter.cpp` `shutter::task` | `run_state` (Delay, Bulb, Photo, Gap, Next, End, Error), `timer.running`, `timer.paused`, `status.photosTaken`, `photos`, `exps`, `old_state`, `retryCount`, the ramp state | one call per main-loop tick |
| Exposure ramp calculator | `shutter.cpp` `calculateExposure`, `calcRamp*`, `calcBulbMax` | `rampStops`, keyframes | pure arithmetic in int8, uint8, uint16 and float |
| Shutter hardware control | `shutter.cpp` lines 155-360 | `shutter_state`, `ir_shutter_state`, `cable_connected`, `lastShutterError`, the release and mirror lines, callbacks pending in `clock.in` | off, half, half_delayed, full, bulbStart, bulbEnd, capture, check_cable |
| Keyframe curve, sorting, medians | `math.cpp` | none | pure functions; `curve` is called by the keyframe ramp of `shutter::task`, the sorts and medians have no caller here |
| Change notification | `notify.cpp` | `watchedItems[]`: id, item, size, handler, byte sum and xor | watch, three unWatch overloads, task (polled from the main loop) |
| Settings | `settings.cpp` | EEPROM: `conf_eep`, `camera_settings_eep[]`; RAM: `conf`, `settings_camera_index` | save, load, update, default, init, load_camera_default/index, setup_camera_index |

The engine has two threads of control. The main thread runs one call at a
time. The USB interrupt raises the Unattached and HostError events at any
point. Attached and EnumerationComplete are raised by `USB_USBTask`. The main
loop calls it between calls, and `PTP_Transaction` also calls it before the
response phase (line 223).

The run state machine calls the camera facade. The facade calls the
engine. It reads `PTP_Error` and `camera.ready` to decide when to go to its
Error state, which resets the connection and retries.

## Modules

### PtpTransaction (modelled)

Each `PTP_Transaction` call is split into one action per pipe operation, so
that the interrupt handlers can run between any two of them:

- `Begin`: lines 151-163. The latched-error check, the diversion to
  `PTP_FetchData` while `PTP_Bytes_Remaining > 0`, then the command is sent.
- `SendDataPhase`: the send data phase.
- `ReceiveDataHeader`: the data header of a receive.
- `ReadDataChunk`: the first chunk.
- `ResponsePhase`: the response.
- `FinishError`: the error exit that latches the opcode.

`PTP_FetchData(0)` is `FetchReadChunk` plus `FetchResponse`. `PTP_Task` opens
the session and starts `GetDeviceInfo`. `ParseDeviceInfo` is the parse that
follows, after which `PTP_Ready` is set. The four USB event handlers and
`PTP_Enable` are actions of their own.

LUFA's host state is the variable `host`. A pipe operation fails whenever
`host # "configured"`, which is what `SI_Host_*` test (line 383). While the
host is Configured, the operation may still fail, because the block header
or the data cannot be read (lines 391-397). `PipeResults` is the set of
outcomes, and failures while Configured count against `MaxEnv`.
`USB_Host_SetDeviceConfiguration(0)` (line 277 and line 419) drops the state
to Addressed.

Each answer of the camera is chosen from a constant set:

- `CameraResponses`: the response codes;
- `DataLengths` and `DeviceInfoLengths`: the lengths in data headers.

When a read fails, the code it tests is the stale `PIMA_Block.Code`.

History variables support the properties:

- `txFail`: a pipe failed during this call;
- `badAnswer`: the camera answered Fail or a short header;
- `xfer`: who started the transfer, what it declared, and what was delivered;
- `epoch` and `xferEpoch`: which attach the transfer belongs to;
- `ignoreSeen`: a call has begun since the ignore flag was set.

The byte counters are taken modulo `2^Width`, because they are `uint16_t`.

### ShutterTask (modelled)

`shutter::task` is called once per main-loop iteration. Its `if` blocks are
tested one after another, not as else-if, so one call can pass through
several run states. The action `Tick` is one whole call. It applies one
operator per block, in code order, to a record `s`. The record holds task's
statics, the timer members and the camera flags that task reads. A block
that returns sets `s.ret`, and the later blocks then leave the record alone.

| Operator | Lines | What it does |
|---|---|---|
| `Entry` | 478-496 | a stopped run that was entered is cancelled |
| `InitBlock`, `PreCheckDone` | 498-611, 578 | set-up, alerts, `preChecked` 0 -> 1 -> 2/3, start in RUN_DELAY |
| `PauseBlock` | 615-702 | resume countdown to 9, return while paused, honour a pause outside RUN_BULB |
| `CancelStep` | 706-709 | cancel forces RUN_END |
| `DelayBlock`, `PhotoBlock` | 712-780 | start delay; capture or go to RUN_BULB |
| `BulbBlock`, `BulbEntry` | 782-1197 | ramp parameter failure, exposure start and its retry, the wait for the end of the bulb |
| `NextBlock`, `BracketDone`, `RunOver` | 1199-1261 | error test, HDR bracket, photo count, end of run |
| `GapBlock` | 1263-1301 | wait for the camera and the interval |
| `ErrorBlock`, `RetryExpired` | 1303-1346 | reset on entry and every 41 calls, back to RUN_NEXT when the camera is ready |
| `EndBlock` | 1348-1376 | clear the run and return DONE |

The program (`current.*`) is the variable `prog`. `Init` chooses it from
`Programs`, and it stays fixed for the run. The ramp arithmetic and keyframe
evaluation inside RUN_BULB are abstracted to whether they succeed.

The camera facade (`PTP.cpp`) and the clock are not under `src/`. Their effects are:

- inside a call, the outcome of each camera operation (`Choices`): bulb or
  PTP shutter, a failed setAperture/setISO, and a start that succeeds, fails,
  or fails and latches `PTP_Error`; at most `MaxFaults` failures per run;
- between calls, the environment steps `TimePasses`, `BulbTimerEnds`,
  `CameraDone`, `DurationElapses`, `LightIntegrated` (`preChecked` 2 -> 3) and
  `CameraAttached`, together with `CameraUnplugged` (`EVENT_USB_Host_DeviceUnattached`);
- the user's steps `DismissAlert`, `StopRun`, `PauseRequest` and
  `ResumeRequest` (`shutter::pause`), of which at most `MaxUiOps` are
  pause, resume or stop.

Time is abstracted to one flag, `due`: the delay, frame gap or interval
being waited for has passed. `clock.tare` clears it. A ramp's `Photos` is
Duration·600/Gap, so time stops passing beyond `Photos + 1` photos until the
Duration has elapsed (`RampTimeLeft`).

The history variable `s.exposures` counts exposures the camera really made.

In `Tick`, each block's result is bound with `\E r \in {...}` so that TLC
evaluates it once. This matters when TLC evaluates fairness.

### Notify (modelled)

`watchedItems` is a function from the `MAX_ITEMS_WATCHED` slots to records
with the fields of the C struct. A watched item is a model value, and `mem`
maps it to its bytes (a sequence of `ItemSize[it]` bytes). `ByteSum` and
`ByteXor` are the two `uint8_t` checksums of lines 28-33.

- `Task` is one `Notify::task()` call. Every active slot whose checksums
  differ takes the new ones (`Resync`), and its handler is called. Handlers
  are code outside this file, so a call is recorded in `notified`.
- `Watch` is `unWatch(id, handler)` followed by the search for the first
  inactive slot; on a full table nothing more happens (line 69).
- `UnWatchId`, `UnWatchIdHandler` and `UnWatchHandler` are the three
  overloads.
- `Write` is the rest of the firmware storing a new value into an item, at
  most `MaxWrites` times.

The ghost `seen` holds, per slot, the contents its handler last learnt
about: at `watch()` or at its last notification.

### Settings (modelled)

The variable `m` holds the whole memory: `eep` (`conf_eep`), `slots`
(`camera_settings_eep[]`), `conf`, `index` (`settings_camera_index`) and
`reset` (`settings_reset`). A record keeps only what decides where settings
go: the two version tags, one value for the general settings, and a camera
record of a serial and one settings value. `SettingsSave`, `SettingsLoad`,
`SettingsDefault`, `SettingsInit`, `LoadCameraIndex` and `SetupCameraIndex`
are operators on `m`, and each public function is one action that applies
them in the code's order (`settings_update` is save then load). Around
them:

- `Edit`: a menu changes `conf` in RAM (at most `MaxEdits` times);
- `CameraConnected`: a PTP camera with a serial connects, and the variable
  `camera` records its serial;
- `LoadCameraDefault`: the camera goes away (`camera = NoSerial`);
- `PowerCycle`: power is lost, RAM is cleared and `settings_init` runs.

`Init` is the first power-up: any EEPROM contents whose slots do not repeat
a serial, then `settings_init`. The ghost field `saved` records, per camera
(`NoSerial` for the default camera), the camera settings of the last save
made for it.

### SettingsStore (abstract specification of Settings)

SettingsStore states what the settings functions promise, with no EEPROM
layout. Its state is:

- the selected camera (`NoSerial` for the default camera);
- a working copy of the camera settings and of the general settings;
- a store of camera settings whose domain is the remembered cameras;
- the stored general settings.

Its actions:

- `Save` stores the working copy for the selected camera.
- `Select(s)` gives a camera its stored settings. A camera seen for the
  first time gets the default camera's settings. It makes one other camera
  be forgotten only when `Capacity` cameras are already remembered.
- `Reload` discards the working copy (disconnect, power-up).
- `FactoryReset` works with no camera selected. It forgets every camera and
  stores the factory values.

`Settings` maps itself onto it with `Store == INSTANCE SettingsStore WITH
...`:

- the selected camera is `conf.camera.serial` when `settings_camera_index`
  is above 0;
- the store is `conf_eep.camera` plus the occupied slots;
- the working copies are `conf`.

The property `StoreRefined == Store!Spec` needs no ghost state. It is
broken by any change to a camera's stored settings that is not a save while
that camera is selected, and by any eviction that does not follow a new
camera.

### KeyframeRamp (partly)

The keyframe branch of the BULB block (shutter.cpp 820-886) and `curve`
(math.cpp 28-47). `Segment` is the search for the first keyframe not yet
passed, `Points` builds `key1`..`key4`, `Position` is `t`, and
`KeyframeStops` is the resulting `status.rampStops`; after the last keyframe
the `else` branch (line 884) holds its offset. `Curve` evaluates the
Catmull-Rom polynomial, or the straight line when `conf.linearInterpolation`
is set, over exact rationals. Every input is a small integer, so the float
code differs only by rounding. The clock advances one second per `Tick`, and
every photo time is one of these seconds. `Init` starts `rampStops` at 0, as
RUN_DELAY does (line 545).

### HdrBracket (modelled)

The variables `exp`, `bracket` and `exps` are `current.Exp`, `Bracket`
and `Exps`; `cam` is the connected camera's shutter range.

- `CheckHDR`, `HdrTvUp`/`HdrTvDown` (with the search of `HdrTvSearch`),
  `BracketUp`/`BracketDown` and `HdrExpsUp`/`HdrExpsDown` translate the menu
  step functions in uint8_t arithmetic (`U8`), with the 254-step searches.
- `BracketTv(e)` is the shutter value shutter::task sets for exposure `e` of
  a bracket (lines 1068-1093).
- Each menu step is an action, and `CameraChanged` connects another camera
  and keeps the program.
- `PTP::shutterUp`/`shutterDown` are not in the repository. They are
  modelled as a step to the next index inside the camera's range.
- `HdrExpsName` is hdrExpsName (lines 1874-1893), with characters as
  their codes.

### MathArray (modelled)

The array helpers of math.cpp 87-219. `BubblePass` is one pass of the
`for` loop, and `BubbleSort` repeats passes until one makes no swap.
`sortUInteger` and `sortInteger` run the same loop, so they are the same
operator. `MiddleHalf` is the index range `length / 4 ..
length - length / 4 - 1` of the 50% means. `ArrayMedian50` is the float
mean, over exact rationals. `ArrayMedian50UInt` and `ArrayMedian50Int`
keep the uint16_t and int16_t sums (`U16`, `Int16`) and C's truncating
division (`CDiv`). `ArrayMedian` reads position `length / 2 + 1` of the
sorted copy. Each function is an action: one call, from idle, with an array
of length 1 to `MaxLen`. `Return` hands the result back. For lengths 1
and 2, arrayMedian reads past the end of `tmpArray` (undefined
behaviour), so the returned value is a choice from the element values. An
empty array is not an input: the 50% means would divide by a zero count.
None of these functions has a caller in the repository.

### ShutterLine (modelled)

The shutter hardware control of shutter.cpp 155-360. Each C function is an
operator on the record `r` of the file's globals (`shutter_state`,
`ir_shutter_state`, `cable_connected`, `lastShutterError`, `camera.bulb_open`):
`ShutterOff`, `ShutterHalf`, `ShutterHalfDelayed`, `ShutterFull`,
`BulbStart`, `BulbEnd`, `Capture` and `CheckCable`. An operator applies the
functions it calls, in code order. The record also holds two more things:
- the release and mirror lines that the SHUTTER_OPEN/CLOSE and
  MIRROR_UP/DOWN macros drive;
- the set of callbacks that `clock.in` has scheduled.

The actions are the calls that shutter::task makes: a half press, a release,
a capture, `clock.bulb` with its `shutter_bulbStart`, and the release in
RUN_ERROR/RUN_END. The remaining actions are the end of the bulb timer
(`shutter_bulbEnd`) and the firing of a pending callback (`Fire`).

`clock.cpp` is not in the repository. The model therefore keeps one pending
call per callback, and lets the callbacks and the bulb timer run between
task calls in any order; the delays are not modelled. The camera, the IR
remote and the cable are the environment:
- a camera in cable bulb mode 0 exposes while the release is held;
- in bulb mode 1, each press starts or ends the exposure;
- USB and IR exposures run from bulbStart to bulbEnd.

`Init` chooses the configuration (`conf.camera.interface`, `bulbMode`,
`halfPress`) and the camera's capabilities once per run.

### Possible extensions

- **ShutterPtp**: ShutterTask composed with PtpTransaction. This would use
  a refinement mapping of the engine onto the facade's abstract
  ready/error/busy interface (INSTANCE ... WITH). It is not done: the
  facade between them (`PTP.cpp`) is not in the repository.

## Runs

The engine's runs use `MC_PtpTransaction` with a two-byte `PTP_Buffer`, so that a
three-byte payload already needs chunking. Other settings:

- `Width = 16`;
- one application opcode;
- `MaxCalls = 4` application calls;
- `MaxEnv = 3` plug, unplug, host-error and pipe-failure events.

These bounds allow a three-chunk transfer that runs into an unplug and a
replug, and a latched error followed by a reset.

- **ptp_engine** (pass). The camera answers OK or Fail; the ignore flag may
  be set. The run checks:
  - `TransportFailureReported`: an unflagged call never returns OK after a
    pipe failure;
  - `ReadsWithinTransfer`: the bytes delivered, the chunk being read and
    `PTP_Bytes_Remaining` never add up to more than the data header
    declared. This holds across:
    - DATA_REMAINING returns;
    - calls that line 154 diverts to `PTP_FetchData`;
    - failed reads that already took their chunk off the count (line 263);
    - unplugs that keep the count.

    A count left over is also never read from a camera attached later. A
    read past the data phase would take the response container for data;
  - `ConfiguredLeadsToReady`: once the host reaches Configured, PTP_Task
    opens a session and reads DeviceInfo, and the camera eventually becomes
    ready. The exceptions are that this single read fails, or that the host
    leaves Configured first. A failed read is not retried until the next
    enumeration, and the property says no more than that.

  It finds 498,185 distinct states in about 40 s, and every action and
  branch fires.
- **ptp_stale_busy** (violation). The previous response left Busy in
  `PIMA_Block`. The next call's response read then fails, which happens
  both while the host stays Configured and after an unplug. Line 227 copies
  the stale Busy, line 228 clears `err`, and the call returns OK. TLC's
  shortest trace has the read fail while Configured.
- **ptp_devinfo_leftover** (violation). An overlong DeviceInfo is not
  drained, and the application's next call fetches its chunks (lines 441
  and 154).

The ShutterTask runs use `MC_ShutterTask`. `MC_Programs` has four programs:

- a two-photo timelapse with short exposures;
- a two-photo timelapse of two-exposure HDR bulb brackets;
- an automatic ramp that waits for light integration;
- a single bulb exposure outside timelapse mode.

Two photos of two exposures are enough to complete a bracket, start the
next one and end the run.

- **shutter_run** (pass, `MaxFaults = 2`, `MaxUiOps = 1`). It checks two
  properties:
  - `NoExposureLost`: every exposure the camera made is counted in
    `photos`/`exps`, across bulb retries, errors, unplugs and reconnects;
  - `RunCompletesUndisturbed`: every run in which no fault and no user step
    happens ends with `photosTaken` equal to its photo count
    (`[](faults = 0 /\ uiOps = 0) => RunCompletes`).

  It finds 281,460 distinct states in about 70 s, and every action fires.
- **shutter_pause_exposure** (violation). The call that honours a pause
  (line 695) does not return. It falls through into RUN_PHOTO, which starts
  an exposure while paused. In the trace the program is TimelapseShort,
  which has no bulb exposure and no ramp, so the exposure is `capture()` at
  line 773. A bulb program would go to RUN_BULB at line 767 instead.
- **shutter_precheck_stuck** (violation). `!current.Mode & RAMP` (line 578):
  a timelapse with brampMethod AUTO and a fixed night target never leaves
  the pre-check.

`MC_ShutterLine` takes the cable-only and cable-with-USB interfaces, both
bulb modes, with and without half press. It also covers every combination
of camera capabilities, readiness and cable presence, and four task calls.

- **shutter_bulb_pulse** (violation). `ExposureEnded`: once the bulb timer
  has run `shutter_bulbEnd` and no callback is pending, the camera is not
  exposing. In bulb mode 1, `shutter_bulbStart` presses the release, sets
  `shutter_state = 1` and schedules `shutter_off` or `shutter_half`. That
  callback sets `shutter_state = 0` (line 168). `shutter_bulbEnd` (line
  310) then sends no closing pulse, and the camera keeps exposing.

  The counterexample has three steps: the bulb start, the callback, and
  the bulb end. It happens for every bulb longer than
  `SHUTTER_PRESS_TIME`.

`MC_Notify` has two ids, two handlers and two items, and the table has two
slots. The four (id, handler) pairs therefore fill it, so the full-table path
is taken.

- **notify_poll** (pass, one-byte items, bytes 0..2, `MaxWrites = 3`). It
  checks two properties across watch, re-watch, every unWatch overload and
  a full table:
  - `ChangeNotified`: every change of a watched item reaches its handler at
    the next `task()`;
  - `NotifyOnlyOnChange`: no handler runs without a change.

  It finds 63,468 distinct states in about 30 s.

`MC_Settings` has three camera serials for two EEPROM slots, so a new camera
evicts one. Its values are the factory value, the cleared (memset 0) value
and one edited value.

- **settings_store** (pass, `MaxEdits = 2`, factory reset only with no
  camera selected). It checks three properties:
  - `SavedSettingsPersist`: the default camera's record and every camera
    slot hold the settings of their last save;
  - `CameraSettingsRestored`: a camera that connects gets its own slot. The
    selected slot and RAM `conf.camera` carry the connecting serial. A camera
    that a slot still remembers gets back the settings last saved for it. A
    new camera, or one whose slot was evicted, gets a copy of the default
    camera's settings;
  - `StoreRefined`: the refinement of SettingsStore above.

  It finds 324,620 distinct states in about 45 s.

`MC_KeyframeRamp` takes every table of one to three keyframes at increasing
times from {2, 3, 5} s with offsets from {-3, 0, 3} stops, from the default
`BulbStart` of 53. These tables include both uneven spacing and flat
stretches next to steps.

- **keyframe_ramp** (pass, spline and linear). `KeyframesReached`: at each
  keyframe's time the ramp is at its offset (the `t = 1` end of the curve),
  and afterwards it holds the last offset.
`MC_HdrBracket` has two cameras, 30 s to 1/8000 s and 30 s to 1/4000 s.
30 s is index 31, the default `nightShutter`, and the indices are thirds of
a stop. The program starts as `setDefault` leaves it. Every menu step and
every camera change may happen in any order.

- **hdr_menu** (pass). `CheckHDRSound`: whenever checkHDR accepts the
  bracket, every exposure that shutter::task takes for it is in the
  camera's range. checkHDR puts Exps / 2 exposures on each side, in
  uint8_t, and the task uses the offsets ((Exps - 1) / 2 - e) * Bracket.
  This holds only because hdrExpsUp and bracketUp stop at the first
  failing value. Counts far above the first failure can pass checkHDR
  again once `mid + (Exps / 2) * Bracket` wraps past 255. With the search
  removed, TLC finds such a count.
  `ExpsDisplayed`: every count the menu reaches is shown by hdrExpsName as
  one or two digits that read back as Exps.
  The run finds 12,208 distinct states in about 10 s.

`MC_MathArray` takes every array of one to six elements from
{-1, 0, 1, 2}; the uint16_t calls take those from {0, 1, 2}. Six elements
give means over 1, 2, 3 and 4 middle elements. Negative values are
included, and so are repeated elements.

- **math_array** (pass). `SortCorrect`: the three sorts leave the array in
  the order of TLC's `SortSeq`. `Median50Correct`: arrayMedian50 returns
  the mean of the sorted array once its lowest and highest quarters are
  dropped. The run finds 29,545 distinct states in about 3 s.

### Further violated properties

The modules state some more properties that TLC finds violated. The run
list keeps one violation run per kind of defect, so these have no `.cfg`.
Each one is reproduced by checking the property with the constants given
here:

| Property | Module | Constants | What TLC shows |
|---|---|---|---|
| `CompleteTransferDelivered` | MC_PtpTransaction | ptp_engine's, with `DataLengths <- MC_DataLengthsHuge`, `AllowIgnore = FALSE` | a 64 KiB + 3 byte payload returns OK after 3 bytes (line 190, uint16) |
| `CompleteTransferDelivered` | MC_PtpTransaction | ptp_engine's | a chunk read by `PTP_FetchData` fails while the host stays Configured, after line 263 has taken the chunk off the count. The next call is diverted to `PTP_FetchData`, reads the last chunk and returns OK with a chunk missing |
| `TransportErrorLatched` | MC_PtpTransaction | ptp_engine's | a failed chunk read (line 263) or final response (line 277) in `PTP_FetchData` returns ERROR with `PTP_Error` clear, although the spec says transport errors latch |
| `BusyNeverReportedAsError` | MC_PtpTransaction | ptp_engine's, with `CameraResponses = {"OK", "Busy"}`, `AllowIgnore = FALSE` | Busy in place of the data block is an ERROR (line 183) |
| `IgnoreFlagConsumed` | MC_PtpTransaction | ptp_engine's | a call that returns at line 153 leaves the ignore flag set |
| `IgnoreFlagMasksOnlyResponses` | MC_PtpTransaction | ptp_engine's | line 228 turns a transport failure of a flagged call into OK |
| `FailedAttemptsNotCounted` | MC_ShutterTask | shutter_run's, with `MaxFaults = 1`, `MaxUiOps = 0` | RUN_PHOTO counts a capture whose error it ignores (line 773), and the Error path counts the photo, against spec section 8 |
| `FactoryDefaultsRestored` | MC_Settings | settings_store's, with `DefaultWithCamera = TRUE`, `MaxEdits = 1` | `settings_default()` while a camera slot is selected leaves the old default camera settings in `conf_eep` (line 47) |
| `ExposureEnded` | MC_ShutterLine | shutter_bulb_pulse's, with `Interfaces <- MC_IrInterfaces` | a bulb begun over IR, with USB configured, is ended over USB (line 291); `ir.bulbEnd` is never called |
| `CancelEventuallyEnds` | MC_ShutterTask | shutter_run's, with `MaxFaults = 0`, `MaxUiOps = 2` | a stop while paused never reaches RUN_END: the paused block returns (line 635) before the cancel test (line 706) |
| `MonotoneRamp` | MC_KeyframeRamp | keyframe_ramp's, with `LinearSettings = {FALSE}` | keyframes at 0 stops (2 s) and -3 stops (3 s) make the spline ramp rise to +3/16 stop at 1 s: the Catmull-Rom segment overshoots, although spec.md says monotonic keyframes give a monotonic curve |
| `BracketStaysInRange` | MC_HdrBracket | hdr_menu's | a camera with a narrower range leaves the centre at the end of the range; bracketUp then sets Bracket to 0 (line 1842), and bracketDown raises it to 1, outside the range |
| `MedianIsMiddle` | MC_MathArray | math_array's, with `MaxLen = 3` | arrayMedian of one element reads past the array (line 154), and of three elements it returns the largest, because the index `length / 2 + 1` is one too high |
| `Median50IntWithinRange` | MC_MathArray | `Elems <- MC_WideElems`, `MaxLen = 2` | arrayMedian50UInt of (40000, 40000) returns 7232, because the uint16_t sum wraps (line 195) |
| `ChangeNotified` | MC_Notify | notify_poll's, with `ItemSize <- MC_WordItem` | a two-byte item changing from (0, 1) to (1, 0) keeps its sum and xor and is never notified |

## Fairness

The engine assumes weak fairness of `PTP_Task` and of each pipe operation
of a call in progress, and of parsing the DeviceInfo dataset.
`PTP_Task` is polled by the firmware's main loop, paused by `PTP_Run_Task`
only while a transaction runs (line 157), and a call that has begun runs
to its end. The application's calls, `PTP_Enable`, the camera and the USB
events get no fairness. Only `ConfiguredLeadsToReady` depends on these
assumptions.

Notify assumes weak fairness of `Task`, because the main loop polls it.
Settings and KeyframeRamp are checked for safety only.

ShutterTask assumes weak fairness of the following:

- `Tick`: the firmware's main loop calls `shutter::task` on every iteration;
- the clock (`TimePasses`, `BulbTimerEnds`, `DurationElapses`);
- the camera (`CameraDone`, `CameraAttached`);
- the light integration (`LightIntegrated`);
- the user answering a pre-check alert (`DismissAlert`).

It assumes no fairness for pause, resume, stop or unplug.

With faults, `RunCompletes` fails under these assumptions. A reattachment
that lands just as `errorRetryCount` passes 40 is reset again, forever (line
1306). Whether this happens on the device depends on the USB enumeration
time against the loop period, so it is recorded as a hazard. Liveness is
therefore checked only on the runs with no faults
(`RunCompletesUndisturbed`).

## Not modelled

- `PTP.cpp` is not in `src/`. Its behaviour is taken from spec.md where the
  run state machine needs it.
- The LUFA demo `StillImageHost.c` and `diskio.c` are not linked into the
  firmware.
- Text formatting (`stopName`) and serial debug output are left out.
  `hdrExpsName` is modelled, as character codes, because `ExpsDisplayed`
  is about what it shows.
- `PTP_FetchData` with a non-zero offset is not modelled yet.
- In ShutterTask, the following are not modelled:
  - the ramp and keyframe arithmetic in RUN_BULB, because `calculateExposure` depends on the camera tables in `PTP.cpp`, which is not in the repository;
  - aperture recentring while paused;
  - mode switching in RUN_NEXT;
  - mirror-up, aux and dolly pulses, which drive pins only.
- In ShutterLine, the following are not modelled:
  - `shutter_off_quick`, which has no caller;
  - the delays of `clock.in` and of the bulb timer, because `clock.cpp` is
    not in the repository. Callbacks run in any order, with any delay.
- Each run starts one program; the statics that carry over between runs are
  not exercised.
- The program table in EEPROM is not modelled. This covers the `shutter`
  constructor, `setDefault`, `save`, `load`, `saveCurrent`,
  `restoreCurrent` and `nextId` (shutter.cpp 87-146, 385-432). The menus
  that call `save`, `load` and `nextId` are not in the repository. Two of
  its hazards are listed in PROJECT.json:
  - power lost inside the first boot's `setDefault` leaves an erased
    backup slot that `restoreCurrent` then loads;
  - `nextId` returns -1 when the table is full.
- `calculateExposure` (shutter.cpp 1381-1525) is not modelled. Its loops
  step the camera's aperture and ISO through `camera.apertureUp/Down`,
  `isoUp/Down`, `shiftBulb` and `bulbTime` of `PTP.cpp`, which is not in the
  repository, so what they return cannot be taken from the source. The
  aperture-open loop leaves a rejected index of 127 or more in
  `*nextAperture` (line 1487); this is listed as a hazard.
- `curve_int` in `math.cpp` has no caller in this repository. Its fixed
  point scaling has no property to check against `curve`.
- Notify handlers run inside `task()`. A handler that calls `watch` or
  `unWatch` changes the table during the loop. `Task` is one step, because a
  slot that a handler fills is polled with fresh checksums in the same loop
  and so cannot be notified.
- In Settings, power is lost between two functions, not inside an EEPROM
  block write. A torn write needs the byte layout of `settings_t`, and
  `settings.h` is not in the repository. The range checks in
  `settings_load` (lines 69-76) act on fields the abstraction leaves out.
- KeyframeRamp uses tables that start after 0 s. A first keyframe at 0 s
  makes `t` 0/0 at second 0; this is a hazard.
