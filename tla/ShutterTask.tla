---------------------------- MODULE ShutterTask ----------------------------
(***************************************************************************)
(* The run state machine of src/src/shutter.cpp: shutter::task, called    *)
(* once per main-loop iteration, with shutter::pause and the exposure     *)
(* starts it makes through shutter_capture / clock.bulb.                  *)
(*                                                                         *)
(* One call of shutter::task is one step, Tick.  Its `if` blocks are      *)
(* tested one after another (not as else-if), so a call can pass through  *)
(* several states: Tick applies one operator per block, in code order, to *)
(* a record holding task's static and member variables and the camera     *)
(* flags it reads; a block that returns sets .ret and the later blocks    *)
(* leave the record alone.                                                *)
(*                                                                         *)
(* The camera facade (PTP.cpp) and the clock are not in src/: their       *)
(* effects are environment steps taken between calls, from spec.md:       *)
(* time passing, the bulb timer expiring, the camera finishing a capture, *)
(* the camera dropping off and coming back, the user pausing, resuming,   *)
(* cancelling and dismissing a pre-check alert.                           *)
(***************************************************************************)
EXTENDS Naturals, FiniteSets

CONSTANTS
    Programs,     \* shooting programs the run may be started with
    MaxFaults,    \* bound on camera failures and disconnects per run
    MaxUiOps      \* bound on pause/resume requests per run

\* run_state values, shutter.cpp lines 37-43; old_state starts at 255.
RUN_DELAY == 0
RUN_BULB  == 1
RUN_PHOTO == 2
RUN_GAP   == 3
RUN_NEXT  == 4
RUN_END   == 5
RUN_ERROR == 6
RunStates == RUN_DELAY..RUN_ERROR

(* The fields of `current` (and conf) that steer task's control flow.    *)
(* bulbExp: current.Exp > 0 or conf.arbitraryBulb, so PHOTO goes to BULB. *)
ProgramFields == [Photos : Nat, Exps : Nat, hdr : BOOLEAN, ramp : BOOLEAN,
                  timelapse : BOOLEAN, bulbExp : BOOLEAN,
                  brampAuto : BOOLEAN, nightAuto : BOOLEAN]
ASSUME Programs \subseteq ProgramFields /\ Programs # {}
ASSUME MaxFaults \in Nat /\ MaxUiOps \in Nat

(* What a camera operation may do in one call: camera.shutterType picks *)
(* bulb or PTP shutter, camera.isInBulbMode, a failed setAperture/setISO *)
(* and the outcome of bulbStart/capture (lastShutterError, with or       *)
(* without PTP_Error latched).                                           *)
Choices == [shutterType : {"bulb", "ptp"}, inBulbMode : BOOLEAN,
            paramFail : BOOLEAN, err : {"none", "soft", "latched"}]

VARIABLES
    prog,   \* the program of this run (current.*), fixed while it runs
    s       \* task's statics and members, camera flags and history

vars == <<prog, s>>

-----------------------------------------------------------------------------
\* Exposures that make up one photo: the HDR bracket, or a single one.
ExpsPerPhoto == IF prog.hdr THEN prog.Exps ELSE 1

Continue(r) == [r EXCEPT !.ret = "CONTINUE"]
Live(r) == r.ret = "none"

(* A camera operation over USB: it is not attempted when the run is not *)
(* using USB; it fails and latches PTP_Error when the camera is gone;    *)
(* otherwise its outcome is the environment's choice.                    *)
OpResult(r, ch) ==
    IF ~r.usingUSB THEN "none" ELSE IF ~r.ready THEN "latched" ELSE ch.err

(* Effect of an operation's outcome: a real exposure is counted; a      *)
(* failure that latches PTP_Error also clears camera readiness.          *)
ApplyOp(r, res) ==
    CASE res = "none" -> [r EXCEPT !.exposures = @ + 1]
      [] res = "soft" -> [r EXCEPT !.faults = @ + 1]
      [] OTHER        -> [r EXCEPT !.ptpError = TRUE, !.ready = FALSE,
                                   !.faults = IF r.ready THEN @ + 1 ELSE @]

\* shutter_capture, lines 331-360: the camera is busy until it is done.
Capture(r, ch) ==
    LET res == OpResult(r, ch)
    IN [ApplyOp(r, res) EXCEPT !.busy = (res = "none" /\ r.usingUSB)]

(* clock.bulb starts the bulb timer, whose start calls shutter_bulbStart *)
(* (lines 235-273); on lastShutterError the caller cancels the timer.    *)
BulbStart(r, ch) ==
    LET res == OpResult(r, ch)
    IN [ApplyOp(r, res) EXCEPT !.bulbRunning = (res = "none")]

(* PTP::resetConnection, called by the Error block: the connection is   *)
(* dropped and PTP_Error cleared; readiness returns with the reconnect.  *)
ResetConnection(r) ==
    [r EXCEPT !.ready = FALSE, !.connected = FALSE, !.ptpError = FALSE]

-----------------------------------------------------------------------------
(* Lines 485-493: a run that is no longer `running` but was entered is  *)
(* being cancelled; one never entered returns 0.                         *)
Entry(r) ==
    IF r.running THEN r
    ELSE IF r.enter THEN [r EXCEPT !.cancel = TRUE]
    ELSE [r EXCEPT !.ret = "ZERO"]

(* Line 578: the pre-check is complete unless the ramp waits for light   *)
(* integration.  `!current.Mode & RAMP` parses as (!current.Mode) & RAMP, *)
(* which is 0 for every program with a mode, so only the other two terms *)
(* count, whatever the mode.                                              *)
PreCheckDone == prog.nightAuto \/ ~prog.brampAuto

(* Lines 498-611: set-up and pre-check.  preChecked goes 0 -> 1, a      *)
(* waiting alert holds the run, then 1 -> 3 (or 2 for a ramp that waits  *)
(* for the light sensor); below 3 the call returns, at 3 the run starts. *)
InitBlock(r) ==
    IF ~(Live(r) /\ (~r.enter \/ r.preChecked > 0) /\ ~r.cancel) THEN r
    ELSE
      LET a == [r EXCEPT !.enter = TRUE, !.paused = FALSE, !.pausing = 0,
                         !.usingUSB = r.ready,
                         !.preChecked = IF @ = 0 THEN 1 ELSE @]
          b == IF a.preChecked = 1
                 THEN [a EXCEPT !.preChecked = IF PreCheckDone THEN 3
                                              ELSE IF prog.ramp THEN 2 ELSE 1]
                 ELSE a
      IN IF r.alert THEN Continue(a)
         ELSE IF b.preChecked < 3 THEN Continue(b)
         ELSE [b EXCEPT !.preChecked = 0, !.due = FALSE, !.run_state = RUN_DELAY,
                        !.photos = 0, !.exps = 0, !.photosTaken = 0]

(* Lines 615-702: the resume delay counts pausing up to 9; while paused *)
(* the call returns; a pause request takes effect unless in RUN_BULB.    *)
PauseBlock(r) ==
    IF ~Live(r) THEN r
    ELSE
      LET a == IF r.pausing > 0 /\ r.paused
                 THEN IF r.pausing > 8 THEN [r EXCEPT !.paused = FALSE, !.pausing = 0]
                      ELSE [r EXCEPT !.pausing = @ + 1]
                 ELSE r
      IN IF a.paused THEN Continue(a)
         ELSE IF a.pausing > 0 /\ a.run_state # RUN_BULB
                THEN [a EXCEPT !.pausing = 0, !.paused = TRUE]
         ELSE a

\* Lines 706-709: cancellation forces RUN_END.
CancelStep(r) ==
    IF Live(r) /\ r.cancel THEN [r EXCEPT !.run_state = RUN_END] ELSE r

(* Lines 712-750: after the start delay, go to RUN_PHOTO (tested next,  *)
(* in the same call).                                                    *)
DelayBlock(r) ==
    IF ~(Live(r) /\ r.run_state = RUN_DELAY) THEN r
    ELSE IF r.due THEN [r EXCEPT !.old_state = RUN_DELAY, !.due = FALSE,
                                 !.run_state = RUN_PHOTO]
    ELSE [r EXCEPT !.old_state = RUN_DELAY]

(* Lines 752-780: the first exposure, or once the camera's frame gap has *)
(* passed: a bulb exposure goes to RUN_BULB, otherwise one capture is    *)
(* made (its error is not checked) and the run goes to RUN_NEXT.         *)
PhotoBlock(r, ch) ==
    IF ~(Live(r) /\ r.run_state = RUN_PHOTO /\ (r.exps + r.photos = 0 \/ r.due)) THEN r
    ELSE IF prog.bulbExp \/ prog.ramp
           THEN [r EXCEPT !.old_state = RUN_PHOTO, !.due = FALSE, !.run_state = RUN_BULB]
    ELSE Capture([r EXCEPT !.old_state = RUN_PHOTO, !.exps = @ + 1,
                           !.run_state = RUN_NEXT], ch)

(* Lines 797-1171, first call in RUN_BULB: a ramp sets aperture and ISO *)
(* (a failure goes to RUN_ERROR); then the exposure starts as a capture  *)
(* for the extended ramp, a bulb, or a PTP-shutter capture.  A failed    *)
(* capture or bulb start cancels the timer and resets old_state so the   *)
(* next call starts again, unless PTP_Error is latched.                  *)
BulbEntry(r, ch) ==
    LET a == [r EXCEPT !.old_state = RUN_BULB]
        extended == prog.ramp /\ ~ch.inBulbMode /\ r.ready
        bulb == prog.ramp \/ ch.shutterType = "bulb"
        started == IF extended THEN Capture(a, ch)
                   ELSE IF bulb THEN BulbStart(a, ch)
                   ELSE Capture(a, ch)
        failed == OpResult(a, ch) # "none"
    IN IF prog.ramp /\ a.ready /\ ch.paramFail
         THEN Continue([ApplyOp(a, "latched") EXCEPT !.run_state = RUN_ERROR])
       ELSE IF (extended \/ bulb) /\ failed
         THEN Continue([started EXCEPT !.bulbRunning = FALSE, !.old_state = 0,
                        !.run_state = IF started.ptpError THEN RUN_ERROR ELSE RUN_BULB])
       ELSE started

(* Lines 782-1197: RUN_BULB starts the exposure on entry, then waits    *)
(* until the bulb timer has run out and the camera is no longer busy.    *)
BulbBlock(r, ch) ==
    IF ~(Live(r) /\ r.run_state = RUN_BULB) THEN r
    ELSE IF r.old_state # RUN_BULB THEN BulbEntry(r, ch)
    ELSE IF ~r.bulbRunning /\ ~r.busy
           THEN [r EXCEPT !.exps = @ + 1, !.run_state = RUN_NEXT]
    ELSE r

(* Lines 1199-1261: a latched PTP error or a lost USB camera goes to    *)
(* RUN_ERROR; otherwise a finished HDR bracket (or any single exposure)  *)
(* counts a photo and waits for the interval, else the next bracket      *)
(* exposure follows; the run ends after Photos (Duration for a ramp, one *)
(* photo outside timelapse mode).  photos is uint16_t.                   *)
(* Line 1219: the bracket is done (HDR) or there is no bracket. *)
BracketDone_OffByOne(r) == (r.exps > prog.Exps /\ prog.hdr) \/ ~prog.hdr
BracketDone(r) == (r.exps >= prog.Exps /\ prog.hdr) \/ ~prog.hdr

(* Lines 1232-1247: a finite run is over: a ramp at its Duration, else  *)
(* after Photos photos, or one photo outside timelapse mode.             *)
RunOver_OffByOne(r, photos) ==
    prog.Photos # 0 /\
    IF prog.ramp THEN r.durationOver
    ELSE photos > prog.Photos \/ (~prog.timelapse /\ photos >= 1)
RunOver(r, photos) ==
    prog.Photos # 0 /\
    IF prog.ramp THEN r.durationOver
    ELSE photos >= prog.Photos \/ (~prog.timelapse /\ photos >= 1)

NextBlock(r) ==
    IF ~(Live(r) /\ r.run_state = RUN_NEXT) THEN r
    ELSE IF (r.connected /\ r.ptpError) \/ (r.usingUSB /\ ~r.ready)
      THEN Continue([r EXCEPT !.run_state = RUN_ERROR])
    ELSE
      LET done == BracketDone(r)
          a == [r EXCEPT !.old_state = RUN_NEXT, !.due = FALSE,
                         !.exps = IF done THEN 0 ELSE @,
                         !.photos = IF done THEN (@ + 1) % 65536 ELSE @,
                         !.run_state = IF done THEN RUN_GAP ELSE RUN_PHOTO]
      IN [a EXCEPT !.run_state = IF RunOver(r, a.photos) THEN RUN_END ELSE @,
                   !.photosTaken = a.photos]

(* Lines 1263-1301: wait for the camera while more photos are due, then *)
(* for the interval, and take the next photo.                            *)
GapBlock(r) ==
    IF ~(Live(r) /\ r.run_state = RUN_GAP) THEN r
    ELSE
      LET a == [r EXCEPT !.old_state = RUN_GAP]
      IN IF r.busy /\ (r.photos < prog.Photos \/ (prog.ramp /\ ~r.durationOver)) THEN a
         ELSE IF r.due THEN [a EXCEPT !.due = FALSE, !.run_state = RUN_PHOTO]
         ELSE a

(* Lines 1303-1346: on entry, and again after 40 more calls, the        *)
(* connection is reset; the run goes back to RUN_NEXT once the camera is *)
(* ready.  errorRetryCount is a static uint8_t.                          *)
(* Line 1306: the connection is reset on entry and after 40 retries. *)
RetryExpired_EntryOnly(r) == r.old_state # RUN_ERROR
RetryExpired(r) == r.old_state # RUN_ERROR \/ r.errorRetryCount > 40

ErrorBlock(r) ==
    IF ~(Live(r) /\ r.run_state = RUN_ERROR) THEN r
    ELSE
      LET a == IF RetryExpired(r)
                 THEN ResetConnection([r EXCEPT !.errorRetryCount = 0,
                                                !.old_state = RUN_ERROR])
                 ELSE r
          b == [a EXCEPT !.errorRetryCount = @ + 1]
      IN Continue(IF b.ready THEN [b EXCEPT !.errorRetryCount = 0, !.run_state = RUN_NEXT]
                  ELSE b)

(* Lines 1348-1376: the run is over: pause state, enter, running and    *)
(* preChecked are cleared and task returns DONE.                         *)
EndBlock(r) ==
    IF ~(Live(r) /\ r.run_state = RUN_END) THEN r
    ELSE [r EXCEPT !.old_state = RUN_END, !.pausing = 0, !.paused = FALSE,
                   !.enter = FALSE, !.running = FALSE, !.preChecked = 0,
                   !.ret = "DONE"]

\* A camera failure is one of at most MaxFaults.
Allowed(ch) ==
    s.faults < MaxFaults \/ (~ch.paramFail /\ ch.err = "none")

(* One call of shutter::task, lines 476-1378: the blocks in code order. *)
(* Each block's result is bound as a value (\E over a singleton) so that *)
(* it is computed once.                                                  *)
Tick ==
    \E ch \in Choices : Allowed(ch) /\
    \E r1 \in {Entry([s EXCEPT !.cancel = FALSE, !.ret = "none"])} :
    \E r2 \in {InitBlock(r1)} : \E r3 \in {PauseBlock(r2)} :
    \E r4 \in {CancelStep(r3)} : \E r5 \in {DelayBlock(r4)} :
    \E r6 \in {PhotoBlock(r5, ch)} : \E r7 \in {BulbBlock(r6, ch)} :
    \E r8 \in {NextBlock(r7)} : \E r9 \in {GapBlock(r8)} :
    \E r10 \in {ErrorBlock(r9)} :
        /\ s' = EndBlock(r10)
        /\ UNCHANGED prog

-----------------------------------------------------------------------------
(* Steps of the clock, the camera and the user, between calls.          *)

(* A ramp's Photos is Duration * 600 / Gap (line 507), so its Duration *)
(* has passed by the time photos exceeds Photos: later intervals wait   *)
(* for it.                                                               *)
RampTimeLeft == ~prog.ramp \/ s.durationOver \/ s.photos <= prog.Photos

\* Time passes: the delay, frame gap or interval being waited for is over.
TimePasses ==
    /\ s.running /\ ~s.due /\ RampTimeLeft
    /\ s' = [s EXCEPT !.due = TRUE] /\ UNCHANGED prog

\* The clock interrupt ends the bulb exposure (shutter_bulbEnd).
BulbTimerEnds ==
    /\ s.bulbRunning
    /\ s' = [s EXCEPT !.bulbRunning = FALSE] /\ UNCHANGED prog

\* The camera reports the capture done and clears camera.busy.
CameraDone ==
    /\ s.busy
    /\ s' = [s EXCEPT !.busy = FALSE] /\ UNCHANGED prog

\* A ramp's Duration is reached (clock.Seconds() >= Duration * 60).
DurationElapses ==
    /\ prog.ramp /\ s.enter /\ s.preChecked = 0 /\ ~s.durationOver
    /\ s' = [s EXCEPT !.durationOver = TRUE] /\ UNCHANGED prog

(* The light integration a ramp waits for completes and the caller sets *)
(* status.preChecked from 2 to 3 (the writer is outside src/).           *)
LightIntegrated ==
    /\ s.preChecked = 2
    /\ s' = [s EXCEPT !.preChecked = 3] /\ UNCHANGED prog

\* The user acknowledges the pre-check alert (menu.waitingAlert).
DismissAlert ==
    /\ s.alert
    /\ s' = [s EXCEPT !.alert = FALSE] /\ UNCHANGED prog

UiOp == s.running /\ s.enter /\ s.uiOps < MaxUiOps

\* The user stops the run: timer.running = 0.
StopRun ==
    /\ UiOp
    /\ s' = [s EXCEPT !.running = FALSE, !.uiOps = @ + 1] /\ UNCHANGED prog

\* shutter::pause(1), lines 456-460: a pause request unless paused.
PauseRequest ==
    /\ UiOp /\ ~s.paused
    /\ s' = [s EXCEPT !.pausing = 1, !.uiOps = @ + 1] /\ UNCHANGED prog

(* shutter::pause(0), lines 461-466: resume starts the restart delay,   *)
(* unless it is already counting.                                        *)
ResumeRequest ==
    /\ UiOp /\ s.pausing <= 1
    /\ s' = [s EXCEPT !.pausing = 1, !.paused = TRUE, !.uiOps = @ + 1]
    /\ UNCHANGED prog

(* The camera is unplugged: EVENT_USB_Host_DeviceUnattached clears     *)
(* PTP_Error and PTP_Connected, and PTP_Task clears PTP_Ready.           *)
CameraUnplugged ==
    /\ s.connected /\ s.faults < MaxFaults
    /\ s' = [s EXCEPT !.connected = FALSE, !.ready = FALSE, !.ptpError = FALSE,
                     !.faults = @ + 1]
    /\ UNCHANGED prog

(* The camera is (re)attached and its session opened: PTP_Error is     *)
(* cleared and camera.ready is set.                                      *)
CameraAttached ==
    /\ ~s.connected
    /\ s' = [s EXCEPT !.connected = TRUE, !.ready = TRUE, !.ptpError = FALSE]
    /\ UNCHANGED prog

-----------------------------------------------------------------------------
(* A run just begun by shutter::begin (running = 1), with task's statics *)
(* at their initial values; a camera may or may not be attached, and a   *)
(* pre-check alert may be raised.                                        *)
Init ==
    /\ prog \in Programs
    /\ \E cam, alert \in BOOLEAN :
         s = [running |-> TRUE, enter |-> FALSE, cancel |-> FALSE,
              preChecked |-> 0, alert |-> alert, paused |-> FALSE, pausing |-> 0,
              run_state |-> RUN_DELAY, old_state |-> 255, exps |-> 0,
              photos |-> 0, photosTaken |-> 0, usingUSB |-> FALSE,
              errorRetryCount |-> 0, due |-> FALSE, bulbRunning |-> FALSE,
              busy |-> FALSE, ready |-> cam, connected |-> cam,
              ptpError |-> FALSE, durationOver |-> FALSE, exposures |-> 0,
              faults |-> 0, uiOps |-> 0, ret |-> "none"]

Next ==
    \/ Tick
    \/ TimePasses \/ BulbTimerEnds \/ CameraDone \/ DurationElapses
    \/ LightIntegrated \/ DismissAlert
    \/ StopRun \/ PauseRequest \/ ResumeRequest
    \/ CameraUnplugged \/ CameraAttached

(* The main loop calls task on every iteration; the clock, the camera   *)
(* and the light sensor make progress.  Nothing obliges the user to     *)
(* pause, resume or stop, nor the camera to be unplugged.                *)
Fairness ==
    /\ WF_vars(Tick)
    /\ WF_vars(TimePasses) /\ WF_vars(BulbTimerEnds) /\ WF_vars(CameraDone)
    /\ WF_vars(DurationElapses) /\ WF_vars(LightIntegrated)
    /\ WF_vars(DismissAlert) /\ WF_vars(CameraAttached)

Spec == Init /\ [][Next]_vars /\ Fairness

-----------------------------------------------------------------------------
TypeOK ==
    /\ prog \in Programs
    /\ s.run_state \in RunStates /\ s.old_state \in RunStates \cup {255}
    /\ s.preChecked \in 0..3 /\ s.pausing \in 0..9
    /\ s.errorRetryCount \in 0..41
    /\ s.exps \in 0..255 /\ s.photos \in 0..65535 /\ s.photosTaken = s.photos
    /\ s.faults \in 0..MaxFaults /\ s.uiOps \in 0..MaxUiOps
    /\ s.ret \in {"none", "ZERO", "CONTINUE", "DONE"}

\* An exposure started but not yet counted by exps++ (lines 1175-1186).
InFlight == IF s.run_state = RUN_BULB /\ s.old_state = RUN_BULB THEN 1 ELSE 0

(* Every exposure the camera made is counted: photos and exps (as       *)
(* photosTaken reports them) never fall behind the real exposures, over  *)
(* HDR brackets, bulb retries, errors and reconnects.                    *)
NoExposureLost ==
    s.enter => s.exposures <= s.photos * ExpsPerPhoto + s.exps + InFlight

(* Spec: a DeviceError during a Bulb goes to Error and then Next        *)
(* "without incrementing photosTaken for the failed attempt": photos and *)
(* exps never count an exposure that was not made.                       *)
FailedAttemptsNotCounted ==
    s.enter => s.photos * ExpsPerPhoto + s.exps <= s.exposures

(* No exposure starts in a call that leaves the run paused: the pause   *)
(* request is honoured outside RUN_BULB only (line 695), and RUN_PHOTO's *)
(* capture (line 773) or move to RUN_BULB (line 767) must not follow it. *)
NoExposureWhilePaused ==
    [][s'.paused => s'.exposures = s.exposures]_vars

(* Spec: cancellation forces End from any state: once the run is        *)
(* stopped, task eventually reaches RUN_END and clears enter.            *)
CancelEventuallyEnds ==
    (s.enter /\ ~s.running) ~> (~s.enter /\ s.run_state = RUN_END)

(* Spec: a run of Photos photos takes them all and ends, with           *)
(* photosTaken = Photos (one photo outside timelapse mode; a ramp ends   *)
(* at its Duration).                                                     *)
PhotosExpected == IF prog.timelapse THEN prog.Photos ELSE 1
RunCompletes ==
    <>(/\ ~s.running /\ ~s.enter /\ s.run_state = RUN_END
       /\ (prog.ramp \/ s.photosTaken = PhotosExpected))

(* The same for the runs in which no camera failure, unplug, pause,       *)
(* resume or stop happens, among all the runs that shutter_run explores.  *)
RunCompletesUndisturbed == [](s.faults = 0 /\ s.uiOps = 0) => RunCompletes

(* A begun run eventually leaves the pre-check and starts shooting      *)
(* (or is stopped).                                                      *)
RunStarts ==
    <>((s.enter /\ s.preChecked = 0) \/ ~s.running)
====
