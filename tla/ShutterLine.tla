---------------------------- MODULE ShutterLine -----------------------------
(***************************************************************************)
(* The shutter hardware control of src/src/shutter.cpp (lines 155-360):    *)
(* shutter_off, shutter_half, shutter_half_delayed, shutter_full,          *)
(* shutter_bulbStart, shutter_bulbEnd and shutter_capture, which drive the *)
(* cable's shutter and mirror lines, the IR remote and the USB camera, and *)
(* schedule later calls of shutter_off, shutter_half, shutter_half_delayed *)
(* and check_cable with clock.in.                                          *)
(*                                                                         *)
(* The clock (clock.cpp) is not in the repository.  clock.in is modelled   *)
(* as keeping one pending call per callback; pending callbacks and the     *)
(* end of the bulb timer run between calls of shutter::task, in any order: *)
(* the delays (20 and 30 ms, SHUTTER_PRESS_TIME, the bulb length) are not  *)
(* modelled.  The camera is the environment: with the cable in bulb mode   *)
(* 0 it exposes while SHUTTER_OPEN holds the release ("open"), in bulb     *)
(* mode 1 each press starts or ends the exposure; the IR remote and the    *)
(* USB camera expose from bulbStart to bulbEnd.                            *)
(***************************************************************************)
EXTENDS Naturals

CONSTANTS
    Interfaces,   \* values of conf.camera.interface, as sets of "cable", "usb", "ir"
    MaxCalls      \* bound on the calls shutter::task makes

VARIABLES
    conf,     \* conf.camera: interface, bulbMode, halfPress
    cam,      \* the camera and run: usbPrimary, camera.supports, camera.ready, cable plugged, bulb shutter
    r,        \* shutter.cpp's globals, the lines, the pending callbacks and the camera's exposures
    phase,    \* the bulb timer: "idle" or "bulb" between clock.bulb and its end
    calls     \* bound counter

vars == <<conf, cam, r, phase, calls>>

-----------------------------------------------------------------------------
(* SHUTTER_OPEN ("open") and SHUTTER_CLOSE ("closed") on the release      *)
(* line, and the camera's answer: a press (closed -> open) toggles a      *)
(* camera in bulb mode 1, one in mode 0 exposes while the line is open.   *)
SetShutter(a, v) ==
    LET pressed == a.shutter = "closed" /\ v = "open"
        expo    == IF ~(cam.plugged /\ cam.bulbShutter) THEN a.exposing
                   ELSE IF conf.bulbMode = 0 THEN v = "open"
                   ELSE IF pressed THEN ~a.exposing ELSE a.exposing
    IN  [a EXCEPT !.shutter = v, !.exposing = expo]

ClockIn(a, cb) == [a EXCEPT !.pending = @ \cup {cb}]

\* shutter_off, lines 159-169 (with shutter::off, 155-158).
ShutterOff(a) ==
    ClockIn([SetShutter(a, "closed") EXCEPT !.mirror = "down",
               !.ir_shutter_state = 0, !.shutter_state = 0], "check_cable")

\* shutter_half, lines 185-194: release, then half-press 30 ms later.
ShutterHalf(a) ==
    IF conf.halfPress THEN ClockIn(ShutterOff(a), "shutter_half_delayed") ELSE ShutterOff(a)

\* shutter_half_delayed, lines 195-202.
ShutterHalfDelayed(a) == [SetShutter(a, "closed") EXCEPT !.mirror = "up"]

\* shutter_full, lines 211-222.
ShutterFull(a) == SetShutter([a EXCEPT !.mirror = "up"], "open")

\* check_cable, lines 1541-1544: CHECK_CABLE senses the cable.
CheckCable(a) == [a EXCEPT !.cable_connected = cam.plugged]

(* camera.bulbEnd (PTP.cpp): the USB bulb is ended and bulb_open cleared. *)
CameraBulbEnd(a) == [a EXCEPT !.usbExposing = FALSE, !.bulb_open = FALSE]

(* shutter_bulbStart, lines 235-273.  modeErr and startErr are what       *)
(* camera.bulbMode and camera.bulbStart return; a failed bulbMode returns *)
(* before the cable is driven.                                            *)
BulbStart(a0, modeErr, startErr) ==
    LET a   == [a0 EXCEPT !.lastShutterError = FALSE]
        usb == (~a.cable_connected \/ cam.usbPrimary \/ "cable" \notin conf.iface)
                  /\ a.ir_shutter_state # 1
        viaUsb == usb /\ cam.supportsBulb /\ "usb" \in conf.iface
        b   == IF viaUsb /\ modeErr THEN [a EXCEPT !.lastShutterError = TRUE]
               ELSE IF viaUsb THEN [a EXCEPT !.lastShutterError = startErr,
                                             !.usbExposing = ~startErr]
               ELSE IF usb /\ "ir" \in conf.iface /\ ~cam.usbPrimary
                 THEN [a EXCEPT !.ir_shutter_state = 1, !.irExposing = TRUE]
               ELSE a
        cable == "cable" \in conf.iface /\ ~cam.usbPrimary
    IN  IF viaUsb /\ modeErr THEN b
        ELSE IF cable /\ conf.bulbMode = 0 THEN ShutterFull(b)
        ELSE IF cable /\ conf.bulbMode = 1 /\ b.shutter_state # 1
          THEN ClockIn([ShutterFull(b) EXCEPT !.shutter_state = 1],
                       IF cam.ready THEN "shutter_off" ELSE "shutter_half")
        ELSE b

(* shutter_bulbEnd, lines 286-318: the USB end takes precedence over the  *)
(* IR end whenever camera.bulb_open is set and USB is configured.         *)
BulbEnd(a) ==
    LET b == IF a.bulb_open \/ a.ir_shutter_state = 1
             THEN [IF a.bulb_open /\ "usb" \in conf.iface THEN CameraBulbEnd(a)
                   ELSE IF "ir" \in conf.iface /\ ~cam.usbPrimary
                     THEN [a EXCEPT !.irExposing = FALSE]
                   ELSE a
                   EXCEPT !.ir_shutter_state = 0]
             ELSE a
        cable == "cable" \in conf.iface /\ ~cam.usbPrimary
    IN  IF cable /\ conf.bulbMode = 0 THEN ShutterOff(b)
        ELSE IF cable /\ conf.bulbMode = 1 /\ b.shutter_state = 1
          THEN ClockIn([ShutterFull(b) EXCEPT !.shutter_state = 0], "shutter_off")
        ELSE b

(* shutter_capture, lines 331-360: press and release the cable; without a *)
(* cable the camera captures over USB (err is its result) or IR.          *)
Capture(a0, err) ==
    LET a == [a0 EXCEPT !.lastShutterError = FALSE]
        b == ClockIn([ShutterFull(a) EXCEPT !.ir_shutter_state = 0, !.shutter_state = 0],
                     "shutter_off")
    IN  IF conf.iface \cap {"cable", "usb"} = {} THEN a
        ELSE IF ~b.cable_connected /\ cam.supportsCapture
          THEN [b EXCEPT !.lastShutterError = err]
        ELSE b

(* The callback clock.in scheduled.                                        *)
RunCallback(cb, a) ==
    CASE cb = "shutter_off"          -> ShutterOff(a)
      [] cb = "shutter_half"         -> ShutterHalf(a)
      [] cb = "shutter_half_delayed" -> ShutterHalfDelayed(a)
      [] OTHER                       -> CheckCable(a)

-----------------------------------------------------------------------------
(* The shutter constructor (lines 93-97) senses the cable and clears both *)
(* toggle states.  usbPrimary is set (line 513) only when USB is in use   *)
(* and the camera supports bulb; without a camera nothing is supported.  *)
Init ==
    /\ conf \in [iface : Interfaces, bulbMode : {0, 1}, halfPress : BOOLEAN]
    /\ cam \in {c \in [usbPrimary : BOOLEAN, supportsBulb : BOOLEAN,
                       supportsCapture : BOOLEAN, ready : BOOLEAN,
                       plugged : BOOLEAN, bulbShutter : BOOLEAN] :
                  /\ c.usbPrimary => c.ready /\ c.supportsBulb /\ "usb" \in conf.iface
                  /\ ~c.ready => ~c.supportsBulb /\ ~c.supportsCapture}
    /\ r = [shutter |-> "closed", mirror |-> "down", shutter_state |-> 0,
            ir_shutter_state |-> 0, lastShutterError |-> FALSE,
            cable_connected |-> cam.plugged, bulb_open |-> FALSE, pending |-> {},
            exposing |-> FALSE, irExposing |-> FALSE, usbExposing |-> FALSE]
    /\ phase = "idle"
    /\ calls = 0

TaskCall(f) ==
    /\ calls < MaxCalls
    /\ r' = f
    /\ calls' = calls + 1
    /\ UNCHANGED <<conf, cam>>

(* shutter::task's wake-up and mirror-up half presses (lines 739, 776,   *)
(* 1188, 1297, 1325) and releases (741, 818, 1327).                      *)
TaskHalf == phase = "idle" /\ TaskCall(ShutterHalf(r)) /\ UNCHANGED phase
TaskOff  == phase = "idle" /\ TaskCall(ShutterOff(r)) /\ UNCHANGED phase

\* RUN_PHOTO / RUN_BULB with a camera-timed shutter: capture (lines 773, 1144, 1176).
TaskCapture ==
    /\ phase = "idle" /\ ~cam.bulbShutter
    /\ \E err \in BOOLEAN : TaskCall(Capture(r, err))
    /\ UNCHANGED phase

(* RUN_BULB, lines 1158-1170: camera.bulb_open = true, clock.bulb starts  *)
(* the timer, which calls shutter_bulbStart; on lastShutterError the      *)
(* timer is cancelled and the exposure retried.                           *)
TaskBulb ==
    /\ phase = "idle" /\ cam.bulbShutter
    /\ \E modeErr, startErr \in BOOLEAN :
         LET a == BulbStart([r EXCEPT !.bulb_open = TRUE], modeErr, startErr)
         IN  /\ TaskCall(a)
             /\ phase' = IF a.lastShutterError THEN "idle" ELSE "bulb"

(* RUN_ERROR and RUN_END, lines 1309-1310 and 1365-1366: shutter_off and *)
(* camera.bulbEnd; the bulb timer is left running.                        *)
TaskRelease == TaskCall(CameraBulbEnd(ShutterOff(r))) /\ UNCHANGED phase

\* The bulb timer expires and calls shutter_bulbEnd.
BulbTimerEnd ==
    /\ phase = "bulb"
    /\ phase' = "idle"
    /\ r' = BulbEnd(r)
    /\ UNCHANGED <<conf, cam, calls>>

\* clock.in's delay runs out and the callback is called.
Fire ==
    \E cb \in r.pending :
        /\ r' = RunCallback(cb, [r EXCEPT !.pending = @ \ {cb}])
        /\ UNCHANGED <<conf, cam, phase, calls>>

Next == TaskHalf \/ TaskOff \/ TaskCapture \/ TaskBulb \/ TaskRelease \/ BulbTimerEnd \/ Fire

Spec == Init /\ [][Next]_vars

-----------------------------------------------------------------------------
(* Once the bulb timer has ended the exposure (shutter_bulbEnd) and every *)
(* call clock.in scheduled has run, the camera is no longer exposing over *)
(* the cable, IR or USB: shutter_state records a bulb started by a cable  *)
(* pulse ("used only for momentary toggle mode", line 62) so that          *)
(* shutter_bulbEnd can send the pulse that ends it.                        *)
ExposureEnded ==
    phase = "idle" /\ r.pending = {} =>
        ~r.exposing /\ ~r.irExposing /\ ~r.usbExposing

====
