---------------------------- MODULE KeyframeRamp ----------------------------
(***************************************************************************)
(* The keyframe bulb ramp of shutter::task (shutter.cpp, RUN_PHOTO with    *)
(* Mode & RAMP and brampMethod KEYFRAME) and the Catmull-Rom `curve` of    *)
(* math.cpp it calls.  A keyframe table gives, for keyframe i, its time    *)
(* Key[i] in seconds and its stop offset Bulb[i] (a uint8_t read as an     *)
(* int8_t); the ramp starts at offset 0 at second 0.  At each photo the    *)
(* code finds the first keyframe not yet passed, builds the four control   *)
(* points around that interval, evaluates the curve at the elapsed        *)
(* fraction t and sets status.rampStops = BulbStart - curveEv; after the   *)
(* last keyframe it holds that keyframe's offset.                          *)
(*                                                                         *)
(* The float arithmetic of `curve` is modelled by exact rationals: every   *)
(* input is a small integer and t = (var1 - var2) / (var3 - var2), so the  *)
(* float result differs from the rational one only by rounding.  A value  *)
(* is a record [n |-> numerator, d |-> positive denominator].             *)
(* The clock is sampled every second, which contains every photo time.    *)
(***************************************************************************)
EXTENDS Integers

CONSTANTS
    Tables,         \* keyframe programs: [BulbStart, Keyframes, Key, Bulb]
    LinearSettings  \* values conf.linearInterpolation takes

VARIABLES
    prog,           \* the keyframe table of `current`
    linear,         \* conf.linearInterpolation
    sec,            \* clock.Seconds() since the run started
    rampStops       \* status.rampStops

vars == <<prog, linear, sec, rampStops>>

Int8(x) == ((x + 128) % 256) - 128

Rat(n, d) == [n |-> n, d |-> d]
RatInt(x) == Rat(x, 1)
RatSub(a, b) == Rat(a.n * b.d - b.n * a.d, a.d * b.d)
RatLeq(a, b) == a.n * b.d <= b.n * a.d
RatEq(a, b) == a.n * b.d = b.n * a.d

Last(p) == p.Keyframes - 1

(* The clock is followed until one second past the last keyframe.        *)
Horizon(p) == p.Key[Last(p)] + 1

-----------------------------------------------------------------------------
Curve_Typo(p0, p1, p2, p3, t) ==
    LET n == t.n  d == t.d
    IN  Rat(2 * p1 * d^3 + (p2 - p0) * n * d^2
              + (2 * p0 - 5 * p1 + 4 * p1 - p3) * n^2 * d
              + (3 * p1 - p0 - 3 * p2 + p3) * n^3,
            2 * d^3)

(* math.cpp curve(): linear interpolation when configured, otherwise the  *)
(* Catmull-Rom polynomial ((2 p1) + (p2 - p0) t + (2 p0 - 5 p1 + 4 p2 -   *)
(* p3) t^2 + (3 p1 - p0 - 3 p2 + p3) t^3) / 2, here over t = n / d.        *)
Curve(p0, p1, p2, p3, t) ==
    LET n == t.n  d == t.d
    IN  IF linear
        THEN Rat(n * (p2 - p1) + p1 * d, d)
        ELSE Rat(2 * p1 * d^3 + (p2 - p0) * n * d^2
                   + (2 * p0 - 5 * p1 + 4 * p2 - p3) * n^2 * d
                   + (3 * p1 - p0 - 3 * p2 + p3) * n^3,
                 2 * d^3)

(* The for loop: the first keyframe whose time has not passed.           *)
Upcoming(p, s) == {i \in 0 .. Last(p) : s <= p.Key[i]}
Found(p, s) == Upcoming(p, s) # {}
Segment(p, s) == CHOOSE i \in Upcoming(p, s) : \A j \in Upcoming(p, s) : i <= j

(* key1 .. key4: the control points around segment i, in EV.  Point j is *)
(* (int8_t)BulbStart - Bulb[j]; the start point is (float)BulbStart.     *)
Points(p, i) ==
    LET BS   == p.BulbStart
        E(j) == Int8(BS) - p.Bulb[j]
    IN  << IF i <= 1 THEN BS ELSE E(i - 2),
           IF i = 0 THEN BS ELSE E(i - 1),
           E(i),
           E(IF i < Last(p) THEN i + 1 ELSE i) >>

(* t = (var1 - var2) / (var3 - var2) with var2 the previous key time.    *)
Position(p, i, s) ==
    LET var2 == IF i > 0 THEN p.Key[i - 1] ELSE 0
    IN  Rat(s - var2, p.Key[i] - var2)

(* status.rampStops after the keyframe block at second s.                *)
KeyframeStops(p, s) ==
    IF Found(p, s)
    THEN LET i == Segment(p, s)
             k == Points(p, i)
         IN  RatSub(RatInt(p.BulbStart), Curve(k[1], k[2], k[3], k[4], Position(p, i, s)))
    ELSE RatInt(Int8(p.Bulb[Last(p)]))

-----------------------------------------------------------------------------
(* The run starts with rampStops = 0.0 (RUN_DELAY's ramp initialisation).*)
Init ==
    /\ prog \in Tables
    /\ linear \in LinearSettings
    /\ sec = 0
    /\ rampStops = RatInt(0)

(* A photo at the next second evaluates the keyframe block; past the     *)
(* horizon the clock is no longer followed (the state repeats).           *)
Tick ==
    /\ sec' = IF sec < Horizon(prog) THEN sec + 1 ELSE sec
    /\ rampStops' = KeyframeStops(prog, sec')
    /\ UNCHANGED <<prog, linear>>

Next == Tick

Spec == Init /\ [][Next]_vars

-----------------------------------------------------------------------------
TypeOK ==
    /\ prog \in Tables
    /\ sec \in 0 .. Horizon(prog)
    /\ rampStops.d > 0

(* At each keyframe's time the ramp is at that keyframe's stop offset,   *)
(* and after the last keyframe it stays at the last offset.              *)
KeyframesReached ==
    /\ \A i \in 0 .. Last(prog) : sec = prog.Key[i] => RatEq(rampStops, RatInt(prog.Bulb[i]))
    /\ sec > prog.Key[Last(prog)] => RatEq(rampStops, RatInt(prog.Bulb[Last(prog)]))

(* The offsets of a table rise (or fall) from 0 through every keyframe.  *)
Rising(p)  == \A i \in 0 .. Last(p) : (IF i = 0 THEN 0 ELSE p.Bulb[i - 1]) <= p.Bulb[i]
Falling(p) == \A i \in 0 .. Last(p) : (IF i = 0 THEN 0 ELSE p.Bulb[i - 1]) >= p.Bulb[i]

(* A monotonic keyframe table gives a monotonic ramp: the exposure never  *)
(* moves against the direction the keyframes go.                         *)
MonotoneRamp ==
    [][/\ Rising(prog)  => RatLeq(rampStops, rampStops')
       /\ Falling(prog) => RatLeq(rampStops', rampStops)]_vars

====
