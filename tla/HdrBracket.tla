----------------------------- MODULE HdrBracket -----------------------------
(***************************************************************************)
(* The HDR bracket settings of shutter.cpp: the menu step functions        *)
(* hdrTvUp/Down, bracketUp/Down and hdrExpsUp/Down, which edit the centre  *)
(* exposure current.Exp, the spacing current.Bracket and the number of     *)
(* exposures current.Exps, and the shutter values shutter::task takes for  *)
(* the exposures of one bracket (RUN_BULB, Mode & HDR).  All of them keep  *)
(* the bracket inside the camera's shutter range with checkHDR, in uint8_t *)
(* arithmetic.  A camera with another range may be connected at any time;  *)
(* nothing re-checks the bracket then, so the property is about the menu   *)
(* steps.                                                                  *)
(*                                                                         *)
(* Shutter values are PTP ev indices in 1/3 stop: a larger index is a      *)
(* shorter exposure.  The camera (PTP.cpp, not in the repository) offers  *)
(* the indices cam.max .. cam.min, and shutterUp/shutterDown step          *)
(* to the next one, staying put at the end of the range.                   *)
(***************************************************************************)
EXTENDS Naturals

CONSTANT
    Cameras         \* [max |-> shutterMax(), min |-> shutterMin()] of each camera

ASSUME \A c \in Cameras : 0 < c.max /\ c.max <= c.min /\ c.min < 255

VARIABLES
    exp,            \* timer.current.Exp
    bracket,        \* timer.current.Bracket
    exps,           \* timer.current.Exps
    cam             \* the connected camera

vars == <<exp, bracket, exps, cam>>

ShutterMax == cam.max
ShutterMin == cam.min

U8(x) == x % 256

(* The search loops of bracketUp and hdrExpsUp run i over 1 .. 254.       *)
SearchRange == 1 .. 254

Least(S) == CHOOSE i \in S : \A j \in S : i <= j

-----------------------------------------------------------------------------
CheckHDR_HalfBelow(n, mid, b) ==
    LET up   == U8(mid - ((n - 1) \div 2) * b)
        down == U8(mid + ((n - 1) \div 2) * b)
    IN  up < ShutterMax \/ down > ShutterMin

(* checkHDR: TRUE (1) when the bracket of `n` exposures around `mid`       *)
(* leaves the camera's range; up and down are computed as uint8_t.        *)
CheckHDR(n, mid, b) ==
    LET up   == U8(mid - (n \div 2) * b)
        down == U8(mid + (n \div 2) * b)
    IN  up < ShutterMax \/ down > ShutterMin

ShutterUp(ev)   == IF ev < ShutterMin THEN ev + 1 ELSE ev
ShutterDown(ev) == IF ev > ShutterMax THEN ev - 1 ELSE ev

(* The middle of the camera's range, as hdrTvUp/Down compute it.          *)
RangeMid == (ShutterMin - ShutterMax) \div 2 + ShutterMax

(* The branch of hdrTvUp/Down taken when the bracket does not fit: the     *)
(* first value from ev towards the middle of the range at which it fits,  *)
(* or ev when there is none.                                               *)
HdrTvSearch(ev) ==
    LET fits == {i \in 0 .. 255 : ~CheckHDR(exps, i, bracket)}
        up   == {i \in fits : ev <= i /\ i <= RangeMid}
        down == {i \in fits : RangeMid <= i /\ i <= ev}
    IN  IF RangeMid > ev
        THEN IF up = {} THEN ev ELSE Least(up)
        ELSE IF down = {} THEN ev ELSE CHOOSE i \in down : \A j \in down : j <= i

HdrTvUp(ev) ==
    IF CheckHDR(exps, ev, bracket) THEN HdrTvSearch(ev)
    ELSE IF ~CheckHDR(exps, ShutterUp(ev), bracket) THEN ShutterUp(ev) ELSE ev

HdrTvDown(ev) ==
    IF CheckHDR(exps, ev, bracket) THEN HdrTvSearch(ev)
    ELSE IF ~CheckHDR(exps, ShutterDown(ev), bracket) THEN ShutterDown(ev) ELSE ev

BracketUp_NoMinusOne(ev) ==
    LET fail == {i \in SearchRange : CheckHDR(exps, exp, i)}
        max  == IF fail = {} THEN 1 ELSE Least(fail)
    IN  IF ev < max THEN ev + 1 ELSE max

(* bracketUp: the largest spacing is one below the first that fails.      *)
BracketUp(ev) ==
    LET fail == {i \in SearchRange : CheckHDR(exps, exp, i)}
        max  == IF fail = {} THEN 1 ELSE Least(fail) - 1
    IN  IF ev < max THEN ev + 1 ELSE max

BracketDown(ev) == IF ev > 1 THEN ev - 1 ELSE 1

(* hdrExpsUp: the largest count is one below the first that fails, but at *)
(* least 3.                                                                *)
HdrExpsUp(n) ==
    LET fail == {i \in SearchRange : CheckHDR(i, exp, bracket)}
        max  == IF fail = {} THEN 1
                ELSE IF Least(fail) - 1 < 3 THEN 3 ELSE Least(fail) - 1
    IN  IF n < max THEN n + 1 ELSE max

HdrExpsDown(n) == IF n > 3 THEN n - 1 ELSE 3

(* hdrExpsName: the menu text of a count, as character codes: seven       *)
(* spaces, the ones digit in the last place and a tens digit before it.   *)
Blank == 32
Digit(d) == 48 + d

HdrExpsName_NoModulo(n) ==
    [i \in 1 .. 7 |-> CASE i = 6 /\ n > 9 -> Digit(n \div 10)
                         [] i = 7          -> Digit(n)
                         [] OTHER          -> Blank]

HdrExpsName(n) ==
    [i \in 1 .. 7 |-> CASE i = 6 /\ n > 9 -> Digit(n \div 10)
                         [] i = 7 /\ n > 9 -> Digit(n % 10)
                         [] i = 7          -> Digit(n)
                         [] OTHER          -> Blank]

(* The shutter value of exposure e (0 .. Exps - 1) of a bracket: tv_offset *)
(* is a uint8_t, and current.Exp - tv_offset reaches the camera as a byte. *)
BracketTv(e) ==
    LET tvOffset == U8(((exps - 1) \div 2) * bracket - e * bracket)
    IN  U8(exp - tvOffset)

-----------------------------------------------------------------------------
(* The program of shutter::setDefault.                                     *)
Init ==
    /\ exp = 46
    /\ bracket = 6
    /\ exps = 3
    /\ cam \in Cameras

(* One press of a menu key on the Tv, Bracket or HDR Exposures item.       *)
TvUp        == exp' = HdrTvUp(exp) /\ UNCHANGED <<bracket, exps, cam>>
TvDown      == exp' = HdrTvDown(exp) /\ UNCHANGED <<bracket, exps, cam>>
SpacingUp   == bracket' = BracketUp(bracket) /\ UNCHANGED <<exp, exps, cam>>
SpacingDown == bracket' = BracketDown(bracket) /\ UNCHANGED <<exp, exps, cam>>
ExpsUp      == exps' = HdrExpsUp(exps) /\ UNCHANGED <<exp, bracket, cam>>
ExpsDown    == exps' = HdrExpsDown(exps) /\ UNCHANGED <<exp, bracket, cam>>

MenuStep == TvUp \/ TvDown \/ SpacingUp \/ SpacingDown \/ ExpsUp \/ ExpsDown

(* Another PTP camera is connected; the program is kept.                   *)
CameraChanged == \E c \in Cameras \ {cam} : cam' = c /\ UNCHANGED <<exp, bracket, exps>>

Next == MenuStep \/ CameraChanged

Spec == Init /\ [][Next]_vars

-----------------------------------------------------------------------------
TypeOK ==
    /\ exp \in 0 .. 255
    /\ bracket \in 0 .. 255
    /\ exps \in 1 .. 255
    /\ cam \in Cameras

(* Every exposure shutter::task takes for the bracket is a shutter value   *)
(* the connected camera offers.                                            *)
InRange == \A e \in 0 .. exps - 1 : BracketTv(e) \in ShutterMax .. ShutterMin

(* Whenever checkHDR accepts the bracket (as every menu step that changes  *)
(* it requires), every exposure the task takes for it is in the camera's   *)
(* range: checkHDR's Exps / 2 exposures each side, computed in uint8_t,    *)
(* cover the task's uint8_t offsets ((Exps - 1) / 2 - e) * Bracket.        *)
CheckHDRSound == ~CheckHDR(exps, exp, bracket) => InRange

(* The count of exposures the HDR menu can reach is what hdrExpsName      *)
(* shows: both places hold a blank or a digit and read back as Exps (the  *)
(* name has room for two digits, and hdrExpsUp's checkHDR search is what  *)
(* keeps the count below 100).                                            *)
IsDigit(c) == c \in Digit(0) .. Digit(9)
ShownValue(nm) == (IF IsDigit(nm[6]) THEN (nm[6] - Digit(0)) * 10 ELSE 0) + nm[7] - Digit(0)
ExpsDisplayed ==
    LET nm == HdrExpsName(exps)
    IN  /\ \A i \in 6 .. 7 : nm[i] = Blank \/ IsDigit(nm[i])
        /\ IsDigit(nm[7])
        /\ ShownValue(nm) = exps

(* No sequence of menu steps takes a bracket the camera can shoot out of    *)
(* the camera's range: checkHDR in the menu functions (Exps / 2 exposures  *)
(* each side, in uint8_t, with 254-step searches) covers the task's        *)
(* (Exps - 1) / 2 offsets in uint8_t.                                      *)
BracketStaysInRange == [][MenuStep /\ InRange => InRange']_vars

====
