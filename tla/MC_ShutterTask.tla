--------------------------- MODULE MC_ShutterTask ---------------------------
(* Programs for checking ShutterTask.  Photos is what the run uses: for *)
(* a ramp it is the value computed from Duration and Gap at line 507.    *)
EXTENDS ShutterTask

Prog(photos, exps, hdr, ramp, tl, bulb, bAuto, nAuto) ==
    [Photos |-> photos, Exps |-> exps, hdr |-> hdr, ramp |-> ramp,
     timelapse |-> tl, bulbExp |-> bulb, brampAuto |-> bAuto, nightAuto |-> nAuto]

\* A two-photo timelapse with short (PTP/cable) exposures.
TimelapseShort == Prog(2, 1, FALSE, FALSE, TRUE, FALSE, TRUE, TRUE)
\* A two-photo timelapse of two-exposure HDR bulb brackets.
TimelapseHdr == Prog(2, 2, TRUE, FALSE, TRUE, TRUE, TRUE, TRUE)
\* An automatic bulb ramp that waits for light integration (preChecked 2).
RampAuto == Prog(2, 1, FALSE, TRUE, TRUE, TRUE, TRUE, FALSE)
\* A single bulb exposure outside timelapse mode.
SingleBulb == Prog(3, 1, FALSE, FALSE, FALSE, TRUE, FALSE, FALSE)
\* A timelapse left with brampMethod AUTO and a fixed night target.
TimelapseNightFixed == Prog(2, 1, FALSE, FALSE, TRUE, FALSE, TRUE, FALSE)

MC_Programs == {TimelapseShort, TimelapseHdr, RampAuto, SingleBulb}
MC_HdrOnly == {TimelapseHdr}
MC_NightFixed == {TimelapseNightFixed}
====
