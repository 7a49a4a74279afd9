---------------------------- MODULE MC_HdrBracket ----------------------------
EXTENDS HdrBracket

(* Two cameras: 30 s (index 31, the default nightShutter) to 1/8000 s,    *)
(* 45 thirds of a stop shorter, and 30 s to 1/4000 s.                      *)
MC_Cameras == {[max |-> 31, min |-> 76], [max |-> 31, min |-> 73]}

====
