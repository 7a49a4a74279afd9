--------------------------- MODULE MC_KeyframeRamp ---------------------------
EXTENDS KeyframeRamp, FiniteSets

(* Keyframe times: increasing, from seconds {2, 3, 5} (uneven spacing).  *)
KeyTimes(k) == {f \in [0 .. k - 1 -> {2, 3, 5}] : \A i \in 0 .. k - 2 : f[i] < f[i + 1]}

(* Tables of one to three keyframes with offsets of -3, 0 or +3 stops,   *)
(* starting from the default BulbStart of shutter::setDefault (53).      *)
MC_Tables ==
    UNION {[BulbStart : {53}, Keyframes : {k}, Key : KeyTimes(k),
            Bulb : [0 .. k - 1 -> {-3, 0, 3}]] : k \in 1 .. 3}

====
