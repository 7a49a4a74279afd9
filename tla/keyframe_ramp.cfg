\* Every table of one to three keyframes over seconds {2, 3, 5} and offsets
\* {-3, 0, 3}, with spline and linear interpolation.
SPECIFICATION Spec
CONSTANTS
    Tables <- MC_Tables
    LinearSettings = {FALSE, TRUE}
INVARIANT KeyframesReached
