\* Two cameras with the ranges of MC_Cameras; the program starts as
\* setDefault leaves it.
CONSTANTS
    Cameras <- MC_Cameras
SPECIFICATION Spec
INVARIANTS
    CheckHDRSound
    ExpsDisplayed
