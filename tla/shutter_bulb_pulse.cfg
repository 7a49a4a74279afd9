\* Cable and cable-with-USB set-ups, both bulb modes; four task calls.
CONSTANTS
    Interfaces <- MC_CableInterfaces
    MaxCalls = 4
SPECIFICATION Spec
CHECK_DEADLOCK FALSE
INVARIANT ExposureEnded
