CONSTANTS
    Programs <- MC_Programs
    MaxFaults = 0
    MaxUiOps = 1
SPECIFICATION Spec
PROPERTY
    NoExposureWhilePaused
