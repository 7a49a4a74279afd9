CONSTANTS
    Programs <- MC_NightFixed
    MaxFaults = 0
    MaxUiOps = 0
SPECIFICATION Spec
PROPERTY
    RunStarts
