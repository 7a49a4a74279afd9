CONSTANTS
    Programs <- MC_Programs
    MaxFaults = 2
    MaxUiOps = 1
SPECIFICATION Spec
INVARIANTS
    TypeOK
    NoExposureLost
PROPERTY
    RunCompletesUndisturbed
