SPECIFICATION Spec
CONSTANTS
    None = None
    Runs = {"run1"}
    Replays = {"p1", "p2"}
    Outputs = {"accepted", "refused"}
INVARIANTS
    TypeOK
    ReplayRepeatsTheRun
PROPERTIES
    RunIsUntouched
    RefusedOnlyIfItDidNotRun
CHECK_DEADLOCK FALSE
