\* Three steps, failing store writes and log streams, a user who cancels.
CONSTANTS
    NSteps = 3
    StoreFails = TRUE
    StreamFails = TRUE
    UserCancels = TRUE
SPECIFICATION StepSpec
INVARIANTS
    StepTypeOK
    StreamClosedAfterStep
