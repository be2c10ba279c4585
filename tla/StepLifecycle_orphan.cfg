\* Two steps and a user who cancels while the agent runs them; store writes
\* succeed, log streams may fail.
CONSTANTS
    NSteps = 2
    StoreFails = FALSE
    StreamFails = TRUE
    UserCancels = TRUE
SPECIFICATION StepSpec
PROPERTIES
    StepsSettle
