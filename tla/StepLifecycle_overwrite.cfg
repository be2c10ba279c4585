\* Two steps and a user who cancels while the agent runs them.
CONSTANTS
    NSteps = 2
    StoreFails = FALSE
    StreamFails = FALSE
    UserCancels = TRUE
SPECIFICATION StepSpec
PROPERTIES
    StepMonotonic
