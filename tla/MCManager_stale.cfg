\* A user cancels a build while an agent runs and finishes it.
CONSTANTS
    w1 = w1
    w2 = w2
    Workers <- MCWorkers
    Machines <- MCWorkers
    NoStage = NoStage
    CallerCancels = FALSE
    StoreFails = TRUE
    ListFails = TRUE
    UserCancels = TRUE
    CancelTargets = {1}
    CrashPhases = {}
    MaxCrashes = 0
    StageIds <- MCCancelIds
    BuildIds <- MCCancelIds
    Pipeline <- MCCancelPipeline
    Source <- MCCancelSource
    Filter <- MCFilter
SPECIFICATION ManagerSpec
PROPERTIES
    BuildTerminalStable
