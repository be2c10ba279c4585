\* A user cancels builds while agents are handed and accept their stages.
CONSTANTS
    w1 = w1
    w2 = w2
    Workers <- MCWorkers
    Machines <- MCWorkers
    NoStage = NoStage
    CallerCancels = FALSE
    StoreFails = TRUE
    ListFails = TRUE
    UserCancels = TRUE
    CancelTargets = {1}
    CrashPhases = {}
    MaxCrashes = 0
    StageIds <- MCCancelIds
    BuildIds <- MCCancelIds
    Pipeline <- MCCancelPipeline
    Source <- MCCancelSource
    Filter <- MCFilter
SPECIFICATION ManagerSpec
PROPERTIES
    StageMonotonic
