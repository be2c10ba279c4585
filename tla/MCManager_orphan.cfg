\* Agents running builds with a store that does not fail: progress.
CONSTANTS
    w1 = w1
    w2 = w2
    Workers <- MCWorkers
    Machines <- MCWorkers
    NoStage = NoStage
    CallerCancels = FALSE
    StoreFails = FALSE
    ListFails = FALSE
    UserCancels = FALSE
    CancelTargets = {1}
    CrashPhases = {"accepted", "running"}
    MaxCrashes = 1
    StageIds <- MCStageIds
    BuildIds <- MCBuildIds
    Pipeline <- MCPipeline
    Source <- MCSource
    Filter <- MCFilter
SPECIFICATION ManagerSpec
PROPERTIES
    AllBuildsFinish
