\* One agent, a store whose listing may fail (every other call succeeds), an
\* agent that may die before its Accept is stored, and a user who may cancel
\* build 1: every build finishes, a cancelled build settles and a waiting
\* agent gets a stage even when a failed pass consumed its wake-up.
CONSTANTS
    w1 = w1
    w2 = w2
    Workers <- MCOneWorker
    Machines <- MCOneWorker
    NoStage = NoStage
    CallerCancels = FALSE
    StoreFails = FALSE
    ListFails = TRUE
    UserCancels = TRUE
    CancelTargets = {1}
    CrashPhases = {"idle", "accept"}
    MaxCrashes = 2
    StageIds <- MCStageIds
    BuildIds <- MCBuildIds
    Pipeline <- MCPipeline
    Source <- MCSource
    Filter <- MCFilter
SPECIFICATION ManagerSpec
PROPERTIES
    AllBuildsFinish
    CancelledBuildsSettle
    DispatchProgress
