\* An admin pauses the queue while a dispatch pass is under way.
CONSTANTS
    w1 = w1
    w2 = w2
    w3 = w3
    w4 = w4
    Workers <- MCWorkers
    Machines = {m1}
    NoStage = NoStage
    CallerCancels = TRUE
    StoreFails = TRUE
    ListFails = TRUE
    StageIds <- MCStageIds
    BuildIds <- MCBuildIds
    Pipeline <- MCPipeline
    Source <- MCSource
    Filter <- MCFilter
INIT Init
NEXT Next
PROPERTIES
    PausedHandsNothing
\* The dispatch goroutine can block for good (see queue_deadlock), so the
\* whole queue really can stop.
CHECK_DEADLOCK FALSE
