\* A Request whose context is cancelled while signal() is about to send to it.
CONSTANTS
    w1 = w1
    w2 = w2
    w3 = w3
    w4 = w4
    Workers <- MCWorkers
    Machines = {m1}
    NoStage = NoStage
    CallerCancels = TRUE
    StoreFails = TRUE
    ListFails = TRUE
    StageIds <- MCStageIds
    BuildIds <- MCBuildIds
    Pipeline <- MCPipeline
    Source <- MCSource
    Filter <- MCFilter
INIT Init
NEXT Next
INVARIANT
    CancelledCallerNotBlocked
