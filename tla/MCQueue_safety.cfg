\* Callers that may time out, admin Pause/Resume, store errors, four
\* agents: the queue keeps its bookkeeping straight.
CONSTANTS
    w1 = w1
    w2 = w2
    w3 = w3
    w4 = w4
    Workers <- MCWorkers
    Machines = {m1}
    NoStage = NoStage
    CallerCancels = TRUE
    StoreFails = TRUE
    ListFails = TRUE
    StageIds <- MCStageIds
    BuildIds <- MCBuildIds
    Pipeline <- MCPipeline
    Source <- MCSource
    Filter <- MCFilter
SPECIFICATION Spec
INVARIANTS
    TypeOK
    WorkersAreParkedCallers
    SingleFlight
\* The dispatch goroutine can block for good (see queue_deadlock).
CHECK_DEADLOCK FALSE
