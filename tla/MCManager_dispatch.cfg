\* Agents running builds with no user cancelling: the dispatch rules.
\* Build 1 has two stages.
CONSTANTS
    w1 = w1
    w2 = w2
    Workers <- MCWorkers
    Machines <- MCWorkers
    NoStage = NoStage
    CallerCancels = FALSE
    StoreFails = TRUE
    ListFails = TRUE
    UserCancels = FALSE
    CancelTargets = {1}
    CrashPhases = {}
    MaxCrashes = 0
    StageIds <- MCMultiStageIds
    BuildIds <- MCBuildIds
    Pipeline <- MCMultiPipeline
    Source <- MCSource
    Filter <- MCFilter
INIT ManagerInit
NEXT ManagerNext
INVARIANTS
    ManagerTypeOK
    AcceptExclusive
    ConcurrencyLimit
    MasterSerial
