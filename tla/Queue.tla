------------------------------- MODULE Queue -------------------------------
(***************************************************************************)
(* The scheduler queue of src/scheduler/queue/queue.go: the single         *)
(* dispatch goroutine (start/signal), the Request callers that park on an  *)
(* unbuffered channel until a stage is handed to them or their context is  *)
(* cancelled, the Schedule/Resume wake-up hints, and Pause.                *)
(*                                                                         *)
(* queue.Mutex is held across steps only by signal()'s scan (lines         *)
(* 119-187), where the dispatcher may block on a channel send; every      *)
(* other critical section is one step and is enabled only while the scan  *)
(* does not hold the lock.                                                 *)
(*                                                                         *)
(* The stage and build rows the queue reads through ListIncomplete are    *)
(* variables here; this module never changes them (Manager does).         *)
(***************************************************************************)
EXTENDS Naturals, Sequences, FiniteSets, SequencesExt, TLC, StagePolicy

CONSTANTS
    Workers,        \* Request callers: one per agent poll loop
    StageIds,       \* stage ids; the store lists stages in id order
    BuildIds,       \* build ids; a larger id is a newer build
    Pipeline,       \* [StageIds -> [build, repo, name, limit, os, arch,
                    \*               variant, kernel, labels]]
    Source,         \* [BuildIds -> the branch the build is for]
    Filter,         \* [Workers -> [os, arch, variant, kernel, labels]]
    Machines,       \* machine names agents accept stages under
    NoStage,        \* what a Request call holds before it is handed a stage
    CallerCancels,  \* whether a Request's context may be cancelled
    StoreFails,     \* whether a store call may return an error
    ListFails       \* whether ListIncomplete in particular may

VARIABLES
    stage,      \* [StageIds -> [status, machine, started, version]]
    build,      \* [BuildIds -> [status, started]]: build rows
    ready,      \* q.ready, a channel of capacity 1: is a wake-up buffered?
    paused,     \* q.paused
    locked,     \* the scan of signal() holds queue.Mutex
    workers,    \* q.workers: the set of parked Request callers
    dpc,        \* where the dispatch goroutine is
    items,      \* signal()'s result of ListIncomplete
    idx,        \* signal()'s position in items
    target,     \* the worker signal() is sending items[idx] to
    rpc,        \* [Workers -> where that worker's Request call is]
    got,        \* [Workers -> the stage its last Request returned]
    adm,        \* where the admin's Resume call is
    pass        \* history: the <<worker, stage>> hand-offs of this pass

queueVars == <<ready, paused, locked, workers, dpc, items, idx, target,
               rpc, got, adm, pass>>
storeVars == <<stage, build>>
vars == <<storeVars, queueVars>>

Incomplete == {"pending", "running"}
Done       == {"passing", "failing", "killed", "skipped", "error"}
BuildStatus == {"pending", "running"} \cup Done

-----------------------------------------------------------------------------
\* The value signal()'s locals hold outside a pass.
AnyWorker == CHOOSE w \in Workers : TRUE

(* The row of stage s as ListIncomplete returns it, with its build joined. *)
Row(s) == [id |-> s, status |-> stage[s].status, machine |-> stage[s].machine,
           bstatus |-> build[Pipeline[s].build].status,
           bsource |-> Source[Pipeline[s].build]] @@ Pipeline[s]

\* StageStore.ListIncomplete: pending and running stages, ordered by id.
ListIncomplete ==
    LET ids == SetToSortSeq({s \in StageIds : stage[s].status \in Incomplete}, <)
    IN  [i \in DOMAIN ids |-> Row(ids[i])]

\* Does item pass the filter, and does some worker parked now match it?
Dispatchable(item) ==
    /\ Eligible(item, items)
    /\ \E w \in workers : PlatformMatch(Filter[w], item)

-----------------------------------------------------------------------------
(* Schedule: a non-blocking send on q.ready. *)
Schedule ==
    /\ ready' = TRUE
    /\ UNCHANGED <<storeVars, paused, locked, workers, dpc, items, idx,
                   target, rpc, got, adm, pass>>

Pause ==
    /\ ~locked
    /\ paused' = TRUE
    /\ UNCHANGED <<storeVars, ready, locked, workers, dpc, items, idx,
                   target, rpc, got, adm, pass>>

\* Resume clears paused under the lock, then sends a wake-up.
Resume ==
    /\ adm = "idle"
    /\ ~locked
    /\ paused' = FALSE
    /\ adm' = "notify"
    /\ UNCHANGED <<storeVars, ready, locked, workers, dpc, items, idx,
                   target, rpc, got, pass>>

ResumeNotify ==
    /\ adm = "notify"
    /\ ready' = TRUE
    /\ adm' = "idle"
    /\ UNCHANGED <<storeVars, paused, locked, workers, dpc, items, idx,
                   target, rpc, got, pass>>

-----------------------------------------------------------------------------
(* Request: register w in q.workers, wake the dispatcher, then wait.       *)
RequestRegister(w) ==
    /\ rpc[w] = "idle"
    /\ ~locked
    /\ workers' = workers \cup {w}
    /\ rpc' = [rpc EXCEPT ![w] = "notify"]
    /\ UNCHANGED <<storeVars, ready, paused, locked, dpc, items, idx,
                   target, got, adm, pass>>

RequestNotify(w) ==
    /\ rpc[w] = "notify"
    /\ ready' = TRUE
    /\ rpc' = [rpc EXCEPT ![w] = "wait"]
    /\ UNCHANGED <<storeVars, paused, locked, workers, dpc, items, idx,
                   target, got, adm, pass>>

\* The select takes ctx.Done(): the caller's deadline or cancellation.
RequestCancel(w) ==
    /\ CallerCancels
    /\ rpc[w] = "wait"
    /\ rpc' = [rpc EXCEPT ![w] = "cancel"]
    /\ UNCHANGED <<storeVars, ready, paused, locked, workers, dpc, items,
                   idx, target, got, adm, pass>>

\* ... and then takes the lock to delete itself from q.workers.
RequestLeave(w) ==
    /\ rpc[w] = "cancel"
    /\ ~locked
    /\ workers' = workers \ {w}
    /\ rpc' = [rpc EXCEPT ![w] = "idle"]
    /\ UNCHANGED <<storeVars, ready, paused, locked, dpc, items, idx,
                   target, got, adm, pass>>

-----------------------------------------------------------------------------
(* The dispatch goroutine: start() wakes on q.ready or on the interval     *)
(* timer and runs signal().                                                *)
WakeReady ==
    /\ dpc = "idle"
    /\ ready
    /\ ready' = FALSE
    /\ dpc' = "signal"
    /\ UNCHANGED <<storeVars, paused, locked, workers, items, idx, target,
                   rpc, got, adm, pass>>

\* Mutant: start()'s select has no interval case; only q.ready wakes it.
WakeTickReadyOnly == WakeReady

WakeTick ==
    /\ dpc = "idle"
    /\ dpc' = "signal"
    /\ UNCHANGED <<storeVars, ready, paused, locked, workers, items, idx,
                   target, rpc, got, adm, pass>>

\* signal(): read the worker count and paused under the lock; return early.
Signal ==
    /\ dpc = "signal"
    /\ ~locked
    /\ dpc' = IF paused \/ workers = {} THEN "idle" ELSE "list"
    /\ UNCHANGED <<storeVars, ready, paused, locked, workers, items, idx,
                   target, rpc, got, adm, pass>>

\* ListIncomplete outside the lock ...
List ==
    /\ dpc = "list"
    /\ items' = ListIncomplete
    /\ dpc' = "lock"
    /\ UNCHANGED <<storeVars, ready, paused, locked, workers, idx, target,
                   rpc, got, adm, pass>>

\* ... or, on a store error, signal() returns and start() logs it.
ListFailed ==
    /\ ListFails
    /\ dpc = "list"
    /\ dpc' = "idle"
    /\ UNCHANGED <<storeVars, ready, paused, locked, workers, items, idx,
                   target, rpc, got, adm, pass>>

LockScan ==
    /\ dpc = "lock"
    /\ ~locked
    /\ locked' = TRUE
    /\ idx' = 1
    /\ pass' = {}
    /\ dpc' = "scan"
    /\ UNCHANGED <<storeVars, ready, paused, workers, items, target, rpc,
                   got, adm>>

(* The loops of signal(): skip to the next item that passes the filter and *)
(* that a parked worker matches, and pick that worker (map order is        *)
(* random); when no item is left, release the lock and return (the locals *)
(* of signal() are then gone).                                             *)
ScanNext ==
    /\ dpc = "scan"
    /\ LET next == SelectInSubSeq(items, idx, Len(items),
                                  LAMBDA it : Dispatchable(it))
       IN IF next = 0
          THEN /\ locked' = FALSE
               /\ dpc' = "idle"
               /\ items' = <<>>
               /\ idx' = 1
               /\ target' = AnyWorker
               /\ pass' = {}
          ELSE /\ idx' = next
               /\ \E w \in workers :
                     /\ PlatformMatch(Filter[w], items[next])
                     /\ target' = w
               /\ dpc' = "send"
               /\ UNCHANGED <<locked, items, pass>>
    /\ UNCHANGED <<storeVars, ready, paused, workers, rpc, got, adm>>

\* Mutant: an off-by-one skips the item after the one just sent.
DispatchSendSkipTwo ==
    /\ dpc = "send"
    /\ rpc[target] = "wait"
    /\ rpc' = [rpc EXCEPT ![target] = "got"]
    /\ got' = [got EXCEPT ![target] = items[idx].id]
    /\ workers' = workers \ {target}
    /\ pass' = pass \cup {<<target, items[idx].id>>}
    /\ idx' = idx + 2
    /\ dpc' = "scan"
    /\ UNCHANGED <<storeVars, ready, paused, locked, items, target, adm>>

\* Mutant: the worker is not deleted from q.workers after the send.
DispatchSendKeepWorker ==
    /\ dpc = "send"
    /\ rpc[target] = "wait"
    /\ rpc' = [rpc EXCEPT ![target] = "got"]
    /\ got' = [got EXCEPT ![target] = items[idx].id]
    /\ pass' = pass \cup {<<target, items[idx].id>>}
    /\ idx' = idx + 1
    /\ dpc' = "scan"
    /\ UNCHANGED <<storeVars, ready, paused, locked, workers, items, target,
                   adm>>

\* Mutant: no "break loop": the same item is offered to the next worker.
DispatchSendNoBreak ==
    /\ dpc = "send"
    /\ rpc[target] = "wait"
    /\ rpc' = [rpc EXCEPT ![target] = "got"]
    /\ got' = [got EXCEPT ![target] = items[idx].id]
    /\ workers' = workers \ {target}
    /\ pass' = pass \cup {<<target, items[idx].id>>}
    /\ dpc' = "scan"
    /\ UNCHANGED <<storeVars, ready, paused, locked, items, idx, target, adm>>

(* w.channel <- item: the unbuffered send completes only when the worker is *)
(* parked in its select; then the worker is deleted from q.workers and the *)
(* worker loop breaks to the next item.                                    *)
DispatchSend ==
    /\ dpc = "send"
    /\ rpc[target] = "wait"
    /\ rpc' = [rpc EXCEPT ![target] = "got"]
    /\ got' = [got EXCEPT ![target] = items[idx].id]
    /\ workers' = workers \ {target}
    /\ pass' = pass \cup {<<target, items[idx].id>>}
    /\ idx' = idx + 1
    /\ dpc' = "scan"
    /\ UNCHANGED <<storeVars, ready, paused, locked, items, target, adm>>

-----------------------------------------------------------------------------
(* The queue on its own: the store rows are any state a store of pending   *)
(* and running stages can be in, and stay so; an agent that was handed a  *)
(* stage drops it and polls again; anyone may Schedule.                    *)
RowStates ==
    [status : {"pending"}, machine : {""}, started : {FALSE}, version : {0}]
    \cup [status : {"pending"}, machine : Machines, started : {FALSE},
          version : {1}]
    \cup [status : {"running"}, machine : Machines, started : {TRUE},
          version : {2}]
    \cup [status : {"passing"}, machine : Machines, started : {TRUE},
          version : {3}]

StoreInit ==
    /\ stage \in [StageIds -> RowStates]
    /\ build = [b \in BuildIds |->
                  [status  |-> CASE \A s \in StageIds : Pipeline[s].build = b
                                                     => stage[s].status \in Done
                                      -> "passing"
                                 [] \E s \in StageIds : Pipeline[s].build = b
                                                     /\ stage[s].machine # ""
                                      -> "running"
                                 [] OTHER -> "pending",
                   started |-> \E s \in StageIds : Pipeline[s].build = b
                                                /\ stage[s].machine # ""]]

QueueInit ==
    /\ ready = FALSE
    /\ paused = FALSE
    /\ locked = FALSE
    /\ workers = {}
    /\ dpc = "idle"
    /\ items = <<>>
    /\ idx = 1
    /\ target = AnyWorker
    /\ rpc = [w \in Workers |-> "idle"]
    /\ got = [w \in Workers |-> NoStage]
    /\ adm = "idle"
    /\ pass = {}

Init == StoreInit /\ QueueInit

AgentDrop(w) ==
    /\ rpc[w] = "got"
    /\ rpc' = [rpc EXCEPT ![w] = "idle"]
    /\ got' = [got EXCEPT ![w] = NoStage]
    /\ UNCHANGED <<storeVars, ready, paused, locked, workers, dpc, items,
                   idx, target, adm, pass>>

Dispatcher ==
    WakeReady \/ WakeTick \/ Signal \/ List \/ ListFailed \/ LockScan
    \/ ScanNext \/ DispatchSend

Caller(w) ==
    RequestRegister(w) \/ RequestNotify(w) \/ RequestCancel(w)
    \/ RequestLeave(w)

Admin == Pause \/ Resume \/ ResumeNotify

Next ==
    \/ Dispatcher \/ Admin \/ Schedule
    \/ \E w \in Workers : Caller(w) \/ AgentDrop(w)

(* The dispatch goroutine is woken at least every interval, so its steps  *)
(* are weakly fair; goroutines waiting on sync.Mutex get it eventually    *)
(* (Go's starvation mode), so lock-taking steps of callers are strongly   *)
(* fair.  The store is not down for good: a listing that is retried      *)
(* forever eventually succeeds.  Cancellation, Pause/Resume and Schedule  *)
(* are the environment's.                                                  *)
Fairness ==
    /\ WF_vars(Dispatcher)
    /\ SF_vars(List)
    /\ \A w \in Workers : /\ SF_vars(RequestRegister(w))
                          /\ SF_vars(RequestLeave(w))
                          /\ WF_vars(RequestNotify(w))
                          /\ WF_vars(AgentDrop(w))

Spec == Init /\ [][Next]_vars /\ Fairness

-----------------------------------------------------------------------------
TypeOK ==
    /\ stage \in [StageIds -> [status : Incomplete \cup Done,
                               machine : Machines \cup {""},
                               started : BOOLEAN, version : Nat]]
    /\ ready \in BOOLEAN /\ paused \in BOOLEAN /\ locked \in BOOLEAN
    /\ workers \subseteq Workers
    /\ dpc \in {"idle", "signal", "list", "lock", "scan", "send"}
    /\ idx \in 1..Len(items) + 1
    /\ target \in Workers
    /\ rpc \in [Workers -> {"idle", "notify", "wait", "cancel", "got"}]
    /\ got \in [Workers -> StageIds \cup {NoStage}]
    /\ adm \in {"idle", "notify"}
    /\ pass \subseteq Workers \X StageIds

(* q.workers holds exactly the callers parked inside Request: a caller that *)
(* is waiting but missing from the map would never be handed a stage, and  *)
(* one left in the map after it returned would be sent to with nobody      *)
(* receiving.  Request, its cancellation and the hand-off in signal() must *)
(* each keep the map in step with the callers.                             *)
WorkersAreParkedCallers ==
    workers = {w \in Workers : rpc[w] \in {"notify", "wait", "cancel"}}

(* One dispatch pass hands a stage to at most one worker and a worker at   *)
(* most one stage (the "break loop" after the send in signal()).           *)
SingleFlight ==
    \A h1, h2 \in pass : (h1[1] = h2[1]) <=> (h1[2] = h2[2])

(* Spec 4.1/8: a Request whose context is cancelled can always remove      *)
(* itself: signal() never holds the lock while blocked sending to a caller *)
(* that has already left its select for ctx.Done().                        *)
CancelledCallerNotBlocked ==
    \A w \in Workers :
        rpc[w] = "cancel" => ~(locked /\ dpc = "send" /\ target = w)

(* Some parked worker that a stage in the store could go to is eventually  *)
(* handed a stage, unless the queue is paused.  q.ready holds one wake-up, *)
(* and a pass whose ListIncomplete fails consumes it and hands nothing;   *)
(* then only start()'s interval timer (time.After, line 199) runs          *)
(* signal() again.  Checked with the agents of Manager, which never       *)
(* cancel a Request, so the hand-off deadlock at queue.go:181 cannot stall *)
(* the pass.                                                               *)
DispatchProgress ==
    (\E w \in Workers : /\ rpc[w] = "wait"
                        /\ \E s \in StageIds :
                              /\ stage[s].status \in Incomplete
                              /\ Eligible(Row(s), ListIncomplete)
                              /\ PlatformMatch(Filter[w], Row(s)))
    ~> (paused \/ \E w \in Workers : rpc[w] = "got")

(* Spec 4.1: while the queue is paused no stage is handed out.  signal()  *)
(* reads q.paused under the lock (lines 104-113) but releases it for      *)
(* ListIncomplete and takes it again for the scan, which does not look at *)
(* q.paused again: a Pause that returns in between does not stop the pass. *)
PausedHandsNothing ==
    [][paused => \A w \in Workers : rpc'[w] = "got" => rpc[w] = "got"]_vars

=============================================================================
