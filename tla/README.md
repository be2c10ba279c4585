# TLA+ models of the drone build scheduler and build manager

These modules model the parts of this repository where several actors work
at once. They are checked with TLC. The parts are:

- the in-memory build queue, `src/scheduler/queue/queue.go`;
- the build manager that agents call, `src/unnamed/part_000` (`manager.go`);
- the cancel endpoint, `src/handler/api/repos/builds/cancel.go`.

`spec.md` describes the intended behaviour. The modules are translated from
the Go source. They follow the spec only for code that lives outside `src/`:

- the stores;
- `setup`, `teardown` and the step `updater`;
- `Scheduler.Cancel` and `Scheduler.Cancelled`.

Those definitions are marked `spec_modelled` in `PROJECT.json`.

## 1. Inventory

### Components and their state

| Component | Source | State | Operations that change state |
|---|---|---|---|
| Queue | queue.go | `paused`; the `ready` channel (capacity 1); `workers` (the parked callers, guarded by the mutex); each caller's unbuffered channel | `Schedule`, `Pause`, `Resume`, `Request` (register, notify, wait or cancel, leave), `start` (wake on `ready` or on the interval timer), `signal` (list, lock, scan, hand-off) |
| Eligibility rules | queue.go 121-165, 220-276 | none (pure) | `checkLabels`, platform match, `withinLimits`, `withinBranchLimits` |
| Manager.Request / Accept | manager.go 153-224 | stage rows (`Machine`, `Status`, `Version`) | `Request` delegates to the queue. `Accept` does `Find`, checks `Machine == ""`, then does an optimistic `Update` |
| Manager.BeforeAll / AfterAll | manager.go 361-388 (they delegate to `setup` and `teardown`, modelled from spec §4.2-4.3) | stage and build status; `Schedule` | the stage and build start; the stage ends; the build finishes when all its stages are done; the queue is woken |
| Manager.Before / After | manager.go 299-358 | step rows, log streams | `Before` creates the step's log stream, then runs the updater. `After` runs the updater, then deletes the stream |
| Manager.Watch | manager.go 419-436 | none | reads `Scheduler.Cancelled`, then `Stages.Find` |
| Cancellation | cancel.go 38-99, manager.go 472-551 | build row, cancelled-builds set, stage and step rows | `FindNumber`, status check, unconditional build `Update`, `Scheduler.Cancel`, status send, `ListSteps`, the stage loop, the step loop, webhook |
| Details, Netrc, Write, Upload | manager.go 227-296, 392-470 | none, or log I/O | read-only or pass-through (not modelled) |
| drone-yaml (vendor) | manifest.go, transform/volume.go, compiler/dind.go | none (pure) | decoding and transforms (not modelled) |

### How the parts interact

1. An agent calls `Manager.Request`, which parks it in the queue's `workers`.
2. `signal` lists incomplete stages and hands one to each matching parked worker.
3. The agent claims the stage with `Accept`, which uses optimistic locking on the stage version.
4. The agent runs the stage in this order:
   1. `BeforeAll`;
   2. `Before`/`After` for each step, polling `Watch` all the while;
   3. `AfterAll`, which finishes the build and calls `Schedule` to wake the queue.
5. In parallel, a user's cancel request goes through `HandleCancel` and `Manager.Cancel`. `Manager.Cancel` does three things:
   - it writes the build as killed;
   - it marks the build cancelled, which `Watch` reports;
   - it marks the build's non-terminal stages and steps killed or skipped.

### The hard behaviours

- The dispatcher sends to a worker's channel while holding the mutex. A
  caller's context can be cancelled at that moment, and the caller then needs
  the same mutex.
- `signal` reads `paused` under the lock, then releases it to list stages.
  It uses the listing after it takes the lock again.
- `Accept` is a read, a check and an update, and two agents can race on it.
- `Cancel` races the agent on the same rows:
  - it acts on the build row that `HandleCancel` read earlier;
  - its stage writes are optimistic and can fail;
  - its step writes are unconditional, and so are the agent's;
  - it stops at the first error and leaves the rest undone.
- An agent can die at any point. Nothing under `src/` frees what it claimed.
- Wake-ups merge in a one-slot channel, and a listing can fail. Only the
  interval timer guarantees progress.

## 2. Modules

| Module | Models | Main state and actions |
|---|---|---|
| `StagePolicy` | queue.go 121-165, 220-276 | Operators `checkLabels`, `PlatformMatch`, `withinLimits`, `withinBranchLimits`, `Eligible` over a listing of rows |
| `Queue` | queue.go | Variables:<br>- `stage`, `build`: the store rows<br>- `ready`, `paused`, `locked`, `workers`: the queue struct<br>- `dpc`, `items`, `idx`, `target`, `pass`: the dispatcher's program counter and locals<br>- `rpc`, `got`: each caller's program counter and the stage it received<br>- `adm`: the admin's Resume step<br>Actions: one per step of each goroutine, e.g. `RequestRegister`, `RequestCancel`, `RequestLeave`, `WakeTick`, `Signal`, `List`, `ListFailed`, `LockScan`, `ScanNext`, `DispatchSend` |
| `Manager` | manager.go, cancel.go | Extends `Queue` with:<br>- the agent program counter `ag`<br>- `seen`, Accept's `Find` result<br>- `owners`, a history of successful Accepts<br>- `cancelled`, the Scheduler's set<br>- the canceller's program counter `cpc` and locals `cb`, `csnap`, `clist`, `cidx`<br>- `crashes`, the number of agents that died<br>Actions: `AcceptFind`, `AcceptUpdate`, `BeforeAll`, `Watch`, `AfterAll`, `AgentCrash`, `CancelFind`, `CancelBuild`, `CancelSignal`, `CancelStatus`, `CancelList`, `CancelStage`, `CancelReturn` |
| `StepLifecycle` | manager.go 299-358, 375-388, 419-436, 472-551 | One stage and its steps. Variables:<br>- `stg`, `steps`, `bstatus`: the rows<br>- `streams`: the live log streams<br>- `leaked`: the streams whose Delete failed in `After`<br>- the agent's `apc`, `cur`, `stopping`<br>- the canceller's `cpc`, `cstage`, `csteps`, `cidx`<br>Actions: `Before`, `After`, `Watch`, `Stop`, `AfterAll`, `CancelBuild`, `CancelSignal`, `CancelList`, `CancelStage`, `CancelStep`, `CancelReturn` |
| `MCQueue` | — | Four workers: two plain amd64, one arm64 and one amd64 with a GPU label. Three stages in two master builds; one stage has a concurrency limit and one needs the label. The initial rows include pending, claimed, running and finished stages. |
| `MCManager` | — | Two workers and three single-stage builds, each stage limited to 1. Builds 1 and 2 are on master, build 3 is on a feature branch. Builds 1 and 3 share the stage name `build`; build 2 runs `deploy`. For the dispatch run build 1 also has an unlimited `test` stage (stage 4). |

Each step of a goroutine is one action. Steps are split where another
goroutine can interleave: a lock, a channel operation, or a store call. Every
assignment the code makes in a step is part of that action. The constants
switch on the faults and the outside actors:

| Constant | What it enables |
|---|---|
| `StoreFails` | store calls can fail |
| `ListFails` | the queue's `ListIncomplete` can fail (set with `StoreFails`, or alone in manager_progress) |
| `StreamFails` | log streams can fail to open or to be deleted |
| `CallerCancels` | a Request's context can be cancelled |
| `UserCancels` | a user can cancel a build |
| `CrashPhases`, `MaxCrashes` | which agent phases a crash may hit, and how many agents may die |

## 3. Runs

| Run | Checks | Result |
|---|---|---|
| queue_safety | `TypeOK`; `WorkersAreParkedCallers` (the `workers` set is exactly the callers parked in the select); `SingleFlight` (a pass never sends two stages to one worker, or one stage twice) | pass |
| queue_deadlock | `CancelledCallerNotBlocked` | **violation** (finding 1) |
| queue_pause_race | `PausedHandsNothing`: no stage is handed out while the queue is paused | **violation** (finding 3) |
| manager_dispatch | `ManagerTypeOK`; `AcceptExclusive` (a stage is never accepted by two machines); `ConcurrencyLimit`; `MasterSerial` (stages of two master builds of a repo never run at once) | pass |
| manager_cancel | `AcceptExclusive`, with user cancels and store errors; `MachineStable` (once an agent's Accept is stored, the stage keeps its machine, although Cancel writes back the whole stage row it listed) | pass |
| manager_progress | `AllBuildsFinish`; `CancelledBuildsSettle` (a cancelled build's stages end terminal and stay so); `DispatchProgress` (a waiting agent is handed a stage it matches, even when a failed listing consumed its wake-up and only the interval timer runs `signal` again). An agent may die before its Accept is stored, the listing may fail, and the user may cancel. | pass |
| accept_revives | `StageMonotonic`: a terminal stage never becomes non-terminal | **violation** (finding 2) |
| cancel_overwrites_finished | `BuildTerminalStable`: a terminal build keeps its status | **violation** (finding 4) |
| crash_orphans_stage | `AllBuildsFinish`, with an agent that may die after its Accept | **violation** (finding 5) |
| steps_safety | `StepTypeOK`; `StreamClosedAfterStep` (each step the agent has moved past has no live log stream, unless its Delete failed) | pass |
| step_overwrite | `StepMonotonic`: a terminal step keeps its status | **violation** (finding 6) |
| step_orphan | `StepsSettle`: a cancelled stage and all its steps end terminal | **violation** (finding 7) |

### Findings

1. **Hand-off deadlock** (queue.go:181 with :94). `signal` holds the mutex
   while it does the unbuffered send to the chosen worker. If that worker's
   context is cancelled at that moment:
   - the worker leaves its select and blocks on `q.Lock()`;
   - `signal` blocks on the send.

   Nothing releases either, and the queue stops for every agent.
2. **Accept revives a cancelled stage** (manager.go:204). `Accept` checks
   only `Machine`. The sequence is:
   1. A stage is handed to an agent before its build is cancelled.
   2. `Cancel` finds no machine on the stage and marks it skipped.
   3. The agent's `Accept` sets the stage back to pending, with a machine.

   The revived stage then runs beside the stage of the next master build,
   so `MasterSerial` fails too once user cancels are enabled.
3. **Pause does not stop a pass that has started** (queue.go:113/119).
   `signal` reads `paused` and then releases the lock for
   `ListIncomplete`. It takes the lock again for the scan without reading
   `paused` again. A `Pause` that returns in between does not stop the
   hand-off. Spec §4.1 says the pass runs holding the lock and that dispatch
   does not run while paused.
4. **Cancel overwrites a finished build** (manager.go:473 with
   cancel.go:70). `Manager.Cancel` checks the status of the row that
   `HandleCancel` read before, then writes that row back as killed. A build
   that passed in between becomes killed. Spec §3 and §8 say a terminal
   build never changes.
5. **A stage claimed by a dead agent is never reclaimed** (queue.go:130).
   `signal` skips every stage with a machine, and no code under `src/`
   clears the machine.
   - The stage never finishes, and neither does its build.
   - Neither does every build that its limit or branch rule holds back.
   - Spec §5 counts on a slot "freed by a crash" being re-evaluated, but
     nothing frees it.
   - A crash before the Accept is stored is harmless: manager_progress
     passes with it.
6. **Cancel and the agent overwrite each other's step rows**
   (manager.go:533 and :322). Both write steps with an unconditional
   `Steps.Update` of the copy they read. Whichever writes last wins:
   - a step that `Cancel` skipped becomes running again;
   - or a passing step becomes killed.

   Spec §8 says `Cancel` leaves terminal steps as they were.
7. **Cancel leaves steps pending for ever** (manager.go:517). `Cancel`
   returns at the first failed stage `Update`, before its step loop. This
   happens when the stopped agent's teardown ended the stage after
   `ListSteps`. The stage is then killed, but the steps the agent never ran
   stay pending. This is against spec §3: a stage is terminal iff all its
   steps are.

`After` runs the updater and then deletes the log stream even when the
updater failed. The error of the Delete is only logged. This matches spec §7,
which says log-stream teardown is best-effort. `StreamClosedAfterStep` checks
that `After` always reaches the Delete. This includes the stream that `Before`
left live when its updater failed. Teardown is not under `src/`. It is
modelled from spec §4.3 and §7: it deletes the remaining streams, and each of
those Deletes may fail too.

### Bounds

- **Queue model:** four workers and three stages.
  - This is enough for a limit to count a sibling, and for the branch rule
    to compare two builds.
  - Stage 1 may start out finished. Stage 3 then becomes dispatchable, and a
    hand-off can happen at the last item of a listing.
  - Two plain amd64 workers compete for stage 1. This is the case in which a
    missing `break` would send one stage twice.
  - The arm64 worker and the GPU label make the platform and label filters
    reject some pairs.
- **queue_safety:** all four workers, 954k distinct states in about 35
  seconds.
- **Manager model:** three single-stage builds, each with a limit of 1.
  - Builds 1 and 2 are on master and have different stage names, so only
    `withinBranchLimits` keeps them apart.
  - Builds 1 and 3 share a name, so only `withinLimits` keeps them apart.
- **manager_dispatch:** build 1 also has stage 4, named `test`, with no
  limit.
  - Two agents can run the two stages of build 1 at once and tear them
    down in either order. Setup and teardown are not under `src/`; they
    are modelled from spec §4.2 and §4.3 as one atomic step each, with setup
    taken to succeed.
  - Once build 1 runs, `withinBranchLimits` lets stage 4 through by the
    build's status while master build 2 waits. `MasterSerial` must still
    hold.
  - 304k distinct states, in about 30 seconds.
- **Cancel runs:** build 1 is cancellable and build 3 is the other build.
- **manager_progress:** one agent that may die twice, and three builds.
  - The listing may fail; no other store call does. A failed pass consumes
    the one buffered wake-up, so only the interval timer serves the agent.
    The mutant `WakeTickReadyOnly`, a `start` without the timer case, breaks
    `DispatchProgress`. With the listing never failing, the same mutant
    passes, so the run does exercise the timer.
  - No admin acts, so `paused` stays false here. The pause race is checked
    in the queue runs.
  - Two agents with user cancels pass 500k states without finishing.
  - The crash-after-Accept run keeps two agents, so that the orphaned stage
    also blocks the other agent.
- **StepLifecycle:** three steps in the safety run, so a step has a
  neighbour on each side. The violation runs use two steps.

### Fairness

Fairness is assumed only where the code provides it:

- **Weak fairness on the dispatcher.** The 60-second interval timer always
  fires.
- **Strong fairness on steps that take the mutex.** Go's mutex enters
  starvation mode, so a waiter is eventually served.
- **Strong fairness on a successful listing.** The store is not down forever.
- **Weak fairness on agents.** They run in a loop.
- **Weak fairness on the canceller in `StepLifecycle`.** Once the user's
  call has started, `Manager.Cancel` runs to its end.

The following get no fairness; they may act or not:

- the user;
- the admin (Pause/Resume);
- context cancellation;
- agent crashes, which are also bounded by `MaxCrashes`.

The Manager liveness run lets only the listing fail. The dispatcher retries
a failed listing on its next wake-up, and strong fairness on a successful
listing says the store is not down for good. Other store calls are not
retried by the code. A failing Accept or Cancel write would make a progress
property fail for a reason the code does not claim to handle.

`CHECK_DEADLOCK FALSE` is set only where the system really stops:

- every caller holds its stage and nothing is left to do;
- in the queue model, the hand-off deadlock above.

## 4. Not modelled

- **`Watch`'s store branch.** The code never reaches `stage.IsDone()` after
  a successful `Find`. After a failed `Find` it dereferences a nil stage.
  For the agent both outcomes are an error or the cancellation answer, so
  the models' `Watch` is "stop once the build is cancelled". The branch is
  a single sequential call that a unit test reaches directly.
- **drone-yaml.** `WithVolumeSlice`, the dind whitelist and manifest
  decoding are pure functions of their input. They have no interleaving or
  state for a model checker to explore, and a table test covers them.
- **`Details`, `Netrc`, `Write`, `Upload`, `UploadBytes`.** They only read
  rows or pass bytes through. The same goes for logging, pub/sub events,
  SCM status and webhooks: no property reads what they change. The secret
  filter of `Details` (drop non-pull-request secrets for a pull-request
  build) is a sequential pure function that a unit test reaches directly.
- **`Paused`.** A read under the lock; it changes nothing.
