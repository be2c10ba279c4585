------------------------------ MODULE Manager ------------------------------
(***************************************************************************)
(* The build manager of src/unnamed/part_000 (package manager) composed    *)
(* with the queue: agents poll through Request, claim the stage with       *)
(* Accept's optimistic update, run it between BeforeAll and AfterAll and   *)
(* poll Watch; a user cancels builds through HandleCancel                  *)
(* (src/handler/api/repos/builds/cancel.go) and Manager.Cancel.            *)
(*                                                                         *)
(* setup, teardown and Scheduler.Cancel/Cancelled are not under src/;      *)
(* they are modelled from the spec (4.2, 4.3, 4.1) and stated so below.    *)
(* Steps are left to the Updater module: a stage here runs as a whole.     *)
(***************************************************************************)
EXTENDS Queue

CONSTANTS
    UserCancels,    \* whether a user cancels builds
    CancelTargets,  \* the builds the user may cancel
    CrashPhases,    \* where an agent holding a stage may crash (ag values)
    MaxCrashes      \* how many agent crashes a behaviour has at most

VARIABLES
    ag,         \* [Workers -> where the agent is after Request returned]
    seen,       \* [Workers -> the stage row Accept read]
    owners,     \* history: [StageIds -> agents whose Accept succeeded]
    cancelled,  \* the builds Scheduler.Cancel was called for
    cpc,        \* where the user's cancel request is
    cb,         \* the build it cancels
    csnap,      \* the build row HandleCancel read (FindNumber)
    clist,      \* the stage rows Cancel listed (ListSteps)
    cidx,       \* Cancel's position in clist
    crashes     \* how many agent crashes happened so far

managerVars == <<ag, seen, owners, cancelled, cpc, cb, csnap, clist, cidx>>
allVars == <<vars, managerVars, crashes>>

StagesOf(b) == {s \in StageIds : Pipeline[s].build = b}

NoRow == [status |-> "pending", machine |-> "", started |-> FALSE,
          version |-> 0]
NoBuild == [status |-> "pending", started |-> FALSE]

\* The agent is done with the stage it was handed and will Request again.
AgentReturns(w) ==
    /\ rpc' = [rpc EXCEPT ![w] = "idle"]
    /\ got' = [got EXCEPT ![w] = NoStage]
    /\ seen' = [seen EXCEPT ![w] = NoRow]

-----------------------------------------------------------------------------
(* Accept: Find the stage; if it has a machine another agent won; else     *)
(* set machine and status pending and Update, which fails with            *)
(* ErrOptimisticLock when the row's version moved since the Find.          *)
\* Mutant: Accept does not check whether the stage has a machine.
AcceptFindNoMachineCheck(w) ==
    /\ rpc[w] = "got"
    /\ ag[w] = "idle"
    /\ LET s == got[w] IN
       \/ /\ seen' = [seen EXCEPT ![w] = stage[s]]
          /\ ag' = [ag EXCEPT ![w] = "accept"]
          /\ UNCHANGED <<rpc, got>>
       \/ /\ StoreFails
          /\ AgentReturns(w)
          /\ UNCHANGED ag
    /\ UNCHANGED <<storeVars, ready, paused, locked, workers, dpc, items,
                   idx, target, adm, pass, owners, cancelled, cpc, cb,
                   csnap, clist, cidx>>

AcceptFind(w) ==
    /\ rpc[w] = "got"
    /\ ag[w] = "idle"
    /\ LET s == got[w] IN
       \/ /\ stage[s].machine = ""
          /\ seen' = [seen EXCEPT ![w] = stage[s]]
          /\ ag' = [ag EXCEPT ![w] = "accept"]
          /\ UNCHANGED <<rpc, got>>
       \/ /\ stage[s].machine # "" \/ StoreFails
          /\ AgentReturns(w)
          /\ UNCHANGED ag
    /\ UNCHANGED <<storeVars, ready, paused, locked, workers, dpc, items,
                   idx, target, adm, pass, owners, cancelled, cpc, cb,
                   csnap, clist, cidx>>

\* Mutant: the stage Update is not conditional on the version read.
AcceptUpdateNoVersion(w) ==
    /\ ag[w] = "accept"
    /\ LET s == got[w] IN
       \/ /\ stage' = [stage EXCEPT ![s] = [seen[w] EXCEPT !.machine = w,
                                              !.status = "pending",
                                              !.version = @ + 1]]
          /\ owners' = [owners EXCEPT ![s] = @ \cup {w}]
          /\ ag' = [ag EXCEPT ![w] = "accepted"]
          /\ seen' = [seen EXCEPT ![w] = NoRow]
          /\ UNCHANGED <<rpc, got>>
       \/ /\ StoreFails
          /\ ag' = [ag EXCEPT ![w] = "idle"]
          /\ AgentReturns(w)
          /\ UNCHANGED <<stage, owners>>
    /\ UNCHANGED <<build, ready, paused, locked, workers, dpc, items, idx,
                   target, adm, pass, cancelled, cpc, cb, csnap, clist,
                   cidx>>

AcceptUpdate(w) ==
    /\ ag[w] = "accept"
    /\ LET s == got[w] IN
       \/ /\ stage[s].version = seen[w].version
          /\ stage' = [stage EXCEPT ![s] = [seen[w] EXCEPT !.machine = w,
                                              !.status = "pending",
                                              !.version = @ + 1]]
          /\ owners' = [owners EXCEPT ![s] = @ \cup {w}]
          /\ ag' = [ag EXCEPT ![w] = "accepted"]
          /\ seen' = [seen EXCEPT ![w] = NoRow]
          /\ UNCHANGED <<rpc, got>>
       \/ /\ stage[s].version # seen[w].version \/ StoreFails
          /\ ag' = [ag EXCEPT ![w] = "idle"]
          /\ AgentReturns(w)
          /\ UNCHANGED <<stage, owners>>
    /\ UNCHANGED <<build, ready, paused, locked, workers, dpc, items, idx,
                   target, adm, pass, cancelled, cpc, cb, csnap, clist,
                   cidx>>

(* BeforeAll (setup, spec 4.2): re-read the stage, mark it running and    *)
(* started, and a pending build running.  The setup type is not under     *)
(* src/, and spec 4.2 gives it no check of the stage's status.  What the  *)
(* agent does when setup fails is outside the repository, so setup is     *)
(* taken to succeed.                                                       *)
BeforeAll(w) ==
    /\ ag[w] = "accepted"
    /\ LET s == got[w]
           b == Pipeline[s].build
       IN /\ stage' = [stage EXCEPT ![s].status = "running",
                                    ![s].started = TRUE,
                                    ![s].version = @ + 1]
          /\ build' = IF build[b].status = "pending"
                      THEN [build EXCEPT ![b] = [status |-> "running",
                                                 started |-> TRUE]]
                      ELSE build
    /\ ag' = [ag EXCEPT ![w] = "running"]
    /\ UNCHANGED <<queueVars, seen, owners, cancelled, cpc, cb, csnap, clist,
                   cidx>>

(* Watch: Scheduler.Cancelled says whether the stage's build was cancelled *)
(* and, the stage being found, that answer is returned.  The agent stops   *)
(* the stage when it is TRUE; a FALSE answer changes nothing.             *)
Watch(w) ==
    /\ ag[w] = "running"
    /\ Pipeline[got[w]].build \in cancelled
    /\ ag' = [ag EXCEPT ![w] = "stopping"]
    /\ UNCHANGED <<vars, seen, owners, cancelled, cpc, cb, csnap, clist, cidx>>

\* Mutant: a clean build is given the status name "success".
BuildResultSuccess(rows) ==
    IF \E r \in rows : r.status = "killed" THEN "killed"
    ELSE IF \E r \in rows : r.status \in {"failing", "error"} THEN "failing"
    ELSE "success"

\* The status a finished build gets from its stages (spec 4.3, 4.4).
BuildResult(rows) ==
    IF \E r \in rows : r.status = "killed" THEN "killed"
    ELSE IF \E r \in rows : r.status \in {"failing", "error"} THEN "failing"
    ELSE "passing"

\* Mutant: teardown of a stage the agent stopped writes nothing.
AfterAllIgnoresStop(w) ==
    /\ ag[w] \in {"running", "stopping"}
    /\ \E result \in IF ag[w] = "stopping" THEN {"killed"}
                     ELSE {"passing", "failing"} :
        LET s == got[w]
            b == Pipeline[s].build
            final == IF stage[s].status \in Done \/ ag[w] = "stopping"
                     THEN stage
                     ELSE [stage EXCEPT ![s].status = result,
                                        ![s].version = @ + 1]
        IN /\ stage' = final
           /\ build' = IF /\ build[b].status \notin Done
                          /\ \A t \in StagesOf(b) : final[t].status \in Done
                       THEN [build EXCEPT ![b].status =
                               BuildResult({final[t] : t \in StagesOf(b)})]
                       ELSE build
    /\ ready' = TRUE
    /\ ag' = [ag EXCEPT ![w] = "idle"]
    /\ AgentReturns(w)
    /\ UNCHANGED <<paused, locked, workers, dpc, items, idx, target,
                   adm, pass, owners, cancelled, cpc, cb, csnap, clist,
                   cidx>>

(* AfterAll (teardown, spec 4.3): persist the stage's final status, finish *)
(* the build when every stage is terminal, and Schedule.  A stopped stage  *)
(* ends killed.  Terminal rows are never rewritten (spec 3).               *)
AfterAll(w) ==
    /\ ag[w] \in {"running", "stopping"}
    /\ \E result \in IF ag[w] = "stopping" THEN {"killed"}
                     ELSE {"passing", "failing"} :
        LET s == got[w]
            b == Pipeline[s].build
            final == IF stage[s].status \in Done THEN stage
                     ELSE [stage EXCEPT ![s].status = result,
                                        ![s].version = @ + 1]
        IN /\ stage' = final
           /\ build' = IF /\ build[b].status \notin Done
                          /\ \A t \in StagesOf(b) : final[t].status \in Done
                       THEN [build EXCEPT ![b].status =
                               BuildResult({final[t] : t \in StagesOf(b)})]
                       ELSE build
    /\ ready' = TRUE
    /\ ag' = [ag EXCEPT ![w] = "idle"]
    /\ AgentReturns(w)
    /\ UNCHANGED <<paused, locked, workers, dpc, items, idx, target,
                   adm, pass, owners, cancelled, cpc, cb, csnap, clist,
                   cidx>>

-----------------------------------------------------------------------------
(* HandleCancel: FindNumber reads the build row Cancel is then given.      *)
CancelFind(b) ==
    /\ UserCancels
    /\ b \in CancelTargets
    /\ cpc = "idle"
    /\ cb' = b
    /\ csnap' = build[b]
    /\ cpc' = "check"
    /\ UNCHANGED <<vars, ag, seen, owners, cancelled, clist, cidx>>

\* The cancel request returns (an error or success); its locals are gone.
CancelReturns ==
    /\ cpc' = "idle"
    /\ csnap' = NoBuild
    /\ clist' = <<>>
    /\ cidx' = 1

(* Cancel: refuse a build that is not pending or running (as read); else   *)
(* write it killed and started, and return on a store error.  The build   *)
(* store's Update is unconditional (spec 6).                               *)
CancelBuild ==
    /\ cpc = "check"
    /\ \/ /\ csnap.status \notin {"pending", "running"}
          /\ CancelReturns
          /\ UNCHANGED build
       \/ /\ csnap.status \in {"pending", "running"}
          /\ build' = [build EXCEPT ![cb] = [csnap EXCEPT !.status = "killed",
                                                          !.started = TRUE]]
          /\ cpc' = "signal"
          /\ UNCHANGED <<csnap, clist, cidx>>
       \/ /\ csnap.status \in {"pending", "running"}
          /\ StoreFails
          /\ CancelReturns
          /\ UNCHANGED build
    /\ UNCHANGED <<stage, queueVars, ag, seen, owners, cancelled, cb>>

\* Scheduler.Cancel (spec 4.1): later Cancelled calls for the build say TRUE.
CancelSignal ==
    /\ cpc = "signal"
    /\ cancelled' = cancelled \cup {cb}
    /\ cpc' = "status"
    /\ UNCHANGED <<vars, ag, seen, owners, cb, csnap, clist, cidx>>

\* Status.Send for the repository owner; a failure returns the error.
CancelStatus ==
    /\ cpc = "status"
    /\ \/ cpc' = "list" /\ UNCHANGED <<csnap, clist, cidx>>
       \/ StoreFails /\ CancelReturns
    /\ UNCHANGED <<vars, ag, seen, owners, cancelled, cb>>

\* Stages.ListSteps: the build's stage rows, in id order.
ListSteps(b) ==
    LET ids == SetToSortSeq(StagesOf(b), <)
    IN  [i \in DOMAIN ids |-> [id |-> ids[i]] @@ stage[ids[i]]]

CancelList ==
    /\ cpc = "list"
    /\ \/ /\ clist' = ListSteps(cb)
          /\ cidx' = 1
          /\ cpc' = "stages"
          /\ UNCHANGED csnap
       \/ StoreFails /\ CancelReturns
    /\ UNCHANGED <<vars, ag, seen, owners, cancelled, cb>>

\* Mutant: the stage Update of the loop is not conditional on the version.
CancelStageNoVersion ==
    /\ cpc = "stages"
    /\ LET i == SelectInSubSeq(clist, cidx, Len(clist),
                               LAMBDA r : r.status \notin Done)
           r == clist[i]
       IN IF i = 0
          THEN /\ cpc' = "webhook"
               /\ UNCHANGED <<stage, csnap, clist, cidx>>
          ELSE \/ /\ stage' = [stage EXCEPT ![r.id] =
                                 [status  |-> IF r.started THEN "killed"
                                              ELSE "skipped",
                                  machine |-> r.machine,
                                  started |-> TRUE,
                                  version |-> r.version + 1]]
                  /\ cidx' = i + 1
                  /\ UNCHANGED <<cpc, csnap, clist>>
               \/ /\ StoreFails
                  /\ CancelReturns
                  /\ UNCHANGED stage
    /\ UNCHANGED <<build, queueVars, ag, seen, owners, cancelled, cb>>

(* The stage loop: skip listed stages that were done; a started stage is   *)
(* killed, one never started is skipped and marked started; the Update is *)
(* optimistic against the listed version and its error is returned.  When *)
(* the loop ends the webhook is sent.                                      *)
CancelStage ==
    /\ cpc = "stages"
    /\ LET i == SelectInSubSeq(clist, cidx, Len(clist),
                               LAMBDA r : r.status \notin Done)
           r == clist[i]
       IN IF i = 0
          THEN /\ cpc' = "webhook"
               /\ UNCHANGED <<stage, csnap, clist, cidx>>
          ELSE \/ /\ stage[r.id].version = r.version
                  /\ stage' = [stage EXCEPT ![r.id] =
                                 [status  |-> IF r.started THEN "killed"
                                              ELSE "skipped",
                                  machine |-> r.machine,
                                  started |-> TRUE,
                                  version |-> r.version + 1]]
                  /\ cidx' = i + 1
                  /\ UNCHANGED <<cpc, csnap, clist>>
               \/ /\ stage[r.id].version # r.version \/ StoreFails
                  /\ CancelReturns
                  /\ UNCHANGED stage
    /\ UNCHANGED <<build, queueVars, ag, seen, owners, cancelled, cb>>

\* The webhook is best effort: Cancel returns success whatever it does.
CancelReturn ==
    /\ cpc = "webhook"
    /\ CancelReturns
    /\ UNCHANGED <<vars, ag, seen, owners, cancelled, cb>>

(* An agent process dies while it holds a stage and restarts with nothing: *)
(* its Request, Accept or the stage it runs are forgotten, and nothing on *)
(* the server side learns of it.  A crash is the environment's, never     *)
(* forced by fairness.                                                     *)
AgentCrash(w) ==
    /\ rpc[w] = "got"
    /\ ag[w] \in CrashPhases
    /\ crashes < MaxCrashes
    /\ crashes' = crashes + 1
    /\ ag' = [ag EXCEPT ![w] = "idle"]
    /\ AgentReturns(w)
    /\ UNCHANGED <<storeVars, ready, paused, locked, workers, dpc, items,
                   idx, target, adm, pass, owners, cancelled, cpc, cb,
                   csnap, clist, cidx>>

-----------------------------------------------------------------------------
(* Builds just created: every stage pending and unassigned.                *)
ManagerInit ==
    /\ stage = [s \in StageIds |-> NoRow]
    /\ build = [b \in BuildIds |-> [status |-> "pending", started |-> FALSE]]
    /\ QueueInit
    /\ ag = [w \in Workers |-> "idle"]
    /\ seen = [w \in Workers |-> NoRow]
    /\ owners = [s \in StageIds |-> {}]
    /\ cancelled = {}
    /\ cpc = "idle"
    /\ cb = CHOOSE b \in BuildIds : TRUE
    /\ csnap = NoBuild
    /\ clist = <<>>
    /\ cidx = 1
    /\ crashes = 0

Agent(w) ==
    AcceptFind(w) \/ AcceptUpdate(w) \/ BeforeAll(w) \/ Watch(w)
    \/ AfterAll(w)

User ==
    \/ \E b \in BuildIds : CancelFind(b)
    \/ CancelBuild \/ CancelSignal \/ CancelStatus \/ CancelList
    \/ CancelStage \/ CancelReturn

\* A step of the queue leaves the manager's variables alone; only a crash
\* counts a crash.
Q(A) == A /\ UNCHANGED <<managerVars, crashes>>
Run(w) == Agent(w) /\ UNCHANGED crashes
Cancelling == User /\ UNCHANGED crashes

ManagerNext ==
    \/ Q(Dispatcher) \/ \E w \in Workers : Q(Caller(w))
    \/ Cancelling \/ \E w \in Workers : Run(w) \/ AgentCrash(w)

(* Agents and the dispatch goroutine run until they are done; the user    *)
(* need not cancel anything.                                               *)
ManagerFairness ==
    /\ WF_allVars(Q(Dispatcher))
    /\ SF_allVars(Q(List))
    /\ \A w \in Workers : /\ SF_allVars(Q(RequestRegister(w)))
                          /\ WF_allVars(Q(RequestNotify(w)))
                          /\ WF_allVars(Run(w))

ManagerSpec == ManagerInit /\ [][ManagerNext]_allVars /\ ManagerFairness

-----------------------------------------------------------------------------
ManagerTypeOK ==
    /\ TypeOK
    /\ build \in [BuildIds -> [status : BuildStatus, started : BOOLEAN]]
    /\ ag \in [Workers -> {"idle", "accept", "accepted", "running",
                           "stopping"}]
    /\ owners \in [StageIds -> SUBSET Workers]
    /\ cancelled \subseteq BuildIds
    /\ cpc \in {"idle", "check", "signal", "status", "list", "stages",
                "webhook"}
    /\ cb \in BuildIds
    /\ crashes \in 0..MaxCrashes

\* A stage an agent has claimed and not finished.
Active(s) == stage[s].machine # "" /\ stage[s].status \in Incomplete

(* Spec 8: of all the agents that are handed the same stage, at most one  *)
(* Accept ever succeeds: Accept's machine check and the store's optimistic *)
(* version check together linearise agents that may race or come late.    *)
AcceptExclusive == \A s \in StageIds : Cardinality(owners[s]) <= 1

(* Spec 3: at most `limit` stages of one repository and name are claimed  *)
(* and unfinished at once.  withinLimits judges this on a listing that may *)
(* be stale by the time the agent accepts.                                 *)
ConcurrencyLimit ==
    \A s \in StageIds :
        Pipeline[s].limit > 0 =>
            Cardinality({t \in StageIds : /\ Pipeline[t].repo = Pipeline[s].repo
                                          /\ Pipeline[t].name = Pipeline[s].name
                                          /\ Active(t)})
            <= Pipeline[s].limit

(* Spec 3: stages of two different master builds of one repository never *)
(* run side by side (withinBranchLimits lets only the oldest build go).   *)
MasterSerial ==
    \A s, t \in StageIds :
        /\ Active(s) /\ Active(t)
        /\ Pipeline[s].repo = Pipeline[t].repo
        /\ Source[Pipeline[s].build] = "master"
        /\ Source[Pipeline[t].build] = "master"
        => Pipeline[s].build = Pipeline[t].build

(* Every build eventually finishes: no stage is left undispatched, however *)
(* the concurrency and branch rules hold stages back.                      *)
AllBuildsFinish == <>(\A b \in BuildIds : build[b].status \in Done)

(* Spec 2, 5: a cancelled build settles.  Cancel's stage updates can lose *)
(* the optimistic race against an agent, and an agent may accept a stage  *)
(* after Cancel passed it; still, once Scheduler.Cancel was called, every *)
(* stage of the build ends terminal and stays so: the agents learn of the *)
(* cancellation through Watch and AfterAll finishes what they hold.       *)
CancelledBuildsSettle ==
    \A b \in BuildIds :
        b \in cancelled ~> [](\A s \in StagesOf(b) : stage[s].status \in Done)

(* Spec 3: a stage's status moves only forward; once terminal it stays     *)
(* terminal, whatever the agents and a concurrent Cancel do.               *)
StageMonotonic ==
    [][\A s \in StageIds : stage[s].status \in Done
                           => stage'[s].status \in Done]_stage

(* Spec 3 and 7: a terminal build keeps its status, and Cancel of a        *)
(* completed build writes nothing.  Manager.Cancel checks the build row    *)
(* HandleCancel read before it (cancel.go:70) and then writes that row     *)
(* back killed, whatever the store holds now.                              *)
BuildTerminalStable ==
    [][\A b \in BuildIds : build[b].status \in Done
                           => build'[b].status = build[b].status]_build

(* Spec 6, 8: once an agent's Accept is stored, the stage keeps that      *)
(* machine.  Cancel's stage loop writes back the whole row ListSteps      *)
(* returned, machine included; only the optimistic version check keeps   *)
(* it from erasing a claim an agent stored after the listing, which would *)
(* leave a running agent on a stage that names no machine.                *)
MachineStable ==
    [][\A s \in StageIds : stage[s].machine # ""
                           => stage'[s].machine = stage[s].machine]_stage
=============================================================================
