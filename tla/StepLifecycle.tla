--------------------------- MODULE StepLifecycle ---------------------------
(***************************************************************************)
(* One stage of a build run step by step by the agent that accepted it:    *)
(* Manager.Before and Manager.After (src/unnamed/part_000) open and close *)
(* each step's live log stream around the updater, the agent polls Watch,  *)
(* and a user's Manager.Cancel walks the stage and its steps at the same  *)
(* time.                                                                   *)
(*                                                                         *)
(* The updater, teardown, the log stream and the step store are not under *)
(* src/; they follow spec 4.4, 4.3 and 6: a step Update is unconditional, *)
(* a stage Update is optimistic on the row's version.  The build row is   *)
(* read by Cancel when it runs (the earlier read of HandleCancel is the   *)
(* Manager module's concern).                                              *)
(***************************************************************************)
EXTENDS Naturals, Sequences, SequencesExt

CONSTANTS
    NSteps,         \* the stage's steps are 1..NSteps, run in order
    StoreFails,     \* whether a store write may return an error
    StreamFails,    \* whether a log-stream Create or Delete may fail
    UserCancels     \* whether the user cancels the build

StepIds == 1..NSteps
Done == {"passing", "failing", "killed", "skipped", "error"}

VARIABLES
    stg,        \* the stage row: [status, started, version]
    steps,      \* the step rows: [StepIds -> [status, started]]
    bstatus,    \* the build's status
    streams,    \* the steps with an open live log stream
    leaked,     \* history: steps whose stream Delete failed in After
    apc,        \* where the agent is: "before", "after", "teardown", "done"
    cur,        \* the step the agent is at
    stopping,   \* Watch told the agent the build was cancelled
    cancelled,  \* Scheduler.Cancel was called for the build
    cpc,        \* where Manager.Cancel is
    cstage,     \* the stage row Cancel listed (ListSteps)
    csteps,     \* the step rows embedded in it
    cidx        \* Cancel's position in csteps

agentVars == <<apc, cur, stopping, leaked>>
cancelVars == <<cpc, cstage, csteps, cidx>>
stepVars == <<stg, steps, bstatus, streams, cancelled, agentVars, cancelVars>>

\* The status the updater and teardown give a stage whose steps ended:
\* killed dominates failing, failing dominates passing (spec 4.4).
Aggregate(rows) ==
    IF \E r \in rows : r.status = "killed" THEN "killed"
    ELSE IF \E r \in rows : r.status \in {"failing", "error"} THEN "failing"
    ELSE "passing"

\* updater.do for a step the agent reports (spec 4.4): persist the step,
\* then, if every step is now terminal and the stage is not, end the stage
\* and its build.  A failed write leaves the rows as they were.
Updater(i, row) ==
    LET new == [steps EXCEPT ![i] = row]
        ends == /\ \A j \in StepIds : new[j].status \in Done
                /\ stg.status \notin Done
        res == Aggregate({new[j] : j \in StepIds})
    IN \/ /\ steps' = new
          /\ stg' = IF ends THEN [stg EXCEPT !.status = res,
                                             !.version = @ + 1]
                    ELSE stg
          /\ bstatus' = IF ends /\ bstatus \notin Done THEN res ELSE bstatus
       \/ /\ StoreFails
          /\ UNCHANGED <<steps, stg, bstatus>>

-----------------------------------------------------------------------------
(* Before: create the step's log stream, returning its error; then the    *)
(* updater marks the step running.  The agent runs the step either way.   *)
Before ==
    /\ apc = "before"
    /\ ~stopping
    /\ \/ /\ StreamFails
          /\ UNCHANGED <<streams, steps, stg, bstatus>>
       \/ /\ streams' = streams \cup {cur}
          /\ Updater(cur, [status |-> "running", started |-> TRUE])
    /\ apc' = "after"
    /\ UNCHANGED <<cur, stopping, leaked, cancelled, cancelVars>>

\* Mutant: After returns on an updater error before deleting the stream.
AfterShortCircuit ==
    /\ apc = "after"
    /\ \E result \in IF stopping THEN {"killed"} ELSE {"passing", "failing"} :
          LET row == [status |-> result, started |-> TRUE]
          IN \/ /\ steps' = [steps EXCEPT ![cur] = row]
                /\ Updater(cur, row)
                /\ streams' = streams \ {cur}
             \/ /\ StoreFails
                /\ UNCHANGED <<steps, stg, bstatus, streams>>
    /\ IF stopping \/ cur = NSteps
       THEN apc' = "teardown" /\ UNCHANGED cur
       ELSE apc' = "before" /\ cur' = cur + 1
    /\ UNCHANGED <<stopping, leaked, cancelled, cancelVars>>

\* Mutant: an off-by-one in the test for the last step.
AfterPastLastStep ==
    /\ apc = "after"
    /\ \E result \in IF stopping THEN {"killed"} ELSE {"passing", "failing"} :
          Updater(cur, [status |-> result, started |-> TRUE])
    /\ \/ /\ streams' = streams \ {cur}
          /\ UNCHANGED leaked
       \/ /\ StreamFails
          /\ leaked' = leaked \cup {cur}
          /\ UNCHANGED streams
    /\ IF stopping \/ cur > NSteps
       THEN apc' = "teardown" /\ UNCHANGED cur
       ELSE apc' = "before" /\ cur' = cur + 1
    /\ UNCHANGED <<stopping, cancelled, cancelVars>>

(* After: the updater persists the step's result; whatever it returned,   *)
(* the log stream is deleted, and a Delete error is only logged.  The     *)
(* agent reports a step it stopped as killed and stops after it.          *)
After ==
    /\ apc = "after"
    /\ \E result \in IF stopping THEN {"killed"} ELSE {"passing", "failing"} :
          Updater(cur, [status |-> result, started |-> TRUE])
    /\ \/ /\ streams' = streams \ {cur}
          /\ UNCHANGED leaked
       \/ /\ StreamFails
          /\ leaked' = leaked \cup {cur}
          /\ UNCHANGED streams
    /\ IF stopping \/ cur = NSteps
       THEN apc' = "teardown" /\ UNCHANGED cur
       ELSE apc' = "before" /\ cur' = cur + 1
    /\ UNCHANGED <<stopping, cancelled, cancelVars>>

\* Watch returns TRUE once Scheduler.Cancel was called for the build.
Watch ==
    /\ apc \in {"before", "after"}
    /\ cancelled
    /\ ~stopping
    /\ stopping' = TRUE
    /\ UNCHANGED <<stg, steps, bstatus, streams, cancelled, apc, cur, leaked,
                   cancelVars>>

\* A stopped agent runs no further step.
Stop ==
    /\ apc = "before"
    /\ stopping
    /\ apc' = "teardown"
    /\ UNCHANGED <<stg, steps, bstatus, streams, cancelled, cur, stopping,
                   leaked, cancelVars>>

\* The streams whose Delete may fail in teardown.
TeardownFailures == IF StreamFails THEN SUBSET streams ELSE {{}}

(* AfterAll (teardown, spec 4.3): persist the final stage status unless   *)
(* the stage is already terminal, end the build, delete the remaining log *)
(* streams of all the stage's steps; each Delete is best effort (spec 7)  *)
(* and a stream whose Delete fails stays live.                            *)
AfterAll ==
    /\ apc = "teardown"
    /\ LET res == IF stopping THEN "killed"
                  ELSE Aggregate({steps[j] : j \in StepIds})
       IN /\ stg' = IF stg.status \in Done THEN stg
                    ELSE [stg EXCEPT !.status = res, !.version = @ + 1]
          /\ bstatus' = IF bstatus \in Done THEN bstatus ELSE res
    /\ \E failed \in TeardownFailures : streams' = failed
    /\ apc' = "done"
    /\ UNCHANGED <<steps, cancelled, cur, stopping, leaked, cancelVars>>

-----------------------------------------------------------------------------
\* Cancel returns, with an error or not; its locals are gone.
CancelReturns ==
    /\ cpc' = "done"
    /\ UNCHANGED <<cstage, csteps, cidx>>

(* Cancel: refuse a completed build; else persist it killed.               *)
CancelBuild ==
    /\ UserCancels
    /\ cpc = "idle"
    /\ \/ /\ bstatus \in {"pending", "running"}
          /\ bstatus' = "killed"
          /\ cpc' = "signal"
          /\ UNCHANGED <<cstage, csteps, cidx>>
       \/ /\ bstatus \notin {"pending", "running"} \/ StoreFails
          /\ CancelReturns
          /\ UNCHANGED bstatus
    /\ UNCHANGED <<stg, steps, streams, cancelled, agentVars>>

\* Scheduler.Cancel, then the SCM status send (which may fail).
CancelSignal ==
    /\ cpc = "signal"
    /\ cancelled' = TRUE
    /\ \/ cpc' = "list" /\ UNCHANGED <<cstage, csteps, cidx>>
       \/ StoreFails /\ CancelReturns
    /\ UNCHANGED <<stg, steps, bstatus, streams, agentVars>>

\* ListSteps: the stage row with its steps embedded.
CancelList ==
    /\ cpc = "list"
    /\ \/ /\ cstage' = stg
          /\ csteps' = steps
          /\ cpc' = "stage"
          /\ UNCHANGED cidx
       \/ StoreFails /\ CancelReturns
    /\ UNCHANGED <<stg, steps, bstatus, streams, cancelled, agentVars>>

(* The stage loop body: skip a terminal stage; else write it killed (if   *)
(* started) or skipped, optimistically on the listed version, and return  *)
(* on an error.                                                            *)
CancelStage ==
    /\ cpc = "stage"
    /\ \/ /\ cstage.status \in Done
          /\ cpc' = "webhook"
          /\ UNCHANGED <<stg, cidx>>
       \/ /\ cstage.status \notin Done
          /\ cstage.version = stg.version
          /\ stg' = [cstage EXCEPT !.status = IF cstage.started THEN "killed"
                                              ELSE "skipped",
                                   !.started = TRUE, !.version = @ + 1]
          /\ cpc' = "steps"
          /\ cidx' = 1
       \/ /\ cstage.status \notin Done
          /\ cstage.version # stg.version \/ StoreFails
          /\ CancelReturns
          /\ UNCHANGED stg
    /\ UNCHANGED <<steps, bstatus, streams, cancelled, cstage, csteps,
                   agentVars>>

(* The step loop body: skip a terminal step (as listed); else write the   *)
(* listed step killed (if started) or skipped with exit code 130, by an   *)
(* unconditional Steps.Update, and return on an error.                     *)
CancelStep ==
    /\ cpc = "steps"
    /\ \/ /\ cidx > NSteps
          /\ cpc' = "webhook"
          /\ UNCHANGED <<steps, cidx>>
       \/ /\ cidx <= NSteps
          /\ csteps[cidx].status \in Done
          /\ cidx' = cidx + 1
          /\ UNCHANGED <<steps, cpc>>
       \/ /\ cidx <= NSteps
          /\ csteps[cidx].status \notin Done
          /\ steps' = [steps EXCEPT ![cidx] =
                         [status |-> IF csteps[cidx].started THEN "killed"
                                     ELSE "skipped",
                          started |-> TRUE]]
          /\ cidx' = cidx + 1
          /\ UNCHANGED cpc
       \/ /\ cidx <= NSteps
          /\ csteps[cidx].status \notin Done
          /\ StoreFails
          /\ CancelReturns
          /\ UNCHANGED steps
    /\ UNCHANGED <<stg, bstatus, streams, cancelled, cstage, csteps,
                   agentVars>>

\* The global webhook is best effort; Cancel returns nil.
CancelReturn ==
    /\ cpc = "webhook"
    /\ CancelReturns
    /\ UNCHANGED <<stg, steps, bstatus, streams, cancelled, agentVars>>

-----------------------------------------------------------------------------
NoStepRow == [status |-> "pending", started |-> FALSE]

(* The agent has accepted the stage and BeforeAll has run: stage and build *)
(* are running, no step has started.                                       *)
StepInit ==
    /\ stg = [status |-> "running", started |-> TRUE, version |-> 2]
    /\ steps = [i \in StepIds |-> NoStepRow]
    /\ bstatus = "running"
    /\ streams = {}
    /\ leaked = {}
    /\ apc = "before"
    /\ cur = 1
    /\ stopping = FALSE
    /\ cancelled = FALSE
    /\ cpc = "idle"
    /\ cstage = stg
    /\ csteps = steps
    /\ cidx = 1

Agent == Before \/ After \/ Watch \/ Stop \/ AfterAll

Cancel == CancelSignal \/ CancelList \/ CancelStage \/ CancelStep
          \/ CancelReturn

\* When everything has ended nothing is left to do.
Finished == apc = "done" /\ cpc \in {"idle", "done"} /\ UNCHANGED stepVars

StepNext == Agent \/ CancelBuild \/ Cancel \/ Finished

(* The agent runs its stage to the end, and a cancel request, once the    *)
(* handler runs, runs to its return; whether the user cancels at all is   *)
(* the user's.                                                             *)
StepSpec == StepInit /\ [][StepNext]_stepVars
            /\ WF_stepVars(Agent) /\ WF_stepVars(Cancel)

-----------------------------------------------------------------------------
StepTypeOK ==
    /\ stg \in [status : {"running"} \cup Done, started : BOOLEAN,
                version : Nat]
    /\ steps \in [StepIds -> [status : {"pending", "running"} \cup Done,
                              started : BOOLEAN]]
    /\ bstatus \in {"running"} \cup Done
    /\ streams \subseteq StepIds /\ leaked \subseteq StepIds
    /\ apc \in {"before", "after", "teardown", "done"}
    /\ cur \in StepIds
    /\ cpc \in {"idle", "signal", "list", "stage", "steps", "webhook", "done"}
    /\ cidx \in 1..NSteps + 1

(* After attempts both of its parts (spec 4.6, 7): a step the agent has   *)
(* moved past has no live log stream left, unless its Delete failed, even *)
(* when the updater returned an error first.                               *)
StreamClosedAfterStep ==
    apc \in {"before", "after"} =>
        \A j \in 1..cur - 1 : j \notin streams \/ j \in leaked

(* Spec 3, 8: a cancelled build's stage and every one of its steps end    *)
(* terminal and stay so (a stage is terminal iff all its steps are): the  *)
(* agent stops after Watch, and Cancel is to skip the steps it never ran. *)
(* Cancel returns at its first failed stage Update, before the steps.     *)
StepsSettle ==
    <>[](stg.status \in Done /\ \A i \in StepIds : steps[i].status \in Done)

(* Spec 3, 8: a terminal step keeps its status; Cancel leaves previously  *)
(* terminal steps unchanged.  Cancel writes back the step rows it listed *)
(* with an unconditional Steps.Update, and the agent's updater writes its *)
(* own copy the same way.                                                  *)
StepMonotonic ==
    [][\A i \in StepIds : steps[i].status \in Done
                          => steps'[i].status = steps[i].status]_steps
=============================================================================
