----------------------------- MODULE MCManager -----------------------------
(* One repository, three builds with one stage each, limited to one at a  *)
(* time per name: builds 1 and 2 are for master, build 3 for a feature    *)
(* branch; builds 1 and 3 run a "build" stage, build 2 a "deploy" stage,  *)
(* so that only the branch rule keeps builds 1 and 2 apart.  Two amd64    *)
(* agents poll for work.                                                   *)
EXTENDS Manager

CONSTANTS w1, w2

NoLabels == [k \in {} |-> ""]
Amd64(b) == [build |-> b, repo |-> "r",
             name |-> IF b = 2 THEN "deploy" ELSE "build", limit |-> 1,
             os |-> "linux", arch |-> "amd64", variant |-> "", kernel |-> "",
             labels |-> NoLabels]

MCWorkers  == {w1, w2}
MCOneWorker == {w1}
MCStageIds == {1, 2, 3}
MCBuildIds == {1, 2, 3}
MCSource   == 1 :> "master" @@ 2 :> "master" @@ 3 :> "feature"
MCPipeline == [s \in MCStageIds |-> Amd64(s)]

\* For the dispatch run: build 1 also has an unlimited "test" stage, stage 4,
\* so that a build ends only with its last stage and a second stage of a
\* running master build is dispatched beside the waiting master build 2.
MCMultiStageIds == MCStageIds \cup {4}
MCMultiPipeline == MCPipeline @@ 4 :> [Amd64(1) EXCEPT !.name = "test",
                                                       !.limit = 0]
MCFilter   == [w \in MCWorkers |->
                 [os |-> "linux", arch |-> "amd64", variant |-> "",
                  kernel |-> "", labels |-> NoLabels]]

\* For the cancellation runs: the master build 1 and the feature build 3.
MCCancelIds      == {1, 3}
MCCancelSource   == [b \in MCCancelIds |-> MCSource[b]]
MCCancelPipeline == [s \in MCCancelIds |-> Amd64(s)]
=============================================================================
