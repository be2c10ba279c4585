------------------------------ MODULE MCQueue ------------------------------
(* Two master builds of one repository.  Build 1 has a "build" stage       *)
(* limited to one at a time and an arm64/v8 "test" stage; build 2 has a    *)
(* "build" stage that needs a gpu label.  Four agents poll: two plain     *)
(* amd64 ones (which compete for a stage), an arm64/v8 one and an amd64  *)
(* one with the gpu label.                                                 *)
EXTENDS Queue

CONSTANTS w1, w2, w3, w4

NoLabels == [k \in {} |-> ""]
Gpu      == "gpu" :> "yes"

MCWorkers  == {w1, w2, w3, w4}
MCStageIds == {1, 2, 3}
MCBuildIds == {1, 2}
MCSource   == [b \in MCBuildIds |-> "master"]
MCPipeline ==
    1 :> [build |-> 1, repo |-> "r", name |-> "build", limit |-> 1,
          os |-> "linux", arch |-> "amd64", variant |-> "", kernel |-> "",
          labels |-> NoLabels]
 @@ 2 :> [build |-> 1, repo |-> "r", name |-> "test", limit |-> 0,
          os |-> "linux", arch |-> "arm64", variant |-> "v8", kernel |-> "",
          labels |-> NoLabels]
 @@ 3 :> [build |-> 2, repo |-> "r", name |-> "build", limit |-> 1,
          os |-> "linux", arch |-> "amd64", variant |-> "", kernel |-> "",
          labels |-> Gpu]
MCFilter ==
    w1 :> [os |-> "linux", arch |-> "amd64", variant |-> "", kernel |-> "1803",
           labels |-> NoLabels]
 @@ w2 :> [os |-> "linux", arch |-> "arm64", variant |-> "v8", kernel |-> "",
           labels |-> NoLabels]
 @@ w3 :> [os |-> "linux", arch |-> "amd64", variant |-> "", kernel |-> "",
           labels |-> Gpu]
 @@ w4 :> [os |-> "linux", arch |-> "amd64", variant |-> "", kernel |-> "",
           labels |-> NoLabels]
=============================================================================
