------------------------- MODULE MCPipelineCluster -------------------------
(***************************************************************************)
(* An instance of PipelineCluster: a rollout of one Connect instance.       *)
(***************************************************************************)
EXTENDS PipelineCluster

RolloutSpecs ==
  { [replicas |-> 1, image |-> "v1", jsonLogging |-> TRUE],
    [replicas |-> 1, image |-> "v2", jsonLogging |-> FALSE] }

=============================================================================
