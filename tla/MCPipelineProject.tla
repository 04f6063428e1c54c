------------------------- MODULE MCPipelineProject -------------------------
(***************************************************************************)
(* An instance of PipelineProject: a project with a route and a managed     *)
(* cache whose data goes with it, and edits of it that keep the data: one   *)
(* without routes, with a cache that the instance refuses, and one whose    *)
(* cache sets neither natsKV nor config.                                    *)
(***************************************************************************)
EXTENDS PipelineProject, TLC

Plain == [age |-> 0, bytes |-> 0, msgs |-> 0]
RouteEnds == "r1" :> {"from"}

Project(routes, caches, reclaim) ==
  [routes |-> routes, caches |-> caches, instances |-> 1, reclaim |-> reclaim, graph |-> TRUE,
   retention |-> [Plain EXCEPT !.age = 2]]

DropAll == { Project("r1" :> [Plain EXCEPT !.bytes = 5], "c1" :> "kv", "Delete") }

KeepOrDrop ==
  DropAll \cup { Project(Empty, "c2" :> "refused", "Retain"),
                 Project("r1" :> Plain, "c3" :> "empty", "Retain") }

=============================================================================
