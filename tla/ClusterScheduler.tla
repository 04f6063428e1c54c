-------------------------- MODULE ClusterScheduler --------------------------
(***************************************************************************)
(* What the placement functions of internal/controller/cluster_scheduler.go *)
(* compute: which instance of a cluster a pipeline's stream goes to.  An    *)
(* instance is named by its StatefulSet ordinal, a natural number.          *)
(*                                                                          *)
(* leastLoadedInstance is a loop over the sorted ready ordinals.  Here it   *)
(* is the condition its result meets; module LeastLoadedScan is the loop    *)
(* itself, shown to stop at the one ordinal that meets it.                  *)
(***************************************************************************)
EXTENDS Naturals

(* leastLoadedInstance returns a ready ordinal with the fewest placed        *)
(* pipelines, the lowest such ordinal on a tie.                              *)
IsLeastLoaded(o, readyOrdinals, load) ==
  /\ o \in readyOrdinals
  /\ \A other \in readyOrdinals : \/ load[o] < load[other]
                                  \/ load[o] = load[other] /\ o <= other

(* A slip: every reconcile places the pipeline anew. *)
PickInstanceNotSticky(current, readyOrdinals, load) ==
  {o \in readyOrdinals : IsLeastLoaded(o, readyOrdinals, load)}

(* pickInstance: the current ordinal while it is ready (sticky placement),   *)
(* else the least-loaded one.  Empty when no instance is ready.              *)
PickInstance(current, readyOrdinals, load) ==
  IF current \in readyOrdinals
  THEN {current}
  ELSE {o \in readyOrdinals : IsLeastLoaded(o, readyOrdinals, load)}

=============================================================================
