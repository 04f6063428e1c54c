---------------------------- MODULE StreamLease ----------------------------
(***************************************************************************)
(* What the operator promises for a Pipeline that may run as a stream: its  *)
(* recorded placement is a lease on an instance.  A lease is taken only     *)
(* under the finalizer and never once deletion has been requested, it is    *)
(* frozen from then on, and it is given up only when the stream is gone -   *)
(* unless the status says that the pipeline is in trouble, or the stream    *)
(* moves inside its cluster.  StreamPlacement implements this.              *)
(*                                                                          *)
(* Pipelines are independent of each other, so a step is one for each of    *)
(* them.  Streams come and go as they please, for instances crash and a     *)
(* request that timed out may have been applied: runs is not the operator's *)
(* to decide.                                                               *)
(***************************************************************************)
CONSTANTS
  Pipelines,
  Instances,  \* pairs <<cluster, ordinal>>
  None        \* no instance

VARIABLES
  life,     \* life[p]: "absent", "live" or "deleting"
  guarded,  \* guarded[p]: the finalizer is on the object
  at,       \* at[p]: the recorded placement
  trouble,  \* trouble[p]: the recorded phase is Failed or Pending
  runs      \* runs[p]: the instances that have a stream of this name

lease == <<life, guarded, at, trouble, runs>>

StreamGone(p) == at[p] = None \/ at[p] \notin runs[p]

Init ==
  /\ life = [p \in Pipelines |-> "absent"]
  /\ guarded = [p \in Pipelines |-> FALSE]
  /\ at = [p \in Pipelines |-> None]
  /\ trouble = [p \in Pipelines |-> FALSE]
  /\ runs = [p \in Pipelines |-> {}]

Create(p) ==
  /\ life[p] = "absent" /\ life'[p] = "live"
  /\ guarded'[p] = guarded[p] /\ at'[p] = at[p] /\ trouble'[p] = trouble[p]

Guard(p) ==
  /\ life[p] = "live" /\ guarded'[p]
  /\ life'[p] = life[p] /\ at'[p] = at[p] /\ trouble'[p] = trouble[p]

(* A first placement, a move inside the cluster, or one to another cluster   *)
(* that has left nothing behind.                                            *)
Place(p) ==
  /\ life[p] = "live" /\ guarded[p]
  /\ at'[p] \in Instances
  /\ StreamGone(p) \/ at[p][1] = at'[p][1]
  /\ life'[p] = life[p] /\ guarded'[p] = guarded[p] /\ ~trouble'[p]

(* Stopped, or to run in a pod instead. *)
Vacate(p) ==
  /\ life[p] = "live" /\ StreamGone(p)
  /\ at'[p] = None
  /\ life'[p] = life[p] /\ guarded'[p] = guarded[p]

(* Failed or Pending: the stream may stay behind. *)
Abandon(p) ==
  /\ life[p] = "live"
  /\ at'[p] = None /\ trouble'[p]
  /\ life'[p] = life[p] /\ guarded'[p] = guarded[p]

(* A user deletes the object, which its finalizer holds. *)
Delete(p) ==
  /\ life[p] = "live" /\ guarded[p]
  /\ life'[p] = "deleting"
  /\ guarded'[p] = guarded[p] /\ at'[p] = at[p] /\ trouble'[p] = trouble[p]

(* The object goes: it never had a finalizer, or its stream is gone. *)
Vanish(p) ==
  /\ \/ life[p] = "live" /\ ~guarded[p] /\ at[p] = None
     \/ life[p] = "deleting" /\ StreamGone(p)
  /\ life'[p] = "absent" /\ ~guarded'[p] /\ at'[p] = None /\ ~trouble'[p]

Rest(p) ==
  /\ life'[p] = life[p] /\ guarded'[p] = guarded[p]
  /\ at'[p] = at[p] /\ trouble'[p] = trouble[p]

Step(p) ==
  \/ Create(p) \/ Guard(p) \/ Place(p) \/ Vacate(p) \/ Abandon(p)
  \/ Delete(p) \/ Vanish(p) \/ Rest(p)

Next == \A p \in Pipelines : Step(p) /\ runs'[p] \subseteq Instances

Spec == Init /\ [][Next]_lease

=============================================================================
