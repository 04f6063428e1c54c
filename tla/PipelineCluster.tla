-------------------------- MODULE PipelineCluster --------------------------
(***************************************************************************)
(* The PipelineCluster controller (internal/controller/                     *)
(* pipelinecluster_controller.go, pipelinecluster_resources.go): one        *)
(* reconcile applies four children in order, a ConfigMap, a Service, a      *)
(* StatefulSet and a PodMonitor, each by CreateOrUpdate against a cached    *)
(* copy, and then reports the StatefulSet's ready replicas in the cluster's *)
(* status.  Users edit, delete and recreate the cluster, somebody changes   *)
(* or deletes a child, the API server fails, the operator restarts, and     *)
(* caches lag, between any two of these steps.                              *)
(*                                                                          *)
(* Kubernetes is external: the informer caches and the work queue, the      *)
(* garbage collector, and the StatefulSet controller that runs the pods.    *)
(***************************************************************************)
EXTENDS Naturals, FiniteSets

CONSTANTS
  Specs,          \* the specs users write: [replicas, image, jsonLogging]
  Monitoring,     \* whether the PodMonitor CRD is installed
  MaxInstances,   \* bound on replicas
  MaxEvents       \* bound on user writes, drift, failed calls, crashes and restarts

ASSUME BoundsAreNaturals == MaxEvents \in Nat /\ MaxInstances \in Nat
ASSUME MonitoringIsBoolean == Monitoring \in BOOLEAN
ASSUME SpecsAreTyped ==
  /\ Specs # {}
  /\ \A s \in Specs : s.replicas \in 1 .. MaxInstances /\ s.jsonLogging \in BOOLEAN

VARIABLES
  obj,         \* the PipelineCluster: [uid, gen, spec, status], uid 0 when absent
  child,       \* per kind the child: [owner, val], owner 0 when absent
  objSeen, objSynced,   \* cached copy of obj, and whether it is current
  seen, synced,         \* the same per child
  queued,      \* the work queue holds the cluster
  pc,          \* the step of the reconcile in progress
  snap,        \* its local copy of the cluster
  fresh,       \* history: nobody wrote the cluster since the copy was current
  ready,       \* its local variable of the same name
  pods,        \* per ordinal the instance: [up, image]
  events       \* how many of those there were

vars == <<obj, child, objSeen, objSynced, seen, synced, queued, pc, snap, fresh,
          ready, pods, events>>
kubeVars == <<objSeen, objSynced, seen, synced>>
workerVars == <<pc, snap, fresh, ready>>

Kinds == {"cm", "svc", "ss", "pm"}
Steps == Kinds \cup {"status"}
Ordinals == 0 .. MaxInstances - 1

Following(k) ==
  CASE k = "cm" -> "svc" [] k = "svc" -> "ss" [] k = "ss" -> "pm" [] k = "pm" -> "status"

(* The steps already behind the reconcile at step p. *)
Behind(p) ==
  CASE p = "svc" -> {"cm"} [] p = "ss" -> {"cm", "svc"} [] p = "pm" -> {"cm", "svc", "ss"}
    [] p = "status" -> Kinds [] OTHER -> {}

(* The zero value of a child, which CreateOrUpdate fills in and creates. *)
Zero(k) ==
  CASE k = "cm" -> [jsonLogging |-> FALSE]
    [] k = "svc" -> [selector |-> "", publishNotReady |-> FALSE]
    [] k = "ss" -> [replicas |-> 0, image |-> "", ready |-> 0]
    [] k = "pm" -> [selector |-> ""]
Absent(k) == [owner |-> 0, val |-> Zero(k)]
Down == [image |-> "", up |-> FALSE]
NoStatus == [ready |-> 0, phase |-> "", desired |-> 0, observed |-> 0]
NoCluster == [uid |-> 0, gen |-> 0, spec |-> CHOOSE s \in Specs : TRUE, status |-> NoStatus]

(* The mutate function of each CreateOrUpdate, on the cached object or the   *)
(* zero one: the ConfigMap's data; of the built Service only its cluster IP, *)
(* selector and ports; the StatefulSet's replicas and template, not its     *)
(* status; the PodMonitor's spec.                                           *)
Built(k, old, spec) ==
  CASE k = "cm" -> [jsonLogging |-> spec.jsonLogging]
    [] k = "ss" -> [old EXCEPT !.replicas = spec.replicas, !.image = spec.image]
    [] OTHER -> [old EXCEPT !.selector = "cluster"]

(* What somebody else may turn a child into. *)
Drifted(k, old) ==
  CASE k = "cm" -> [jsonLogging |-> ~old.jsonLogging]
    [] k = "ss" -> [old EXCEPT !.replicas = 0]
    [] OTHER -> [old EXCEPT !.selector = "other"]

(* A slip: Ready as soon as instances are asked for. *)
PhaseUncounted(n, desired) ==
  IF desired > 0 THEN "Ready" ELSE "Pending"

Phase(n, desired) ==
  IF n >= desired /\ desired > 0 THEN "Ready" ELSE IF n > 0 THEN "Degraded" ELSE "Pending"

(* The status a reconcile of c that saw n ready replicas writes; the Ready   *)
(* condition is a function of the phase and the two counts.                 *)
Report(c, n) ==
  [phase |-> Phase(n, c.spec.replicas), ready |-> n, desired |-> c.spec.replicas,
   observed |-> c.gen]

Init ==
  /\ \E s \in Specs : obj = [uid |-> 1, gen |-> 1, spec |-> s, status |-> NoStatus]
  /\ child = [k \in Kinds |-> Absent(k)]
  /\ objSeen = NoCluster /\ objSynced = FALSE
  /\ seen = [k \in Kinds |-> Absent(k)] /\ synced = [k \in Kinds |-> TRUE]
  /\ queued = FALSE
  /\ pc = "idle" /\ snap = NoCluster /\ fresh = FALSE /\ ready = 0
  /\ pods = [o \in Ordinals |-> Down]
  /\ events = 0

(* A reconcile starts from the cached cluster; a deleted one is ignored. *)
Reconcile ==
  /\ pc = "idle" /\ queued
  /\ queued' = FALSE
  /\ IF objSeen.uid = 0 THEN UNCHANGED workerVars
     ELSE /\ snap' = objSeen /\ fresh' = objSynced
          /\ pc' = "cm"
          /\ UNCHANGED ready
  /\ UNCHANGED <<obj, child, kubeVars, pods, events>>

(* The reconcile returns; its local variables are gone. *)
Return == pc' = "idle" /\ snap' = NoCluster /\ fresh' = FALSE /\ ready' = 0

(* return err, and Requeue: the queue takes the cluster back. *)
ReturnRetry == Return /\ queued' = TRUE

SetChild(k, c) ==
  /\ child' = [child EXCEPT ![k] = c]
  /\ synced' = [synced EXCEPT ![k] = FALSE]
  /\ UNCHANGED <<objSeen, objSynced, seen>>

Proceed(k, val) ==
  /\ pc' = Following(k)
  /\ ready' = IF k = "ss" THEN val.ready ELSE ready
  /\ UNCHANGED <<snap, fresh, queued>>

Unwatched(k) == k = "pm" /\ ~Monitoring

(* CreateOrUpdate finds no child in the cache: create it, which fails when   *)
(* there is one after all.                                                  *)
Create(k) ==
  /\ pc = k /\ ~Unwatched(k)
  /\ seen[k].owner = 0
  /\ LET new == [owner |-> snap.uid, val |-> Built(k, Zero(k), snap.spec)]
     IN  IF child[k].owner = 0
         THEN SetChild(k, new) /\ Proceed(k, new.val)
         ELSE ReturnRetry /\ UNCHANGED <<child, kubeVars>>
  /\ UNCHANGED <<obj, pods, events>>

(* It finds the child as it should be: nothing is sent. *)
Keep(k) ==
  /\ pc = k /\ ~Unwatched(k)
  /\ seen[k].owner = snap.uid
  /\ Built(k, seen[k].val, snap.spec) = seen[k].val
  /\ Proceed(k, seen[k].val)
  /\ UNCHANGED <<obj, child, kubeVars, pods, events>>

(* It finds a child that differs: update it, a conflict when the cached copy *)
(* is old.  SetControllerReference fails on a child of an earlier cluster   *)
(* of the same name that is not collected yet.                              *)
Update(k) ==
  /\ pc = k /\ ~Unwatched(k)
  /\ seen[k].owner # 0
  /\ seen[k].owner = snap.uid => Built(k, seen[k].val, snap.spec) # seen[k].val
  /\ LET new == [owner |-> snap.uid, val |-> Built(k, seen[k].val, snap.spec)]
     IN  IF seen[k].owner = snap.uid /\ synced[k]
         THEN SetChild(k, new) /\ Proceed(k, new.val)
         ELSE ReturnRetry /\ UNCHANGED <<child, kubeVars>>
  /\ UNCHANGED <<obj, pods, events>>

(* A slip: the no-match error is returned. *)
SkipPodMonitorFails ==
  /\ pc = "pm" /\ Unwatched("pm")
  /\ ReturnRetry
  /\ UNCHANGED <<obj, child, kubeVars, pods, events>>

(* No PodMonitor CRD: a no-match error is only logged. *)
SkipPodMonitor ==
  /\ pc = "pm" /\ Unwatched("pm")
  /\ Proceed("pm", Zero("pm"))
  /\ UNCHANGED <<obj, child, kubeVars, pods, events>>

(* Any call to the API server may fail. *)
CallFails ==
  /\ pc \in Steps /\ events < MaxEvents
  /\ events' = events + 1
  /\ ReturnRetry
  /\ UNCHANGED <<obj, child, kubeVars, pods>>

(* The status is written when it changed; a conflict requeues. *)
WriteStatus ==
  /\ pc = "status"
  /\ LET status == Report(snap, ready)
     IN  CASE status = snap.status ->
                Return /\ UNCHANGED <<obj, kubeVars, queued>>
           [] status # snap.status /\ fresh ->
                /\ obj' = [snap EXCEPT !.status = status]
                /\ objSynced' = FALSE
                /\ Return
                /\ UNCHANGED <<objSeen, seen, synced, queued>>
           [] OTHER -> ReturnRetry /\ UNCHANGED <<obj, kubeVars>>
  /\ UNCHANGED <<child, pods, events>>

Worker ==
  \/ Reconcile \/ SkipPodMonitor \/ WriteStatus
  \/ \E k \in Kinds : Create(k) \/ Keep(k) \/ Update(k)

(* The watch of For(&PipelineCluster{}): the cache catches up, the key is    *)
(* queued.                                                                  *)
ObjEvent ==
  /\ ~objSynced
  /\ objSeen' = obj /\ objSynced' = TRUE /\ queued' = TRUE
  /\ UNCHANGED <<obj, child, seen, synced, workerVars, pods, events>>

(* A slip: a child that is deleted is not watched. *)
ChildEventIgnoresDelete(k) ==
  /\ ~synced[k]
  /\ seen' = [seen EXCEPT ![k] = child[k]]
  /\ synced' = [synced EXCEPT ![k] = TRUE]
  /\ queued' = (queued \/ child[k].owner # 0)
  /\ UNCHANGED <<obj, child, objSeen, objSynced, workerVars, pods, events>>

(* The watches of Owns(...): the same for a child. *)
ChildEvent(k) ==
  /\ ~synced[k]
  /\ seen' = [seen EXCEPT ![k] = child[k]]
  /\ synced' = [synced EXCEPT ![k] = TRUE]
  /\ queued' = TRUE
  /\ UNCHANGED <<obj, child, objSeen, objSynced, workerVars, pods, events>>

(* Children of a cluster that is gone are collected. *)
Collect(k) ==
  /\ child[k].owner # 0 /\ child[k].owner # obj.uid
  /\ SetChild(k, Absent(k))
  /\ UNCHANGED <<obj, queued, workerVars, pods, events>>

Write(new) ==
  /\ events < MaxEvents /\ events' = events + 1
  /\ obj' = new
  /\ objSynced' = FALSE /\ fresh' = FALSE
  /\ UNCHANGED <<child, objSeen, seen, synced, queued, pc, snap, ready, pods>>

(* A user changes the spec, deletes the cluster, or creates it again. *)
Edit == \E s \in Specs :
  /\ obj.uid # 0 /\ s # obj.spec
  /\ Write([obj EXCEPT !.spec = s, !.gen = @ + 1])

Delete == obj.uid # 0 /\ Write([NoCluster EXCEPT !.gen = obj.gen])

(* The generation restarts at 1; here it goes on, so that it also is the uid. *)
Recreate == \E s \in Specs :
  /\ obj.uid = 0
  /\ Write([uid |-> obj.gen + 1, gen |-> obj.gen + 1, spec |-> s, status |-> NoStatus])

(* Somebody changes or deletes a child. *)
Drift(k) ==
  /\ events < MaxEvents /\ events' = events + 1
  /\ child[k].owner # 0
  /\ \E c \in {Absent(k), [child[k] EXCEPT !.val = Drifted(k, @)]} : SetChild(k, c)
  /\ UNCHANGED <<obj, queued, workerVars, pods>>

(* The operator restarts: its caches are filled and every cluster queued. *)
Crash ==
  /\ events < MaxEvents /\ events' = events + 1
  /\ objSeen' = obj /\ objSynced' = TRUE
  /\ seen' = child /\ synced' = [k \in Kinds |-> TRUE]
  /\ ReturnRetry
  /\ UNCHANGED <<obj, child, pods>>

(* The StatefulSet controller and the kubelets. *)
PodStarts(o) ==
  /\ ~pods[o].up
  /\ child["ss"].owner # 0 /\ o < child["ss"].val.replicas
  /\ child["cm"].owner # 0
  /\ pods' = [pods EXCEPT ![o] = [up |-> TRUE, image |-> child["ss"].val.image]]
  /\ UNCHANGED <<obj, child, kubeVars, queued, workerVars, events>>

Surplus(o) ==
  pods[o].up /\ (\/ child["ss"].owner = 0
                 \/ o >= child["ss"].val.replicas
                 \/ pods[o].image # child["ss"].val.image)

PodStops(o) ==
  /\ pods[o].up
  /\ Surplus(o) \/ events < MaxEvents
  /\ events' = IF Surplus(o) THEN events ELSE events + 1
  /\ pods' = [pods EXCEPT ![o] = Down]
  /\ UNCHANGED <<obj, child, kubeVars, queued, workerVars>>

Up == Cardinality({o \in Ordinals : pods[o].up})

CountReady ==
  /\ child["ss"].owner # 0 /\ child["ss"].val.ready # Up
  /\ SetChild("ss", [child["ss"] EXCEPT !.val.ready = Up])
  /\ UNCHANGED <<obj, queued, workerVars, pods, events>>

Next ==
  \/ Worker \/ CallFails \/ ObjEvent \/ Edit \/ Delete \/ Recreate \/ Crash \/ CountReady
  \/ \E k \in Kinds : ChildEvent(k) \/ Collect(k) \/ Drift(k)
  \/ \E o \in Ordinals : PodStarts(o) \/ PodStops(o)

Safety == Init /\ [][Next]_vars

(* The watches of children, the garbage collector, the StatefulSet          *)
(* controller and the kubelets.                                             *)
Kubernetes ==
  \/ CountReady
  \/ \E k \in Kinds : ChildEvent(k) \/ Collect(k)
  \/ \E o \in Ordinals : PodStarts(o) \/ (Surplus(o) /\ PodStops(o))

(* The worker runs, watches deliver, and Kubernetes does its part. *)
Spec == Safety /\ WF_vars(Worker) /\ WF_vars(ObjEvent) /\ WF_vars(Kubernetes)

Clusters ==
  [uid : Nat, gen : Nat, spec : Specs,
   status : [phase : {"", "Pending", "Ready", "Degraded"}, ready : Nat, desired : Nat,
             observed : Nat]]

Images == {s.image : s \in Specs} \cup {""}
Selectors == {"", "cluster", "other"}

Values(k) ==
  CASE k = "cm" -> [jsonLogging : BOOLEAN]
    [] k = "svc" -> [selector : Selectors, publishNotReady : BOOLEAN]
    [] k = "ss" -> [replicas : Nat, image : Images, ready : Nat]
    [] k = "pm" -> [selector : Selectors]
Children(k) == [owner : Nat, val : Values(k)]
PerKind(f) == f = [k \in Kinds |-> f[k]] /\ \A k \in Kinds : f[k] \in Children(k)

(* The types, and what a recorded phase means: the counts next to it agree,  *)
(* and the generation it observed exists.                                   *)
TypeOK ==
  /\ obj \in Clusters /\ objSeen \in Clusters /\ snap \in Clusters
  /\ obj.status.observed <= obj.gen
  /\ obj.status.phase = "Ready" => obj.status.ready >= obj.status.desired
  /\ PerKind(child) /\ PerKind(seen)
  /\ objSynced \in BOOLEAN /\ synced \in [Kinds -> BOOLEAN]
  /\ queued \in BOOLEAN /\ pc \in Steps \cup {"idle"} /\ fresh \in BOOLEAN
  /\ ready \in Nat
  /\ pods \in [Ordinals -> [up : BOOLEAN, image : Images]]
  /\ events \in 0 .. MaxEvents

(* Nothing will make the controller run: no event under way, nothing queued. *)
Quiet == pc = "idle" /\ ~queued /\ objSynced /\ \A k \in Kinds : synced[k]

(* The child ch is owned by c and is what c asks for. *)
Applied(k, ch, c) ==
  \/ Unwatched(k)
  \/ /\ ch.owner = c.uid
     /\ k = "cm" => ch.val.jsonLogging = c.spec.jsonLogging
     /\ k = "ss" => ch.val.replicas = c.spec.replicas /\ ch.val.image = c.spec.image
     /\ k \in {"svc", "pm"} => ch.val.selector = "cluster"

(* Nothing in the cluster or its status is out of step with the other. *)
Consistent ==
  obj.uid # 0 => /\ \A k \in Kinds : Applied(k, child[k], obj)
                 /\ obj.status = Report(obj, child["ss"].val.ready)

(* No change is missed.  Whatever edits, drift, conflicts, failures, stale   *)
(* reads and restarts came before, a controller with nothing left to do has *)
(* applied every child of the current spec and reports its generation and   *)
(* the StatefulSet's ready replicas.                                        *)
QuietMeansApplied == Quiet => Consistent

(* Why: a copy that is marked current is; the reconcile works on the current *)
(* cluster, or will run again; so do the children it has passed; and one    *)
(* that has returned left everything consistent, or will run again.         *)
CachesAgree ==
  /\ objSynced => objSeen = obj
  /\ \A k \in Kinds : synced[k] => seen[k] = child[k]

WillRunAgain == queued \/ ~objSynced \/ \E k \in Kinds : ~synced[k]

ReconcileOnTrack ==
  pc # "idle" =>
    /\ snap.uid # 0
    /\ fresh => snap = obj
    /\ snap = obj \/ queued \/ ~objSynced
    /\ \A k \in Behind(pc) : Applied(k, child[k], snap) \/ queued \/ ~synced[k]
    /\ "ss" \in Behind(pc) => ready = child["ss"].val.ready \/ queued \/ ~synced["ss"]

IdleIsDone == pc = "idle" => Consistent \/ WillRunAgain

(* Once edits and faults end, the cluster settles: every child as specified  *)
(* and phase Ready, or every child of a deleted cluster collected.          *)
Settles ==
  <>[](IF obj.uid = 0 THEN \A k \in Kinds : child[k].owner = 0
       ELSE Consistent /\ obj.status.phase = "Ready")

=============================================================================
