-------------------------- MODULE PipelineProject --------------------------
(***************************************************************************)
(* The PipelineProject controller (internal/controller/                     *)
(* pipelineproject_controller.go, _routes.go, _caches.go, _resources.go)    *)
(* with the JetStream manager it calls (internal/nats/manager.go).  One     *)
(* reconcile puts the finalizer on the project, applies a child             *)
(* PipelineCluster and a NATS server, ensures a stream per route, registers *)
(* every cache resource with every ready Connect instance, removes what the *)
(* last status lists and the spec no longer does, and writes the status.    *)
(* Users edit, delete and recreate the project and move pipelines in and    *)
(* out of it, instances and NATS go down and come back, calls fail and the  *)
(* operator restarts between any two of these steps.                        *)
(*                                                                          *)
(* Kubernetes, NATS and Connect are external.  The cached copies of the     *)
(* children, the pipelines and the claims are taken as current (PipelineCluster *)
(* has the lagging ones, and the child's own status); those of the project  *)
(* and of the pods lag, and the child's count of ready instances with them. *)
(***************************************************************************)
EXTENDS Naturals, FiniteSets, Functions

CONSTANTS
  Specs,          \* [routes : name -> retention override, caches : name -> kind,
                  \*  graph, retention, reclaim, instances]
  Created,        \* those of the first project
  Roles,          \* what pipelines are to routes, such as <<pipeline, "from">>
  Ends,           \* route name -> the roles of the pipelines it names
  MaxInstances,   \* bound on spec.cluster.instances
  MaxEvents       \* bound on user writes, failed calls, crashes and restarts

ASSUME ProjectBounds ==
  /\ Created \subseteq Specs
  /\ {MaxInstances, MaxEvents} \subseteq Nat
  /\ \A s \in Specs : s.instances \in 1 .. MaxInstances /\ s.reclaim \in {"Retain", "Delete"}
  /\ \A s \in Specs : "" \notin DOMAIN s.caches /\ s.graph \in BOOLEAN

VARIABLES
  obj,         \* the project: [uid, gen, del, fin, spec, status], uid 0 when absent
  objSeen, objSynced,   \* cached copy of obj, and whether it is current
  fit,         \* roles whose pipeline is in the project and keeps that side free
  child,       \* per kind the child: [owner, size], owner 0 when absent
  pvc,         \* NATS's volume claim: "none", "bound", "terminating"
  nats,        \* the NATS server: [up, owner]
  streams,     \* JetStream: name of a route -> retention
  buckets,     \* JetStream: caches with a KV bucket
  inst,        \* per ordinal the Connect instance: [up, reg : cache name -> body]
  podSeen, podSynced,   \* cached readiness of its pod, and whether it is current
  queued,      \* the work queue holds the project
  pc, snap, fresh,      \* the reconcile: step, copy of the project, copy unwritten since
  todo,        \* what its loop has still to handle
  readySeen, natsSeen,  \* the statuses of cluster and ss when they were applied
  valid,       \* routeErr == ""
  rst, cst,    \* routeStatuses and cacheStatuses so far
  urls,        \* instanceURLs
  cur, left,   \* the cache being pushed, and the instances it has still to go to
  events,      \* how many of those there were
  glitched     \* history: a call to NATS failed while NATS was up

projectVars == <<obj, objSeen, objSynced>>
outside == <<fit, child, pvc, nats, streams, buckets, inst, podSeen, podSynced>>
captured == <<readySeen, natsSeen>>
locals == <<snap, fresh, captured, todo, valid, rst, cst, urls, cur, left>>
bounds == <<events, glitched>>
vars == <<projectVars, outside, queued, pc, locals, bounds>>

(* The child cluster; NATS's ConfigMap and Service, whose content is          *)
(* constant, as one child; its StatefulSet.                                 *)
Kinds == {"cluster", "conf", "ss"}
Following(k) ==
  CASE k = "cluster" -> "conf" [] k = "conf" -> "ss" [] k = "ss" -> "validate"
Ordinals == 0 .. MaxInstances - 1

Empty == [x \in {} |-> "none"]
Put(f, x, v) == [y \in DOMAIN f \cup {x} |-> IF y = x THEN v ELSE f[y]]
Without(f, x) == Restrict(f, DOMAIN f \ {x})

(* The loops range over slices: the order is fixed. *)
First(S) == CHOOSE x \in S : TRUE

Absent == [owner |-> 0, size |-> 0]
NoStatus == [routes |-> Empty, caches |-> Empty, nats |-> FALSE, valid |-> TRUE, phase |-> "",
             ready |-> 0, observed |-> 0]
NoProject == [uid |-> 0, gen |-> 0, del |-> FALSE, fin |-> FALSE,
              spec |-> CHOOSE s \in Specs : TRUE, status |-> NoStatus]

(* The content a child is given: the child cluster's replicas; the NATS      *)
(* ConfigMap, Service and StatefulSet depend on the replica count only,     *)
(* which is 1 here.                                                         *)
Built(k, spec) == IF k = "cluster" THEN spec.instances ELSE 1

DayHours == 24
GiB == 1

(* projectDefaultRetention and mergeRetention: 0 stands for an unset field;  *)
(* age and bytes have a default, msgs has none.                             *)
Retention(spec, r) ==
  LET d == spec.retention
      o == spec.routes[r]
      base == [age |-> IF d.age = 0 THEN DayHours ELSE d.age,
               bytes |-> IF d.bytes = 0 THEN GiB ELSE d.bytes,
               msgs |-> d.msgs]
  IN  [f \in {"age", "bytes", "msgs"} |-> IF o[f] # 0 THEN o[f] ELSE base[f]]

(* BuildCacheResourceConfig: a nats_kv block that names the bucket, the      *)
(* block the user wrote, or, with neither set, an error.                    *)
BuildCacheResourceConfig(spec, c) ==
  CASE spec.caches[c] = "kv" -> <<"nats_kv", c>>
    [] spec.caches[c] = "empty" -> <<>>
    [] OTHER -> <<spec.caches[c]>>

(* validateProjectRoutes: what the spec alone decides of its graph (unique   *)
(* names, predicates that parse, no cycle; ProjectRoutes has these rules),  *)
(* ends that are in the project and define no I/O of their own there, and   *)
(* caches that set exactly one of natsKV and config.                        *)
ValidRoutes(spec) ==
  /\ spec.graph
  /\ \A r \in DOMAIN spec.routes : Ends[r] \subseteq fit
  /\ "empty" \notin Range(spec.caches)

Init ==
  /\ \E s \in Created : obj = [NoProject EXCEPT !.uid = 1, !.gen = 1, !.spec = s]
  /\ objSeen = NoProject /\ objSynced = FALSE
  /\ fit = Roles
  /\ child = [k \in Kinds |-> Absent]
  /\ pvc = "none" /\ nats = [owner |-> 0, up |-> FALSE]
  /\ streams = Empty /\ buckets = {}
  /\ inst = [o \in Ordinals |-> [up |-> FALSE, reg |-> Empty]]
  /\ podSeen = [o \in Ordinals |-> FALSE] /\ podSynced = [o \in Ordinals |-> TRUE]
  /\ queued = FALSE /\ pc = "idle"
  /\ snap = NoProject /\ fresh = FALSE /\ todo = {} /\ valid = TRUE
  /\ readySeen = 0 /\ natsSeen = FALSE
  /\ rst = Empty /\ cst = Empty /\ urls = {} /\ cur = "" /\ left = {}
  /\ events = 0 /\ glitched = FALSE

-----------------------------------------------------------------------------
(* The reconcile returns; its local variables are gone. *)
Return ==
  /\ pc' = "idle" /\ snap' = NoProject /\ fresh' = FALSE /\ todo' = {} /\ valid' = TRUE
  /\ readySeen' = 0 /\ natsSeen' = FALSE
  /\ rst' = Empty /\ cst' = Empty /\ urls' = {} /\ cur' = "" /\ left' = {}

(* return err, and Requeue: the queue takes the project back. *)
ReturnRetry == Return /\ queued' = TRUE

Goto(p) == pc' = p /\ UNCHANGED <<snap, fresh, queued>>

(* A slip: provisioning does not wait for the finalizer. *)
ReconcileProvisionsFirst ==
  /\ pc = "idle" /\ queued
  /\ queued' = FALSE
  /\ IF objSeen.uid = 0 \/ (objSeen.del /\ ~objSeen.fin) THEN UNCHANGED <<pc, snap, fresh>>
     ELSE /\ snap' = objSeen /\ fresh' = objSynced
          /\ pc' = IF objSeen.del THEN "cleanup" ELSE "cluster"
  /\ UNCHANGED <<projectVars, outside, bounds, captured, todo, valid, rst, cst, urls, cur, left>>

(* A slip: a project under deletion is ignored. *)
ReconcileIgnoresDeletion ==
  /\ pc = "idle" /\ queued
  /\ queued' = FALSE
  /\ IF objSeen.uid = 0 \/ objSeen.del THEN UNCHANGED <<pc, snap, fresh>>
     ELSE /\ snap' = objSeen /\ fresh' = objSynced
          /\ pc' = IF ~objSeen.fin THEN "finalizer" ELSE "cluster"
  /\ UNCHANGED <<projectVars, outside, bounds, captured, todo, valid, rst, cst, urls, cur, left>>

(* A reconcile starts from the cached project. *)
Reconcile ==
  /\ pc = "idle" /\ queued
  /\ queued' = FALSE
  /\ IF objSeen.uid = 0 \/ (objSeen.del /\ ~objSeen.fin) THEN UNCHANGED <<pc, snap, fresh>>
     ELSE /\ snap' = objSeen /\ fresh' = objSynced
          /\ pc' = IF objSeen.del THEN "cleanup" ELSE IF ~objSeen.fin THEN "finalizer" ELSE "cluster"
  /\ UNCHANGED <<projectVars, outside, bounds, captured, todo, valid, rst, cst, urls, cur, left>>

(* A slip: the reclaim policy is not looked at. *)
CleanupForDeleteAlways ==
  /\ pc = "cleanup"
  /\ pvc' = IF pvc = "bound" THEN "terminating" ELSE pvc
  /\ Goto("unfinalize")
  /\ UNCHANGED <<projectVars, fit, child, nats, streams, buckets, inst, podSeen, podSynced>>
  /\ UNCHANGED <<captured, todo, valid, rst, cst, urls, cur, left, bounds>>

(* cleanupForDelete: with policy Delete, delete the claims that are there. *)
CleanupForDelete ==
  /\ pc = "cleanup"
  /\ pvc' = IF pvc = "bound" /\ snap.spec.reclaim = "Delete" THEN "terminating" ELSE pvc
  /\ Goto("unfinalize")
  /\ UNCHANGED <<projectVars, fit, child, nats, streams, buckets, inst, podSeen, podSynced>>
  /\ UNCHANGED <<captured, todo, valid, rst, cst, urls, cur, left, bounds>>

(* Update without, or with, the finalizer; a conflict when the copy is old.  *)
(* Without it a project being deleted is gone.                              *)
WriteFinalizer ==
  /\ pc \in {"unfinalize", "finalizer"}
  /\ IF fresh
     THEN /\ obj' = IF pc = "finalizer" THEN [snap EXCEPT !.fin = TRUE]
                    ELSE [NoProject EXCEPT !.gen = obj.gen]
          /\ objSynced' = FALSE
          /\ queued' = (queued \/ pc = "finalizer")
          /\ Return
     ELSE ReturnRetry /\ UNCHANGED <<obj, objSynced>>
  /\ UNCHANGED <<objSeen, outside, bounds>>

NatsReady == nats.up /\ nats.owner = child["ss"].owner

(* CreateOrUpdate of a child; SetControllerReference fails on one that a     *)
(* former project of the same name still owns.  The status that comes with  *)
(* the cluster and the StatefulSet is the one reported at the end.          *)
Apply(k) ==
  /\ pc = k
  /\ LET new == [owner |-> snap.uid, size |-> Built(k, snap.spec)]
     IN  IF child[k].owner \in {0, snap.uid}
         THEN /\ child' = [child EXCEPT ![k] = new]
              /\ queued' = (queued \/ child[k] # new)
              /\ pc' = Following(k)
              /\ readySeen' = IF k = "cluster" THEN Cardinality({o \in Ordinals : podSeen[o]})
                              ELSE readySeen
              /\ natsSeen' = IF k = "ss" THEN nats = [owner |-> snap.uid, up |-> TRUE] ELSE natsSeen
              /\ UNCHANGED <<snap, fresh, todo, valid, rst, cst, urls, cur, left>>
         ELSE ReturnRetry /\ UNCHANGED child
  /\ UNCHANGED <<projectVars, fit, pvc, nats, streams, buckets, inst, podSeen, podSynced, bounds>>

(* The loop over the routes, with rs still to ensure; then come those that   *)
(* the last status lists and the spec does not.                             *)
StreamsLeft(rs) ==
  IF rs # {} THEN pc' = "streams" /\ todo' = rs
  ELSE pc' = "stale" /\ todo' = DOMAIN snap.status.routes \ DOMAIN snap.spec.routes

(* An invalid graph skips the streams and leaves routeStatuses nil. *)
Validate ==
  /\ pc = "validate"
  /\ valid' = ValidRoutes(snap.spec)
  /\ IF valid' THEN StreamsLeft(DOMAIN snap.spec.routes) ELSE pc' = "list" /\ todo' = {}
  /\ UNCHANGED <<projectVars, outside, queued, snap, fresh, captured, rst, cst, urls, cur, left, bounds>>

Event == events < MaxEvents /\ events' = events + 1

(* A call to NATS fails when it is down, and now and then. *)
NatsAnswers == nats.up /\ UNCHANGED bounds
NatsFails ==
  \/ ~nats.up /\ UNCHANGED bounds
  \/ nats.up /\ Event /\ glitched' = TRUE

(* EnsureStream creates or updates; its failure is recorded, not returned. *)
EnsureStream(r) ==
  /\ pc = "streams" /\ r \in todo
  /\ \/ /\ NatsAnswers
        /\ streams' = Put(streams, r, Retention(snap.spec, r))
        /\ rst' = Put(rst, r, "Ready")
     \/ NatsFails /\ rst' = Put(rst, r, "Failed") /\ UNCHANGED streams
  /\ StreamsLeft(todo \ {r})
  /\ UNCHANGED <<projectVars, fit, child, pvc, nats, buckets, inst, podSeen, podSynced>>
  /\ UNCHANGED <<queued, snap, fresh, captured, valid, cst, urls, cur, left>>

(* DeleteStream of a route the last status lists; its failure is returned. *)
DeleteStream(r) ==
  /\ pc = "stale" /\ r \in todo
  /\ \/ /\ NatsAnswers
        /\ streams' = Without(streams, r) /\ todo' = todo \ {r}
        /\ UNCHANGED <<queued, pc, snap, fresh, captured, valid, rst, cst, urls, cur, left>>
     \/ NatsFails /\ ReturnRetry /\ UNCHANGED streams
  /\ UNCHANGED <<projectVars, fit, child, pvc, nats, buckets, inst, podSeen, podSynced>>

(* The loop over the cache resources, with cs still to handle; then come     *)
(* those that the last status lists and the spec does not.                  *)
CachesLeft(cs) ==
  IF cs # {} THEN pc' = "caches" /\ todo' = cs
  ELSE pc' = "teardown" /\ todo' = DOMAIN snap.status.caches \ DOMAIN snap.spec.caches

(* readyClusterInstanceURLs, from the cached pods. *)
ListInstances ==
  /\ pc = "list" \/ (pc = "stale" /\ todo = {})
  /\ urls' = {o \in Ordinals : podSeen[o]}
  /\ CachesLeft(DOMAIN snap.spec.caches)
  /\ UNCHANGED <<projectVars, outside, queued, snap, fresh, captured, valid, rst, cst, cur, left, bounds>>

(* The entry of c is appended to the statuses, and the loop goes on with cs. *)
Record(c, phase, cs) ==
  /\ cst' = Put(cst, c, [phase |-> phase, bucket |-> snap.spec.caches[c] = "kv"])
  /\ cur' = "" /\ left' = {}
  /\ CachesLeft(cs)

(* One cache resource: its bucket, when it is managed; what fails to render  *)
(* is recorded; the rest is pushed to every listed instance.                *)
EnsureKV(c) ==
  /\ pc = "caches" /\ cur = "" /\ c \in todo
  /\ LET kind == snap.spec.caches[c]
         renders == BuildCacheResourceConfig(snap.spec, c) # <<>>
         push == IF urls = {} THEN Record(c, "Ready", todo \ {c})
                 ELSE cur' = c /\ left' = urls /\ todo' = todo \ {c} /\ UNCHANGED <<cst, pc>>
     IN  \/ kind = "kv" /\ NatsAnswers /\ buckets' = buckets \cup {c} /\ push
         \/ kind = "kv" /\ NatsFails /\ Record(c, "BucketFailed", todo \ {c}) /\ UNCHANGED buckets
         \/ kind # "kv" /\ ~renders /\ Record(c, "RenderFailed", todo \ {c}) /\ UNCHANGED <<buckets, bounds>>
         \/ kind # "kv" /\ renders /\ push /\ UNCHANGED <<buckets, bounds>>
  /\ UNCHANGED <<projectVars, fit, child, pvc, nats, streams, inst, podSeen, podSynced>>
  /\ UNCHANGED <<queued, snap, fresh, captured, valid, rst, urls>>

(* EnsureCacheResource: accepted, rejected by the linter, or unreachable. *)
Push(o) ==
  /\ cur # "" /\ o \in left
  /\ LET kind == snap.spec.caches[cur]
     IN  \/ /\ inst[o].up /\ kind # "refused"
            /\ inst' = [inst EXCEPT ![o].reg = Put(@, cur, BuildCacheResourceConfig(snap.spec, cur))]
            /\ IF left = {o} THEN Record(cur, "Ready", todo)
               ELSE left' = left \ {o} /\ UNCHANGED <<pc, todo, cst, cur>>
            /\ UNCHANGED <<queued, snap, fresh, captured, valid, rst, urls>>
         \/ /\ inst[o].up /\ kind = "refused"
            /\ Record(cur, "PushFailed", todo)
            /\ UNCHANGED <<inst, queued, snap, fresh, captured, valid, rst, urls>>
         \/ ~inst[o].up /\ ReturnRetry /\ UNCHANGED inst
  /\ UNCHANGED <<projectVars, fit, child, pvc, nats, streams, buckets, podSeen, podSynced, bounds>>

(* DeleteCacheResource does nothing; DeleteKV's failure is returned. *)
Teardown(c) ==
  /\ pc = "teardown" /\ c \in todo
  /\ \/ /\ IF snap.status.caches[c].bucket
           THEN NatsAnswers /\ buckets' = buckets \ {c}
           ELSE UNCHANGED <<buckets, bounds>>
        /\ todo' = todo \ {c}
        /\ UNCHANGED <<queued, pc, snap, fresh, captured, valid, rst, cst, urls, cur, left>>
     \/ snap.status.caches[c].bucket /\ NatsFails /\ ReturnRetry /\ UNCHANGED buckets
  /\ UNCHANGED <<projectVars, fit, child, pvc, nats, streams, inst, podSeen, podSynced>>

(* A slip: the NATS child is not looked at. *)
PhaseClusterOnly(n, total, natsReady, ok) ==
  IF ~ok THEN "Degraded" ELSE IF total > 0 /\ n >= total THEN "Ready" ELSE "Provisioning"

(* deriveProjectPhase, and Degraded for an invalid graph. *)
Phase(n, total, natsReady, ok) ==
  IF ~ok THEN "Degraded"
  ELSE IF total > 0 /\ n >= total /\ natsReady THEN "Ready" ELSE "Provisioning"

(* The status to write, but for the second in which a failed entry failed. *)
Report ==
  [phase |-> Phase(readySeen, snap.spec.instances, natsSeen, valid), valid |-> valid,
   ready |-> readySeen, nats |-> natsSeen, observed |-> snap.gen, routes |-> rst, caches |-> cst]

AnyFailed ==
  (\E r \in DOMAIN rst : rst[r] = "Failed") \/ \E c \in DOMAIN cst : cst[c].phase # "Ready"

(* A write that changes nothing makes no event; a failure in another second  *)
(* than the last one is a change.                                           *)
WriteStatus ==
  /\ pc = "teardown" /\ todo = {}
  /\ \E changed \in BOOLEAN :
       /\ Report # snap.status => changed
       /\ changed => Report # snap.status \/ AnyFailed
       /\ CASE ~changed -> Return /\ UNCHANGED <<obj, objSynced, queued>>
            [] changed /\ fresh ->
                 /\ obj' = [snap EXCEPT !.status = Report] /\ objSynced' = FALSE
                 /\ Return /\ UNCHANGED queued
            [] OTHER -> ReturnRetry /\ UNCHANGED <<obj, objSynced>>
  /\ UNCHANGED <<objSeen, outside, bounds>>

Worker ==
  \/ Reconcile \/ CleanupForDelete \/ WriteFinalizer \/ Validate
  \/ ListInstances \/ WriteStatus
  \/ \E k \in Kinds : Apply(k)
  \/ /\ todo # {}
     /\ \/ EnsureStream(First(todo)) \/ DeleteStream(First(todo))
        \/ EnsureKV(First(todo)) \/ Teardown(First(todo))
  \/ left # {} /\ Push(First(left))

-----------------------------------------------------------------------------
ObjEvent ==
  /\ ~objSynced
  /\ objSeen' = obj /\ objSynced' = TRUE /\ queued' = TRUE
  /\ UNCHANGED <<obj, outside, pc, locals, bounds>>

(* A slip: the pods of the project's cluster are not watched. *)
PodEventUnwatched(o) ==
  /\ ~podSynced[o]
  /\ podSeen' = [podSeen EXCEPT ![o] = inst[o].up]
  /\ podSynced' = [podSynced EXCEPT ![o] = TRUE]
  /\ UNCHANGED <<projectVars, fit, child, pvc, nats, streams, buckets, inst, queued, pc, locals, bounds>>

(* The watch of pods, mapped to the project by projectsForClusterPod. *)
PodEvent(o) ==
  /\ ~podSynced[o]
  /\ podSeen' = [podSeen EXCEPT ![o] = inst[o].up]
  /\ podSynced' = [podSynced EXCEPT ![o] = TRUE]
  /\ queued' = TRUE
  /\ UNCHANGED <<projectVars, fit, child, pvc, nats, streams, buckets, inst, pc, locals, bounds>>

Disturbance == Event /\ UNCHANGED glitched

(* Any call to the API server may fail. *)
CallFails ==
  /\ pc # "idle" /\ Disturbance
  /\ ReturnRetry /\ UNCHANGED <<projectVars, outside>>

(* The operator restarts: its caches are filled and the project queued. *)
Crash ==
  /\ Disturbance
  /\ objSeen' = obj /\ objSynced' = TRUE
  /\ podSeen' = [o \in Ordinals |-> inst[o].up] /\ podSynced' = [o \in Ordinals |-> TRUE]
  /\ ReturnRetry
  /\ UNCHANGED <<obj, fit, child, pvc, nats, streams, buckets, inst>>

(* The StatefulSet of the child cluster and its pods. *)
Wanted(o) == child["cluster"].owner # 0 /\ o < child["cluster"].size

InstanceStarts(o) ==
  /\ ~inst[o].up /\ Wanted(o)
  /\ inst' = [inst EXCEPT ![o].up = TRUE]
  /\ podSynced' = [podSynced EXCEPT ![o] = FALSE]
  /\ UNCHANGED <<projectVars, fit, child, pvc, nats, streams, buckets, podSeen>>
  /\ UNCHANGED <<queued, pc, locals, bounds>>

(* A stopped instance has lost its registrations. *)
InstanceStops(o) ==
  /\ inst[o].up
  /\ IF Wanted(o) THEN Disturbance ELSE UNCHANGED bounds
  /\ inst' = [inst EXCEPT ![o] = [up |-> FALSE, reg |-> Empty]]
  /\ podSynced' = [podSynced EXCEPT ![o] = FALSE]
  /\ UNCHANGED <<projectVars, fit, child, pvc, nats, streams, buckets, podSeen>>
  /\ UNCHANGED <<queued, pc, locals>>

(* The NATS StatefulSet makes the claim, then runs the server on it; its     *)
(* ready replicas are watched.                                              *)
ClaimMade ==
  /\ child["ss"].owner # 0 /\ pvc = "none"
  /\ pvc' = "bound"
  /\ UNCHANGED <<projectVars, fit, child, nats, streams, buckets, inst, podSeen, podSynced>>
  /\ UNCHANGED <<queued, pc, locals, bounds>>

NatsStarts ==
  /\ ~nats.up /\ child["ss"].owner # 0 /\ pvc = "bound"
  /\ nats' = [owner |-> child["ss"].owner, up |-> TRUE]
  /\ queued' = TRUE
  /\ UNCHANGED <<projectVars, fit, child, pvc, streams, buckets, inst, podSeen, podSynced>>
  /\ UNCHANGED <<pc, locals, bounds>>

NatsStops ==
  /\ nats.up
  /\ IF nats.owner = child["ss"].owner THEN Disturbance ELSE UNCHANGED bounds
  /\ nats' = [owner |-> 0, up |-> FALSE]
  /\ queued' = TRUE
  /\ UNCHANGED <<projectVars, fit, child, pvc, streams, buckets, inst, podSeen, podSynced>>
  /\ UNCHANGED <<pc, locals>>

(* A deleted claim goes, with what JetStream stored, once no pod uses it. *)
ClaimGoes ==
  /\ pvc = "terminating" /\ ~nats.up
  /\ pvc' = "none" /\ streams' = Empty /\ buckets' = {}
  /\ UNCHANGED <<projectVars, fit, child, nats, inst, podSeen, podSynced>>
  /\ UNCHANGED <<queued, pc, locals, bounds>>

(* Children of a project that is gone are collected. *)
Collect(k) ==
  /\ child[k].owner \notin {0, obj.uid}
  /\ child' = [child EXCEPT ![k] = Absent]
  /\ queued' = TRUE
  /\ UNCHANGED <<projectVars, fit, pvc, nats, streams, buckets, inst, podSeen, podSynced>>
  /\ UNCHANGED <<pc, locals, bounds>>

Write(new) ==
  /\ Disturbance
  /\ obj' = new /\ objSynced' = FALSE /\ fresh' = FALSE
  /\ UNCHANGED <<objSeen, outside, queued, pc, snap, captured, todo, valid, rst, cst, urls, cur, left>>

(* A user changes the spec, deletes the project, or creates it again. *)
Edit == \E s \in Specs :
  /\ obj.uid # 0 /\ s # obj.spec
  /\ Write([obj EXCEPT !.spec = s, !.gen = @ + 1])

(* Without a finalizer the project is gone at once. *)
Delete ==
  /\ obj.uid # 0 /\ ~obj.del
  /\ Write(IF obj.fin THEN [obj EXCEPT !.del = TRUE, !.gen = @ + 1]
           ELSE [NoProject EXCEPT !.gen = obj.gen])

(* The generation restarts at 1; here it goes on, so that it also is the uid. *)
Recreate == \E s \in Specs :
  /\ obj.uid = 0
  /\ Write([NoProject EXCEPT !.uid = obj.gen + 1, !.gen = obj.gen + 1, !.spec = s])

(* A pipeline joins or leaves, or changes the I/O it defines;                *)
(* projectsForPipeline queues the project.                                  *)
Move == \E f \in SUBSET Roles :
  /\ f # fit /\ Disturbance
  /\ fit' = f
  /\ queued' = TRUE
  /\ UNCHANGED <<projectVars, child, pvc, nats, streams, buckets, inst, podSeen, podSynced, pc, locals>>

Next ==
  \/ Worker \/ ObjEvent \/ CallFails \/ Crash
  \/ \E o \in Ordinals : PodEvent(o) \/ InstanceStarts(o) \/ InstanceStops(o)
  \/ ClaimMade \/ NatsStarts \/ NatsStops \/ ClaimGoes
  \/ \E k \in Kinds : Collect(k)
  \/ Edit \/ Delete \/ Recreate \/ Move

Safety == Init /\ [][Next]_vars

(* The watch of pods, the garbage collector, the StatefulSet controller and  *)
(* the kubelets; nothing makes a crash happen.                              *)
Kubernetes ==
  \/ ClaimMade \/ NatsStarts \/ ClaimGoes
  \/ nats.owner # child["ss"].owner /\ NatsStops
  \/ \E k \in Kinds : Collect(k)
  \/ \E o \in Ordinals : PodEvent(o) \/ InstanceStarts(o) \/ (~Wanted(o) /\ InstanceStops(o))

(* The worker runs, watches deliver, and Kubernetes does its part. *)
Spec == Safety /\ WF_vars(Worker) /\ WF_vars(ObjEvent) /\ WF_vars(Kubernetes)

-----------------------------------------------------------------------------
Live == obj.uid # 0 /\ ~obj.del

(* Nothing will make the controller run. *)
Quiet == pc = "idle" /\ ~queued /\ objSynced /\ \A o \in Ordinals : podSynced[o]

RouteStatus == {"Ready", "Failed"}
CacheStatus == [phase : {"Ready", "BucketFailed", "RenderFailed", "PushFailed"}, bucket : BOOLEAN]

(* The types of what outlives a reconcile, and what a recorded phase means:  *)
(* Ready goes with a valid graph, a ready NATS and enough instances.        *)
TypeOK ==
  /\ obj.status.observed <= obj.gen
  /\ obj.status.phase = "Ready" => obj.status.valid /\ obj.status.nats /\ obj.status.ready > 0
  /\ Range(obj.status.routes) \subseteq RouteStatus
  /\ Range(obj.status.caches) \subseteq CacheStatus
  /\ fit \subseteq Roles
  /\ \A k \in Kinds : child[k].owner <= obj.gen
  /\ pvc \in {"none", "bound", "terminating"}
  /\ DOMAIN streams \cup buckets # {} => pvc # "none"
  /\ queued \in BOOLEAN /\ objSynced \in BOOLEAN
  /\ events \in 0 .. MaxEvents /\ glitched \in BOOLEAN

RoutesTold ==
  IF ValidRoutes(obj.spec)
  THEN /\ obj.status.valid
       /\ DOMAIN obj.status.routes = DOMAIN obj.spec.routes
       /\ \A r \in DOMAIN obj.spec.routes : obj.status.routes[r] = "Ready" =>
            r \in DOMAIN streams /\ streams[r] = Retention(obj.spec, r)
  ELSE /\ ~obj.status.valid /\ obj.status.phase = "Degraded"
       /\ DOMAIN obj.status.routes = {}

CachesTold ==
  /\ DOMAIN obj.status.caches = DOMAIN obj.spec.caches
  /\ \A c \in DOMAIN obj.spec.caches : obj.status.caches[c].phase = "Ready" =>
       /\ obj.spec.caches[c] = "kv" => c \in buckets
       /\ \A o \in Ordinals : inst[o].up =>
            c \in DOMAIN inst[o].reg /\ inst[o].reg[c] = BuildCacheResourceConfig(obj.spec, c)

(* What the status says is so.  Whatever edits, restarts, lost instances,    *)
(* failed calls and stale reads came before, a controller with nothing left *)
(* to do has its finalizer in place and its children applied, every route   *)
(* reported Ready has its stream with the merged retention, and every cache *)
(* reported Ready is registered, as specified, with every running instance; *)
(* a spec whose routes or caches are invalid is told to be so, as Degraded, *)
(* and the counts reported are those of the servers that run.               *)
QuietMeansProvisioned ==
  Quiet /\ Live =>
    /\ obj.fin /\ obj.status.observed = obj.gen
    /\ \A k \in Kinds : child[k] = [owner |-> obj.uid, size |-> Built(k, obj.spec)]
    /\ RoutesTold /\ CachesTold
    /\ obj.status.nats = NatsReady
    /\ obj.status.ready = Cardinality({o \in Ordinals : inst[o].up})

(* "Ensure the finalizer is present before provisioning so deletion always   *)
(* goes through the cleanup branch": nothing of a project exists before its *)
(* finalizer does, and while its children are up it is not dropped by a     *)
(* reconcile that has not seen the deletion.                                *)
FinalizerFirst ==
  \A k \in Kinds : child[k].owner # 0 /\ child[k].owner = obj.uid => obj.fin

(* Stored messages survive: the claim of a project that has its NATS server  *)
(* and is not being deleted is never deleted, not by a reconcile that still *)
(* reads a deleted project of the same name, and never under Retain.        *)
DataKept ==
  [][pvc = "bound" /\ pvc' # "bound" =>
       /\ ~(Live /\ child["ss"].owner = obj.uid)
       /\ snap.spec.reclaim = "Delete"]_vars

AllReady ==
  /\ obj.status.valid => /\ obj.status.routes = [r \in DOMAIN obj.spec.routes |-> "Ready"]
                         /\ obj.status.phase = "Ready"
  /\ \A c \in DOMAIN obj.spec.caches :
       obj.spec.caches[c] \notin {"empty", "refused"} => obj.status.caches[c].phase = "Ready"

(* Once edits and faults end, the project settles: everything specified is   *)
(* provisioned and reported, or, deleted, the project and its children go.  *)
(* A route or a cache stays Failed only when a call to NATS failed while    *)
(* NATS was up: that failure is recorded and not returned, so nothing tries *)
(* again.                                                                   *)
Settles ==
  <>[](IF obj.uid = 0 THEN \A k \in Kinds : child[k].owner = 0
       ELSE Live /\ RoutesTold /\ CachesTold /\ (glitched \/ AllReady))

=============================================================================
