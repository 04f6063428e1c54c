# A TLA+ model of rpc-operator

rpc-operator runs Redpanda Connect pipelines on Kubernetes. A `Pipeline` runs in a
pod of its own, as a stream on an instance of a shared `PipelineCluster`
(`spec.clusterRef`), or as a member of a `PipelineProject` (`spec.projectRef`).
This directory holds TLA+ specifications of its controllers, the TLC runs that
check them on small instances, and TLAPS proofs of the properties that matter most
for every instance. `PROJECT.json` maps each definition to the source lines it
models and lists runs, mutants, findings, hazards and theorems.

## The system

| Part | State it keeps | Operations | Interacts with |
|---|---|---|---|
| Pipeline controller (`internal/controller/pipeline_*.go`) | none in memory; the Pipeline's status and finalizer, the pod, ConfigMap and PodMonitor it owns, streams on cluster instances | `Reconcile` and its branches: delete, finalizer, stop, projectRef, clusterRef, fallback, pod | API server (cached reads, conflict-checked writes), instances over HTTP, Secret and PipelineProject watches |
| Cluster scheduler (`cluster_scheduler.go`) | none | `pickInstance`, `leastLoadedInstance` | called by the Pipeline controller with cached readiness and load |
| Streams client (`internal/streams`) | none | `EnsureStream`, `DeleteStream`, `GetStreamStatus`, cache resources | an instance's streams API |
| PipelineCluster controller | ConfigMap, headless Service, StatefulSet, PodMonitor; status | `Reconcile` | owned objects; the Pipeline controller reads its pods' readiness |
| PipelineProject controller | child PipelineCluster, NATS StatefulSet, JetStream streams, KV buckets, cache resources on instances; status | `Reconcile`, route streams, cache resources, PVC cleanup | NATS, instances, member pipelines through watches in both directions |
| Project routes (`internal/projectroute`) | none | `PlanFor`, `ValidateProject`, `findCycle` | both controllers, REST API |
| Render (`internal/render`) | none | pipeline, stream and cache configs, route rewriting | both controllers |
| REST API (`internal/api`) | OIDC session store | CRUD handlers, validation, logs, metrics, login | API server, OIDC provider |
| Web UI, charts, docs | – | – | REST API |

What makes it hard: a reconcile is a sequence of HTTP calls and API writes with no
transaction around it. Between two of them a user may edit, stop or delete the
object, an instance may die, lose its readiness or drop the stream, a request may
time out after it was applied, and the operator itself may restart. The reconcile
works on a cached copy of the object; its writes fail when the copy is not the
latest. Streams live in the memory of an instance and no owner reference covers
them, so the recorded placement is all that remembers them. JetStream streams and
buckets are remembered by the project's status in the same way. The OIDC handlers
keep a pointer to a session across calls to the provider, while other requests of
the same browser go on.

What makes each part correct:

* Pipeline controller: one run mode at a time; a status that speaks about the spec
  it claims to have observed; a placement given up only after its stream is gone;
  a healthy stream not redeployed; convergence to what the spec says.
* Scheduler: the lowest ordinal among the least loaded ready ones, sticky.
* PipelineCluster controller: no change is missed; when it has nothing left to do,
  the children are those of the current spec and phase and counts tell the truth.
* PipelineProject controller: what its status calls Ready is there; nothing exists
  before the finalizer; the data of a live project is kept; it settles.
* Both together with a member: a member that waited for a cache is deployed again, and
  a running one has the bucket of the cache it uses.
* Project routes: every cycle is found and only cycles are; each target receives
  what its routes send it, nothing else and nothing twice round; what a user wrote is
  replaced only where the routes are reported invalid.
* REST API: an update replaces only what its handler read; a session's refresh token
  stays usable, a logged-out session stays out, and no refresh waits for ever.

## Modules

| Module | What it is |
|---|---|
| `ClusterScheduler` | what `pickInstance` and `leastLoadedInstance` return, as operators |
| `LeastLoadedScan` | the loop of `leastLoadedInstance`, one step per iteration, against the definition in `ClusterScheduler` |
| `StreamPlacement`, `MCStreamPlacement` | the Pipeline controller with the API server, informer cache, work queue, instances, kubelet and users around it; the names of its model values |
| `StreamLease` | abstract specification: what the operator promises of a placement. `StreamPlacement` instantiates it with a refinement mapping (`Lease`) |
| `PipelineCluster`, `MCPipelineCluster` | the PipelineCluster controller and its four children |
| `PipelineProject`, `MCPipelineProject` | the PipelineProject controller with NATS and the Connect instances |
| `ProjectMembers` | the two controllers that meet at a member pipeline: project caches and member stream |
| `ProjectRoutes` | subjects, durables, I/O plans, the rules of `ValidateProject` and the rewrite of a member's config, as operators |
| `FindCycle` | the depth-first search of `findCycle`, step by step |
| `MCAlgorithms` | `FindCycle` and `LeastLoadedScan` side by side, for one run of both |
| `RouteDelivery`, `MCRouteDelivery` | members deployed with rewritten configs, and messages through the streams of a validated project |
| `OIDCSessions` | session store, login, callback, refresh, logout |
| `ApiHandlers`, `MCApiHandlers` | the writing REST handlers |
| `StreamPlacementProofs`, `PipelineClusterProofs`, `PipelineProjectProofs`, `ProjectMembersProofs`, `RouteDeliveryProofs`, `OIDCSessionsProofs`, `ApiHandlersProofs` | theorems about the module each is named after |
| `AlgorithmProofs` | theorems about the two algorithms, `FindCycle` and `LeastLoadedScan` |

Definitions whose name starts with that of another one and whose comment says "A
slip" are the mutants of `PROJECT.json`: each is a plausible mistake in the code
that breaks the property it is listed with.

### StreamPlacement

State. `obj[p]` is the Pipeline in the API server: life (absent, live, deleting),
finalizer, spec (`stopped`, `clusterRef`, config) and status. `cache[p]` is what the
cached client returns and `synced[p]` whether that is the latest. `queue` and
`timers` are the work queue and the pending `RequeueAfter`s. `pc`, `cur`, `snap`,
`fresh`, `tgt`, `body` are the single worker: where `Reconcile` is, the name, its
copy of the object, whether that copy is still the latest (the resourceVersion
check), the chosen instance and the rendered body. `clusters`, `ready`, `inst` and
`strm` are the PipelineClusters, pod readiness, the instances and the streams in
their memory; `pod`, `cm` and `secret` the rest of the namespace.

Actions. A reconcile is split at its HTTP calls and its API writes:

| Step | Code |
|---|---|
| `Reconcile` → a branch | `Get` from the cache, the branch conditions in their order |
| `AddFinalizer`; `DeleteAssignedStream("delete", …)`, `ReleaseFinalizer` | finalizer and deletion path |
| `DeleteAssignedStream("stop", …)`, `HandleStopped` | `handleStopped` |
| `DeleteAssignedStream("fallback", …)`, `HandleClusterFallback` | `handleClusterFallback` |
| `GetCluster`, `MigrateFromOldCluster`, `Schedule`, `Gate`, `Ensure`, `Confirm`, `Ensure` again, `Report` | `handleClusterAssigned`, `ensureStreamPresent`, `streamActiveCondition`, `writeClusterStatus` |
| `ApplyPod` | the pod path |

The streams client is an operator that gives the set of replies a call may get
together with the stream it leaves behind: success, rejection (which may or may not
have taken the running stream down), an error that may or may not have been applied,
a success that loses the stream. Around the worker: `CacheSync`, `TimerFire`,
`Crash` (successor starts from a full list); users creating, editing and deleting
Pipelines; instances going down and up, being cut off, losing readiness, dropping or
stalling streams; clusters deleted and created; the Secret changing; pods starting,
failing and going.

Abstractions beyond those listed at the head of the module: the informer jumps to
the latest version (intermediate versions it would deliver are versions it has not
delivered yet); cluster, pod and Secret reads see the cached view, which is the
world as far as the controller is concerned; the garbage collector removes children
before a name is used again; the confirming DELETE of `ensureStreamPresent` is on a
stream just seen to be absent and does nothing; the delete of pod-mode children and
the ConfigMap update do not fail by themselves (such a failure is a retry). The
`Reachable` operator reflects that the headless Service, as applied, publishes only
Ready addresses. `EditRaces = FALSE` keeps users from writing while a pipeline is
being reconciled or its cached copy is behind; the runs that use it say so.

### StreamLease

Per pipeline: whether the object is absent, live or under deletion, whether it has
the finalizer, its recorded placement, whether its phase is Failed or Pending, and
the set of instances that run a stream of its name. A lease is taken only under the
finalizer and before deletion, is frozen by deletion, and is given up only when the
stream is gone, when the status says the pipeline is in trouble, or for another
instance of the same cluster. The code has no such type; it is the promise that the
branches of `Reconcile` keep together.

### PipelineCluster

`obj` is the cluster, `child` its ConfigMap, Service, StatefulSet and PodMonitor with
the fields that the mutate functions of `CreateOrUpdate` touch, `seen`/`synced` their
lagging cached copies; the reconcile (`pc`, `snap`, `fresh`, `ready`) is one step per
`CreateOrUpdate` (`Create`, `Keep`, `Update`), one for the missing PodMonitor CRD and
one for the status. Around it: edits, deletion and recreation under the same name,
drift of children, failed calls, restarts of the operator, the garbage collector, the
StatefulSet controller and the kubelets. A generation goes on over a recreation so
that it also serves as the uid.

### PipelineProject

The reconcile call by call: finalizer, `cleanupForDelete`, children, graph
validation, `EnsureStream` and `DeleteStream` per route, `EnsureKV`, the push of each
cache to each listed instance, teardown of what the last status lists, status. NATS
and the instances go down and lose what they hold in memory; a volume claim outlives
its StatefulSet. Abstractions: the cached copies of children, pipelines and claims
are current (those of the project and the pods lag); NATS has one replica, and its
ConfigMap and Service, whose content is constant, are one child; a child's content is
its instance count; the loops take routes, caches and instances in one fixed order; a
failed entry carries the second in which it failed, so `WriteStatus` may or may not be a
change. The spec is valid (`ValidRoutes`) when every rule of `ValidateProject` is met.
The rules that the spec alone decides (unique names, predicates, cycles) are one field
of it, `graph`, and `ProjectRoutes` has them one by one. Those about the pipelines a
route names (in the project, and free of an input or output of their own on the side the
route uses) depend on `fit`, which users change (`Move`). The rule about cache resources
is there as it is: a cache that sets neither `natsKV` nor `config` makes the whole
project invalid, and its streams are skipped. What the status reports of the children is
what came back when they were applied (`readySeen`, `natsSeen`), not what holds when it
is written.

### ProjectMembers

One project, one member, one instance, two caches of which the member's stream needs
one, from the project's first start: no pod is up, NATS does not answer, nothing is in
the status. The project controller makes the bucket of a managed cache, pushes every
cache to the instance if that is Ready, tears down what the status lists and the spec
does not, and writes the status (`ReconcileCacheResources`, `WriteProjectStatus`); the
instance refuses a stream whose cache it does not have; `pipelinesForProject` with
`projectChangeRedeploysMembers` decides which project updates wake the member. Teardown
deletes the bucket (`LeftOver`), under whoever uses it, and does not take the resource
from the instance (`DeleteCacheResource` does nothing). With no Ready instance the code
pushes to none and reports Ready all the same, and so does the model. A phase that was
never written, the empty string in Go, is `"Unset"`. `late` is history: the instance
became Ready when the needed cache had been reported already.

### ProjectRoutes, FindCycle, RouteDelivery

Names put together from parts are sequences of their parts. A predicate is empty, not
parseable, or the kind of message it keeps. A plan is a function of positions: an
output of the index of its route, an input of the pair of a route's index and a
target's index in it, in the lexicographic order (`NoLater`) in which `PlanFor` appends
them, so that a pipeline fed twice has two inputs. That a graph is cyclic is a
definition of `ProjectRoutes` (`Cyclic`: some pipelines each feed one among
themselves), and `FindCycle` is shown to decide it. `RouteDelivery` chooses a
namespace, valid or not. Its members run the rewritten configs whether it is valid or
not, as `handleProjectAssigned` has no such check; the streams are there only when
`ValidateProject` accepts it (`Provisioned`), and then producers publish, members take,
filter, forward and acknowledge messages, and restart before the acknowledgement.

### OIDCSessions and ApiHandlers

`OIDCSessions`: one browser with several tabs. The store's mutex is held for one map
operation, so each is a step; a session's own mutex is held from `Acquire` to the end
of a refresh. The provider exchanges a code once, may rotate the refresh token at
every refresh, refuses a rotated one, and its answers may be lost or lack a valid
id_token. `unread` and `out` are history: rotations whose answer had no id_token, and
logouts that happened with no request in hand.

`ApiHandlers`: create, update, delete, stop and run of one pipeline, one cluster and
one project, each as its `Get`, graph check and write. `AuthEnabled` chooses the
client: the manager's in Mode A, whose reads come from a lagging cache, and one of the
request in Modes B and C, whose reads do not lag. The run takes Mode A; the behaviours
of the others are among its behaviours. `ValidatePipeline` is the guard of every body
that may get stored; nothing more is claimed of it, since what it lets through may still
not be deployable: a project member without an input is stored whether or not a route
will give it one.

## Runs

All runs say `CHECK_DEADLOCK FALSE`: an operator whose objects are as they should be,
a search that has returned or a server without requests has nothing left to do. Every
bound (`MaxEdits`, `MaxFaults`, `MaxEvents`, `MaxRestarts`, `MaxClock`, `MaxTokens`,
`MaxVersion`) is a guard on users, time or disturbances, never on the code.

| Run | Instance | Shows |
|---|---|---|
| `modes` | 1 pipeline, 2 clusters of 1 instance (interchangeable: `ClusterSymmetry`), pod mode, a config that renders and one that does not; 3 racing writes, 1 of crash, timeout, instance death, cluster deletion, pod trouble | `OneRunMode`, `StatusMatchesObservedSpec`, `HealthyStreamUntouched`, `QuietMeansSettled`, `CleanRelease`, `PlacementIsLease` |
| `convergence` | 1 pipeline, 2 clusters, pod mode, a refused config and one with a Secret of 2 values; 2 racing writes, 1 of crash, timeout, instance death, partition, readiness flap, lost or stalled stream, changed Secret | `Converges`, `ConfigReachesStream`, `DeletionCompletes`, `StopCompletes` |
| `shared_cluster` | 2 pipelines, 1 cluster of 2 instances; 3 writes between reconciles, 1 of instance death, partition, lost or stalled stream | both converge (`Converges`), neither leaves a stream behind (`NoStrayStreams`) |
| `algorithms` | every graph of 4 pipelines, self-loops included; 4 ordinals, loads 0–2, every ready set | a reported cycle is one (`CycleIsReal`), one is reported exactly when the routes are cyclic (`RejectsCycles`); the scan returns the lowest ordinal among the least loaded (`ReturnsLeastLoaded`) |
| `routes` | every table of up to 2 routes of up to 2 targets over 3 pipelines; one route with every kind of pipeline; one whose predicate does not parse, or with a cache resource, well formed or naming both kinds; valid or not | `DeliveredAsRouted`, `NothingLost`, `NoLoop`, `UserIOReported` |
| `cluster` | 1 instance, 2 specs, 2 writes or faults of any kind | `QuietMeansApplied`, `Settles` |
| `project` | first a route and a managed cache (Delete), then also a refused cache without routes, or a route and a cache that is invalid (both Retain); 1 instance, 1 pipeline; 2 writes or faults of any kind | `QuietMeansProvisioned`, `FinalizerFirst`, `DataKept`, `Settles` |
| `members` | 2 caches, the needed one managed, any spec at first; 4 edits, 2 restarts | `QuietMemberServed`, `MemberRunsUnlessLate` |
| `sessions` | 2 requests in flight, 2 logins, up to 2 rotations, expiry | `TokenCurrent`, `LogoutIsFinal`, `Answered` |
| `api_writes` | 2 requests in flight, 7 kinds of pipeline body, 3 versions, lagging cache | `ReplacesWhatItRead` |
| `stop_race` | 1 pipeline, 1 cluster, 2 racing writes | expected to fail: `StoppedHasNoStream` |
| `member_stuck` | a first start, no edits, no restarts | expected to fail: `MemberRuns` |

Why the bounds are enough. Three writes are a creation and two changes of mind, which
is what it takes to pass through every pair of run modes. One disturbance can fall
between any two steps of a reconcile; two events (in `cluster` and `project`) let a
deletion be followed by a recreation, or an edit by a fault in the reconcile that
answers it. Two instances make a reschedule possible, two clusters a migration, two
pipelines contention for the worker. Four nodes hold a cycle that the first roots do
not reach. Two requests are what a race needs, and two rotations let the second
refresh depend on the first. No safety property rests on these bounds: each of them is
also proved, see below; the bounds matter for the liveness properties. The project of
`project` starts as one of `Created`; the other specs come with an edit or a recreation,
which is where they matter.

Two of the limits are not of size. In `convergence` the change that is undone is left
out by name: a disturbance `"undo"` stands for an edit, or a change of the Secret, back
to the very config whose hash the status still holds while another one runs
(`Undoes`). Then the status write conflicts, the hash gate sees the recorded hash again,
and the other config runs on (`pipeline_cluster_assign.go:180,211`), so
`ConfigReachesStream` is claimed for behaviours without it; the safety runs have it.
It is this exclusion and not the number of writes that the property rests on: with one
cluster, a config with a Secret and one without, 3 racing writes and the disturbances
crash, timeout and changed Secret (733,013 states) it holds, and with `"undo"` among them
it is violated. And deleted clusters are in `modes` only: the liveness runs of the
placement leave them out, since deletion, stop and migration then wait for ever (below).

`NoStrayStreams` holds under the conditions of its run only: no racing writes, no
rejected configs, no crash, no timeout, no readiness flap. Without them the code
leaves streams behind, see below.

`stop_race` is a disagreement with `docs/user/clusters/cluster-ref.md`, which says
that stopping a stream pipeline removes the stream from the cluster: when the stop
arrives between the PUT of the first deploy and the status write that would record
it, the write conflicts, the placement is never recorded, and `handleStopped` deletes
nothing.

`member_stuck` is a disagreement with the comments on `pipelinesForProject` and
`projectChangeRedeploysMembers` (`pipeline_controller.go:441-475`), which say that a
member refused for a cache that was not yet registered is woken when it is. The project
controller reports a cache Ready when there was no instance to push it to. When the
instance becomes Ready, a member may be deployed before the cache is pushed and be
refused; the push changes no `status.cacheResources`, nothing wakes the member, and a
Failed member has no timer. Neither an edit nor a restart is needed.

### Where the properties stop

The models contain behaviour that a reader of the code or the docs may not expect. A
property that would forbid it names it as an exception, or is not stated:

* Placement. A rejected edit clears the placement of a stream that may keep running, and
  a later deletion does not find it. A change deployed and undone before the status
  write stays deployed behind the old hash (the `"undo"` of `StreamPlacement`). A
  pipeline moved off a cluster that is gone is retried for ever, since the DELETE on the
  old instance is not best-effort as `migrating.md` says. A resync during a readiness
  flap moves the stream and leaves the old copy. Two pipelines created together may be
  scheduled to the same instance. Deletion and stop of a pipeline whose cluster is gone
  wait for ever, so `convergence` has no deleted cluster. A rejected update is in
  `convergence` and not in `modes`; of `CleanRelease` and `PlacementIsLease` it is the
  theorems that cover it. `shared_cluster` has no racing writes, crashes or timeouts.
* Scheduler. Two documents call the assignment of new streams round-robin
  (`docs/user/clusters/defining.md:46`, `docs/user/reference/pipelinecluster-crd.md:31`).
  The code takes the least loaded ready instance and, among equals, the lowest ordinal
  (`cluster_scheduler.go:46-63`), as its comments and tests say: the two agree while
  streams are only added one by one to instances that are all ready, and part as soon as
  one is removed, stopped or moved. `ReturnsLeastLoaded` follows the code.
* Cluster. `publishNotReadyAddresses` is built and not copied to the applied Service,
  so instances that are not Ready cannot be addressed (`Reachable` in
  `StreamPlacement`). A change of `jsonLogging` reaches the ConfigMap and starts no
  rollout, although the CRD reference says it does. The run has one instance and no
  monitoring CRD.
* Project. An invalid graph is written to the status with no routes, so a route
  removed meanwhile leaves its stream. A bucket whose resource is removed before the
  status lists it, or that becomes an inline cache, stays. A failed `EnsureKV` or
  `EnsureStream` is recorded and not retried while NATS is up (the exception in
  `Settles`). A claim that the StatefulSet makes after `cleanupForDelete` listed them
  stays under policy Delete.
* Members. A member may be refused for a cache that is pushed a moment later, when the
  instance became Ready after the status had reported the cache, on a first start and
  after a restart (`member_stuck`; the exception `late` in `QuietMemberServed` and
  `MemberRunsUnlessLate`). Removing a managed cache deletes its bucket under the members
  that use it; nothing stops them, and `QuietMemberServed` speaks of the bucket only while
  the spec has the cache. After a restart a member's lost stream is noticed at the
  resync, so a quiet Running member may be without it until then.
* Routes. A route that lists one pipeline twice gives both inputs one durable, and
  each takes messages from the other (the exception in `NothingLost`). The streams'
  own limits, a day or a GiB unless the spec says otherwise (`nats/manager.go:90-98`),
  are outside it: a message that expires before it is taken is gone. An invalid project's
  members are deployed and rewritten all the same, and what the user wrote is replaced;
  the status reports it (`UserIOReported`). `NoLoop` speaks of one table of routes: an
  edit into a cycle is refused new streams, but members are rewritten for it and the
  streams of the old routes are still there.
* Sessions. A rotated refresh token is lost when the answer has no valid id_token (the
  exception in `TokenCurrent`). A refresh or callback under way during a logout puts
  the session back (the exception in `LogoutIsFinal`, which is left with saying that no
  other order brings a session back). The callback renews the cookie
  and not the session's age.
* API. The route graph is checked against a list of pipelines that may have changed by
  the time the project is written; the controller reports it on its next reconcile.

### Fairness

`StreamPlacement`. `WF(WorkerStep)`: the worker goroutine runs and its HTTP calls
return (the client has a timeout). `SF(Reconcile(p))`: the work queue is first-in
first-out, so a queued pipeline gets its turn although the single worker is taken by
others in between. `WF(CacheSync)`, `WF(TimerFire)`: watches deliver and
`RequeueAfter` expires. `WF(KubeStep)`: pods start, deleted pods go, children are
collected. `WF(InstanceUp)`, `WF(InstanceHeal)`, `WF(ReadyGained)`: what failed
recovers as long as its cluster exists; without this teardown could not be expected
to finish, since it waits for the instance.

`PipelineCluster` and `PipelineProject`. `WF(Worker)` and `WF(ObjEvent)` as above, and
`WF(Kubernetes)`, one fairness condition for the watches of children, the garbage
collector, the StatefulSet controller and the kubelets together: less than each of
them guarantees.

`ProjectMembers`: weak fairness of each step of the two workers, the timer, and the
readiness of the instance and of NATS. `OIDCSessions`: `WF(Handle(t))`, the provider
answers or the call fails, and `SF(Acquire(t))`, a `sync.Mutex` is handed to a starving
waiter. The code sets no timeout on the provider's call (`oidc.go:344`): that it ends is
an assumption about the request's context and the provider. `ApiHandlers`,
`RouteDelivery`, `FindCycle` and `LeastLoadedScan` state no liveness.

Nothing is assumed of users or of disturbances.

## Proofs

All for any values of the constants that satisfy the named `ASSUME`s (ordinals and
bounds are naturals, refs are clusters or empty, `None` is none of the values and no
pod, no cache resource has an empty name, request bodies and namespaces are the records
the API types describe).

* `TypeCorrect` (`StreamPlacementProofs`). `TypeOK` alone is not inductive: that
  `tgt` is an instance when the worker deploys depends on `WorkerInv` (what the
  locals hold at each `pc`), and that a status write yields an object depends on
  `FreshInv` (`fresh` implies that the copy, the cache and the API server agree).
  `TypeInv` is their conjunction, proved in two halves, controller and world, with
  one lemma per action.
* The second part of `StreamPlacementProofs` classifies steps once (`ObjStep`: how an
  object may change; `StreamStep`: how a stream may; `LocalSteps`: where the worker goes
  and what it has just seen to) and derives from that, each relative to `TypeInv`:
  * `StatusIsAboutObservedSpec`: inductive as stated, because every status is stored
    into the very object it was computed from.
  * `HealthyStreamsStay`: from `GateInv`. What the status read said stays true until
    the PUT, since only the worker makes a stream healthy.
  * `ReleaseIsClean`: from `TeardownInv`. A stream deleted by the reconcile stays
    deleted until its write, and a placed pipeline carries the finalizer, so users
    cannot remove it under the controller.
  * `RunModesExclude`: from `ModeInv`. The copy the pod path works on may be stale,
    but not so stale as to miss a placement: a placement is written only from a cache
    that already held a `clusterRef`.
* `PlacementImplementsLease` (third part of `StreamPlacementProofs`): initial states map to
  initial states and every step to a step of `StreamLease` or a stutter, from the same
  classification of steps and `TeardownInv`.
* `StraysHaveACause` (fourth part of `StreamPlacementProofs`): under `Undisturbed`,
  `NoStrayStreams` holds. `Undisturbed` restricts the constants to runs without what is
  known to leave a stream behind: a crash or a timeout between a deploy and its status,
  an instance that loses readiness while it runs, a deleted cluster, a config that
  cannot be rendered, lacks its Secret or is rejected, and an edit in the middle of a
  reconcile or one the informer has not delivered when the reconcile starts. What
  remains: edits, stops, deletions and moves between clusters, instances that die,
  restart or cannot be reached, streams that drop or stall, failed calls and pods in
  trouble, for any number of pipelines, clusters and instances. The theorem says that
  the list is complete: nothing else makes the operator leave a stream behind. The
  invariant, `StrayInv`, adds that a stream lives on a running and
  ready instance (so a delete that fails is retried, never skipped) and that
  a deploy starts with no stream at its target unless the status is there already.
* `NoWakeUpIsLost` (last part of `StreamPlacementProofs`): a pipeline for which nothing
  is queued, timed, undelivered or under way is settled. This is the safety half of
  convergence, and the half in which a forgotten requeue shows. `QuietMeansSettled` says
  nothing about a reconcile in progress, which may work on a stale copy and so find
  nothing to write; `WakeInv` adds that then a newer version is queued or undelivered,
  and that past the finalizer step the copy in hand carries the finalizer. Each step
  leaves alone all that a settled pipeline depends on (`Untouched`), wakes the pipeline
  (`WriteWakes`, `ReturnWakes`), or is the last of a reconcile that settles it.
* `SearchIsSound`, `SearchDecides` (`AlgorithmProofs`), for any set of pipelines and any
  routes. Soundness: gray nodes are exactly the path (`GrayIsPath`), consecutive nodes
  of the path are joined by routes (`PathIsWalk`), and a loop visits successors only
  (`LoopsOverSuccessors`), so the suffix cut off at a gray node is a cycle. Completeness:
  what a loop has passed is finished (`PassedIsFinished`), so routes from a black node
  lead to black nodes only, and no set of black nodes keeps to itself
  (`BlackIsAcyclic`): a node that turns black is the last of its successors to do so,
  so it could not be the one that closes such a set. At the end all nodes are black.
* `ScanIsCorrect` (`AlgorithmProofs`): from the loop invariant `PrefixIsLeastLoaded`.
* `MembersAreServed` (`ProjectMembersProofs`). `ProjectInv`: a project controller at
  rest has published its spec and made the buckets of it (`Reports`), and on an instance
  that became Ready in time (`~late`) a cache is registered before a status lists it.
  `MemberInv`: a refusal that nobody is coming back to was right, since the status that
  lists the cache queues the member. `QuietMemberServed` needs both parts.
* `ClusterTypeOK`, `NothingMissed` (`PipelineClusterProofs`). `QuietMeansApplied` says
  nothing about a running reconcile; the strengthening says that a cached copy marked
  current is (`CachesAgree`), that the reconcile works on the current cluster and has
  left the children behind it as specified, or will run again (`ReconcileOnTrack`), and
  that an idle controller is done or will run again (`IdleIsDone`).
* `SessionTypes`, `TokensStayCurrent`, `LogoutsAreFinal` (`OIDCSessionsProofs`). The
  first two from `SessionInv`: the lock is held by one request from its call to its end
  (`LockHeld`, `LockOwned`), the answer it carries is the provider's current token
  (`AnswerCurrent`), and a code gives a session its first token once (`OneExchange`).
  The third from `OutIsGone`: neither a request nor the cookie names a session that is
  out.
* `TypeCorrect`, `FinalizerComesFirst`, `QuietIsProvisioned`, `StoredDataIsKept`
  (`PipelineProjectProofs`), from `ProjectInv`. Its parts: the types and that JetStream
  stores on a claim (`Typed`, `Stored`); what an old copy may say of the project that is
  there now (`Copies`, by `Lags`: deletion and the finalizer are forever, and a copy of
  another project is from before this one); what a reconcile found in its copy to get to
  its stage (`OnTrack`); which routes and caches its loops have handled and which they
  have left (`Loops`); and that what a reconcile has done so far, or between reconciles
  what the status says, still stands (`Standing`: `WorkStands`, `StatusStands`). The
  last claims nothing while a queued key, a lagging cache or a lagging pod cache
  announces another reconcile (`Pending`), which is what makes it inductive: every
  event that undoes something provisioned is one that announces itself.
* `TypeCorrect`, `UpdateIsAtomic` (`ApiHandlersProofs`), from `ApiInv`: a version names
  one spec, in the store, in the lagging cache and in the hand of every request
  (`Versioned`), so a write whose version matches replaces the spec its `Get` returned.
* `TypeCorrect`, `RoutesAreFollowed`, `NothingIsLost`, `NoMessageLoops`,
  `UsersIOIsReported` (`RouteDeliveryProofs`), for any pipelines and any table of routes.
  Where `ValidateProject` refuses the table no stream is provisioned and nothing moves
  (`Idle`); that the refusal covers everything the rewrite replaces is
  `UsersIOIsReported`. Where it accepts: first the rewritten config: its inputs, outputs and
  durables are those of the table (`Wiring`), and a message gets past the filter exactly
  when some target that names the pipeline keeps it (`PassedIsRouted`, `RoutedPasses`;
  this is where two routes must not have the same name). Then the messages, by
  `RouteInv`: each carries the subjects it has passed, and each of these feeds the next
  (`Traced`), so one that passed a subject twice would be a walk from a pipeline back to
  itself, which the rule against cycles excludes.

Only model-checked: the liveness properties `Converges`, `ConfigReachesStream`,
`DeletionCompletes`, `StopCompletes`, `Settles`, `MemberRunsUnlessLate` and
`Answered`, since fairness is outside the prover's reach. Every invariant and action
property of a passing run is stated by a theorem.

## Not modelled

The Web UI, charts, manifests and docs tooling; generated deep copies; process wiring
(its leader election and one worker per controller are assumptions of the models); the
read-only API handlers (logs, metrics, connections, namespaces, catalog), which keep
no state; the assembly of YAML and the conversion of nested components in the
renderer, which are text; catalog schemas beyond a known or unknown component type;
token review, whoami and the cryptography of login (PKCE, nonce, signature), each a
check of one request; the PodMonitor of a pod-mode pipeline; the sizing of a bucket.

What could follow: the composition of `PipelineCluster` with `StreamPlacement` through
the readiness of the instances; larger instances of `cluster` and `project`.
