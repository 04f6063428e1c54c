-------------------------- MODULE StreamPlacement --------------------------
(***************************************************************************)
(* The Pipeline controller (internal/controller/pipeline_controller.go and  *)
(* pipeline_cluster_assign.go) for pipelines that run as a stream on a      *)
(* PipelineCluster, in a pod of their own, or are stopped or deleted,       *)
(* together with what it runs against: the API server, the informer cache,  *)
(* the work queue, the cluster instances and their streams API, and users   *)
(* who edit Pipelines at any moment.                                        *)
(*                                                                          *)
(* One Reconcile is split at its HTTP calls and at its writes: between two  *)
(* steps anything else may happen.  A step that writes the Pipeline does so *)
(* with the object it read from the cache, and fails when the API server    *)
(* holds a newer one (optimistic concurrency).                              *)
(*                                                                          *)
(* What is abstracted:                                                      *)
(*  - resourceVersions: synced[p] says that the cached object is the API    *)
(*    server's latest, fresh that the worker's copy is.  Every write to an  *)
(*    object clears both.                                                   *)
(*  - a placement: status.assignedCluster, assignedInstance and streamID    *)
(*    are set together and cleared together; they are one field, at, a pair *)
(*    <<cluster, ordinal>> or None.                                         *)
(*  - the text of a config: an element of Configs.  What render, the        *)
(*    instance and the Secret lookup do with it is given by the sets        *)
(*    BadRender, Rejected and NeedsSecret.  streamConfigHash is the pair    *)
(*    it hashes.                                                            *)
(*  - observedGeneration: the flag observed, "it equals the generation".    *)
(*  - condition messages, which the other status fields determine.          *)
(*  - back-off and the 2 minute resync: a requeued pipeline is in queue, a  *)
(*    pipeline with a pending RequeueAfter is in timers.                    *)
(*  - the PodMonitor, which is created and deleted with the ConfigMap.      *)
(* Clusters, instance readiness, Secrets, pods and ConfigMaps are the       *)
(* controller's cached view of them; an instance's state and its streams    *)
(* are the real ones, seen only through HTTP.                               *)
(* Pipelines with a projectRef are not part of this module.                 *)
(***************************************************************************)
EXTENDS ClusterScheduler, FiniteSets

CONSTANTS
  Pipelines,     \* names of Pipeline objects
  Clusters,      \* names of PipelineClusters
  Ordinals,      \* StatefulSet ordinals of each cluster
  Refs,          \* what spec.clusterRef may be set to; None is the empty string
  Configs,       \* pipeline configs
  BadRender,     \* configs render.RenderStreamConfig fails on
  Rejected,      \* configs an instance rejects (4xx, or 502 "failed to init")
  NeedsSecret,   \* configs with a non-empty secretRefs
  SecretValues,  \* values of the referenced Secret key
  None,          \* absence of any of the above
  Faults,        \* kinds of disturbance that may happen in a run; "undo" is
                 \* the one that takes no MaxFaults, see Undoes
  MaxFaults,     \* bound on the disturbances
  MaxEdits,      \* bound on the users' writes
  EditRaces      \* may users write while the pipeline is being reconciled or
                 \* its cached copy is stale?

Instances == Clusters \X Ordinals
FaultKinds == {"crash", "down", "cut", "flap", "drop", "stall", "timeout",
               "cluster", "secret", "pod", "undo"}

ASSUME OrdinalsAssumption == Ordinals \subseteq Nat
ASSUME RefsAssumption == Refs \subseteq Clusters \cup {None}
ASSUME ConfigsAssumption == /\ BadRender \subseteq Configs
                            /\ Rejected \subseteq Configs
                            /\ NeedsSecret \subseteq Configs
ASSUME NoneAssumption == /\ None \notin Pipelines
                         /\ None \notin Clusters
                         /\ None \notin Instances
                         /\ None \notin SecretValues
ASSUME BoundsAssumption == /\ MaxFaults \in Nat
                           /\ MaxEdits \in Nat
                           /\ EditRaces \in BOOLEAN
                           /\ Faults \subseteq FaultKinds

VARIABLES
  \* API server
  obj,       \* obj[p]: the Pipeline object of that name
  synced,    \* synced[p]: the informer cache holds the latest obj[p]
  \* controller runtime
  cache,     \* cache[p]: the Pipeline the cached client returns
  queue,     \* pipelines in the work queue
  timers,    \* pipelines with a pending RequeueAfter
  \* the worker (MaxConcurrentReconciles = 1)
  pc,        \* where Reconcile is; "idle" between reconciles
  cur,       \* the pipeline being reconciled
  snap,      \* Reconcile's local variable pipe
  fresh,     \* snap is still the API server's latest
  tgt,       \* handleClusterAssigned's instance
  body,      \* handleClusterAssigned's body
  \* cluster side
  clusters,  \* PipelineClusters that exist
  ready,     \* instances whose pod has condition Ready
  inst,      \* inst[i]: "up", "cut" (running, unreachable) or "down"
  strm,      \* strm[i][p]: the stream p on instance i, None when absent
  \* the rest of the namespace
  secret,    \* the value of the referenced Secret key, None when missing
  pod,       \* pod[p]: the pod of p, None when absent
  cm,        \* cm[p]: the config in the ConfigMap <p>-config, None when absent
  \* budgets
  edits,     \* user writes so far
  faults     \* disturbances so far

vars == <<obj, synced, cache, queue, timers, pc, cur, snap, fresh, tgt, body,
          clusters, ready, inst, strm, secret, pod, cm, edits, faults>>

worker == <<pc, cur, snap, fresh, tgt, body>>
cluster == <<clusters, ready, inst>>
kids == <<pod, cm>>

-----------------------------------------------------------------------------
(* Data *)

PipelineSpec == [stopped : BOOLEAN, ref : Refs, cfg : Configs]

(* A rendered stream config after secret substitution. *)
Bodies == [cfg : Configs, sec : SecretValues \cup {None}]

Hashes == Instances \X Bodies

ASSUME NoneIsNoHash == None \notin Hashes

Phases == {"", "Pending", "Running", "Failed", "Stopped"}

(* reason is that of the Ready condition; active that of StreamActive, "" when *)
(* the condition is not there.                                                 *)
PipelineStatus ==
  [phase    : Phases,
   reason   : {"", "Assigned", "Rescheduling", "ClusterNotFound", "ClusterNotReady",
               "RenderError", "SecretNotFound", "StreamConfigInvalid",
               "StoppedByUser", "PodRunning", "Completed", "PodFailed", "PodPending",
               "ImagePullBackOff", "CrashLoopBackOff"},
   at       : Instances \cup {None},
   hash     : Hashes \cup {None},
   active   : {"", "Running", "StreamNotActive", "StreamMissing", "StatusUnavailable"},
   podName  : BOOLEAN,
   observed : BOOLEAN]

NewStatus == [phase |-> "", reason |-> "", at |-> None, hash |-> None,
              active |-> "", podName |-> FALSE, observed |-> FALSE]

(* life is "deleting" once the deletionTimestamp is set; fin says that the     *)
(* controller's finalizer is on the object.                                    *)
Absent == [life |-> "absent", fin |-> FALSE, spec |-> None, st |-> NewStatus]

Object == [life : {"live", "deleting"}, fin : BOOLEAN,
           spec : PipelineSpec, st : PipelineStatus] \cup {Absent}

Streams == [body : Bodies, active : BOOLEAN]

ASSUME NoneIsNoStream == None \notin Streams

PodPhases == {"Pending", "Running", "Failed", "Succeeded", "PullBackOff", "CrashLoop"}

Pods == [cfg : Configs, phase : PodPhases, term : BOOLEAN]

ASSUME NoneIsNoPod == None \notin Pods

PCs == {"idle", "delete", "release", "finalizer", "stop", "stopWrite", "fallback",
        "fallbackWrite", "pod", "cluster", "migrate", "schedule", "gate", "ensure",
        "confirm", "recreate", "report"}

TypeOK ==
  /\ obj \in [Pipelines -> Object]
  /\ synced \in [Pipelines -> BOOLEAN]
  /\ cache \in [Pipelines -> Object]
  /\ queue \subseteq Pipelines
  /\ timers \subseteq Pipelines
  /\ pc \in PCs
  /\ cur \in Pipelines \cup {None}
  /\ snap \in Object
  /\ fresh \in BOOLEAN
  /\ tgt \in Instances \cup {None}
  /\ body \in Bodies \cup {None}
  /\ clusters \subseteq Clusters
  /\ ready \subseteq Instances
  /\ inst \in [Instances -> {"up", "cut", "down"}]
  /\ strm \in [Instances -> [Pipelines -> Streams \cup {None}]]
  /\ secret \in SecretValues \cup {None}
  /\ pod \in [Pipelines -> Pods \cup {None}]
  /\ cm \in [Pipelines -> Configs \cup {None}]
  /\ edits \in 0 .. MaxEdits
  /\ faults \in 0 .. MaxFaults

Init ==
  /\ obj = [p \in Pipelines |-> Absent]
  /\ cache = obj
  /\ synced = [p \in Pipelines |-> TRUE]
  /\ queue = {} /\ timers = {}
  /\ pc = "idle" /\ cur = None /\ snap = Absent /\ fresh = FALSE
  /\ tgt = None /\ body = None
  /\ clusters = Clusters
  /\ ready = Instances
  /\ inst = [i \in Instances |-> "up"]
  /\ strm = [i \in Instances |-> [p \in Pipelines |-> None]]
  /\ secret \in SecretValues \cup {None}
  /\ pod = [p \in Pipelines |-> None]
  /\ cm = [p \in Pipelines |-> None]
  /\ edits = 0 /\ faults = 0

-----------------------------------------------------------------------------
(* Disturbances *)

CanFault(kind) == kind \in Faults /\ faults < MaxFaults

Fault(kind) == CanFault(kind) /\ faults' = faults + 1

-----------------------------------------------------------------------------
(* The streams client (internal/streams/client.go) against one instance.  An   *)
(* operator gives the set of replies the call may get; str is the stream as    *)
(* the call leaves it, fault is 1 when the reply takes a disturbance.          *)

Reply(res, str, fault) == [res |-> res, str |-> str, fault |-> fault]

(* An instance is addressed by the DNS name of its pod, which the cluster's    *)
(* headless Service publishes while the pod is Ready.                          *)
Reachable(i) == inst[i] = "up" /\ i \in ready

(* PUT, then POST when the instance has no such stream.  A rejected update     *)
(* either leaves the running stream alone (lint errors) or has already taken   *)
(* it down (failed to init).  A request that times out may have been applied;  *)
(* an update that succeeds may lose the stream (see ensureStreamPresent).      *)
EnsureStream(i, p, b) ==
  LET old == strm[i][p]
      new == IF b.cfg \in Rejected THEN old ELSE [body |-> b, active |-> TRUE]
  IN  (IF ~Reachable(i)
       THEN {Reply("error", old, 0)}
       ELSE IF b.cfg \in Rejected
            THEN {Reply("rejected", s, 0) : s \in {old, None}}
            ELSE {Reply("ok", new, 0)})
      \cup (IF Reachable(i) /\ CanFault("timeout")
            THEN {Reply("error", s, 1) : s \in {old, new}} ELSE {})
      \cup (IF Reachable(i) /\ CanFault("drop") /\ old # None /\ b.cfg \notin Rejected
            THEN {Reply("ok", None, 1)} ELSE {})

(* A 404 is success. *)
DeleteStream(i, p) ==
  (IF Reachable(i) THEN {Reply("ok", None, 0)} ELSE {Reply("error", strm[i][p], 0)})
  \cup (IF Reachable(i) /\ CanFault("timeout")
        THEN {Reply("error", s, 1) : s \in {strm[i][p], None}} ELSE {})

(* The reason of the StreamActive condition that streamActiveCondition         *)
(* derives from the result of GetStreamStatus.                                 *)
GetStreamStatus(i, p) ==
  LET s == strm[i][p]
      seen == IF s = None THEN "StreamMissing"
              ELSE IF s.active THEN "Running" ELSE "StreamNotActive"
  IN  (IF Reachable(i) THEN {Reply(seen, s, 0)} ELSE {Reply("StatusUnavailable", s, 0)})
      \cup (IF Reachable(i) /\ CanFault("timeout")
            THEN {Reply("StatusUnavailable", s, 1)} ELSE {})

Apply(i, p, r) ==
  /\ strm' = [strm EXCEPT ![i][p] = r.str]
  /\ faults' = faults + r.fault

-----------------------------------------------------------------------------
(* The worker's results *)

(* Reconcile returns; q and t are the pipelines to put into queue and timers.  *)
Return(q, t) ==
  /\ pc' = "idle" /\ cur' = None /\ snap' = Absent /\ fresh' = FALSE
  /\ tgt' = None /\ body' = None
  /\ queue' = queue \cup q
  /\ timers' = timers \cup t

(* A slip: the error is logged and swallowed. *)
ReturnRetrySwallowed == Return({}, {})

(* Return with an error, or with Requeue: true. *)
ReturnRetry == Return({cur}, {})

(* Reconcile goes on at the given place. *)
GoTo(next) ==
  /\ pc' = next
  /\ UNCHANGED <<cur, snap, fresh, tgt, body, timers>>

(* The API server stores a new version of p and the informer has not seen it   *)
(* yet.  A write that changes nothing makes no new version.                    *)
Store(p, o) ==
  /\ obj' = [obj EXCEPT ![p] = o]
  /\ synced' = [synced EXCEPT ![p] = @ /\ o = obj[p]]

(* A slip: the status is patched without the resourceVersion it was read at. *)
UpdateStatusUnchecked(st, q, t, ev) ==
  IF obj[cur].life # "absent"
  THEN /\ Store(cur, [obj[cur] EXCEPT !.st = st])
       /\ Return(q \cup ev, t)
  ELSE /\ UNCHANGED <<obj, synced>>
       /\ Return({cur} \cup ev, {})

(* r.Status().Update(ctx, pipe), then return; ev are the pipelines whose       *)
(* owned objects this step has changed.                                        *)
UpdateStatus(st, q, t, ev) ==
  IF fresh
  THEN /\ Store(cur, [obj[cur] EXCEPT !.st = st])
       /\ Return(q \cup ev, t)
  ELSE /\ UNCHANGED <<obj, synced>>
       /\ Return({cur} \cup ev, {})

(* The same, skipped when the status would not change (writeClusterStatus,     *)
(* handleStopped and the end of the pod path).                                 *)
WriteStatus(st, q, t, ev) ==
  IF st = snap.st
  THEN /\ UNCHANGED <<obj, synced>>
       /\ Return(q \cup ev, t)
  ELSE UpdateStatus(st, q, t, ev)

-----------------------------------------------------------------------------
(* Reconcile: read the Pipeline from the cache and choose a branch. *)

(* A slip: a stream pipeline is placed before it has its finalizer. *)
BranchClusterFirst(o) ==
  IF o.life = "deleting" THEN "delete"
  ELSE IF o.spec.stopped THEN "stop"
  ELSE IF o.spec.ref # None THEN "cluster"
  ELSE IF ~o.fin THEN "finalizer"
  ELSE IF o.st.at # None THEN "fallback"
  ELSE "pod"

Branch(o) ==
  IF o.life = "deleting" THEN "delete"
  ELSE IF ~o.fin THEN "finalizer"
  ELSE IF o.spec.stopped THEN "stop"
  ELSE IF o.spec.ref # None THEN "cluster"
  ELSE IF o.st.at # None THEN "fallback"
  ELSE "pod"

(* Without EditRaces the cached copy a reconcile starts from is the latest. *)
Reconcile(p) ==
  /\ pc = "idle" /\ p \in queue
  /\ EditRaces \/ synced[p]
  /\ queue' = queue \ {p}
  /\ IF cache[p].life = "absent"
     THEN UNCHANGED worker
     ELSE /\ pc' = Branch(cache[p])
          /\ cur' = p
          /\ snap' = cache[p]
          /\ fresh' = synced[p]
          /\ UNCHANGED <<tgt, body>>
  /\ UNCHANGED <<obj, synced, cache, timers, cluster, strm, secret, kids, edits, faults>>

(* controllerutil.AddFinalizer and Update on first sight, then requeue. *)
AddFinalizer ==
  /\ pc = "finalizer"
  /\ IF fresh THEN Store(cur, [obj[cur] EXCEPT !.fin = TRUE])
              ELSE UNCHANGED <<obj, synced>>
  /\ ReturnRetry
  /\ UNCHANGED <<cache, cluster, strm, secret, kids, edits, faults>>

(* A slip: teardown is best-effort, its error ignored. *)
DeleteAssignedStreamBestEffort(from, next) ==
  /\ pc = from
  /\ IF snap.st.at = None
     THEN UNCHANGED <<strm, faults>>
     ELSE \E r \in DeleteStream(snap.st.at, cur) : Apply(snap.st.at, cur, r)
  /\ GoTo(next)
  /\ UNCHANGED <<obj, synced, cache, queue, cluster, secret, kids, edits>>

(* deleteAssignedStream: the first call of the deletion path, of handleStopped *)
(* and of handleClusterFallback.  A failure is returned, so it is retried.     *)
DeleteAssignedStream(from, next) ==
  /\ pc = from
  /\ IF snap.st.at = None
     THEN /\ GoTo(next)
          /\ UNCHANGED <<strm, faults, queue>>
     ELSE \E r \in DeleteStream(snap.st.at, cur) :
            /\ Apply(snap.st.at, cur, r)
            /\ IF r.res = "ok" THEN GoTo(next) /\ UNCHANGED queue
                               ELSE ReturnRetry
  /\ UNCHANGED <<obj, synced, cache, cluster, secret, kids, edits>>

(* RemoveFinalizer and Update: the API server then removes the object. *)
ReleaseFinalizer ==
  /\ pc = "release"
  /\ IF fresh THEN Store(cur, Absent) /\ Return({}, {})
              ELSE UNCHANGED <<obj, synced>> /\ ReturnRetry
  /\ UNCHANGED <<cache, cluster, strm, secret, kids, edits, faults>>

(* A slip: the delete is issued on an empty object key and hits nothing. *)
DeletedPodMissed(p) == pod[p]

(* Deleting a pod only marks it; the kubelet removes it.  Its event reaches    *)
(* the queue through Owns(&corev1.Pod{}).                                      *)
DeletedPod(p) == IF pod[p] = None THEN None ELSE [pod[p] EXCEPT !.term = TRUE]

PodEvents(p) == IF DeletedPod(p) = pod[p] THEN {} ELSE {p}

StoppedStatus ==
  [snap.st EXCEPT !.phase = "Stopped", !.reason = "StoppedByUser", !.at = None,
                  !.active = "", !.podName = FALSE, !.observed = TRUE]

(* A slip: only the stream is released. *)
HandleStoppedKeepsPod ==
  /\ pc = "stopWrite"
  /\ WriteStatus(StoppedStatus, {}, {}, {})
  /\ UNCHANGED <<cache, cluster, strm, secret, kids, edits, faults>>

(* The rest of handleStopped.  It keeps the ConfigMap, and streamConfigHash.   *)
HandleStopped ==
  /\ pc = "stopWrite"
  /\ pod' = [pod EXCEPT ![cur] = DeletedPod(cur)]
  /\ WriteStatus(StoppedStatus, {}, {}, PodEvents(cur))
  /\ UNCHANGED <<cache, cluster, strm, secret, cm, edits, faults>>

(* The rest of handleClusterFallback: phase, Ready condition, hash and         *)
(* observedGeneration stay; the requeue leads to the pod path.                 *)
HandleClusterFallback ==
  /\ pc = "fallbackWrite"
  /\ UpdateStatus([snap.st EXCEPT !.at = None, !.active = ""], {cur}, {}, {})
  /\ UNCHANGED <<cache, cluster, strm, secret, kids, edits, faults>>

-----------------------------------------------------------------------------
(* handleClusterAssigned: run the pipeline as a stream on cluster spec.ref. *)

(* markClusterFailed and markClusterPending: no placement, no hash. *)
UnplacedStatus(phase, reason) ==
  [phase |-> phase, reason |-> reason, at |-> None, hash |-> None,
   active |-> "", podName |-> FALSE, observed |-> TRUE]

(* Get the cluster, then deletePodModeChildren.  Only ClusterNotFound is       *)
(* retried by a timer: there is no watch on PipelineClusters.                  *)
GetCluster ==
  /\ pc = "cluster"
  /\ IF snap.spec.ref \notin clusters
     THEN /\ WriteStatus(UnplacedStatus("Failed", "ClusterNotFound"), {}, {cur}, {})
          /\ UNCHANGED kids
     ELSE /\ pod' = [pod EXCEPT ![cur] = DeletedPod(cur)]
          /\ cm' = [cm EXCEPT ![cur] = None]
          /\ queue' = queue \cup PodEvents(cur) \cup (IF cm[cur] = None THEN {} ELSE {cur})
          /\ GoTo("migrate")
          /\ UNCHANGED <<obj, synced>>
  /\ UNCHANGED <<cache, cluster, strm, secret, edits, faults>>

(* migrateFromOldCluster: delete the stream on the cluster the pipeline was    *)
(* placed on before spec.clusterRef changed.  A failure is returned.           *)
MigrateFromOldCluster ==
  /\ pc = "migrate"
  /\ IF snap.st.at = None \/ snap.st.at[1] = snap.spec.ref
     THEN /\ GoTo("schedule")
          /\ UNCHANGED <<strm, faults, queue>>
     ELSE \E r \in DeleteStream(snap.st.at, cur) :
            /\ Apply(snap.st.at, cur, r)
            /\ IF r.res = "ok" THEN GoTo("schedule") /\ UNCHANGED queue
                               ELSE ReturnRetry
  /\ UNCHANGED <<obj, synced, cache, cluster, secret, kids, edits>>

(* readyClusterOrdinals *)
ReadyOrdinals(c) == {o \in Ordinals : <<c, o>> \in ready}

(* loadByOrdinal: the other pipelines placed there, by the cached status. *)
LoadByOrdinal(c, p) ==
  [o \in Ordinals |-> Cardinality({q \in Pipelines \ {p} : cache[q].st.at = <<c, o>>})]

CurrentOrdinal(c) ==
  IF snap.st.at # None /\ snap.st.at[1] = c THEN snap.st.at[2] ELSE None

(* A slip: the hash is taken over the config before secret substitution. *)
RenderedBodyWithoutSecret == [cfg |-> snap.spec.cfg, sec |-> None]

(* RenderStreamConfig and substituteSecrets. *)
RenderedBody == [cfg |-> snap.spec.cfg,
                 sec |-> IF snap.spec.cfg \in NeedsSecret THEN secret ELSE None]

(* Choose an instance, render the config, and decide by the recorded hash      *)
(* whether a deploy is needed at all.                                          *)
Schedule ==
  /\ pc = "schedule"
  /\ LET c == snap.spec.ref
         picks == PickInstance(CurrentOrdinal(c), ReadyOrdinals(c), LoadByOrdinal(c, cur))
     IN  IF ReadyOrdinals(c) = {}
         THEN WriteStatus(UnplacedStatus("Pending", "ClusterNotReady"), {}, {cur}, {})
         ELSE IF snap.spec.cfg \in BadRender
         THEN WriteStatus(UnplacedStatus("Failed", "RenderError"), {}, {}, {})
         ELSE IF snap.spec.cfg \in NeedsSecret /\ secret = None
         THEN WriteStatus(UnplacedStatus("Failed", "SecretNotFound"), {}, {}, {})
         ELSE \E o \in picks :
                /\ tgt' = <<c, o>>
                /\ body' = RenderedBody
                /\ pc' = IF snap.st.hash = <<tgt', body'>> THEN "gate" ELSE "ensure"
                /\ UNCHANGED <<obj, synced, cur, snap, fresh, queue, timers>>
  /\ UNCHANGED <<cache, cluster, strm, secret, kids, edits, faults>>

(* A slip: the periodic resync deploys unconditionally. *)
GateAlwaysDeploys ==
  /\ pc = "gate"
  /\ GoTo("ensure")
  /\ UNCHANGED <<obj, synced, cache, queue, cluster, strm, secret, kids, edits, faults>>

(* The hash is unchanged: deploy only if the stream is missing or not active. *)
Gate ==
  /\ pc = "gate"
  /\ \E r \in GetStreamStatus(tgt, cur) :
       /\ faults' = faults + r.fault
       /\ GoTo(IF r.res \in {"StreamMissing", "StreamNotActive"} THEN "ensure" ELSE "report")
  /\ UNCHANGED <<obj, synced, cache, queue, cluster, strm, secret, kids, edits>>

(* EnsureStream, the first call of ensureStreamPresent (from = "ensure") or    *)
(* the one after its DELETE of a stream found missing (from = "recreate").     *)
(* A rejection is recorded and not retried; any other error is returned.       *)
Ensure(from, next) ==
  /\ pc = from
  /\ \E r \in EnsureStream(tgt, cur, body) :
       /\ Apply(tgt, cur, r)
       /\ \/ /\ r.res = "ok"
             /\ GoTo(next) /\ UNCHANGED <<obj, synced, queue>>
          \/ /\ r.res = "rejected"
             /\ WriteStatus(UnplacedStatus("Failed", "StreamConfigInvalid"), {}, {}, {})
          \/ /\ r.res = "error"
             /\ ReturnRetry /\ UNCHANGED <<obj, synced>>
  /\ UNCHANGED <<cache, cluster, secret, kids, edits>>

(* ensureStreamPresent confirms that the stream is there. *)
Confirm ==
  /\ pc = "confirm"
  /\ \E r \in GetStreamStatus(tgt, cur) :
       /\ faults' = faults + r.fault
       /\ GoTo(IF r.res = "StreamMissing" THEN "recreate" ELSE "report")
  /\ UNCHANGED <<obj, synced, cache, queue, cluster, strm, secret, kids, edits>>

PlacedStatus(active) ==
  LET moved == snap.st.at # None /\ snap.st.at[1] = tgt[1] /\ snap.st.at # tgt
  IN  [phase |-> "Running", reason |-> IF moved THEN "Rescheduling" ELSE "Assigned",
       at |-> tgt, hash |-> <<tgt, body>>, active |-> active,
       podName |-> FALSE, observed |-> TRUE]

(* A slip: no resync for a pipeline that is placed. *)
ReportWithoutResync ==
  /\ pc = "report"
  /\ \E r \in GetStreamStatus(tgt, cur) :
       /\ faults' = faults + r.fault
       /\ WriteStatus(PlacedStatus(r.res), {}, {}, {})
  /\ UNCHANGED <<cache, cluster, strm, secret, kids, edits>>

(* streamActiveCondition, then writeClusterStatus and the 2 minute resync. *)
Report ==
  /\ pc = "report"
  /\ \E r \in GetStreamStatus(tgt, cur) :
       /\ faults' = faults + r.fault
       /\ WriteStatus(PlacedStatus(r.res), {}, {cur}, {})
  /\ UNCHANGED <<cache, cluster, strm, secret, kids, edits>>

-----------------------------------------------------------------------------
(* The pod path of Reconcile. *)

(* A slip: the pod's phase is copied, although the CRD has no such phase. *)
DerivePhaseCopied(podPhase) == podPhase

DerivePhase(podPhase) ==
  IF podPhase \in {"Running", "CrashLoop"} THEN "Running"
  ELSE IF podPhase = "Failed" THEN "Failed"
  ELSE IF podPhase = "Succeeded" THEN "Stopped"
  ELSE "Pending"

(* The reason of deriveCondition. *)
DeriveCondition(podPhase) ==
  IF podPhase = "PullBackOff" THEN "ImagePullBackOff"
  ELSE IF podPhase = "CrashLoop" THEN "CrashLoopBackOff"
  ELSE IF podPhase = "Running" THEN "PodRunning"
  ELSE IF podPhase = "Succeeded" THEN "Completed"
  ELSE IF podPhase = "Failed" THEN "PodFailed"
  ELSE "PodPending"

NewPod == [cfg |-> snap.spec.cfg, phase |-> "Pending", term |-> FALSE]

PodStatus(podPhase) ==
  [snap.st EXCEPT !.phase = DerivePhase(podPhase), !.reason = DeriveCondition(podPhase),
                  !.podName = TRUE, !.observed = TRUE]

(* Apply the ConfigMap; delete the pod and requeue when its spec hash is not   *)
(* the current one; else create the pod if there is none, and report it.       *)
(* markFailed, on a render error, leaves observedGeneration.                   *)
ApplyPod ==
  /\ pc = "pod"
  /\ IF snap.spec.cfg \in BadRender
     THEN /\ UpdateStatus([snap.st EXCEPT !.phase = "Failed", !.reason = "RenderError"],
                          {}, {}, {})
          /\ UNCHANGED kids
     ELSE /\ cm' = [cm EXCEPT ![cur] = snap.spec.cfg]
          /\ IF pod[cur] # None /\ pod[cur].cfg # snap.spec.cfg
             THEN /\ pod' = [pod EXCEPT ![cur] = DeletedPod(cur)]
                  /\ ReturnRetry
                  /\ UNCHANGED <<obj, synced>>
             ELSE /\ pod' = [pod EXCEPT ![cur] = IF @ = None THEN NewPod ELSE @]
                  /\ WriteStatus(PodStatus(pod'[cur].phase), {}, {},
                                 IF pod' = pod /\ cm' = cm THEN {} ELSE {cur})
  /\ UNCHANGED <<cache, cluster, strm, secret, edits, faults>>

-----------------------------------------------------------------------------
(* The controller runtime *)

(* The informer delivers the latest version of p and enqueues it. *)
CacheSync(p) ==
  /\ ~synced[p]
  /\ cache' = [cache EXCEPT ![p] = obj[p]]
  /\ synced' = [synced EXCEPT ![p] = TRUE]
  /\ queue' = queue \cup {p}
  /\ UNCHANGED <<obj, timers, worker, cluster, strm, secret, kids, edits, faults>>

(* A RequeueAfter expires. *)
TimerFire(p) ==
  /\ p \in timers
  /\ timers' = timers \ {p}
  /\ queue' = queue \cup {p}
  /\ UNCHANGED <<obj, synced, cache, worker, cluster, strm, secret, kids, edits, faults>>

(* The operator dies at any point of a reconcile and its successor starts      *)
(* from a full list: the cache is current and every Pipeline is enqueued.      *)
Crash ==
  /\ Fault("crash")
  /\ cache' = obj
  /\ synced' = [p \in Pipelines |-> TRUE]
  /\ queue' = {p \in Pipelines : obj[p].life # "absent"}
  /\ timers' = {}
  /\ pc' = "idle" /\ cur' = None /\ snap' = Absent /\ fresh' = FALSE
  /\ tgt' = None /\ body' = None
  /\ UNCHANGED <<obj, cluster, strm, secret, kids, edits>>

-----------------------------------------------------------------------------
(* Users: kubectl or the REST API write the Pipeline. *)

UserWrite(p, o) ==
  /\ edits < MaxEdits
  /\ edits' = edits + 1
  /\ EditRaces \/ (cur # p /\ synced[p])
  /\ Store(p, o)
  /\ fresh' = (fresh /\ cur # p)
  /\ UNCHANGED <<cache, queue, timers, pc, cur, snap, tgt, body, cluster, strm, secret,
                 kids, faults>>

(* A name is taken again only after the garbage collection of what the deleted *)
(* Pipeline of that name owned: the new one cannot adopt it.                   *)
CreatePipeline(p) ==
  /\ obj[p].life = "absent"
  /\ pod[p] = None /\ cm[p] = None
  /\ \E s \in PipelineSpec :
       UserWrite(p, [life |-> "live", fin |-> FALSE, spec |-> s, st |-> NewStatus])

(* With config c and value v of the Secret, p would again have the body whose  *)
(* hash its status still holds, which it no longer has.                        *)
Undoes(p, c, v) ==
  LET Needed(cfg, val) == [cfg |-> cfg, sec |-> IF cfg \in NeedsSecret THEN val ELSE None]
      o == obj[p]
  IN  /\ o.life # "absent"
      /\ o.st.hash # None
      /\ o.st.hash[2] = Needed(c, v)
      /\ o.st.hash[2] # Needed(o.spec.cfg, secret)

(* Edit the config, move it to another cluster or to a pod, stop it, resume it. *)
EditPipeline(p) ==
  /\ obj[p].life = "live"
  /\ \E s \in PipelineSpec \ {obj[p].spec} :
       /\ "undo" \in Faults \/ ~Undoes(p, s.cfg, secret)
       /\ UserWrite(p, [obj[p] EXCEPT !.spec = s, !.st.observed = FALSE])

(* The API server keeps an object with a finalizer until it is released. *)
DeletePipeline(p) ==
  /\ obj[p].life = "live"
  /\ UserWrite(p, IF obj[p].fin THEN [obj[p] EXCEPT !.life = "deleting"] ELSE Absent)

-----------------------------------------------------------------------------
(* The rest of the namespace *)

unseen == <<obj, synced, cache, timers, worker, edits>>

(* An instance's pod dies, its in-memory streams with it. *)
InstanceDown(i) ==
  /\ inst[i] # "down"
  /\ IF i[1] \in clusters THEN Fault("down") ELSE UNCHANGED faults
  /\ inst' = [inst EXCEPT ![i] = "down"]
  /\ strm' = [strm EXCEPT ![i] = [p \in Pipelines |-> None]]
  /\ UNCHANGED <<unseen, queue, clusters, ready, secret, kids>>

(* Its StatefulSet starts it again, with no stream. *)
InstanceUp(i) ==
  /\ inst[i] = "down" /\ i[1] \in clusters
  /\ inst' = [inst EXCEPT ![i] = "up"]
  /\ UNCHANGED <<unseen, queue, clusters, ready, strm, secret, kids, faults>>

(* The operator cannot reach an instance that runs on, until the network heals. *)
InstanceCut(i) ==
  /\ inst[i] = "up"
  /\ Fault("cut")
  /\ inst' = [inst EXCEPT ![i] = "cut"]
  /\ UNCHANGED <<unseen, queue, clusters, ready, strm, secret, kids>>

InstanceHeal(i) ==
  /\ inst[i] = "cut"
  /\ inst' = [inst EXCEPT ![i] = "up"]
  /\ UNCHANGED <<unseen, queue, clusters, ready, strm, secret, kids, faults>>

(* The pod's Ready condition: lost when the instance is down, or by a probe    *)
(* failure of a running one.                                                   *)
ReadyLost(i) ==
  /\ i \in ready
  /\ IF inst[i] = "down" THEN UNCHANGED faults ELSE Fault("flap")
  /\ ready' = ready \ {i}
  /\ UNCHANGED <<unseen, queue, clusters, inst, strm, secret, kids>>

ReadyGained(i) ==
  /\ i \notin ready /\ inst[i] # "down"
  /\ ready' = ready \cup {i}
  /\ UNCHANGED <<unseen, queue, clusters, inst, strm, secret, kids, faults>>

(* A running stream disappears, or stays but is no longer active. *)
StreamDrop(i, p) ==
  /\ strm[i][p] # None
  /\ Fault("drop")
  /\ strm' = [strm EXCEPT ![i][p] = None]
  /\ UNCHANGED <<unseen, queue, cluster, secret, kids>>

StreamStall(i, p) ==
  /\ strm[i][p] # None /\ strm[i][p].active
  /\ Fault("stall")
  /\ strm' = [strm EXCEPT ![i][p].active = FALSE]
  /\ UNCHANGED <<unseen, queue, cluster, secret, kids>>

(* A PipelineCluster is deleted, or one of that name is created again.  The    *)
(* Pipeline controller watches neither.                                        *)
DeleteCluster(c) ==
  /\ c \in clusters
  /\ Fault("cluster")
  /\ clusters' = clusters \ {c}
  /\ UNCHANGED <<unseen, queue, ready, inst, strm, secret, kids>>

CreateCluster(c) ==
  /\ c \notin clusters
  /\ clusters' = clusters \cup {c}
  /\ UNCHANGED <<unseen, queue, ready, inst, strm, secret, kids, faults>>

(* The Secret is created, rotated or deleted; pipelinesForSecret enqueues the  *)
(* pipelines whose cached spec refers to it.                                   *)
ChangeSecret ==
  /\ Fault("secret")
  /\ secret' \in (SecretValues \cup {None}) \ {secret}
  /\ "undo" \in Faults \/ \A p \in Pipelines : ~Undoes(p, obj[p].spec.cfg, secret')
  /\ queue' = queue \cup {p \in Pipelines : /\ cache[p].life # "absent"
                                            /\ cache[p].spec.cfg \in NeedsSecret}
  /\ UNCHANGED <<unseen, cluster, strm, kids>>

(* The kubelet: a pod starts or fails, and a deleted pod finally goes. *)
PodStarts(p) ==
  /\ pod[p] # None /\ ~pod[p].term
  /\ pod[p].phase \in {"Pending", "PullBackOff", "CrashLoop"}
  /\ pod' = [pod EXCEPT ![p].phase = "Running"]
  /\ queue' = queue \cup {p}
  /\ UNCHANGED <<unseen, cluster, strm, secret, cm, faults>>

PodTrouble(p) ==
  /\ pod[p] # None /\ ~pod[p].term
  /\ Fault("pod")
  /\ \E ph \in IF pod[p].phase = "Pending" THEN {"PullBackOff", "Failed"}
               ELSE IF pod[p].phase = "Running" THEN {"CrashLoop", "Failed", "Succeeded"}
               ELSE {} :
       pod' = [pod EXCEPT ![p].phase = ph]
  /\ queue' = queue \cup {p}
  /\ UNCHANGED <<unseen, cluster, strm, secret, cm>>

PodGone(p) ==
  /\ pod[p] # None /\ pod[p].term
  /\ pod' = [pod EXCEPT ![p] = None]
  /\ queue' = queue \cup {p}
  /\ UNCHANGED <<unseen, cluster, strm, secret, cm, faults>>

(* The garbage collector removes what a deleted Pipeline owned. *)
CollectChildren(p) ==
  /\ obj[p].life = "absent"
  /\ cm[p] # None \/ (pod[p] # None /\ ~pod[p].term)
  /\ pod' = [pod EXCEPT ![p] = DeletedPod(p)]
  /\ cm' = [cm EXCEPT ![p] = None]
  /\ queue' = queue \cup {p}
  /\ UNCHANGED <<unseen, cluster, strm, secret, faults>>

-----------------------------------------------------------------------------
(* The specification *)

WorkerStep ==
  \/ AddFinalizer
  \/ DeleteAssignedStream("delete", "release") \/ ReleaseFinalizer
  \/ DeleteAssignedStream("stop", "stopWrite") \/ HandleStopped
  \/ DeleteAssignedStream("fallback", "fallbackWrite") \/ HandleClusterFallback
  \/ GetCluster \/ MigrateFromOldCluster \/ Schedule \/ Gate
  \/ Ensure("ensure", "confirm") \/ Confirm \/ Ensure("recreate", "report") \/ Report
  \/ ApplyPod

UserStep(p) == CreatePipeline(p) \/ EditPipeline(p) \/ DeletePipeline(p)

Recovery(i) == InstanceUp(i) \/ InstanceHeal(i) \/ ReadyGained(i)

KubeStep(p) == PodStarts(p) \/ PodGone(p) \/ CollectChildren(p)

Disturbance ==
  \/ Crash \/ ChangeSecret
  \/ \E i \in Instances : \/ InstanceDown(i) \/ InstanceCut(i) \/ ReadyLost(i)
                          \/ \E p \in Pipelines : StreamDrop(i, p) \/ StreamStall(i, p)
  \/ \E c \in Clusters : DeleteCluster(c) \/ CreateCluster(c)
  \/ \E p \in Pipelines : PodTrouble(p)

Next ==
  \/ WorkerStep
  \/ \E p \in Pipelines : \/ Reconcile(p) \/ CacheSync(p) \/ TimerFire(p)
                          \/ UserStep(p) \/ KubeStep(p)
  \/ \E i \in Instances : Recovery(i)
  \/ Disturbance

SafetySpec == Init /\ [][Next]_vars

(* The worker goroutine runs; the informer delivers; timers expire; the work   *)
(* queue is FIFO, so a waiting pipeline is reconciled although the worker is   *)
(* busy with others in between; pods, instances and the network recover.       *)
Fairness ==
  /\ WF_vars(WorkerStep)
  /\ \A p \in Pipelines : /\ SF_vars(Reconcile(p))
                          /\ WF_vars(CacheSync(p))
                          /\ WF_vars(TimerFire(p))
                          /\ WF_vars(KubeStep(p))
  /\ \A i \in Instances : /\ WF_vars(InstanceUp(i))
                          /\ WF_vars(InstanceHeal(i))
                          /\ WF_vars(ReadyGained(i))

Spec == SafetySpec /\ Fairness

-----------------------------------------------------------------------------
(* Safety *)

(* A pipeline with a recorded stream placement has no pod of its own that is   *)
(* not already being deleted, and no ConfigMap: the two run modes exclude each *)
(* other, whatever spec a stale cache makes a reconcile act on                 *)
(* (deletePodModeChildren before a placement, handleClusterFallback before a   *)
(* pod).                                                                       *)
OneRunMode ==
  \A p \in Pipelines : obj[p].st.at # None => /\ pod[p] = None \/ pod[p].term
                                              /\ cm[p] = None

(* A status that claims to have observed the current generation is about the   *)
(* current spec: StoppedByUser exactly when spec.stopped, a placement only on  *)
(* spec.clusterRef, with the hash of that placement and config.  Reconcile     *)
(* computes the status from an object it read before any number of HTTP calls, *)
(* during which the spec may have been edited.                                 *)
StatusMatchesObservedSpec ==
  \A p \in Pipelines :
    LET o == obj[p] IN
    (o.life = "live" /\ o.st.observed) =>
       /\ o.spec.stopped <=> o.st.reason = "StoppedByUser"
       /\ o.st.at # None => /\ o.st.at[1] = o.spec.ref
                            /\ o.st.hash # None
                            /\ o.st.hash[1] = o.st.at
                            /\ o.st.hash[2].cfg = o.spec.cfg

(* The gate of handleClusterAssigned: Reconcile is never about to PUT to an    *)
(* instance that runs exactly this config, active, when the hash of that       *)
(* config and placement is the recorded one.  "A healthy active stream is left *)
(* untouched (this is what kills the churn)."                                  *)
HealthyStreamUntouched ==
  pc \in {"ensure", "recreate"} =>
    ~ (/\ strm[tgt][cur] = [body |-> body, active |-> TRUE]
       /\ snap.st.hash = <<tgt, body>>)

(* A recorded placement is given up only after its stream is gone, except      *)
(* where the code marks the pipeline Failed or Pending or reschedules it       *)
(* inside its cluster: stopping, deleting, falling back to a pod and migrating *)
(* to another cluster never forget a stream they have not removed.             *)
CleanRelease ==
  [][\A p \in Pipelines :
       LET i == obj[p].st.at
           j == obj'[p].st.at
       IN  (i # None /\ j # i) => \/ strm[i][p] = None
                                  \/ obj'[p].st.phase \in {"Failed", "Pending"}
                                  \/ j # None /\ j[1] = i[1]]_vars

(* Every stream on an instance is at its pipeline's recorded placement or is   *)
(* being deployed there by the reconcile in progress.                          *)
NoStrayStreams ==
  \A i \in Instances, p \in Pipelines :
    strm[i][p] # None => obj[p].st.at = i \/ (cur = p /\ tgt = i)

(* Something will have p reconciled: its key is queued or on a timer, an event *)
(* of its object is on the way, or a reconcile is at work on it.               *)
Awaited(p) == p \in queue \cup timers \/ ~synced[p] \/ cur = p

(* Why a stream pipeline may stay Failed with nobody looking at it again. *)
Hopeless(o) ==
  \/ o.st.reason = "RenderError" /\ o.spec.cfg \in BadRender
  \/ o.st.reason = "SecretNotFound" /\ o.spec.cfg \in NeedsSecret /\ secret = None
  \/ o.st.reason = "StreamConfigInvalid" /\ o.spec.cfg \in Rejected

(* What the pod path reports of p, and what it has made for it. *)
PodReported(p) ==
  LET o == obj[p] IN
  IF o.spec.cfg \in BadRender
  THEN o.st.phase = "Failed" /\ o.st.reason = "RenderError"
  ELSE /\ cm[p] = o.spec.cfg /\ pod[p] # None /\ pod[p].cfg = o.spec.cfg
       /\ o.st.phase = DerivePhase(pod[p].phase) /\ o.st.reason = DeriveCondition(pod[p].phase)
       /\ o.st.observed

(* A reconcile of p would find nothing to do. *)
Settled(p) ==
  LET o == obj[p]
      noPod == pod[p] = None \/ pod[p].term
  IN  \/ o.life = "absent"
      \/ /\ o.life = "live" /\ o.fin /\ o.st.at = None
         /\ \/ o.spec.stopped /\ noPod /\ o.st.phase = "Stopped" /\ o.st.observed
            \/ /\ ~o.spec.stopped /\ o.spec.ref # None /\ noPod /\ cm[p] = None
               /\ o.st.phase = "Failed" /\ o.st.observed /\ Hopeless(o)
            \/ ~o.spec.stopped /\ o.spec.ref = None /\ PodReported(p)

(* No wake-up is lost.  A pipeline that nothing will have reconciled again is  *)
(* gone, or as its spec wants it and reported so; one that should run as a     *)
(* stream is quiet only when it cannot: its config does not render or was      *)
(* rejected, or its Secret is still missing.  Retries, the informer, the       *)
(* watches on pods and Secrets and the resync timer together cover every       *)
(* early return, failed write and stale read of Reconcile.                     *)
QuietMeansSettled == \A p \in Pipelines : Awaited(p) \/ Settled(p)

(* StreamLease, the abstract specification of placements, with the refinement  *)
(* mapping.                                                                    *)
Lease == INSTANCE StreamLease WITH
  life    <- [p \in Pipelines |-> obj[p].life],
  guarded <- [p \in Pipelines |-> obj[p].fin],
  at      <- [p \in Pipelines |-> obj[p].st.at],
  trouble <- [p \in Pipelines |-> obj[p].st.phase \in {"Failed", "Pending"}],
  runs    <- [p \in Pipelines |-> {i \in Instances : strm[i][p] # None}]

(* Every Pipeline's placement is a lease as StreamLease defines it: whatever   *)
(* crashes, times out or is edited or deleted and created again while a        *)
(* reconcile is between two of its calls, no placement is recorded for an      *)
(* object without finalizer or under deletion, and none of a deleted object is *)
(* dropped before its stream.                                                  *)
PlacementIsLease == Lease!Spec

-----------------------------------------------------------------------------
(* Liveness *)

(* The pipeline should run as a stream and could. *)
Wants(p) ==
  /\ obj[p].life = "live"
  /\ ~obj[p].spec.stopped
  /\ obj[p].spec.ref \in clusters
  /\ obj[p].spec.cfg \notin BadRender \cup Rejected
  /\ obj[p].spec.cfg \in NeedsSecret => secret # None

Runs(p) ==
  LET st == obj[p].st IN
  /\ st.phase = "Running" /\ st.observed
  /\ st.at # None
  /\ st.at[1] = obj[p].spec.ref
  /\ strm[st.at][p] # None
  /\ strm[st.at][p].active

(* A pipeline that should and could run as a stream ends up running, active,   *)
(* on an instance of the cluster it names, and its status says where.  Watches,*)
(* retries and the resync timer together leave no state it is stuck in.        *)
Converges == \A p \in Pipelines : <>[]Wants(p) => <>[]Runs(p)

(* The stream that ends up running has the config of the spec and the current  *)
(* value of the Secret: no edit or rotation is lost behind the hash gate.      *)
(* False of the code when a change is undone between the PUT that deploys it   *)
(* and the status write that would record it: the gate then finds the hash of  *)
(* the earlier deploy, and the change runs on.  So it is claimed, and checked, *)
(* for "undo" \notin Faults.                                                   *)
ConfigReachesStream ==
  \A p \in Pipelines :
    <>[]Wants(p) =>
      <>[](LET st == obj[p].st
               cfg == obj[p].spec.cfg
           IN  /\ st.at # None
               /\ strm[st.at][p] # None
               /\ strm[st.at][p].body =
                    [cfg |-> cfg, sec |-> IF cfg \in NeedsSecret THEN secret ELSE None])

(* A deleted Pipeline goes away: its finalizer is released. *)
DeletionCompletes ==
  \A p \in Pipelines : obj[p].life = "deleting" ~> obj[p].life = "absent"

(* A pipeline that stays stopped reports Stopped, with no placement and no pod. *)
StopCompletes ==
  \A p \in Pipelines :
    <>[](obj[p].life = "live" /\ obj[p].spec.stopped)
      => <>[](/\ obj[p].st.phase = "Stopped"
              /\ obj[p].st.at = None
              /\ pod[p] = None)

-----------------------------------------------------------------------------
(* What the repository says and the code does not do *)

(* "setting spec.stopped: true on a stream pipeline removes the stream from    *)
(* the cluster" (docs/user/clusters/cluster-ref.md).                           *)
StoppedHasNoStream ==
  \A p \in Pipelines :
    (obj[p].life = "live" /\ obj[p].spec.stopped /\ obj[p].st.observed)
      => \A i \in Instances : strm[i][p] = None

=============================================================================
