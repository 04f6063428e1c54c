----------------------- MODULE StreamPlacementProofs -----------------------
(***************************************************************************)
(* The safety properties of StreamPlacement, proved for every number of     *)
(* pipelines, clusters and instances and any set of disturbances.           *)
(***************************************************************************)
EXTENDS StreamPlacement, TLAPS

DeployPCs == {"gate", "ensure", "confirm", "recreate", "report"}
ClusterPCs == {"cluster", "migrate", "schedule"} \cup DeployPCs

(* What the worker's local variables hold at each place of Reconcile. *)
WorkerInv ==
  /\ pc = "idle" => cur = None /\ ~fresh
  /\ pc # "idle" => cur \in Pipelines /\ snap.life # "absent"
  /\ pc \in {"delete", "release"} => snap.life = "deleting"
  /\ pc \notin {"idle", "delete", "release"} => snap.life = "live"
  /\ pc \in {"stop", "stopWrite"} => snap.spec.stopped
  /\ pc \in {"fallback", "fallbackWrite", "pod"} \cup ClusterPCs => ~snap.spec.stopped
  /\ pc = "pod" => snap.spec.ref = None /\ snap.st.at = None
  /\ pc \in ClusterPCs => snap.fin /\ snap.spec.ref # None
  /\ pc \in DeployPCs => /\ tgt \in Instances /\ tgt[1] = snap.spec.ref
                         /\ body \in Bodies /\ body.cfg = snap.spec.cfg

(* Optimistic concurrency: a copy that is marked current is the latest one. *)
FreshInv ==
  /\ fresh => synced[cur] /\ snap = obj[cur]
  /\ \A p \in Pipelines : synced[p] => cache[p] = obj[p]

TypeInv == TypeOK /\ WorkerInv /\ FreshInv

(* The two halves of TypeInv: the controller and its objects, and the rest. *)
ControlInv ==
  /\ obj \in [Pipelines -> Object]
  /\ synced \in [Pipelines -> BOOLEAN]
  /\ cache \in [Pipelines -> Object]
  /\ queue \subseteq Pipelines
  /\ timers \subseteq Pipelines
  /\ pc \in PCs
  /\ cur \in Pipelines \cup {None}
  /\ snap \in Object
  /\ fresh \in BOOLEAN
  /\ tgt \in Instances \cup {None}
  /\ body \in Bodies \cup {None}
  /\ WorkerInv
  /\ FreshInv

WorldType ==
  /\ clusters \subseteq Clusters
  /\ ready \subseteq Instances
  /\ inst \in [Instances -> {"up", "cut", "down"}]
  /\ strm \in [Instances -> [Pipelines -> Streams \cup {None}]]
  /\ secret \in SecretValues \cup {None}
  /\ pod \in [Pipelines -> Pods \cup {None}]
  /\ cm \in [Pipelines -> Configs \cup {None}]
  /\ edits \in 0 .. MaxEdits
  /\ faults \in 0 .. MaxFaults

(* The type invariant is the worker and the store it reads, plus everything   *)
(* outside.                                                                   *)
LEMMA TypeInvSplit == /\ TypeInv <=> ControlInv /\ WorldType
                      /\ TypeInv' <=> ControlInv' /\ WorldType'
BY DEF TypeInv, TypeOK, ControlInv, WorldType

-----------------------------------------------------------------------------
(* Replies of the streams client *)

(* What a reply to EnsureStream may be. *)
LEMMA EnsureReply ==
  ASSUME TypeOK, NEW i \in Instances, NEW p \in Pipelines, NEW b \in Bodies,
         NEW r \in EnsureStream(i, p, b)
  PROVE  /\ r.str \in Streams \cup {None}
         /\ faults + r.fault \in 0 .. MaxFaults
         /\ r.res \in {"ok", "rejected", "error"}
<1>1. strm[i][p] \in Streams \cup {None}
  BY DEF TypeOK
<1>2. [body |-> b, active |-> TRUE] \in Streams
  BY DEF Streams
<1> DEFINE new == IF b.cfg \in Rejected THEN strm[i][p] ELSE [body |-> b, active |-> TRUE]
<1>a. \E res \in {"ok", "rejected", "error"}, s \in {strm[i][p], new, None}, f \in {0, 1} :
        r = Reply(res, s, f)
  BY DEF EnsureStream
<1>b. new \in Streams \cup {None}
  BY <1>1, <1>2
<1>3. r.str \in Streams \cup {None} /\ r.res \in {"ok", "rejected", "error"}
  <2> HIDE DEF new
  <2> QED BY <1>1, <1>a, <1>b DEF Reply
<1>4. r.fault = 0 \/ (r.fault = 1 /\ faults < MaxFaults)
  BY DEF EnsureStream, Reply, CanFault
<1>5. faults + r.fault \in 0 .. MaxFaults
  BY <1>4, BoundsAssumption DEF TypeOK
<1> QED BY <1>3, <1>5

(* A successful DELETE leaves no stream. *)
LEMMA DeleteReply ==
  ASSUME TypeOK, NEW i \in Instances, NEW p \in Pipelines, NEW r \in DeleteStream(i, p)
  PROVE  /\ r.str \in Streams \cup {None}
         /\ faults + r.fault \in 0 .. MaxFaults
         /\ r.res = "ok" => r.str = None
<1>1. strm[i][p] \in Streams \cup {None}
  BY DEF TypeOK
<1>2. r.str \in Streams \cup {None} /\ (r.res = "ok" => r.str = None)
  BY <1>1 DEF DeleteStream, Reply
<1>3. r.fault = 0 \/ (r.fault = 1 /\ faults < MaxFaults)
  BY DEF DeleteStream, Reply, CanFault
<1>4. faults + r.fault \in 0 .. MaxFaults
  BY <1>3, BoundsAssumption DEF TypeOK
<1> QED BY <1>2, <1>4

(* A status read says what it saw. *)
LEMMA StatusReply ==
  ASSUME TypeOK, NEW i \in Instances, NEW p \in Pipelines, NEW r \in GetStreamStatus(i, p)
  PROVE  /\ faults + r.fault \in 0 .. MaxFaults
         /\ r.res \in {"Running", "StreamNotActive", "StreamMissing", "StatusUnavailable"}
         /\ r.res = "StreamMissing" => strm[i][p] = None
         /\ r.res = "StreamNotActive" => strm[i][p] # None /\ ~strm[i][p].active
<1>1. /\ r.res \in {"Running", "StreamNotActive", "StreamMissing", "StatusUnavailable"}
      /\ r.res = "StreamMissing" => strm[i][p] = None
      /\ r.res = "StreamNotActive" => strm[i][p] # None /\ ~strm[i][p].active
  BY DEF GetStreamStatus, Reply
<1>2. r.fault = 0 \/ (r.fault = 1 /\ faults < MaxFaults)
  BY DEF GetStreamStatus, Reply, CanFault
<1>3. faults + r.fault \in 0 .. MaxFaults
  BY <1>2, BoundsAssumption DEF TypeOK
<1> QED BY <1>1, <1>3

-----------------------------------------------------------------------------
(* Objects and the worker's results *)

LiveObject == [life : {"live", "deleting"}, fin : BOOLEAN,
               spec : PipelineSpec, st : PipelineStatus]

(* The status of a pipeline nobody has reconciled yet is well typed. *)
LEMMA NewStatusType == NewStatus \in PipelineStatus
BY DEF NewStatus, PipelineStatus, Phases

(* An object that exists has a spec and a status; one that does not is        *)
(* Absent.                                                                    *)
LEMMA ObjectCases ==
  /\ Absent \in Object
  /\ LiveObject \subseteq Object
  /\ \A o \in Object : o.life # "absent" => o \in LiveObject
  /\ \A o \in Object : o.st \in PipelineStatus
  /\ Absent.life = "absent" /\ Absent.st.at = None
<1>1. Absent.life = "absent" /\ Absent.st = NewStatus /\ NewStatus.at = None
  BY DEF Absent, NewStatus
<1>2. \A o \in LiveObject : o.life # "absent" /\ o.st \in PipelineStatus
  BY DEF LiveObject
<1>3. Object = LiveObject \cup {Absent}
  BY DEF Object, LiveObject
<1> QED BY <1>1, <1>2, <1>3, NewStatusType

(* Changing the status of an object changes nothing else of it. *)
LEMMA SetStatus ==
  ASSUME NEW o \in LiveObject, NEW st \in PipelineStatus
  PROVE  /\ [o EXCEPT !.st = st] \in LiveObject
         /\ [o EXCEPT !.st = st].st = st
         /\ [o EXCEPT !.st = st].life = o.life
         /\ [o EXCEPT !.st = st].fin = o.fin
         /\ [o EXCEPT !.st = st].spec = o.spec
BY DEF LiveObject

(* An accepted API server write replaces one object and marks only its cache  *)
(* entry as behind.                                                           *)
LEMMA StoreControl ==
  ASSUME ControlInv, NEW p \in Pipelines, NEW o \in Object, Store(p, o)
  PROVE  /\ obj' \in [Pipelines -> Object]
         /\ synced' \in [Pipelines -> BOOLEAN]
         /\ cache' = cache => \A q \in Pipelines : synced'[q] => cache'[q] = obj'[q]
         /\ obj'[p] = o
         /\ \A q \in Pipelines : q # p => obj'[q] = obj[q] /\ synced'[q] = synced[q]
BY DEF ControlInv, FreshInv, Store

(* Reconcile returning leaves an idle worker that remembers nothing of the    *)
(* pipeline.                                                                  *)
LEMMA ReturnControl ==
  ASSUME ControlInv, NEW q \in SUBSET Pipelines, NEW t \in SUBSET Pipelines, Return(q, t),
         cache' = cache,
         obj' \in [Pipelines -> Object], synced' \in [Pipelines -> BOOLEAN],
         \A p \in Pipelines : synced'[p] => cache'[p] = obj'[p]
  PROVE  ControlInv'
BY ObjectCases DEF ControlInv, WorkerInv, FreshInv, Return, PCs, ClusterPCs, DeployPCs

(* Every write of a status by Reconcile. *)
LEMMA UpdateControl ==
  ASSUME ControlInv, pc # "idle", cache' = cache, NEW st \in PipelineStatus,
         NEW q \in SUBSET Pipelines, NEW t \in SUBSET Pipelines,
         NEW ev \in SUBSET Pipelines, UpdateStatus(st, q, t, ev)
  PROVE  ControlInv'
<1>0. cur \in Pipelines /\ snap.life # "absent"
  BY DEF ControlInv, WorkerInv
<1>1. CASE fresh
  <2>1. obj[cur] \in LiveObject
    BY <1>0, <1>1, ObjectCases DEF ControlInv, FreshInv
  <2>2. [obj[cur] EXCEPT !.st = st] \in Object
    BY <2>1, SetStatus, ObjectCases
  <2>3. Store(cur, [obj[cur] EXCEPT !.st = st]) /\ Return(q \cup ev, t)
    BY <1>1 DEF UpdateStatus
  <2> QED BY <1>0, <2>2, <2>3, StoreControl, ReturnControl
<1>2. CASE ~fresh
  <2>1. Return({cur} \cup ev, {}) /\ UNCHANGED <<obj, synced>>
    BY <1>2 DEF UpdateStatus
  <2> QED BY <1>0, <2>1, ReturnControl DEF ControlInv, FreshInv
<1> QED BY <1>1, <1>2

(* writeClusterStatus keeps the control state typed, whether it writes or     *)
(* skips an equal status.                                                     *)
LEMMA WriteControl ==
  ASSUME ControlInv, pc # "idle", cache' = cache, NEW st \in PipelineStatus,
         NEW q \in SUBSET Pipelines, NEW t \in SUBSET Pipelines,
         NEW ev \in SUBSET Pipelines, WriteStatus(st, q, t, ev)
  PROVE  ControlInv'
<1>1. CASE st = snap.st
  <2>1. Return(q \cup ev, t) /\ UNCHANGED <<obj, synced>>
    BY <1>1 DEF WriteStatus
  <2> QED BY <2>1, ReturnControl DEF ControlInv, FreshInv
<1>2. CASE st # snap.st
  BY <1>2, UpdateControl DEF WriteStatus
<1> QED BY <1>1, <1>2

(* Returning an error from Reconcile keeps the control state typed. *)
LEMMA RetryControl ==
  ASSUME ControlInv, pc # "idle", cache' = cache, UNCHANGED <<obj, synced>>, ReturnRetry
  PROVE  ControlInv'
<1>1. cur \in Pipelines
  BY DEF ControlInv, WorkerInv
<1> QED BY <1>1, ReturnControl DEF ControlInv, FreshInv, ReturnRetry

(* Going on inside Reconcile keeps the control state typed, given the         *)
(* worker's next place is.                                                    *)
LEMMA GoToControl ==
  ASSUME ControlInv, pc # "idle", cache' = cache, UNCHANGED <<obj, synced>>,
         queue' \subseteq Pipelines, NEW next \in PCs, GoTo(next),
         WorkerInv'
  PROVE  ControlInv'
BY DEF ControlInv, FreshInv, GoTo

-----------------------------------------------------------------------------
(* Statuses the controller writes *)

(* Every status Reconcile derives from the copy it read is well typed. *)
LEMMA StatusTypes ==
  ASSUME TypeInv, pc # "idle"
  PROVE  /\ snap \in LiveObject
         /\ snap.st \in PipelineStatus
         /\ StoppedStatus \in PipelineStatus
         /\ [snap.st EXCEPT !.at = None, !.active = ""] \in PipelineStatus
         /\ [snap.st EXCEPT !.phase = "Failed", !.reason = "RenderError"] \in PipelineStatus
         /\ \A ph \in PodPhases : PodStatus(ph) \in PipelineStatus
<1>1. snap \in LiveObject
  BY ObjectCases DEF TypeInv, TypeOK, WorkerInv
<1>2. snap.st \in PipelineStatus
  BY <1>1 DEF LiveObject
<1>3. StoppedStatus \in PipelineStatus
  BY <1>2 DEF StoppedStatus, PipelineStatus, Phases
<1>4. [snap.st EXCEPT !.at = None, !.active = ""] \in PipelineStatus
  BY <1>2 DEF PipelineStatus
<1>5. [snap.st EXCEPT !.phase = "Failed", !.reason = "RenderError"] \in PipelineStatus
  BY <1>2 DEF PipelineStatus, Phases
<1>6. ASSUME NEW ph \in PodPhases PROVE PodStatus(ph) \in PipelineStatus
  <2>1. DerivePhase(ph) \in Phases
    BY DEF DerivePhase, Phases
  <2>2. DeriveCondition(ph) \in {"PodRunning", "Completed", "PodFailed", "PodPending",
                                 "ImagePullBackOff", "CrashLoopBackOff"}
    BY DEF DeriveCondition
  <2> QED BY <1>2, <2>1, <2>2 DEF PodStatus, PipelineStatus
<1> QED BY <1>1, <1>2, <1>3, <1>4, <1>5, <1>6

(* Every status that gives up a placement is well typed. *)
LEMMA UnplacedTypes ==
  \A ph \in {"Failed", "Pending"},
     re \in {"ClusterNotFound", "ClusterNotReady", "RenderError", "SecretNotFound",
             "StreamConfigInvalid"} : UnplacedStatus(ph, re) \in PipelineStatus
BY DEF UnplacedStatus, PipelineStatus, Phases

(* Every status that records a deployed stream is well typed. *)
LEMMA PlacedTypes ==
  ASSUME TypeInv, pc \in DeployPCs,
         NEW a \in {"Running", "StreamNotActive", "StreamMissing", "StatusUnavailable"}
  PROVE  PlacedStatus(a) \in PipelineStatus
<1>1. tgt \in Instances /\ body \in Bodies
  BY DEF TypeInv, WorkerInv
<1>2. <<tgt, body>> \in Hashes
  BY <1>1 DEF Hashes
<1> QED BY <1>1, <1>2 DEF PlacedStatus, PipelineStatus, Phases

-----------------------------------------------------------------------------
(* Type correctness, one lemma per step of the worker *)

(* Reconcile's read of the pipeline and its choice of a branch. *)
LEMMA ReconcileType == ASSUME TypeInv, NEW p \in Pipelines, Reconcile(p) PROVE TypeInv'
<1>1. ControlInv /\ WorldType
  BY TypeInvSplit
<1>2. WorldType'
  BY <1>1 DEF WorldType, Reconcile, cluster, kids
<1>3. ASSUME cache[p].life = "absent" PROVE ControlInv'
  <2>1. /\ UNCHANGED <<pc, cur, snap, fresh, tgt, body, obj, synced, cache, timers>>
        /\ queue' = queue \ {p}
    BY <1>3 DEF Reconcile, worker
  <2> QED BY <1>1, <2>1 DEF ControlInv, WorkerInv, FreshInv
<1>4. ASSUME cache[p].life # "absent" PROVE ControlInv'
  <2>1. cache[p] \in LiveObject
    BY <1>1, <1>4, ObjectCases DEF ControlInv
  <2>2. /\ pc' = Branch(cache[p]) /\ cur' = p /\ snap' = cache[p] /\ fresh' = synced[p]
        /\ UNCHANGED <<tgt, body, obj, synced, cache, timers>> /\ queue' = queue \ {p}
    BY <1>4 DEF Reconcile
  <2>3. WorkerInv'
    BY <2>1, <2>2, NoneAssumption DEF WorkerInv, Branch, LiveObject, ClusterPCs, DeployPCs
  <2>4. FreshInv'
    BY <1>1, <2>2 DEF ControlInv, FreshInv
  <2>5. pc' \in PCs
    BY <2>2 DEF Branch, PCs
  <2> QED BY <1>1, <2>1, <2>2, <2>3, <2>4, <2>5, ObjectCases DEF ControlInv
<1> QED BY <1>2, <1>3, <1>4, TypeInvSplit

(* Adding the finalizer on first sight. *)
LEMMA AddFinalizerType == ASSUME TypeInv, AddFinalizer PROVE TypeInv'
<1>1. ControlInv /\ WorldType /\ pc # "idle" /\ cur \in Pipelines
  BY TypeInvSplit DEF AddFinalizer, TypeInv, WorkerInv
<1>2. WorldType' /\ cache' = cache /\ ReturnRetry
  BY <1>1 DEF WorldType, AddFinalizer, cluster, kids
<1>3. ASSUME fresh PROVE ControlInv'
  <2>1. obj[cur] \in LiveObject
    BY <1>1, <1>3, ObjectCases DEF ControlInv, WorkerInv, FreshInv
  <2>2. [obj[cur] EXCEPT !.fin = TRUE] \in Object
    BY <2>1, ObjectCases DEF LiveObject
  <2>3. Store(cur, [obj[cur] EXCEPT !.fin = TRUE]) /\ Return({cur}, {})
    BY <1>3 DEF AddFinalizer, ReturnRetry
  <2> QED BY <1>1, <1>2, <2>2, <2>3, StoreControl, ReturnControl
<1>4. ASSUME ~fresh PROVE ControlInv'
  BY <1>1, <1>2, <1>4, RetryControl DEF AddFinalizer
<1> QED BY <1>2, <1>3, <1>4, TypeInvSplit

(* A DELETE keeps strm and faults well-typed. *)
LEMMA ApplyType ==
  ASSUME WorldType, NEW i \in Instances, NEW p \in Pipelines, NEW r,
         r.str \in Streams \cup {None}, faults + r.fault \in 0 .. MaxFaults, Apply(i, p, r),
         UNCHANGED <<clusters, ready, inst, secret, pod, cm, edits>>
  PROVE  WorldType'
BY DEF WorldType, Apply

(* deleteAssignedStream, from the deletion, stop and fallback paths. *)
LEMMA DeleteAssignedStreamType ==
  ASSUME TypeInv, NEW from, NEW next, DeleteAssignedStream(from, next),
         <<from, next>> \in {<<"delete", "release">>, <<"stop", "stopWrite">>,
                             <<"fallback", "fallbackWrite">>}
  PROVE  TypeInv'
<1>1. ControlInv /\ WorldType /\ pc # "idle" /\ cur \in Pipelines /\ pc = from
  BY TypeInvSplit DEF DeleteAssignedStream, TypeInv, WorkerInv
<1>2. cache' = cache /\ UNCHANGED <<obj, synced, clusters, ready, inst, secret, pod, cm, edits>>
  BY DEF DeleteAssignedStream, cluster, kids
<1>3. ASSUME GoTo(next), UNCHANGED queue PROVE ControlInv'
  <2>1. WorkerInv'
    BY <1>1, <1>3 DEF ControlInv, WorkerInv, GoTo, ClusterPCs, DeployPCs
  <2>2. next \in PCs
    BY DEF PCs
  <2>3. queue' \subseteq Pipelines
    BY <1>1, <1>3 DEF ControlInv
  <2> QED BY <1>1, <1>2, <1>3, <2>1, <2>2, <2>3, GoToControl
<1>4. ASSUME snap.st.at = None PROVE ControlInv' /\ WorldType'
  <2>1. GoTo(next) /\ UNCHANGED <<strm, faults, queue>>
    BY <1>4 DEF DeleteAssignedStream
  <2> QED BY <1>1, <1>2, <1>3, <2>1 DEF WorldType
<1>5. ASSUME snap.st.at # None PROVE ControlInv' /\ WorldType'
  <2>1. PICK r \in DeleteStream(snap.st.at, cur) :
          /\ Apply(snap.st.at, cur, r)
          /\ IF r.res = "ok" THEN GoTo(next) /\ UNCHANGED queue ELSE ReturnRetry
    BY <1>5 DEF DeleteAssignedStream
  <2>2. snap.st.at \in Instances
    BY <1>1, <1>5, ObjectCases DEF ControlInv, PipelineStatus
  <2>3. WorldType'
    BY <1>1, <1>2, <2>1, <2>2, DeleteReply, ApplyType DEF TypeInv
  <2>4. ControlInv'
    BY <1>1, <1>2, <1>3, <2>1, RetryControl
  <2> QED BY <2>3, <2>4
<1> QED BY <1>4, <1>5, TypeInvSplit

(* Removing the finalizer of a deleted pipeline. *)
LEMMA ReleaseFinalizerType == ASSUME TypeInv, ReleaseFinalizer PROVE TypeInv'
<1>1. ControlInv /\ WorldType /\ pc # "idle" /\ cur \in Pipelines
  BY TypeInvSplit DEF ReleaseFinalizer, TypeInv, WorkerInv
<1>2. WorldType' /\ cache' = cache
  BY <1>1 DEF WorldType, ReleaseFinalizer, cluster, kids
<1>3. ASSUME fresh PROVE ControlInv'
  <2>1. Store(cur, Absent) /\ Return({}, {})
    BY <1>3 DEF ReleaseFinalizer
  <2> QED BY <1>1, <1>2, <2>1, ObjectCases, StoreControl, ReturnControl
<1>4. ASSUME ~fresh PROVE ControlInv'
  BY <1>1, <1>2, <1>4, RetryControl DEF ReleaseFinalizer
<1> QED BY <1>2, <1>3, <1>4, TypeInvSplit

(* A pod that is asked to go is a well typed pod, or none. *)
LEMMA DeletedPodType ==
  ASSUME WorldType, NEW p \in Pipelines
  PROVE  DeletedPod(p) \in Pods \cup {None} /\ PodEvents(p) \subseteq {p}
<1>1. pod[p] \in Pods \cup {None}
  BY DEF WorldType
<1> QED BY <1>1 DEF DeletedPod, PodEvents, Pods

(* handleStopped. *)
LEMMA HandleStoppedType == ASSUME TypeInv, HandleStopped PROVE TypeInv'
<1>1. ControlInv /\ WorldType /\ pc # "idle" /\ cur \in Pipelines
  BY TypeInvSplit DEF HandleStopped, TypeInv, WorkerInv
<1>2. WorldType'
  BY <1>1, DeletedPodType DEF WorldType, HandleStopped, cluster
<1>3. ControlInv'
  <2>1. WriteStatus(StoppedStatus, {}, {}, PodEvents(cur)) /\ cache' = cache
    BY DEF HandleStopped
  <2> QED BY <1>1, <2>1, DeletedPodType, StatusTypes, WriteControl
<1> QED BY <1>2, <1>3, TypeInvSplit

(* The clearing of a placement whose reference was removed. *)
LEMMA HandleClusterFallbackType == ASSUME TypeInv, HandleClusterFallback PROVE TypeInv'
<1>1. ControlInv /\ WorldType /\ pc # "idle" /\ cur \in Pipelines
  BY TypeInvSplit DEF HandleClusterFallback, TypeInv, WorkerInv
<1>2. WorldType'
  BY <1>1 DEF WorldType, HandleClusterFallback, cluster, kids
<1>3. ControlInv'
  <2>1. /\ UpdateStatus([snap.st EXCEPT !.at = None, !.active = ""], {cur}, {}, {})
        /\ cache' = cache
    BY DEF HandleClusterFallback
  <2> QED BY <1>1, <2>1, StatusTypes, UpdateControl
<1> QED BY <1>2, <1>3, TypeInvSplit

(* The look-up of the referenced cluster. *)
LEMMA GetClusterType == ASSUME TypeInv, GetCluster PROVE TypeInv'
<1>1. ControlInv /\ WorldType /\ pc # "idle" /\ cur \in Pipelines /\ pc = "cluster"
  BY TypeInvSplit DEF GetCluster, TypeInv, WorkerInv
<1>2. UNCHANGED <<cache, clusters, ready, inst, strm, secret, edits, faults>>
  BY DEF GetCluster, cluster
<1>3. ASSUME snap.spec.ref \notin clusters PROVE ControlInv' /\ WorldType'
  <2>1. WriteStatus(UnplacedStatus("Failed", "ClusterNotFound"), {}, {cur}, {})
        /\ UNCHANGED <<pod, cm>>
    BY <1>3 DEF GetCluster, kids
  <2>2. ControlInv'
    BY <1>1, <1>2, <2>1, UnplacedTypes, WriteControl
  <2> QED BY <1>1, <1>2, <2>1, <2>2 DEF WorldType
<1>4. ASSUME snap.spec.ref \in clusters PROVE ControlInv' /\ WorldType'
  <2>1. /\ pod' = [pod EXCEPT ![cur] = DeletedPod(cur)]
        /\ cm' = [cm EXCEPT ![cur] = None]
        /\ queue' = queue \cup PodEvents(cur) \cup (IF cm[cur] = None THEN {} ELSE {cur})
        /\ GoTo("migrate") /\ UNCHANGED <<obj, synced>>
    BY <1>4 DEF GetCluster
  <2>2. queue' \subseteq Pipelines
    BY <1>1, <2>1, DeletedPodType DEF ControlInv
  <2>3. WorkerInv'
    BY <1>1, <2>1 DEF ControlInv, WorkerInv, GoTo, ClusterPCs, DeployPCs
  <2>4. ControlInv'
    BY <1>1, <1>2, <2>1, <2>2, <2>3, GoToControl DEF PCs
  <2> QED BY <1>1, <1>2, <2>1, <2>4, DeletedPodType DEF WorldType
<1> QED BY <1>3, <1>4, TypeInvSplit

(* The placement in the worker's copy, and the cluster it reconciles to. *)
LEMMA SnapTypes ==
  ASSUME TypeInv, pc # "idle"
  PROVE  /\ snap.st.at \in Instances \cup {None}
         /\ snap.st.at # None => /\ snap.st.at[1] \in Clusters /\ snap.st.at[2] \in Ordinals
                                 /\ snap.st.at = <<snap.st.at[1], snap.st.at[2]>>
         /\ snap.spec \in PipelineSpec
         /\ snap.spec.ref # None => snap.spec.ref \in Clusters
<1>1. snap.spec \in PipelineSpec /\ snap.st \in PipelineStatus
  BY StatusTypes DEF LiveObject
<1>2. snap.st.at \in Instances \cup {None}
  BY <1>1 DEF PipelineStatus
<1> QED BY <1>1, <1>2, RefsAssumption DEF PipelineSpec, Instances

(* The teardown on a cluster the pipeline no longer references. *)
LEMMA MigrateFromOldClusterType == ASSUME TypeInv, MigrateFromOldCluster PROVE TypeInv'
<1>1. ControlInv /\ WorldType /\ pc # "idle" /\ cur \in Pipelines /\ pc = "migrate"
  BY TypeInvSplit DEF MigrateFromOldCluster, TypeInv, WorkerInv
<1>2. cache' = cache /\ UNCHANGED <<obj, synced, clusters, ready, inst, secret, pod, cm, edits>>
  BY DEF MigrateFromOldCluster, cluster, kids
<1>3. ASSUME GoTo("schedule"), UNCHANGED queue PROVE ControlInv'
  <2>1. WorkerInv'
    BY <1>1, <1>3 DEF ControlInv, WorkerInv, GoTo, ClusterPCs, DeployPCs
  <2>2. queue' \subseteq Pipelines
    BY <1>1, <1>3 DEF ControlInv
  <2> QED BY <1>1, <1>2, <1>3, <2>1, <2>2, GoToControl DEF PCs
<1>4. ASSUME snap.st.at = None \/ snap.st.at[1] = snap.spec.ref PROVE ControlInv' /\ WorldType'
  <2>1. GoTo("schedule") /\ UNCHANGED <<strm, faults, queue>>
    BY <1>4 DEF MigrateFromOldCluster
  <2> QED BY <1>1, <1>2, <1>3, <2>1 DEF WorldType
<1>5. ASSUME ~(snap.st.at = None \/ snap.st.at[1] = snap.spec.ref)
      PROVE  ControlInv' /\ WorldType'
  <2>1. PICK r \in DeleteStream(snap.st.at, cur) :
          /\ Apply(snap.st.at, cur, r)
          /\ IF r.res = "ok" THEN GoTo("schedule") /\ UNCHANGED queue ELSE ReturnRetry
    BY <1>5 DEF MigrateFromOldCluster
  <2>2. snap.st.at \in Instances
    BY <1>1, <1>5, SnapTypes
  <2>3. WorldType'
    BY <1>1, <1>2, <2>1, <2>2, DeleteReply, ApplyType DEF TypeInv
  <2>4. ControlInv'
    BY <1>1, <1>2, <1>3, <2>1, RetryControl
  <2> QED BY <2>3, <2>4
<1> QED BY <1>4, <1>5, TypeInvSplit

(* pickInstance returns an ordinal of the cluster. *)
LEMMA PickInOrdinals ==
  ASSUME TypeInv, pc = "schedule", NEW c,
         NEW o \in PickInstance(CurrentOrdinal(c), ReadyOrdinals(c), LoadByOrdinal(c, cur))
  PROVE  o \in Ordinals
<1>1. ReadyOrdinals(c) \subseteq Ordinals
  BY DEF ReadyOrdinals
<1> QED BY <1>1 DEF PickInstance

(* The choice of an instance and the rendering of the stream. *)
LEMMA ScheduleType == ASSUME TypeInv, Schedule PROVE TypeInv'
<1>1. ControlInv /\ WorldType /\ pc # "idle" /\ cur \in Pipelines /\ pc = "schedule"
  BY TypeInvSplit DEF Schedule, TypeInv, WorkerInv
<1>2. WorldType' /\ cache' = cache
  BY <1>1 DEF WorldType, Schedule, cluster, kids
<1>3. ASSUME NEW ph \in {"Failed", "Pending"}, NEW t \in SUBSET {cur},
             NEW re \in {"ClusterNotReady", "RenderError", "SecretNotFound"},
             WriteStatus(UnplacedStatus(ph, re), {}, t, {})
      PROVE  ControlInv'
  <2>1. UnplacedStatus(ph, re) \in PipelineStatus
    BY UnplacedTypes
  <2> QED BY <1>1, <1>2, <1>3, <2>1, WriteControl
<1>4. ASSUME NEW o \in PickInstance(CurrentOrdinal(snap.spec.ref), ReadyOrdinals(snap.spec.ref),
                                    LoadByOrdinal(snap.spec.ref, cur)),
             tgt' = <<snap.spec.ref, o>>, body' = RenderedBody,
             pc' = IF snap.st.hash = <<tgt', body'>> THEN "gate" ELSE "ensure",
             UNCHANGED <<obj, synced, cur, snap, fresh, queue, timers>>
      PROVE  ControlInv'
  <2>1. snap.spec.ref \in Clusters /\ snap.spec \in PipelineSpec
    BY <1>1, SnapTypes DEF ControlInv, WorkerInv, ClusterPCs
  <2>2. tgt' \in Instances /\ tgt'[1] = snap.spec.ref
    BY <1>1, <1>4, <2>1, PickInOrdinals DEF Instances
  <2>3. body' \in Bodies /\ body'.cfg = snap.spec.cfg
    BY <1>1, <1>4, <2>1 DEF RenderedBody, Bodies, PipelineSpec, WorldType
  <2>4. pc' \in {"gate", "ensure"}
    BY <1>4
  <2>5. WorkerInv'
    BY <1>1, <1>4, <2>2, <2>3, <2>4 DEF ControlInv, WorkerInv, ClusterPCs, DeployPCs
  <2>6. FreshInv'
    BY <1>1, <1>2, <1>4 DEF ControlInv, FreshInv
  <2> QED BY <1>1, <1>2, <1>4, <2>2, <2>3, <2>4, <2>5, <2>6 DEF ControlInv, PCs
<1>5. ControlInv'
  BY <1>1, <1>3, <1>4 DEF Schedule
<1> QED BY <1>2, <1>5, TypeInvSplit

(* The hash gate, which decides whether a deployment is needed. *)
LEMMA GateType == ASSUME TypeInv, Gate PROVE TypeInv'
<1>1. ControlInv /\ WorldType /\ pc # "idle" /\ cur \in Pipelines /\ pc = "gate"
      /\ tgt \in Instances
  BY TypeInvSplit DEF Gate, TypeInv, WorkerInv, DeployPCs
<1>2. PICK r \in GetStreamStatus(tgt, cur) :
        /\ faults' = faults + r.fault
        /\ GoTo(IF r.res \in {"StreamMissing", "StreamNotActive"} THEN "ensure" ELSE "report")
  BY DEF Gate
<1>3. /\ cache' = cache
      /\ UNCHANGED <<obj, synced, queue, clusters, ready, inst, strm, secret, pod, cm, edits>>
  BY DEF Gate, cluster, kids
<1>4. WorldType'
  BY <1>1, <1>2, <1>3, StatusReply DEF WorldType, TypeInv
<1>5. PICK next \in {"ensure", "report"} : GoTo(next)
  BY <1>2
<1>6. WorkerInv'
  BY <1>1, <1>5 DEF ControlInv, WorkerInv, GoTo, ClusterPCs, DeployPCs
<1>7. queue' \subseteq Pipelines /\ next \in PCs
  BY <1>1, <1>3 DEF ControlInv, PCs
<1>8. ControlInv'
  BY <1>1, <1>3, <1>5, <1>6, <1>7, GoToControl
<1> QED BY <1>4, <1>8, TypeInvSplit

(* The status read after a deployment. *)
LEMMA ConfirmType == ASSUME TypeInv, Confirm PROVE TypeInv'
<1>1. ControlInv /\ WorldType /\ pc # "idle" /\ cur \in Pipelines /\ pc = "confirm"
      /\ tgt \in Instances
  BY TypeInvSplit DEF Confirm, TypeInv, WorkerInv, DeployPCs
<1>2. PICK r \in GetStreamStatus(tgt, cur) :
        /\ faults' = faults + r.fault
        /\ GoTo(IF r.res = "StreamMissing" THEN "recreate" ELSE "report")
  BY DEF Confirm
<1>3. /\ cache' = cache
      /\ UNCHANGED <<obj, synced, queue, clusters, ready, inst, strm, secret, pod, cm, edits>>
  BY DEF Confirm, cluster, kids
<1>4. WorldType'
  BY <1>1, <1>2, <1>3, StatusReply DEF WorldType, TypeInv
<1>5. PICK next \in {"recreate", "report"} : GoTo(next)
  BY <1>2
<1>6. WorkerInv'
  BY <1>1, <1>5 DEF ControlInv, WorkerInv, GoTo, ClusterPCs, DeployPCs
<1>7. queue' \subseteq Pipelines /\ next \in PCs
  BY <1>1, <1>3 DEF ControlInv, PCs
<1>8. ControlInv'
  BY <1>1, <1>3, <1>5, <1>6, <1>7, GoToControl
<1> QED BY <1>4, <1>8, TypeInvSplit

(* Both calls of EnsureStream: the deployment and the recreation. *)
LEMMA EnsureType ==
  ASSUME TypeInv, NEW from, NEW next, Ensure(from, next),
         <<from, next>> \in {<<"ensure", "confirm">>, <<"recreate", "report">>}
  PROVE  TypeInv'
<1>1. ControlInv /\ WorldType /\ pc # "idle" /\ cur \in Pipelines /\ pc = from
      /\ tgt \in Instances /\ body \in Bodies
  BY TypeInvSplit DEF Ensure, TypeInv, WorkerInv, DeployPCs
<1>2. cache' = cache /\ UNCHANGED <<clusters, ready, inst, secret, pod, cm, edits>>
  BY DEF Ensure, cluster, kids
<1>3. PICK r \in EnsureStream(tgt, cur, body) :
        /\ Apply(tgt, cur, r)
        /\ \/ GoTo(next) /\ UNCHANGED <<obj, synced, queue>>
           \/ WriteStatus(UnplacedStatus("Failed", "StreamConfigInvalid"), {}, {}, {})
           \/ ReturnRetry /\ UNCHANGED <<obj, synced>>
  BY DEF Ensure
<1>4. WorldType'
  BY <1>1, <1>2, <1>3, EnsureReply, ApplyType DEF TypeInv
<1>5. ASSUME GoTo(next), UNCHANGED <<obj, synced, queue>> PROVE ControlInv'
  <2>1. WorkerInv'
    BY <1>1, <1>5 DEF ControlInv, WorkerInv, GoTo, ClusterPCs, DeployPCs
  <2>2. queue' \subseteq Pipelines /\ next \in PCs
    BY <1>1, <1>5 DEF ControlInv, PCs
  <2> QED BY <1>1, <1>2, <1>5, <2>1, <2>2, GoToControl
<1>6. ASSUME WriteStatus(UnplacedStatus("Failed", "StreamConfigInvalid"), {}, {}, {})
      PROVE  ControlInv'
  BY <1>1, <1>2, <1>6, UnplacedTypes, WriteControl
<1>7. ASSUME ReturnRetry, UNCHANGED <<obj, synced>> PROVE ControlInv'
  BY <1>1, <1>2, <1>7, RetryControl
<1> QED BY <1>3, <1>4, <1>5, <1>6, <1>7, TypeInvSplit

(* The final status write of a placed pipeline. *)
LEMMA ReportType == ASSUME TypeInv, Report PROVE TypeInv'
<1>1. ControlInv /\ WorldType /\ pc # "idle" /\ cur \in Pipelines /\ pc \in DeployPCs
      /\ tgt \in Instances
  BY TypeInvSplit DEF Report, TypeInv, WorkerInv, DeployPCs
<1>2. PICK r \in GetStreamStatus(tgt, cur) :
        /\ faults' = faults + r.fault
        /\ WriteStatus(PlacedStatus(r.res), {}, {cur}, {})
  BY DEF Report
<1>3. cache' = cache /\ UNCHANGED <<clusters, ready, inst, strm, secret, pod, cm, edits>>
  BY DEF Report, cluster, kids
<1>4. WorldType'
  BY <1>1, <1>2, <1>3, StatusReply DEF WorldType, TypeInv
<1>5. PlacedStatus(r.res) \in PipelineStatus
  BY <1>1, <1>2, StatusReply, PlacedTypes DEF TypeInv
<1>6. ControlInv'
  BY <1>1, <1>2, <1>3, <1>5, WriteControl
<1> QED BY <1>4, <1>6, TypeInvSplit

(* The pod mode: ConfigMap, pod and status. *)
LEMMA ApplyPodType == ASSUME TypeInv, ApplyPod PROVE TypeInv'
<1>1. ControlInv /\ WorldType /\ pc # "idle" /\ cur \in Pipelines
  BY TypeInvSplit DEF ApplyPod, TypeInv, WorkerInv
<1>2. cache' = cache /\ UNCHANGED <<clusters, ready, inst, strm, secret, edits, faults>>
  BY DEF ApplyPod, cluster
<1>3. ASSUME snap.spec.cfg \in BadRender PROVE ControlInv' /\ WorldType'
  <2>1. /\ UpdateStatus([snap.st EXCEPT !.phase = "Failed", !.reason = "RenderError"],
                        {}, {}, {})
        /\ UNCHANGED <<pod, cm>>
    BY <1>3 DEF ApplyPod, kids
  <2>2. ControlInv'
    BY <1>1, <1>2, <2>1, StatusTypes, UpdateControl
  <2> QED BY <1>1, <1>2, <2>1, <2>2 DEF WorldType
<1>4. ASSUME snap.spec.cfg \notin BadRender PROVE ControlInv' /\ WorldType'
  <2>1. snap.spec.cfg \in Configs
    BY <1>1, SnapTypes DEF PipelineSpec
  <2>2. cm' = [cm EXCEPT ![cur] = snap.spec.cfg]
    BY <1>4 DEF ApplyPod
  <2>3. NewPod \in Pods
    BY <2>1 DEF NewPod, Pods, PodPhases
  <2>4. ASSUME pod[cur] # None /\ pod[cur].cfg # snap.spec.cfg PROVE ControlInv' /\ WorldType'
    <3>1. pod' = [pod EXCEPT ![cur] = DeletedPod(cur)] /\ ReturnRetry /\ UNCHANGED <<obj, synced>>
      BY <1>4, <2>4 DEF ApplyPod
    <3>2. ControlInv'
      BY <1>1, <1>2, <3>1, RetryControl
    <3> QED BY <1>1, <1>2, <2>1, <2>2, <3>1, <3>2, DeletedPodType DEF WorldType
  <2>5. ASSUME ~(pod[cur] # None /\ pod[cur].cfg # snap.spec.cfg)
        PROVE  ControlInv' /\ WorldType'
    <3>1. PICK ev \in SUBSET {cur} :
            /\ pod' = [pod EXCEPT ![cur] = IF @ = None THEN NewPod ELSE @]
            /\ WriteStatus(PodStatus(pod'[cur].phase), {}, {}, ev)
      BY <1>4, <2>5 DEF ApplyPod
    <3>2. pod'[cur] \in Pods /\ pod' \in [Pipelines -> Pods \cup {None}]
      BY <1>1, <2>3, <3>1 DEF WorldType
    <3>3. pod'[cur].phase \in PodPhases
      BY <3>2 DEF Pods
    <3>4. ControlInv'
      BY <1>1, <1>2, <3>1, <3>3, StatusTypes, WriteControl
    <3> QED BY <1>1, <1>2, <2>1, <2>2, <3>2, <3>4 DEF WorldType
  <2> QED BY <2>4, <2>5
<1> QED BY <1>3, <1>4, TypeInvSplit

-----------------------------------------------------------------------------
(* Type correctness of the steps of the runtime, of users and of the world *)

(* The controller runtime: a cache update and an elapsed RequeueAfter. *)
LEMMA RuntimeType ==
  ASSUME TypeInv, NEW p \in Pipelines, CacheSync(p) \/ TimerFire(p) PROVE TypeInv'
<1>1. ControlInv /\ WorldType
  BY TypeInvSplit
<1>2. WorldType'
  BY <1>1 DEF WorldType, CacheSync, TimerFire, cluster, kids
<1>3. ASSUME CacheSync(p) PROVE ControlInv'
  <2>1. /\ UNCHANGED <<obj, timers, pc, cur, snap, fresh, tgt, body>>
        /\ cache' = [cache EXCEPT ![p] = obj[p]] /\ synced' = [synced EXCEPT ![p] = TRUE]
        /\ queue' = queue \cup {p}
    BY <1>3 DEF CacheSync, worker
  <2>2. WorkerInv'
    BY <1>1, <2>1 DEF ControlInv, WorkerInv
  <2>3. fresh => cur \in Pipelines
    BY <1>1 DEF ControlInv, WorkerInv
  <2>4. FreshInv'
    BY <1>1, <2>1, <2>3 DEF ControlInv, FreshInv
  <2> QED BY <1>1, <2>1, <2>2, <2>4 DEF ControlInv
<1>4. ASSUME TimerFire(p) PROVE ControlInv'
  BY <1>1, <1>4 DEF ControlInv, WorkerInv, FreshInv, TimerFire, worker
<1> QED BY <1>2, <1>3, <1>4, TypeInvSplit

(* A restart of the operator process. *)
LEMMA CrashType == ASSUME TypeInv, Crash PROVE TypeInv'
<1>1. ControlInv /\ WorldType
  BY TypeInvSplit
<1>2. WorldType'
  BY <1>1, BoundsAssumption DEF WorldType, Crash, Fault, CanFault, cluster, kids
<1>3. ControlInv'
  BY <1>1, ObjectCases DEF ControlInv, WorkerInv, FreshInv, Crash, PCs, ClusterPCs, DeployPCs
<1> QED BY <1>2, <1>3, TypeInvSplit

(* A user's write to a pipeline object. *)
LEMMA UserWriteType ==
  ASSUME TypeInv, NEW p \in Pipelines, NEW o \in Object, UserWrite(p, o) PROVE TypeInv'
<1>1. ControlInv /\ WorldType
  BY TypeInvSplit
<1>2. WorldType'
  BY <1>1, BoundsAssumption DEF WorldType, UserWrite, cluster, kids
<1>3. /\ Store(p, o) /\ fresh' = (fresh /\ cur # p)
      /\ UNCHANGED <<cache, queue, timers, pc, cur, snap, tgt, body>>
  BY DEF UserWrite
<1>4. /\ obj' \in [Pipelines -> Object] /\ synced' \in [Pipelines -> BOOLEAN]
      /\ \A q \in Pipelines : synced'[q] => cache'[q] = obj'[q]
      /\ \A q \in Pipelines : q # p => obj'[q] = obj[q] /\ synced'[q] = synced[q]
  BY <1>1, <1>3, StoreControl
<1>5. WorkerInv'
  BY <1>1, <1>3 DEF ControlInv, WorkerInv
<1>6. fresh => cur \in Pipelines
  BY <1>1 DEF ControlInv, WorkerInv
<1>7. FreshInv'
  BY <1>1, <1>3, <1>4, <1>6 DEF ControlInv, FreshInv
<1>8. fresh' \in BOOLEAN
  BY <1>1, <1>3 DEF ControlInv
<1>9. ControlInv'
  BY <1>1, <1>3, <1>4, <1>5, <1>7, <1>8 DEF ControlInv
<1> QED BY <1>2, <1>9, TypeInvSplit

(* What a user may write, given what is there. *)
LEMMA UserStepWrites ==
  ASSUME TypeInv, NEW p \in Pipelines, UserStep(p)
  PROVE  \E o \in Object :
           /\ UserWrite(p, o)
           /\ \/ o.st = NewStatus /\ (o.life = "live" \/ o = Absent)
                 /\ (obj[p].life = "absent" \/ ~obj[p].fin)
              \/ /\ obj[p] \in LiveObject /\ obj[p].life = "live" /\ o \in LiveObject
                 /\ o.fin = obj[p].fin /\ o.st.at = obj[p].st.at
                 /\ \/ o.life = "live" /\ ~o.st.observed
                    \/ o.life = "deleting" /\ o.spec = obj[p].spec
<1>1. obj[p] \in Object
  BY DEF TypeInv, TypeOK
<1>2. CASE CreatePipeline(p)
  <2>1. PICK s \in PipelineSpec :
          UserWrite(p, [life |-> "live", fin |-> FALSE, spec |-> s, st |-> NewStatus])
    BY <1>2 DEF CreatePipeline
  <2>2. [life |-> "live", fin |-> FALSE, spec |-> s, st |-> NewStatus] \in Object
    BY NewStatusType, ObjectCases DEF LiveObject
  <2> QED BY <1>2, <2>1, <2>2 DEF CreatePipeline
<1>3. CASE EditPipeline(p)
  <2>1. PICK s \in PipelineSpec : UserWrite(p, [obj[p] EXCEPT !.spec = s, !.st.observed = FALSE])
    BY <1>3 DEF EditPipeline
  <2>2. obj[p] \in LiveObject /\ obj[p].life = "live"
    BY <1>1, <1>3, ObjectCases DEF EditPipeline
  <2> DEFINE o == [obj[p] EXCEPT !.spec = s, !.st.observed = FALSE]
  <2>3. o \in LiveObject /\ o.life = "live" /\ o.fin = obj[p].fin
        /\ o.st.at = obj[p].st.at /\ ~o.st.observed
    BY <2>2 DEF LiveObject, PipelineStatus
  <2> QED BY <2>1, <2>2, <2>3, ObjectCases
<1>4. CASE DeletePipeline(p)
  <2>1. obj[p] \in LiveObject /\ obj[p].life = "live"
    BY <1>1, <1>4, ObjectCases DEF DeletePipeline
  <2>2. CASE obj[p].fin
    <3> DEFINE o == [obj[p] EXCEPT !.life = "deleting"]
    <3>1. UserWrite(p, o)
      BY <1>4, <2>2 DEF DeletePipeline
    <3>2. o \in LiveObject /\ o.life = "deleting" /\ o.fin = obj[p].fin
          /\ o.st = obj[p].st /\ o.spec = obj[p].spec
      BY <2>1 DEF LiveObject
    <3> QED BY <2>1, <3>1, <3>2, ObjectCases
  <2>3. CASE ~obj[p].fin
    BY <1>4, <2>3, ObjectCases DEF DeletePipeline, Absent
  <2> QED BY <2>2, <2>3
<1> QED BY <1>2, <1>3, <1>4 DEF UserStep

(* Every step a user may take on a pipeline. *)
LEMMA UserStepType == ASSUME TypeInv, NEW p \in Pipelines, UserStep(p) PROVE TypeInv'
BY UserStepWrites, UserWriteType

(* Everything else leaves the API objects and the worker alone. *)
LEMMA UnseenType ==
  ASSUME TypeInv, UNCHANGED unseen, queue' \subseteq Pipelines PROVE ControlInv'
BY TypeInvSplit DEF ControlInv, WorkerInv, FreshInv, unseen, worker

WorldStep ==
  \/ \E p \in Pipelines : KubeStep(p) \/ PodTrouble(p)
  \/ \E i \in Instances : \/ Recovery(i) \/ InstanceDown(i) \/ InstanceCut(i) \/ ReadyLost(i)
                          \/ \E p \in Pipelines : StreamDrop(i, p) \/ StreamStall(i, p)
  \/ \E c \in Clusters : DeleteCluster(c) \/ CreateCluster(c)
  \/ ChangeSecret

(* Every step of clusters, instances, pods and secrets; none touches an       *)
(* object, the cache or the worker.                                           *)
LEMMA WorldStepType == ASSUME TypeInv, WorldStep PROVE TypeInv' /\ UNCHANGED unseen
<1>0. WorldType /\ queue \subseteq Pipelines
  BY TypeInvSplit DEF ControlInv
<1>f. ASSUME NEW k, Fault(k) PROVE faults' \in 0 .. MaxFaults
  BY <1>0, <1>f, BoundsAssumption DEF Fault, CanFault, WorldType
<1>1. ASSUME NEW p \in Pipelines, KubeStep(p) \/ PodTrouble(p)
      PROVE  WorldType' /\ UNCHANGED unseen /\ queue' \subseteq Pipelines
  <2>1. UNCHANGED <<unseen, cluster, strm, secret>> /\ queue' = queue \cup {p}
    BY <1>1 DEF KubeStep, PodTrouble, PodStarts, PodGone, CollectChildren
  <2>2. pod' \in [Pipelines -> Pods \cup {None}]
    <3>1. pod \in [Pipelines -> Pods \cup {None}]
      BY <1>0 DEF WorldType
    <3>2. ASSUME NEW ph \in PodPhases, pod[p] # None, pod' = [pod EXCEPT ![p].phase = ph]
          PROVE  pod' \in [Pipelines -> Pods \cup {None}]
      <4>1. pod[p] \in Pods
        BY <3>1, <3>2
      <4>2. [pod[p] EXCEPT !.phase = ph] \in Pods
        BY <4>1 DEF Pods
      <4> QED BY <3>1, <3>2, <4>2
    <3>3. CASE PodStarts(p)
      BY <3>2, <3>3 DEF PodStarts, PodPhases
    <3>4. CASE PodTrouble(p)
      BY <3>2, <3>4 DEF PodTrouble, PodPhases
    <3>5. CASE PodGone(p) \/ CollectChildren(p)
      BY <1>0, <3>1, <3>5, DeletedPodType DEF PodGone, CollectChildren
    <3> QED BY <1>1, <3>3, <3>4, <3>5 DEF KubeStep
  <2>3. cm' \in [Pipelines -> Configs \cup {None}]
    BY <1>0, <1>1
    DEF WorldType, KubeStep, PodTrouble, PodStarts, PodGone, CollectChildren
  <2>4. faults' \in 0 .. MaxFaults
    BY <1>0, <1>1, <1>f
    DEF WorldType, KubeStep, PodTrouble, PodStarts, PodGone, CollectChildren
  <2> QED BY <1>0, <2>1, <2>2, <2>3, <2>4 DEF WorldType, unseen, cluster
<1>2. ASSUME NEW i \in Instances, Recovery(i) \/ InstanceDown(i) \/ InstanceCut(i) \/ ReadyLost(i)
      PROVE  WorldType' /\ UNCHANGED unseen /\ queue' \subseteq Pipelines
  <2>1. UNCHANGED <<unseen, queue, clusters, secret, pod, cm>>
    BY <1>2 DEF Recovery, InstanceUp, InstanceHeal, ReadyGained, InstanceDown, InstanceCut,
                ReadyLost, kids
  <2>2. /\ ready' \subseteq Instances
        /\ inst' \in [Instances -> {"up", "cut", "down"}]
        /\ strm' \in [Instances -> [Pipelines -> Streams \cup {None}]]
    BY <1>0, <1>2 DEF WorldType, Recovery, InstanceUp, InstanceHeal, ReadyGained, InstanceDown,
                      InstanceCut, ReadyLost
  <2>3. faults' \in 0 .. MaxFaults
    BY <1>0, <1>2, <1>f DEF WorldType, Recovery, InstanceUp, InstanceHeal, ReadyGained,
                            InstanceDown, InstanceCut, ReadyLost
  <2> QED BY <1>0, <2>1, <2>2, <2>3 DEF WorldType, unseen
<1>3. ASSUME NEW i \in Instances, NEW p \in Pipelines, StreamDrop(i, p) \/ StreamStall(i, p)
      PROVE  WorldType' /\ UNCHANGED unseen /\ queue' \subseteq Pipelines
  <2>1. UNCHANGED <<unseen, queue, cluster, secret, kids>> /\ faults' \in 0 .. MaxFaults
    BY <1>3, <1>f DEF StreamDrop, StreamStall
  <2>2. strm \in [Instances -> [Pipelines -> Streams \cup {None}]]
    BY <1>0 DEF WorldType
  <2>3. CASE StreamDrop(i, p)
    BY <1>0, <2>1, <2>2, <2>3 DEF StreamDrop, WorldType, unseen, cluster, kids
  <2>4. CASE StreamStall(i, p)
    <3>1. strm[i][p] \in Streams
      BY <2>2, <2>4 DEF StreamStall
    <3>2. [strm[i][p] EXCEPT !.active = FALSE] \in Streams
      BY <3>1 DEF Streams
    <3>3. strm' = [strm EXCEPT ![i] = [strm[i] EXCEPT ![p] = [strm[i][p] EXCEPT !.active = FALSE]]]
      BY <2>2, <2>4 DEF StreamStall
    <3>4. strm' \in [Instances -> [Pipelines -> Streams \cup {None}]]
      BY <2>2, <3>2, <3>3
    <3> QED BY <1>0, <2>1, <3>4 DEF WorldType, unseen, cluster, kids
  <2> QED BY <1>3, <2>3, <2>4
<1>4. ASSUME NEW c \in Clusters, DeleteCluster(c) \/ CreateCluster(c)
      PROVE  WorldType' /\ UNCHANGED unseen /\ queue' \subseteq Pipelines
  BY <1>0, <1>4, <1>f DEF DeleteCluster, CreateCluster, WorldType, unseen, kids
<1>5. ASSUME ChangeSecret PROVE WorldType' /\ UNCHANGED unseen /\ queue' \subseteq Pipelines
  BY <1>0, <1>5, <1>f DEF ChangeSecret, WorldType, unseen, cluster, kids
<1>6. WorldType' /\ UNCHANGED unseen /\ queue' \subseteq Pipelines
  BY <1>1, <1>2, <1>3, <1>4, <1>5 DEF WorldStep
<1> QED BY <1>6, UnseenType, TypeInvSplit

-----------------------------------------------------------------------------
(* Type correctness *)

(* The steps of the system, grouped by who takes them. *)
LEMMA NextCases ==
  ASSUME Next
  PROVE  \/ WorkerStep
         \/ \E p \in Pipelines : Reconcile(p) \/ CacheSync(p) \/ TimerFire(p) \/ UserStep(p)
         \/ Crash
         \/ WorldStep
BY DEF Next, Disturbance, WorldStep

(* The steps inside one Reconcile together. *)
LEMMA WorkerStepType == ASSUME TypeInv, WorkerStep PROVE TypeInv'
BY AddFinalizerType, DeleteAssignedStreamType, ReleaseFinalizerType, HandleStoppedType,
   HandleClusterFallbackType, GetClusterType, MigrateFromOldClusterType, ScheduleType, GateType,
   EnsureType, ConfirmType, ReportType, ApplyPodType
DEF WorkerStep

(* The initial states are well typed. *)
LEMMA TypeInvInit == ASSUME Init PROVE TypeInv
<1>1. WorldType
  BY BoundsAssumption DEF Init, WorldType
<1>2. ControlInv
  BY ObjectCases DEF Init, ControlInv, WorkerInv, FreshInv, PCs, ClusterPCs, DeployPCs
<1> QED BY <1>1, <1>2, TypeInvSplit

(* Every step keeps the type invariant. *)
LEMMA TypeInvNext == ASSUME TypeInv, [Next]_vars PROVE TypeInv'
<1>1. CASE Next
  BY <1>1, NextCases, WorkerStepType, ReconcileType, RuntimeType, UserStepType, CrashType,
     WorldStepType
<1>2. CASE UNCHANGED vars
  BY <1>2 DEF vars, TypeInv, TypeOK, WorkerInv, FreshInv
<1> QED BY <1>1, <1>2

(* In every reachable state, for every number of pipelines and instances,     *)
(* variables have their types, the worker holds a live copy while inside      *)
(* Reconcile, and a cache entry marked as synced equals the stored object.    *)
THEOREM TypeInvariant == SafetySpec => []TypeInv
<1>1. Init => TypeInv
  BY TypeInvInit
<1>2. TypeInv /\ [Next]_vars => TypeInv'
  BY TypeInvNext
<1> QED BY <1>1, <1>2, PTL DEF SafetySpec

(* Every reachable state of the placement controller is well-typed: the       *)
(* status fields hold what the CRD allows, and the worker never indexes a     *)
(* cluster instance that does not exist.                                      *)
THEOREM TypeCorrect == SafetySpec => []TypeOK
<1>1. TypeInv => TypeOK
  BY DEF TypeInv
<1> QED BY <1>1, TypeInvariant, PTL

-----------------------------------------------------------------------------
(***************************************************************************)
(* The safety properties of StreamPlacement, proved from its type           *)
(* invariant.  The proofs share one classification of steps: how a step may *)
(* change a Pipeline object (ObjStep), and how it may change a stream       *)
(* (StreamStep).                                                            *)
(***************************************************************************)

(* The statuses Reconcile writes, by the place where it does. *)
StatusWritten(st) ==
  \/ pc = "stopWrite" /\ st = StoppedStatus
  \/ pc = "fallbackWrite" /\ st = [snap.st EXCEPT !.at = None, !.active = ""]
  \/ /\ pc \in ClusterPCs
     /\ \E ph \in {"Failed", "Pending"},
           re \in {"ClusterNotFound", "ClusterNotReady", "RenderError", "SecretNotFound",
                   "StreamConfigInvalid"} : st = UnplacedStatus(ph, re)
  \/ /\ pc = "report"
     /\ \E a \in {"Running", "StreamNotActive", "StreamMissing", "StatusUnavailable"} :
          st = PlacedStatus(a)
  \/ pc = "pod" /\ \E ph \in PodPhases : st = PodStatus(ph)
  \/ pc = "pod" /\ st = [snap.st EXCEPT !.phase = "Failed", !.reason = "RenderError"]

(* Reconcile stored status st in the object it had read. *)
StatusStored(p, st) ==
  /\ pc # "idle" /\ cur = p /\ fresh /\ snap = obj[p] /\ obj[p] \in LiveObject
  /\ st \in PipelineStatus /\ StatusWritten(st)
  /\ obj'[p] = [obj[p] EXCEPT !.st = st]

FinalizerAdded(p) ==
  /\ pc = "finalizer" /\ cur = p /\ fresh /\ snap = obj[p] /\ obj[p] \in LiveObject
  /\ obj'[p] = [obj[p] EXCEPT !.fin = TRUE]

Released(p) ==
  /\ pc = "release" /\ cur = p /\ fresh /\ snap = obj[p]
  /\ obj'[p] = Absent

(* A user wrote the object: see UserStepWrites. *)
UserWrote(p) ==
  LET o == obj'[p] IN
  /\ UNCHANGED <<pc, cur, snap, tgt, body, cache, strm, pod, cm>>
  /\ \/ /\ o.st = NewStatus /\ (o.life = "live" \/ o = Absent)
        /\ obj[p].life = "absent" \/ ~obj[p].fin
     \/ /\ obj[p] \in LiveObject /\ obj[p].life = "live" /\ o \in LiveObject
        /\ o.fin = obj[p].fin /\ o.st.at = obj[p].st.at
        /\ \/ o.life = "live" /\ ~o.st.observed
           \/ o.life = "deleting" /\ o.spec = obj[p].spec

ObjectStep(p) ==
  \/ obj'[p] = obj[p]
  \/ \E st \in PipelineStatus : StatusStored(p, st)
  \/ FinalizerAdded(p)
  \/ Released(p)
  \/ UserWrote(p)

(* A write changes the object it names and no other. *)
LEMMA StoreChange ==
  ASSUME TypeInv, NEW p \in Pipelines, NEW o, Store(p, o)
  PROVE  obj'[p] = o /\ \A q \in Pipelines : q # p => obj'[q] = obj[q]
BY DEF Store, TypeInv, TypeOK

(* A status write either stores the status in what Reconcile read or leaves    *)
(* every object alone.                                                         *)
LEMMA UpdateStores ==
  ASSUME TypeInv, pc # "idle", NEW st \in PipelineStatus, NEW q, NEW t, NEW ev,
         UpdateStatus(st, q, t, ev) \/ WriteStatus(st, q, t, ev), StatusWritten(st)
  PROVE  \A p \in Pipelines : obj'[p] = obj[p] \/ StatusStored(p, st)
<1>1. cur \in Pipelines /\ snap.life # "absent"
  BY DEF TypeInv, WorkerInv
<1>2. CASE UpdateStatus(st, q, t, ev) /\ fresh
  <2>1. snap = obj[cur] /\ obj[cur] \in LiveObject
    BY <1>1, <1>2, ObjectCases DEF TypeInv, TypeOK, FreshInv
  <2>2. Store(cur, [obj[cur] EXCEPT !.st = st])
    BY <1>2 DEF UpdateStatus
  <2>3. obj'[cur] = [obj[cur] EXCEPT !.st = st] /\ \A p \in Pipelines : p # cur => obj'[p] = obj[p]
    BY <1>1, <2>2, StoreChange
  <2> QED BY <1>1, <1>2, <2>1, <2>3 DEF StatusStored
<1>3. CASE UpdateStatus(st, q, t, ev) /\ ~fresh
  BY <1>3 DEF UpdateStatus
<1>4. CASE WriteStatus(st, q, t, ev)
  BY <1>2, <1>3, <1>4 DEF WriteStatus
<1> QED BY <1>2, <1>3, <1>4

(* Each step inside Reconcile changes an object in one of the ways ObjectStep *)
(* lists.                                                                     *)
LEMMA WorkerObjectStep ==
  ASSUME TypeInv, WorkerStep, NEW p \in Pipelines PROVE ObjectStep(p)
<1>u. ASSUME obj' = obj PROVE ObjectStep(p)
  BY <1>u DEF ObjectStep
<1>w. ASSUME NEW st \in PipelineStatus, NEW q, NEW t, NEW ev, pc # "idle", StatusWritten(st),
             UpdateStatus(st, q, t, ev) \/ WriteStatus(st, q, t, ev)
      PROVE  ObjectStep(p)
  BY <1>w, UpdateStores DEF ObjectStep
<1>x. ASSUME pc \in ClusterPCs, NEW q, NEW t, NEW ev, NEW ph \in {"Failed", "Pending"},
             NEW re \in {"ClusterNotFound", "ClusterNotReady", "RenderError", "SecretNotFound",
                         "StreamConfigInvalid"},
             WriteStatus(UnplacedStatus(ph, re), q, t, ev)
      PROVE  ObjectStep(p)
  <2>1. UnplacedStatus(ph, re) \in PipelineStatus
    BY UnplacedTypes
  <2>2. StatusWritten(UnplacedStatus(ph, re)) /\ pc # "idle"
    BY <1>x DEF StatusWritten, ClusterPCs, DeployPCs
  <2> QED BY <1>w, <1>x, <2>1, <2>2
<1>1. CASE AddFinalizer
  <2>1. cur \in Pipelines /\ snap.life # "absent" /\ pc = "finalizer"
    BY <1>1 DEF AddFinalizer, TypeInv, WorkerInv
  <2>2. CASE fresh
    <3>1. snap = obj[cur] /\ obj[cur] \in LiveObject
      BY <2>1, <2>2, ObjectCases DEF TypeInv, TypeOK, FreshInv
    <3>2. Store(cur, [obj[cur] EXCEPT !.fin = TRUE])
      BY <1>1, <2>2 DEF AddFinalizer
    <3> QED BY <2>1, <2>2, <3>1, <3>2, StoreChange DEF ObjectStep, FinalizerAdded
  <2>3. CASE ~fresh
    BY <1>1, <1>u, <2>3 DEF AddFinalizer
  <2> QED BY <2>2, <2>3
<1>2. CASE ReleaseFinalizer
  <2>1. cur \in Pipelines /\ pc = "release"
    BY <1>2 DEF ReleaseFinalizer, TypeInv, WorkerInv
  <2>2. CASE fresh
    <3>1. snap = obj[cur]
      BY <2>1, <2>2 DEF TypeInv, FreshInv
    <3>2. Store(cur, Absent)
      BY <1>2, <2>2 DEF ReleaseFinalizer
    <3> QED BY <2>1, <2>2, <3>1, <3>2, StoreChange DEF ObjectStep, Released
  <2>3. CASE ~fresh
    BY <1>2, <1>u, <2>3 DEF ReleaseFinalizer
  <2> QED BY <2>2, <2>3
<1>3. CASE HandleStopped
  <2>1. pc = "stopWrite" /\ WriteStatus(StoppedStatus, {}, {}, PodEvents(cur))
    BY <1>3 DEF HandleStopped
  <2> QED BY <1>w, <2>1, StatusTypes DEF StatusWritten
<1>4. CASE HandleClusterFallback
  <2>1. /\ pc = "fallbackWrite"
        /\ UpdateStatus([snap.st EXCEPT !.at = None, !.active = ""], {cur}, {}, {})
    BY <1>4 DEF HandleClusterFallback
  <2> QED BY <1>w, <2>1, StatusTypes DEF StatusWritten
<1>5. CASE GetCluster
  <2>1. pc \in ClusterPCs
    BY <1>5 DEF GetCluster, ClusterPCs
  <2> QED BY <1>5, <1>u, <1>x, <2>1 DEF GetCluster
<1>6. CASE Schedule
  <2>1. pc \in ClusterPCs
    BY <1>6 DEF Schedule, ClusterPCs
  <2> QED BY <1>6, <1>u, <1>x, <2>1 DEF Schedule
<1>7. CASE Ensure("ensure", "confirm") \/ Ensure("recreate", "report")
  <2>1. pc \in ClusterPCs
    BY <1>7 DEF Ensure, ClusterPCs, DeployPCs
  <2> QED BY <1>7, <1>u, <1>x, <2>1 DEF Ensure
<1>8. CASE Report
  <2>1. pc = "report" /\ tgt \in Instances /\ cur \in Pipelines /\ pc \in DeployPCs
    BY <1>8 DEF Report, TypeInv, WorkerInv, DeployPCs
  <2>2. PICK r \in GetStreamStatus(tgt, cur) : WriteStatus(PlacedStatus(r.res), {}, {cur}, {})
    BY <1>8 DEF Report
  <2>3. r.res \in {"Running", "StreamNotActive", "StreamMissing", "StatusUnavailable"}
    BY <2>1, <2>2, StatusReply DEF TypeInv
  <2>4. PlacedStatus(r.res) \in PipelineStatus
    BY <2>1, <2>3, PlacedTypes
  <2>5. StatusWritten(PlacedStatus(r.res))
    BY <2>1, <2>3 DEF StatusWritten
  <2> QED BY <1>w, <2>1, <2>2, <2>4, <2>5
<1>9. CASE ApplyPod
  <2>1. pc = "pod" /\ cur \in Pipelines
    BY <1>9 DEF ApplyPod, TypeInv, WorkerInv
  <2>2. CASE snap.spec.cfg \in BadRender
    <3>1. UpdateStatus([snap.st EXCEPT !.phase = "Failed", !.reason = "RenderError"], {}, {}, {})
      BY <1>9, <2>2 DEF ApplyPod
    <3> QED BY <1>w, <2>1, <3>1, StatusTypes DEF StatusWritten
  <2>3. CASE snap.spec.cfg \notin BadRender /\ pod[cur] # None /\ pod[cur].cfg # snap.spec.cfg
    BY <1>9, <1>u, <2>3 DEF ApplyPod
  <2>4. CASE snap.spec.cfg \notin BadRender /\ ~(pod[cur] # None /\ pod[cur].cfg # snap.spec.cfg)
    <3>1. PICK ev : /\ pod' = [pod EXCEPT ![cur] = IF @ = None THEN NewPod ELSE @]
                    /\ WriteStatus(PodStatus(pod'[cur].phase), {}, {}, ev)
      BY <1>9, <2>4 DEF ApplyPod
    <3>2. snap.spec.cfg \in Configs
      BY <2>1, SnapTypes DEF PipelineSpec
    <3>3. pod'[cur] \in Pods
      BY <2>1, <3>1, <3>2 DEF TypeInv, TypeOK, NewPod, Pods, PodPhases
    <3>4. pod'[cur].phase \in PodPhases
      BY <3>3 DEF Pods
    <3> QED BY <1>w, <2>1, <3>1, <3>4, StatusTypes DEF StatusWritten
  <2> QED BY <2>2, <2>3, <2>4
<1>10. CASE \/ DeleteAssignedStream("delete", "release") \/ DeleteAssignedStream("stop", "stopWrite")
            \/ DeleteAssignedStream("fallback", "fallbackWrite")
            \/ MigrateFromOldCluster \/ Gate \/ Confirm
  BY <1>10, <1>u DEF DeleteAssignedStream, MigrateFromOldCluster, Gate, Confirm
<1> QED BY <1>1, <1>2, <1>3, <1>4, <1>5, <1>6, <1>7, <1>8, <1>9, <1>10 DEF WorkerStep

(* How a step may change a Pipeline object. *)
LEMMA ObjStep ==
  ASSUME TypeInv, [Next]_vars, NEW p \in Pipelines PROVE ObjectStep(p)
<1>u. ASSUME obj' = obj PROVE ObjectStep(p)
  BY <1>u DEF ObjectStep
<1>1. CASE \E q \in Pipelines : UserStep(q)
  <2>1. PICK q \in Pipelines : UserStep(q)
    BY <1>1
  <2>2. PICK o \in Object :
           /\ UserWrite(q, o)
           /\ \/ o.st = NewStatus /\ (o.life = "live" \/ o = Absent)
                 /\ (obj[q].life = "absent" \/ ~obj[q].fin)
              \/ /\ obj[q] \in LiveObject /\ obj[q].life = "live" /\ o \in LiveObject
                 /\ o.fin = obj[q].fin /\ o.st.at = obj[q].st.at
                 /\ \/ o.life = "live" /\ ~o.st.observed
                    \/ o.life = "deleting" /\ o.spec = obj[q].spec
    BY <2>1, UserStepWrites
  <2>3. Store(q, o) /\ UNCHANGED <<pc, cur, snap, tgt, body, cache, strm, pod, cm>>
    BY <2>2 DEF UserWrite, kids
  <2>4. obj'[q] = o /\ (q # p => obj'[p] = obj[p])
    BY <2>3, StoreChange
  <2> QED BY <2>2, <2>3, <2>4 DEF ObjectStep, UserWrote
<1>2. CASE WorkerStep
  BY <1>2, WorkerObjectStep
<1>3. CASE \E q \in Pipelines : Reconcile(q) \/ CacheSync(q) \/ TimerFire(q)
  BY <1>3, <1>u DEF Reconcile, CacheSync, TimerFire
<1>4. CASE Crash \/ WorldStep \/ UNCHANGED vars
  BY <1>4, <1>u, WorldStepType DEF Crash, unseen, vars
<1> QED BY <1>1, <1>2, <1>3, <1>4, NextCases

-----------------------------------------------------------------------------
(* The status is about the spec it observed *)

(* StatusMatchesObservedSpec for one object. *)
MatchesSpec(o) ==
  (o.life = "live" /\ o.st.observed) =>
     /\ o.spec.stopped <=> o.st.reason = "StoppedByUser"
     /\ o.st.at # None => /\ o.st.at[1] = o.spec.ref
                          /\ o.st.hash # None
                          /\ o.st.hash[1] = o.st.at
                          /\ o.st.hash[2].cfg = o.spec.cfg

(* Each status Reconcile writes fits the spec of the object it read. *)
LEMMA StoredMatches ==
  ASSUME TypeInv, NEW p \in Pipelines, NEW st \in PipelineStatus, StatusStored(p, st),
         MatchesSpec(obj[p])
  PROVE  MatchesSpec(obj'[p])
<1>1. /\ obj[p] \in LiveObject /\ snap = obj[p] /\ cur = p /\ pc # "idle" /\ WorkerInv
      /\ obj'[p] = [snap EXCEPT !.st = st] /\ StatusWritten(st)
  BY DEF StatusStored, TypeInv
<1>2. /\ obj'[p].st = st /\ obj'[p].spec = snap.spec /\ obj'[p].life = snap.life
      /\ snap.spec \in PipelineSpec /\ snap.st \in PipelineStatus
  BY <1>1, SetStatus DEF LiveObject
<1>3. CASE pc = "stopWrite" /\ st = StoppedStatus
  <2>1. st.reason = "StoppedByUser" /\ st.at = None
    BY <1>2, <1>3 DEF StoppedStatus, PipelineStatus
  <2>2. snap.spec.stopped
    BY <1>1, <1>3 DEF WorkerInv
  <2> QED BY <1>2, <2>1, <2>2 DEF MatchesSpec
<1>4. CASE pc = "fallbackWrite" /\ st = [snap.st EXCEPT !.at = None, !.active = ""]
  <2>1. st.reason = snap.st.reason /\ st.at = None /\ st.observed = snap.st.observed
    BY <1>2, <1>4 DEF PipelineStatus
  <2> QED BY <1>1, <1>2, <2>1 DEF MatchesSpec
<1>5. CASE /\ pc \in ClusterPCs
           /\ \E ph \in {"Failed", "Pending"},
                 re \in {"ClusterNotFound", "ClusterNotReady", "RenderError", "SecretNotFound",
                         "StreamConfigInvalid"} : st = UnplacedStatus(ph, re)
  <2>0. PICK ph \in {"Failed", "Pending"},
             re \in {"ClusterNotFound", "ClusterNotReady", "RenderError", "SecretNotFound",
                     "StreamConfigInvalid"} : st = UnplacedStatus(ph, re)
    BY <1>5
  <2>1. st.reason = re /\ st.at = None
    BY <2>0 DEF UnplacedStatus
  <2>2. ~snap.spec.stopped
    BY <1>1, <1>5 DEF WorkerInv
  <2> QED BY <1>2, <2>1, <2>2 DEF MatchesSpec
<1>6. CASE /\ pc = "report"
           /\ \E a \in {"Running", "StreamNotActive", "StreamMissing", "StatusUnavailable"} :
                st = PlacedStatus(a)
  <2>1. st.reason # "StoppedByUser" /\ st.at = tgt /\ st.hash = <<tgt, body>>
    BY <1>6 DEF PlacedStatus
  <2>2. ~snap.spec.stopped /\ tgt[1] = snap.spec.ref /\ body.cfg = snap.spec.cfg
    BY <1>1, <1>6 DEF WorkerInv, ClusterPCs, DeployPCs
  <2>3. st.hash # None
    BY <1>1, <1>6, <2>1, NoneIsNoHash DEF WorkerInv, DeployPCs, Hashes
  <2> QED BY <1>2, <2>1, <2>2, <2>3 DEF MatchesSpec
<1>7. CASE pc = "pod" /\ \E ph \in PodPhases : st = PodStatus(ph)
  <2>1. PICK ph \in PodPhases : st = PodStatus(ph)
    BY <1>7
  <2>2. DeriveCondition(ph) # "StoppedByUser"
    BY DEF DeriveCondition
  <2>3. st.reason = DeriveCondition(ph) /\ st.at = snap.st.at
    BY <1>2, <2>1 DEF PodStatus, PipelineStatus
  <2>4. ~snap.spec.stopped /\ snap.st.at = None
    BY <1>1, <1>7 DEF WorkerInv
  <2> QED BY <1>2, <2>2, <2>3, <2>4 DEF MatchesSpec
<1>8. CASE pc = "pod" /\ st = [snap.st EXCEPT !.phase = "Failed", !.reason = "RenderError"]
  <2>1. st.reason = "RenderError" /\ st.at = snap.st.at
    BY <1>2, <1>8 DEF PipelineStatus
  <2>2. ~snap.spec.stopped /\ snap.st.at = None
    BY <1>1, <1>8 DEF WorkerInv
  <2> QED BY <1>2, <2>1, <2>2 DEF MatchesSpec
<1> QED BY <1>1, <1>3, <1>4, <1>5, <1>6, <1>7, <1>8 DEF StatusWritten

(* Whatever a stale cache or a racing edit does, a status that claims to have *)
(* observed the current generation describes the current spec.                *)
THEOREM StatusIsAboutObservedSpec == SafetySpec => []StatusMatchesObservedSpec
<1>1. StatusMatchesObservedSpec <=> \A p \in Pipelines : MatchesSpec(obj[p])
  BY DEF StatusMatchesObservedSpec, MatchesSpec
<1>2. Init => StatusMatchesObservedSpec
  BY DEF Init, StatusMatchesObservedSpec, Absent
<1>3. ASSUME TypeInv, StatusMatchesObservedSpec, [Next]_vars PROVE StatusMatchesObservedSpec'
  <2>1. SUFFICES ASSUME NEW p \in Pipelines PROVE MatchesSpec(obj'[p])
    BY DEF StatusMatchesObservedSpec, MatchesSpec
  <2>2. MatchesSpec(obj[p])
    BY <1>1, <1>3
  <2>3. CASE \E st \in PipelineStatus : StatusStored(p, st)
    BY <1>3, <2>2, <2>3, StoredMatches
  <2>4. CASE FinalizerAdded(p)
    <3>1. /\ obj'[p].life = obj[p].life /\ obj'[p].spec = obj[p].spec
          /\ obj'[p].st = obj[p].st
      BY <2>4 DEF FinalizerAdded, LiveObject
    <3> QED BY <2>2, <3>1 DEF MatchesSpec
  <2>5. CASE Released(p)
    BY <2>5 DEF Released, Absent, MatchesSpec
  <2>6. CASE UserWrote(p)
    <3>1. ~NewStatus.observed
      BY DEF NewStatus
    <3>2. ~obj'[p].st.observed \/ obj'[p].life = "deleting"
      BY <2>6, <3>1 DEF UserWrote
    <3> QED BY <3>2 DEF MatchesSpec
  <2> QED BY <1>3, <2>2, <2>3, <2>4, <2>5, <2>6, ObjStep DEF ObjectStep
<1> QED BY <1>2, <1>3, TypeInvariant, PTL DEF SafetySpec

-----------------------------------------------------------------------------
(* How a step may change a stream, and what the worker then knows *)

StreamChange(i, p) ==
  \/ strm'[i][p] = strm[i][p]
  \/ strm'[i][p] = None
  \/ strm[i][p] # None /\ ~strm'[i][p].active
  \/ pc \in {"ensure", "recreate"} /\ cur = p /\ tgt = i /\ pc' \notin {"ensure", "recreate"}

(* A call to an instance changes one stream of one instance. *)
LEMMA ApplyChange ==
  ASSUME TypeInv, NEW i \in Instances, NEW p \in Pipelines, NEW r, Apply(i, p, r)
  PROVE  /\ strm'[i][p] = r.str
         /\ \A j \in Instances, q \in Pipelines : <<j, q>> # <<i, p>> => strm'[j][q] = strm[j][q]
BY DEF Apply, TypeInv, TypeOK

(* Every step changes a stream in one of the ways StreamChange lists. *)
LEMMA StreamStep ==
  ASSUME TypeInv, [Next]_vars, NEW i \in Instances, NEW p \in Pipelines PROVE StreamChange(i, p)
<1>u. ASSUME strm' = strm PROVE StreamChange(i, p)
  BY <1>u DEF StreamChange
<1>d. ASSUME pc # "idle", snap.st.at # None, NEW r \in DeleteStream(snap.st.at, cur),
             Apply(snap.st.at, cur, r)
      PROVE  StreamChange(i, p)
  <2>1. cur \in Pipelines /\ snap.st.at \in Instances
    BY <1>d, SnapTypes DEF TypeInv, WorkerInv
  <2>2. r.str \in {strm[snap.st.at][cur], None}
    BY <1>d DEF DeleteStream, Reply
  <2> QED BY <1>d, <2>1, <2>2, ApplyChange DEF StreamChange
<1>1. CASE Ensure("ensure", "confirm") \/ Ensure("recreate", "report")
  <2>1. pc \in {"ensure", "recreate"} /\ cur \in Pipelines /\ tgt \in Instances
    BY <1>1 DEF Ensure, TypeInv, WorkerInv, DeployPCs
  <2>2. PICK r : Apply(tgt, cur, r)
    BY <1>1 DEF Ensure
  <2>3. pc' \in {"confirm", "report", "idle"}
    BY <1>1 DEF Ensure, GoTo, WriteStatus, UpdateStatus, ReturnRetry, Return
  <2> QED BY <2>1, <2>2, <2>3, ApplyChange DEF StreamChange
<1>2. CASE \/ DeleteAssignedStream("delete", "release") \/ DeleteAssignedStream("stop", "stopWrite")
           \/ DeleteAssignedStream("fallback", "fallbackWrite")
  BY <1>2, <1>u, <1>d DEF DeleteAssignedStream
<1>3. CASE MigrateFromOldCluster
  BY <1>3, <1>u, <1>d DEF MigrateFromOldCluster
<1>4. CASE WorkerStep
  BY <1>4, <1>1, <1>2, <1>3, <1>u
  DEF WorkerStep, AddFinalizer, ReleaseFinalizer, HandleStopped, HandleClusterFallback, GetCluster,
      Schedule, Gate, Confirm, Report, ApplyPod
<1>5. CASE \E q \in Pipelines : Reconcile(q) \/ CacheSync(q) \/ TimerFire(q) \/ UserStep(q)
  BY <1>5, <1>u DEF Reconcile, CacheSync, TimerFire, UserStep, CreatePipeline, EditPipeline,
                    DeletePipeline, UserWrite
<1>6. CASE Crash \/ UNCHANGED vars
  BY <1>6, <1>u DEF Crash, vars
<1>7. CASE WorldStep
  <2>0. strm \in [Instances -> [Pipelines -> Streams \cup {None}]]
    BY DEF TypeInv, TypeOK
  <2>1. ASSUME NEW j \in Instances, InstanceDown(j) PROVE StreamChange(i, p)
    BY <2>0, <2>1 DEF InstanceDown, StreamChange
  <2>2. ASSUME NEW j \in Instances, NEW q \in Pipelines, StreamDrop(j, q) PROVE StreamChange(i, p)
    BY <2>0, <2>2 DEF StreamDrop, StreamChange
  <2>3. ASSUME NEW j \in Instances, NEW q \in Pipelines, StreamStall(j, q) PROVE StreamChange(i, p)
    <3>1. strm[j][q] \in Streams
      BY <2>0, <2>3 DEF StreamStall
    <3>2. [strm[j][q] EXCEPT !.active = FALSE].active = FALSE
      BY <3>1 DEF Streams
    <3>3. strm' = [strm EXCEPT ![j] = [strm[j] EXCEPT ![q] = [strm[j][q] EXCEPT !.active = FALSE]]]
      BY <2>0, <2>3 DEF StreamStall
    <3>4. strm'[j][q].active = FALSE /\ strm[j][q] # None
      BY <2>0, <2>3, <3>2, <3>3 DEF StreamStall
    <3>5. <<i, p>> # <<j, q>> => strm'[i][p] = strm[i][p]
      BY <2>0, <3>3
    <3> QED BY <3>4, <3>5 DEF StreamChange
  <2> QED BY <1>7, <1>u, <2>1, <2>2, <2>3
      DEF WorldStep, KubeStep, PodTrouble, PodStarts, PodGone, CollectChildren, Recovery,
          InstanceUp, InstanceHeal, ReadyGained, InstanceCut, ReadyLost, DeleteCluster,
          CreateCluster, ChangeSecret
<1> QED BY <1>4, <1>5, <1>6, <1>7, NextCases

NoPod(p) == pod[p] = None \/ pod[p].term

(* Where the worker goes, and what it has just seen to. *)
LocalStep ==
  \/ pc' = "idle"
  \/ UNCHANGED <<pc, cur, snap, tgt, body>>
  \/ /\ pc = "idle" /\ cur' \in Pipelines /\ snap' = cache[cur'] /\ snap'.life # "absent"
     /\ pc' \in {"delete", "finalizer", "stop", "cluster", "fallback", "pod"}
     /\ UNCHANGED obj
  \/ /\ UNCHANGED <<cur, snap>>
     /\ \/ /\ pc # "idle" /\ pc' \in {"release", "stopWrite", "fallbackWrite"}
           /\ snap.st.at # None => strm'[snap.st.at][cur] = None
        \/ pc = "cluster" /\ pc' = "migrate" /\ NoPod(cur)' /\ cm'[cur] = None
        \/ /\ pc = "migrate" /\ pc' = "schedule"
           /\ (snap.st.at # None /\ snap.st.at[1] # snap.spec.ref)
                => strm'[snap.st.at][cur] = None
        \/ /\ pc = "schedule"
           /\ \/ pc' = "gate"
              \/ pc' = "ensure" /\ snap.st.hash # <<tgt', body'>>
        \/ /\ pc = "gate" /\ UNCHANGED <<tgt, body>>
           /\ \/ pc' = "report"
              \/ pc' = "ensure" /\ (strm'[tgt][cur] # None => ~strm'[tgt][cur].active)
        \/ pc = "ensure" /\ pc' = "confirm" /\ UNCHANGED <<tgt, body>>
        \/ /\ pc = "confirm" /\ UNCHANGED <<tgt, body>>
           /\ \/ pc' = "report"
              \/ pc' = "recreate" /\ strm'[tgt][cur] = None
        \/ pc = "recreate" /\ pc' = "report" /\ UNCHANGED <<tgt, body>>

(* A status write is the last thing Reconcile does. *)
LEMMA WriteIsLast ==
  ASSUME NEW st, NEW q, NEW t, NEW ev, UpdateStatus(st, q, t, ev) \/ WriteStatus(st, q, t, ev)
  PROVE  pc' = "idle"
BY DEF UpdateStatus, WriteStatus, Return

(* Each step inside Reconcile moves the worker in one of the ways LocalStep   *)
(* lists.                                                                     *)
LEMMA WorkerLocalStep == ASSUME TypeInv, WorkerStep PROVE LocalStep
<1>0. pc # "idle" /\ cur \in Pipelines
  BY DEF WorkerStep, AddFinalizer, DeleteAssignedStream, ReleaseFinalizer, HandleStopped,
         HandleClusterFallback, GetCluster, MigrateFromOldCluster, Schedule, Gate, Ensure, Confirm,
         Report, ApplyPod, TypeInv, WorkerInv
<1>i. ASSUME pc' = "idle" PROVE LocalStep
  BY <1>i DEF LocalStep
<1>r. ASSUME ReturnRetry PROVE pc' = "idle"
  BY <1>r DEF ReturnRetry, Return
<1>1. CASE AddFinalizer \/ ReleaseFinalizer \/ HandleStopped \/ HandleClusterFallback \/ Report
           \/ ApplyPod
  BY <1>1, <1>i, <1>r, WriteIsLast
  DEF AddFinalizer, ReleaseFinalizer, HandleStopped, HandleClusterFallback, Report, ApplyPod, Return
<1>2. ASSUME NEW from, NEW next \in {"release", "stopWrite", "fallbackWrite"},
             DeleteAssignedStream(from, next)
      PROVE  LocalStep
  <2>1. CASE snap.st.at = None
    BY <1>0, <1>2, <2>1 DEF DeleteAssignedStream, GoTo, LocalStep
  <2>2. CASE snap.st.at # None
    <3>1. PICK r \in DeleteStream(snap.st.at, cur) :
            /\ Apply(snap.st.at, cur, r)
            /\ IF r.res = "ok" THEN GoTo(next) /\ UNCHANGED queue ELSE ReturnRetry
      BY <1>2, <2>2 DEF DeleteAssignedStream
    <3>2. snap.st.at \in Instances
      BY <1>0, <2>2, SnapTypes
    <3>3. r.res = "ok" => strm'[snap.st.at][cur] = None
      BY <1>0, <3>1, <3>2, ApplyChange, DeleteReply DEF TypeInv
    <3>4. CASE r.res = "ok"
      BY <1>0, <1>2, <3>1, <3>3, <3>4 DEF GoTo, LocalStep
    <3> QED BY <1>i, <1>r, <3>1, <3>4
  <2> QED BY <2>1, <2>2
<1>3. CASE GetCluster
  <2>1. CASE snap.spec.ref \notin clusters
    BY <1>3, <1>i, <2>1, WriteIsLast DEF GetCluster
  <2>2. CASE snap.spec.ref \in clusters
    <3>1. /\ pod' = [pod EXCEPT ![cur] = DeletedPod(cur)] /\ cm' = [cm EXCEPT ![cur] = None]
          /\ GoTo("migrate") /\ pc = "cluster"
      BY <1>3, <2>2 DEF GetCluster
    <3>2. pod[cur] \in Pods \cup {None} /\ pod'[cur] = DeletedPod(cur) /\ cm'[cur] = None
      BY <1>0, <3>1 DEF TypeInv, TypeOK
    <3>3. pod[cur] # None => [pod[cur] EXCEPT !.term = TRUE].term
      BY <3>2 DEF Pods
    <3>4. NoPod(cur)'
      BY <3>1, <3>2, <3>3 DEF NoPod, DeletedPod, GoTo
    <3> QED BY <3>1, <3>2, <3>4 DEF LocalStep, GoTo
  <2> QED BY <2>1, <2>2
<1>4. CASE MigrateFromOldCluster
  <2>1. CASE snap.st.at = None \/ snap.st.at[1] = snap.spec.ref
    BY <1>4, <2>1 DEF MigrateFromOldCluster, GoTo, LocalStep
  <2>2. CASE ~(snap.st.at = None \/ snap.st.at[1] = snap.spec.ref)
    <3>1. PICK r \in DeleteStream(snap.st.at, cur) :
            /\ Apply(snap.st.at, cur, r)
            /\ IF r.res = "ok" THEN GoTo("schedule") /\ UNCHANGED queue ELSE ReturnRetry
      BY <1>4, <2>2 DEF MigrateFromOldCluster
    <3>2. snap.st.at \in Instances
      BY <1>0, <2>2, SnapTypes
    <3>3. r.res = "ok" => strm'[snap.st.at][cur] = None
      BY <1>0, <3>1, <3>2, ApplyChange, DeleteReply DEF TypeInv
    <3>4. CASE r.res = "ok"
      BY <1>4, <3>1, <3>3, <3>4 DEF GoTo, LocalStep, MigrateFromOldCluster
    <3> QED BY <1>i, <1>r, <3>1, <3>4
  <2> QED BY <2>1, <2>2
<1>5. CASE Schedule
  <2>1. \/ pc' = "idle"
        \/ /\ pc = "schedule" /\ UNCHANGED <<cur, snap>>
           /\ pc' = "gate" \/ (pc' = "ensure" /\ snap.st.hash # <<tgt', body'>>)
    BY <1>5, WriteIsLast DEF Schedule
  <2> QED BY <2>1 DEF LocalStep
<1>6. CASE Gate
  <2>1. tgt \in Instances /\ pc = "gate" /\ UNCHANGED strm
    BY <1>6 DEF Gate, TypeInv, WorkerInv, DeployPCs
  <2>2. PICK r \in GetStreamStatus(tgt, cur) :
          GoTo(IF r.res \in {"StreamMissing", "StreamNotActive"} THEN "ensure" ELSE "report")
    BY <1>6 DEF Gate
  <2>3. r.res \in {"StreamMissing", "StreamNotActive"} =>
          (strm[tgt][cur] # None => ~strm[tgt][cur].active)
    BY <1>0, <2>1, <2>2, StatusReply DEF TypeInv
  <2> QED BY <2>1, <2>2, <2>3 DEF GoTo, LocalStep
<1>7. CASE Ensure("ensure", "confirm") \/ Ensure("recreate", "report")
  <2>1. \/ pc' = "idle"
        \/ pc = "ensure" /\ GoTo("confirm")
        \/ pc = "recreate" /\ GoTo("report")
    BY <1>7, <1>r, WriteIsLast DEF Ensure
  <2> QED BY <2>1 DEF GoTo, LocalStep
<1>8. CASE Confirm
  <2>1. tgt \in Instances /\ pc = "confirm" /\ UNCHANGED strm
    BY <1>8 DEF Confirm, TypeInv, WorkerInv, DeployPCs
  <2>2. PICK r \in GetStreamStatus(tgt, cur) :
          GoTo(IF r.res = "StreamMissing" THEN "recreate" ELSE "report")
    BY <1>8 DEF Confirm
  <2>3. r.res = "StreamMissing" => strm[tgt][cur] = None
    BY <1>0, <2>1, <2>2, StatusReply DEF TypeInv
  <2> QED BY <2>1, <2>2, <2>3 DEF GoTo, LocalStep
<1> QED BY <1>1, <1>2, <1>3, <1>4, <1>5, <1>6, <1>7, <1>8 DEF WorkerStep

(* Every step of the system leaves the worker alone or moves it as LocalStep  *)
(* lists.                                                                     *)
LEMMA LocalSteps == ASSUME TypeInv, [Next]_vars PROVE LocalStep
<1>1. CASE \E p \in Pipelines : Reconcile(p)
  <2>1. PICK p \in Pipelines : Reconcile(p)
    BY <1>1
  <2>2. Branch(cache[p]) \in {"delete", "finalizer", "stop", "cluster", "fallback", "pod"}
    BY DEF Branch
  <2> QED BY <2>1, <2>2 DEF Reconcile, worker, LocalStep
<1>2. CASE \E p \in Pipelines : CacheSync(p) \/ TimerFire(p) \/ UserStep(p)
  BY <1>2 DEF CacheSync, TimerFire, UserStep, CreatePipeline, EditPipeline, DeletePipeline,
              UserWrite, worker, LocalStep
<1>3. CASE Crash \/ UNCHANGED vars
  BY <1>3 DEF Crash, vars, LocalStep
<1>4. CASE WorldStep
  BY <1>4, WorldStepType DEF unseen, worker, LocalStep
<1> QED BY <1>1, <1>2, <1>3, <1>4, WorkerLocalStep, NextCases

-----------------------------------------------------------------------------
(* A healthy stream is left alone *)

(* What makes HealthyStreamUntouched inductive: the answer the worker got is   *)
(* still true when it acts on it, as only the worker makes a stream healthy.   *)
GateInv ==
  /\ (pc = "ensure" /\ snap.st.hash = <<tgt, body>> /\ strm[tgt][cur] # None)
       => ~strm[tgt][cur].active
  /\ pc = "recreate" => strm[tgt][cur] = None

(* What the hash gate established still holds when the deployment is made. *)
LEMMA GateInvNext == ASSUME TypeInv, GateInv, [Next]_vars PROVE GateInv'
<1>1. LocalStep
  BY LocalSteps
<1>2. CASE UNCHANGED <<pc, cur, snap, tgt, body>> /\ pc \in {"ensure", "recreate"}
  <2>1. tgt \in Instances /\ cur \in Pipelines
    BY <1>2 DEF TypeInv, WorkerInv, DeployPCs
  <2>2. StreamChange(tgt, cur)
    BY <2>1, StreamStep
  <2> QED BY <1>2, <2>2 DEF GateInv, StreamChange
<1>3. CASE pc' \notin {"ensure", "recreate"}
  BY <1>3 DEF GateInv
<1>4. CASE pc' \in {"ensure", "recreate"} /\ ~UNCHANGED <<pc, cur, snap, tgt, body>>
  BY <1>1, <1>4 DEF LocalStep, GateInv
<1> QED BY <1>1, <1>2, <1>3, <1>4

(* Reconcile never PUTs a config over a stream that already runs it, actively, *)
(* at the placement whose hash is recorded.                                    *)
THEOREM HealthyStreamsStay == SafetySpec => []HealthyStreamUntouched
<1>1. Init => GateInv
  BY DEF Init, GateInv
<1>2. TypeInv /\ GateInv /\ [Next]_vars => GateInv'
  BY GateInvNext
<1>3. ASSUME TypeInv, GateInv PROVE HealthyStreamUntouched
  <2>1. SUFFICES ASSUME pc \in {"ensure", "recreate"}, snap.st.hash = <<tgt, body>>,
                        strm[tgt][cur] = [body |-> body, active |-> TRUE]
                 PROVE  FALSE
    BY DEF HealthyStreamUntouched
  <2>2. strm[tgt][cur].active
    BY <2>1
  <2>3. body \in Bodies /\ [body |-> body, active |-> TRUE] \in Streams
    BY <1>3, <2>1 DEF TypeInv, WorkerInv, DeployPCs, Streams
  <2>4. strm[tgt][cur] # None
    BY <2>1, <2>3, NoneIsNoStream
  <2> QED BY <1>3, <2>1, <2>2, <2>4 DEF GateInv
<1> QED BY <1>1, <1>2, <1>3, TypeInvariant, PTL DEF SafetySpec

-----------------------------------------------------------------------------
(* A placement is given up only after its stream is gone *)

(* The stream the worker has deleted stays deleted until it writes the status, *)
(* and a placed pipeline always carries the finalizer.                         *)
TeardownInv ==
  /\ (pc \in {"release", "stopWrite", "fallbackWrite"} /\ snap.st.at # None)
       => strm[snap.st.at][cur] = None
  /\ (/\ pc \in {"schedule"} \cup DeployPCs
      /\ snap.st.at # None /\ snap.st.at[1] # snap.spec.ref)
       => strm[snap.st.at][cur] = None
  /\ \A p \in Pipelines : obj[p].st.at # None => obj[p].fin

(* What a stored status says about the placement. *)
LEMMA StoredPlacement ==
  ASSUME TypeInv, NEW p \in Pipelines, NEW st \in PipelineStatus, StatusStored(p, st)
  PROVE  /\ obj'[p].st = st /\ obj'[p].fin = obj[p].fin
         /\ \/ pc \in {"stopWrite", "fallbackWrite"} /\ st.at = None
            \/ st.at = None /\ st.phase \in {"Failed", "Pending"}
            \/ /\ pc = "report" /\ st.at = tgt
               /\ snap.fin /\ snap.spec.ref # None /\ tgt[1] = snap.spec.ref
            \/ st.at = None /\ obj[p].st.at = None
<1>1. /\ obj[p] \in LiveObject /\ snap = obj[p] /\ cur = p /\ pc # "idle" /\ WorkerInv
      /\ obj'[p] = [snap EXCEPT !.st = st] /\ StatusWritten(st)
  BY DEF StatusStored, TypeInv
<1>2. obj'[p].st = st /\ obj'[p].fin = obj[p].fin /\ snap.st \in PipelineStatus
  BY <1>1, SetStatus DEF LiveObject
<1>3. CASE pc = "stopWrite" /\ st = StoppedStatus
  BY <1>2, <1>3 DEF StoppedStatus, PipelineStatus
<1>4. CASE pc = "fallbackWrite" /\ st = [snap.st EXCEPT !.at = None, !.active = ""]
  BY <1>2, <1>4 DEF PipelineStatus
<1>5. CASE \E ph \in {"Failed", "Pending"},
              re \in {"ClusterNotFound", "ClusterNotReady", "RenderError", "SecretNotFound",
                      "StreamConfigInvalid"} : st = UnplacedStatus(ph, re)
  <2>1. PICK ph \in {"Failed", "Pending"},
             re \in {"ClusterNotFound", "ClusterNotReady", "RenderError", "SecretNotFound",
                     "StreamConfigInvalid"} : st = UnplacedStatus(ph, re)
    BY <1>5
  <2>2. st.at = None /\ st.phase = ph
    BY <2>1 DEF UnplacedStatus
  <2> QED BY <1>2, <2>2
<1>6. CASE /\ pc = "report"
           /\ \E a \in {"Running", "StreamNotActive", "StreamMissing", "StatusUnavailable"} :
                st = PlacedStatus(a)
  <2>1. st.at = tgt
    BY <1>6 DEF PlacedStatus
  <2>2. snap.fin /\ snap.spec.ref # None /\ tgt[1] = snap.spec.ref
    BY <1>1, <1>6 DEF WorkerInv, ClusterPCs, DeployPCs
  <2> QED BY <1>2, <1>6, <2>1, <2>2
<1>7. CASE pc = "pod" /\ \E ph \in PodPhases : st = PodStatus(ph)
  <2>1. st.at = snap.st.at
    BY <1>2, <1>7 DEF PodStatus, PipelineStatus
  <2> QED BY <1>1, <1>2, <1>7, <2>1 DEF WorkerInv
<1>8. CASE pc = "pod" /\ st = [snap.st EXCEPT !.phase = "Failed", !.reason = "RenderError"]
  <2>1. st.at = snap.st.at
    BY <1>2, <1>8 DEF PipelineStatus
  <2> QED BY <1>1, <1>2, <1>8, <2>1 DEF WorkerInv
<1> QED BY <1>1, <1>3, <1>4, <1>5, <1>6, <1>7, <1>8 DEF StatusWritten

(* Every step keeps the invariant behind a clean release: what is placed has  *)
(* a finalizer, and a passed teardown stays done.                             *)
LEMMA TeardownInvNext == ASSUME TypeInv, TeardownInv, [Next]_vars PROVE TeardownInv'
<1>1. ASSUME NEW p \in Pipelines, obj'[p].st.at # None PROVE obj'[p].fin
  <2>1. CASE \E st \in PipelineStatus : StatusStored(p, st)
    <3>1. PICK st \in PipelineStatus : StatusStored(p, st)
      BY <2>1
    <3>2. snap = obj[p]
      BY <3>1 DEF StatusStored
    <3> QED BY <1>1, <3>1, <3>2, StoredPlacement
  <2>2. CASE FinalizerAdded(p)
    BY <2>2 DEF FinalizerAdded, LiveObject
  <2>3. CASE Released(p)
    BY <1>1, <2>3, ObjectCases DEF Released
  <2>4. CASE UserWrote(p)
    <3>1. NewStatus.at = None
      BY DEF NewStatus
    <3> QED BY <1>1, <2>4, <3>1 DEF UserWrote, TeardownInv
  <2> QED BY <1>1, <2>1, <2>2, <2>3, <2>4, ObjStep DEF ObjectStep, TeardownInv
<1>2. LocalStep
  BY LocalSteps
<1>3. ASSUME pc' # "idle", UNCHANGED <<cur, snap>>, snap.st.at # None, pc # "idle",
             strm[snap.st.at][cur] = None,
             pc \in {"ensure", "recreate"} => tgt # snap.st.at
      PROVE  strm'[snap.st.at][cur] = None
  <2>1. snap.st.at \in Instances /\ cur \in Pipelines
    BY <1>3, SnapTypes DEF TypeInv, WorkerInv
  <2>2. StreamChange(snap.st.at, cur)
    BY <2>1, StreamStep
  <2> QED BY <1>3, <2>2 DEF StreamChange
<1>4. ASSUME pc' \in {"release", "stopWrite", "fallbackWrite"}, snap'.st.at # None
      PROVE  strm'[snap'.st.at][cur'] = None
  <2>1. CASE UNCHANGED <<pc, cur, snap, tgt, body>>
    BY <1>3, <1>4, <2>1 DEF TeardownInv
  <2>2. CASE ~UNCHANGED <<pc, cur, snap, tgt, body>>
    BY <1>2, <1>4, <2>2 DEF LocalStep
  <2> QED BY <2>1, <2>2
<1>5. ASSUME pc' \in {"schedule"} \cup DeployPCs, snap'.st.at # None,
             snap'.st.at[1] # snap'.spec.ref
      PROVE  strm'[snap'.st.at][cur'] = None
  <2>1. CASE pc = "migrate" /\ pc' = "schedule"
    BY <1>2, <1>5, <2>1 DEF LocalStep
  <2>2. CASE pc \in {"schedule"} \cup DeployPCs /\ UNCHANGED <<cur, snap>>
    <3>1. pc \in {"ensure", "recreate"} => tgt # snap.st.at
      BY <1>5, <2>2 DEF TypeInv, WorkerInv, DeployPCs
    <3>2. pc' # "idle" /\ pc # "idle"
      BY <1>5, <2>2 DEF DeployPCs
    <3> QED BY <1>3, <1>5, <2>2, <3>1, <3>2 DEF TeardownInv
  <2>3. \/ pc = "migrate" /\ pc' = "schedule"
        \/ pc \in {"schedule"} \cup DeployPCs /\ UNCHANGED <<cur, snap>>
    BY <1>2, <1>5 DEF LocalStep, DeployPCs
  <2> QED BY <2>1, <2>2, <2>3
<1> QED BY <1>1, <1>4, <1>5 DEF TeardownInv

(* Stopping, deleting, falling back to a pod and migrating to another cluster  *)
(* never forget a stream that is still there, whatever fails or is edited in   *)
(* between.                                                                    *)
THEOREM ReleaseIsClean == SafetySpec => CleanRelease
<1> DEFINE Clean(p) ==
      (obj[p].st.at # None /\ obj'[p].st.at # obj[p].st.at) =>
         \/ strm[obj[p].st.at][p] = None
         \/ obj'[p].st.phase \in {"Failed", "Pending"}
         \/ obj'[p].st.at # None /\ obj'[p].st.at[1] = obj[p].st.at[1]
<1>1. Init => TeardownInv
  BY ObjectCases DEF Init, TeardownInv, DeployPCs
<1>2. TypeInv /\ TeardownInv /\ [Next]_vars => TeardownInv'
  BY TeardownInvNext
<1>3. ASSUME TypeInv, TeardownInv, [Next]_vars, NEW p \in Pipelines PROVE Clean(p)
  <2>1. SUFFICES ASSUME obj[p].st.at # None, obj'[p].st.at # obj[p].st.at PROVE Clean(p)
    OBVIOUS
  <2>2. CASE \E st \in PipelineStatus : StatusStored(p, st)
    <3>1. PICK st \in PipelineStatus : StatusStored(p, st)
      BY <2>2
    <3>2. snap = obj[p] /\ cur = p
      BY <3>1 DEF StatusStored
    <3>3. obj'[p].st = st
      BY <1>3, <3>1, StoredPlacement
    <3>4. CASE pc \in {"stopWrite", "fallbackWrite"}
      BY <1>3, <2>1, <3>2, <3>4 DEF TeardownInv
    <3>5. CASE pc = "report" /\ st.at = tgt /\ tgt[1] = snap.spec.ref
      <4>1. obj[p].st.at[1] # snap.spec.ref => strm[obj[p].st.at][p] = None
        BY <1>3, <2>1, <3>2, <3>5 DEF TeardownInv, DeployPCs
      <4>2. tgt # None
        BY <1>3, <3>5, NoneAssumption DEF TypeInv, WorkerInv, DeployPCs
      <4> QED BY <3>3, <3>5, <4>1, <4>2
    <3>6. CASE st.phase \in {"Failed", "Pending"}
      BY <3>3, <3>6
    <3> QED BY <1>3, <2>1, <3>1, <3>4, <3>5, <3>6, StoredPlacement
  <2>3. CASE FinalizerAdded(p)
    BY <2>1, <2>3 DEF FinalizerAdded, LiveObject
  <2>4. CASE Released(p)
    BY <1>3, <2>1, <2>4 DEF Released, TeardownInv
  <2>5. CASE UserWrote(p)
    <3>1. obj[p] \in Object
      BY <1>3 DEF TypeInv, TypeOK
    <3>2. obj[p].life # "absent"
      BY <2>1, <3>1, ObjectCases DEF Object, Absent, NewStatus
    <3> QED BY <1>3, <2>1, <2>5, <3>2 DEF UserWrote, TeardownInv
  <2> QED BY <1>3, <2>1, <2>2, <2>3, <2>4, <2>5, ObjStep DEF ObjectStep
<1>4. TypeInv /\ TeardownInv /\ [Next]_vars => [\A p \in Pipelines : Clean(p)]_vars
  BY <1>3
<1>5. SafetySpec => [][\A p \in Pipelines : Clean(p)]_vars
  <2> HIDE DEF Clean
  <2> QED BY <1>1, <1>2, <1>4, TypeInvariant, PTL DEF SafetySpec
<1> QED BY <1>5 DEF CleanRelease

-----------------------------------------------------------------------------
(* Pod and stream exclude each other *)

(* A worker that is about to make a pod has a copy without clusterRef and      *)
(* placement; that copy may be stale.  It cannot be so stale as to miss a      *)
(* placement: the placement was written by a reconcile that had read a         *)
(* clusterRef, so the cache already held one.                                  *)
ModeInv ==
  /\ \A p \in Pipelines :
       obj[p].st.at # None => \/ cache[p].st.at # None
                              \/ cache[p].life # "absent" /\ cache[p].spec.ref # None
  /\ (pc # "idle" /\ obj[cur].st.at # None) => snap.st.at # None \/ snap.spec.ref # None
  /\ pc \in {"migrate", "schedule"} \cup DeployPCs => NoPod(cur) /\ cm[cur] = None
  /\ \A p \in Pipelines : obj[p].st.at # None => NoPod(p) /\ cm[p] = None

(* Only the pod path makes a pod or a ConfigMap. *)
ChildrenChange(p) ==
  \/ pc = "pod" /\ cur = p
  \/ (NoPod(p) => NoPod(p)') /\ (cm[p] = None => cm'[p] = None)

(* Every step changes a pipeline's pod and ConfigMap in one of the ways       *)
(* ChildrenChange lists.                                                      *)
LEMMA ChildrenStep ==
  ASSUME TypeInv, [Next]_vars, NEW p \in Pipelines PROVE ChildrenChange(p)
<1>0. pod \in [Pipelines -> Pods \cup {None}] /\ cm \in [Pipelines -> Configs \cup {None}]
  BY DEF TypeInv, TypeOK
<1>u. ASSUME UNCHANGED <<pod, cm>> PROVE ChildrenChange(p)
  BY <1>u DEF ChildrenChange, NoPod
<1>d. ASSUME NEW q \in Pipelines, pod' = [pod EXCEPT ![q] = DeletedPod(q)],
             cm' = cm \/ cm' = [cm EXCEPT ![q] = None]
      PROVE  ChildrenChange(p)
  <2>1. pod'[q] = DeletedPod(q) /\ (p # q => pod'[p] = pod[p])
    BY <1>0, <1>d
  <2>2. pod[q] # None => [pod[q] EXCEPT !.term = TRUE].term
    BY <1>0 DEF Pods
  <2>3. pod'[q] = None \/ pod'[q].term
    BY <2>1, <2>2 DEF DeletedPod
  <2>4. cm[p] = None => cm'[p] = None
    BY <1>0, <1>d
  <2> QED BY <2>1, <2>3, <2>4 DEF ChildrenChange, NoPod
<1>1. CASE ApplyPod
  <2>1. pc = "pod" /\ cur \in Pipelines
    BY <1>1 DEF ApplyPod, TypeInv, WorkerInv
  <2>2. cur # p => pod'[p] = pod[p] /\ cm'[p] = cm[p]
    BY <1>0, <1>1, <2>1 DEF ApplyPod, kids
  <2> QED BY <2>1, <2>2 DEF ChildrenChange, NoPod
<1>2. CASE HandleStopped
  <2>1. cur \in Pipelines
    BY <1>2 DEF HandleStopped, TypeInv, WorkerInv
  <2> QED BY <1>2, <1>d, <2>1 DEF HandleStopped
<1>3. CASE GetCluster
  <2>1. cur \in Pipelines
    BY <1>3 DEF GetCluster, TypeInv, WorkerInv
  <2> QED BY <1>3, <1>d, <1>u, <2>1 DEF GetCluster, kids
<1>4. CASE WorkerStep
  BY <1>4, <1>1, <1>2, <1>3, <1>u
  DEF WorkerStep, AddFinalizer, DeleteAssignedStream, ReleaseFinalizer, HandleClusterFallback,
      MigrateFromOldCluster, Schedule, Gate, Ensure, Confirm, Report, kids
<1>5. CASE \E q \in Pipelines : Reconcile(q) \/ CacheSync(q) \/ TimerFire(q) \/ UserStep(q)
  BY <1>5, <1>u DEF Reconcile, CacheSync, TimerFire, UserStep, CreatePipeline, EditPipeline,
                    DeletePipeline, UserWrite, kids
<1>6. CASE Crash \/ UNCHANGED vars
  BY <1>6, <1>u DEF Crash, vars, kids
<1>7. CASE WorldStep
  <2>1. ASSUME NEW q \in Pipelines, PodStarts(q) \/ PodTrouble(q) PROVE ChildrenChange(p)
    <3>1. cm' = cm /\ ~NoPod(q) /\ (p # q => pod'[p] = pod[p])
      BY <1>0, <2>1 DEF PodStarts, PodTrouble, NoPod
    <3> QED BY <3>1 DEF ChildrenChange, NoPod
  <2>2. ASSUME NEW q \in Pipelines, PodGone(q) PROVE ChildrenChange(p)
    <3>1. cm' = cm /\ pod'[q] = None /\ (p # q => pod'[p] = pod[p])
      BY <1>0, <2>2 DEF PodGone
    <3> QED BY <3>1 DEF ChildrenChange, NoPod
  <2>3. ASSUME NEW q \in Pipelines, CollectChildren(q) PROVE ChildrenChange(p)
    BY <1>d, <2>3 DEF CollectChildren
  <2> QED BY <1>7, <1>u, <2>1, <2>2, <2>3
      DEF WorldStep, KubeStep, Recovery, InstanceUp, InstanceHeal, ReadyGained, InstanceDown,
          InstanceCut, ReadyLost, StreamDrop, StreamStall, DeleteCluster, CreateCluster,
          ChangeSecret, kids
<1> QED BY <1>4, <1>5, <1>6, <1>7, NextCases

(* A cache entry only ever moves to the object as it is stored. *)
LEMMA CacheStep ==
  ASSUME TypeInv, [Next]_vars, NEW p \in Pipelines
  PROVE  cache'[p] = cache[p] \/ cache'[p] = obj'[p]
<1>1. CASE WorkerStep
  BY <1>1 DEF WorkerStep, AddFinalizer, DeleteAssignedStream, ReleaseFinalizer, HandleStopped,
              HandleClusterFallback, GetCluster, MigrateFromOldCluster, Schedule, Gate, Ensure,
              Confirm, Report, ApplyPod
<1>2. CASE \E q \in Pipelines : Reconcile(q) \/ CacheSync(q) \/ TimerFire(q) \/ UserStep(q)
  <2>1. ASSUME NEW q \in Pipelines, CacheSync(q) PROVE cache'[p] = cache[p] \/ cache'[p] = obj'[p]
    BY <2>1 DEF CacheSync, TypeInv, TypeOK
  <2> QED BY <1>2, <2>1 DEF Reconcile, TimerFire, UserStep, CreatePipeline, EditPipeline,
                            DeletePipeline, UserWrite
<1>3. CASE Crash \/ WorldStep \/ UNCHANGED vars
  BY <1>3, WorldStepType DEF Crash, unseen, vars
<1> QED BY <1>1, <1>2, <1>3, NextCases

(* Where a placement in an object comes from. *)
LEMMA PlacementOrigin ==
  ASSUME TypeInv, [Next]_vars, NEW p \in Pipelines, obj'[p].st.at # None
  PROVE  \/ obj[p].st.at # None
         \/ /\ pc = "report" /\ cur = p /\ cache[p] = snap
            /\ snap.life # "absent" /\ snap.spec.ref # None
<1>1. CASE \E st \in PipelineStatus : StatusStored(p, st)
  <2>1. PICK st \in PipelineStatus : StatusStored(p, st)
    BY <1>1
  <2>2. cur = p /\ fresh /\ snap = obj[p] /\ snap \in LiveObject
    BY <2>1 DEF StatusStored
  <2>3. cache[p] = snap /\ snap.life # "absent"
    BY <2>2 DEF TypeInv, FreshInv, LiveObject
  <2> QED BY <2>1, <2>2, <2>3, StoredPlacement
<1>2. CASE FinalizerAdded(p)
  BY <1>2 DEF FinalizerAdded, LiveObject
<1>3. CASE Released(p)
  BY <1>3, ObjectCases DEF Released
<1>4. CASE UserWrote(p)
  <2>1. NewStatus.at = None
    BY DEF NewStatus
  <2> QED BY <1>4, <2>1 DEF UserWrote
<1> QED BY <1>1, <1>2, <1>3, <1>4, ObjStep DEF ObjectStep

(* Every step keeps the invariant that separates the two run modes. *)
LEMMA ModeInvNext == ASSUME TypeInv, ModeInv, [Next]_vars PROVE ModeInv'
<1>l. LocalStep
  BY LocalSteps
<1>1. ASSUME NEW p \in Pipelines, obj'[p].st.at # None
      PROVE  cache'[p].st.at # None \/ (cache'[p].life # "absent" /\ cache'[p].spec.ref # None)
  BY <1>1, CacheStep, PlacementOrigin DEF ModeInv
<1>2. ASSUME pc' # "idle", obj'[cur'].st.at # None
      PROVE  snap'.st.at # None \/ snap'.spec.ref # None
  <2>1. CASE pc = "idle"
    <3>1. cur' \in Pipelines /\ snap' = cache[cur'] /\ obj' = obj
      BY <1>2, <1>l, <2>1 DEF LocalStep
    <3> QED BY <1>2, <3>1 DEF ModeInv
  <2>2. CASE pc # "idle"
    <3>1. UNCHANGED <<cur, snap>> /\ cur \in Pipelines
      BY <1>2, <1>l, <2>2 DEF LocalStep, TypeInv, WorkerInv
    <3> QED BY <1>2, <2>2, <3>1, PlacementOrigin DEF ModeInv
  <2> QED BY <2>1, <2>2
<1>3. ASSUME pc' \in {"migrate", "schedule"} \cup DeployPCs
      PROVE  NoPod(cur)' /\ cm'[cur'] = None
  <2>1. CASE pc = "cluster" /\ pc' = "migrate"
    BY <1>l, <2>1 DEF LocalStep, NoPod
  <2>2. CASE pc \in {"migrate", "schedule"} \cup DeployPCs /\ cur' = cur
    <3>1. cur \in Pipelines /\ pc # "pod"
      BY <2>2 DEF TypeInv, WorkerInv, DeployPCs
    <3>2. ChildrenChange(cur)
      BY <3>1, ChildrenStep
    <3> QED BY <2>2, <3>1, <3>2 DEF ModeInv, ChildrenChange, NoPod
  <2> QED BY <1>3, <1>l, <2>1, <2>2 DEF LocalStep, DeployPCs
<1>4. ASSUME NEW p \in Pipelines, obj'[p].st.at # None PROVE NoPod(p)' /\ cm'[p] = None
  <2>1. ChildrenChange(p)
    BY ChildrenStep
  <2>2. NoPod(p) /\ cm[p] = None
    BY <1>4, PlacementOrigin DEF ModeInv, DeployPCs
  <2>3. ~(pc = "pod" /\ cur = p)
    BY <1>4, PlacementOrigin DEF ModeInv, TypeInv, WorkerInv
  <2> QED BY <2>1, <2>2, <2>3 DEF ChildrenChange
<1> QED BY <1>1, <1>2, <1>3, <1>4 DEF ModeInv

(* A pipeline never has a recorded stream placement and a pod or ConfigMap of  *)
(* its own at the same time, however stale the cache a reconcile acts on.      *)
THEOREM RunModesExclude == SafetySpec => []OneRunMode
<1>1. Init => ModeInv
  BY ObjectCases DEF Init, ModeInv, DeployPCs
<1>2. TypeInv /\ ModeInv /\ [Next]_vars => ModeInv'
  BY ModeInvNext
<1>3. ModeInv => OneRunMode
  BY DEF ModeInv, OneRunMode, NoPod
<1> QED BY <1>1, <1>2, <1>3, TypeInvariant, PTL DEF SafetySpec

-----------------------------------------------------------------------------
(***************************************************************************)
(* StreamPlacement implements StreamLease: initial states map to initial    *)
(* states, and every step to one step of each pipeline's lease.             *)
(***************************************************************************)

InTrouble(o) == o.st.phase \in {"Failed", "Pending"}

Gone(p) == obj[p].st.at = None \/ strm[obj[p].st.at][p] = None

(* A step of p's lease, read off the objects. *)
LeaseMove(p) ==
  LET o == obj[p]
      n == obj'[p]
  IN  \/ /\ o.life = "absent" /\ n.life = "live" /\ n.fin = o.fin
         /\ n.st.at = o.st.at /\ n.st.phase = o.st.phase
      \/ o.life = "live" /\ n.fin /\ n.life = o.life /\ n.st = o.st
      \/ /\ o.life = "live" /\ o.fin /\ n.st.at \in Instances
         /\ Gone(p) \/ o.st.at[1] = n.st.at[1]
         /\ n.life = o.life /\ n.fin = o.fin /\ ~InTrouble(n)
      \/ o.life = "live" /\ Gone(p) /\ n.st.at = None /\ n.life = o.life /\ n.fin = o.fin
      \/ /\ o.life = "live" /\ n.st.at = None /\ InTrouble(n)
         /\ n.life = o.life /\ n.fin = o.fin
      \/ o.life = "live" /\ o.fin /\ n.life = "deleting" /\ n.fin = o.fin /\ n.st = o.st
      \/ /\ \/ o.life = "live" /\ ~o.fin /\ o.st.at = None
            \/ o.life = "deleting" /\ Gone(p)
         /\ n = Absent
      \/ n.life = o.life /\ n.fin = o.fin /\ n.st.at = o.st.at /\ n.st.phase = o.st.phase

(* Read through the refinement mapping, such a step is one of StreamLease. *)
LEMMA MoveIsStep ==
  ASSUME TypeInv, TypeInv', NEW p \in Pipelines, LeaseMove(p) PROVE Lease!Step(p)
<1>1. obj[p].st.at \in Instances \cup {None}
  BY ObjectCases DEF TypeInv, TypeOK, PipelineStatus
<1>2. Gone(p) => Lease!StreamGone(p)
  BY <1>1 DEF Gone, Lease!StreamGone
<1>3. Absent.life = "absent" /\ ~Absent.fin /\ Absent.st.at = None /\ ~InTrouble(Absent)
  BY DEF Absent, NewStatus, InTrouble
<1> QED BY <1>2, <1>3 DEF LeaseMove, InTrouble, Lease!Step, Lease!Create, Lease!Guard, Lease!Place,
        Lease!Vacate, Lease!Abandon, Lease!Delete, Lease!Vanish, Lease!Rest

(* A status write takes, keeps or gives up the lease. *)
LEMMA StatusMoves ==
  ASSUME TypeInv, TeardownInv, NEW p \in Pipelines, NEW st \in PipelineStatus, StatusStored(p, st)
  PROVE  LeaseMove(p)
<1>1. /\ obj[p] \in LiveObject /\ snap = obj[p] /\ cur = p /\ pc # "idle" /\ WorkerInv
      /\ obj'[p] = [obj[p] EXCEPT !.st = st] /\ StatusWritten(st)
  BY DEF StatusStored, TypeInv
<1>2. obj'[p].st = st /\ obj'[p].fin = obj[p].fin /\ obj'[p].life = obj[p].life
  BY <1>1, SetStatus
<1>3. pc \notin {"idle", "delete", "release"}
  BY <1>1 DEF StatusWritten, ClusterPCs, DeployPCs
<1>4. obj[p].life = "live"
  BY <1>1, <1>3 DEF WorkerInv
<1>5. CASE pc \in {"stopWrite", "fallbackWrite"} /\ st.at = None
  <2>1. Gone(p)
    BY <1>1, <1>5 DEF TeardownInv, Gone
  <2> QED BY <1>2, <1>4, <1>5, <2>1 DEF LeaseMove
<1>6. CASE st.at = None /\ st.phase \in {"Failed", "Pending"}
  BY <1>2, <1>4, <1>6 DEF LeaseMove, InTrouble
<1>7. CASE pc = "report" /\ st.at = tgt /\ snap.fin /\ tgt[1] = snap.spec.ref
  <2>a. st.at \in Instances
    BY <1>1, <1>7 DEF WorkerInv, DeployPCs
  <2>b. \A ph, re : st # UnplacedStatus(ph, re)
    <3>1. \A ph, re : UnplacedStatus(ph, re).at = None
      BY DEF UnplacedStatus
    <3> QED BY <2>a, <3>1, NoneAssumption
  <2>1. \E a \in {"Running", "StreamNotActive", "StreamMissing", "StatusUnavailable"} :
          st = PlacedStatus(a)
    BY <1>1, <1>7, <2>b DEF StatusWritten
  <2>2. st.phase = "Running"
    BY <2>1 DEF PlacedStatus
  <2>4. Gone(p) \/ obj[p].st.at[1] = st.at[1]
    BY <1>1, <1>7 DEF TeardownInv, Gone, DeployPCs
  <2> QED BY <1>1, <1>2, <1>4, <1>7, <2>2, <2>a, <2>4 DEF LeaseMove, InTrouble
<1>8. CASE st.at = None /\ obj[p].st.at = None
  BY <1>2, <1>4, <1>8 DEF LeaseMove, Gone
<1> QED BY <1>5, <1>6, <1>7, <1>8, StoredPlacement

(* A user's create, edit and delete. *)
LEMMA UserMoves ==
  ASSUME TypeInv, TeardownInv, NEW p \in Pipelines, NEW q \in Pipelines, UserStep(q)
  PROVE  LeaseMove(p)
<1>0. obj[q] \in Object /\ (obj[q].life = "absent" => obj[q] = Absent)
  BY DEF TypeInv, TypeOK, Object
<1>s. ASSUME NEW o, UserWrite(q, o) PROVE obj'[q] = o /\ (q # p => obj'[p] = obj[p])
  BY <1>s, StoreChange DEF UserWrite
<1>u. CASE obj'[p] = obj[p]
  BY <1>u DEF LeaseMove
<1>1. CASE CreatePipeline(q) /\ q = p
  <2>1. PICK s \in PipelineSpec :
          UserWrite(q, [life |-> "live", fin |-> FALSE, spec |-> s, st |-> NewStatus])
    BY <1>1 DEF CreatePipeline
  <2>2. obj'[p] = [life |-> "live", fin |-> FALSE, spec |-> s, st |-> NewStatus]
    BY <1>1, <1>s, <2>1
  <2>3. obj[p].life = "absent" /\ obj[p].fin = FALSE /\ obj[p].st = NewStatus
    BY <1>0, <1>1 DEF CreatePipeline, Absent
  <2>4. obj'[p].life = "live" /\ obj'[p].fin = FALSE /\ obj'[p].st = NewStatus
    BY <2>2
  <2> HIDE DEF NewStatus
  <2> QED BY <2>3, <2>4 DEF LeaseMove
<1>2. CASE EditPipeline(q) /\ q = p
  <2>1. PICK s \in PipelineSpec : UserWrite(q, [obj[q] EXCEPT !.spec = s, !.st.observed = FALSE])
    BY <1>2 DEF EditPipeline
  <2>2. obj'[p] = [obj[p] EXCEPT !.spec = s, !.st.observed = FALSE]
    BY <1>2, <1>s, <2>1
  <2>3. obj[p] \in LiveObject
    BY <1>0, <1>2, ObjectCases DEF EditPipeline
  <2>4. obj[p].st \in PipelineStatus /\ "st" \in DOMAIN obj[p]
    BY <2>3 DEF LiveObject
  <2>5. /\ obj'[p].life = obj[p].life /\ obj'[p].fin = obj[p].fin
        /\ obj'[p].st = [obj[p].st EXCEPT !.observed = FALSE]
    BY <2>2, <2>3, Zenon DEF LiveObject
  <2>6. obj'[p].st.at = obj[p].st.at /\ obj'[p].st.phase = obj[p].st.phase
    BY <2>4, <2>5 DEF PipelineStatus
  <2> QED BY <2>5, <2>6 DEF LeaseMove
<1>3. CASE DeletePipeline(q) /\ q = p
  <2>1. obj[p] \in LiveObject /\ obj[p].life = "live"
    BY <1>0, <1>3, ObjectCases DEF DeletePipeline
  <2>2. CASE obj[p].fin
    <3>1. obj'[p] = [obj[p] EXCEPT !.life = "deleting"]
      BY <1>3, <1>s, <2>2 DEF DeletePipeline
    <3>2. obj'[p].life = "deleting" /\ obj'[p].fin = obj[p].fin /\ obj'[p].st = obj[p].st
      BY <2>1, <3>1 DEF LiveObject
    <3> QED BY <2>1, <2>2, <3>2 DEF LeaseMove
  <2>3. CASE ~obj[p].fin
    <3>1. obj'[p] = Absent
      BY <1>3, <1>s, <2>3 DEF DeletePipeline
    <3>2. obj[p].st.at = None
      BY <2>3 DEF TeardownInv
    <3> QED BY <2>1, <2>3, <3>1, <3>2 DEF LeaseMove
  <2> QED BY <2>2, <2>3
<1>4. q # p => obj'[p] = obj[p]
  BY <1>s, UserStepWrites
<1> QED BY <1>u, <1>1, <1>2, <1>3, <1>4 DEF UserStep

(* A step inside Reconcile moves on. *)
LEMMA WorkerMovesOn == ASSUME WorkerStep PROVE pc' # pc
<1>r. ASSUME NEW q, NEW t, Return(q, t) PROVE pc' = "idle"
  BY <1>r DEF Return
<1>w. ASSUME NEW st, NEW q, NEW t, NEW ev,
             UpdateStatus(st, q, t, ev) \/ WriteStatus(st, q, t, ev)
      PROVE  pc' = "idle"
  BY <1>w, <1>r DEF UpdateStatus, WriteStatus
<1>1. CASE AddFinalizer \/ ReleaseFinalizer
  BY <1>1, <1>r DEF AddFinalizer, ReleaseFinalizer, ReturnRetry
<1>2. CASE HandleStopped \/ HandleClusterFallback
  BY <1>2, <1>w DEF HandleStopped, HandleClusterFallback
<1>3. CASE DeleteAssignedStream("delete", "release") \/ DeleteAssignedStream("stop", "stopWrite")
           \/ DeleteAssignedStream("fallback", "fallbackWrite") \/ MigrateFromOldCluster
  BY <1>3, <1>r DEF DeleteAssignedStream, MigrateFromOldCluster, GoTo, ReturnRetry
<1>4. CASE GetCluster
  BY <1>4, <1>w DEF GetCluster, GoTo
<1>5. CASE Schedule
  BY <1>5, <1>w DEF Schedule
<1>6. CASE Gate \/ Confirm
  BY <1>6 DEF Gate, Confirm, GoTo
<1>7. CASE Ensure("ensure", "confirm") \/ Ensure("recreate", "report")
  BY <1>7, <1>w, <1>r DEF Ensure, GoTo, ReturnRetry
<1>8. CASE Report
  BY <1>8, <1>w DEF Report
<1>9. CASE ApplyPod
  BY <1>9, <1>w, <1>r DEF ApplyPod, ReturnRetry
<1> QED BY <1>1, <1>2, <1>3, <1>4, <1>5, <1>6, <1>7, <1>8, <1>9 DEF WorkerStep

(* Every step of the system is, for each pipeline, a step of its lease. *)
LEMMA EveryStepMoves ==
  ASSUME TypeInv, TeardownInv, [Next]_vars, NEW p \in Pipelines PROVE LeaseMove(p)
<1>u. CASE obj'[p] = obj[p]
  BY <1>u DEF LeaseMove
<1>1. CASE \E q \in Pipelines : UserStep(q)
  BY <1>1, UserMoves
<1>2. CASE WorkerStep
  <2>1. ObjectStep(p)
    BY <1>2, WorkerObjectStep
  <2>2. CASE \E st \in PipelineStatus : StatusStored(p, st)
    BY <2>2, StatusMoves
  <2>3. CASE FinalizerAdded(p)
    <3>1. obj[p] \in LiveObject /\ obj'[p] = [obj[p] EXCEPT !.fin = TRUE] /\ obj[p].life = "live"
      BY <2>3 DEF FinalizerAdded, TypeInv, WorkerInv
    <3>2. obj'[p].life = obj[p].life /\ obj'[p].fin /\ obj'[p].st = obj[p].st
      BY <3>1 DEF LiveObject
    <3> QED BY <3>1, <3>2 DEF LeaseMove
  <2>4. CASE Released(p)
    <3>1. obj[p].life = "deleting" /\ Gone(p) /\ obj'[p] = Absent
      BY <2>4 DEF Released, TypeInv, WorkerInv, TeardownInv, Gone
    <3> QED BY <3>1 DEF LeaseMove
  <2>5. CASE UserWrote(p)
    BY <1>2, <2>5, WorkerMovesOn DEF UserWrote
  <2> QED BY <1>u, <2>1, <2>2, <2>3, <2>4, <2>5 DEF ObjectStep
<1>3. CASE \E q \in Pipelines : Reconcile(q) \/ CacheSync(q) \/ TimerFire(q)
  BY <1>3, <1>u DEF Reconcile, CacheSync, TimerFire
<1>4. CASE Crash \/ WorldStep \/ UNCHANGED vars
  BY <1>4, <1>u, WorldStepType DEF Crash, unseen, vars
<1> QED BY <1>1, <1>2, <1>3, <1>4, NextCases

(* The initial states map to initial states of StreamLease. *)
LEMMA LeaseInit == ASSUME Init PROVE Lease!Init
<1>1. Absent.life = "absent" /\ Absent.fin = FALSE /\ Absent.st.at = None /\ Absent.st.phase = ""
  BY DEF Absent, NewStatus
<1>2. \A p \in Pipelines : obj[p] = Absent /\ \A i \in Instances : strm[i][p] = None
  BY DEF Init
<1>3. [p \in Pipelines |-> obj[p].life] = [p \in Pipelines |-> "absent"]
  BY <1>1, <1>2
<1>4. [p \in Pipelines |-> obj[p].fin] = [p \in Pipelines |-> FALSE]
  BY <1>1, <1>2
<1>5. [p \in Pipelines |-> obj[p].st.at] = [p \in Pipelines |-> None]
  BY <1>1, <1>2
<1>6. [p \in Pipelines |-> obj[p].st.phase \in {"Failed", "Pending"}] = [p \in Pipelines |-> FALSE]
  <2>1. ASSUME NEW p \in Pipelines PROVE (obj[p].st.phase \in {"Failed", "Pending"}) = FALSE
    <3>1. obj[p].st.phase \notin {"Failed", "Pending"}
      BY <1>1, <1>2
    <3> QED BY <3>1
  <2> QED BY <2>1, Zenon
<1>7. [p \in Pipelines |-> {i \in Instances : strm[i][p] # None}] = [p \in Pipelines |-> {}]
  BY <1>2
<1> QED BY <1>3, <1>4, <1>5, <1>6, <1>7 DEF Lease!Init

(* Whatever crashes, times out or races, for any number of pipelines and      *)
(* instances, every recorded placement is a lease: taken under the finalizer, *)
(* frozen during deletion and given up only when its stream is gone, the      *)
(* pipeline is in trouble or the stream moves within its cluster.             *)
THEOREM PlacementImplementsLease == SafetySpec => PlacementIsLease
<1>1. Init => Lease!Init
  BY LeaseInit
<1>2. Init => TeardownInv
  BY ObjectCases DEF Init, TeardownInv, DeployPCs
<1>3. TypeInv /\ TeardownInv /\ [Next]_vars => TeardownInv'
  BY TeardownInvNext
<1>4. TypeInv /\ TypeInv' /\ TeardownInv /\ [Next]_vars => [Lease!Next]_Lease!lease
  <2>1. SUFFICES ASSUME TypeInv, TypeInv', TeardownInv, [Next]_vars PROVE Lease!Next
    OBVIOUS
  <2>2. ASSUME NEW p \in Pipelines PROVE Lease!Step(p)
    BY <2>1, <2>2, EveryStepMoves, MoveIsStep
  <2> QED BY <2>2 DEF Lease!Next
<1> QED BY <1>1, <1>2, <1>3, <1>4, TypeInvariant, PTL DEF SafetySpec, PlacementIsLease, Lease!Spec

-----------------------------------------------------------------------------
(* Streams left behind.  NoStrayStreams does not hold of every run: a crash   *)
(* or a timeout between a deploy and its status, an instance that loses       *)
(* readiness while it runs, a cluster deleted under its pipelines, a config   *)
(* that cannot be rendered, lacks its Secret or is rejected, and an edit that *)
(* races with the reconcile, or that its copy does not have yet, may each      *)
(* make the operator give a placement up without its stream.  Here it is       *)
(* shown that nothing else does: instances that die or cannot be reached,     *)
(* streams that drop or stall, failed calls, pods in trouble.                 *)

Undisturbed ==
  /\ Faults \cap {"crash", "timeout", "flap", "cluster"} = {}
  /\ BadRender = {} /\ Rejected = {} /\ NeedsSecret = {}
  /\ ~EditRaces

(* Where the stream of p may be: where its status says, or, while the worker  *)
(* deploys it, only there.                                                    *)
Home(i, p) == IF cur = p /\ pc \in DeployPCs THEN i = tgt ELSE i = obj[p].st.at

Alive(i) == i \in ready /\ inst[i] # "down"

StrayInv ==
  /\ pc # "idle" => fresh
  /\ clusters = Clusters
  /\ \A i \in Instances, p \in Pipelines : strm[i][p] # None => Home(i, p) /\ Alive(i)
  /\ pc \in {"gate", "ensure"} /\ strm[tgt][cur] # None => obj[cur].st.at = tgt

(* Undisturbed, a DELETE that fails leaves the stream and one that succeeds    *)
(* does not.                                                                  *)
LEMMA DeleteQuiet ==
  ASSUME Undisturbed, NEW i, NEW p, NEW r \in DeleteStream(i, p)
  PROVE  (r.res = "ok" /\ r.str = None) \/ (r.res # "ok" /\ r.str = strm[i][p])
<1>1. ~CanFault("timeout")
  BY DEF Undisturbed, CanFault
<1>2. r = Reply("ok", None, 0) \/ r = Reply("error", strm[i][p], 0)
  BY <1>1 DEF DeleteStream
<1> QED BY <1>2 DEF Reply

(* And a deploy succeeds on a reachable instance or changes nothing. *)
LEMMA EnsureQuiet ==
  ASSUME Undisturbed, NEW i, NEW p, NEW b, NEW r \in EnsureStream(i, p, b)
  PROVE  (r.res = "ok" /\ Alive(i)) \/ (r.res = "error" /\ r.str = strm[i][p])
<1>1. ~CanFault("timeout") /\ b.cfg \notin Rejected
  BY DEF Undisturbed, CanFault
<1>2. \/ r = Reply("error", strm[i][p], 0)
      \/ Reachable(i) /\ \E s, f : r = Reply("ok", s, f)
  BY <1>1 DEF EnsureStream
<1>3. Reachable(i) => Alive(i)
  BY DEF Reachable, Alive
<1> QED BY <1>2, <1>3 DEF Reply

(* With a current copy every status write succeeds, or changes nothing because *)
(* nothing is to change.                                                      *)
LEMMA FreshWrite ==
  ASSUME TypeInv, StrayInv, pc # "idle", NEW st, NEW q, NEW t, NEW ev,
         UpdateStatus(st, q, t, ev) \/ WriteStatus(st, q, t, ev)
  PROVE  /\ pc' = "idle" /\ cur' = None /\ obj'[cur].st = st
         /\ \A p \in Pipelines : p # cur => obj'[p] = obj[p]
<1>1. cur \in Pipelines /\ fresh /\ snap = obj[cur] /\ snap \in LiveObject
  BY ObjectCases DEF TypeInv, TypeOK, WorkerInv, FreshInv, StrayInv
<1>2. CASE UpdateStatus(st, q, t, ev)
  <2>1. Store(cur, [obj[cur] EXCEPT !.st = st]) /\ pc' = "idle" /\ cur' = None
    BY <1>1, <1>2 DEF UpdateStatus, Return
  <2>2. [obj[cur] EXCEPT !.st = st].st = st
    BY <1>1 DEF LiveObject
  <2> QED BY <1>1, <2>1, <2>2, StoreChange
<1>3. CASE WriteStatus(st, q, t, ev) /\ st = snap.st
  BY <1>1, <1>3 DEF WriteStatus, Return
<1>4. CASE WriteStatus(st, q, t, ev) /\ st # snap.st
  <2>1. UpdateStatus(st, q, t, ev)
    BY <1>4 DEF WriteStatus
  <2> QED BY <1>2, <2>1
<1> QED BY <1>2, <1>3, <1>4

(* What a step of the worker has to leave behind for the pipeline in hand. *)
LeavesHome ==
  /\ UNCHANGED cluster
  /\ \A p \in Pipelines : p # cur => obj'[p] = obj[p]
  /\ \A i \in Instances, p \in Pipelines : p # cur => strm'[i][p] = strm[i][p]
  /\ \/ pc' = "idle" /\ cur' = None
     \/ pc' # "idle" /\ cur' = cur /\ fresh' = fresh
  /\ \A i \in Instances : strm'[i][cur] # None =>
       /\ Alive(i)
       /\ i = IF pc' \in DeployPCs THEN tgt' ELSE obj'[cur].st.at
       /\ pc' \in {"gate", "ensure"} => obj'[cur].st.at = i

(* A step that leaves every pipeline's home as it was keeps the invariant. *)
LEMMA LeavesHomeKeeps ==
  ASSUME TypeInv, TypeInv', StrayInv, pc # "idle", LeavesHome
  PROVE  StrayInv'
<1>1. cur \in Pipelines /\ cur # None /\ fresh
  BY NoneAssumption DEF TypeInv, WorkerInv, StrayInv
<1>2. clusters' = clusters /\ ready' = ready /\ inst' = inst /\ \A i : Alive(i)' = Alive(i)
  BY DEF LeavesHome, cluster, Alive
<1>3. (pc' # "idle" => fresh') /\ clusters' = Clusters
  BY <1>1, <1>2 DEF LeavesHome, StrayInv
<1>4. ASSUME NEW i \in Instances, NEW p \in Pipelines, strm'[i][p] # None
      PROVE  Home(i, p)' /\ Alive(i)
  <2>1. CASE p = cur
    <3>1. Alive(i) /\ i = IF pc' \in DeployPCs THEN tgt' ELSE obj'[cur].st.at
      BY <1>4, <2>1 DEF LeavesHome
    <3>2. cur' = cur \/ pc' \notin DeployPCs
      BY DEF LeavesHome, DeployPCs
    <3> QED BY <2>1, <3>1, <3>2 DEF Home
  <2>2. CASE p # cur
    <3>1. strm[i][p] # None /\ obj'[p] = obj[p] /\ cur' # p
      BY <1>4, <2>2, NoneAssumption DEF LeavesHome
    <3>2. i = obj[p].st.at /\ Alive(i)
      BY <2>2, <3>1 DEF StrayInv, Home
    <3> QED BY <3>1, <3>2 DEF Home
  <2> QED BY <2>1, <2>2
<1>5. ASSUME pc' \in {"gate", "ensure"}, strm'[tgt'][cur'] # None PROVE obj'[cur'].st.at = tgt'
  <2>1. cur' = cur /\ pc' # "idle"
    BY <1>5 DEF LeavesHome
  <2>2. tgt' \in Instances
    BY <1>5 DEF TypeInv, WorkerInv, DeployPCs
  <2> QED BY <1>5, <2>1, <2>2 DEF LeavesHome
<1> QED BY <1>2, <1>3, <1>4, <1>5 DEF StrayInv

(* What the invariants say of the pipeline in hand. *)
LEMMA InHand ==
  ASSUME TypeInv, StrayInv, pc # "idle"
  PROVE  /\ cur \in Pipelines /\ fresh /\ snap = obj[cur] /\ snap \in LiveObject
         /\ \A i \in Instances : strm[i][cur] # None =>
              Alive(i) /\ i = IF pc \in DeployPCs THEN tgt ELSE snap.st.at
<1>1. cur \in Pipelines /\ fresh /\ snap = obj[cur] /\ snap \in LiveObject
  BY ObjectCases DEF TypeInv, TypeOK, WorkerInv, FreshInv, StrayInv
<1> QED BY <1>1 DEF StrayInv, Home

(* A step outside the deploy that at most deletes streams of the pipeline and  *)
(* keeps its object, wherever Reconcile goes from there.                      *)
LEMMA StaysHome ==
  ASSUME TypeInv, StrayInv, pc # "idle", pc \notin DeployPCs, pc' \notin DeployPCs,
         UNCHANGED cluster, obj' = obj,
         \/ pc' = "idle" /\ cur' = None
         \/ pc' # "idle" /\ cur' = cur /\ fresh' = fresh,
         \A i \in Instances, p \in Pipelines :
           strm'[i][p] = strm[i][p] \/ (p = cur /\ strm'[i][p] = None)
  PROVE  LeavesHome
<1>1. cur \in Pipelines /\ snap = obj[cur]
  BY InHand
<1>2. \A i \in Instances : strm'[i][cur] # None => Alive(i) /\ i = snap.st.at
  BY <1>1, InHand
<1>3. pc' \notin {"gate", "ensure"}
  BY DEF DeployPCs
<1> QED BY <1>1, <1>2, <1>3 DEF LeavesHome

(* deleteAssignedStream, and migrateFromOldCluster, which calls it too: *)
(* whatever the reply, nothing new runs.                                *)
LEMMA DeleteLeavesHome ==
  ASSUME TypeInv, StrayInv, Undisturbed,
         \/ DeleteAssignedStream("delete", "release")
         \/ DeleteAssignedStream("stop", "stopWrite")
         \/ DeleteAssignedStream("fallback", "fallbackWrite")
         \/ MigrateFromOldCluster
  PROVE  LeavesHome
<1>1. pc # "idle" /\ pc \notin DeployPCs /\ UNCHANGED cluster /\ obj' = obj
  BY DEF DeleteAssignedStream, MigrateFromOldCluster, DeployPCs
<1>2. /\ pc' \notin DeployPCs
      /\ \/ pc' = "idle" /\ cur' = None
         \/ pc' # "idle" /\ cur' = cur /\ fresh' = fresh
  BY DEF DeleteAssignedStream, MigrateFromOldCluster, DeployPCs, GoTo, ReturnRetry, Return
<1>3. \/ strm' = strm
      \/ snap.st.at # None /\ \E r \in DeleteStream(snap.st.at, cur) : Apply(snap.st.at, cur, r)
  BY DEF DeleteAssignedStream, MigrateFromOldCluster
<1>4. cur \in Pipelines
  BY <1>1, InHand
<1>5. \A i \in Instances, p \in Pipelines :
        strm'[i][p] = strm[i][p] \/ (p = cur /\ strm'[i][p] = None)
  <2>1. CASE strm' = strm
    BY <2>1
  <2>2. CASE snap.st.at # None /\ \E r \in DeleteStream(snap.st.at, cur) : Apply(snap.st.at, cur, r)
    <3>1. snap.st.at \in Instances
      BY <1>1, <2>2, SnapTypes
    <3>2. PICK r \in DeleteStream(snap.st.at, cur) : Apply(snap.st.at, cur, r)
      BY <2>2
    <3>3. /\ strm'[snap.st.at][cur] = r.str
          /\ \A j \in Instances, q \in Pipelines :
               <<j, q>> # <<snap.st.at, cur>> => strm'[j][q] = strm[j][q]
      BY <1>4, <3>1, <3>2, ApplyChange
    <3>4. r.str = None \/ r.str = strm[snap.st.at][cur]
      BY <3>2, DeleteQuiet
    <3> QED BY <3>3, <3>4
  <2> QED BY <1>3, <2>1, <2>2
<1> QED BY <1>1, <1>2, <1>5, StaysHome

(* The three writes that give a placement up, after its stream was deleted. *)
LEMMA ReleaseLeavesHome ==
  ASSUME TypeInv, StrayInv, TeardownInv,
         ReleaseFinalizer \/ HandleStopped \/ HandleClusterFallback
  PROVE  LeavesHome
<1>1. /\ pc \in {"release", "stopWrite", "fallbackWrite"} /\ pc # "idle" /\ pc \notin DeployPCs
      /\ UNCHANGED cluster /\ strm' = strm
  BY DEF ReleaseFinalizer, HandleStopped, HandleClusterFallback, DeployPCs
<1>2. ASSUME NEW i \in Instances PROVE strm'[i][cur] = None
  <2>1. strm[i][cur] # None => i = snap.st.at
    BY <1>1, InHand
  <2>2. i # None
    BY NoneAssumption
  <2> QED BY <1>1, <2>1, <2>2 DEF TeardownInv
<1>3. cur \in Pipelines /\ fresh
  BY <1>1, InHand
<1>4. pc' = "idle" /\ cur' = None /\ \A p \in Pipelines : p # cur => obj'[p] = obj[p]
  <2>1. CASE ReleaseFinalizer
    <3>1. Store(cur, Absent) /\ Return({}, {})
      BY <1>3, <2>1 DEF ReleaseFinalizer
    <3> QED BY <1>3, <3>1, StoreChange DEF Return
  <2>2. CASE HandleStopped
    BY <1>1, <2>2, FreshWrite DEF HandleStopped
  <2>3. CASE HandleClusterFallback
    BY <1>1, <2>3, FreshWrite DEF HandleClusterFallback
  <2> QED BY <2>1, <2>2, <2>3
<1> QED BY <1>1, <1>2, <1>4 DEF LeavesHome

(* The steps that touch no stream and keep the placement. *)
LEMMA OthersLeaveHome ==
  ASSUME TypeInv, StrayInv, Undisturbed, AddFinalizer \/ GetCluster \/ ApplyPod
  PROVE  LeavesHome
<1>1. pc # "idle" /\ pc \notin DeployPCs /\ UNCHANGED cluster /\ strm' = strm
  BY DEF AddFinalizer, GetCluster, ApplyPod, DeployPCs
<1>2. /\ cur \in Pipelines /\ fresh /\ snap = obj[cur] /\ snap \in LiveObject
      /\ \A i \in Instances : strm[i][cur] # None => Alive(i) /\ i = snap.st.at
  BY <1>1, InHand
<1>3. SUFFICES ASSUME pc' = "idle", cur' = None, obj' # obj
               PROVE  /\ obj'[cur].st.at = snap.st.at
                      /\ \A p \in Pipelines : p # cur => obj'[p] = obj[p]
  <2>1. \/ pc' = "idle" /\ cur' = None
        \/ pc' = "migrate" /\ cur' = cur /\ fresh' = fresh /\ obj' = obj
    <3>1. CASE AddFinalizer
      BY <3>1 DEF AddFinalizer, ReturnRetry, Return
    <3>2. CASE GetCluster
      <4>1. snap.spec.ref \in clusters
        BY <1>1, <3>2, SnapTypes DEF GetCluster, StrayInv, TypeInv, WorkerInv, ClusterPCs
      <4> QED BY <3>2, <4>1 DEF GetCluster, GoTo
    <3>3. CASE ApplyPod
      BY <3>3, <1>1, FreshWrite DEF ApplyPod, ReturnRetry, Return
    <3> QED BY <3>1, <3>2, <3>3
  <2>2. CASE obj' = obj
    BY <1>1, <2>1, <2>2, StaysHome DEF DeployPCs
  <2>3. CASE obj' # obj
    <3>1. pc' = "idle" /\ cur' = None /\ obj'[cur].st.at = snap.st.at
          /\ \A p \in Pipelines : p # cur => obj'[p] = obj[p]
      BY <1>3, <2>1, <2>3
    <3>2. pc' \notin DeployPCs /\ pc' \notin {"gate", "ensure"}
      BY <3>1 DEF DeployPCs
    <3> QED BY <1>1, <1>2, <3>1, <3>2 DEF LeavesHome
  <2> QED BY <2>2, <2>3
<1>4. CASE AddFinalizer
  <2>1. Store(cur, [obj[cur] EXCEPT !.fin = TRUE])
    BY <1>2, <1>4 DEF AddFinalizer
  <2>2. [obj[cur] EXCEPT !.fin = TRUE].st = snap.st
    BY <1>2 DEF LiveObject
  <2> QED BY <1>2, <2>1, <2>2, StoreChange
<1>5. CASE GetCluster
  <2>1. snap.spec.ref \in clusters
    BY <1>1, <1>5, SnapTypes DEF GetCluster, StrayInv, TypeInv, WorkerInv, ClusterPCs
  <2> QED BY <1>3, <1>5, <2>1 DEF GetCluster
<1>6. CASE ApplyPod
  <2>1. PICK st, ev : /\ WriteStatus(st, {}, {}, ev) \/ UpdateStatus(st, {}, {}, ev)
                      /\ \/ st = [snap.st EXCEPT !.phase = "Failed", !.reason = "RenderError"]
                         \/ \E ph : st = PodStatus(ph)
    BY <1>3, <1>6 DEF ApplyPod
  <2>2. snap.st \in PipelineStatus
    BY <1>1, StatusTypes
  <2>3. st.at = snap.st.at
    BY <2>1, <2>2 DEF PodStatus, PipelineStatus
  <2>4. obj'[cur].st = st /\ \A p \in Pipelines : p # cur => obj'[p] = obj[p]
    BY <1>1, <2>1, FreshWrite
  <2> QED BY <2>3, <2>4
<1> QED BY <1>4, <1>5, <1>6

(* Sticky scheduling: a stream that still runs is on a ready instance of the   *)
(* cluster, so that is the instance picked, or there is none to be left.      *)
LEMMA ScheduleLeavesHome ==
  ASSUME TypeInv, StrayInv, TeardownInv, Undisturbed, Schedule
  PROVE  LeavesHome
<1> DEFINE c == snap.spec.ref
           picks == PickInstance(CurrentOrdinal(c), ReadyOrdinals(c), LoadByOrdinal(c, cur))
<1>1. /\ pc = "schedule" /\ pc # "idle" /\ pc \notin DeployPCs
      /\ UNCHANGED cluster /\ strm' = strm
  BY DEF Schedule, DeployPCs
<1>2. /\ cur \in Pipelines /\ fresh /\ snap = obj[cur]
      /\ \A i \in Instances : strm[i][cur] # None => Alive(i) /\ i = snap.st.at
  BY <1>1, InHand
<1>3. ASSUME NEW i \in Instances, strm[i][cur] # None
      PROVE  /\ i = snap.st.at /\ i = <<c, i[2]>> /\ Alive(i)
             /\ CurrentOrdinal(c) = i[2] /\ i[2] \in ReadyOrdinals(c)
  <2>1. i = snap.st.at /\ Alive(i) /\ i # None
    BY <1>2, <1>3, NoneAssumption
  <2>2. i[1] = c
    BY <1>1, <1>3, <2>1 DEF TeardownInv
  <2>3. i = <<i[1], i[2]>> /\ i[2] \in Ordinals
    BY DEF Instances
  <2>4. CurrentOrdinal(c) = i[2]
    BY <2>1, <2>2 DEF CurrentOrdinal
  <2>5. i[2] \in ReadyOrdinals(c)
    BY <2>1, <2>2, <2>3 DEF ReadyOrdinals, Alive
  <2> QED BY <2>1, <2>2, <2>3, <2>4, <2>5
<1>4. CASE ReadyOrdinals(c) = {}
  <2>1. \A i \in Instances : strm'[i][cur] = None
    BY <1>1, <1>3, <1>4
  <2>2. WriteStatus(UnplacedStatus("Pending", "ClusterNotReady"), {}, {cur}, {})
    BY <1>4 DEF Schedule
  <2>3. pc' = "idle" /\ cur' = None /\ \A p \in Pipelines : p # cur => obj'[p] = obj[p]
    BY <1>1, <2>2, FreshWrite
  <2> QED BY <1>1, <2>1, <2>3 DEF LeavesHome
<1>5. CASE ReadyOrdinals(c) # {}
  <2>1. PICK o \in picks :
          /\ tgt' = <<c, o>> /\ pc' \in {"gate", "ensure"}
          /\ UNCHANGED <<obj, cur, fresh>>
    BY <1>5 DEF Schedule, Undisturbed
  <2>2. ASSUME NEW i \in Instances, strm'[i][cur] # None
        PROVE  Alive(i) /\ i = tgt' /\ obj'[cur].st.at = i
    <3>1. strm[i][cur] # None
      BY <1>1, <2>2
    <3>2. picks = {i[2]}
      BY <1>3, <3>1 DEF PickInstance
    <3>3. tgt' = <<c, i[2]>>
      BY <2>1, <3>2
    <3> QED BY <1>2, <1>3, <2>1, <3>1, <3>3
  <2>3. pc' \in DeployPCs /\ pc' # "idle"
    BY <2>1 DEF DeployPCs
  <2> QED BY <1>1, <2>1, <2>2, <2>3 DEF LeavesHome
<1> QED BY <1>4, <1>5

(* The deploy: a stream appears at the target only, an error leaves what was   *)
(* there, and the status names the target.                                    *)
LEMMA DeployLeavesHome ==
  ASSUME TypeInv, StrayInv, GateInv, Undisturbed,
         Gate \/ Ensure("ensure", "confirm") \/ Confirm \/ Ensure("recreate", "report") \/ Report
  PROVE  LeavesHome
<1>1. pc # "idle" /\ pc \in DeployPCs /\ UNCHANGED cluster
  BY DEF Gate, Ensure, Confirm, Report, DeployPCs
<1>2. /\ cur \in Pipelines /\ fresh /\ snap = obj[cur] /\ tgt \in Instances /\ body \in Bodies
      /\ \A i \in Instances : strm[i][cur] # None => Alive(i) /\ i = tgt
  BY <1>1, InHand DEF TypeInv, WorkerInv
<1>3. CASE Gate \/ Confirm
  <2>1. /\ strm' = strm /\ obj' = obj /\ cur' = cur /\ fresh' = fresh /\ tgt' = tgt
        /\ pc' \in DeployPCs /\ pc' # "idle"
        /\ pc' \in {"gate", "ensure"} => pc = "gate"
    BY <1>3 DEF Gate, Confirm, GoTo, DeployPCs
  <2>2. pc = "gate" /\ strm[tgt][cur] # None => obj[cur].st.at = tgt
    BY DEF StrayInv
  <2> QED BY <1>1, <1>2, <2>1, <2>2 DEF LeavesHome
<1>4. ASSUME NEW from, NEW next, Ensure(from, next), next \in {"confirm", "report"},
             strm[tgt][cur] # None => obj[cur].st.at = tgt
      PROVE  LeavesHome
  <2>1. PICK r \in EnsureStream(tgt, cur, body) :
          /\ Apply(tgt, cur, r)
          /\ \/ r.res = "ok" /\ GoTo(next) /\ obj' = obj
             \/ r.res = "rejected"
             \/ r.res = "error" /\ ReturnRetry /\ obj' = obj
    BY <1>4 DEF Ensure
  <2>2. /\ strm'[tgt][cur] = r.str
        /\ \A j \in Instances, q \in Pipelines : <<j, q>> # <<tgt, cur>> => strm'[j][q] = strm[j][q]
    BY <1>2, <2>1, ApplyChange
  <2>3. (r.res = "ok" /\ Alive(tgt)) \/ (r.res = "error" /\ r.str = strm[tgt][cur])
    BY <2>1, EnsureQuiet
  <2>4. \A i \in Instances : strm'[i][cur] # None => i = tgt
    BY <1>2, <2>2
  <2>5. \A i \in Instances, p \in Pipelines : p # cur => strm'[i][p] = strm[i][p]
    BY <1>2, <2>2
  <2>6. CASE r.res = "ok"
    <3>1. /\ pc' = next /\ cur' = cur /\ fresh' = fresh /\ tgt' = tgt /\ obj' = obj
          /\ pc' \in DeployPCs /\ pc' # "idle" /\ pc' \notin {"gate", "ensure"}
      BY <1>4, <2>1, <2>6 DEF GoTo, DeployPCs
    <3> QED BY <1>1, <2>3, <2>4, <2>5, <2>6, <3>1 DEF LeavesHome
  <2>7. CASE r.res = "error"
    <3>1. pc' = "idle" /\ cur' = None /\ obj' = obj /\ pc' \notin DeployPCs
      BY <2>1, <2>7 DEF ReturnRetry, Return, DeployPCs
    <3>2. strm'[tgt][cur] = strm[tgt][cur]
      BY <2>2, <2>3, <2>7
    <3>3. \A i \in Instances : strm'[i][cur] # None => Alive(i) /\ i = obj[cur].st.at
      BY <1>2, <1>4, <2>4, <3>2
    <3> QED BY <1>1, <2>5, <3>1, <3>3 DEF LeavesHome
  <2> QED BY <2>3, <2>6, <2>7
<1>5. CASE Ensure("ensure", "confirm")
  <2>1. strm[tgt][cur] # None => obj[cur].st.at = tgt
    BY <1>5 DEF Ensure, StrayInv
  <2> QED BY <1>4, <1>5, <2>1
<1>6. CASE Ensure("recreate", "report")
  <2>1. strm[tgt][cur] = None
    BY <1>6 DEF Ensure, GateInv
  <2> QED BY <1>4, <1>6, <2>1
<1>7. CASE Report
  <2>1. PICK a : WriteStatus(PlacedStatus(a), {}, {cur}, {})
    BY <1>7 DEF Report
  <2>2. strm' = strm /\ PlacedStatus(a).at = tgt
    BY <1>7 DEF Report, PlacedStatus
  <2>3. /\ pc' = "idle" /\ cur' = None /\ obj'[cur].st = PlacedStatus(a)
        /\ \A p \in Pipelines : p # cur => obj'[p] = obj[p]
    BY <1>1, <2>1, FreshWrite
  <2>4. pc' \notin DeployPCs /\ pc' \notin {"gate", "ensure"} /\ obj'[cur].st.at = tgt
    BY <2>2, <2>3 DEF DeployPCs
  <2> QED BY <1>1, <1>2, <2>2, <2>3, <2>4 DEF LeavesHome
<1> QED BY <1>3, <1>5, <1>6, <1>7

(* Users write to pipelines that nobody reconciles, and only one without a     *)
(* placement disappears at once.                                              *)
LEMMA UserKeepsHome ==
  ASSUME TypeInv, TeardownInv, StrayInv, Undisturbed, NEW p \in Pipelines, UserStep(p)
  PROVE  StrayInv'
<1>1. PICK o \in Object :
        /\ UserWrite(p, o)
        /\ \/ o.st = NewStatus /\ (obj[p].life = "absent" \/ ~obj[p].fin)
           \/ o.st.at = obj[p].st.at
  BY UserStepWrites
<1>2. /\ cur # p /\ fresh' = (fresh /\ cur # p) /\ Store(p, o)
      /\ UNCHANGED <<pc, cur, tgt, strm, clusters, ready, inst>>
  BY <1>1 DEF UserWrite, Undisturbed, cluster
<1>3. obj'[p] = o /\ \A q \in Pipelines : q # p => obj'[q] = obj[q]
  BY <1>2, StoreChange
<1>4. obj[p].life = "absent" \/ ~obj[p].fin => obj[p].st.at = None
  <2>1. obj[p].life = "absent" => obj[p] = Absent
    BY DEF TypeInv, TypeOK, Object
  <2> QED BY <2>1, ObjectCases DEF TeardownInv
<1>5. NewStatus.at = None
  BY DEF NewStatus
<1>6. o.st.at = obj[p].st.at
  BY <1>1, <1>4, <1>5
<1>7. \A q \in Pipelines : obj'[q].st.at = obj[q].st.at
  BY <1>3, <1>6
<1>8. pc' # "idle" => fresh'
  BY <1>2 DEF StrayInv
<1>9. \A i \in Instances, q \in Pipelines : strm'[i][q] # None => Home(i, q)' /\ Alive(i)'
  BY <1>2, <1>7 DEF StrayInv, Home, Alive
<1>10. pc' \in {"gate", "ensure"} /\ strm'[tgt'][cur'] # None => obj'[cur'].st.at = tgt'
  <2>1. pc \in {"gate", "ensure"} => cur \in Pipelines
    BY DEF TypeInv, WorkerInv
  <2> QED BY <1>2, <1>7, <2>1 DEF StrayInv
<1> QED BY <1>2, <1>8, <1>9, <1>10 DEF StrayInv

(* The world takes streams away and makes none; an instance that is not ready  *)
(* is down or has come up empty.                                              *)
LEMMA WorldKeepsHome ==
  ASSUME TypeInv, StrayInv, Undisturbed, WorldStep
  PROVE  StrayInv'
<1>1. UNCHANGED unseen
  BY WorldStepType
<1>2. obj' = obj /\ pc' = pc /\ cur' = cur /\ fresh' = fresh /\ tgt' = tgt
  BY <1>1 DEF unseen, worker
<1>s. ChangeSecret => strm' = strm /\ ready' = ready /\ inst' = inst
  BY DEF ChangeSecret, cluster
<1>3. \A i \in Instances, p \in Pipelines : strm'[i][p] # None => strm[i][p] # None
  BY <1>s DEF WorldStep, KubeStep, PodStarts, PodGone, CollectChildren, PodTrouble, Recovery,
         InstanceUp, InstanceHeal, ReadyGained, InstanceDown, InstanceCut, ReadyLost,
         StreamDrop, StreamStall, DeleteCluster, CreateCluster, cluster, TypeInv, TypeOK
<1>4. \A i \in Instances : Alive(i) => Alive(i)' \/ \A p \in Pipelines : strm'[i][p] = None
  BY <1>s DEF WorldStep, KubeStep, PodStarts, PodGone, CollectChildren, PodTrouble, Recovery,
         InstanceUp, InstanceHeal, ReadyGained, InstanceDown, InstanceCut, ReadyLost,
         StreamDrop, StreamStall, DeleteCluster, CreateCluster, cluster,
         Alive, Fault, CanFault, Undisturbed, TypeInv, TypeOK
<1>5. clusters' = clusters
  BY DEF WorldStep, KubeStep, PodStarts, PodGone, CollectChildren, PodTrouble, Recovery,
         InstanceUp, InstanceHeal, ReadyGained, InstanceDown, InstanceCut, ReadyLost,
         StreamDrop, StreamStall, DeleteCluster, CreateCluster, ChangeSecret, cluster,
         Fault, CanFault, Undisturbed, StrayInv
<1>6. \A i \in Instances, p \in Pipelines : strm'[i][p] # None => Home(i, p)' /\ Alive(i)'
  BY <1>2, <1>3, <1>4 DEF StrayInv, Home
<1>7. pc' \in {"gate", "ensure"} /\ strm'[tgt'][cur'] # None => obj'[cur'].st.at = tgt'
  <2>1. pc \in {"gate", "ensure"} => cur \in Pipelines /\ tgt \in Instances
    BY DEF TypeInv, WorkerInv, DeployPCs
  <2> QED BY <1>2, <1>3, <2>1 DEF StrayInv
<1> QED BY <1>2, <1>5, <1>6, <1>7 DEF StrayInv

(* The runtime: a reconcile starts from a current copy, and outside a          *)
(* reconcile nothing that the invariant speaks of changes.                    *)
LEMMA RuntimeKeepsHome ==
  ASSUME TypeInv, StrayInv, Undisturbed, NEW p \in Pipelines,
         Reconcile(p) \/ CacheSync(p) \/ TimerFire(p)
  PROVE  StrayInv'
<1>1. obj' = obj /\ strm' = strm /\ clusters' = clusters /\ ready' = ready /\ inst' = inst
  BY DEF Reconcile, CacheSync, TimerFire, cluster
<1>2. CASE UNCHANGED worker
  BY <1>1, <1>2 DEF StrayInv, Home, Alive, worker
<1>3. CASE Reconcile(p) /\ cache[p].life # "absent"
  <2>1. /\ pc = "idle" /\ cur' = p /\ pc' = Branch(cache[p]) /\ fresh' = synced[p] /\ synced[p]
    BY <1>3 DEF Reconcile, Undisturbed
  <2>2. pc' \notin DeployPCs /\ pc' \notin {"gate", "ensure"} /\ pc \notin DeployPCs
    BY <2>1 DEF Branch, DeployPCs
  <2>3. \A i \in Instances, q \in Pipelines : strm'[i][q] # None => Home(i, q)' /\ Alive(i)'
    BY <1>1, <2>2 DEF StrayInv, Home, Alive
  <2> QED BY <1>1, <2>1, <2>2, <2>3 DEF StrayInv
<1> QED BY <1>2, <1>3 DEF Reconcile, CacheSync, TimerFire

(* Every step keeps the streams where the invariant has them. *)
LEMMA StrayInvNext ==
  ASSUME TypeInv, TypeInv', TeardownInv, GateInv, StrayInv, Undisturbed, [Next]_vars
  PROVE  StrayInv'
<1>1. CASE WorkerStep
  <2>1. LeavesHome
    BY <1>1, DeleteLeavesHome, ReleaseLeavesHome, OthersLeaveHome, ScheduleLeavesHome,
       DeployLeavesHome DEF WorkerStep
  <2>2. pc # "idle"
    BY <1>1 DEF WorkerStep, AddFinalizer, DeleteAssignedStream, ReleaseFinalizer, HandleStopped,
                HandleClusterFallback, GetCluster, MigrateFromOldCluster, Schedule, Gate, Ensure,
                Confirm, Report, ApplyPod
  <2> QED BY <2>1, <2>2, LeavesHomeKeeps
<1>2. CASE \E p \in Pipelines : Reconcile(p) \/ CacheSync(p) \/ TimerFire(p) \/ UserStep(p)
  BY <1>2, RuntimeKeepsHome, UserKeepsHome
<1>3. CASE Crash
  BY <1>3 DEF Crash, Fault, CanFault, Undisturbed
<1>4. CASE WorldStep
  BY <1>4, WorldKeepsHome
<1>5. CASE UNCHANGED vars
  BY <1>5 DEF vars, StrayInv, Home, Alive
<1> QED BY <1>1, <1>2, <1>3, <1>4, <1>5, NextCases

(* For any number of pipelines, clusters and instances, whatever is stopped,   *)
(* edited, moved, deleted or recreated, and whichever instances go down, are   *)
(* cut off or lose streams: no stream runs that no status names, unless one of *)
(* the causes that Undisturbed excludes occurs.                               *)
THEOREM StraysHaveACause == Undisturbed => (SafetySpec => []NoStrayStreams)
<1> SUFFICES ASSUME Undisturbed PROVE SafetySpec => []NoStrayStreams
  OBVIOUS
<1> DEFINE All == TypeInv /\ TeardownInv /\ GateInv /\ StrayInv
<1>1. Init => All
  <2> SUFFICES ASSUME Init PROVE All
    OBVIOUS
  <2>1. TypeInv
    BY TypeInvInit
  <2>2. TeardownInv /\ GateInv
    BY DEF Init, TeardownInv, GateInv, DeployPCs, Absent, NewStatus
  <2>3. StrayInv
    BY DEF Init, StrayInv
  <2> QED BY <2>1, <2>2, <2>3
<1>2. All /\ [Next]_vars => All'
  BY TypeInvNext, TeardownInvNext, GateInvNext, StrayInvNext
<1>3. All => NoStrayStreams
  BY DEF StrayInv, NoStrayStreams, Home
<1> QED BY <1>1, <1>2, <1>3, PTL DEF SafetySpec

-----------------------------------------------------------------------------
(* No wake-up is lost *)

(* What makes QuietMeansSettled inductive.  A reconcile that works on a stale  *)
(* copy, and so may find nothing to write, is followed by another: the event   *)
(* of the newer version is on the way or already queued.                       *)
WakeInv ==
  /\ (pc # "idle" /\ ~fresh) => cur \in queue \/ ~synced[cur]
  /\ pc \notin {"idle", "delete", "release", "finalizer"} => snap.fin
  /\ QuietMeansSettled

(* Nothing that p's quiet depends on changes, and no wake-up of p is dropped. *)
Untouched(p) ==
  /\ obj'[p] = obj[p] /\ synced'[p] = synced[p]
  /\ pod'[p] = pod[p] /\ cm'[p] = cm[p] /\ secret' = secret
  /\ p \in queue \cup timers => p \in queue' \cup timers'
  /\ cur = p => cur' = p

(* A pipeline that no step touches stays awaited or settled. *)
LEMMA UntouchedStays ==
  ASSUME NEW p, Untouched(p), Awaited(p) \/ Settled(p)
  PROVE  Awaited(p)' \/ Settled(p)'
<1>1. CASE Awaited(p)
  BY <1>1 DEF Untouched, Awaited
<1>2. CASE Settled(p)
  BY <1>2 DEF Untouched, Settled, Hopeless, PodReported, DerivePhase, DeriveCondition
<1> QED BY <1>1, <1>2

(* Reconcile returning drops no wake-up. *)
LEMMA ReturnWakes ==
  ASSUME NEW q, NEW t, Return(q, t)
  PROVE  queue \cup q \subseteq queue' /\ timers \cup t \subseteq timers'
BY DEF Return

(* After a status write the pipeline is queued, or an event of its object is   *)
(* on the way, or the worker's copy was the latest and already had that        *)
(* status.                                                                     *)
LEMMA WriteWakes ==
  ASSUME TypeInv, WakeInv, pc # "idle", NEW st \in PipelineStatus, NEW q, NEW t, NEW ev,
         UpdateStatus(st, q, t, ev) \/ WriteStatus(st, q, t, ev)
  PROVE  /\ queue \subseteq queue' /\ timers \subseteq timers'
         /\ \A p \in Pipelines : p # cur => obj'[p] = obj[p] /\ synced'[p] = synced[p]
         /\ \/ cur \in queue'
            \/ ~synced'[cur]
            \/ /\ obj'[cur] = snap /\ snap.st = st
               /\ q \cup ev \subseteq queue' /\ t \subseteq timers'
<1>1. cur \in Pipelines /\ snap.life # "absent" /\ snap \in LiveObject
  BY StatusTypes DEF TypeInv, WorkerInv
<1>0. obj \in [Pipelines -> Object] /\ synced \in [Pipelines -> BOOLEAN] /\ fresh \in BOOLEAN
  BY DEF TypeInv, TypeOK
<1>2. CASE UpdateStatus(st, q, t, ev) /\ fresh
  <2>1. snap = obj[cur]
    BY <1>2 DEF TypeInv, FreshInv
  <2>2. Store(cur, [obj[cur] EXCEPT !.st = st]) /\ Return(q \cup ev, t)
    BY <1>2 DEF UpdateStatus
  <2>3. /\ obj'[cur] = [obj[cur] EXCEPT !.st = st]
        /\ \A p \in Pipelines : p # cur => obj'[p] = obj[p] /\ synced'[p] = synced[p]
        /\ synced'[cur] => [obj[cur] EXCEPT !.st = st] = obj[cur]
    BY <1>0, <1>1, <2>2 DEF Store
  <2>4. synced'[cur] => obj'[cur] = snap /\ snap.st = st
    <3>1. [snap EXCEPT !.st = st].st = st
      BY <1>1, SetStatus
    <3> QED BY <2>1, <2>3, <3>1
  <2> QED BY <2>2, <2>3, <2>4, ReturnWakes
<1>3. CASE UpdateStatus(st, q, t, ev) /\ ~fresh
  <2>1. UNCHANGED <<obj, synced>> /\ Return({cur} \cup ev, {})
    BY <1>3 DEF UpdateStatus
  <2> QED BY <2>1, ReturnWakes
<1>4. CASE WriteStatus(st, q, t, ev) /\ st = snap.st
  <2>1. UNCHANGED <<obj, synced>> /\ Return(q \cup ev, t)
    BY <1>4 DEF WriteStatus
  <2>2. fresh => snap = obj[cur]
    BY DEF TypeInv, FreshInv
  <2>3. ~fresh => cur \in queue \/ ~synced[cur]
    BY DEF WakeInv
  <2> QED BY <1>4, <2>1, <2>2, <2>3, ReturnWakes
<1>5. CASE WriteStatus(st, q, t, ev) /\ st # snap.st
  BY <1>2, <1>3, <1>5 DEF WriteStatus
<1> QED BY <1>2, <1>3, <1>4, <1>5

(* What every step leaves behind: a pipeline that it does not touch, that is   *)
(* awaited, or that is settled.                                                *)
Wakes == \A p \in Pipelines : Untouched(p) \/ Awaited(p)' \/ Settled(p)'

(* A step that returns with an error, or goes on, has its pipeline awaited. *)
LEMMA RetryWakes ==
  ASSUME UNCHANGED <<obj, synced, secret>>,
         \A p \in Pipelines : p # cur => pod'[p] = pod[p] /\ cm'[p] = cm[p],
         ReturnRetry \/ (cur' = cur /\ queue \subseteq queue' /\ timers \subseteq timers')
  PROVE  Wakes
<1> SUFFICES ASSUME NEW p \in Pipelines PROVE Untouched(p) \/ Awaited(p)' \/ Settled(p)'
  BY DEF Wakes
<1>1. queue \subseteq queue' /\ timers \subseteq timers' /\ (cur' = cur \/ cur \in queue')
  BY ReturnWakes DEF ReturnRetry
<1>2. CASE p = cur
  BY <1>1, <1>2 DEF Awaited
<1>3. CASE p # cur
  BY <1>1, <1>3 DEF Untouched
<1> QED BY <1>2, <1>3

(* A step that ends with a status write, to a status that settles the pipeline *)
(* or with a wake-up of its own.                                               *)
LEMMA StatusWakes ==
  ASSUME TypeInv, WakeInv, pc # "idle", NEW st \in PipelineStatus, NEW q, NEW t, NEW ev,
         UpdateStatus(st, q, t, ev) \/ WriteStatus(st, q, t, ev), secret' = secret,
         \A p \in Pipelines : p # cur => pod'[p] = pod[p] /\ cm'[p] = cm[p],
         \/ cur \in q \cup t \cup ev
         \/ \A p \in Pipelines : p = cur /\ obj'[p] = snap /\ snap.st = st => Settled(p)'
  PROVE  Wakes
<1> SUFFICES ASSUME NEW p \in Pipelines PROVE Untouched(p) \/ Awaited(p)' \/ Settled(p)'
  BY DEF Wakes
<1>1. CASE p = cur
  <2>1. \/ p \in queue' \/ ~synced'[p] \/ p \in timers'
        \/ p = cur /\ obj'[p] = snap /\ snap.st = st /\ cur \notin q \cup t \cup ev
    BY <1>1, WriteWakes
  <2> QED BY <2>1 DEF Awaited
<1>2. CASE p # cur
  BY <1>2, WriteWakes DEF Untouched
<1> QED BY <1>1, <1>2

(* The deletion, stop and fallback paths, and the finalizer, leave nobody      *)
(* waiting for an event that does not come.                                    *)
LEMMA TeardownWakes ==
  ASSUME TypeInv, WakeInv,
         \/ AddFinalizer \/ ReleaseFinalizer \/ HandleStopped \/ HandleClusterFallback
         \/ \E from, next : pc # "idle" /\ DeleteAssignedStream(from, next)
  PROVE  Wakes
<1>0. pc # "idle" /\ cur \in Pipelines /\ snap \in LiveObject
  <2>1. pc # "idle"
    BY DEF AddFinalizer, ReleaseFinalizer, HandleStopped, HandleClusterFallback
  <2> QED BY <2>1, StatusTypes DEF TypeInv, WorkerInv
<1>k. obj \in [Pipelines -> Object] /\ synced \in [Pipelines -> BOOLEAN]
      /\ pod \in [Pipelines -> Pods \cup {None}]
  BY DEF TypeInv, TypeOK
<1>1. CASE AddFinalizer
  <2>1. UNCHANGED <<secret, pod, cm>> /\ ReturnRetry
    BY <1>1 DEF AddFinalizer, kids
  <2>2. \A p \in Pipelines : p # cur => obj'[p] = obj[p] /\ synced'[p] = synced[p]
    BY <1>0, <1>k, <1>1 DEF AddFinalizer, Store
  <2>3. queue \cup {cur} \subseteq queue' /\ timers \subseteq timers'
    BY <2>1, ReturnWakes DEF ReturnRetry
  <2>4. ASSUME NEW p \in Pipelines PROVE Untouched(p) \/ Awaited(p)'
    BY <2>1, <2>2, <2>3 DEF Untouched, Awaited
  <2> QED BY <2>4 DEF Wakes
<1>2. CASE \E from, next : DeleteAssignedStream(from, next)
  <2>1. UNCHANGED <<obj, synced, secret, pod, cm>>
    BY <1>2 DEF DeleteAssignedStream, kids
  <2>2. ReturnRetry \/ (cur' = cur /\ queue \subseteq queue' /\ timers \subseteq timers')
    BY <1>2 DEF DeleteAssignedStream, GoTo
  <2> QED BY <2>1, <2>2, RetryWakes
<1>3. CASE ReleaseFinalizer /\ fresh
  <2>1. Store(cur, Absent) /\ Return({}, {}) /\ UNCHANGED <<secret, pod, cm>>
    BY <1>3 DEF ReleaseFinalizer, kids
  <2>2. obj'[cur].life = "absent"
    BY <1>0, <1>k, <2>1, ObjectCases DEF Store
  <2>3. \A p \in Pipelines : p # cur => obj'[p] = obj[p] /\ synced'[p] = synced[p]
    BY <1>0, <1>k, <2>1 DEF Store
  <2>4. ASSUME NEW p \in Pipelines PROVE Untouched(p) \/ Settled(p)'
    <3>1. CASE p = cur
      BY <2>2, <3>1 DEF Settled
    <3>2. CASE p # cur
      BY <2>1, <2>3, <3>2, ReturnWakes DEF Untouched
    <3> QED BY <3>1, <3>2
  <2> QED BY <2>4 DEF Wakes
<1>4. CASE ReleaseFinalizer /\ ~fresh
  BY <1>4, RetryWakes DEF ReleaseFinalizer, kids
<1>5. CASE HandleStopped
  <2>1. /\ WriteStatus(StoppedStatus, {}, {}, PodEvents(cur)) /\ UNCHANGED <<secret, cm>>
        /\ pod' = [pod EXCEPT ![cur] = DeletedPod(cur)]
    BY <1>5 DEF HandleStopped
  <2>2. snap.life = "live" /\ snap.fin /\ snap.spec.stopped
    BY <1>5 DEF HandleStopped, TypeInv, WorkerInv, WakeInv
  <2>3. StoppedStatus \in PipelineStatus /\ snap.st \in PipelineStatus
    BY <1>0, StatusTypes
  <2>4. StoppedStatus.at = None /\ StoppedStatus.phase = "Stopped" /\ StoppedStatus.observed
    BY <2>3 DEF StoppedStatus, PipelineStatus
  <2>5. pod'[cur] = None \/ pod'[cur].term
    BY <1>0, <1>k, <2>1 DEF DeletedPod, Pods
  <2>6. ASSUME NEW p \in Pipelines, p = cur, obj'[p] = snap, snap.st = StoppedStatus
        PROVE  Settled(p)'
    BY <2>2, <2>4, <2>5, <2>6 DEF Settled
  <2>7. \A p \in Pipelines : p # cur => pod'[p] = pod[p] /\ cm'[p] = cm[p]
    BY <1>k, <2>1
  <2> QED BY <1>0, <2>1, <2>3, <2>6, <2>7, StatusWakes
<1>6. CASE HandleClusterFallback
  <2>1. /\ UpdateStatus([snap.st EXCEPT !.at = None, !.active = ""], {cur}, {}, {})
        /\ UNCHANGED <<secret, pod, cm>>
    BY <1>6 DEF HandleClusterFallback, kids
  <2>2. [snap.st EXCEPT !.at = None, !.active = ""] \in PipelineStatus
    BY <1>0, StatusTypes
  <2> QED BY <1>0, <2>1, <2>2, StatusWakes
<1> QED BY <1>1, <1>2, <1>3, <1>4, <1>5, <1>6

(* A status without placement settles a pipeline that cannot be deployed. *)
LEMMA UnplacedSettles ==
  ASSUME TypeInv, WakeInv, ModeInv, pc \in {"schedule"} \cup DeployPCs,
         UNCHANGED <<pod, cm, secret>>, NEW p \in Pipelines, p = cur,
         NEW reason, obj'[p] = snap, snap.st = UnplacedStatus("Failed", reason),
         \/ reason = "RenderError" /\ snap.spec.cfg \in BadRender
         \/ reason = "SecretNotFound" /\ snap.spec.cfg \in NeedsSecret /\ secret = None
         \/ reason = "StreamConfigInvalid" /\ snap.spec.cfg \in Rejected
  PROVE  Settled(p)'
<1>1. snap.life = "live" /\ snap.fin /\ ~snap.spec.stopped /\ snap.spec.ref # None
  BY DEF TypeInv, WorkerInv, ClusterPCs, DeployPCs
<1>2. (pod'[p] = None \/ pod'[p].term) /\ cm'[p] = None
  BY DEF ModeInv, NoPod
<1>3. /\ snap.st.at = None /\ snap.st.phase = "Failed" /\ snap.st.reason = reason
      /\ snap.st.observed
  <2> DEFINE st == UnplacedStatus("Failed", reason)
  <2>1. st.at = None /\ st.phase = "Failed" /\ st.reason = reason /\ st.observed
    BY DEF UnplacedStatus
  <2>2. snap.st = st
    OBVIOUS
  <2> HIDE DEF st
  <2> QED BY <2>1, <2>2
<1>4. Hopeless(obj[p])'
  BY <1>3 DEF Hopeless
<1> QED BY <1>1, <1>2, <1>3, <1>4 DEF Settled

(* handleClusterAssigned up to the first PUT: a missing cluster and a cluster  *)
(* without ready instances are looked at again, the rest is hopeless.          *)
LEMMA ScheduleWakes ==
  ASSUME TypeInv, WakeInv, ModeInv, GetCluster \/ MigrateFromOldCluster \/ Schedule
  PROVE  Wakes
<1>0. pc # "idle" /\ cur \in Pipelines
  BY DEF GetCluster, MigrateFromOldCluster, Schedule, TypeInv, WorkerInv
<1>k. pod \in [Pipelines -> Pods \cup {None}] /\ cm \in [Pipelines -> Configs \cup {None}]
  BY DEF TypeInv, TypeOK
<1>1. CASE GetCluster
  <2>1. CASE snap.spec.ref \notin clusters
    <3>1. /\ WriteStatus(UnplacedStatus("Failed", "ClusterNotFound"), {}, {cur}, {})
          /\ UNCHANGED <<secret, pod, cm>>
      BY <1>1, <2>1 DEF GetCluster, kids
    <3>2. UnplacedStatus("Failed", "ClusterNotFound") \in PipelineStatus
      BY UnplacedTypes
    <3> QED BY <1>0, <3>1, <3>2, StatusWakes
  <2>2. CASE snap.spec.ref \in clusters
    <3>1. /\ pod' = [pod EXCEPT ![cur] = DeletedPod(cur)] /\ cm' = [cm EXCEPT ![cur] = None]
          /\ queue \subseteq queue' /\ cur' = cur /\ UNCHANGED <<obj, synced, secret, timers>>
      BY <1>1, <2>2 DEF GetCluster, GoTo
    <3>2. \A p \in Pipelines : p # cur => pod'[p] = pod[p] /\ cm'[p] = cm[p]
      BY <1>k, <3>1
    <3> QED BY <3>1, <3>2, RetryWakes
  <2> QED BY <2>1, <2>2
<1>2. CASE MigrateFromOldCluster
  <2>1. UNCHANGED <<obj, synced, secret, pod, cm>>
    BY <1>2 DEF MigrateFromOldCluster, kids
  <2>2. ReturnRetry \/ (cur' = cur /\ queue \subseteq queue' /\ timers \subseteq timers')
    BY <1>2 DEF MigrateFromOldCluster, GoTo
  <2> QED BY <2>1, <2>2, RetryWakes
<1>3. CASE Schedule
  <2>0. pc = "schedule" /\ UNCHANGED <<secret, pod, cm>>
    BY <1>3 DEF Schedule, kids
  <2>1. CASE ReadyOrdinals(snap.spec.ref) = {}
    <3>1. WriteStatus(UnplacedStatus("Pending", "ClusterNotReady"), {}, {cur}, {})
      BY <1>3, <2>1 DEF Schedule
    <3>2. UnplacedStatus("Pending", "ClusterNotReady") \in PipelineStatus
      BY UnplacedTypes
    <3> QED BY <1>0, <2>0, <3>1, <3>2, StatusWakes
  <2>2. CASE ReadyOrdinals(snap.spec.ref) # {} /\ snap.spec.cfg \in BadRender
    <3>1. WriteStatus(UnplacedStatus("Failed", "RenderError"), {}, {}, {})
      BY <1>3, <2>2 DEF Schedule
    <3>2. UnplacedStatus("Failed", "RenderError") \in PipelineStatus
      BY UnplacedTypes
    <3>3. \A p \in Pipelines :
            p = cur /\ obj'[p] = snap /\ snap.st = UnplacedStatus("Failed", "RenderError")
              => Settled(p)'
      BY <2>0, <2>2, UnplacedSettles
    <3> QED BY <1>0, <2>0, <3>1, <3>2, <3>3, StatusWakes
  <2>3. CASE /\ ReadyOrdinals(snap.spec.ref) # {} /\ snap.spec.cfg \notin BadRender
             /\ snap.spec.cfg \in NeedsSecret /\ secret = None
    <3>1. WriteStatus(UnplacedStatus("Failed", "SecretNotFound"), {}, {}, {})
      BY <1>3, <2>3 DEF Schedule
    <3>2. UnplacedStatus("Failed", "SecretNotFound") \in PipelineStatus
      BY UnplacedTypes
    <3>3. \A p \in Pipelines :
            p = cur /\ obj'[p] = snap /\ snap.st = UnplacedStatus("Failed", "SecretNotFound")
              => Settled(p)'
      BY <2>0, <2>3, UnplacedSettles
    <3> QED BY <1>0, <2>0, <3>1, <3>2, <3>3, StatusWakes
  <2>4. CASE /\ ReadyOrdinals(snap.spec.ref) # {} /\ snap.spec.cfg \notin BadRender
             /\ ~(snap.spec.cfg \in NeedsSecret /\ secret = None)
    <3>1. UNCHANGED <<obj, synced, cur, queue, timers>>
      BY <1>3, <2>4 DEF Schedule
    <3> QED BY <2>0, <3>1, RetryWakes
  <2> QED BY <2>1, <2>2, <2>3, <2>4
<1> QED BY <1>1, <1>2, <1>3

(* A rejection is about the config that was sent. *)
LEMMA RejectedReply ==
  ASSUME NEW i, NEW p, NEW b, NEW r \in EnsureStream(i, p, b), r.res = "rejected"
  PROVE  b.cfg \in Rejected
BY DEF EnsureStream, Reply

(* The deployment: a placement is resynced by a timer, an error is retried,    *)
(* and a rejected config is hopeless until it is edited.                       *)
LEMMA DeployWakes ==
  ASSUME TypeInv, WakeInv, ModeInv,
         \/ Gate \/ Confirm \/ Report
         \/ Ensure("ensure", "confirm") \/ Ensure("recreate", "report")
  PROVE  Wakes
<1>0. pc \in DeployPCs /\ pc # "idle" /\ cur \in Pipelines /\ UNCHANGED <<secret, pod, cm>>
  <2>1. pc \in DeployPCs /\ UNCHANGED <<secret, pod, cm>>
    BY DEF Gate, Confirm, Report, Ensure, DeployPCs, kids
  <2> QED BY <2>1 DEF TypeInv, WorkerInv, DeployPCs
<1>1. CASE Gate \/ Confirm
  BY <1>0, <1>1, RetryWakes DEF Gate, Confirm, GoTo
<1>2. CASE Report
  <2>1. tgt \in Instances
    BY <1>0 DEF TypeInv, WorkerInv
  <2>2. PICK r \in GetStreamStatus(tgt, cur) : WriteStatus(PlacedStatus(r.res), {}, {cur}, {})
    BY <1>2 DEF Report
  <2>3. PlacedStatus(r.res) \in PipelineStatus
    BY <1>0, <2>1, <2>2, StatusReply, PlacedTypes DEF TypeInv
  <2> QED BY <1>0, <2>2, <2>3, StatusWakes
<1>3. CASE Ensure("ensure", "confirm") \/ Ensure("recreate", "report")
  <2>1. PICK r \in EnsureStream(tgt, cur, body) :
          \/ r.res = "ok" /\ UNCHANGED <<obj, synced, queue, cur, timers>>
          \/ /\ r.res = "rejected"
             /\ WriteStatus(UnplacedStatus("Failed", "StreamConfigInvalid"), {}, {}, {})
          \/ r.res = "error" /\ ReturnRetry /\ UNCHANGED <<obj, synced>>
    BY <1>3 DEF Ensure, GoTo
  <2>2. CASE r.res # "rejected"
    BY <1>0, <2>1, <2>2, RetryWakes
  <2>3. CASE r.res = "rejected"
    <3>1. snap.spec.cfg \in Rejected
      BY <1>0, <2>1, <2>3, RejectedReply DEF TypeInv, WorkerInv
    <3>2. UnplacedStatus("Failed", "StreamConfigInvalid") \in PipelineStatus
      BY UnplacedTypes
    <3>3. \A p \in Pipelines :
            p = cur /\ obj'[p] = snap /\ snap.st = UnplacedStatus("Failed", "StreamConfigInvalid")
              => Settled(p)'
      BY <1>0, <3>1, UnplacedSettles
    <3> QED BY <1>0, <2>1, <2>3, <3>2, <3>3, StatusWakes
  <2> QED BY <2>2, <2>3
<1> QED BY <1>1, <1>2, <1>3

(* The pod path: every change of the pod or the ConfigMap comes back as an     *)
(* event, and a pass that changes nothing has reported the pod.                *)
LEMMA ApplyPodWakes == ASSUME TypeInv, WakeInv, ApplyPod PROVE Wakes
<1>0. pc = "pod" /\ pc # "idle" /\ cur \in Pipelines /\ secret' = secret
  BY DEF ApplyPod, TypeInv, WorkerInv
<1>k. pod \in [Pipelines -> Pods \cup {None}] /\ cm \in [Pipelines -> Configs \cup {None}]
  BY DEF TypeInv, TypeOK
<1>s. /\ snap.life = "live" /\ snap.fin /\ ~snap.spec.stopped /\ snap.spec.ref = None
      /\ snap.st.at = None /\ snap.st \in PipelineStatus
  BY <1>0, StatusTypes DEF TypeInv, WorkerInv, WakeInv
<1>1. CASE snap.spec.cfg \in BadRender
  <2> DEFINE st == [snap.st EXCEPT !.phase = "Failed", !.reason = "RenderError"]
  <2>1. UpdateStatus(st, {}, {}, {}) /\ UNCHANGED <<pod, cm>>
    BY <1>1 DEF ApplyPod, kids
  <2>2. st \in PipelineStatus
    BY <1>0, StatusTypes
  <2>3. st.phase = "Failed" /\ st.reason = "RenderError"
    BY <1>s DEF PipelineStatus
  <2>4. ASSUME NEW p \in Pipelines, p = cur, obj'[p] = snap, snap.st = st PROVE Settled(p)'
    <3> HIDE DEF st
    <3> QED BY <1>s, <1>1, <2>3, <2>4 DEF Settled, PodReported
  <2> HIDE DEF st
  <2> QED BY <1>0, <2>1, <2>2, <2>4, StatusWakes
<1>2. CASE snap.spec.cfg \notin BadRender /\ pod[cur] # None /\ pod[cur].cfg # snap.spec.cfg
  <2>1. /\ ReturnRetry /\ UNCHANGED <<obj, synced>>
        /\ pod' = [pod EXCEPT ![cur] = DeletedPod(cur)]
        /\ cm' = [cm EXCEPT ![cur] = snap.spec.cfg]
    BY <1>2 DEF ApplyPod
  <2>2. \A p \in Pipelines : p # cur => pod'[p] = pod[p] /\ cm'[p] = cm[p]
    BY <1>k, <2>1
  <2> QED BY <1>0, <2>1, <2>2, RetryWakes
<1>3. CASE /\ snap.spec.cfg \notin BadRender
           /\ ~(pod[cur] # None /\ pod[cur].cfg # snap.spec.cfg)
  <2> DEFINE ev == IF pod' = pod /\ cm' = cm THEN {} ELSE {cur}
             st == PodStatus(pod'[cur].phase)
  <2>1. /\ cm' = [cm EXCEPT ![cur] = snap.spec.cfg]
        /\ pod' = [pod EXCEPT ![cur] = IF @ = None THEN NewPod ELSE @]
        /\ WriteStatus(st, {}, {}, ev)
    BY <1>3 DEF ApplyPod
  <2>2. \A p \in Pipelines : p # cur => pod'[p] = pod[p] /\ cm'[p] = cm[p]
    BY <1>k, <2>1
  <2>3. /\ pod'[cur] = IF pod[cur] = None THEN NewPod ELSE pod[cur]
        /\ cm'[cur] = snap.spec.cfg
    BY <1>0, <1>k, <2>1
  <2>4. snap.spec.cfg \in Configs
    BY <1>0, SnapTypes DEF PipelineSpec
  <2>5. NewPod \in Pods /\ NewPod.cfg = snap.spec.cfg
    BY <2>4 DEF NewPod, Pods, PodPhases
  <2>6. pod'[cur] \in Pods /\ pod'[cur].cfg = snap.spec.cfg
    BY <1>0, <1>k, <1>3, <2>3, <2>5
  <2>7. pod'[cur] # None
    BY <2>6, NoneIsNoPod
  <2>8. pod'[cur].phase \in PodPhases
    BY <2>6 DEF Pods
  <2>9. st \in PipelineStatus
    BY <1>0, <2>8, StatusTypes
  <2>10. /\ st.phase = DerivePhase(pod'[cur].phase) /\ st.observed
         /\ st.reason = DeriveCondition(pod'[cur].phase)
    BY <1>s DEF PodStatus, PipelineStatus
  <2>11. ASSUME NEW p \in Pipelines, p = cur, obj'[p] = snap, snap.st = st PROVE Settled(p)'
    <3> HIDE DEF st
    <3>1. PodReported(p)'
      BY <1>3, <2>3, <2>6, <2>7, <2>10, <2>11 DEF PodReported, DerivePhase, DeriveCondition
    <3> QED BY <1>s, <2>11, <3>1 DEF Settled
  <2> HIDE DEF st, ev
  <2> QED BY <1>0, <2>1, <2>2, <2>9, <2>11, StatusWakes
<1> QED BY <1>1, <1>2, <1>3

(* Users: a write is a new version, whose event is on the way. *)
LEMMA UserWakes == ASSUME TypeInv, NEW q \in Pipelines, UserStep(q) PROVE Wakes /\ ~synced'[q]
<1>0. obj \in [Pipelines -> Object] /\ synced \in [Pipelines -> BOOLEAN]
  BY DEF TypeInv, TypeOK
<1>1. PICK o : UserWrite(q, o) /\ o # obj[q]
  <2>1. CASE CreatePipeline(q)
    <3>1. PICK s \in PipelineSpec :
            UserWrite(q, [life |-> "live", fin |-> FALSE, spec |-> s, st |-> NewStatus])
      BY <2>1 DEF CreatePipeline
    <3> QED BY <2>1, <3>1 DEF CreatePipeline
  <2>2. CASE EditPipeline(q)
    <3>1. PICK s \in PipelineSpec \ {obj[q].spec} :
            UserWrite(q, [obj[q] EXCEPT !.spec = s, !.st.observed = FALSE])
      BY <2>2 DEF EditPipeline
    <3>2. obj[q] \in LiveObject
      BY <1>0, <2>2, ObjectCases DEF EditPipeline
    <3>3. [obj[q] EXCEPT !.spec = s, !.st.observed = FALSE].spec = s
      BY <3>2 DEF LiveObject
    <3> QED BY <3>1, <3>3
  <2>3. CASE DeletePipeline(q)
    <3>1. obj[q] \in LiveObject /\ obj[q].life = "live"
      BY <1>0, <2>3, ObjectCases DEF DeletePipeline
    <3>2. [obj[q] EXCEPT !.life = "deleting"].life = "deleting"
      BY <3>1 DEF LiveObject
    <3> QED BY <2>3, <3>1, <3>2, ObjectCases DEF DeletePipeline
  <2> QED BY <2>1, <2>2, <2>3 DEF UserStep
<1>2. ~synced'[q]
  BY <1>0, <1>1 DEF UserWrite, Store
<1>3. ASSUME NEW p \in Pipelines, p # q PROVE Untouched(p)
  BY <1>0, <1>1, <1>3 DEF UserWrite, Store, Untouched, kids
<1>4. Awaited(q)'
  BY <1>2 DEF Awaited
<1> QED BY <1>2, <1>3, <1>4 DEF Wakes

(* The runtime: taking a key off the queue starts a reconcile of it, unless    *)
(* its object is gone; a delivered event and an elapsed timer put it back; a   *)
(* restart enqueues everything that exists.                                    *)
LEMMA RuntimeWakes ==
  ASSUME TypeInv, \/ \E p \in Pipelines : Reconcile(p) \/ CacheSync(p) \/ TimerFire(p)
                  \/ Crash
  PROVE  Wakes
<1>0. synced \in [Pipelines -> BOOLEAN]
  BY DEF TypeInv, TypeOK
<1>1. ASSUME NEW q \in Pipelines, Reconcile(q) PROVE Wakes
  <2>1. UNCHANGED <<obj, synced, secret, pod, cm, timers>> /\ queue' = queue \ {q}
    BY <1>1 DEF Reconcile, kids
  <2>2. cur = None /\ None \notin Pipelines
    BY <1>1, NoneAssumption DEF Reconcile, TypeInv, WorkerInv
  <2>3. ASSUME NEW p \in Pipelines, p # q PROVE Untouched(p)
    BY <2>1, <2>2, <2>3 DEF Untouched
  <2>4. CASE cache[q].life = "absent"
    <3>1. synced[q] => obj[q].life = "absent"
      BY <2>4 DEF TypeInv, FreshInv
    <3>2. Awaited(q)' \/ Settled(q)'
      BY <2>1, <3>1 DEF Awaited, Settled
    <3> QED BY <2>3, <3>2 DEF Wakes
  <2>5. CASE cache[q].life # "absent"
    <3>1. Awaited(q)'
      BY <1>1, <2>5 DEF Reconcile, Awaited
    <3> QED BY <2>3, <3>1 DEF Wakes
  <2> QED BY <2>4, <2>5
<1>2. ASSUME NEW q \in Pipelines, CacheSync(q) \/ TimerFire(q) PROVE Wakes
  <2>1. /\ UNCHANGED <<obj, cur, secret, pod, cm>> /\ queue' = queue \cup {q}
        /\ timers \subseteq timers' \cup {q}
        /\ \A p \in Pipelines : p # q => synced'[p] = synced[p]
    BY <1>0, <1>2 DEF CacheSync, TimerFire, worker, kids
  <2>2. ASSUME NEW p \in Pipelines, p # q PROVE Untouched(p)
    BY <2>1, <2>2 DEF Untouched
  <2>3. Awaited(q)'
    BY <2>1 DEF Awaited
  <2> QED BY <2>2, <2>3 DEF Wakes
<1>3. ASSUME Crash PROVE Wakes
  <2>1. ASSUME NEW p \in Pipelines PROVE Awaited(p)' \/ Settled(p)'
    BY <1>3 DEF Crash, Awaited, Settled
  <2> QED BY <2>1 DEF Wakes
<1> QED BY <1>1, <1>2, <1>3

(* The world: a change of a pod or ConfigMap is an event of its owner, and a   *)
(* change of the Secret wakes whoever waits for it, if the cache that the      *)
(* watch's index is built from is current; if it is not, an event is due.      *)
LEMMA WorldWakes == ASSUME TypeInv, QuietMeansSettled, WorldStep PROVE Wakes
<1>0. /\ pod \in [Pipelines -> Pods \cup {None}] /\ cm \in [Pipelines -> Configs \cup {None}]
      /\ synced \in [Pipelines -> BOOLEAN]
  BY DEF TypeInv, TypeOK
<1>u. UNCHANGED <<obj, synced, cache, timers, cur>>
  BY WorldStepType DEF unseen, worker
<1>1. ASSUME NEW q \in Pipelines, KubeStep(q) \/ PodTrouble(q) PROVE Wakes
  <2>1. secret' = secret /\ queue' = queue \cup {q}
    BY <1>1 DEF KubeStep, PodTrouble, PodStarts, PodGone, CollectChildren
  <2>2. \A p \in Pipelines : p # q => pod'[p] = pod[p] /\ cm'[p] = cm[p]
    BY <1>0, <1>1 DEF KubeStep, PodTrouble, PodStarts, PodGone, CollectChildren
  <2>3. ASSUME NEW p \in Pipelines, p # q PROVE Untouched(p)
    BY <1>u, <2>1, <2>2, <2>3 DEF Untouched
  <2>4. Awaited(q)'
    BY <2>1 DEF Awaited
  <2> QED BY <2>3, <2>4 DEF Wakes
<1>2. ASSUME UNCHANGED <<queue, secret, pod, cm>> PROVE Wakes
  BY <1>u, <1>2 DEF Wakes, Untouched
<1>3. ASSUME ChangeSecret PROVE Wakes
  <2>1. /\ UNCHANGED <<pod, cm>>
        /\ queue' = queue \cup {p \in Pipelines : /\ cache[p].life # "absent"
                                                  /\ cache[p].spec.cfg \in NeedsSecret}
    BY <1>3 DEF ChangeSecret, kids
  <2>2. ASSUME NEW p \in Pipelines PROVE Awaited(p)' \/ Settled(p)'
    <3>1. CASE Awaited(p)
      BY <1>u, <2>1, <3>1 DEF Awaited
    <3>2. CASE synced[p] /\ obj[p].life # "absent" /\ obj[p].spec.cfg \in NeedsSecret
      <4>1. cache[p] = obj[p]
        BY <3>2 DEF TypeInv, FreshInv
      <4> QED BY <2>1, <3>2, <4>1 DEF Awaited
    <3>3. CASE Settled(p) /\ ~(obj[p].life # "absent" /\ obj[p].spec.cfg \in NeedsSecret)
      BY <1>u, <2>1, <3>3
      DEF Settled, Hopeless, PodReported, DerivePhase, DeriveCondition
    <3> QED BY <3>1, <3>2, <3>3 DEF QuietMeansSettled, Awaited
  <2> QED BY <2>2 DEF Wakes
<1>4. CASE \E i \in Instances : \/ Recovery(i) \/ InstanceDown(i) \/ InstanceCut(i) \/ ReadyLost(i)
                                \/ \E p \in Pipelines : StreamDrop(i, p) \/ StreamStall(i, p)
  BY <1>2, <1>4 DEF Recovery, InstanceUp, InstanceHeal, ReadyGained, InstanceDown, InstanceCut,
                    ReadyLost, StreamDrop, StreamStall, kids
<1>5. CASE \E c \in Clusters : DeleteCluster(c) \/ CreateCluster(c)
  BY <1>2, <1>5 DEF DeleteCluster, CreateCluster, kids
<1> QED BY <1>1, <1>3, <1>4, <1>5 DEF WorldStep

(* No step of the system loses a wake-up. *)
LEMMA EveryStepWakes == ASSUME TypeInv, ModeInv, WakeInv, Next PROVE Wakes
<1>1. CASE WorkerStep
  <2>1. pc # "idle"
    BY <1>1 DEF WorkerStep, AddFinalizer, DeleteAssignedStream, ReleaseFinalizer, HandleStopped,
                HandleClusterFallback, GetCluster, MigrateFromOldCluster, Schedule, Gate, Ensure,
                Confirm, Report, ApplyPod
  <2> QED BY <1>1, <2>1, TeardownWakes, ScheduleWakes, DeployWakes, ApplyPodWakes DEF WorkerStep
<1>2. CASE WorldStep
  BY <1>2, WorldWakes DEF WakeInv
<1> QED BY <1>1, <1>2, RuntimeWakes, UserWakes, NextCases

(* A stale copy stays covered by a queued key or an event on the way. *)
LEMMA StaleIsWoken ==
  ASSUME TypeInv, WakeInv, Next, pc' # "idle", ~fresh'
  PROVE  cur' \in queue' \/ ~synced'[cur']
<1>0. /\ synced \in [Pipelines -> BOOLEAN] /\ fresh \in BOOLEAN
      /\ (pc # "idle" /\ ~fresh) => cur \in queue \/ ~synced[cur]
  BY DEF TypeInv, TypeOK, WakeInv
<1>1. CASE WorkerStep
  <2>1. pc # "idle" /\ (pc' = "idle" \/ (UNCHANGED <<cur, fresh, obj, synced>> /\ queue \subseteq queue'))
    BY <1>1, WriteIsLast
    DEF WorkerStep, AddFinalizer, DeleteAssignedStream, ReleaseFinalizer, HandleStopped,
        HandleClusterFallback, GetCluster, MigrateFromOldCluster, Schedule, Gate, Ensure,
        Confirm, Report, ApplyPod, GoTo, ReturnRetry, Return
  <2> QED BY <1>0, <2>1
<1>2. ASSUME NEW p \in Pipelines, Reconcile(p) PROVE cur' \in queue' \/ ~synced'[cur']
  BY <1>2 DEF Reconcile, worker
<1>3. ASSUME NEW p \in Pipelines, CacheSync(p) \/ TimerFire(p)
      PROVE  cur' \in queue' \/ ~synced'[cur']
  <2>1. UNCHANGED <<pc, cur, fresh>> /\ queue' = queue \cup {p} /\ cur \in Pipelines
    BY <1>3 DEF CacheSync, TimerFire, worker, TypeInv, WorkerInv
  <2>2. cur # p => synced'[cur] = synced[cur]
    BY <1>0, <1>3, <2>1 DEF CacheSync, TimerFire
  <2> QED BY <1>0, <2>1, <2>2
<1>4. ASSUME NEW p \in Pipelines, UserStep(p) PROVE cur' \in queue' \/ ~synced'[cur']
  <2>1. UNCHANGED <<pc, cur, queue>> /\ fresh' = (fresh /\ cur # p)
    BY <1>4 DEF UserStep, CreatePipeline, EditPipeline, DeletePipeline, UserWrite
  <2>2. ~synced'[p]
    BY <1>4, UserWakes
  <2>3. cur # p => synced'[cur] = synced[cur]
    <3>1. cur \in Pipelines
      BY <2>1 DEF TypeInv, WorkerInv
    <3> QED BY <1>0, <1>4, <3>1
        DEF UserStep, CreatePipeline, EditPipeline, DeletePipeline, UserWrite, Store
  <2> QED BY <1>0, <2>1, <2>2, <2>3
<1>5. CASE Crash
  BY <1>5 DEF Crash
<1>6. CASE WorldStep
  <2>1. UNCHANGED <<pc, cur, fresh, synced>> /\ queue \subseteq queue'
    <3>1. queue \subseteq queue'
      BY <1>6 DEF WorldStep, KubeStep, PodStarts, PodTrouble, PodGone, CollectChildren, Recovery,
                  InstanceUp, InstanceHeal, ReadyGained, InstanceDown, InstanceCut, ReadyLost,
                  StreamDrop, StreamStall, DeleteCluster, CreateCluster, ChangeSecret
    <3> QED BY <1>6, <3>1, WorldStepType DEF unseen, worker
  <2> QED BY <1>0, <2>1
<1> QED BY <1>1, <1>2, <1>3, <1>4, <1>5, <1>6, NextCases

(* Past the finalizer check, the worker's copy has the finalizer. *)
LEMMA FinKnownNext ==
  ASSUME TypeInv, WakeInv, Next, pc' \notin {"idle", "delete", "release", "finalizer"}
  PROVE  snap'.fin
<1>1. CASE WorkerStep
  <2>1. pc # "idle"
    BY <1>1 DEF WorkerStep, AddFinalizer, DeleteAssignedStream, ReleaseFinalizer, HandleStopped,
                HandleClusterFallback, GetCluster, MigrateFromOldCluster, Schedule, Gate, Ensure,
                Confirm, Report, ApplyPod
  <2>2. pc # "finalizer"
    BY <1>1 DEF WorkerStep, AddFinalizer, DeleteAssignedStream, ReleaseFinalizer, HandleStopped,
                HandleClusterFallback, GetCluster, MigrateFromOldCluster, Schedule, Gate, Ensure,
                Confirm, Report, ApplyPod, ReturnRetry, Return
  <2>3. UNCHANGED snap
    BY <2>1, LocalSteps DEF LocalStep
  <2>4. snap'.life = "live"
    BY TypeInvNext DEF TypeInv, WorkerInv
  <2>5. pc \notin {"delete", "release"}
    BY <2>3, <2>4 DEF TypeInv, WorkerInv
  <2> QED BY <2>1, <2>2, <2>3, <2>5 DEF WakeInv
<1>2. ASSUME NEW p \in Pipelines, Reconcile(p) PROVE snap'.fin
  <2>1. CASE cache[p].life = "absent"
    BY <1>2, <2>1 DEF Reconcile, worker
  <2>2. CASE cache[p].life # "absent"
    BY <1>2, <2>2 DEF Reconcile, Branch
  <2> QED BY <2>1, <2>2
<1>3. CASE \E p \in Pipelines : CacheSync(p) \/ TimerFire(p) \/ UserStep(p)
  <2>1. UNCHANGED <<pc, snap>>
    BY <1>3 DEF CacheSync, TimerFire, UserStep, CreatePipeline, EditPipeline, DeletePipeline,
                UserWrite, worker
  <2> QED BY <2>1 DEF WakeInv
<1>4. CASE Crash
  BY <1>4 DEF Crash
<1>5. CASE WorldStep
  BY <1>5, WorldStepType DEF unseen, worker, WakeInv
<1> QED BY <1>1, <1>2, <1>3, <1>4, <1>5, NextCases

(* Every step keeps the wake-up invariant. *)
LEMMA WakeInvNext == ASSUME TypeInv, ModeInv, WakeInv, [Next]_vars PROVE WakeInv'
<1>1. CASE Next
  <2>1. (pc' # "idle" /\ ~fresh') => cur' \in queue' \/ ~synced'[cur']
    BY <1>1, StaleIsWoken
  <2>2. pc' \notin {"idle", "delete", "release", "finalizer"} => snap'.fin
    BY <1>1, FinKnownNext
  <2>3. ASSUME NEW p \in Pipelines PROVE Awaited(p)' \/ Settled(p)'
    BY <1>1, EveryStepWakes, UntouchedStays DEF Wakes, WakeInv, QuietMeansSettled
  <2>4. QuietMeansSettled'
    BY <2>3 DEF QuietMeansSettled
  <2> QED BY <2>1, <2>2, <2>4 DEF WakeInv
<1>2. CASE UNCHANGED vars
  BY <1>2 DEF vars, WakeInv, QuietMeansSettled, Awaited, Settled, Hopeless, PodReported,
              DerivePhase, DeriveCondition
<1> QED BY <1>1, <1>2

(* For any number of pipelines, clusters and instances and any disturbances:   *)
(* a pipeline that nothing will have reconciled again is gone, or is as its    *)
(* spec wants it, or cannot be deployed and says so.                           *)
THEOREM NoWakeUpIsLost == SafetySpec => []QuietMeansSettled
<1> DEFINE All == TypeInv /\ ModeInv /\ WakeInv
<1>1. Init => All
  <2> SUFFICES ASSUME Init PROVE All
    OBVIOUS
  <2>1. TypeInv
    BY TypeInvInit
  <2>2. ModeInv
    BY ObjectCases DEF Init, ModeInv, DeployPCs
  <2>3. WakeInv
    BY ObjectCases DEF Init, WakeInv, QuietMeansSettled, Settled
  <2> QED BY <2>1, <2>2, <2>3
<1>2. All /\ [Next]_vars => All'
  BY TypeInvNext, ModeInvNext, WakeInvNext
<1>3. All => QuietMeansSettled
  BY DEF WakeInv
<1> QED BY <1>1, <1>2, <1>3, PTL DEF SafetySpec

=============================================================================
