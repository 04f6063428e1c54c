-------------------------- MODULE ProjectMembers --------------------------
(***************************************************************************)
(* A project and a pipeline in it, where their controllers meet: the        *)
(* PipelineProject controller provisions the project's cache resources, a   *)
(* bucket in NATS for a managed one and a registration on the cluster's     *)
(* instance (pipelineproject_caches.go), the Pipeline controller deploys    *)
(* the member's stream there (pipeline_project_assign.go,                   *)
(* handleClusterAssigned), which the instance refuses while a cache that    *)
(* the stream uses is not registered, and the watches of each on what the   *)
(* other writes.  PipelineProject and StreamPlacement have each controller  *)
(* in full; here caches lag only between a read and the write that follows  *)
(* it, and the project's cluster exists.                                    *)
(***************************************************************************)
EXTENDS Naturals

CONSTANTS
  Caches,       \* names of cache resources
  Managed,      \* those with natsKV: the operator keeps their bucket
  Needed,       \* the one the member's stream uses
  MaxEdits,     \* bound on edits of the project
  MaxRestarts   \* bound on restarts of the instance

ASSUME MemberConstants == /\ Managed \subseteq Caches /\ Needed \in Caches
                          /\ MaxEdits \in Nat /\ MaxRestarts \in Nat

VARIABLES
  spec,           \* the names in the project's spec.cacheResources
  status,         \* its status.cacheResources: the phase of each entry, or "Absent"
  pq, ppc, applied, pfresh,
                  \* its controller: queued, step, cacheStatuses, still current
  phase, hashed,  \* the member's status: phase ("Unset" is Go's ""), hash recorded
  mq, timer, mpc, \* its controller: queued, RequeueAfter pending, step
  ready, registered, stream,
                  \* the instance: its pod is Ready, its caches, the member's stream
  nats, buckets,  \* NATS: reachable, its buckets
  late,           \* history: the instance became Ready when Needed was reported
                  \* Ready already, and it has been reported so since
  edits, restarts

project == <<spec, status, pq, ppc, applied, pfresh>>
member == <<phase, hashed, mq, timer, mpc>>
instance == <<ready, registered, stream>>
kv == <<nats, buckets>>
vars == <<project, member, instance, kv, late, edits, restarts>>

(* The project's first start: it and the member are new, no pod is up yet. *)
Init ==
  /\ spec \in SUBSET Caches /\ status = [c \in Caches |-> "Absent"]
  /\ pq = TRUE /\ ppc = "idle" /\ applied = status /\ pfresh = FALSE
  /\ phase = "Unset" /\ hashed = FALSE /\ mq = TRUE /\ timer = FALSE /\ mpc = "idle"
  /\ ready = FALSE /\ registered = {} /\ stream = FALSE
  /\ nats = FALSE /\ buckets = {}
  /\ late = FALSE /\ edits = 0 /\ restarts = 0

-----------------------------------------------------------------------------
(* The project controller *)

(* Of which old entries the bucket is to be deleted. *)
LeftOver == {c \in Managed : status[c] # "Absent" /\ c \notin spec}

(* EnsureKV failed: recorded in the entry, which is not pushed. *)
BucketFailed(c) == c \in Managed /\ ~nats

(* reconcileCacheResources: make the bucket, then push to the instances that   *)
(* are Ready; with none there is nothing to push and nothing fails.  Teardown  *)
(* deletes the bucket of what has left the spec, whoever uses it, but cannot   *)
(* take the resource from an instance.  A DeleteKV that fails is retried       *)
(* before anything is written.                                                *)
ReconcileCacheResources ==
  /\ ppc = "idle" /\ pq
  /\ registered' = IF ready THEN registered \cup {c \in spec : ~BucketFailed(c)} ELSE registered
  /\ buckets' = IF nats THEN (buckets \cup (spec \cap Managed)) \ LeftOver ELSE buckets
  /\ \/ /\ ~nats /\ LeftOver # {}
        /\ UNCHANGED <<pq, ppc, applied, pfresh>>
     \/ /\ nats \/ LeftOver = {}
        /\ pq' = FALSE /\ ppc' = "status" /\ pfresh' = TRUE
        /\ applied' = [c \in Caches |-> IF c \notin spec THEN "Absent"
                                        ELSE IF BucketFailed(c) THEN "Failed" ELSE "Ready"]
  /\ UNCHANGED <<spec, status, member, ready, stream, nats, late, edits, restarts>>

(* A slip: members are told of a new generation only. *)
RedeploysMembersSpecOnly(newStatus) == FALSE

(* projectChangeRedeploysMembers, for an update of the status. *)
RedeploysMembers(newStatus) == newStatus # status

(* The status write; it fails on a project edited since it was read. *)
WriteProjectStatus ==
  /\ ppc = "status" /\ ppc' = "idle" /\ pfresh' = FALSE
  /\ IF pfresh
     THEN /\ status' = applied /\ mq' = (mq \/ RedeploysMembers(applied))
          /\ late' = (late /\ applied[Needed] = "Ready")
          /\ UNCHANGED pq
     ELSE pq' = TRUE /\ UNCHANGED <<status, mq, late>>
  /\ UNCHANGED <<spec, applied, phase, hashed, timer, mpc, instance, kv, edits, restarts>>

-----------------------------------------------------------------------------
(* The Pipeline controller on the member *)

(* A status that changes is an event for the member itself and, through      *)
(* projectsForPipeline, for the project.                                    *)
WriteMember(ph, h, t, queued) ==
  LET changed == <<ph, h>> # <<phase, hashed>>
  IN  /\ mpc' = "idle" /\ phase' = ph /\ hashed' = h /\ timer' = (timer \/ t)
      /\ mq' = (queued \/ changed) /\ pq' = (pq \/ changed)

(* A slip: a recorded hash is taken for a stream that is there. *)
HandleProjectAssignedTrustsHash ==
  /\ mpc = "idle" /\ mq
  /\ \/ ~ready /\ WriteMember("Pending", FALSE, TRUE, FALSE) /\ UNCHANGED stream
     \/ ready /\ hashed /\ WriteMember("Running", TRUE, TRUE, FALSE) /\ UNCHANGED stream
     \/ /\ ready /\ ~hashed
        /\ stream' = (Needed \in registered)
        /\ mpc' = IF stream' THEN "deployed" ELSE "rejected"
        /\ mq' = FALSE
        /\ UNCHANGED <<phase, hashed, timer, pq>>
  /\ UNCHANGED <<spec, status, ppc, applied, pfresh, ready, registered, kv, late, edits, restarts>>

(* handleProjectAssigned up to the PUT: without a Ready instance the member   *)
(* is Pending; with its hash recorded and its stream there is nothing to do;  *)
(* otherwise the stream is deployed, and refused without the cache.          *)
HandleProjectAssigned ==
  /\ mpc = "idle" /\ mq
  /\ \/ ~ready /\ WriteMember("Pending", FALSE, TRUE, FALSE) /\ UNCHANGED stream
     \/ ready /\ hashed /\ stream /\ WriteMember("Running", TRUE, TRUE, FALSE) /\ UNCHANGED stream
     \/ /\ ready /\ ~(hashed /\ stream)
        /\ stream' = (Needed \in registered)
        /\ mpc' = IF stream' THEN "deployed" ELSE "rejected"
        /\ mq' = FALSE
        /\ UNCHANGED <<phase, hashed, timer, pq>>
  /\ UNCHANGED <<spec, status, ppc, applied, pfresh, ready, registered, kv, late, edits, restarts>>

(* The status of a deploy: a placed member is looked at again in two         *)
(* minutes, one whose config was rejected is not.                           *)
ReportDeploy ==
  /\ \/ mpc = "deployed" /\ WriteMember("Running", TRUE, TRUE, mq)
     \/ mpc = "rejected" /\ WriteMember("Failed", FALSE, FALSE, mq)
  /\ UNCHANGED <<spec, status, ppc, applied, pfresh, instance, kv, late, edits, restarts>>

TimerFires ==
  /\ timer /\ timer' = FALSE /\ mq' = TRUE
  /\ UNCHANGED <<project, phase, hashed, mpc, instance, kv, late, edits, restarts>>

-----------------------------------------------------------------------------
(* Users, the instance and NATS *)

(* A new generation reaches both controllers. *)
EditProject ==
  /\ edits < MaxEdits /\ edits' = edits + 1
  /\ spec' \in (SUBSET Caches) \ {spec}
  /\ pq' = TRUE /\ mq' = TRUE /\ pfresh' = FALSE
  /\ UNCHANGED <<status, ppc, applied, phase, hashed, timer, mpc, instance, kv, late, restarts>>

(* The instance's pod restarts: it has lost what it held in memory.  Pod     *)
(* events reach the project (projectsForClusterPod), not the members.       *)
Restart ==
  /\ ready /\ restarts < MaxRestarts /\ restarts' = restarts + 1
  /\ ready' = FALSE /\ registered' = {} /\ stream' = FALSE /\ pq' = TRUE
  /\ UNCHANGED <<spec, status, ppc, applied, pfresh, member, kv, late, edits>>

Ready ==
  /\ ~ready /\ ready' = TRUE /\ pq' = TRUE
  /\ late' = (late \/ status[Needed] = "Ready" \/ (pfresh /\ applied[Needed] = "Ready"))
  /\ UNCHANGED <<spec, status, ppc, applied, pfresh, member, registered, stream, kv, edits,
                 restarts>>

(* NATS answers; the event is that of its StatefulSet. *)
NATSReady ==
  /\ ~nats /\ nats' = TRUE /\ pq' = TRUE
  /\ UNCHANGED <<spec, status, ppc, applied, pfresh, member, instance, buckets, late, edits,
                 restarts>>

Next ==
  \/ ReconcileCacheResources \/ WriteProjectStatus
  \/ HandleProjectAssigned \/ ReportDeploy \/ TimerFires
  \/ EditProject \/ Restart \/ Ready \/ NATSReady

(* Both workers run, timers expire and the StatefulSets start the pods. *)
Fairness ==
  /\ WF_vars(ReconcileCacheResources) /\ WF_vars(WriteProjectStatus)
  /\ WF_vars(HandleProjectAssigned) /\ WF_vars(ReportDeploy) /\ WF_vars(TimerFires)
  /\ WF_vars(Ready) /\ WF_vars(NATSReady)

Spec == Init /\ [][Next]_vars /\ Fairness

-----------------------------------------------------------------------------
(* When both controllers have nothing left to do, the member waits for the    *)
(* resync; or it runs and is looked at again, and its cache, if the project   *)
(* has it, has its bucket; or it was refused and the project lacks the cache  *)
(* it uses, or the bucket for it.  However edits, registrations, teardowns,   *)
(* status writes and deploys interleave, no refused member fails to notice a  *)
(* cache, but for one registered on an instance that became Ready after the   *)
(* project's status had reported the cache Ready: no status changes then.     *)
QuietMemberServed ==
  (~pq /\ ppc = "idle" /\ ~mq /\ mpc = "idle") =>
    \/ phase = "Pending" /\ timer
    \/ /\ phase = "Running" /\ timer
       /\ stream \/ restarts > 0
       /\ nats /\ Needed \in spec \cap Managed => Needed \in buckets
    \/ phase = "Failed" /\ (Needed \notin spec \/ BucketFailed(Needed) \/ late)

(* A member whose cache the project keeps ends up running, with its stream on *)
(* the instance, through restarts that lose it; or it is left Failed by the   *)
(* one ordering QuietMemberServed names.                                      *)
MemberRunsUnlessLate ==
  <>[](Needed \in spec) =>
    <>[](phase = "Running" /\ stream) \/ <>[](phase = "Failed" /\ late)

-----------------------------------------------------------------------------
(* What the repository says and the code does not do *)

(* Members are re-deployed because "a pipeline that failed to deploy because a *)
(* cache resource was not yet registered" would otherwise stay stuck           *)
(* (pipelinesForProject).                                                     *)
MemberRuns == <>[](Needed \in spec) => <>[](phase = "Running" /\ stream)

=============================================================================
