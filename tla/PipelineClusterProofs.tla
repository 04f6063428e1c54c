----------------------- MODULE PipelineClusterProofs -----------------------
(***************************************************************************)
(* For every set of specs, every number of edits and every number of        *)
(* faults: a PipelineCluster controller with nothing left to do has applied *)
(* every child and reported it.  The proof goes over one step at a time;    *)
(* what a step leaves undone shows in the queue or in a cache that lags.    *)
(***************************************************************************)
EXTENDS PipelineCluster, FiniteSetTheorems, TLAPS

ClusterInv == TypeOK /\ CachesAgree /\ ReconcileOnTrack /\ IdleIsDone

(* The status of a new cluster is typed and claims nothing. *)
LEMMA NoStatusFacts ==
  /\ NoStatus \in [phase : {"", "Pending", "Ready", "Degraded"}, ready : Nat, desired : Nat,
                   observed : Nat]
  /\ NoStatus.observed = 0 /\ NoStatus.phase = ""
BY DEF NoStatus

(* The placeholder for a deleted cluster is typed. *)
LEMMA NoClusterType == NoCluster \in Clusters /\ NoCluster.uid = 0
<1>1. (CHOOSE s \in Specs : TRUE) \in Specs BY SpecsAreTyped
<1> QED BY <1>1 DEF NoCluster, NoStatus, Clusters

(* The zero value of every kind is typed. *)
LEMMA AbsentType == \A k \in Kinds : Absent(k) \in Children(k) /\ Zero(k) \in Values(k)
<1> SUFFICES ASSUME NEW k \in Kinds PROVE Zero(k) \in Values(k)
  BY DEF Absent, Children
<1>1. CASE k = "cm" BY <1>1 DEF Zero, Values
<1>2. CASE k = "svc"
  <2>1. Zero(k) = [selector |-> "", publishNotReady |-> FALSE] BY <1>2 DEF Zero
  <2>2. Values(k) = [selector : Selectors, publishNotReady : BOOLEAN] BY <1>2 DEF Values
  <2> QED BY <2>1, <2>2 DEF Selectors, Images
<1>3. CASE k = "ss"
  <2>1. Zero(k) = [replicas |-> 0, image |-> "", ready |-> 0] BY <1>3 DEF Zero
  <2>2. Values(k) = [replicas : Nat, image : Images, ready : Nat] BY <1>3 DEF Values
  <2> QED BY <2>1, <2>2 DEF Selectors, Images
<1>4. CASE k = "pm"
  <2>1. Zero(k) = [selector |-> ""] BY <1>4 DEF Zero
  <2>2. Values(k) = [selector : Selectors] BY <1>4 DEF Values
  <2> QED BY <2>1, <2>2 DEF Selectors, Images
<1> QED BY <1>1, <1>2, <1>3, <1>4 DEF Kinds

(* The mutate functions keep the kind of a child, and leave it as specified. *)
LEMMA BuiltFacts ==
  ASSUME NEW k \in Kinds, NEW old \in Values(k), NEW c \in Clusters
  PROVE  /\ Built(k, old, c.spec) \in Values(k)
         /\ k = "cm" => Built(k, old, c.spec).jsonLogging = c.spec.jsonLogging
         /\ k = "ss" => /\ Built(k, old, c.spec).replicas = c.spec.replicas
                        /\ Built(k, old, c.spec).image = c.spec.image
                        /\ Built(k, old, c.spec).ready = old.ready
         /\ k \in {"svc", "pm"} => Built(k, old, c.spec).selector = "cluster"
<1>1. c.spec.replicas \in Nat /\ c.spec.image \in Images /\ c.spec.jsonLogging \in BOOLEAN
  <2>1. c.spec \in Specs BY DEF Clusters
  <2>2. c.spec.replicas \in 1 .. MaxInstances /\ c.spec.jsonLogging \in BOOLEAN
    BY <2>1, SpecsAreTyped
  <2>3. c.spec.image \in Images
    BY <2>1 DEF Images
  <2> QED BY <2>2, <2>3, BoundsAreNaturals
<1>2. CASE k = "cm" BY <1>1, <1>2 DEF Built, Values
<1>3. CASE k = "svc"
  <2>1. old \in [selector : Selectors, publishNotReady : BOOLEAN]
    BY <1>3 DEF Values
  <2>2. Built(k, old, c.spec) = [old EXCEPT !.selector = "cluster"]
    BY <1>3 DEF Built
  <2>3. Built(k, old, c.spec) \in [selector : Selectors, publishNotReady : BOOLEAN]
        /\ Built(k, old, c.spec).selector = "cluster"
    BY <2>1, <2>2 DEF Selectors
  <2>4. Values(k) = [selector : Selectors, publishNotReady : BOOLEAN]
    BY <1>3 DEF Values
  <2> QED BY <1>3, <2>3, <2>4
<1>4. CASE k = "ss"
  <2>1. old \in [replicas : Nat, image : Images, ready : Nat]
    BY <1>4 DEF Values
  <2>2. Built(k, old, c.spec) = [old EXCEPT !.replicas = c.spec.replicas, !.image = c.spec.image]
    BY <1>4 DEF Built
  <2>3. /\ Built(k, old, c.spec) \in [replicas : Nat, image : Images, ready : Nat]
        /\ Built(k, old, c.spec).replicas = c.spec.replicas
        /\ Built(k, old, c.spec).image = c.spec.image
        /\ Built(k, old, c.spec).ready = old.ready
    BY <1>1, <2>1, <2>2
  <2>4. Values(k) = [replicas : Nat, image : Images, ready : Nat]
    BY <1>4 DEF Values
  <2> QED BY <1>4, <2>3, <2>4
<1>5. CASE k = "pm"
  <2>1. old \in [selector : Selectors]
    BY <1>5 DEF Values
  <2>2. Built(k, old, c.spec) = [old EXCEPT !.selector = "cluster"]
    BY <1>5 DEF Built
  <2>3. Built(k, old, c.spec) \in [selector : Selectors]
        /\ Built(k, old, c.spec).selector = "cluster"
    BY <2>1, <2>2 DEF Selectors
  <2>4. Values(k) = [selector : Selectors]
    BY <1>5 DEF Values
  <2> QED BY <1>5, <2>3, <2>4
<1> QED BY <1>2, <1>3, <1>4, <1>5 DEF Kinds

(* What a child that the mutate function would not change looks like. *)
LEMMA KeptIsBuilt ==
  ASSUME NEW k \in Kinds, NEW c \in Clusters, NEW ch \in Children(k),
         Built(k, ch.val, c.spec) = ch.val
  PROVE  /\ k = "cm" => ch.val.jsonLogging = c.spec.jsonLogging
         /\ k = "ss" => ch.val.replicas = c.spec.replicas /\ ch.val.image = c.spec.image
         /\ k \in {"svc", "pm"} => ch.val.selector = "cluster"
<1>1. ch.val \in Values(k) BY DEF Children
<1> QED BY <1>1, BuiltFacts

(* A child replaced by one of its kind: the others stay, its event is under  *)
(* way.                                                                     *)
LEMMA SetChildFacts ==
  ASSUME TypeOK, CachesAgree, NEW k \in Kinds, NEW c \in Children(k), SetChild(k, c)
  PROVE  /\ PerKind(child)' /\ PerKind(seen)' /\ (synced \in [Kinds -> BOOLEAN])'
         /\ child'[k] = c /\ synced'[k] = FALSE
         /\ \A j \in Kinds : j # k => child'[j] = child[j] /\ synced'[j] = synced[j]
         /\ UNCHANGED <<objSeen, objSynced, seen>>
         /\ obj' = obj => CachesAgree'
<1>1. /\ child' = [child EXCEPT ![k] = c] /\ synced' = [synced EXCEPT ![k] = FALSE]
      /\ UNCHANGED <<objSeen, objSynced, seen>>
  BY DEF SetChild
<1>2. child = [j \in Kinds |-> child[j]] /\ \A j \in Kinds : child[j] \in Children(j)
  BY DEF TypeOK, PerKind
<1>3. child' = [j \in Kinds |-> IF j = k THEN c ELSE child[j]]
  BY <1>1, <1>2
<1>4. \A j \in Kinds : child'[j] = IF j = k THEN c ELSE child[j]
  BY <1>3
<1>5. PerKind(child)'
  BY <1>2, <1>3, <1>4 DEF PerKind
<1>6. synced' \in [Kinds -> BOOLEAN] /\ synced'[k] = FALSE
      /\ \A j \in Kinds : j # k => synced'[j] = synced[j]
  BY <1>1 DEF TypeOK
<1>7. PerKind(seen)' BY <1>1 DEF TypeOK, PerKind
<1>8. obj' = obj => CachesAgree'
  BY <1>1, <1>4, <1>6 DEF CachesAgree
<1> QED BY <1>1, <1>4, <1>5, <1>6, <1>7, <1>8

(* A step of somebody else on a child: the reconcile in progress and the     *)
(* idle controller are told by the event under way.                         *)
LEMMA ChildChange ==
  ASSUME ClusterInv, NEW k \in Kinds, NEW c \in Children(k), SetChild(k, c),
         UNCHANGED <<obj, queued, workerVars>>
  PROVE  CachesAgree' /\ ReconcileOnTrack' /\ IdleIsDone'
<1> USE DEF ClusterInv
<1>1. /\ synced'[k] = FALSE
      /\ \A j \in Kinds : j # k => child'[j] = child[j] /\ synced'[j] = synced[j]
      /\ objSynced' = objSynced /\ CachesAgree'
  BY SetChildFacts
<1>2. pc' = pc /\ snap' = snap /\ fresh' = fresh /\ ready' = ready /\ queued' = queued /\ obj' = obj
  BY DEF workerVars
<1>3. Behind(pc) \subseteq Kinds
  BY DEF Behind, Kinds
<1>4. ReconcileOnTrack'
  <2> SUFFICES ASSUME pc # "idle"
               PROVE  /\ snap.uid # 0
                      /\ fresh => snap = obj
                      /\ snap = obj \/ queued \/ ~objSynced
                      /\ \A j \in Behind(pc) :
                           Applied(j, child'[j], snap) \/ queued \/ ~synced'[j]
                      /\ "ss" \in Behind(pc) =>
                           ready = child'["ss"].val.ready \/ queued \/ ~synced'["ss"]
    BY <1>1, <1>2 DEF ReconcileOnTrack
  <2>1. ASSUME NEW j \in Behind(pc)
        PROVE  Applied(j, child'[j], snap) \/ queued \/ ~synced'[j]
    <3>1. CASE j = k BY <1>1, <3>1
    <3>2. CASE j # k BY <1>1, <1>3, <3>2 DEF ReconcileOnTrack
    <3> QED BY <3>1, <3>2
  <2>2. ASSUME "ss" \in Behind(pc)
        PROVE  ready = child'["ss"].val.ready \/ queued \/ ~synced'["ss"]
    <3>1. CASE "ss" = k BY <1>1, <3>1
    <3>2. CASE "ss" # k BY <1>1, <1>3, <2>2, <3>2 DEF ReconcileOnTrack
    <3> QED BY <3>1, <3>2
  <2> QED BY <2>1, <2>2 DEF ReconcileOnTrack
<1>5. IdleIsDone'
  BY <1>1 DEF IdleIsDone, WillRunAgain
<1> QED BY <1>1, <1>4, <1>5

(* A step that leaves a request in the queue and the objects alone.          *)
LEMMA Requeued ==
  ASSUME ClusterInv, queued' = TRUE, obj' = obj,
         pc' = "idle" \/ UNCHANGED workerVars
  PROVE  ReconcileOnTrack' /\ IdleIsDone'
<1>1. IdleIsDone'
  BY DEF IdleIsDone, WillRunAgain
<1>2. ASSUME pc' = "idle" PROVE ReconcileOnTrack'
  BY <1>2 DEF ReconcileOnTrack
<1>3. ASSUME UNCHANGED workerVars PROVE ReconcileOnTrack'
  <2>1. pc' = pc /\ snap' = snap /\ fresh' = fresh
    BY <1>3 DEF workerVars
  <2>2. pc # "idle" => snap.uid # 0 /\ (fresh => snap = obj)
    BY DEF ClusterInv, ReconcileOnTrack
  <2> QED BY <2>1, <2>2 DEF ReconcileOnTrack
<1> QED BY <1>1, <1>2, <1>3

(* A user's write: its event is under way, and the copy is no longer fresh.  *)
LEMMA WriteStep ==
  ASSUME ClusterInv, NEW new \in Clusters, Write(new),
         new.status.observed <= new.gen,
         new.status.phase = "Ready" => new.status.ready >= new.status.desired
  PROVE  ClusterInv'
<1> USE DEF ClusterInv
<1>1. /\ obj' = new /\ objSynced' = FALSE /\ fresh' = FALSE
      /\ UNCHANGED <<child, objSeen, seen, synced, queued, pc, snap, ready, pods>>
      /\ events < MaxEvents /\ events' = events + 1
  BY DEF Write
<1>2. TypeOK'
  <2>1. PerKind(child)' /\ PerKind(seen)'
    BY <1>1 DEF TypeOK, PerKind
  <2>2. events' \in 0 .. MaxEvents
    BY <1>1, BoundsAreNaturals DEF TypeOK
  <2> QED BY <1>1, <2>1, <2>2 DEF TypeOK
<1>3. CachesAgree'
  BY <1>1 DEF CachesAgree
<1>4. ReconcileOnTrack'
  BY <1>1 DEF ReconcileOnTrack
<1>5. IdleIsDone'
  BY <1>1 DEF IdleIsDone, WillRunAgain
<1> QED BY <1>2, <1>3, <1>4, <1>5

(* Edit, Delete and Recreate are writes of a typed cluster.                  *)
LEMMA UserStep ==
  ASSUME ClusterInv, Edit \/ Delete \/ Recreate
  PROVE  ClusterInv'
<1> USE DEF ClusterInv
<1>0. obj \in Clusters /\ obj.gen \in Nat /\ obj.status.observed \in Nat /\ obj.status.observed <= obj.gen
  BY DEF TypeOK, Clusters
<1>1. CASE Edit
  <2>1. PICK s \in Specs : Write([obj EXCEPT !.spec = s, !.gen = @ + 1])
    BY <1>1 DEF Edit
  <2> DEFINE new == [obj EXCEPT !.spec = s, !.gen = @ + 1]
  <2>2. new \in Clusters /\ new.status = obj.status /\ new.gen = obj.gen + 1
    <3>1. obj.gen + 1 \in Nat BY <1>0
    <3> QED BY <1>0, <3>1 DEF Clusters
  <2>3. new.status.observed <= new.gen
    BY <1>0, <2>2
  <2>4. new.status.phase = "Ready" => new.status.ready >= new.status.desired
    BY <2>2 DEF TypeOK
  <2> HIDE DEF new
  <2> QED BY <2>1, <2>2, <2>3, <2>4, WriteStep DEF new
<1>2. CASE Delete
  <2> DEFINE new == [NoCluster EXCEPT !.gen = obj.gen]
  <2>1. Write(new) BY <1>2 DEF Delete
  <2>2. new \in Clusters /\ new.status = NoCluster.status /\ new.gen = obj.gen
    BY <1>0, NoClusterType DEF Clusters
  <2>3. NoCluster.status = NoStatus
    BY DEF NoCluster
  <2> HIDE DEF new
  <2>4. new.status.observed <= new.gen /\ new.status.phase = ""
    <3>1. new.status = NoStatus /\ 0 <= obj.gen BY <1>0, <2>2, <2>3
    <3> QED BY <2>2, <3>1, NoStatusFacts
  <2> QED BY <2>1, <2>2, <2>4, WriteStep
<1>3. CASE Recreate
  <2>1. PICK s \in Specs : Write([uid |-> obj.gen + 1, gen |-> obj.gen + 1, spec |-> s,
                                 status |-> NoStatus])
    BY <1>3 DEF Recreate
  <2> DEFINE new == [uid |-> obj.gen + 1, gen |-> obj.gen + 1, spec |-> s, status |-> NoStatus]
  <2>2. new \in Clusters /\ new.status.observed <= new.gen /\ new.status.phase = ""
    <3>1. obj.gen + 1 \in Nat /\ 0 <= obj.gen + 1 BY <1>0
    <3>2. new.status = NoStatus /\ new.gen = obj.gen + 1 OBVIOUS
    <3>3. new \in Clusters BY <3>1, NoStatusFacts DEF Clusters
    <3> QED BY <3>1, <3>2, <3>3, NoStatusFacts
  <2> HIDE DEF new
  <2> QED BY <2>1, <2>2, WriteStep DEF new
<1> QED BY <1>1, <1>2, <1>3

(* The controller's first state: the event of the new cluster is under way.  *)
LEMMA ClusterInvInit == Init => ClusterInv
<1> SUFFICES ASSUME Init PROVE ClusterInv
  OBVIOUS
<1>1. obj \in Clusters /\ obj.status.observed <= obj.gen /\ obj.status.phase = ""
  <2>1. PICK s \in Specs : obj = [uid |-> 1, gen |-> 1, spec |-> s, status |-> NoStatus]
    BY DEF Init
  <2>2. obj.status = NoStatus /\ obj.gen = 1 BY <2>1
  <2>3. obj \in Clusters BY <2>1, NoStatusFacts DEF Clusters
  <2>4. obj.status.observed = 0 /\ obj.status.phase = "" BY <2>2, NoStatusFacts
  <2>5. 0 <= 1 OBVIOUS
  <2> QED BY <2>2, <2>3, <2>4, <2>5
<1>2. PerKind(child) /\ PerKind(seen)
  BY AbsentType DEF Init, PerKind
<1>3. pods \in [Ordinals -> [up : BOOLEAN, image : Images]]
  BY DEF Init, Down, Images
<1>4. TypeOK
  <2>1. events \in 0 .. MaxEvents /\ ready \in Nat
    BY BoundsAreNaturals DEF Init
  <2>2. /\ objSeen \in Clusters /\ snap \in Clusters
        /\ objSynced \in BOOLEAN /\ synced \in [Kinds -> BOOLEAN]
        /\ queued \in BOOLEAN /\ pc \in Steps \cup {"idle"} /\ fresh \in BOOLEAN
    BY NoClusterType DEF Init
  <2> QED BY <1>1, <1>2, <1>3, <2>1, <2>2 DEF TypeOK
<1> QED BY <1>4 DEF Init, ClusterInv, CachesAgree, ReconcileOnTrack, IdleIsDone, WillRunAgain

(* Starting a reconcile: it works on the cached cluster, which is the        *)
(* current one unless an event is under way.                                *)
LEMMA ReconcileStep ==
  ASSUME ClusterInv, Reconcile
  PROVE  ClusterInv'
<1> USE DEF ClusterInv
<1>1. /\ pc = "idle" /\ queued' = FALSE
      /\ UNCHANGED <<obj, child, objSeen, objSynced, seen, synced, pods, events>>
  BY DEF Reconcile, kubeVars
<1>2. PerKind(child)' /\ PerKind(seen)' /\ CachesAgree'
  BY <1>1 DEF TypeOK, PerKind, CachesAgree
<1>3. CASE objSeen.uid = 0
  <2>1. UNCHANGED <<pc, snap, fresh, ready>>
    BY <1>3 DEF Reconcile, workerVars
  <2>2. TypeOK' BY <1>1, <1>2, <2>1 DEF TypeOK
  <2>3. ReconcileOnTrack' BY <1>1, <2>1 DEF ReconcileOnTrack
  <2>4. IdleIsDone'
    BY <1>1, <1>3 DEF CachesAgree, IdleIsDone, WillRunAgain, Consistent
  <2> QED BY <1>2, <2>2, <2>3, <2>4
<1>4. CASE objSeen.uid # 0
  <2>1. snap' = objSeen /\ fresh' = objSynced /\ pc' = "cm" /\ ready' = ready
    BY <1>4 DEF Reconcile
  <2>2. TypeOK' BY <1>1, <1>2, <2>1 DEF TypeOK, Steps, Kinds
  <2>3. Behind(pc') = {} BY <2>1 DEF Behind
  <2>4. ReconcileOnTrack'
    BY <1>1, <1>4, <2>1, <2>3 DEF CachesAgree, ReconcileOnTrack
  <2>5. IdleIsDone' BY <2>1 DEF IdleIsDone
  <2> QED BY <1>2, <2>2, <2>4, <2>5
<1> QED BY <1>3, <1>4

(* Returning to the queue without touching anything else. *)
LEMMA RetryStep ==
  ASSUME ClusterInv, ReturnRetry, events' \in 0 .. MaxEvents,
         UNCHANGED <<obj, child, kubeVars, pods>>
  PROVE  ClusterInv'
<1> USE DEF ClusterInv
<1>1. pc' = "idle" /\ queued' = TRUE /\ snap' = NoCluster /\ fresh' = FALSE /\ ready' = 0
  BY DEF ReturnRetry, Return
<1>2. UNCHANGED <<obj, child, objSeen, objSynced, seen, synced, pods>>
  BY DEF kubeVars
<1>3. PerKind(child)' /\ PerKind(seen)' /\ CachesAgree'
  BY <1>2 DEF TypeOK, PerKind, CachesAgree
<1>4. TypeOK' BY <1>1, <1>2, <1>3, NoClusterType DEF TypeOK
<1> QED BY <1>1, <1>2, <1>3, <1>4, Requeued

(* The step after k has exactly k behind it in addition. *)
LEMMA FollowingFacts ==
  ASSUME NEW k \in Kinds
  PROVE  /\ Following(k) \in Steps /\ Following(k) # "idle"
         /\ Behind(Following(k)) = Behind(k) \cup {k}
         /\ Behind(k) \subseteq Kinds
<1>1. CASE k = "cm" BY <1>1 DEF Following, Behind, Steps, Kinds
<1>2. CASE k = "svc" BY <1>2 DEF Following, Behind, Steps, Kinds
<1>3. CASE k = "ss" BY <1>3 DEF Following, Behind, Steps, Kinds
<1>4. CASE k = "pm" BY <1>4 DEF Following, Behind, Steps, Kinds
<1> QED BY <1>1, <1>2, <1>3, <1>4 DEF Kinds

(* A child that was applied, or whose event is under way, is behind.  *)
LEMMA ProceedStep ==
  ASSUME ClusterInv, NEW k \in Kinds, pc = k, NEW val, Proceed(k, val),
         k = "ss" => val.ready \in Nat,
         UNCHANGED <<obj, pods, events, objSeen, objSynced, seen>>,
         PerKind(child)', synced' \in [Kinds -> BOOLEAN], CachesAgree',
         \A j \in Kinds : j # k => child'[j] = child[j] /\ synced'[j] = synced[j],
         Applied(k, child'[k], snap) \/ queued \/ ~synced'[k],
         k = "ss" => val.ready = child'["ss"].val.ready \/ queued \/ ~synced'["ss"]
  PROVE  ClusterInv'
<1> USE DEF ClusterInv
<1>1. /\ pc' = Following(k) /\ UNCHANGED <<snap, fresh, queued>>
      /\ ready' = IF k = "ss" THEN val.ready ELSE ready
  BY DEF Proceed
<1>2. pc # "idle"
  BY DEF Kinds
<1>3. ready' \in Nat
  BY <1>1 DEF TypeOK
<1>4. PerKind(seen)'
  BY DEF TypeOK, PerKind
<1>5. TypeOK'
  BY <1>1, <1>3, <1>4, FollowingFacts DEF TypeOK
<1>6. ASSUME NEW j \in Behind(pc')
      PROVE  Applied(j, child'[j], snap) \/ queued \/ ~synced'[j]
  <2>1. CASE j = k BY <2>1
  <2>2. CASE j # k
    <3>1. j \in Behind(k) /\ j \in Kinds BY <1>1, <1>6, <2>2, FollowingFacts
    <3>2. Applied(j, child[j], snap) \/ queued \/ ~synced[j]
      BY <1>2, <3>1 DEF ReconcileOnTrack
    <3> QED BY <2>2, <3>1, <3>2
  <2> QED BY <2>1, <2>2
<1>7. ASSUME "ss" \in Behind(pc')
      PROVE  ready' = child'["ss"].val.ready \/ queued \/ ~synced'["ss"]
  <2>1. CASE k = "ss" BY <1>1, <2>1
  <2>2. CASE k # "ss"
    <3>1. "ss" \in Behind(k) /\ "ss" \in Kinds BY <1>1, <1>7, <2>2, FollowingFacts
    <3>2. ready = child["ss"].val.ready \/ queued \/ ~synced["ss"]
      BY <1>2, <3>1 DEF ReconcileOnTrack
    <3>3. child'["ss"] = child["ss"] /\ synced'["ss"] = synced["ss"]
      BY <2>2, <3>1
    <3> QED BY <1>1, <2>2, <3>2, <3>3
  <2> QED BY <2>1, <2>2
<1>8. ReconcileOnTrack'
  <2>1. snap.uid # 0 /\ (fresh => snap = obj) /\ (snap = obj \/ queued \/ ~objSynced)
    BY <1>2 DEF ReconcileOnTrack
  <2> QED BY <1>1, <1>6, <1>7, <2>1 DEF ReconcileOnTrack
<1>9. IdleIsDone'
  BY <1>1, FollowingFacts DEF IdleIsDone
<1> QED BY <1>5, <1>8, <1>9

(* A child written by the reconcile: its event is under way. *)
LEMMA ChildWritten ==
  ASSUME ClusterInv, NEW k \in Kinds, pc = k, NEW c \in Children(k),
         SetChild(k, c), Proceed(k, c.val), UNCHANGED <<obj, pods, events>>
  PROVE  ClusterInv'
<1> USE DEF ClusterInv
<1>1. k = "ss" => c.val.ready \in Nat
  BY DEF Children, Values
<1>2. /\ PerKind(child)' /\ synced' \in [Kinds -> BOOLEAN] /\ CachesAgree'
      /\ \A j \in Kinds : j # k => child'[j] = child[j] /\ synced'[j] = synced[j]
      /\ ~synced'[k] /\ UNCHANGED <<objSeen, objSynced, seen>>
  BY SetChildFacts
<1>3. k = "ss" => ~synced'["ss"]
  BY <1>2
<1> QED BY <1>1, <1>2, <1>3, ProceedStep

(* CreateOrUpdate on a child that the cache does not hold. *)
LEMMA CreateStep ==
  ASSUME ClusterInv, NEW k \in Kinds, Create(k)
  PROVE  ClusterInv'
<1> USE DEF ClusterInv
<1> DEFINE new == [owner |-> snap.uid, val |-> Built(k, Zero(k), snap.spec)]
<1>1. pc = k /\ UNCHANGED <<obj, pods, events>>
  BY DEF Create
<1>2. snap \in Clusters /\ snap.uid \in Nat
  BY DEF TypeOK, Clusters
<1>3. Built(k, Zero(k), snap.spec) \in Values(k)
  BY <1>2, AbsentType, BuiltFacts
<1>4. new \in Children(k)
  BY <1>2, <1>3 DEF Children
<1>5. CASE child[k].owner = 0
  <2>1. SetChild(k, new) /\ Proceed(k, new.val)
    BY <1>5 DEF Create
  <2> HIDE DEF new
  <2> QED BY <1>1, <1>4, <2>1, ChildWritten
<1>6. CASE child[k].owner # 0
  <2>1. ReturnRetry /\ UNCHANGED <<child, kubeVars>>
    BY <1>6 DEF Create
  <2>2. events' \in 0 .. MaxEvents BY <1>1 DEF TypeOK
  <2> QED BY <1>1, <2>1, <2>2, RetryStep
<1> QED BY <1>5, <1>6

(* CreateOrUpdate on a child that differs. *)
LEMMA UpdateStep ==
  ASSUME ClusterInv, NEW k \in Kinds, Update(k)
  PROVE  ClusterInv'
<1> USE DEF ClusterInv
<1> DEFINE new == [owner |-> snap.uid, val |-> Built(k, seen[k].val, snap.spec)]
<1>1. pc = k /\ UNCHANGED <<obj, pods, events>>
  BY DEF Update
<1>2. snap \in Clusters /\ snap.uid \in Nat
  BY DEF TypeOK, Clusters
<1>3. seen[k].val \in Values(k)
  BY DEF TypeOK, PerKind, Children
<1>4. new \in Children(k)
  BY <1>2, <1>3, BuiltFacts DEF Children
<1>5. CASE seen[k].owner = snap.uid /\ synced[k]
  <2>1. SetChild(k, new) /\ Proceed(k, new.val)
    BY <1>5 DEF Update
  <2> HIDE DEF new
  <2> QED BY <1>1, <1>4, <2>1, ChildWritten
<1>6. CASE ~(seen[k].owner = snap.uid /\ synced[k])
  <2>1. ReturnRetry /\ UNCHANGED <<child, kubeVars>>
    BY <1>6 DEF Update
  <2>2. events' \in 0 .. MaxEvents BY <1>1 DEF TypeOK
  <2> QED BY <1>1, <2>1, <2>2, RetryStep
<1> QED BY <1>5, <1>6

(* CreateOrUpdate on a cached child that needs no change: it is the child,   *)
(* or its event is under way.                                               *)
LEMMA KeepStep ==
  ASSUME ClusterInv, NEW k \in Kinds, Keep(k)
  PROVE  ClusterInv'
<1> USE DEF ClusterInv
<1>1. /\ pc = k /\ seen[k].owner = snap.uid
      /\ Built(k, seen[k].val, snap.spec) = seen[k].val
      /\ Proceed(k, seen[k].val)
      /\ UNCHANGED <<obj, child, objSeen, objSynced, seen, synced, pods, events>>
  BY DEF Keep, kubeVars
<1>2. snap \in Clusters /\ seen[k] \in Children(k)
  BY DEF TypeOK, PerKind
<1>3. Applied(k, seen[k], snap)
  BY <1>1, <1>2, KeptIsBuilt DEF Applied
<1>4. synced[k] => seen[k] = child[k]
  BY DEF CachesAgree
<1>5. k = "ss" => seen[k].val.ready \in Nat
  BY <1>2 DEF Children, Values
<1>6. PerKind(child)' /\ CachesAgree'
  BY <1>1 DEF TypeOK, PerKind, CachesAgree
<1>7. synced' \in [Kinds -> BOOLEAN] BY <1>1 DEF TypeOK
<1>8. Applied(k, child'[k], snap) \/ ~synced'[k]
  BY <1>1, <1>3, <1>4
<1>9. k = "ss" => seen[k].val.ready = child'["ss"].val.ready \/ ~synced'["ss"]
  BY <1>1, <1>4
<1> QED BY <1>1, <1>5, <1>6, <1>7, <1>8, <1>9, ProceedStep

(* No PodMonitor CRD. *)
LEMMA SkipStep ==
  ASSUME ClusterInv, SkipPodMonitor
  PROVE  ClusterInv'
<1> USE DEF ClusterInv
<1>1. /\ pc = "pm" /\ Unwatched("pm") /\ Proceed("pm", Zero("pm"))
      /\ UNCHANGED <<obj, child, objSeen, objSynced, seen, synced, pods, events>>
  BY DEF SkipPodMonitor, kubeVars
<1>2. PerKind(child)' /\ CachesAgree' /\ synced' \in [Kinds -> BOOLEAN]
  BY <1>1 DEF TypeOK, PerKind, CachesAgree
<1>3. Applied("pm", child'["pm"], snap)
  BY <1>1 DEF Applied
<1>4. "pm" \in Kinds /\ "pm" # "ss"
  BY DEF Kinds
<1> QED BY <1>1, <1>2, <1>3, <1>4, ProceedStep

(* The reported status is typed, and its phase agrees with its counts. *)
LEMMA ReportFacts ==
  ASSUME NEW c \in Clusters, NEW n \in Nat
  PROVE  /\ Report(c, n) \in [phase : {"", "Pending", "Ready", "Degraded"}, ready : Nat,
                              desired : Nat, observed : Nat]
         /\ Report(c, n).observed = c.gen
         /\ Report(c, n).phase = "Ready" => Report(c, n).ready >= Report(c, n).desired
<1>1. c.spec \in Specs /\ c.gen \in Nat
  BY DEF Clusters
<1>2. c.spec.replicas \in Nat
  BY <1>1, SpecsAreTyped, BoundsAreNaturals
<1>3. Phase(n, c.spec.replicas) \in {"Pending", "Ready", "Degraded"}
  BY DEF Phase
<1>4. Phase(n, c.spec.replicas) = "Ready" => n >= c.spec.replicas
  BY <1>2 DEF Phase
<1> QED BY <1>1, <1>2, <1>3, <1>4 DEF Report

(* The end of a reconcile: it found everything as it should be, or wrote the *)
(* status, or comes back.                                                   *)
LEMMA StatusStep ==
  ASSUME ClusterInv, WriteStatus
  PROVE  ClusterInv'
<1> USE DEF ClusterInv
<1> DEFINE status == Report(snap, ready)
<1>1. pc = "status" /\ UNCHANGED <<child, pods, events>>
  BY DEF WriteStatus
<1>2. snap \in Clusters /\ ready \in Nat
  BY DEF TypeOK
<1>3. Behind(pc) = Kinds
  BY <1>1 DEF Behind
<1>4. CASE status = snap.status
  <2>1. Return /\ UNCHANGED <<obj, objSeen, objSynced, seen, synced, queued>>
    BY <1>4 DEF WriteStatus, kubeVars
  <2>2. pc' = "idle" /\ snap' = NoCluster /\ fresh' = FALSE /\ ready' = 0
    BY <2>1 DEF Return
  <2>3. PerKind(child)' /\ PerKind(seen)' /\ CachesAgree'
    BY <1>1, <2>1 DEF TypeOK, PerKind, CachesAgree
  <2>4. TypeOK' BY <1>1, <2>1, <2>2, <2>3, NoClusterType DEF TypeOK
  <2>5. ReconcileOnTrack' BY <2>2 DEF ReconcileOnTrack
  <2>6. ASSUME ~WillRunAgain PROVE Consistent
    <3>1. ~queued /\ objSynced /\ \A k \in Kinds : synced[k]
      BY <2>6 DEF WillRunAgain
    <3>2. snap = obj
      BY <1>1, <3>1 DEF ReconcileOnTrack
    <3>3. \A k \in Kinds : Applied(k, child[k], obj)
      BY <1>1, <1>3, <3>1, <3>2 DEF ReconcileOnTrack
    <3>4. ready = child["ss"].val.ready
      BY <1>1, <1>3, <3>1 DEF ReconcileOnTrack, Kinds
    <3> QED BY <1>4, <3>2, <3>3, <3>4 DEF Consistent
  <2>7. IdleIsDone'
    BY <1>1, <2>1, <2>6 DEF IdleIsDone, WillRunAgain, Consistent
  <2> QED BY <2>3, <2>4, <2>5, <2>7
<1>5. CASE status # snap.status /\ fresh
  <2>1. /\ obj' = [snap EXCEPT !.status = status] /\ objSynced' = FALSE
        /\ Return /\ UNCHANGED <<objSeen, seen, synced, queued>>
    BY <1>5 DEF WriteStatus
  <2>2. pc' = "idle" /\ snap' = NoCluster /\ fresh' = FALSE /\ ready' = 0
    BY <2>1 DEF Return
  <2>3. PerKind(child)' /\ PerKind(seen)' /\ CachesAgree'
    BY <1>1, <2>1 DEF TypeOK, PerKind, CachesAgree
  <2>4. /\ status.observed = snap.gen /\ snap.gen \in Nat
        /\ status \in [phase : {"", "Pending", "Ready", "Degraded"}, ready : Nat,
                        desired : Nat, observed : Nat]
        /\ status.phase = "Ready" => status.ready >= status.desired
    BY <1>2, ReportFacts DEF Clusters
  <2> HIDE DEF status
  <2>5. obj' \in Clusters /\ obj'.status = status /\ obj'.gen = snap.gen
    BY <1>2, <2>1, <2>4 DEF Clusters
  <2>6. obj'.status.observed <= obj'.gen
    <3>1. obj'.status.observed = snap.gen
      BY <2>4, <2>5
    <3>2. obj'.gen = snap.gen
      BY <2>5
    <3>3. snap.gen \in Nat
      BY <1>2 DEF Clusters
    <3> QED BY <3>1, <3>2, <3>3
  <2>7. TypeOK' BY <1>1, <2>1, <2>2, <2>3, <2>4, <2>5, <2>6, NoClusterType DEF TypeOK
  <2>8. ReconcileOnTrack' BY <2>2 DEF ReconcileOnTrack
  <2>9. IdleIsDone' BY <2>1 DEF IdleIsDone, WillRunAgain
  <2> QED BY <2>3, <2>7, <2>8, <2>9
<1>6. CASE status # snap.status /\ ~fresh
  <2>1. ReturnRetry /\ UNCHANGED <<obj, kubeVars>>
    BY <1>6 DEF WriteStatus
  <2>2. events' \in 0 .. MaxEvents BY <1>1 DEF TypeOK
  <2> QED BY <1>1, <2>1, <2>2, RetryStep
<1> QED BY <1>4, <1>5, <1>6 DEF TypeOK

(* The watches: a cache catches up and the cluster is queued. *)
LEMMA EventStep ==
  ASSUME ClusterInv, ObjEvent \/ \E k \in Kinds : ChildEvent(k)
  PROVE  ClusterInv'
<1> USE DEF ClusterInv
<1>1. CASE ObjEvent
  <2>1. /\ objSeen' = obj /\ objSynced' = TRUE /\ queued' = TRUE
        /\ UNCHANGED <<obj, child, seen, synced, workerVars, pods, events>>
        /\ UNCHANGED <<pc, snap, fresh, ready>>
    BY <1>1 DEF ObjEvent, workerVars
  <2>2. PerKind(child)' /\ PerKind(seen)' BY <2>1 DEF TypeOK, PerKind
  <2>3. TypeOK' BY <2>1, <2>2 DEF TypeOK
  <2>4. CachesAgree' BY <2>1 DEF CachesAgree
  <2> QED BY <2>1, <2>3, <2>4, Requeued
<1>2. ASSUME NEW k \in Kinds, ChildEvent(k) PROVE ClusterInv'
  <2>1. /\ seen' = [seen EXCEPT ![k] = child[k]] /\ synced' = [synced EXCEPT ![k] = TRUE]
        /\ queued' = TRUE
        /\ UNCHANGED <<obj, child, objSeen, objSynced, workerVars, pods, events>>
        /\ UNCHANGED <<pc, snap, fresh, ready>>
    BY <1>2 DEF ChildEvent, workerVars
  <2>2. seen = [j \in Kinds |-> seen[j]] /\ \A j \in Kinds : child[j] \in Children(j) /\ seen[j] \in Children(j)
    BY DEF TypeOK, PerKind
  <2>3. seen' = [j \in Kinds |-> IF j = k THEN child[k] ELSE seen[j]]
    BY <2>1, <2>2
  <2>4. \A j \in Kinds : seen'[j] = IF j = k THEN child[k] ELSE seen[j]
    BY <2>3
  <2>5. PerKind(seen)' BY <2>2, <2>3, <2>4 DEF PerKind
  <2>6. PerKind(child)' BY <2>1 DEF TypeOK, PerKind
  <2>7. synced' \in [Kinds -> BOOLEAN] /\ \A j \in Kinds : j # k => synced'[j] = synced[j]
    BY <2>1 DEF TypeOK
  <2>8. TypeOK' BY <2>1, <2>5, <2>6, <2>7 DEF TypeOK
  <2>9. CachesAgree' BY <2>1, <2>4, <2>7 DEF CachesAgree
  <2> QED BY <2>1, <2>8, <2>9, Requeued
<1> QED BY <1>1, <1>2

(* The operator restarts with full caches and the cluster queued. *)
LEMMA CrashStep ==
  ASSUME ClusterInv, Crash
  PROVE  ClusterInv'
<1> USE DEF ClusterInv
<1>1. /\ objSeen' = obj /\ objSynced' = TRUE /\ seen' = child
      /\ synced' = [k \in Kinds |-> TRUE]
      /\ pc' = "idle" /\ queued' = TRUE /\ snap' = NoCluster /\ fresh' = FALSE /\ ready' = 0
      /\ UNCHANGED <<obj, child, pods>>
      /\ events < MaxEvents /\ events' = events + 1
  BY DEF Crash, ReturnRetry, Return
<1>2. events' \in 0 .. MaxEvents BY <1>1, BoundsAreNaturals DEF TypeOK
<1>3. PerKind(child)' /\ PerKind(seen)' BY <1>1 DEF TypeOK, PerKind
<1>4. TypeOK' BY <1>1, <1>2, <1>3, NoClusterType DEF TypeOK
<1>5. CachesAgree' BY <1>1 DEF CachesAgree
<1> QED BY <1>1, <1>4, <1>5, Requeued

(* Somebody else's step on a child keeps the types too. *)
LEMMA ChildStep ==
  ASSUME ClusterInv, NEW k \in Kinds, NEW c \in Children(k), SetChild(k, c),
         UNCHANGED <<obj, queued, workerVars, pods>>, events' \in 0 .. MaxEvents
  PROVE  ClusterInv'
<1> USE DEF ClusterInv
<1>1. CachesAgree' /\ ReconcileOnTrack' /\ IdleIsDone'
  BY ChildChange
<1>2. /\ PerKind(child)' /\ PerKind(seen)' /\ (synced \in [Kinds -> BOOLEAN])'
      /\ UNCHANGED <<objSeen, objSynced, seen>>
  BY SetChildFacts
<1>3. UNCHANGED <<pc, snap, fresh, ready>>
  BY DEF workerVars
<1>4. TypeOK' BY <1>2, <1>3 DEF TypeOK
<1> QED BY <1>1, <1>4

(* What somebody else makes of a child is a child of that kind. *)
LEMMA DriftedType ==
  ASSUME NEW k \in Kinds, NEW ch \in Children(k)
  PROVE  [ch EXCEPT !.val = Drifted(k, @)] \in Children(k)
<1>1. ch.val \in Values(k) /\ ch \in [owner : Nat, val : Values(k)]
  BY DEF Children
<1>2. Drifted(k, ch.val) \in Values(k)
  <2>1. CASE k = "cm" BY <1>1, <2>1 DEF Drifted, Values
  <2>2. CASE k = "svc"
    <3>1. Drifted(k, ch.val) = [ch.val EXCEPT !.selector = "other"] BY <2>2 DEF Drifted
    <3>2. Values(k) = [selector : Selectors, publishNotReady : BOOLEAN] BY <2>2 DEF Values
    <3> QED BY <1>1, <3>1, <3>2 DEF Selectors
  <2>3. CASE k = "ss"
    <3>1. Drifted(k, ch.val) = [ch.val EXCEPT !.replicas = 0] BY <2>3 DEF Drifted
    <3>2. Values(k) = [replicas : Nat, image : Images, ready : Nat] BY <2>3 DEF Values
    <3> QED BY <1>1, <3>1, <3>2
  <2>4. CASE k = "pm"
    <3>1. Drifted(k, ch.val) = [ch.val EXCEPT !.selector = "other"] BY <2>4 DEF Drifted
    <3>2. Values(k) = [selector : Selectors] BY <2>4 DEF Values
    <3> QED BY <1>1, <3>1, <3>2 DEF Selectors
  <2> QED BY <2>1, <2>2, <2>3, <2>4 DEF Kinds
<1> QED BY <1>1, <1>2 DEF Children

(* The number of running instances is a number. *)
LEMMA UpType == Up \in Nat
<1>1. IsFiniteSet(Ordinals) BY FS_Interval, BoundsAreNaturals DEF Ordinals
<1>2. IsFiniteSet({o \in Ordinals : pods[o].up}) BY <1>1, FS_Subset
<1> QED BY <1>2, FS_CardinalityType DEF Up

(* Garbage collection, drift and the StatefulSet's own status. *)
LEMMA KubeStep ==
  ASSUME ClusterInv, CountReady \/ \E k \in Kinds : Collect(k) \/ Drift(k)
  PROVE  ClusterInv'
<1> USE DEF ClusterInv
<1>1. \A k \in Kinds : child[k] \in Children(k)
  BY DEF TypeOK, PerKind
<1>2. CASE CountReady
  <2> DEFINE new == [child["ss"] EXCEPT !.val.ready = Up]
  <2>1. SetChild("ss", new) /\ UNCHANGED <<obj, queued, workerVars, pods, events>>
    BY <1>2 DEF CountReady
  <2>2. child["ss"] \in [owner : Nat, val : [replicas : Nat, image : Images, ready : Nat]]
    BY <1>1 DEF Children, Values, Kinds
  <2>3. Children("ss") = [owner : Nat, val : [replicas : Nat, image : Images, ready : Nat]]
    BY DEF Children, Values
  <2>4. new \in Children("ss")
    BY <2>2, <2>3, UpType
  <2>5. events' \in 0 .. MaxEvents BY <2>1 DEF TypeOK
  <2>6. "ss" \in Kinds BY DEF Kinds
  <2> HIDE DEF new
  <2> QED BY <2>1, <2>4, <2>5, <2>6, ChildStep
<1>3. ASSUME NEW k \in Kinds, Collect(k) PROVE ClusterInv'
  <2>1. SetChild(k, Absent(k)) /\ UNCHANGED <<obj, queued, workerVars, pods, events>>
    BY <1>3 DEF Collect
  <2>2. events' \in 0 .. MaxEvents BY <2>1 DEF TypeOK
  <2> QED BY <2>1, <2>2, AbsentType, ChildStep
<1>4. ASSUME NEW k \in Kinds, Drift(k) PROVE ClusterInv'
  <2>1. PICK c \in {Absent(k), [child[k] EXCEPT !.val = Drifted(k, @)]} : SetChild(k, c)
    BY <1>4 DEF Drift
  <2>2. UNCHANGED <<obj, queued, workerVars, pods>> /\ events < MaxEvents /\ events' = events + 1
    BY <1>4 DEF Drift
  <2>3. events' \in 0 .. MaxEvents BY <2>2, BoundsAreNaturals DEF TypeOK
  <2>4. c \in Children(k) BY <1>1, AbsentType, DriftedType
  <2> QED BY <2>1, <2>2, <2>3, <2>4, ChildStep
<1> QED BY <1>2, <1>3, <1>4

(* The pods are not looked at. *)
LEMMA PodStep ==
  ASSUME ClusterInv, NEW o \in Ordinals, PodStarts(o) \/ PodStops(o)
  PROVE  ClusterInv'
<1> USE DEF ClusterInv
<1>1. /\ UNCHANGED <<obj, child, queued>>
      /\ UNCHANGED <<objSeen, objSynced, seen, synced>> /\ UNCHANGED <<pc, snap, fresh, ready>>
  BY DEF PodStarts, PodStops, kubeVars, workerVars
<1>2. events' \in 0 .. MaxEvents
  <2>1. CASE PodStarts(o) BY <2>1 DEF PodStarts, TypeOK
  <2>2. CASE PodStops(o) BY <2>2, BoundsAreNaturals DEF PodStops, TypeOK
  <2> QED BY <2>1, <2>2
<1>3. pods' \in [Ordinals -> [up : BOOLEAN, image : Images]]
  <2>1. CASE PodStarts(o)
    <3>1. child["ss"].val.image \in Images
      <4>1. child["ss"] \in Children("ss") BY DEF TypeOK, PerKind, Kinds
      <4> QED BY <4>1 DEF Children, Values
    <3> QED BY <2>1, <3>1 DEF PodStarts, TypeOK
  <2>2. CASE PodStops(o) BY <2>2 DEF PodStops, TypeOK, Down, Images
  <2> QED BY <2>1, <2>2
<1>4. PerKind(child)' /\ PerKind(seen)' BY <1>1 DEF TypeOK, PerKind
<1>5. TypeOK' BY <1>1, <1>2, <1>3, <1>4 DEF TypeOK
<1> QED BY <1>1, <1>5 DEF CachesAgree, ReconcileOnTrack, IdleIsDone, WillRunAgain, Consistent

(* Every step keeps the invariant. *)
LEMMA ClusterInvNext == ClusterInv /\ [Next]_vars => ClusterInv'
<1> SUFFICES ASSUME ClusterInv, [Next]_vars PROVE ClusterInv'
  OBVIOUS
<1>1. ASSUME CallFails PROVE ClusterInv'
  <2>1. /\ ReturnRetry /\ UNCHANGED <<obj, child, kubeVars, pods>>
        /\ events < MaxEvents /\ events' = events + 1
    BY <1>1 DEF CallFails
  <2>2. events' \in 0 .. MaxEvents BY <2>1, BoundsAreNaturals DEF ClusterInv, TypeOK
  <2> QED BY <2>1, <2>2, RetryStep
<1>2. ASSUME UNCHANGED vars PROVE ClusterInv'
  <2>1. PerKind(child)' /\ PerKind(seen)' BY <1>2 DEF vars, ClusterInv, TypeOK, PerKind
  <2>2. TypeOK' BY <1>2, <2>1 DEF vars, ClusterInv, TypeOK
  <2> QED BY <1>2, <2>2 DEF vars, ClusterInv, CachesAgree, ReconcileOnTrack, IdleIsDone,
               WillRunAgain, Consistent
<1> QED BY <1>1, <1>2, ReconcileStep, SkipStep, StatusStep, CreateStep, KeepStep, UpdateStep,
           EventStep, UserStep, CrashStep, KubeStep, PodStep DEF Next, Worker

(* The invariant holds throughout. *)
LEMMA ClusterInvAlways == Safety => []ClusterInv
BY ClusterInvInit, ClusterInvNext, PTL DEF Safety

(* The variables of the PipelineCluster controller stay in their types, and  *)
(* a recorded phase agrees with the counts recorded with it.                *)
THEOREM ClusterTypeOK == Safety => []TypeOK
<1>1. ClusterInv => TypeOK BY DEF ClusterInv
<1> QED BY <1>1, ClusterInvAlways, PTL

(* No edit, drift, conflict, stale read, failure or restart is missed: a     *)
(* controller with nothing left to do has applied and reported the spec.    *)
THEOREM NothingMissed == Safety => []QuietMeansApplied
<1>1. ClusterInv => QuietMeansApplied
  BY DEF ClusterInv, QuietMeansApplied, IdleIsDone, Quiet, WillRunAgain
<1> QED BY <1>1, ClusterInvAlways, PTL

=============================================================================
