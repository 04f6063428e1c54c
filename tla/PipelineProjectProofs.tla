----------------------- MODULE PipelineProjectProofs -----------------------
(***************************************************************************)
(* For every set of specs, every graph of routes, every number of instances *)
(* and of user writes and faults: a PipelineProject controller with nothing *)
(* left to do has provisioned what its status reports, its finalizer comes  *)
(* before its children, and stored messages survive.  What a reconcile has  *)
(* seen change under it shows in the queue or in a cache that lags, and     *)
(* then nothing is claimed of it; a reconcile that has seen no change       *)
(* leaves behind it what its status says.                                   *)
(***************************************************************************)
EXTENDS PipelineProject, FiniteSetTheorems, TLAPS

USE DEF captured

Provisioning ==
  {"cluster", "conf", "ss", "validate", "streams", "stale", "list", "caches", "teardown"}
Stages == Provisioning \cup {"idle", "finalizer", "cleanup", "unfinalize"}

(* The stages that come after the child of kind k was applied. *)
After(k) ==
  {"validate", "streams", "stale", "list", "caches", "teardown"} \cup
  CASE k = "cluster" -> {"conf", "ss"} [] k = "conf" -> {"ss"} [] k = "ss" -> {}

StatusOK(st, gen) ==
  /\ st.observed \in Nat /\ st.observed <= gen
  /\ st.phase = "Ready" => st.valid /\ st.nats /\ st.ready > 0
  /\ ~st.valid => st.phase = "Degraded" /\ DOMAIN st.routes = {}
  /\ \A r \in DOMAIN st.routes : st.routes[r] \in RouteStatus
  /\ \A c \in DOMAIN st.caches : st.caches[c] \in CacheStatus

(* What a copy of the project is, current or old. *)
IsProject(p) ==
  /\ p \in [uid : Nat, gen : Nat, del : BOOLEAN, fin : BOOLEAN, spec : Specs,
            status : {p.status}]
  /\ p.uid <= p.gen
  /\ p.uid = 0 => ~p.fin /\ ~p.del
  /\ StatusOK(p.status, p.gen)

(* The types of the whole state. *)
Typed ==
  /\ IsProject(obj) /\ IsProject(objSeen) /\ IsProject(snap)
  /\ objSynced \in BOOLEAN /\ queued \in BOOLEAN /\ fresh \in BOOLEAN /\ valid \in BOOLEAN
  /\ fit \subseteq Roles
  /\ child \in [Kinds -> [owner : Nat, size : Nat]]
  /\ pvc \in {"none", "bound", "terminating"}
  /\ nats \in [owner : Nat, up : BOOLEAN]
  /\ inst \in [Ordinals -> [up : BOOLEAN, reg : {inst[o].reg : o \in Ordinals}]]
  /\ podSeen \in [Ordinals -> BOOLEAN] /\ podSynced \in [Ordinals -> BOOLEAN]
  /\ pc \in Stages
  /\ readySeen \in Nat /\ natsSeen \in BOOLEAN
  /\ \A r \in DOMAIN rst : rst[r] \in RouteStatus
  /\ \A c \in DOMAIN cst : cst[c] \in CacheStatus
  /\ events \in 0 .. MaxEvents /\ glitched \in BOOLEAN

(* JetStream keeps streams and buckets on the claim, and runs only on one. *)
Stored ==
  /\ nats.up => pvc # "none"
  /\ DOMAIN streams \cup buckets # {} => pvc # "none"

(* An old copy c of the project: deletion and the finalizer are forever, and *)
(* a copy of another project is one from before this one was created.       *)
Lags(c) ==
  /\ c.gen <= obj.gen
  /\ c.uid = obj.uid => (c.fin => obj.fin) /\ (c.del => obj.del)
  /\ obj.uid # 0 /\ c.uid # obj.uid => c.gen < obj.uid

Copies ==
  /\ Lags(objSeen) /\ Lags(snap)
  /\ objSynced => objSeen = obj
  /\ fresh => snap = obj
  /\ snap.gen <= objSeen.gen
  /\ \A o \in Ordinals : podSynced[o] => podSeen[o] = inst[o].up
  /\ \A k \in Kinds : child[k].owner <= objSeen.gen
  /\ pc # "idle" => \A k \in Kinds : child[k].owner <= snap.gen

(* What a reconcile found in its copy to get where it is. *)
OnTrack ==
  /\ pc \in Provisioning => snap.uid # 0 /\ snap.fin /\ ~snap.del
  /\ pc = "finalizer" => snap.uid # 0 /\ ~snap.fin /\ ~snap.del
  /\ pc \in {"cleanup", "unfinalize"} => snap.del

(* The loops: what is handled and what is left to handle. *)
Loops ==
  /\ pc \notin {"streams", "stale", "list", "caches", "teardown"} => rst = Empty
  /\ ~valid => rst = Empty
  /\ pc \notin {"caches", "teardown"} => cst = Empty
  /\ pc # "caches" => cur = "" /\ left = {}
  /\ pc = "streams" =>
       valid /\ todo \subseteq DOMAIN snap.spec.routes /\ DOMAIN rst = DOMAIN snap.spec.routes \ todo
  /\ pc = "stale" => valid /\ todo \cap DOMAIN snap.spec.routes = {}
  /\ pc \in {"stale", "caches", "teardown"} /\ valid => DOMAIN rst = DOMAIN snap.spec.routes
  /\ pc = "list" => ~valid
  /\ pc = "caches" =>
       /\ todo \subseteq DOMAIN snap.spec.caches
       /\ DOMAIN cst = (DOMAIN snap.spec.caches \ todo) \ {cur}
       /\ cur # "" => cur \in DOMAIN snap.spec.caches \ todo
       /\ left # {} => cur # ""
       /\ left \subseteq urls /\ urls \subseteq Ordinals
  /\ pc = "teardown" =>
       DOMAIN cst = DOMAIN snap.spec.caches /\ todo \cap DOMAIN snap.spec.caches = {}

(* Something will make the controller run again. *)
Pending == queued \/ ~objSynced \/ \E o \in Ordinals : ~podSynced[o]

(* The bucket of a managed cache is there, with the server that holds it. *)
BucketKept(spec, c) == spec.caches[c] = "kv" => nats.up /\ c \in buckets

(* Instance o has c as specified. *)
Registered(spec, c, o) ==
  c \in DOMAIN inst[o].reg /\ inst[o].reg[c] = BuildCacheResourceConfig(spec, c)

RoutesKept(spec, told) ==
  \A r \in DOMAIN told : told[r] = "Ready" =>
    nats.up /\ r \in DOMAIN streams /\ streams[r] = Retention(spec, r)

CachesKept(spec, told) ==
  \A c \in DOMAIN told : told[c].phase = "Ready" =>
    BucketKept(spec, c) /\ \A o \in Ordinals : inst[o].up => Registered(spec, c, o)

(* The instances that run. *)
Running == {o \in Ordinals : inst[o].up}

(* The children's statuses are as they were when they were applied. *)
CapturedStand ==
  /\ pc \in After("cluster") => readySeen = Cardinality(Running)
  /\ pc \in After("ss") => natsSeen = NatsReady

(* What a reconcile has done so far still stands. *)
WorkStands ==
  /\ fresh /\ CapturedStand
  /\ \A k \in Kinds : pc \in After(k) =>
       child[k] = [owner |-> snap.uid, size |-> Built(k, snap.spec)]
  /\ pc \in {"streams", "stale", "list", "caches", "teardown"} => valid = ValidRoutes(snap.spec)
  /\ RoutesKept(snap.spec, rst)
  /\ pc \in {"caches", "teardown"} => urls = Running
  /\ CachesKept(snap.spec, cst)
  /\ cur # "" =>
       BucketKept(snap.spec, cur) /\ \A o \in urls \ left : Registered(snap.spec, cur, o)

(* What the status says still stands. *)
StatusStands ==
  /\ obj.fin /\ obj.status.observed = obj.gen
  /\ \A k \in Kinds : child[k] = [owner |-> obj.uid, size |-> Built(k, obj.spec)]
  /\ obj.status.valid = ValidRoutes(obj.spec)
  /\ obj.status.valid => DOMAIN obj.status.routes = DOMAIN obj.spec.routes
  /\ RoutesKept(obj.spec, obj.status.routes)
  /\ DOMAIN obj.status.caches = DOMAIN obj.spec.caches
  /\ CachesKept(obj.spec, obj.status.caches)
  /\ obj.status.nats = NatsReady
  /\ obj.status.ready = Cardinality(Running)

Standing ==
  /\ pc # "idle" => Pending \/ WorkStands
  /\ pc = "idle" /\ Live => Pending \/ StatusStands

(* What the steps preserve. *)
ProjectInv ==
  /\ Typed /\ Stored /\ Copies /\ OnTrack /\ Loops /\ Standing /\ FinalizerFirst

-----------------------------------------------------------------------------
(* The operators the model is built from. *)

(* The empty map has no key. *)
LEMMA EmptyFacts == DOMAIN Empty = {}
BY DEF Empty

(* The zero value of a project is a project, as soon as there is a spec. *)
LEMMA NoProjectIsOne ==
  ASSUME NEW s \in Specs
  PROVE  /\ IsProject(NoProject)
         /\ NoProject.uid = 0 /\ NoProject.gen = 0 /\ ~NoProject.fin /\ ~NoProject.del
<1>1. (CHOOSE t \in Specs : TRUE) \in Specs OBVIOUS
<1>2. StatusOK(NoStatus, 0)
  BY EmptyFacts DEF StatusOK, NoStatus
<1> HIDE DEF NoStatus
<1>3. /\ NoProject.uid = 0 /\ NoProject.gen = 0 /\ NoProject.fin = FALSE /\ NoProject.del = FALSE
      /\ NoProject.spec \in Specs /\ NoProject.status = NoStatus
  BY <1>1 DEF NoProject
<1>4. NoProject \in [uid : Nat, gen : Nat, del : BOOLEAN, fin : BOOLEAN, spec : Specs,
                     status : {NoStatus}]
  BY <1>1 DEF NoProject
<1> QED BY <1>2, <1>3, <1>4 DEF IsProject

-----------------------------------------------------------------------------
(* What the steps have in common. *)

(* The bounds of the instance are numbers. *)
LEMMA BoundsAreNaturals == MaxInstances \in Nat /\ MaxEvents \in Nat
BY ProjectBounds

(* A step that leads to another run of the controller owes nothing more. *)
LEMMA PendingStands == Pending' => Standing'
BY DEF Standing

(* A reconcile that returns has no local state left. *)
LEMMA ReturnEnds ==
  ASSUME Typed, Return
  PROVE  /\ OnTrack' /\ Loops'
         /\ pc' = "idle" /\ pc' \in Stages /\ snap' = NoProject /\ fresh' = FALSE /\ valid' = TRUE
         /\ readySeen' = 0 /\ natsSeen' = FALSE
         /\ IsProject(snap')
         /\ snap'.uid = 0 /\ snap'.gen = 0 /\ ~snap'.fin /\ ~snap'.del
         /\ \A r \in DOMAIN rst' : rst'[r] \in RouteStatus
         /\ \A c \in DOMAIN cst' : cst'[c] \in CacheStatus
<1>1. obj.spec \in Specs BY DEF Typed, IsProject
<1>2. /\ IsProject(NoProject)
      /\ NoProject.uid = 0 /\ NoProject.gen = 0 /\ ~NoProject.fin /\ ~NoProject.del
  BY <1>1, NoProjectIsOne
<1>3. /\ pc' = "idle" /\ snap' = NoProject /\ fresh' = FALSE /\ todo' = {} /\ valid' = TRUE
      /\ readySeen' = 0 /\ natsSeen' = FALSE
      /\ rst' = Empty /\ cst' = Empty /\ urls' = {} /\ cur' = "" /\ left' = {}
  BY DEF Return
<1>4. OnTrack' BY <1>3 DEF OnTrack, Provisioning
<1>5. Loops' BY <1>3 DEF Loops
<1> QED BY <1>2, <1>3, <1>4, <1>5, EmptyFacts DEF Stages

(* However the pods are cached, their number is one. *)
LEMMA CountsAreNaturals == Cardinality({o \in Ordinals : podSeen[o]}) \in Nat
<1>1. IsFiniteSet(Ordinals) BY BoundsAreNaturals, FS_Interval DEF Ordinals
<1>2. IsFiniteSet({o \in Ordinals : podSeen[o]}) BY <1>1, FS_Subset
<1> QED BY <1>2, FS_CardinalityType

(* An instance runs on while nothing happens to it. *)
LEMMA RunningKept == UNCHANGED inst => Running' = Running
BY DEF Running

(* It runs on too while only its registrations change. *)
LEMMA RunningSame == (\A o \in Ordinals : inst'[o].up = inst[o].up) => Running' = Running
BY DEF Running

(* A later step of the reconcile leaves what it captured as it is. *)
LEMMA CapturedKept ==
  ASSUME CapturedStand, UNCHANGED <<captured, child, nats>>, Running' = Running,
         \A k \in {"cluster", "ss"} : pc' \in After(k) => pc \in After(k)
  PROVE  CapturedStand'
BY DEF CapturedStand, NatsReady

(* So do the steps after the children. *)
LEMMA CapturedLater ==
  ASSUME WorkStands, pc \in After("ss"), UNCHANGED <<captured, child, nats>>, Running' = Running
  PROVE  CapturedStand'
BY CapturedKept DEF WorkStands, After

(* A step outside the reconcile leaves it on its track. *)
LEMMA ElsewhereKeeps ==
  ASSUME OnTrack, Loops, UNCHANGED <<pc, snap, todo, valid, rst, cst, urls, cur, left>>
  PROVE  OnTrack' /\ Loops'
BY DEF OnTrack, Loops

(* Every copy of the project that lags behind obj lags behind what a step    *)
(* makes of obj: the same project with nothing taken back, none, or a new one. *)
LEMMA LagsOn ==
  ASSUME IsProject(obj), IsProject(obj'), NEW c, IsProject(c), Lags(c),
         obj.gen <= obj'.gen,
         \/ /\ obj'.uid = obj.uid
            /\ obj.fin => obj'.fin
            /\ obj.del => obj'.del
         \/ obj'.uid = 0
         \/ obj'.uid = obj.gen + 1
  PROVE  /\ c.gen <= obj'.gen
         /\ c.uid = obj'.uid => (c.fin => obj'.fin) /\ (c.del => obj'.del)
         /\ obj'.uid # 0 /\ c.uid # obj'.uid => c.gen < obj'.uid
<1>1. /\ obj.uid \in Nat /\ obj.gen \in Nat /\ obj'.uid \in Nat /\ obj'.gen \in Nat
      /\ c.uid \in Nat /\ c.gen \in Nat /\ obj.uid <= obj.gen /\ obj'.uid <= obj'.gen
      /\ c.uid <= c.gen
      /\ c.uid = 0 => ~c.fin /\ ~c.del
  BY DEF IsProject
<1>2. /\ c.gen <= obj.gen
      /\ c.uid = obj.uid => (c.fin => obj.fin) /\ (c.del => obj.del)
      /\ obj.uid # 0 /\ c.uid # obj.uid => c.gen < obj.uid
  BY DEF Lags
<1>3. CASE obj'.uid = obj.uid /\ (obj.fin => obj'.fin) /\ (obj.del => obj'.del)
  BY <1>1, <1>2, <1>3
<1>4. CASE obj'.uid = 0
  BY <1>1, <1>2, <1>4
<1>5. CASE obj'.uid = obj.gen + 1
  BY <1>1, <1>2, <1>5
<1> QED BY <1>3, <1>4, <1>5

-----------------------------------------------------------------------------
(* Kubernetes, the pods and NATS. *)

(* A new project, without children, data or reconcile. *)
LEMMA InitInv == Init => ProjectInv
<1> SUFFICES ASSUME Init PROVE ProjectInv OBVIOUS
<1>0. PICK s \in Specs : obj = [NoProject EXCEPT !.uid = 1, !.gen = 1, !.spec = s]
  BY ProjectBounds DEF Init
<1>1. /\ IsProject(NoProject)
      /\ NoProject.uid = 0 /\ NoProject.gen = 0 /\ ~NoProject.fin /\ ~NoProject.del
  BY NoProjectIsOne
<1>2. IsProject(obj) /\ obj.uid = 1 /\ obj.gen = 1 /\ ~obj.fin /\ ~obj.del
  <2>1. NoProject \in [uid : Nat, gen : Nat, del : BOOLEAN, fin : BOOLEAN, spec : Specs,
                       status : {NoProject.status}]
    BY <1>1 DEF IsProject
  <2> HIDE DEF NoProject
  <2>2. /\ obj \in [uid : Nat, gen : Nat, del : BOOLEAN, fin : BOOLEAN, spec : Specs,
                    status : {NoProject.status}]
        /\ obj.uid = 1 /\ obj.gen = 1 /\ ~obj.fin /\ ~obj.del
        /\ obj.status = NoProject.status
    BY <1>0, <1>1, <2>1
  <2>3. StatusOK(NoProject.status, 1) BY <1>1 DEF IsProject, StatusOK
  <2> QED BY <2>2, <2>3 DEF IsProject
<1>3. objSeen = NoProject /\ snap = NoProject /\ objSynced = FALSE /\ fresh = FALSE /\ pc = "idle"
  BY DEF Init
<1>4. Typed
  <2>1. inst \in [Ordinals -> [up : BOOLEAN, reg : {inst[o].reg : o \in Ordinals}]] BY DEF Init
  <2>2. child \in [Kinds -> [owner : Nat, size : Nat]] BY DEF Init, Absent
  <2>0. events = 0 /\ glitched = FALSE BY DEF Init
  <2>4. events \in 0 .. MaxEvents BY <2>0, BoundsAreNaturals
  <2>3. events \in 0 .. MaxEvents /\ glitched \in BOOLEAN BY <2>0, <2>4
  <2> QED BY <2>1, <2>2, <2>3, <1>1, <1>2, <1>3, EmptyFacts DEF Typed, Init, Stages
<1>5. Stored BY EmptyFacts DEF Stored, Init
<1>6. Copies
  <2>1. Lags(NoProject) BY <1>1, <1>2 DEF Lags
  <2>2. \A k \in Kinds : child[k].owner = 0 BY DEF Init, Absent
  <2>3. \A o \in Ordinals : podSeen[o] = inst[o].up BY DEF Init
  <2> QED BY <2>1, <2>2, <2>3, <1>1, <1>3 DEF Copies
<1>7. OnTrack BY <1>3 DEF OnTrack, Provisioning
<1>8. Loops BY DEF Loops, Init
<1>9. Standing BY <1>3 DEF Standing, Pending
<1>10. FinalizerFirst
  <2>1. \A k \in Kinds : child[k].owner = 0 BY DEF Init, Absent
  <2> QED BY <2>1 DEF FinalizerFirst
<1> QED BY <1>4, <1>5, <1>6, <1>7, <1>8, <1>9, <1>10 DEF ProjectInv

(* The watch delivers the project's last write. *)
LEMMA ObjEventKeeps == ASSUME ProjectInv, ObjEvent PROVE ProjectInv'
<1> USE DEF ObjEvent
<1>1. Typed' BY DEF ProjectInv, Typed, outside, locals, bounds
<1>2. Stored' BY DEF ProjectInv, Stored, outside
<1>3. Copies'
  <2>1. Lags(obj) BY DEF ProjectInv, Typed, IsProject, Lags
  <2>2. Lags(objSeen)' BY <2>1 DEF Lags
  <2>3. Lags(snap)' BY DEF ProjectInv, Copies, Lags, locals
  <2>4. obj.gen \in Nat /\ objSeen.gen \in Nat /\ snap.gen \in Nat
        /\ \A k \in Kinds : child[k].owner \in Nat
    BY DEF ProjectInv, Typed, IsProject
  <2> QED BY <2>2, <2>3, <2>4 DEF ProjectInv, Copies, Lags, locals, outside
<1>4. OnTrack' /\ Loops' BY ElsewhereKeeps DEF ProjectInv, locals
<1>5. Standing' BY PendingStands DEF Pending
<1>6. FinalizerFirst' BY DEF ProjectInv, FinalizerFirst, outside
<1> QED BY <1>1, <1>2, <1>3, <1>4, <1>5, <1>6 DEF ProjectInv

(* The watch delivers the readiness of a pod. *)
LEMMA PodEventKeeps == ASSUME ProjectInv, NEW o \in Ordinals, PodEvent(o) PROVE ProjectInv'
<1> USE DEF PodEvent
<1>1. Typed' BY DEF ProjectInv, Typed, projectVars, locals, bounds
<1>2. Stored' BY DEF ProjectInv, Stored
<1>3. Copies'
  BY DEF ProjectInv, Typed, Copies, Lags, locals, projectVars
<1>4. OnTrack' /\ Loops' BY ElsewhereKeeps DEF ProjectInv, locals
<1>5. Standing' BY PendingStands DEF Pending
<1>6. FinalizerFirst' BY DEF ProjectInv, FinalizerFirst, projectVars
<1> QED BY <1>1, <1>2, <1>3, <1>4, <1>5, <1>6 DEF ProjectInv

(* An instance comes up empty; its pod's event is still to come. *)
LEMMA InstanceStartsKeeps ==
  ASSUME ProjectInv, NEW o \in Ordinals, InstanceStarts(o) PROVE ProjectInv'
<1> USE DEF InstanceStarts
<1>0. inst' \in [Ordinals -> [up : BOOLEAN, reg : {inst'[p].reg : p \in Ordinals}]]
  BY DEF ProjectInv, Typed
<1>1. Typed' BY <1>0 DEF ProjectInv, Typed, projectVars, locals, bounds
<1>2. Stored' BY DEF ProjectInv, Stored
<1>3. Copies'
  BY DEF ProjectInv, Typed, Copies, Lags, locals, projectVars
<1>4. OnTrack' /\ Loops' BY ElsewhereKeeps DEF ProjectInv, locals
<1>5. Standing' BY PendingStands DEF Pending, ProjectInv, Typed
<1>6. FinalizerFirst' BY DEF ProjectInv, FinalizerFirst, projectVars
<1> QED BY <1>1, <1>2, <1>3, <1>4, <1>5, <1>6 DEF ProjectInv

(* A disturbance is counted up to its bound. *)
LEMMA EventCounted ==
  ASSUME Typed, Disturbance \/ UNCHANGED bounds
  PROVE  events' \in 0 .. MaxEvents /\ glitched' \in BOOLEAN
<1>1. events \in 0 .. MaxEvents /\ glitched \in BOOLEAN BY DEF Typed
<1>2. CASE Disturbance BY <1>1, <1>2, BoundsAreNaturals DEF Disturbance, Event
<1>3. CASE UNCHANGED bounds BY <1>1, <1>3 DEF bounds
<1> QED BY <1>2, <1>3

(* An instance goes down with all that was registered with it. *)
LEMMA InstanceStopsKeeps ==
  ASSUME ProjectInv, NEW o \in Ordinals, InstanceStops(o) PROVE ProjectInv'
<1> USE DEF InstanceStops
<1>0. inst' \in [Ordinals -> [up : BOOLEAN, reg : {inst'[p].reg : p \in Ordinals}]]
  BY DEF ProjectInv, Typed
<1>a. events' \in 0 .. MaxEvents /\ glitched' \in BOOLEAN
  BY EventCounted DEF ProjectInv
<1>1. Typed' BY <1>0, <1>a DEF ProjectInv, Typed, projectVars, locals
<1>2. Stored' BY DEF ProjectInv, Stored
<1>3. Copies'
  BY DEF ProjectInv, Typed, Copies, Lags, locals, projectVars
<1>4. OnTrack' /\ Loops' BY ElsewhereKeeps DEF ProjectInv, locals
<1>5. Standing' BY PendingStands DEF Pending, ProjectInv, Typed
<1>6. FinalizerFirst' BY DEF ProjectInv, FinalizerFirst, projectVars
<1> QED BY <1>1, <1>2, <1>3, <1>4, <1>5, <1>6 DEF ProjectInv

(* The claim comes and JetStream keeps what it has. *)
LEMMA ClaimMadeKeeps == ASSUME ProjectInv, ClaimMade PROVE ProjectInv'
<1> USE DEF ClaimMade
<1>1. Typed' BY DEF ProjectInv, Typed, projectVars, locals, bounds
<1>2. Stored' BY DEF ProjectInv, Stored
<1>3. Copies' BY DEF ProjectInv, Typed, Copies, Lags, locals, projectVars
<1>4. OnTrack' /\ Loops' BY ElsewhereKeeps DEF ProjectInv, locals
<1>5. Standing'
  <2>1. Running' = Running BY RunningKept
  <2>2. CapturedStand => CapturedStand' BY <2>1, CapturedKept DEF locals
  <2> QED BY <2>1, <2>2
        DEF ProjectInv, Standing, Pending, Live, WorkStands, StatusStands, RoutesKept, CachesKept,
            BucketKept, Registered, NatsReady, ValidRoutes, projectVars, locals
<1>6. FinalizerFirst' BY DEF ProjectInv, FinalizerFirst, projectVars
<1> QED BY <1>1, <1>2, <1>3, <1>4, <1>5, <1>6 DEF ProjectInv

(* JetStream's data goes only with a server that is down: what is reported   *)
(* Ready has one that is up.                                                *)
LEMMA ClaimGoesKeeps == ASSUME ProjectInv, ClaimGoes PROVE ProjectInv'
<1> USE DEF ClaimGoes
<1>1. Typed' BY DEF ProjectInv, Typed, projectVars, locals, bounds
<1>2. Stored' BY EmptyFacts DEF ProjectInv, Stored
<1>3. Copies' BY DEF ProjectInv, Typed, Copies, Lags, locals, projectVars
<1>4. OnTrack' /\ Loops' BY ElsewhereKeeps DEF ProjectInv, locals
<1>5. Standing'
  <2>1. \A spec, told : RoutesKept(spec, told) => RoutesKept(spec, told)' BY DEF RoutesKept
  <2>2. \A spec, c : BucketKept(spec, c) => BucketKept(spec, c)' BY DEF BucketKept
  <2>3. \A spec, told : CachesKept(spec, told) => CachesKept(spec, told)'
    BY <2>2 DEF CachesKept, Registered
  <2>4. \A spec, c, o : Registered(spec, c, o) => Registered(spec, c, o)' BY DEF Registered
  <2>5. UNCHANGED <<obj, objSynced, snap, fresh, captured, valid, rst, cst, urls, cur, left, pc, queued,
                    podSynced, child, inst, fit, nats>>
    BY DEF projectVars, locals
  <2>6. Pending => Pending' BY <2>5 DEF Pending
  <2>a. Running' = Running BY RunningKept
  <2>b. CapturedStand => CapturedStand' BY <2>5, <2>a, CapturedKept
  <2>7. WorkStands => WorkStands'
    BY <2>1, <2>2, <2>3, <2>4, <2>5, <2>a, <2>b DEF WorkStands, ValidRoutes
  <2>8. StatusStands => StatusStands'
    BY <2>1, <2>3, <2>5, <2>a DEF StatusStands, ValidRoutes, NatsReady
  <2> QED BY <2>5, <2>6, <2>7, <2>8 DEF ProjectInv, Standing, Live
<1>6. FinalizerFirst' BY DEF ProjectInv, FinalizerFirst, projectVars
<1> QED BY <1>1, <1>2, <1>3, <1>4, <1>5, <1>6 DEF ProjectInv

(* The server comes up on the volume it had. *)
LEMMA NatsStartsKeeps == ASSUME ProjectInv, NatsStarts PROVE ProjectInv'
<1> USE DEF NatsStarts
<1>0. nats' \in [owner : Nat, up : BOOLEAN]
  <2>1. child["ss"].owner \in Nat BY DEF ProjectInv, Typed, Kinds
  <2> QED BY <2>1
<1>1. Typed' BY <1>0 DEF ProjectInv, Typed, projectVars, locals, bounds
<1>2. Stored' BY DEF ProjectInv, Stored
<1>3. Copies' BY DEF ProjectInv, Typed, Copies, Lags, locals, projectVars
<1>4. OnTrack' /\ Loops' BY ElsewhereKeeps DEF ProjectInv, locals
<1>5. Standing' BY PendingStands DEF Pending
<1>6. FinalizerFirst' BY DEF ProjectInv, FinalizerFirst, projectVars
<1> QED BY <1>1, <1>2, <1>3, <1>4, <1>5, <1>6 DEF ProjectInv

(* The server goes down; its data stays on the volume. *)
LEMMA NatsStopsKeeps == ASSUME ProjectInv, NatsStops PROVE ProjectInv'
<1> USE DEF NatsStops
<1>a. events' \in 0 .. MaxEvents /\ glitched' \in BOOLEAN
  BY EventCounted DEF ProjectInv
<1>1. Typed' BY <1>a DEF ProjectInv, Typed, projectVars, locals
<1>2. Stored' BY DEF ProjectInv, Stored
<1>3. Copies' BY DEF ProjectInv, Typed, Copies, Lags, locals, projectVars
<1>4. OnTrack' /\ Loops' BY ElsewhereKeeps DEF ProjectInv, locals
<1>5. Standing' BY PendingStands DEF Pending
<1>6. FinalizerFirst' BY DEF ProjectInv, FinalizerFirst, projectVars
<1> QED BY <1>1, <1>2, <1>3, <1>4, <1>5, <1>6 DEF ProjectInv

(* The garbage collector takes children of an owner that is gone. *)
LEMMA CollectKeeps == ASSUME ProjectInv, NEW k \in Kinds, Collect(k) PROVE ProjectInv'
<1> USE DEF Collect
<1>0. /\ child' \in [Kinds -> [owner : Nat, size : Nat]]
      /\ \A j \in Kinds : child'[j].owner \in {0, child[j].owner}
  BY DEF ProjectInv, Typed, Absent
<1>1. Typed' BY <1>0 DEF ProjectInv, Typed, projectVars, locals, bounds
<1>2. Stored' BY DEF ProjectInv, Stored
<1>3. Copies'
  <2>1. objSeen.gen \in Nat /\ snap.gen \in Nat BY DEF ProjectInv, Typed, IsProject
  <2> QED BY <1>0, <2>1 DEF ProjectInv, Copies, Lags, locals, projectVars
<1>4. OnTrack' /\ Loops' BY ElsewhereKeeps DEF ProjectInv, locals
<1>5. Standing' BY PendingStands DEF Pending
<1>6. FinalizerFirst' BY <1>0 DEF ProjectInv, FinalizerFirst, projectVars
<1> QED BY <1>1, <1>2, <1>3, <1>4, <1>5, <1>6 DEF ProjectInv

-----------------------------------------------------------------------------
(* The users. *)

(* What every write of a user leaves alone, and what it brings about. *)
LEMMA WriteKeeps ==
  ASSUME ProjectInv, NEW new, Write(new), IsProject(new), obj.gen <= new.gen,
         \/ /\ new.uid = obj.uid
            /\ obj.fin => new.fin
            /\ obj.del => new.del
         \/ new.uid = 0
         \/ new.uid = obj.gen + 1
  PROVE  ProjectInv'
<1> USE DEF Write
<1>0. obj' = new OBVIOUS
<1>a. events' \in 0 .. MaxEvents /\ glitched' \in BOOLEAN
  BY EventCounted DEF ProjectInv
<1>b. /\ IsProject(obj) /\ IsProject(objSeen) /\ IsProject(snap) /\ IsProject(obj')
  BY <1>0 DEF ProjectInv, Typed
<1>1. Typed' BY <1>a, <1>b DEF ProjectInv, Typed, outside
<1>2. Stored' BY DEF ProjectInv, Stored, outside
<1>3. Copies'
  <2>1. Lags(objSeen)' BY <1>0, <1>b, LagsOn DEF ProjectInv, Copies, Lags
  <2>2. Lags(snap)' BY <1>0, <1>b, LagsOn DEF ProjectInv, Copies, Lags
  <2> QED BY <2>1, <2>2 DEF ProjectInv, Copies, outside
<1>4. OnTrack' /\ Loops' BY ElsewhereKeeps DEF ProjectInv
<1>5. Standing' BY PendingStands DEF Pending
<1>6. FinalizerFirst'
  <2> SUFFICES ASSUME NEW k \in Kinds, child[k].owner # 0, child[k].owner = new.uid
               PROVE  new.fin
    BY <1>0 DEF FinalizerFirst, outside
  <2>1. /\ child[k].owner <= objSeen.gen /\ objSeen.gen <= obj.gen
    BY DEF ProjectInv, Copies, Lags
  <2>2. child[k].owner \in Nat /\ objSeen.gen \in Nat /\ obj.gen \in Nat
    BY <1>b DEF ProjectInv, Typed, IsProject
  <2>3. new.uid = obj.uid /\ (obj.fin => new.fin) BY <2>1, <2>2
  <2> QED BY <2>3 DEF ProjectInv, FinalizerFirst
<1> QED BY <1>1, <1>2, <1>3, <1>4, <1>5, <1>6 DEF ProjectInv

(* A user's edit: a new generation, and an event for the reconcile. *)
LEMMA EditKeeps == ASSUME ProjectInv, Edit PROVE ProjectInv'
<1>1. PICK s \in Specs : Write([obj EXCEPT !.spec = s, !.gen = @ + 1]) BY DEF Edit
<1> DEFINE new == [obj EXCEPT !.spec = s, !.gen = @ + 1]
<1>2. /\ obj \in [uid : Nat, gen : Nat, del : BOOLEAN, fin : BOOLEAN, spec : Specs,
                  status : {obj.status}]
      /\ obj.uid <= obj.gen
      /\ obj.uid = 0 => ~obj.fin /\ ~obj.del
      /\ StatusOK(obj.status, obj.gen)
  BY DEF ProjectInv, Typed, IsProject
<1>a. obj.gen + 1 \in Nat BY <1>2
<1>b. new \in [uid : Nat, gen : Nat, del : BOOLEAN, fin : BOOLEAN, spec : Specs,
               status : {obj.status}]
  BY <1>2, <1>a
<1>3. /\ new \in [uid : Nat, gen : Nat, del : BOOLEAN, fin : BOOLEAN, spec : Specs,
                  status : {obj.status}]
      /\ new.uid = obj.uid /\ new.gen = obj.gen + 1 /\ new.fin = obj.fin /\ new.del = obj.del
      /\ new.status = obj.status
  BY <1>2, <1>b
<1>4. StatusOK(new.status, new.gen) BY <1>2, <1>3 DEF StatusOK
<1> HIDE DEF new
<1>5. IsProject(new) BY <1>2, <1>3, <1>4 DEF IsProject
<1>6. obj.gen <= new.gen BY <1>2, <1>3
<1>7. Write(new) BY <1>1 DEF new
<1> QED BY <1>3, <1>5, <1>6, <1>7, WriteKeeps

(* What is left of a project that is gone. *)
LEMMA GoneIsProject ==
  ASSUME IsProject(obj)
  PROVE  /\ IsProject([NoProject EXCEPT !.gen = obj.gen])
         /\ [NoProject EXCEPT !.gen = obj.gen].uid = 0
         /\ [NoProject EXCEPT !.gen = obj.gen].gen = obj.gen
<1> DEFINE new == [NoProject EXCEPT !.gen = obj.gen]
<1>0. obj.spec \in Specs /\ obj.gen \in Nat BY DEF IsProject
<1>1. /\ IsProject(NoProject)
      /\ NoProject.uid = 0 /\ NoProject.gen = 0 /\ ~NoProject.fin /\ ~NoProject.del
  BY <1>0, NoProjectIsOne
<1>2. NoProject \in [uid : Nat, gen : Nat, del : BOOLEAN, fin : BOOLEAN, spec : Specs,
                     status : {NoProject.status}]
  BY <1>1 DEF IsProject
<1>3. /\ new \in [uid : Nat, gen : Nat, del : BOOLEAN, fin : BOOLEAN, spec : Specs,
                  status : {NoProject.status}]
      /\ new.uid = 0 /\ new.gen = obj.gen /\ ~new.fin /\ ~new.del
      /\ new.status = NoProject.status
  BY <1>0, <1>1, <1>2
<1>4. StatusOK(new.status, new.gen) BY <1>0, <1>1, <1>3 DEF IsProject, StatusOK
<1> HIDE DEF new
<1>5. IsProject(new) BY <1>0, <1>3, <1>4 DEF IsProject
<1> QED BY <1>3, <1>5 DEF new

(* A deletion waits for the finalizer when there is one. *)
LEMMA DeleteKeeps == ASSUME ProjectInv, Delete PROVE ProjectInv'
<1>1. CASE obj.fin
  <2> DEFINE new == [obj EXCEPT !.del = TRUE, !.gen = @ + 1]
  <2>2. /\ obj \in [uid : Nat, gen : Nat, del : BOOLEAN, fin : BOOLEAN, spec : Specs,
                    status : {obj.status}]
        /\ obj.uid <= obj.gen
        /\ obj.uid # 0
        /\ StatusOK(obj.status, obj.gen)
    BY DEF ProjectInv, Typed, IsProject, Delete
  <2>a. obj.gen + 1 \in Nat BY <2>2
  <2>b. new \in [uid : Nat, gen : Nat, del : BOOLEAN, fin : BOOLEAN, spec : Specs,
                 status : {obj.status}]
    BY <2>2, <2>a
  <2>3. /\ new \in [uid : Nat, gen : Nat, del : BOOLEAN, fin : BOOLEAN, spec : Specs,
                    status : {obj.status}]
        /\ new.uid = obj.uid /\ new.gen = obj.gen + 1 /\ new.fin = obj.fin /\ new.del
        /\ new.status = obj.status
    BY <2>2, <2>b
  <2>4. StatusOK(new.status, new.gen) BY <2>2, <2>3 DEF StatusOK
  <2>7. Write(new) BY <1>1 DEF Delete
  <2> HIDE DEF new
  <2>5. IsProject(new) BY <2>2, <2>3, <2>4 DEF IsProject
  <2>6. obj.gen <= new.gen BY <2>2, <2>3
  <2> QED BY <2>3, <2>5, <2>6, <2>7, WriteKeeps
<1>2. CASE ~obj.fin
  <2>1. Write([NoProject EXCEPT !.gen = obj.gen]) BY <1>2 DEF Delete
  <2>2. IsProject(obj) /\ obj.gen <= obj.gen BY DEF ProjectInv, Typed, IsProject
  <2> DEFINE new == [NoProject EXCEPT !.gen = obj.gen]
  <2>3. IsProject(new) /\ new.uid = 0 /\ new.gen = obj.gen BY <2>2, GoneIsProject
  <2>4. Write(new) BY <2>1
  <2> HIDE DEF new
  <2> QED BY <2>2, <2>3, <2>4, WriteKeeps
<1> QED BY <1>1, <1>2

(* A project of the same name is another object. *)
LEMMA RecreateKeeps == ASSUME ProjectInv, Recreate PROVE ProjectInv'
<1>1. PICK s \in Specs : Write([NoProject EXCEPT !.uid = obj.gen + 1, !.gen = obj.gen + 1, !.spec = s])
  BY DEF Recreate
<1> DEFINE new == [NoProject EXCEPT !.uid = obj.gen + 1, !.gen = obj.gen + 1, !.spec = s]
<1>0. obj.gen \in Nat BY DEF ProjectInv, Typed, IsProject
<1>a. /\ IsProject(NoProject)
      /\ NoProject.uid = 0 /\ NoProject.gen = 0 /\ ~NoProject.fin /\ ~NoProject.del
  BY NoProjectIsOne
<1>2. NoProject \in [uid : Nat, gen : Nat, del : BOOLEAN, fin : BOOLEAN, spec : Specs,
                     status : {NoProject.status}]
  BY <1>a DEF IsProject
<1>b. obj.gen + 1 \in Nat BY <1>0
<1>c. new \in [uid : Nat, gen : Nat, del : BOOLEAN, fin : BOOLEAN, spec : Specs,
               status : {NoProject.status}]
  BY <1>b, <1>2
<1>3. /\ new \in [uid : Nat, gen : Nat, del : BOOLEAN, fin : BOOLEAN, spec : Specs,
                  status : {NoProject.status}]
      /\ new.uid = obj.gen + 1 /\ new.gen = obj.gen + 1 /\ ~new.fin /\ ~new.del
      /\ new.status = NoProject.status
  BY <1>a, <1>c, <1>2
<1>4. StatusOK(new.status, new.gen) BY <1>0, <1>a, <1>3 DEF IsProject, StatusOK
<1>7. Write(new) BY <1>1
<1> HIDE DEF new
<1>5. IsProject(new) BY <1>0, <1>3, <1>4 DEF IsProject
<1>6. obj.gen <= new.gen BY <1>0, <1>3
<1> QED BY <1>3, <1>5, <1>6, <1>7, WriteKeeps

(* A pipeline joins or leaves the project, or changes the I/O it defines. *)
LEMMA MoveKeeps == ASSUME ProjectInv, Move PROVE ProjectInv'
<1>0. PICK f \in SUBSET Roles :
        /\ Disturbance
        /\ fit' = f
        /\ queued' = TRUE
        /\ UNCHANGED <<projectVars, child, pvc, nats, streams, buckets, inst, podSeen, podSynced,
                       pc, locals>>
  BY DEF Move
<1>a. events' \in 0 .. MaxEvents /\ glitched' \in BOOLEAN
  BY <1>0, EventCounted DEF ProjectInv
<1>b. fit' \subseteq Roles BY <1>0
<1>1. Typed' BY <1>0, <1>a, <1>b DEF ProjectInv, Typed, projectVars, locals
<1>2. Stored' BY <1>0 DEF ProjectInv, Stored
<1>3. Copies' BY <1>0 DEF ProjectInv, Typed, Copies, Lags, locals, projectVars
<1>4. OnTrack' /\ Loops' BY <1>0, ElsewhereKeeps DEF ProjectInv, locals
<1>5. Standing' BY <1>0, PendingStands DEF Pending
<1>6. FinalizerFirst' BY <1>0 DEF ProjectInv, FinalizerFirst, projectVars
<1> QED BY <1>1, <1>2, <1>3, <1>4, <1>5, <1>6 DEF ProjectInv

-----------------------------------------------------------------------------
(* The reconcile's ends: failures, restarts, and the writes of the project. *)

(* A reconcile that gives up touches nothing else, and runs again. *)
LEMMA RetryKeeps ==
  ASSUME ProjectInv, ReturnRetry, UNCHANGED projectVars, UNCHANGED outside,
         events' \in 0 .. MaxEvents, glitched' \in BOOLEAN
  PROVE  ProjectInv'
<1>0. Return /\ queued' = TRUE BY DEF ReturnRetry
<1>a. /\ OnTrack' /\ Loops'
      /\ pc' = "idle" /\ pc' \in Stages /\ snap' = NoProject /\ fresh' = FALSE /\ valid' = TRUE
      /\ readySeen' = 0 /\ natsSeen' = FALSE
      /\ IsProject(snap')
      /\ snap'.uid = 0 /\ snap'.gen = 0 /\ ~snap'.fin /\ ~snap'.del
      /\ \A r \in DOMAIN rst' : rst'[r] \in RouteStatus
      /\ \A c \in DOMAIN cst' : cst'[c] \in CacheStatus
  BY <1>0, ReturnEnds DEF ProjectInv
<1>1. Typed' BY <1>0, <1>a DEF ProjectInv, Typed, projectVars, outside
<1>2. Stored' BY DEF ProjectInv, Stored, outside
<1>3. Copies'
  <2>1. obj.gen \in Nat /\ obj.uid \in Nat /\ objSeen.gen \in Nat
    BY DEF ProjectInv, Typed, IsProject
  <2>2. Lags(snap)' BY <2>1, <1>a DEF Lags, projectVars
  <2>3. Lags(objSeen)' BY DEF ProjectInv, Copies, Lags, projectVars
  <2> QED BY <2>1, <2>2, <2>3, <1>a DEF ProjectInv, Copies, projectVars, outside
<1>5. Standing' BY <1>0, PendingStands DEF Pending
<1>6. FinalizerFirst' BY DEF ProjectInv, FinalizerFirst, projectVars, outside
<1> QED BY <1>1, <1>2, <1>3, <1>a, <1>5, <1>6 DEF ProjectInv

(* A failed call ends the reconcile, which is queued again. *)
LEMMA CallFailsKeeps == ASSUME ProjectInv, CallFails PROVE ProjectInv'
<1>1. events' \in 0 .. MaxEvents /\ glitched' \in BOOLEAN
  BY EventCounted DEF ProjectInv, CallFails
<1> QED BY <1>1, RetryKeeps DEF CallFails

(* A crash forgets the reconcile; the restart queues the project. *)
LEMMA CrashKeeps == ASSUME ProjectInv, Crash PROVE ProjectInv'
<1>0. /\ Return /\ queued' = TRUE /\ objSeen' = obj /\ objSynced' = TRUE
      /\ podSeen' = [o \in Ordinals |-> inst[o].up] /\ podSynced' = [o \in Ordinals |-> TRUE]
      /\ UNCHANGED <<obj, fit, child, pvc, nats, streams, buckets, inst>>
  BY DEF Crash, ReturnRetry
<1>a. /\ OnTrack' /\ Loops'
      /\ pc' = "idle" /\ pc' \in Stages /\ snap' = NoProject /\ fresh' = FALSE /\ valid' = TRUE
      /\ readySeen' = 0 /\ natsSeen' = FALSE
      /\ IsProject(snap')
      /\ snap'.uid = 0 /\ snap'.gen = 0 /\ ~snap'.fin /\ ~snap'.del
      /\ \A r \in DOMAIN rst' : rst'[r] \in RouteStatus
      /\ \A c \in DOMAIN cst' : cst'[c] \in CacheStatus
  BY <1>0, ReturnEnds DEF ProjectInv
<1>b. events' \in 0 .. MaxEvents /\ glitched' \in BOOLEAN
  BY EventCounted DEF ProjectInv, Crash
<1>c. podSeen' \in [Ordinals -> BOOLEAN] /\ podSynced' \in [Ordinals -> BOOLEAN]
  BY <1>0 DEF ProjectInv, Typed
<1>1. Typed' BY <1>0, <1>a, <1>b, <1>c DEF ProjectInv, Typed
<1>2. Stored' BY <1>0 DEF ProjectInv, Stored
<1>3. Copies'
  <2>1. /\ obj.gen \in Nat /\ obj.uid \in Nat /\ objSeen.gen \in Nat
        /\ \A k \in Kinds : child[k].owner \in Nat
    BY DEF ProjectInv, Typed, IsProject
  <2>2. Lags(snap)' BY <2>1, <1>0, <1>a DEF Lags
  <2>3. Lags(objSeen)' BY <2>1, <1>0 DEF Lags
  <2>4. \A k \in Kinds : child[k].owner <= obj.gen
    BY <2>1 DEF ProjectInv, Copies, Lags
  <2>5. \A o \in Ordinals : podSeen'[o] = inst'[o].up BY <1>0
  <2> QED BY <2>1, <2>2, <2>3, <2>4, <2>5, <1>0, <1>a DEF Copies
<1>5. Standing' BY <1>0, PendingStands DEF Pending
<1>6. FinalizerFirst' BY <1>0 DEF ProjectInv, FinalizerFirst
<1> QED BY <1>1, <1>2, <1>3, <1>a, <1>5, <1>6 DEF ProjectInv

(* The write that ends a reconcile: the project moves on, every copy lags,   *)
(* and the watch will bring the new one.                                    *)
LEMMA WrittenKeeps ==
  ASSUME ProjectInv, Return, IsProject(obj'), obj.gen <= obj'.gen, objSynced' = FALSE,
         queued' \in BOOLEAN, FinalizerFirst',
         \/ /\ obj'.uid = obj.uid
            /\ obj.fin => obj'.fin
            /\ obj.del => obj'.del
         \/ obj'.uid = 0,
         UNCHANGED objSeen, UNCHANGED outside, UNCHANGED bounds
  PROVE  ProjectInv'
<1>a. /\ OnTrack' /\ Loops'
      /\ pc' = "idle" /\ pc' \in Stages /\ snap' = NoProject /\ fresh' = FALSE /\ valid' = TRUE
      /\ readySeen' = 0 /\ natsSeen' = FALSE
      /\ IsProject(snap')
      /\ snap'.uid = 0 /\ snap'.gen = 0 /\ ~snap'.fin /\ ~snap'.del
      /\ \A r \in DOMAIN rst' : rst'[r] \in RouteStatus
      /\ \A c \in DOMAIN cst' : cst'[c] \in CacheStatus
  BY ReturnEnds DEF ProjectInv
<1>1. Typed' BY <1>a DEF ProjectInv, Typed, outside, bounds
<1>2. Stored' BY DEF ProjectInv, Stored, outside
<1>3. Copies'
  <2>1. obj'.gen \in Nat /\ obj'.uid \in Nat /\ objSeen.gen \in Nat
    BY DEF ProjectInv, Typed, IsProject
  <2>2. Lags(snap)' BY <2>1, <1>a DEF Lags
  <2>3. IsProject(obj) /\ IsProject(objSeen) /\ Lags(objSeen) BY DEF ProjectInv, Typed, Copies
  <2>4. Lags(objSeen)' BY <2>3, LagsOn DEF Lags
  <2> QED BY <2>1, <2>2, <2>4, <1>a DEF ProjectInv, Copies, outside
<1>5. Standing' BY PendingStands DEF Pending
<1> QED BY <1>1, <1>2, <1>3, <1>a, <1>5 DEF ProjectInv

(* The finalizer is written before anything else. *)
LEMMA WriteFinalizerKeeps == ASSUME ProjectInv, WriteFinalizer PROVE ProjectInv'
<1>0. pc \in {"unfinalize", "finalizer"} /\ UNCHANGED objSeen /\ UNCHANGED outside /\ UNCHANGED bounds
  BY DEF WriteFinalizer
<1>1. CASE ~fresh
  <2>1. ReturnRetry /\ UNCHANGED projectVars BY <1>1 DEF WriteFinalizer, projectVars
  <2>2. events' \in 0 .. MaxEvents /\ glitched' \in BOOLEAN BY <1>0, EventCounted DEF ProjectInv
  <2> QED BY <1>0, <2>1, <2>2, RetryKeeps
<1>2. CASE fresh /\ pc = "finalizer"
  <2>1. Return /\ objSynced' = FALSE /\ queued' = TRUE /\ obj' = [obj EXCEPT !.fin = TRUE]
    BY <1>2 DEF WriteFinalizer, ProjectInv, Copies
  <2>2. /\ obj \in [uid : Nat, gen : Nat, del : BOOLEAN, fin : BOOLEAN, spec : Specs,
                    status : {obj.status}]
        /\ obj.uid <= obj.gen /\ obj.gen <= obj.gen
        /\ StatusOK(obj.status, obj.gen)
    BY DEF ProjectInv, Typed, IsProject
  <2>3. obj.uid # 0 /\ obj = snap BY <1>2 DEF ProjectInv, OnTrack, Copies
  <2>4. /\ obj' \in [uid : Nat, gen : Nat, del : BOOLEAN, fin : BOOLEAN, spec : Specs,
                     status : {obj.status}]
        /\ obj'.uid = obj.uid /\ obj'.gen = obj.gen /\ obj'.fin /\ obj'.del = obj.del
        /\ obj'.status = obj.status
    BY <2>1, <2>2
  <2>5. IsProject(obj') BY <2>2, <2>3, <2>4 DEF IsProject
  <2>6. FinalizerFirst' BY <2>4 DEF FinalizerFirst
  <2> QED BY <1>0, <2>1, <2>2, <2>4, <2>5, <2>6, WrittenKeeps
<1>3. CASE fresh /\ pc = "unfinalize"
  <2>1. /\ Return /\ objSynced' = FALSE /\ queued' = (queued \/ FALSE)
        /\ obj' = [NoProject EXCEPT !.gen = obj.gen]
    BY <1>3 DEF WriteFinalizer
  <2>2. IsProject(obj) /\ queued \in BOOLEAN /\ obj.gen <= obj.gen
    BY DEF ProjectInv, Typed, IsProject
  <2>3. IsProject(obj') /\ obj'.uid = 0 /\ obj'.gen = obj.gen BY <2>1, <2>2, GoneIsProject
  <2>4. FinalizerFirst' BY <2>3 DEF FinalizerFirst
  <2>5. queued' \in BOOLEAN BY <2>1, <2>2
  <2> QED BY <1>0, <2>1, <2>2, <2>3, <2>4, <2>5, WrittenKeeps
<1> QED BY <1>0, <1>1, <1>2, <1>3

-----------------------------------------------------------------------------
(* The reconcile's steps. *)

(* A reconcile starts from the cached copy of the project. *)
LEMMA ReconcileKeeps == ASSUME ProjectInv, Reconcile PROVE ProjectInv'
<1>0. /\ pc = "idle" /\ queued /\ queued' = FALSE
      /\ UNCHANGED <<projectVars, outside, bounds, captured, todo, valid, rst, cst, urls, cur, left>>
  BY DEF Reconcile
<1>2. Stored' BY <1>0 DEF ProjectInv, Stored, outside
<1>6. FinalizerFirst' BY <1>0 DEF ProjectInv, FinalizerFirst, projectVars, outside
<1>7. CASE objSeen.uid = 0 \/ (objSeen.del /\ ~objSeen.fin)
  <2>0. UNCHANGED <<pc, snap, fresh>> BY <1>7 DEF Reconcile
  <2>1. Typed' BY <1>0, <2>0 DEF ProjectInv, Typed, projectVars, outside, bounds
  <2>3. Copies' BY <1>0, <2>0 DEF ProjectInv, Copies, Lags, projectVars, outside
  <2>4. OnTrack' /\ Loops' BY <1>0, <2>0, ElsewhereKeeps DEF ProjectInv
  <2>5. Standing'
    <3>1. objSynced => ~Live BY <1>7 DEF ProjectInv, Copies, Live
    <3> QED BY <3>1, <1>0, <2>0 DEF Standing, Pending, Live, projectVars
  <2> QED BY <1>2, <1>6, <2>1, <2>3, <2>4, <2>5 DEF ProjectInv
<1>8. CASE ~(objSeen.uid = 0 \/ (objSeen.del /\ ~objSeen.fin))
  <2>0. /\ snap' = objSeen /\ fresh' = objSynced
        /\ pc' = IF objSeen.del THEN "cleanup" ELSE IF ~objSeen.fin THEN "finalizer" ELSE "cluster"
    BY <1>8 DEF Reconcile
  <2>a. pc' \in {"cleanup", "finalizer", "cluster"} BY <2>0
  <2>1. Typed' BY <1>0, <2>0, <2>a DEF ProjectInv, Typed, projectVars, outside, bounds, Stages, Provisioning
  <2>3. Copies'
    <3>1. Lags(objSeen)' /\ Lags(snap)' BY <1>0, <2>0 DEF ProjectInv, Copies, Lags, projectVars
    <3>2. objSeen.gen \in Nat BY DEF ProjectInv, Typed, IsProject
    <3>3. /\ objSynced => objSeen = obj
          /\ \A o \in Ordinals : podSynced[o] => podSeen[o] = inst[o].up
          /\ \A k \in Kinds : child[k].owner <= objSeen.gen
      BY DEF ProjectInv, Copies
    <3> QED BY <1>0, <2>0, <3>1, <3>2, <3>3 DEF Copies, projectVars, outside
  <2>4. OnTrack'
    <3>1. objSeen.del \in BOOLEAN /\ objSeen.fin \in BOOLEAN BY DEF ProjectInv, Typed, IsProject
    <3> QED BY <1>8, <2>0, <3>1 DEF OnTrack, Provisioning
  <2>5. rst' = Empty /\ cst' = Empty /\ cur' = "" /\ left' = {}
    BY <1>0 DEF ProjectInv, Loops
  <2>6. Loops' BY <2>5, <2>a DEF Loops
  <2>7. Standing'
    <3> SUFFICES ASSUME ~Pending' PROVE WorkStands'
      BY <2>a DEF Standing
    <3>1. fresh' BY <1>0, <2>0 DEF Pending, projectVars
    <3>2. \A k \in Kinds : pc' \notin After(k) BY <2>a DEF After, Kinds
    <3>3. CapturedStand' BY <3>2 DEF CapturedStand, Kinds
    <3> QED BY <2>a, <2>5, <3>1, <3>2, <3>3, EmptyFacts DEF WorkStands, RoutesKept, CachesKept
  <2> QED BY <1>2, <1>6, <2>1, <2>3, <2>4, <2>6, <2>7 DEF ProjectInv
<1> QED BY <1>7, <1>8

(* Every outcome of the cleanup of a deleted project. *)
LEMMA CleanupKeeps == ASSUME ProjectInv, CleanupForDelete PROVE ProjectInv'
<1> USE DEF CleanupForDelete, Goto
<1>1. Typed' BY DEF ProjectInv, Typed, projectVars, bounds, Stages
<1>2. Stored' BY DEF ProjectInv, Stored
<1>3. Copies' BY DEF ProjectInv, Copies, Lags, projectVars
<1>4. OnTrack' BY DEF ProjectInv, OnTrack, Provisioning
<1>5. Loops' BY DEF ProjectInv, Loops
<1>6. Standing'
  <2>1. pc' = "unfinalize" /\ pc = "cleanup" OBVIOUS
  <2>2. Pending => Pending' BY DEF Pending, projectVars
  <2>3. \A k \in Kinds : pc' \notin After(k) BY <2>1 DEF After, Kinds
  <2>4. rst' = Empty /\ cst' = Empty /\ cur' = "" BY <2>1 DEF ProjectInv, Loops
  <2>a. CapturedStand' BY <2>3 DEF CapturedStand, Kinds
  <2>5. WorkStands => WorkStands'
    BY <2>1, <2>3, <2>4, <2>a, EmptyFacts DEF WorkStands, RoutesKept, CachesKept
  <2> QED BY <2>1, <2>2, <2>5 DEF ProjectInv, Standing
<1>7. FinalizerFirst' BY DEF ProjectInv, FinalizerFirst, projectVars
<1> QED BY <1>1, <1>2, <1>3, <1>4, <1>5, <1>6, <1>7 DEF ProjectInv

(* A child is applied: of this project, which has its finalizer. *)
LEMMA ApplyKeeps == ASSUME ProjectInv, NEW k \in Kinds, Apply(k) PROVE ProjectInv'
<1> DEFINE new == [owner |-> snap.uid, size |-> Built(k, snap.spec)]
<1>0. /\ pc = k
      /\ UNCHANGED <<projectVars, fit, pvc, nats, streams, buckets, inst, podSeen, podSynced, bounds>>
  BY DEF Apply
<1>1. CASE child[k].owner \notin {0, snap.uid}
  <2>1. ReturnRetry /\ UNCHANGED outside BY <1>0, <1>1 DEF Apply, outside
  <2>2. events' \in 0 .. MaxEvents /\ glitched' \in BOOLEAN BY <1>0, EventCounted DEF ProjectInv
  <2> QED BY <1>0, <2>1, <2>2, RetryKeeps
<1>2. CASE child[k].owner \in {0, snap.uid}
  <2>0. /\ child' = [child EXCEPT ![k] = new] /\ queued' = (queued \/ child[k] # new)
        /\ pc' = Following(k)
        /\ readySeen' = IF k = "cluster" THEN Cardinality({o \in Ordinals : podSeen[o]})
                        ELSE readySeen
        /\ natsSeen' = IF k = "ss" THEN nats = [owner |-> snap.uid, up |-> TRUE] ELSE natsSeen
        /\ UNCHANGED <<snap, fresh, todo, valid, rst, cst, urls, cur, left>>
    BY <1>2 DEF Apply
  <2>a. /\ snap.spec \in Specs /\ snap.uid \in Nat /\ snap.gen \in Nat /\ objSeen.gen \in Nat
        /\ snap.uid <= snap.gen
        /\ queued \in BOOLEAN /\ child \in [Kinds -> [owner : Nat, size : Nat]]
    BY DEF ProjectInv, Typed, IsProject
  <2>b. new \in [owner : Nat, size : Nat] /\ new.owner = snap.uid
    <3>0. snap.spec.instances \in 1 .. MaxInstances BY <2>a, ProjectBounds
    <3>1. snap.spec.instances \in Nat BY <3>0, BoundsAreNaturals
    <3>2. Built(k, snap.spec) \in Nat BY <3>1 DEF Built
    <3> QED BY <2>a, <3>2
  <2>c. \/ k = "cluster" /\ pc' = "conf"
        \/ k = "conf" /\ pc' = "ss"
        \/ k = "ss" /\ pc' = "validate"
    <3>1. CASE k = "cluster" BY <3>1, <2>0 DEF Following
    <3>2. CASE k = "conf" BY <3>2, <2>0 DEF Following
    <3>3. CASE k = "ss" BY <3>3, <2>0 DEF Following
    <3> QED BY <3>1, <3>2, <3>3 DEF Kinds
  <2>d. /\ child' \in [Kinds -> [owner : Nat, size : Nat]]
        /\ child'[k] = new
        /\ \A j \in Kinds : j # k => child'[j] = child[j]
    BY <2>0, <2>a, <2>b
  <2>e. snap.uid # 0 /\ snap.fin /\ ~snap.del BY <1>0, <2>c DEF ProjectInv, OnTrack, Provisioning
  <2>f. queued' \in BOOLEAN BY <2>0, <2>a
  <2>g. readySeen' \in Nat /\ natsSeen' \in BOOLEAN
    BY <2>0, CountsAreNaturals DEF ProjectInv, Typed
  <2> HIDE DEF new
  <2>1. Typed'
    BY <1>0, <2>0, <2>c, <2>d, <2>f, <2>g
    DEF ProjectInv, Typed, projectVars, bounds, Stages, Provisioning
  <2>2. Stored' BY <1>0 DEF ProjectInv, Stored
  <2>3. Copies'
    <3>1. snap.gen <= objSeen.gen BY DEF ProjectInv, Copies
    <3>2. /\ \A j \in Kinds : child[j].owner <= objSeen.gen
          /\ \A j \in Kinds : child[j].owner <= snap.gen
      BY <1>0, <2>c DEF ProjectInv, Copies
    <3>3. child'[k].owner <= snap.gen /\ child'[k].owner <= objSeen.gen
      BY <2>a, <2>b, <2>d, <3>1
    <3>4. \A j \in Kinds : child'[j].owner <= objSeen.gen /\ child'[j].owner <= snap.gen
      BY <2>d, <3>2, <3>3
    <3> QED BY <1>0, <2>0, <3>4 DEF ProjectInv, Copies, Lags, projectVars
  <2>4. OnTrack' BY <2>0, <2>c, <2>e DEF OnTrack
  <2>5. Loops' BY <1>0, <2>0, <2>c DEF ProjectInv, Loops
  <2>6. Standing'
    <3> SUFFICES ASSUME ~Pending' PROVE WorkStands'
      BY <2>c DEF Standing
    <3>1. ~Pending /\ child[k] = new BY <1>0, <2>0 DEF Pending, projectVars
    <3>2. WorkStands BY <1>0, <2>c, <3>1 DEF ProjectInv, Standing
    <3>3. ASSUME NEW j \in Kinds, pc' \in After(j)
          PROVE  child'[j] = [owner |-> snap'.uid, size |-> Built(j, snap'.spec)]
      <4>1. CASE j = k BY <4>1, <2>d, <2>0 DEF new
      <4>2. CASE j # k
        <5>1. pc \in After(j) BY <4>2, <3>3, <1>0, <2>c DEF After, Kinds
        <5> QED BY <5>1, <4>2, <2>d, <2>0, <3>2 DEF WorkStands
      <4> QED BY <4>1, <4>2
    <3>4. rst' = Empty /\ cst' = Empty /\ cur' = "" BY <1>0, <2>0, <2>c DEF ProjectInv, Loops
    <3>5. CapturedStand'
      <4>1. Running' = Running BY <1>0, RunningKept
      <4>2. CASE k = "cluster"
        <5>1. \A o \in Ordinals : podSeen[o] = inst[o].up BY <3>1 DEF ProjectInv, Copies, Pending
        <5>2. {o \in Ordinals : podSeen[o]} = Running BY <5>1 DEF Running
        <5> QED BY <2>0, <2>c, <4>1, <4>2, <5>2 DEF CapturedStand, After
      <4>3. CASE k = "conf"
        <5>1. readySeen = Cardinality(Running)
          BY <1>0, <3>2, <4>3 DEF WorkStands, CapturedStand, After
        <5> QED BY <2>0, <2>c, <4>1, <4>3, <5>1 DEF CapturedStand, After
      <4>4. CASE k = "ss"
        <5>1. readySeen = Cardinality(Running)
          BY <1>0, <3>2, <4>4 DEF WorkStands, CapturedStand, After
        <5>2. nats \in [owner : Nat, up : BOOLEAN] BY DEF ProjectInv, Typed
        <5>3. NatsReady' = (nats.up /\ nats.owner = snap.uid)
          BY <1>0, <2>b, <2>d, <4>4 DEF NatsReady
        <5>4. natsSeen' = NatsReady' BY <2>0, <4>4, <5>2, <5>3
        <5> QED BY <2>0, <2>c, <4>1, <4>4, <5>1, <5>4 DEF CapturedStand, After
      <4> QED BY <4>2, <4>3, <4>4 DEF Kinds
    <3> QED BY <2>0, <2>c, <3>2, <3>3, <3>4, <3>5, EmptyFacts
          DEF WorkStands, RoutesKept, CachesKept
  <2>7. FinalizerFirst'
    <3>1. snap.uid = obj.uid => obj.fin BY <2>e DEF ProjectInv, Copies, Lags
    <3> QED BY <3>1, <1>0, <2>b, <2>d DEF ProjectInv, FinalizerFirst, projectVars
  <2> QED BY <2>1, <2>2, <2>3, <2>4, <2>5, <2>6, <2>7 DEF ProjectInv
<1> QED BY <1>1, <1>2

(* Within a reconcile: what the copies need, and the queue. *)
LEMMA WithinKeeps ==
  ASSUME ProjectInv, pc # "idle",
         UNCHANGED <<obj, objSeen, objSynced, snap, fresh, child, podSeen, podSynced, queued>>,
         \A o \in Ordinals : inst'[o].up = inst[o].up
  PROVE  /\ Copies' /\ FinalizerFirst'
         /\ Pending' => Pending
         /\ Pending => Pending'
         /\ ~Pending => WorkStands
<1>1. Copies' BY DEF ProjectInv, Copies, Lags
<1>2. FinalizerFirst' BY DEF ProjectInv, FinalizerFirst
<1>3. Pending' <=> Pending BY DEF Pending
<1> QED BY <1>1, <1>2, <1>3 DEF ProjectInv, Standing

(* A call to NATS, answered or not, is counted up to the bound. *)
LEMMA CallCounted ==
  ASSUME Typed, NatsAnswers \/ NatsFails
  PROVE  events' \in 0 .. MaxEvents /\ glitched' \in BOOLEAN
<1>1. events \in 0 .. MaxEvents /\ glitched \in BOOLEAN BY DEF Typed
<1>2. CASE UNCHANGED bounds BY <1>1, <1>2 DEF bounds
<1>3. CASE Event /\ glitched' = TRUE
  <2>1. events' \in 0 .. MaxEvents BY <1>1, <1>3, BoundsAreNaturals DEF Event
  <2> QED BY <2>1, <1>3
<1> QED BY <1>2, <1>3 DEF NatsAnswers, NatsFails

(* The validation decides whether the routes are provisioned. *)
LEMMA ValidateKeeps == ASSUME ProjectInv, Validate PROVE ProjectInv'
<1>0. /\ pc = "validate" /\ valid' = ValidRoutes(snap.spec)
      /\ UNCHANGED <<projectVars, outside, queued, snap, fresh, captured, rst, cst, urls, cur, left, bounds>>
  BY DEF Validate
<1>a. \/ /\ valid' /\ pc' = "streams" /\ todo' = DOMAIN snap.spec.routes
      \/ /\ valid' /\ pc' = "stale" /\ DOMAIN snap.spec.routes = {}
         /\ todo' = DOMAIN snap.status.routes \ DOMAIN snap.spec.routes
      \/ /\ ~valid' /\ pc' = "list" /\ todo' = {}
  BY DEF Validate, StreamsLeft
<1>b. valid' \in BOOLEAN BY <1>0 DEF ValidRoutes
<1>c. rst = Empty /\ cst = Empty /\ cur = "" /\ left = {} BY <1>0 DEF ProjectInv, Loops
<1>d. /\ Copies' /\ FinalizerFirst'
      /\ Pending' <=> Pending
      /\ ~Pending => WorkStands
  BY <1>0, WithinKeeps DEF projectVars, outside
<1>1. Typed'
  BY <1>0, <1>a, <1>b DEF ProjectInv, Typed, projectVars, outside, bounds, Stages, Provisioning
<1>2. Stored' BY <1>0 DEF ProjectInv, Stored, outside
<1>4. OnTrack' BY <1>0, <1>a DEF ProjectInv, OnTrack, Provisioning
<1>5. Loops' BY <1>0, <1>a, <1>c, EmptyFacts DEF Loops
<1>6. Standing'
  <2> SUFFICES ASSUME ~Pending' PROVE WorkStands'
    BY <1>a DEF Standing
  <2>1. WorkStands BY <1>d
  <2>3. \A k \in Kinds : pc \in After(k) BY <1>0 DEF After
  <2>4. /\ fresh' /\ pc' \notin {"caches", "teardown"}
        /\ \A k \in Kinds : child'[k] = [owner |-> snap'.uid, size |-> Built(k, snap'.spec)]
    BY <2>1, <2>3, <1>0, <1>a DEF WorkStands, outside
  <2>5. rst' = Empty /\ cst' = Empty /\ cur' = "" BY <1>0, <1>c
  <2>6. valid' = ValidRoutes(snap.spec)' BY <1>0 DEF ValidRoutes, outside
  <2>7. Running' = Running BY <1>0, RunningKept DEF outside
  <2>8. CapturedStand' BY <1>0, <2>1, <2>7, CapturedLater DEF After, outside
  <2> QED BY <2>4, <2>5, <2>6, <2>8, EmptyFacts DEF WorkStands, RoutesKept, CachesKept
<1> QED BY <1>1, <1>2, <1>d, <1>4, <1>5, <1>6 DEF ProjectInv

(* A stream is ensured, or the failure recorded. *)
LEMMA EnsureStreamKeeps == ASSUME ProjectInv, NEW r, EnsureStream(r) PROVE ProjectInv'
<1>0. /\ pc = "streams" /\ r \in todo /\ StreamsLeft(todo \ {r})
      /\ UNCHANGED <<projectVars, fit, child, pvc, nats, buckets, inst, podSeen, podSynced>>
      /\ UNCHANGED <<queued, snap, fresh, captured, valid, cst, urls, cur, left>>
      /\ \/ /\ NatsAnswers
            /\ streams' = Put(streams, r, Retention(snap.spec, r))
            /\ rst' = Put(rst, r, "Ready")
         \/ NatsFails /\ rst' = Put(rst, r, "Failed") /\ streams' = streams
  BY DEF EnsureStream
<1>a. \/ pc' = "streams" /\ todo' = todo \ {r}
      \/ /\ pc' = "stale" /\ todo \ {r} = {}
         /\ todo' = DOMAIN snap.status.routes \ DOMAIN snap.spec.routes
  BY <1>0 DEF StreamsLeft
<1>b. events' \in 0 .. MaxEvents /\ glitched' \in BOOLEAN BY <1>0, CallCounted DEF ProjectInv
<1>c. /\ valid /\ todo \subseteq DOMAIN snap.spec.routes
      /\ DOMAIN rst = DOMAIN snap.spec.routes \ todo /\ cst = Empty /\ cur = "" /\ left = {}
  BY <1>0 DEF ProjectInv, Loops
<1>d. /\ Copies' /\ FinalizerFirst'
      /\ Pending' <=> Pending
      /\ ~Pending => WorkStands
  BY <1>0, WithinKeeps DEF projectVars
<1>e. /\ DOMAIN rst' = DOMAIN rst \cup {r}
      /\ \A q \in DOMAIN rst : q # r => rst'[q] = rst[q]
      /\ rst'[r] \in {"Ready", "Failed"}
  BY <1>0 DEF Put
<1>f. \A q \in DOMAIN rst' : rst'[q] \in RouteStatus
  BY <1>e DEF ProjectInv, Typed, RouteStatus
<1>1. Typed'
  BY <1>0, <1>a, <1>b, <1>f DEF ProjectInv, Typed, projectVars, Stages, Provisioning
<1>2. Stored'
  <2>1. CASE streams' = streams BY <1>0, <2>1 DEF ProjectInv, Stored
  <2>2. CASE nats.up BY <1>0, <2>2 DEF ProjectInv, Stored
  <2> QED BY <1>0, <2>1, <2>2 DEF NatsAnswers
<1>4. OnTrack' BY <1>0, <1>a DEF ProjectInv, OnTrack, Provisioning
<1>5. Loops'
  <2>1. DOMAIN rst' = DOMAIN snap.spec.routes \ (todo \ {r}) BY <1>0, <1>c, <1>e
  <2>2. CASE pc' = "streams" /\ todo' = todo \ {r} BY <2>1, <2>2, <1>0, <1>c DEF Loops
  <2>3. CASE /\ pc' = "stale" /\ todo \ {r} = {}
             /\ todo' = DOMAIN snap.status.routes \ DOMAIN snap.spec.routes
    BY <2>1, <2>3, <1>0, <1>c DEF Loops
  <2> QED BY <1>a, <2>2, <2>3
<1>6. Standing'
  <2> SUFFICES ASSUME ~Pending' PROVE WorkStands'
    BY <1>a DEF Standing
  <2>1. WorkStands BY <1>d
  <2>2. valid' = ValidRoutes(snap.spec)' BY <1>0, <2>1 DEF WorkStands, ValidRoutes
  <2>3. \A k \in Kinds : pc \in After(k) BY <1>0 DEF After
  <2>4. /\ fresh' /\ pc' \notin {"caches", "teardown"}
        /\ \A k \in Kinds : child'[k] = [owner |-> snap'.uid, size |-> Built(k, snap'.spec)]
    BY <2>1, <2>3, <1>0, <1>a DEF WorkStands
  <2>5. RoutesKept(snap.spec, rst)'
    <3> SUFFICES ASSUME NEW q \in DOMAIN rst', rst'[q] = "Ready"
                 PROVE  nats.up /\ q \in DOMAIN streams' /\ streams'[q] = Retention(snap.spec, q)
      BY <1>0 DEF RoutesKept
    <3>1. CASE q = r
      <4>1. rst'[r] = "Ready" BY <3>1
      <4>2. Put(rst, r, "Failed")[r] = "Failed" BY DEF Put
      <4>3. NatsAnswers /\ streams' = Put(streams, r, Retention(snap.spec, r)) BY <1>0, <4>1, <4>2
      <4> QED BY <3>1, <4>3 DEF Put, NatsAnswers
    <3>2. CASE q # r
      <4>1. q \in DOMAIN rst /\ rst[q] = "Ready" BY <3>2, <1>e
      <4>2. nats.up /\ q \in DOMAIN streams /\ streams[q] = Retention(snap.spec, q)
        BY <4>1, <2>1 DEF WorkStands, RoutesKept
      <4> QED BY <1>0, <4>2, <3>2 DEF Put
    <3> QED BY <3>1, <3>2
  <2>6. cst' = Empty /\ cur' = "" BY <1>0, <1>c
  <2>7. Running' = Running BY <1>0, RunningKept
  <2>8. CapturedStand' BY <1>0, <2>1, <2>7, CapturedLater DEF After
  <2> QED BY <2>2, <2>4, <2>5, <2>6, <2>8, EmptyFacts DEF WorkStands, CachesKept
<1> QED BY <1>1, <1>2, <1>d, <1>4, <1>5, <1>6 DEF ProjectInv

(* A stream that goes is not one of the spec's. *)
LEMMA DeleteStreamKeeps == ASSUME ProjectInv, NEW r, DeleteStream(r) PROVE ProjectInv'
<1>0. /\ pc = "stale" /\ r \in todo
      /\ UNCHANGED <<projectVars, fit, child, pvc, nats, buckets, inst, podSeen, podSynced>>
  BY DEF DeleteStream
<1>1. CASE NatsFails /\ ReturnRetry /\ streams' = streams
  <2>1. UNCHANGED outside BY <1>0, <1>1 DEF outside
  <2>2. events' \in 0 .. MaxEvents /\ glitched' \in BOOLEAN BY <1>1, CallCounted DEF ProjectInv
  <2> QED BY <1>0, <1>1, <2>1, <2>2, RetryKeeps
<1>2. CASE /\ NatsAnswers
           /\ streams' = Without(streams, r) /\ todo' = todo \ {r}
           /\ UNCHANGED <<queued, pc, snap, fresh, captured, valid, rst, cst, urls, cur, left>>
  <2>b. events' \in 0 .. MaxEvents /\ glitched' \in BOOLEAN BY <1>2, CallCounted DEF ProjectInv
  <2>c. /\ valid /\ todo \cap DOMAIN snap.spec.routes = {}
        /\ DOMAIN rst = DOMAIN snap.spec.routes /\ cst = Empty /\ cur = "" /\ left = {}
    BY <1>0 DEF ProjectInv, Loops
  <2>d. /\ Copies' /\ FinalizerFirst'
        /\ Pending' <=> Pending
        /\ ~Pending => WorkStands
    BY <1>0, <1>2, WithinKeeps DEF projectVars
  <2>1. Typed' BY <1>0, <1>2, <2>b DEF ProjectInv, Typed, projectVars
  <2>2. Stored' BY <1>0, <1>2 DEF Without, Restrict, ProjectInv, Stored
  <2>4. OnTrack' BY <1>0, <1>2 DEF ProjectInv, OnTrack
  <2>5. Loops' BY <1>0, <1>2, <2>c DEF Loops
  <2>6. Standing'
    <3> SUFFICES ASSUME ~Pending' PROVE WorkStands'
      BY <1>0, <1>2 DEF Standing
    <3>1. WorkStands BY <2>d
    <3>2. valid' = ValidRoutes(snap.spec)' BY <1>0, <1>2, <3>1 DEF WorkStands, ValidRoutes
    <3>3. RoutesKept(snap.spec, rst)'
      <4> SUFFICES ASSUME NEW q \in DOMAIN rst, rst[q] = "Ready"
                   PROVE  nats.up /\ q \in DOMAIN streams' /\ streams'[q] = Retention(snap.spec, q)
        BY <1>0, <1>2 DEF RoutesKept
      <4>1. nats.up /\ q \in DOMAIN streams /\ streams[q] = Retention(snap.spec, q)
        BY <3>1 DEF WorkStands, RoutesKept
      <4>2. q # r BY <1>0, <2>c
      <4> QED BY <4>1, <4>2, <1>2 DEF Without, Restrict
    <3>4. cst' = Empty /\ cur' = "" /\ pc' = "stale" BY <1>0, <1>2, <2>c
    <3>5. /\ fresh'
          /\ \A k \in Kinds : pc' \in After(k) =>
               child'[k] = [owner |-> snap'.uid, size |-> Built(k, snap'.spec)]
      BY <1>0, <1>2, <3>1 DEF WorkStands
    <3>6. Running' = Running BY <1>0, RunningKept
    <3>7. CapturedStand' BY <1>0, <1>2, <3>1, <3>6, CapturedLater DEF After
    <3> QED BY <3>2, <3>3, <3>4, <3>5, <3>7, EmptyFacts DEF WorkStands, CachesKept
  <2> QED BY <2>1, <2>2, <2>d, <2>4, <2>5, <2>6 DEF ProjectInv
<1> QED BY <1>1, <1>2 DEF DeleteStream

(* The instances to register with are listed once, from the cache. *)
LEMMA ListInstancesKeeps == ASSUME ProjectInv, ListInstances PROVE ProjectInv'
<1>0. /\ pc = "list" \/ pc = "stale"
      /\ urls' = {o \in Ordinals : podSeen[o]}
      /\ UNCHANGED <<projectVars, outside, queued, snap, fresh, captured, valid, rst, cst, cur, left, bounds>>
  BY DEF ListInstances
<1>a. \/ pc' = "caches" /\ todo' = DOMAIN snap.spec.caches
      \/ /\ pc' = "teardown" /\ DOMAIN snap.spec.caches = {}
         /\ todo' = DOMAIN snap.status.caches \ DOMAIN snap.spec.caches
  BY DEF ListInstances, CachesLeft
<1>c. /\ cst = Empty /\ cur = "" /\ left = {}
      /\ valid => DOMAIN rst = DOMAIN snap.spec.routes
      /\ ~valid => rst = Empty
  BY <1>0 DEF ProjectInv, Loops
<1>d. /\ Copies' /\ FinalizerFirst'
      /\ Pending' <=> Pending
      /\ ~Pending => WorkStands
  BY <1>0, WithinKeeps DEF projectVars, outside
<1>1. Typed'
  BY <1>0, <1>a DEF ProjectInv, Typed, projectVars, outside, bounds, Stages, Provisioning
<1>2. Stored' BY <1>0 DEF ProjectInv, Stored, outside
<1>4. OnTrack' BY <1>0, <1>a DEF ProjectInv, OnTrack, Provisioning
<1>5. Loops'
  <2>1. CASE pc' = "caches" /\ todo' = DOMAIN snap.spec.caches
    BY <2>1, <1>0, <1>c, EmptyFacts DEF Loops
  <2>2. CASE /\ pc' = "teardown" /\ DOMAIN snap.spec.caches = {}
             /\ todo' = DOMAIN snap.status.caches \ DOMAIN snap.spec.caches
    BY <2>2, <1>0, <1>c, EmptyFacts DEF Loops
  <2> QED BY <1>a, <2>1, <2>2
<1>6. Standing'
  <2> SUFFICES ASSUME ~Pending' PROVE WorkStands'
    BY <1>a DEF Standing
  <2>1. WorkStands BY <1>d
  <2>2. valid' = ValidRoutes(snap.spec)' BY <1>0, <2>1 DEF WorkStands, ValidRoutes, outside
  <2>3. \A k \in Kinds : pc \in After(k) BY <1>0 DEF After
  <2>4. /\ fresh'
        /\ \A k \in Kinds : child'[k] = [owner |-> snap'.uid, size |-> Built(k, snap'.spec)]
    BY <2>1, <2>3, <1>0 DEF WorkStands, outside
  <2>5. RoutesKept(snap.spec, rst)' BY <2>1, <1>0 DEF WorkStands, RoutesKept, outside
  <2>6. cst' = Empty /\ cur' = "" BY <1>0, <1>c
  <2>7. urls' = Running'
    <3>1. \A o \in Ordinals : podSeen[o] = inst[o].up
      BY <1>d DEF Pending, ProjectInv, Copies
    <3> QED BY <1>0, <3>1 DEF Running, outside
  <2>8. Running' = Running BY <1>0, RunningKept DEF outside
  <2>9. CapturedStand' BY <1>0, <2>1, <2>8, CapturedLater DEF After, outside
  <2> QED BY <2>2, <2>4, <2>5, <2>6, <2>7, <2>9, EmptyFacts DEF WorkStands, CachesKept
<1> QED BY <1>1, <1>2, <1>d, <1>4, <1>5, <1>6 DEF ProjectInv

(* The entry of a cache is recorded; Ready only when the cache is there. *)
LEMMA RecordKeeps ==
  ASSUME ProjectInv, pc = "caches", NEW c \in DOMAIN snap.spec.caches, NEW phase,
         (cur = "" /\ c \in todo) \/ cur = c,
         Record(c, phase, todo \ {c}),
         phase \in {"Ready", "BucketFailed", "RenderFailed", "PushFailed"},
         UNCHANGED <<projectVars, fit, child, pvc, nats, streams, podSeen, podSynced>>,
         UNCHANGED <<queued, snap, fresh, captured, valid, rst, urls>>,
         events' \in 0 .. MaxEvents, glitched' \in BOOLEAN,
         buckets \subseteq buckets', buckets' # buckets => nats.up,
         inst' \in [Ordinals -> [up : BOOLEAN, reg : {inst'[o].reg : o \in Ordinals}]],
         \A o \in Ordinals : inst'[o].up = inst[o].up,
         \A o \in Ordinals, d \in DOMAIN snap.spec.caches :
           Registered(snap.spec, d, o) => Registered(snap.spec, d, o)',
         ~Pending /\ phase = "Ready" =>
           /\ BucketKept(snap.spec, c)'
           /\ \A o \in Ordinals : inst'[o].up => Registered(snap.spec, c, o)'
  PROVE  ProjectInv'
<1>0. cur' = "" /\ left' = {} BY DEF Record
<1>g. PICK e \in CacheStatus : e.phase = phase /\ cst' = Put(cst, c, e)
  <2> DEFINE kv == snap.spec.caches[c] = "kv"
             e == [phase |-> phase, bucket |-> kv]
  <2>1. cst' = Put(cst, c, e) BY DEF Record
  <2>2. kv \in BOOLEAN OBVIOUS
  <2> HIDE DEF kv
  <2>3. e.phase = phase OBVIOUS
  <2>4. e \in CacheStatus BY <2>2, Zenon DEF CacheStatus
  <2> HIDE DEF e
  <2> QED BY <2>1, <2>3, <2>4
<1>a. \/ pc' = "caches" /\ todo' = todo \ {c}
      \/ /\ pc' = "teardown" /\ todo \ {c} = {}
         /\ todo' = DOMAIN snap.status.caches \ DOMAIN snap.spec.caches
  BY DEF Record, CachesLeft
<1>b. "" \notin DOMAIN snap.spec.caches
  <2>1. snap.spec \in Specs BY DEF ProjectInv, Typed, IsProject
  <2> QED BY <2>1, ProjectBounds
<1>c. /\ todo \subseteq DOMAIN snap.spec.caches
      /\ DOMAIN cst = (DOMAIN snap.spec.caches \ todo) \ {cur}
      /\ cur # "" => cur \in DOMAIN snap.spec.caches \ todo
      /\ urls \subseteq Ordinals
      /\ valid => DOMAIN rst = DOMAIN snap.spec.routes
      /\ ~valid => rst = Empty
  BY DEF ProjectInv, Loops
<1>d. /\ Copies' /\ FinalizerFirst'
      /\ Pending' <=> Pending
      /\ ~Pending => WorkStands
  BY WithinKeeps DEF projectVars
<1>e. /\ DOMAIN cst' = DOMAIN cst \cup {c}
      /\ \A d \in DOMAIN cst : d # c => cst'[d] = cst[d]
      /\ cst'[c] = e
  BY <1>g DEF Put
<1>f. \A d \in DOMAIN cst' : cst'[d] \in CacheStatus
  BY <1>e DEF ProjectInv, Typed
<1>1. Typed' BY <1>a, <1>f DEF ProjectInv, Typed, projectVars, Stages, Provisioning
<1>2. Stored' BY DEF ProjectInv, Stored
<1>4. OnTrack' BY <1>a DEF ProjectInv, OnTrack, Provisioning
<1>5. Loops'
  <2>1. DOMAIN cst' = DOMAIN snap.spec.caches \ (todo \ {c}) BY <1>b, <1>c, <1>e
  <2>2. CASE pc' = "caches" /\ todo' = todo \ {c} BY <2>1, <2>2, <1>0, <1>b, <1>c DEF Loops
  <2>3. CASE /\ pc' = "teardown" /\ todo \ {c} = {}
             /\ todo' = DOMAIN snap.status.caches \ DOMAIN snap.spec.caches
    BY <2>1, <2>3, <1>0, <1>c DEF Loops
  <2> QED BY <1>a, <2>2, <2>3
<1>6. Standing'
  <2> SUFFICES ASSUME ~Pending' PROVE WorkStands'
    BY <1>a DEF Standing
  <2>1. WorkStands /\ ~Pending BY <1>d
  <2>2. valid' = ValidRoutes(snap.spec)' BY <2>1 DEF WorkStands, ValidRoutes
  <2>3. \A k \in Kinds : pc \in After(k) BY DEF After
  <2>4. /\ fresh'
        /\ \A k \in Kinds : child'[k] = [owner |-> snap'.uid, size |-> Built(k, snap'.spec)]
    BY <2>1, <2>3 DEF WorkStands
  <2>5. RoutesKept(snap.spec, rst)' BY <2>1 DEF WorkStands, RoutesKept
  <2>6. Running' = Running BY RunningSame
  <2>7. urls' = Running' BY <2>1, <2>6 DEF WorkStands
  <2>9. CapturedStand' BY <2>1, <2>6, CapturedLater DEF After
  <2>8. CachesKept(snap.spec, cst)'
    <3> SUFFICES ASSUME NEW d \in DOMAIN cst', cst'[d].phase = "Ready"
                 PROVE  /\ BucketKept(snap.spec, d)'
                        /\ \A o \in Ordinals : inst'[o].up => Registered(snap.spec, d, o)'
      BY DEF CachesKept, Registered, BucketKept
    <3>1. CASE d = c
      <4>1. phase = "Ready" BY <1>e, <1>g, <3>1
      <4> QED BY <4>1, <3>1, <2>1
    <3>2. CASE d # c
      <4>1. d \in DOMAIN cst /\ cst[d].phase = "Ready" BY <3>2, <1>e
      <4>2. /\ BucketKept(snap.spec, d)
            /\ \A o \in Ordinals : inst[o].up => Registered(snap.spec, d, o)
        BY <4>1, <2>1 DEF WorkStands, CachesKept
      <4>3. BucketKept(snap.spec, d)' BY <4>2 DEF BucketKept
      <4>4. d \in DOMAIN snap.spec.caches BY <4>1, <1>c
      <4> QED BY <4>2, <4>3, <4>4
    <3> QED BY <3>1, <3>2
  <2> QED BY <1>0, <2>2, <2>4, <2>5, <2>7, <2>8, <2>9 DEF WorkStands
<1> QED BY <1>1, <1>2, <1>d, <1>4, <1>5, <1>6 DEF ProjectInv

(* The push of a cache whose bucket is there begins. *)
LEMMA PushBegins ==
  ASSUME ProjectInv, pc = "caches", cur = "", NEW c \in todo,
         cur' = c, left' = urls, todo' = todo \ {c}, UNCHANGED <<cst, pc>>,
         UNCHANGED <<projectVars, fit, child, pvc, nats, streams, inst, podSeen, podSynced>>,
         UNCHANGED <<queued, snap, fresh, captured, valid, rst, urls>>,
         events' \in 0 .. MaxEvents, glitched' \in BOOLEAN,
         buckets \subseteq buckets', buckets' # buckets => nats.up,
         BucketKept(snap.spec, c)'
  PROVE  ProjectInv'
<1>b. "" \notin DOMAIN snap.spec.caches
  <2>1. snap.spec \in Specs BY DEF ProjectInv, Typed, IsProject
  <2> QED BY <2>1, ProjectBounds
<1>c. /\ todo \subseteq DOMAIN snap.spec.caches
      /\ DOMAIN cst = (DOMAIN snap.spec.caches \ todo) \ {cur}
      /\ urls \subseteq Ordinals
      /\ valid => DOMAIN rst = DOMAIN snap.spec.routes
      /\ ~valid => rst = Empty
  BY DEF ProjectInv, Loops
<1>d. /\ Copies' /\ FinalizerFirst'
      /\ Pending' <=> Pending
      /\ ~Pending => WorkStands
  BY WithinKeeps DEF projectVars
<1>1. Typed' BY DEF ProjectInv, Typed, projectVars
<1>2. Stored' BY DEF ProjectInv, Stored
<1>4. OnTrack' BY DEF ProjectInv, OnTrack
<1>5. Loops'
  <2>1. DOMAIN cst = (DOMAIN snap.spec.caches \ (todo \ {c})) \ {c} BY <1>b, <1>c
  <2>2. c \in DOMAIN snap.spec.caches \ (todo \ {c}) /\ c # "" BY <1>b, <1>c
  <2> QED BY <2>1, <2>2, <1>c DEF Loops
<1>6. Standing'
  <2> SUFFICES ASSUME ~Pending' PROVE WorkStands'
    BY DEF Standing
  <2>1. WorkStands BY <1>d
  <2>2. valid' = ValidRoutes(snap.spec)' BY <2>1 DEF WorkStands, ValidRoutes
  <2>4. /\ fresh'
        /\ \A k \in Kinds : pc' \in After(k) =>
             child'[k] = [owner |-> snap'.uid, size |-> Built(k, snap'.spec)]
    BY <2>1 DEF WorkStands
  <2>5. RoutesKept(snap.spec, rst)' BY <2>1 DEF WorkStands, RoutesKept
  <2>6. Running' = Running BY RunningKept
  <2>7. urls' = Running' BY <2>1, <2>6 DEF WorkStands
  <2>11. CapturedStand' BY <2>1, <2>6, CapturedLater DEF After
  <2>8. CachesKept(snap.spec, cst)'
    <3>1. CachesKept(snap.spec, cst) BY <2>1 DEF WorkStands
    <3>2. \A d : BucketKept(snap.spec, d) => BucketKept(snap.spec, d)' BY DEF BucketKept
    <3>3. \A d, o : Registered(snap.spec, d, o) => Registered(snap.spec, d, o)' BY DEF Registered
    <3> QED BY <3>1, <3>2, <3>3 DEF CachesKept, Registered, BucketKept
  <2>9. BucketKept(snap.spec, cur)' BY DEF BucketKept
  <2>10. urls' \ left' = {} OBVIOUS
  <2> QED BY <2>2, <2>4, <2>5, <2>7, <2>8, <2>9, <2>10, <2>11 DEF WorkStands
<1> QED BY <1>1, <1>2, <1>d, <1>4, <1>5, <1>6 DEF ProjectInv

(* A bucket is made for a cache, or was there. *)
LEMMA EnsureKVKeeps == ASSUME ProjectInv, NEW c, EnsureKV(c) PROVE ProjectInv'
<1> DEFINE kind == snap.spec.caches[c]
           renders == BuildCacheResourceConfig(snap.spec, c) # <<>>
           push == IF urls = {} THEN Record(c, "Ready", todo \ {c})
                   ELSE cur' = c /\ left' = urls /\ todo' = todo \ {c} /\ UNCHANGED <<cst, pc>>
<1>0. /\ pc = "caches" /\ cur = "" /\ c \in todo
      /\ UNCHANGED <<projectVars, fit, child, pvc, nats, streams, inst, podSeen, podSynced>>
      /\ UNCHANGED <<queued, snap, fresh, captured, valid, rst, urls>>
  BY DEF EnsureKV
<1>a. \/ kind = "kv" /\ NatsAnswers /\ buckets' = buckets \cup {c} /\ push
      \/ kind = "kv" /\ NatsFails /\ Record(c, "BucketFailed", todo \ {c}) /\ UNCHANGED buckets
      \/ kind # "kv" /\ ~renders /\ Record(c, "RenderFailed", todo \ {c}) /\ UNCHANGED <<buckets, bounds>>
      \/ kind # "kv" /\ renders /\ push /\ UNCHANGED <<buckets, bounds>>
  BY DEF EnsureKV
<1>b. events' \in 0 .. MaxEvents /\ glitched' \in BOOLEAN
  <2>1. CASE NatsAnswers \/ NatsFails BY <2>1, CallCounted DEF ProjectInv
  <2>2. CASE UNCHANGED bounds BY <2>2, EventCounted DEF ProjectInv
  <2> QED BY <1>a, <2>1, <2>2
<1>c. c \in DOMAIN snap.spec.caches BY <1>0 DEF ProjectInv, Loops
<1>d. /\ inst' \in [Ordinals -> [up : BOOLEAN, reg : {inst'[o].reg : o \in Ordinals}]]
      /\ \A o \in Ordinals : inst'[o].up = inst[o].up
  BY <1>0 DEF ProjectInv, Typed
<1>e. \A o \in Ordinals, d \in DOMAIN snap.spec.caches :
        Registered(snap.spec, d, o) => Registered(snap.spec, d, o)'
  BY <1>0 DEF Registered
<1>f. buckets \subseteq buckets' /\ (buckets' # buckets => nats.up)
  BY <1>a DEF NatsAnswers
<1>1. ASSUME NEW phase \in {"BucketFailed", "RenderFailed", "PushFailed"},
             Record(c, phase, todo \ {c})
      PROVE  ProjectInv'
  BY <1>0, <1>1, <1>b, <1>c, <1>d, <1>e, <1>f, RecordKeeps
<1>2. CASE push /\ BucketKept(snap.spec, c)'
  <2>1. CASE urls = {}
    <3>1. ~Pending => \A o \in Ordinals : ~inst'[o].up
      <4>1. ~Pending => WorkStands BY <1>0 DEF ProjectInv, Standing
      <4> QED BY <4>1, <2>1, <1>0 DEF WorkStands, Running
    <3>2. Record(c, "Ready", todo \ {c}) BY <1>2, <2>1
    <3> QED BY <1>0, <1>2, <1>b, <1>c, <1>d, <1>e, <1>f, <3>1, <3>2, RecordKeeps
  <2>2. CASE urls # {}
    <3>1. cur' = c /\ left' = urls /\ todo' = todo \ {c} /\ UNCHANGED <<cst, pc>> BY <1>2, <2>2
    <3> QED BY <1>0, <1>2, <1>b, <1>f, <3>1, PushBegins
  <2> QED BY <2>1, <2>2
<1>3. CASE kind = "kv" /\ NatsAnswers /\ buckets' = buckets \cup {c} /\ push
  <2>1. BucketKept(snap.spec, c)' BY <1>0, <1>3 DEF BucketKept, NatsAnswers
  <2> QED BY <2>1, <1>2, <1>3
<1>4. CASE kind # "kv" /\ push
  <2>1. BucketKept(snap.spec, c)' BY <1>0, <1>4 DEF BucketKept
  <2> QED BY <2>1, <1>2, <1>4
<1> HIDE DEF push, kind, renders
<1> QED BY <1>a, <1>1, <1>3, <1>4

(* Another registration is made, and no other is lost. *)
LEMMA PushKeeps == ASSUME ProjectInv, NEW o, Push(o) PROVE ProjectInv'
<1> DEFINE kind == snap.spec.caches[cur]
<1>0. /\ cur # "" /\ o \in left
      /\ UNCHANGED <<projectVars, fit, child, pvc, nats, streams, buckets, podSeen, podSynced, bounds>>
  BY DEF Push
<1>a. \/ /\ inst[o].up /\ kind # "refused"
         /\ inst' = [inst EXCEPT ![o].reg = Put(@, cur, BuildCacheResourceConfig(snap.spec, cur))]
         /\ IF left = {o} THEN Record(cur, "Ready", todo)
            ELSE left' = left \ {o} /\ UNCHANGED <<pc, todo, cst, cur>>
         /\ UNCHANGED <<queued, snap, fresh, captured, valid, rst, urls>>
      \/ /\ inst[o].up /\ kind = "refused"
         /\ Record(cur, "PushFailed", todo)
         /\ UNCHANGED <<inst, queued, snap, fresh, captured, valid, rst, urls>>
      \/ ~inst[o].up /\ ReturnRetry /\ UNCHANGED inst
  BY DEF Push
<1> HIDE DEF kind
<1>b. events' \in 0 .. MaxEvents /\ glitched' \in BOOLEAN BY <1>0, EventCounted DEF ProjectInv
<1>c. pc = "caches" BY <1>0 DEF ProjectInv, Loops
<1>d. /\ cur \in DOMAIN snap.spec.caches /\ cur \notin todo /\ todo \ {cur} = todo
      /\ left \subseteq urls /\ urls \subseteq Ordinals /\ o \in Ordinals
      /\ valid => DOMAIN rst = DOMAIN snap.spec.routes
      /\ ~valid => rst = Empty
      /\ todo \subseteq DOMAIN snap.spec.caches
      /\ DOMAIN cst = (DOMAIN snap.spec.caches \ todo) \ {cur}
  BY <1>0, <1>c DEF ProjectInv, Loops
<1>1. CASE ReturnRetry /\ UNCHANGED inst
  <2>1. UNCHANGED projectVars /\ UNCHANGED outside BY <1>0, <1>1 DEF outside
  <2> QED BY <1>1, <1>b, <2>1, RetryKeeps
<1>e. PICK c \in DOMAIN snap.spec.caches : c = cur BY <1>d
<1>2. CASE /\ Record(cur, "PushFailed", todo)
           /\ UNCHANGED <<inst, queued, snap, fresh, captured, valid, rst, urls>>
  <2>1. Record(c, "PushFailed", todo \ {c}) BY <1>2, <1>d, <1>e
  <2>2. /\ inst' \in [Ordinals -> [up : BOOLEAN, reg : {inst'[p].reg : p \in Ordinals}]]
        /\ \A p \in Ordinals : inst'[p].up = inst[p].up
    BY <1>2 DEF ProjectInv, Typed
  <2>3. \A p \in Ordinals, d \in DOMAIN snap.spec.caches :
          Registered(snap.spec, d, p) => Registered(snap.spec, d, p)'
    BY <1>2 DEF Registered
  <2> QED BY <1>0, <1>2, <1>b, <1>c, <1>d, <1>e, <2>1, <2>2, <2>3, RecordKeeps
<1>3. CASE /\ inst' = [inst EXCEPT ![o].reg = Put(@, cur, BuildCacheResourceConfig(snap.spec, cur))]
           /\ IF left = {o} THEN Record(cur, "Ready", todo)
              ELSE left' = left \ {o} /\ UNCHANGED <<pc, todo, cst, cur>>
           /\ UNCHANGED <<queued, snap, fresh, captured, valid, rst, urls>>
  <2> DEFINE body == BuildCacheResourceConfig(snap.spec, c)
             now == Put(inst[o].reg, c, body)
  <2>0. inst \in [Ordinals -> [up : BOOLEAN, reg : {inst[p].reg : p \in Ordinals}]]
    BY DEF ProjectInv, Typed
  <2>1. inst' = [inst EXCEPT ![o].reg = now] BY <1>3, <1>e
  <2>3. /\ c \in DOMAIN now /\ now[c] = body
        /\ \A d \in DOMAIN inst[o].reg : d # c => d \in DOMAIN now /\ now[d] = inst[o].reg[d]
    BY DEF Put
  <2> HIDE DEF now
  <2>2. /\ \A p \in Ordinals : p # o => inst'[p] = inst[p]
        /\ inst'[o].up = inst[o].up /\ inst'[o].reg = now
        /\ \A p \in Ordinals : inst'[p].up = inst[p].up
        /\ inst' \in [Ordinals -> [up : BOOLEAN, reg : {inst'[p].reg : p \in Ordinals}]]
    BY <1>d, <2>0, <2>1
  <2>5. Registered(snap.spec, c, o)'
    BY <2>2, <2>3, <1>3 DEF Registered
  <2>4. ASSUME NEW p \in Ordinals, NEW d \in DOMAIN snap.spec.caches, Registered(snap.spec, d, p)
        PROVE  Registered(snap.spec, d, p)'
    <3>1. CASE p # o BY <3>1, <2>2, <2>4, <1>3 DEF Registered
    <3>2. CASE p = o /\ d = c BY <3>2, <2>5
    <3>3. CASE p = o /\ d # c BY <3>3, <2>2, <2>3, <2>4, <1>3 DEF Registered
    <3> QED BY <3>1, <3>2, <3>3
  <2>6. ~Pending => WorkStands BY <1>c DEF ProjectInv, Standing
  <2>7. CASE left = {o}
    <3>1. Record(c, "Ready", todo \ {c}) BY <1>3, <1>d, <1>e, <2>7
    <3>2. ASSUME ~Pending
          PROVE  /\ BucketKept(snap.spec, c)'
                 /\ \A p \in Ordinals : inst'[p].up => Registered(snap.spec, c, p)'
      <4>1. BucketKept(snap.spec, c)'
        BY <2>6, <3>2, <1>0, <1>3, <1>e DEF WorkStands, BucketKept
      <4>2. ASSUME NEW p \in Ordinals, inst'[p].up PROVE Registered(snap.spec, c, p)'
        <5>1. CASE p = o BY <5>1, <2>5
        <5>2. CASE p # o
          <6>1. p \in urls \ left
            BY <5>2, <4>2, <2>2, <2>6, <2>7, <3>2, <1>c DEF WorkStands, Running
          <6>2. Registered(snap.spec, c, p) BY <6>1, <2>6, <3>2, <1>0, <1>e DEF WorkStands
          <6> QED BY <6>2, <2>4
        <5> QED BY <5>1, <5>2
      <4> QED BY <4>1, <4>2
    <3> QED BY <1>0, <1>3, <1>b, <1>c, <1>d, <1>e, <2>2, <2>4, <3>1, <3>2, RecordKeeps
  <2>8. CASE left # {o}
    <3>0. left' = left \ {o} /\ UNCHANGED <<pc, todo, cst, cur>> BY <1>3, <2>8
    <3>d. /\ Copies' /\ FinalizerFirst'
          /\ Pending' <=> Pending
      BY <1>0, <1>3, <1>c, <2>2, WithinKeeps DEF projectVars
    <3>1. Typed' BY <1>0, <1>3, <1>b, <2>2, <3>0 DEF ProjectInv, Typed, projectVars
    <3>2. Stored' BY <1>0 DEF ProjectInv, Stored
    <3>4. OnTrack' BY <1>3, <3>0 DEF ProjectInv, OnTrack
    <3>5. Loops'
      <4>1. left' \subseteq urls BY <1>d, <3>0
      <4> QED BY <4>1, <1>0, <1>3, <1>c, <1>d, <3>0 DEF Loops
    <3>6. Standing'
      <4> SUFFICES ASSUME ~Pending' PROVE WorkStands'
        BY <1>c, <3>0 DEF Standing
      <4>1. WorkStands BY <2>6, <3>d
      <4>2. valid' = ValidRoutes(snap.spec)' BY <4>1, <1>0, <1>3, <1>c DEF WorkStands, ValidRoutes
      <4>3. /\ fresh'
            /\ \A k \in Kinds : pc' \in After(k) =>
                 child'[k] = [owner |-> snap'.uid, size |-> Built(k, snap'.spec)]
        BY <4>1, <1>0, <1>3, <3>0 DEF WorkStands
      <4>4. RoutesKept(snap.spec, rst)' BY <4>1, <1>0, <1>3 DEF WorkStands, RoutesKept
      <4>0. Running' = Running BY <2>2, RunningSame
      <4>5. urls' = Running' BY <4>0, <4>1, <1>3, <1>c DEF WorkStands
      <4>13. CapturedStand' BY <4>0, <4>1, <1>0, <1>3, <1>c, CapturedLater DEF After
      <4>6. \A d : BucketKept(snap.spec, d) => BucketKept(snap.spec, d)'
        BY <1>0, <1>3 DEF BucketKept
      <4>7. CachesKept(snap.spec, cst)'
        <5> SUFFICES ASSUME NEW d \in DOMAIN cst, cst[d].phase = "Ready"
                     PROVE  /\ BucketKept(snap.spec, d)'
                            /\ \A p \in Ordinals : inst'[p].up => Registered(snap.spec, d, p)'
          BY <3>0 DEF CachesKept, BucketKept, Registered
        <5>1. /\ BucketKept(snap.spec, d)
              /\ \A p \in Ordinals : inst[p].up => Registered(snap.spec, d, p)
          BY <4>1 DEF WorkStands, CachesKept
        <5>2. d \in DOMAIN snap.spec.caches BY <1>d
        <5> QED BY <5>1, <5>2, <4>6, <2>2, <2>4
      <4>8. BucketKept(snap.spec, c)' BY <4>1, <4>6, <1>0, <1>e DEF WorkStands
      <4>9. ASSUME NEW p \in urls' \ left' PROVE Registered(snap.spec, c, p)'
        <5>1. CASE p = o BY <5>1, <2>5
        <5>2. CASE p # o
          <6>1. p \in urls \ left /\ p \in Ordinals BY <5>2, <4>9, <3>0, <1>3, <1>d
          <6>2. Registered(snap.spec, c, p) BY <6>1, <4>1, <1>0, <1>e DEF WorkStands
          <6> QED BY <6>1, <6>2, <2>4
        <5> QED BY <5>1, <5>2
      <4>10. cur' = c BY <3>0, <1>e
      <4>11. BucketKept(snap.spec, cur)' BY <4>8, <4>10 DEF BucketKept
      <4>12. \A p \in urls' \ left' : Registered(snap.spec, cur, p)'
        BY <4>9, <4>10 DEF Registered
      <4> QED BY <4>2, <4>3, <4>4, <4>5, <4>7, <4>11, <4>12, <4>13 DEF WorkStands
    <3> QED BY <3>1, <3>2, <3>d, <3>4, <3>5, <3>6 DEF ProjectInv
  <2> QED BY <2>7, <2>8
<1> QED BY <1>a, <1>1, <1>2, <1>3

(* A bucket that goes is not one of the spec's. *)
LEMMA TeardownKeeps == ASSUME ProjectInv, NEW c, Teardown(c) PROVE ProjectInv'
<1>0. /\ pc = "teardown" /\ c \in todo
      /\ UNCHANGED <<projectVars, fit, child, pvc, nats, streams, inst, podSeen, podSynced>>
  BY DEF Teardown
<1>a. \/ /\ IF snap.status.caches[c].bucket
            THEN NatsAnswers /\ buckets' = buckets \ {c}
            ELSE UNCHANGED <<buckets, bounds>>
         /\ todo' = todo \ {c}
         /\ UNCHANGED <<queued, pc, snap, fresh, captured, valid, rst, cst, urls, cur, left>>
      \/ NatsFails /\ ReturnRetry /\ UNCHANGED buckets
  BY DEF Teardown
<1>1. CASE NatsFails /\ ReturnRetry /\ UNCHANGED buckets
  <2>1. UNCHANGED outside BY <1>0, <1>1 DEF outside
  <2>2. events' \in 0 .. MaxEvents /\ glitched' \in BOOLEAN BY <1>1, CallCounted DEF ProjectInv
  <2> QED BY <1>0, <1>1, <2>1, <2>2, RetryKeeps
<1>2. CASE /\ NatsAnswers \/ UNCHANGED bounds
           /\ buckets' \in {buckets, buckets \ {c}}
           /\ todo' = todo \ {c}
           /\ UNCHANGED <<queued, pc, snap, fresh, captured, valid, rst, cst, urls, cur, left>>
  <2>b. events' \in 0 .. MaxEvents /\ glitched' \in BOOLEAN
    BY <1>2, CallCounted, EventCounted DEF ProjectInv
  <2>c. /\ DOMAIN cst = DOMAIN snap.spec.caches /\ todo \cap DOMAIN snap.spec.caches = {}
        /\ valid => DOMAIN rst = DOMAIN snap.spec.routes
        /\ ~valid => rst = Empty
        /\ cur = "" /\ left = {}
    BY <1>0 DEF ProjectInv, Loops
  <2>d. /\ Copies' /\ FinalizerFirst'
        /\ Pending' <=> Pending
        /\ ~Pending => WorkStands
    BY <1>0, <1>2, WithinKeeps DEF projectVars
  <2>1. Typed' BY <1>0, <1>2, <2>b DEF ProjectInv, Typed, projectVars
  <2>2. Stored' BY <1>0, <1>2 DEF ProjectInv, Stored
  <2>4. OnTrack' BY <1>0, <1>2 DEF ProjectInv, OnTrack
  <2>5. Loops' BY <1>0, <1>2, <2>c DEF Loops
  <2>6. Standing'
    <3> SUFFICES ASSUME ~Pending' PROVE WorkStands'
      BY <1>0, <1>2 DEF Standing
    <3>1. WorkStands BY <2>d
    <3>2. valid' = ValidRoutes(snap.spec)' BY <1>0, <1>2, <3>1 DEF WorkStands, ValidRoutes
    <3>3. RoutesKept(snap.spec, rst)' BY <1>0, <1>2, <3>1 DEF WorkStands, RoutesKept
    <3>4. CachesKept(snap.spec, cst)'
      <4> SUFFICES ASSUME NEW d \in DOMAIN cst, cst[d].phase = "Ready"
                   PROVE  /\ BucketKept(snap.spec, d)'
                          /\ \A p \in Ordinals : inst[p].up => Registered(snap.spec, d, p)'
        BY <1>0, <1>2 DEF CachesKept, BucketKept, Registered
      <4>1. /\ BucketKept(snap.spec, d)
            /\ \A p \in Ordinals : inst[p].up => Registered(snap.spec, d, p)
        BY <3>1 DEF WorkStands, CachesKept
      <4>2. d # c BY <1>0, <2>c
      <4>3. BucketKept(snap.spec, d)' BY <4>1, <4>2, <1>0, <1>2 DEF BucketKept
      <4> QED BY <4>1, <4>3, <1>0, <1>2 DEF Registered
    <3>0. Running' = Running BY <1>0, RunningKept
    <3>5. /\ fresh' /\ cur' = "" /\ urls' = Running'
          /\ \A k \in Kinds : pc' \in After(k) =>
               child'[k] = [owner |-> snap'.uid, size |-> Built(k, snap'.spec)]
      BY <1>0, <1>2, <2>c, <3>0, <3>1 DEF WorkStands
    <3>6. CapturedStand' BY <1>0, <1>2, <3>0, <3>1, CapturedLater DEF After
    <3> QED BY <3>2, <3>3, <3>4, <3>5, <3>6 DEF WorkStands
  <2> QED BY <2>1, <2>2, <2>d, <2>4, <2>5, <2>6 DEF ProjectInv
<1>3. ASSUME IF snap.status.caches[c].bucket
             THEN NatsAnswers /\ buckets' = buckets \ {c}
             ELSE UNCHANGED <<buckets, bounds>>
      PROVE  (NatsAnswers \/ UNCHANGED bounds) /\ buckets' \in {buckets, buckets \ {c}}
  BY <1>3
<1> QED BY <1>a, <1>1, <1>2, <1>3

(* The phase Ready is computed from ready instances, a ready NATS and a      *)
(* valid graph.                                                             *)
LEMMA ReportIsStatus ==
  ASSUME Typed, Loops
  PROVE  /\ StatusOK(Report, snap.gen)
         /\ Report.observed = snap.gen /\ Report.valid = valid /\ Report.nats = natsSeen
         /\ Report.routes = rst /\ Report.caches = cst /\ Report.ready = readySeen
<1> DEFINE ph == Phase(readySeen, snap.spec.instances, natsSeen, valid)
<1>1. Report = [phase |-> ph, valid |-> valid, ready |-> readySeen, nats |-> natsSeen,
                observed |-> snap.gen, routes |-> rst, caches |-> cst]
  BY DEF Report
<1>2. readySeen \in Nat /\ valid \in BOOLEAN BY DEF Typed
<1>3. snap.spec \in Specs /\ snap.gen \in Nat BY DEF Typed, IsProject
<1>4. snap.spec.instances \in 1 .. MaxInstances BY <1>3, ProjectBounds
<1>5. /\ ph = "Ready" => valid /\ natsSeen /\ readySeen >= snap.spec.instances
      /\ ~valid => ph = "Degraded"
  BY DEF Phase
<1>6. readySeen >= snap.spec.instances => readySeen > 0
  BY <1>2, <1>4, BoundsAreNaturals
<1>7. ~valid => DOMAIN rst = {} BY EmptyFacts DEF Loops
<1> HIDE DEF ph
<1>8. /\ Report.observed = snap.gen /\ Report.valid = valid /\ Report.nats = natsSeen
      /\ Report.routes = rst /\ Report.caches = cst /\ Report.phase = ph
      /\ Report.ready = readySeen
  BY <1>1
<1>9. /\ \A r \in DOMAIN rst : rst[r] \in RouteStatus
      /\ \A c \in DOMAIN cst : cst[c] \in CacheStatus
  BY DEF Typed
<1>10. snap.gen <= snap.gen BY <1>3
<1> QED BY <1>3, <1>5, <1>6, <1>7, <1>8, <1>9, <1>10 DEF StatusOK

(* The reconcile ends: it writes what it did, or finds it written, and then  *)
(* nothing changed while it ran.                                            *)
LEMMA WriteStatusKeeps == ASSUME ProjectInv, WriteStatus PROVE ProjectInv'
<1>0. /\ pc = "teardown" /\ UNCHANGED objSeen /\ UNCHANGED outside /\ UNCHANGED bounds
  BY DEF WriteStatus
<1>a. \/ ReturnRetry /\ UNCHANGED <<obj, objSynced>>
      \/ /\ fresh /\ obj' = [snap EXCEPT !.status = Report] /\ objSynced' = FALSE
         /\ Return /\ UNCHANGED queued
      \/ /\ Report = snap.status
         /\ Return /\ UNCHANGED <<obj, objSynced, queued>>
  BY DEF WriteStatus
<1>b. /\ StatusOK(Report, snap.gen)
      /\ Report.observed = snap.gen /\ Report.valid = valid /\ Report.nats = natsSeen
      /\ Report.routes = rst /\ Report.caches = cst /\ Report.ready = readySeen
  BY ReportIsStatus DEF ProjectInv
<1>1. CASE ReturnRetry /\ UNCHANGED <<obj, objSynced>>
  <2>1. UNCHANGED projectVars BY <1>0, <1>1 DEF projectVars
  <2>2. events' \in 0 .. MaxEvents /\ glitched' \in BOOLEAN BY <1>0, EventCounted DEF ProjectInv
  <2> QED BY <1>0, <1>1, <2>1, <2>2, RetryKeeps
<1>2. CASE /\ fresh /\ obj' = [snap EXCEPT !.status = Report] /\ objSynced' = FALSE
           /\ Return /\ UNCHANGED queued
  <2>1. snap = obj BY <1>2 DEF ProjectInv, Copies
  <2>2. /\ obj \in [uid : Nat, gen : Nat, del : BOOLEAN, fin : BOOLEAN, spec : Specs,
                    status : {obj.status}]
        /\ obj.uid <= obj.gen /\ obj.gen <= obj.gen
        /\ obj.uid = 0 => ~obj.fin /\ ~obj.del
        /\ queued \in BOOLEAN
    BY DEF ProjectInv, Typed, IsProject
  <2> DEFINE st == Report
  <2>3. obj' = [obj EXCEPT !.status = st] BY <1>2, <2>1
  <2> HIDE DEF st
  <2>4. /\ obj' \in [uid : Nat, gen : Nat, del : BOOLEAN, fin : BOOLEAN, spec : Specs,
                     status : {st}]
        /\ obj'.uid = obj.uid /\ obj'.gen = obj.gen /\ obj'.fin = obj.fin /\ obj'.del = obj.del
        /\ obj'.status = st
    BY <2>2, <2>3
  <2>5. StatusOK(st, obj'.gen) BY <1>b, <2>1, <2>4 DEF st
  <2>6. IsProject(obj') BY <2>2, <2>4, <2>5 DEF IsProject
  <2>7. FinalizerFirst' BY <1>0, <2>4 DEF ProjectInv, FinalizerFirst, outside
  <2> QED BY <1>0, <1>2, <2>2, <2>4, <2>6, <2>7, WrittenKeeps
<1>3. CASE Report = snap.status /\ Return /\ UNCHANGED <<obj, objSynced, queued>>
  <2>a. /\ OnTrack' /\ Loops'
        /\ pc' = "idle" /\ pc' \in Stages /\ snap' = NoProject /\ fresh' = FALSE /\ valid' = TRUE
        /\ readySeen' = 0 /\ natsSeen' = FALSE
        /\ IsProject(snap')
        /\ snap'.uid = 0 /\ snap'.gen = 0 /\ ~snap'.fin /\ ~snap'.del
        /\ \A r \in DOMAIN rst' : rst'[r] \in RouteStatus
        /\ \A c \in DOMAIN cst' : cst'[c] \in CacheStatus
    BY <1>3, ReturnEnds DEF ProjectInv
  <2>1. Typed' BY <1>0, <1>3, <2>a DEF ProjectInv, Typed, outside, bounds
  <2>2. Stored' BY <1>0 DEF ProjectInv, Stored, outside
  <2>3. Copies'
    <3>1. obj.gen \in Nat /\ obj.uid \in Nat /\ objSeen.gen \in Nat
      BY DEF ProjectInv, Typed, IsProject
    <3>2. Lags(snap)' BY <3>1, <2>a, <1>3 DEF Lags
    <3>3. Lags(objSeen)' BY <1>0, <1>3 DEF ProjectInv, Copies, Lags
    <3> QED BY <3>1, <3>2, <3>3, <1>0, <1>3, <2>a DEF ProjectInv, Copies, outside
  <2>4. FinalizerFirst' BY <1>0, <1>3 DEF ProjectInv, FinalizerFirst, outside
  <2>5. Standing'
    <3> SUFFICES ASSUME ~Pending' PROVE StatusStands'
      BY <2>a DEF Standing
    <3>1. ~Pending BY <1>0, <1>3 DEF Pending, outside
    <3>2. WorkStands BY <1>0, <3>1 DEF ProjectInv, Standing
    <3>3. snap = obj BY <3>2 DEF WorkStands, ProjectInv, Copies
    <3>4. obj.fin BY <1>0, <3>3 DEF ProjectInv, OnTrack, Provisioning
    <3>5. /\ obj.status.observed = obj.gen /\ obj.status.valid = valid
          /\ obj.status.nats = natsSeen /\ obj.status.routes = rst /\ obj.status.caches = cst
          /\ obj.status.ready = readySeen
      BY <1>3, <1>b, <3>3
    <3>a. readySeen = Cardinality(Running) /\ natsSeen = NatsReady
      BY <1>0, <3>2 DEF WorkStands, CapturedStand, After
    <3>6. \A k \in Kinds : child[k] = [owner |-> obj.uid, size |-> Built(k, obj.spec)]
      <4>1. \A k \in Kinds : pc \in After(k) BY <1>0 DEF After
      <4> QED BY <4>1, <3>2, <3>3 DEF WorkStands
    <3>7. /\ valid = ValidRoutes(obj.spec) /\ RoutesKept(obj.spec, rst) /\ CachesKept(obj.spec, cst)
      BY <1>0, <3>2, <3>3 DEF WorkStands
    <3>8. /\ valid => DOMAIN rst = DOMAIN obj.spec.routes
          /\ DOMAIN cst = DOMAIN obj.spec.caches
      BY <1>0, <3>3 DEF ProjectInv, Loops
    <3>9. StatusStands BY <3>4, <3>5, <3>a, <3>6, <3>7, <3>8 DEF StatusStands
    <3>b. Running' = Running BY <1>0, RunningKept DEF outside
    <3> QED BY <3>9, <3>b, <1>0, <1>3
          DEF StatusStands, ValidRoutes, RoutesKept, CachesKept, BucketKept, Registered, NatsReady,
              outside
  <2> QED BY <2>1, <2>2, <2>3, <2>a, <2>4, <2>5 DEF ProjectInv
<1> QED BY <1>a, <1>1, <1>2, <1>3

(* Every step of the reconcile. *)
LEMMA WorkerKeeps == ASSUME ProjectInv, Worker PROVE ProjectInv'
<1>1. CASE \E k \in Kinds : Apply(k) BY <1>1, ApplyKeeps
<1>2. CASE /\ todo # {}
           /\ \/ EnsureStream(First(todo)) \/ DeleteStream(First(todo))
              \/ EnsureKV(First(todo)) \/ Teardown(First(todo))
  <2>1. PICK x : x = First(todo) OBVIOUS
  <2>2. EnsureStream(x) \/ DeleteStream(x) \/ EnsureKV(x) \/ Teardown(x) BY <1>2, <2>1
  <2> QED BY <2>2, EnsureStreamKeeps, DeleteStreamKeeps, EnsureKVKeeps, TeardownKeeps
<1>3. CASE left # {} /\ Push(First(left))
  <2>1. PICK o : o = First(left) OBVIOUS
  <2>2. Push(o) BY <1>3, <2>1
  <2> QED BY <2>2, PushKeeps
<1> QED BY <1>1, <1>2, <1>3, ReconcileKeeps, CleanupKeeps, WriteFinalizerKeeps, ValidateKeeps,
           ListInstancesKeeps, WriteStatusKeeps DEF Worker

(* Every step preserves the invariant. *)
LEMMA StepKeeps == ProjectInv /\ [Next]_vars => ProjectInv'
<1> SUFFICES ASSUME ProjectInv, [Next]_vars PROVE ProjectInv' OBVIOUS
<1>1. CASE UNCHANGED vars
  <2>1. UNCHANGED <<obj, objSeen, objSynced>> /\ UNCHANGED <<fit, child, pvc, nats, streams>>
        /\ UNCHANGED <<buckets, inst, podSeen, podSynced, queued, pc, snap, fresh, captured, todo, valid>>
        /\ UNCHANGED <<rst, cst, urls, cur, left, events, glitched>>
    BY <1>1 DEF vars, projectVars, outside, locals, bounds
  <2>2. Typed' BY <2>1 DEF ProjectInv, Typed
  <2>3. Stored' BY <2>1 DEF ProjectInv, Stored
  <2>4. Copies' BY <2>1 DEF ProjectInv, Copies, Lags
  <2>5. OnTrack' /\ Loops' BY <2>1, ElsewhereKeeps DEF ProjectInv
  <2>6. FinalizerFirst' BY <2>1 DEF ProjectInv, FinalizerFirst
  <2>7. Running' = Running BY <2>1, RunningKept
  <2>8. CapturedStand => CapturedStand' BY <2>1, <2>7, CapturedKept
  <2>9. Standing'
    BY <2>1, <2>7, <2>8
    DEF ProjectInv, Standing, Pending, Live, WorkStands, StatusStands, ValidRoutes, RoutesKept,
        CachesKept, BucketKept, Registered, NatsReady
  <2> QED BY <2>2, <2>3, <2>4, <2>5, <2>6, <2>9 DEF ProjectInv
<1>2. CASE \E o \in Ordinals : PodEvent(o) \/ InstanceStarts(o) \/ InstanceStops(o)
  BY <1>2, PodEventKeeps, InstanceStartsKeeps, InstanceStopsKeeps
<1>3. CASE \E k \in Kinds : Collect(k) BY <1>3, CollectKeeps
<1> QED BY <1>1, <1>2, <1>3, WorkerKeeps, ObjEventKeeps, CallFailsKeeps, CrashKeeps, ClaimMadeKeeps,
           NatsStartsKeeps, NatsStopsKeeps, ClaimGoesKeeps, EditKeeps, DeleteKeeps, RecreateKeeps,
           MoveKeeps DEF Next

(* The invariant holds in every state of every behaviour. *)
LEMMA Invariance == Safety => []ProjectInv
BY InitInv, StepKeeps, PTL DEF Safety

-----------------------------------------------------------------------------
(* Every reachable state is typed, and what a recorded phase means holds of  *)
(* it: Ready was reported of a valid graph, a ready NATS and ready          *)
(* instances, and JetStream's data is on a claim that exists.               *)
THEOREM TypeCorrect == Safety => []TypeOK
<1>1. ProjectInv => TypeOK
  <2> SUFFICES ASSUME ProjectInv PROVE TypeOK OBVIOUS
  <2>1. /\ obj.status.observed <= obj.gen
        /\ obj.status.phase = "Ready" => obj.status.valid /\ obj.status.nats /\ obj.status.ready > 0
        /\ \A r \in DOMAIN obj.status.routes : obj.status.routes[r] \in RouteStatus
        /\ \A c \in DOMAIN obj.status.caches : obj.status.caches[c] \in CacheStatus
    BY DEF ProjectInv, Typed, IsProject, StatusOK
  <2>2. /\ Range(obj.status.routes) \subseteq RouteStatus
        /\ Range(obj.status.caches) \subseteq CacheStatus
    BY <2>1 DEF Range
  <2>3. \A k \in Kinds : child[k].owner <= obj.gen
    <3>1. /\ \A k \in Kinds : child[k].owner \in Nat
          /\ obj.gen \in Nat /\ objSeen.gen \in Nat
      BY DEF ProjectInv, Typed, IsProject
    <3> QED BY <3>1 DEF ProjectInv, Copies, Lags
  <2> QED BY <2>1, <2>2, <2>3 DEF ProjectInv, Typed, Stored, TypeOK
<1> QED BY <1>1, Invariance, PTL

(* Nothing of a project exists before its finalizer does: Apply comes after  *)
(* a copy that had it, and only the end of the project takes it away.       *)
THEOREM FinalizerComesFirst == Safety => []FinalizerFirst
BY Invariance, PTL DEF ProjectInv

(* A controller with nothing left to do has provisioned what its status      *)
(* says, whatever happened before, and has said so of an invalid project.   *)
THEOREM QuietIsProvisioned == Safety => []QuietMeansProvisioned
<1>1. ProjectInv => QuietMeansProvisioned
  <2> SUFFICES ASSUME ProjectInv, Quiet, Live
               PROVE  /\ obj.fin /\ obj.status.observed = obj.gen
                      /\ \A k \in Kinds : child[k] = [owner |-> obj.uid, size |-> Built(k, obj.spec)]
                      /\ RoutesTold /\ CachesTold
                      /\ obj.status.nats = NatsReady
                      /\ obj.status.ready = Cardinality({o \in Ordinals : inst[o].up})
    BY DEF QuietMeansProvisioned
  <2>1. ~Pending /\ pc = "idle" BY DEF Quiet, Pending
  <2>2. StatusStands BY <2>1 DEF ProjectInv, Standing
  <2>0. ~obj.status.valid => obj.status.phase = "Degraded" /\ DOMAIN obj.status.routes = {}
    BY DEF ProjectInv, Typed, IsProject, StatusOK
  <2>3. RoutesTold BY <2>0, <2>2 DEF StatusStands, RoutesKept, RoutesTold
  <2>4. CachesTold BY <2>2 DEF StatusStands, CachesKept, BucketKept, Registered, CachesTold
  <2> QED BY <2>2, <2>3, <2>4 DEF StatusStands, Running
<1> QED BY <1>1, Invariance, PTL

(* Stored messages survive a reconcile that reads a deleted project of the   *)
(* same name: the claim is only deleted under Delete, and never while the   *)
(* project that owns the NATS server is live.                               *)
THEOREM StoredDataIsKept == Safety => DataKept
<1> DEFINE Kept == pvc = "bound" /\ pvc' # "bound" =>
                     /\ ~(Live /\ child["ss"].owner = obj.uid)
                     /\ snap.spec.reclaim = "Delete"
<1>1. ProjectInv /\ [Next]_vars => [Kept]_vars
  <2> SUFFICES ASSUME ProjectInv, Next, pvc = "bound", pvc' # "bound"
               PROVE  ~(Live /\ child["ss"].owner = obj.uid) /\ snap.spec.reclaim = "Delete"
    BY DEF vars, outside
  <2>1. CleanupForDelete
    BY DEF Next, Worker, Reconcile, CleanupForDelete, WriteFinalizer, Validate, ListInstances,
           WriteStatus, Apply, EnsureStream, DeleteStream, EnsureKV, Teardown, Push, ObjEvent,
           CallFails, Crash, PodEvent, InstanceStarts, InstanceStops, ClaimMade, NatsStarts,
           NatsStops, ClaimGoes, Collect, Edit, Delete, Recreate, Move, Write, outside
  <2>2. snap.spec.reclaim = "Delete" /\ pc = "cleanup" BY <2>1 DEF CleanupForDelete
  <2>3. snap.del BY <2>2 DEF ProjectInv, OnTrack
  <2>4. SUFFICES ASSUME obj.uid # 0, ~obj.del, child["ss"].owner = obj.uid PROVE FALSE
    BY <2>2 DEF Live
  <2>5. snap.gen < obj.uid BY <2>3, <2>4 DEF ProjectInv, Copies, Lags
  <2>6. obj.uid <= snap.gen BY <2>2, <2>4 DEF ProjectInv, Copies, Kinds
  <2>7. obj.uid \in Nat /\ snap.gen \in Nat BY DEF ProjectInv, Typed, IsProject
  <2> QED BY <2>5, <2>6, <2>7
<1>2. Safety => [][Kept]_vars BY <1>1, Invariance, PTL DEF Safety
<1> QED BY <1>2 DEF DataKept

=============================================================================
