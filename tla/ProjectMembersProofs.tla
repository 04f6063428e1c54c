----------------------- MODULE ProjectMembersProofs -----------------------
(***************************************************************************)
(* A project and its member never lose sight of each other, for any set of  *)
(* cache resources, managed or not, and any number of edits and restarts.   *)
(***************************************************************************)
EXTENDS ProjectMembers, TLAPS

(* The flags are Boolean and the steps and phases are the ones there are. *)
Typed ==
  /\ spec \subseteq Caches
  /\ status \in [Caches -> {"Absent", "Ready", "Failed"}]
  /\ applied \in [Caches -> {"Absent", "Ready", "Failed"}]
  /\ pq \in BOOLEAN /\ pfresh \in BOOLEAN /\ hashed \in BOOLEAN /\ mq \in BOOLEAN
  /\ timer \in BOOLEAN /\ ready \in BOOLEAN /\ stream \in BOOLEAN
  /\ nats \in BOOLEAN /\ late \in BOOLEAN
  /\ ppc \in {"idle", "status"}
  /\ mpc \in {"idle", "deployed", "rejected"}
  /\ phase \in {"Unset", "Pending", "Running", "Failed"}
  /\ edits \in Nat /\ restarts \in Nat

(* Entries that tell the truth about the spec and the buckets. *)
Reports(entries) ==
  \A c \in Caches : /\ entries[c] = "Absent" <=> c \notin spec
                    /\ entries[c] = "Failed" => BucketFailed(c)

(* What the project's controller knows, has done and has published.  On an     *)
(* instance that was Ready in time, a cache is registered before the status    *)
(* says so, and stays.                                                         *)
ProjectInv ==
  /\ ~pq /\ ppc = "idle" => Reports(status)
  /\ ~pq /\ ppc = "status" => pfresh /\ Reports(applied)
  /\ ~pq /\ nats => spec \cap Managed \subseteq buckets
  /\ pfresh => ppc = "status"
  /\ ready /\ ~late => /\ status[Needed] = "Ready" => Needed \in registered
                       /\ pfresh /\ applied[Needed] = "Ready" => Needed \in registered

(* What the member's controller will still do.  A refusal that nobody is      *)
(* coming back to was right: the cache was not registered, so no status with  *)
(* it has been written since, or its event would have queued the member.      *)
MemberInv ==
  /\ phase = "Running" <=> hashed
  /\ restarts = 0 /\ (phase = "Running" \/ mpc = "deployed") => stream
  /\ (phase = "Unset" /\ mpc = "idle") => mq
  /\ (phase \in {"Running", "Pending"} /\ mpc = "idle") => mq \/ timer
  /\ (mpc = "rejected" \/ (mpc = "idle" /\ phase = "Failed")) /\ ~mq /\ ~late
       => status[Needed] # "Ready"

Inv == Typed /\ ProjectInv /\ MemberInv

(* Users' edits, the instance's restarts and NATS keep the invariant. *)
LEMMA OutsideKeeps ==
  ASSUME Inv, EditProject \/ Restart \/ Ready \/ NATSReady PROVE Inv'
<1> USE DEF Inv, Typed
<1>1. CASE EditProject
  <2>1. edits' \in Nat /\ spec' \subseteq Caches /\ pq'
    BY <1>1 DEF EditProject
  <2>2. Typed'
    BY <1>1, <2>1 DEF EditProject, instance, kv
  <2>3. ProjectInv'
    BY <1>1 DEF EditProject, instance, kv, ProjectInv
  <2>4. MemberInv'
    BY <1>1 DEF EditProject, instance, kv, MemberInv
  <2> QED BY <2>2, <2>3, <2>4
<1>2. CASE Restart
  <2>1. restarts' \in Nat /\ restarts' # 0
    BY <1>2 DEF Restart
  <2>2. Typed'
    BY <1>2, <2>1 DEF Restart, member, kv
  <2>3. ProjectInv'
    BY <1>2 DEF Restart, member, kv, ProjectInv
  <2>4. MemberInv'
    BY <1>2, <2>1 DEF Restart, member, kv, MemberInv
  <2> QED BY <2>2, <2>3, <2>4
<1>3. CASE Ready
  <2>1. late' \in BOOLEAN
    BY <1>3 DEF Ready
  <2>2. Typed'
    BY <1>3, <2>1 DEF Ready, member, kv
  <2>3. ProjectInv'
    BY <1>3 DEF Ready, member, kv, ProjectInv
  <2>4. MemberInv'
    BY <1>3 DEF Ready, member, kv, MemberInv
  <2> QED BY <2>2, <2>3, <2>4
<1>4. CASE NATSReady
  <2>1. Typed'
    BY <1>4 DEF NATSReady, member, instance
  <2>2. ProjectInv'
    BY <1>4 DEF NATSReady, member, instance, ProjectInv
  <2>3. MemberInv'
    BY <1>4 DEF NATSReady, member, instance, MemberInv
  <2> QED BY <2>1, <2>2, <2>3
<1> QED BY <1>1, <1>2, <1>3, <1>4

(* The project's controller keeps it: the buckets are there and the resources  *)
(* registered before a status lists them, and a new status queues the member.  *)
LEMMA ProjectKeeps ==
  ASSUME Inv, ReconcileCacheResources \/ WriteProjectStatus PROVE Inv'
<1> USE DEF Inv, Typed
<1>1. CASE ReconcileCacheResources
  <2>0. /\ UNCHANGED <<spec, status, member, ready, stream, nats, late, edits, restarts>>
        /\ registered' = IF ready THEN registered \cup {c \in spec : ~BucketFailed(c)}
                         ELSE registered
        /\ ppc = "idle" /\ pq
    BY <1>1 DEF ReconcileCacheResources
  <2>1. CASE LeftOver # {} /\ ~nats /\ UNCHANGED <<pq, ppc, applied, pfresh>>
    <3>1. Typed'
      BY <2>0, <2>1 DEF member
    <3>2. ProjectInv'
      BY <2>0, <2>1 DEF ProjectInv
    <3>3. MemberInv'
      BY <2>0, <2>1 DEF member, MemberInv
    <3> QED BY <3>1, <3>2, <3>3
  <2>2. CASE /\ nats \/ LeftOver = {}
             /\ pq' = FALSE /\ ppc' = "status" /\ pfresh' = TRUE
             /\ applied' = [c \in Caches |-> IF c \notin spec THEN "Absent"
                                             ELSE IF BucketFailed(c) THEN "Failed" ELSE "Ready"]
    <3>1. Typed'
      BY <2>0, <2>2 DEF member
    <3>2. Reports(applied)'
      BY <2>0, <2>2 DEF Reports, BucketFailed
    <3>3. nats => spec \cap Managed \subseteq buckets'
      BY <1>1 DEF ReconcileCacheResources, LeftOver
    <3>4. ready /\ applied'[Needed] = "Ready" => Needed \in registered'
      <4>1. Needed \in Caches
        BY MemberConstants
      <4> QED BY <2>0, <2>2, <4>1
    <3>5. ProjectInv'
      BY <2>0, <2>2, <3>2, <3>3, <3>4 DEF ProjectInv
    <3>6. MemberInv'
      BY <2>0 DEF member, MemberInv
    <3> QED BY <3>1, <3>5, <3>6
  <2> QED BY <1>1, <2>1, <2>2 DEF ReconcileCacheResources
<1>2. CASE WriteProjectStatus
  <2>0. /\ ppc = "status" /\ ppc' = "idle" /\ pfresh' = FALSE
        /\ UNCHANGED <<spec, applied, phase, hashed, timer, mpc, ready, registered, stream,
                       nats, buckets, edits, restarts>>
    BY <1>2 DEF WriteProjectStatus, instance, kv
  <2>1. CASE /\ pfresh /\ status' = applied /\ mq' = (mq \/ applied # status)
             /\ late' = (late /\ applied[Needed] = "Ready") /\ pq' = pq
    <3>1. Typed'
      BY <2>0, <2>1
    <3>2. ~pq => Reports(status)'
      BY <2>0, <2>1 DEF ProjectInv, Reports, BucketFailed
    <3>3. ProjectInv'
      BY <2>0, <2>1, <3>2 DEF ProjectInv
    <3>4. MemberInv'
      BY <2>0, <2>1 DEF MemberInv
    <3> QED BY <3>1, <3>3, <3>4
  <2>2. CASE pq' = TRUE /\ UNCHANGED <<status, mq, late>>
    <3>1. Typed'
      BY <2>0, <2>2
    <3>2. ProjectInv'
      BY <2>0, <2>2 DEF ProjectInv
    <3>3. MemberInv'
      BY <2>0, <2>2 DEF MemberInv
    <3> QED BY <3>1, <3>2, <3>3
  <2> QED BY <1>2, <2>1, <2>2 DEF WriteProjectStatus, RedeploysMembers
<1> QED BY <1>1, <1>2

(* The project's side is kept by a step that leaves it and the instance's      *)
(* caches alone, or queues the project.                                       *)
LEMMA ProjectInvKept ==
  ASSUME ProjectInv, pq \in BOOLEAN, pq => pq',
         UNCHANGED <<spec, status, ppc, applied, pfresh, ready, registered, kv, late>>
  PROVE  ProjectInv'
<1>1. Reports(status) => Reports(status)'
  BY DEF Reports, BucketFailed, kv
<1>2. Reports(applied) => Reports(applied)'
  BY DEF Reports, BucketFailed, kv
<1> QED BY <1>1, <1>2 DEF ProjectInv, kv

(* The member's controller keeps it: a refusal sees the registered caches. *)
LEMMA MemberKeeps ==
  ASSUME Inv, HandleProjectAssigned \/ ReportDeploy \/ TimerFires PROVE Inv'
<1> USE DEF Inv, Typed
<1>1. CASE HandleProjectAssigned
  <2>0. /\ UNCHANGED <<spec, status, ppc, applied, pfresh, ready, registered, kv, late, edits,
                       restarts>>
        /\ mpc = "idle" /\ mq
    BY <1>1 DEF HandleProjectAssigned
  <2>1. CASE ~ready /\ WriteMember("Pending", FALSE, TRUE, FALSE) /\ UNCHANGED stream
    <3>1. Typed' /\ (pq => pq')
      BY <2>0, <2>1 DEF WriteMember, kv
    <3>2. MemberInv'
      BY <2>0, <2>1 DEF WriteMember, MemberInv
    <3> QED BY <2>0, <3>1, <3>2, ProjectInvKept
  <2>2. CASE ready /\ hashed /\ stream /\ WriteMember("Running", TRUE, TRUE, FALSE) /\ UNCHANGED stream
    <3>1. Typed' /\ (pq => pq')
      BY <2>0, <2>2 DEF WriteMember, kv
    <3>2. MemberInv'
      BY <2>0, <2>2 DEF WriteMember, MemberInv
    <3> QED BY <2>0, <3>1, <3>2, ProjectInvKept
  <2>3. CASE /\ ready /\ ~(hashed /\ stream)
             /\ stream' = (Needed \in registered)
             /\ mpc' = (IF stream' THEN "deployed" ELSE "rejected")
             /\ mq' = FALSE
             /\ UNCHANGED <<phase, hashed, timer, pq>>
    <3>1. \/ Needed \in registered /\ stream' = TRUE /\ mpc' = "deployed"
          \/ Needed \notin registered /\ stream' = FALSE /\ mpc' = "rejected"
      <4>1. CASE Needed \in registered
        <5>1. stream' = TRUE
          BY <2>3, <4>1
        <5> QED BY <2>3, <4>1, <5>1
      <4>2. CASE Needed \notin registered
        <5>1. stream' = FALSE
          BY <2>3, <4>2
        <5> QED BY <2>3, <4>2, <5>1
      <4> QED BY <4>1, <4>2
    <3>2. Typed'
      BY <2>0, <2>3, <3>1 DEF kv
    <3>3. MemberInv'
      BY <2>0, <2>3, <3>1 DEF ProjectInv, MemberInv
    <3> QED BY <2>0, <2>3, <3>2, <3>3, ProjectInvKept
  <2> QED BY <1>1, <2>1, <2>2, <2>3 DEF HandleProjectAssigned
<1>2. CASE ReportDeploy
  <2>1. UNCHANGED <<spec, status, ppc, applied, pfresh, instance, kv, late, edits, restarts>>
    BY <1>2 DEF ReportDeploy
  <2>2. Typed' /\ (pq => pq')
    BY <1>2 DEF ReportDeploy, WriteMember, instance, kv
  <2>3. MemberInv'
    <3>1. CASE mpc = "deployed" /\ WriteMember("Running", TRUE, TRUE, mq)
      BY <2>1, <3>1 DEF WriteMember, instance, MemberInv
    <3>2. CASE mpc = "rejected" /\ WriteMember("Failed", FALSE, FALSE, mq)
      BY <2>1, <3>2 DEF WriteMember, instance, MemberInv
    <3> QED BY <1>2, <3>1, <3>2 DEF ReportDeploy
  <2> QED BY <2>1, <2>2, <2>3, ProjectInvKept DEF instance
<1>3. CASE TimerFires
  <2>1. /\ timer' = FALSE /\ mq' = TRUE
        /\ UNCHANGED <<spec, status, pq, ppc, applied, pfresh, phase, hashed, mpc, ready,
                       registered, stream, kv, late, edits, restarts>>
    BY <1>3 DEF TimerFires, project, instance
  <2>2. Typed'
    BY <2>1 DEF kv
  <2>3. MemberInv'
    BY <2>1 DEF MemberInv
  <2> QED BY <2>1, <2>2, <2>3, ProjectInvKept
<1> QED BY <1>1, <1>2, <1>3

(* The invariant holds throughout. *)
LEMMA InvAlways == Spec => []Inv
<1>1. Init => Inv
  <2> SUFFICES ASSUME Init PROVE Inv
    OBVIOUS
  <2>0. Needed \in Caches
    BY MemberConstants
  <2>1. Typed
    BY DEF Init, Typed
  <2>2. ProjectInv /\ MemberInv
    BY DEF Init, ProjectInv, MemberInv
  <2> QED BY <2>1, <2>2 DEF Inv
<1>2. Inv /\ [Next]_vars => Inv'
  <2> SUFFICES ASSUME Inv, [Next]_vars PROVE Inv'
    OBVIOUS
  <2>1. CASE UNCHANGED vars
    <3>1. Typed' /\ MemberInv'
      BY <2>1 DEF vars, project, member, instance, kv, Inv, Typed, MemberInv
    <3>2. ProjectInv'
      BY <2>1, ProjectInvKept DEF vars, project, instance, Inv, Typed
    <3> QED BY <3>1, <3>2 DEF Inv
  <2> QED BY <2>1, OutsideKeeps, ProjectKeeps, MemberKeeps DEF Next
<1> QED BY <1>1, <1>2, PTL DEF Spec

(* Two controllers with nothing left to do have not lost sight of the member:  *)
(* it waits for its resync, runs with its bucket there, or was refused for a   *)
(* cache the project lacks, unless its instance became Ready after the         *)
(* project's status had reported the cache.                                   *)
THEOREM MembersAreServed == Spec => []QuietMemberServed
<1>1. Inv => QuietMemberServed
  <2> SUFFICES ASSUME Inv, ~pq, ppc = "idle", ~mq, mpc = "idle"
               PROVE  \/ phase = "Pending" /\ timer
                      \/ /\ phase = "Running" /\ timer
                         /\ stream \/ restarts > 0
                         /\ nats /\ Needed \in spec \cap Managed => Needed \in buckets
                      \/ phase = "Failed" /\ (Needed \notin spec \/ BucketFailed(Needed) \/ late)
    BY DEF QuietMemberServed
  <2> USE DEF Inv, Typed
  <2>0. Reports(status) /\ Needed \in Caches
    BY MemberConstants DEF ProjectInv
  <2>1. CASE phase = "Running"
    BY <2>1 DEF ProjectInv, MemberInv
  <2>2. CASE phase = "Pending"
    BY <2>2 DEF MemberInv
  <2>3. CASE phase = "Failed"
    <3>1. late \/ status[Needed] # "Ready"
      BY <2>3 DEF MemberInv
    <3>2. status[Needed] = "Absent" => Needed \notin spec
      BY <2>0 DEF Reports
    <3>3. status[Needed] = "Failed" => BucketFailed(Needed)
      BY <2>0 DEF Reports
    <3> QED BY <2>0, <2>3, <3>1, <3>2, <3>3
  <2> QED BY <2>1, <2>2, <2>3 DEF MemberInv
<1> QED BY <1>1, InvAlways, PTL

===========================================================================
