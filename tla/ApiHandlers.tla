---------------------------- MODULE ApiHandlers ----------------------------
(***************************************************************************)
(* The writing handlers of the REST API (internal/api/handlers_pipelines.go,*)
(* handlers_clusters.go, handlers_projects.go): create, update, delete,     *)
(* stop and run, each a few calls to the Kubernetes API with other requests *)
(* and the controllers' status writes between them.  One namespace holds    *)
(* one pipeline, one cluster and one project, which come and go.            *)
(*                                                                          *)
(* The API server is external: it checks resource versions of updates, and  *)
(* patches and deletes by name.  Requests that the mux refuses, and bodies  *)
(* that do not decode, change nothing and are left out.                     *)
(***************************************************************************)
EXTENDS Naturals

CONSTANTS
  Requests,       \* slots for requests in flight
  PipelineSpecs,  \* bodies: [stopped, projectRef, clusterRef, raw, input, output,
                  \* labels, secrets]
  AuthEnabled,    \* Modes B and C; Mode A when FALSE
  MaxVersion      \* bound on resource versions

ASSUME ApiConstants == AuthEnabled \in BOOLEAN /\ MaxVersion \in Nat

(* What decodes into a PipelineSpec, as far as ValidatePipeline tells apart. *)
ASSUME BodiesAreTyped ==
  /\ PipelineSpecs # {}
  /\ PipelineSpecs \subseteq
       [stopped : BOOLEAN, projectRef : BOOLEAN, clusterRef : BOOLEAN, labels : BOOLEAN,
        raw : {"", "parses", "broken"}, input : {"", "known", "unknown"},
        output : {"", "known", "unknown"}, secrets : {"ok", "incomplete", "duplicate"}]

VARIABLES
  obj,     \* per kind the object: [rv, spec], rv 0 when absent
  seen,    \* per kind its copy in the manager's cache
  last,    \* the last resource version given out
  pc, op,  \* per request its step, and [verb, kind, body]
  cur      \* the object that its Get returned

vars == <<obj, seen, last, pc, op, cur>>

Kinds == {"pipeline", "cluster", "project"}

(* A cluster's spec does not matter here; of a project's, whether it has a   *)
(* route that names the pipeline.  Specs(k): what may be stored.            *)
Bodies(k) ==
  CASE k = "pipeline" -> PipelineSpecs [] k = "cluster" -> {1, 2} [] k = "project" -> BOOLEAN
Specs(k) ==
  IF k = "pipeline" THEN {[s EXCEPT !.stopped = b] : s \in PipelineSpecs, b \in BOOLEAN}
  ELSE Bodies(k)
Absent(k) == [rv |-> 0, spec |-> CHOOSE s \in Bodies(k) : TRUE]
NoOp == [verb |-> "none", kind |-> "cluster", body |-> 1]

(* ValidatePipeline.  Raw YAML must parse; otherwise processors have labels  *)
(* and the types of both ends are known, or, in a project only, left out,   *)
(* whether or not a route stands in for them.  Secret references are        *)
(* complete and their variables distinct.                                   *)
ValidatePipeline(s) ==
  /\ ~(s.projectRef /\ s.clusterRef)
  /\ s.secrets = "ok"
  /\ IF s.raw # "" THEN s.raw = "parses"
     ELSE /\ s.labels
          /\ {s.input, s.output} \subseteq (IF s.projectRef THEN {"", "known"} ELSE {"known"})

(* Of the rules for a route graph, that its pipeline is one of the project's. *)
GraphValid(routed, pipeline) == routed => pipeline.rv # 0 /\ pipeline.spec.projectRef

(* clientForRequest: without authentication the manager's client, which      *)
(* reads from its cache; otherwise the caller's own, which does not.        *)
Read(k) == IF AuthEnabled THEN obj[k] ELSE seen[k]

Init ==
  /\ obj = [k \in Kinds |-> Absent(k)] /\ seen = obj
  /\ last = 0
  /\ pc = [t \in Requests |-> "idle"]
  /\ op = [t \in Requests |-> NoOp]
  /\ cur = [t \in Requests |-> Absent("cluster")]

Goto(t, p) == pc' = [pc EXCEPT ![t] = p]

Answer(t) ==
  /\ Goto(t, "idle")
  /\ op' = [op EXCEPT ![t] = NoOp] /\ cur' = [cur EXCEPT ![t] = Absent("cluster")]

(* A request whose body passes ValidatePipeline, if it is a pipeline. *)
Receive(t, verb, k, body) ==
  /\ pc[t] = "idle"
  /\ k = "pipeline" /\ verb \in {"create", "update"} => ValidatePipeline(body)
  /\ op' = [op EXCEPT ![t] = [verb |-> verb, kind |-> k, body |-> body]]
  /\ Goto(t, IF verb # "create" THEN "get" ELSE IF k = "project" THEN "check" ELSE "write")
  /\ UNCHANGED <<obj, seen, last, cur>>

(* One action per route of the mux that writes. *)
HandleCreate(t) == \E b \in Bodies("pipeline") : Receive(t, "create", "pipeline", b)
HandleUpdate(t) == \E b \in Bodies("pipeline") : Receive(t, "update", "pipeline", b)
HandleDelete(t) == Receive(t, "delete", "pipeline", Absent("pipeline").spec)
HandleStop(t) == Receive(t, "stop", "pipeline", Absent("pipeline").spec)
HandleRun(t) == Receive(t, "run", "pipeline", Absent("pipeline").spec)
HandleCreateCluster(t) == \E b \in Bodies("cluster") : Receive(t, "create", "cluster", b)
HandleUpdateCluster(t) == \E b \in Bodies("cluster") : Receive(t, "update", "cluster", b)
HandleDeleteCluster(t) == Receive(t, "delete", "cluster", Absent("cluster").spec)
HandleCreateProject(t) == \E b \in Bodies("project") : Receive(t, "create", "project", b)
HandleUpdateProject(t) == \E b \in Bodies("project") : Receive(t, "update", "project", b)
HandleDeleteProject(t) == Receive(t, "delete", "project", Absent("project").spec)

(* A slip: the answer of the Get is not checked. *)
GetUnchecked(t) ==
  /\ pc[t] = "get"
  /\ LET k == op[t].kind IN
       /\ cur' = [cur EXCEPT ![t] = Read(k)]
       /\ Goto(t, IF k = "project" /\ op[t].verb = "update" THEN "check" ELSE "write")
  /\ UNCHANGED <<obj, seen, last, op>>

(* Every handler but create reads the object first. *)
Get(t) ==
  /\ pc[t] = "get"
  /\ LET k == op[t].kind IN
       IF Read(k).rv = 0 THEN Answer(t)
       ELSE /\ cur' = [cur EXCEPT ![t] = Read(k)]
            /\ Goto(t, IF k = "project" /\ op[t].verb = "update" THEN "check" ELSE "write")
            /\ UNCHANGED op
  /\ UNCHANGED <<obj, seen, last>>

(* validateProjectGraph: the pipelines of the namespace are listed. *)
ValidateProjectGraph(t) ==
  /\ pc[t] = "check"
  /\ IF GraphValid(op[t].body, Read("pipeline")) THEN Goto(t, "write") /\ UNCHANGED <<op, cur>>
     ELSE Answer(t)
  /\ UNCHANGED <<obj, seen, last>>

(* The object gets a new version, unless nothing in it changes. *)
Store(k, spec) ==
  IF obj[k].rv # 0 /\ obj[k].spec = spec THEN UNCHANGED <<obj, last>>
  ELSE /\ last < MaxVersion /\ last' = last + 1
       /\ obj' = [obj EXCEPT ![k] = [rv |-> last + 1, spec |-> spec]]

Touch(k) == last < MaxVersion /\ last' = last + 1 /\ obj' = [obj EXCEPT ![k].rv = last + 1]
Gone(k) == obj' = [obj EXCEPT ![k] = Absent(k)] /\ UNCHANGED last

(* A slip: the update is sent without a resource version. *)
WriteUnversioned(t) ==
  /\ pc[t] = "write"
  /\ LET k == op[t].kind
         verb == op[t].verb
         there == obj[k].rv # 0
     IN  \/ verb = "create" /\ ~there /\ Store(k, op[t].body)
         \/ verb = "update" /\ there /\ Store(k, op[t].body)
         \/ verb = "delete" /\ there /\ (Gone(k) \/ Touch(k))
         \/ verb \in {"stop", "run"} /\ there /\ Store(k, [obj[k].spec EXCEPT !.stopped = verb = "stop"])
         \/ (verb = "create") = there /\ UNCHANGED <<obj, last>>
  /\ Answer(t)
  /\ UNCHANGED seen

(* The call that writes: Create fails on an object that exists, Update on    *)
(* any version but the one that was read, Delete and the merge patch of     *)
(* stop and run only on an object that is gone.  A deleted object with      *)
(* finalizers stays, marked, until they are removed.                        *)
Write(t) ==
  /\ pc[t] = "write"
  /\ LET k == op[t].kind
         verb == op[t].verb
         there == obj[k].rv # 0
         fits == there /\ (verb = "update" => obj[k].rv = cur[t].rv)
     IN  \/ verb = "create" /\ ~there /\ Store(k, op[t].body)
         \/ verb = "update" /\ fits /\ Store(k, op[t].body)
         \/ verb = "delete" /\ there /\ (Gone(k) \/ Touch(k))
         \/ verb \in {"stop", "run"} /\ there /\ Store(k, [obj[k].spec EXCEPT !.stopped = verb = "stop"])
         \/ (verb = "create") = fits /\ UNCHANGED <<obj, last>>
  /\ Answer(t)
  /\ UNCHANGED seen

(* A controller writes the object's status or its finalizers. *)
StatusWrite(k) ==
  /\ obj[k].rv # 0 /\ Touch(k)
  /\ UNCHANGED <<seen, pc, op, cur>>

(* Its last finalizer goes, or another client deletes it. *)
Removed(k) ==
  /\ obj[k].rv # 0 /\ Gone(k)
  /\ UNCHANGED <<seen, pc, op, cur>>

(* The manager's cache catches up. *)
CacheEvent(k) ==
  /\ seen[k] # obj[k]
  /\ seen' = [seen EXCEPT ![k] = obj[k]]
  /\ UNCHANGED <<obj, last, pc, op, cur>>

Next ==
  \/ \E t \in Requests :
       \/ HandleCreate(t) \/ HandleUpdate(t) \/ HandleDelete(t) \/ HandleStop(t) \/ HandleRun(t)
       \/ HandleCreateCluster(t) \/ HandleUpdateCluster(t) \/ HandleDeleteCluster(t)
       \/ HandleCreateProject(t) \/ HandleUpdateProject(t) \/ HandleDeleteProject(t)
       \/ Get(t) \/ ValidateProjectGraph(t) \/ Write(t)
  \/ \E k \in Kinds : StatusWrite(k) \/ Removed(k) \/ CacheEvent(k)

Safety == Init /\ [][Next]_vars

-----------------------------------------------------------------------------
TypeOK ==
  /\ last \in 0 .. MaxVersion
  /\ \A k \in Kinds : /\ obj[k].rv \in 0 .. last /\ obj[k].spec \in Specs(k)
                      /\ seen[k].rv \in 0 .. last /\ seen[k].spec \in Specs(k)
  /\ \A t \in Requests :
       /\ pc[t] \in {"idle", "get", "check", "write"}
       /\ pc[t] # "idle" => op[t].kind \in Kinds /\ op[t].body \in Bodies(op[t].kind)
       /\ pc[t] = "write" /\ op[t].verb # "create" =>
            cur[t].rv \in 1 .. last /\ cur[t].spec \in Specs(op[t].kind)

(* An update is atomic from its Get to its Update: it replaces a spec only   *)
(* when its Get returned that very spec, whatever stops, runs, edits,       *)
(* deletions and recreations came in between and however old the cache it   *)
(* read.  (The body itself carries no version, so a client may still send a *)
(* spec made from an older copy than the one the handler gets.)             *)
ReplacesWhatItRead ==
  [][\A t \in Requests :
       pc[t] = "write" /\ pc'[t] = "idle" /\ op[t].verb = "update"
         /\ obj'[op[t].kind].spec # obj[op[t].kind].spec
       => cur[t].spec = obj[op[t].kind].spec]_vars

=============================================================================
