--------------------------- MODULE ProjectRoutes ---------------------------
(***************************************************************************)
(* The routing table of a PipelineProject: the rules it must satisfy        *)
(* (internal/projectroute), the I/O plan of one member pipeline, and the    *)
(* rewrite of the member's config (internal/render/project_rewrite.go).     *)
(*                                                                          *)
(* A project has a name, routes and cacheResources; a route is a record     *)
(* [name, from, to], to a sequence of [pipeline, when].  The predicate when *)
(* is "" (always deliver), "bad" (not Bloblang) or the kind of the messages *)
(* it keeps.  A name put together from parts is the sequence of its parts:  *)
(* a subject keeps them apart by dots, and a durable, whose parts may hold  *)
(* the dash that joins them, lives in the stream of its one route.          *)
(***************************************************************************)
EXTENDS Naturals, Sequences, SequencesExt, Functions

Subject(project, route) == <<"rpc", project, route>>

(* A slip: the durable is named after the pipeline alone. *)
DurableNameWithoutRoute(project, route, pipeline) == <<project, pipeline>>

DurableName(project, route, pipeline) == <<project, route, pipeline>>

IsProducer(routes, p) == \E i \in DOMAIN routes : routes[i].from = p

IsConsumer(routes, p) ==
  \E i \in DOMAIN routes : \E j \in DOMAIN routes[i].to : routes[i].to[j].pipeline = p

(* What a pipeline looks like to the validation.  A spec has a projectRef    *)
(* and is either raw, with the top-level keys of its YAML, or structured,   *)
(* with the components whose type is set; YAML that is no mapping has none. *)
HasKey(spec, key) == (spec.raw => spec.parses) /\ key \in spec.keys

PipelineView(spec) ==
  [projectName |-> spec.projectRef,
   hasInput |-> HasKey(spec, "input"), hasOutput |-> HasKey(spec, "output")]

Edges(routes) ==
  UNION {{<<r.from, t.pipeline>> : t \in Range(r.to)} : r \in Range(routes)}

(* A graph has a cycle iff some pipelines each feed a pipeline among         *)
(* themselves.  Module FindCycle is the search for one, shown to decide it. *)
Cyclic(edges) ==
  LET sources == {e[1] : e \in edges}
  IN  \E S \in (SUBSET sources) \ {{}} : \A n \in S : \E m \in S : <<n, m>> \in edges

(* findCycle finds one. *)
HasCycle(routes) == Cyclic(Edges(routes))

UniqueNames(routes) ==
  \A i, j \in DOMAIN routes : routes[i].name = routes[j].name => i = j

InProject(project, views, p) ==
  p \in DOMAIN views /\ views[p].projectName = project.name

Resolved(project, views) ==
  \A i \in DOMAIN project.routes :
    LET r == project.routes[i]
    IN  /\ InProject(project, views, r.from)
        /\ \A j \in DOMAIN r.to :
             InProject(project, views, r.to[j].pipeline) /\ r.to[j].when # "bad"

(* A slip: the output of a consumer is checked instead of its input. *)
NoIOConflictSwapped(project, views) ==
  \A p \in DOMAIN views : views[p].projectName = project.name =>
    /\ ~(IsProducer(project.routes, p) /\ views[p].hasOutput)
    /\ ~(IsConsumer(project.routes, p) /\ views[p].hasOutput)

(* The routes own a producer's output and a consumer's input. *)
NoIOConflict(project, views) ==
  \A p \in DOMAIN views : views[p].projectName = project.name =>
    /\ ~(IsProducer(project.routes, p) /\ views[p].hasOutput)
    /\ ~(IsConsumer(project.routes, p) /\ views[p].hasInput)

CachesWellFormed(project) ==
  \A i \in DOMAIN project.cacheResources :
    project.cacheResources[i].natsKV # project.cacheResources[i].config

(* A slip: the graph is not searched for cycles. *)
ValidateProjectAllowsCycles(project, views) ==
  /\ UniqueNames(project.routes)
  /\ Resolved(project, views)
  /\ NoIOConflict(project, views)
  /\ CachesWellFormed(project)

(* ValidateProject returns no error. *)
ValidateProject(project, views) ==
  /\ UniqueNames(project.routes)
  /\ Resolved(project, views)
  /\ NoIOConflict(project, views)
  /\ ~HasCycle(project.routes)
  /\ CachesWellFormed(project)

(* validateProjectRoutes and the REST API's ValidateProject both build the  *)
(* views from every pipeline of the namespace.                              *)
ValidateProjectRoutes(project, specs) ==
  ValidateProject(project, [p \in DOMAIN specs |-> PipelineView(specs[p])])

(* PlanFor: what a member publishes to, by the position of the route, and    *)
(* reads from, by the positions of route and target: the order of the plan  *)
(* is the order of the positions.                                           *)
Outgoing(project, p) ==
  [i \in {i \in DOMAIN project.routes : project.routes[i].from = p} |->
     Subject(project.name, project.routes[i].name)]

Inbound(project, p) ==
  UNION {{<<i, j>> : j \in {j \in DOMAIN project.routes[i].to :
                              project.routes[i].to[j].pipeline = p}} :
         i \in DOMAIN project.routes}

IncomingAt(project, p, k) ==
  LET r == project.routes[k[1]]
  IN  [subject |-> Subject(project.name, r.name),
       durable |-> DurableName(project.name, r.name, p),
       when |-> r.to[k[2]].when]

(* A slip: only the first target of a route is looked at. *)
IncomingFirstTarget(project, p) ==
  [k \in {k \in Inbound(project, p) : k[2] = 1} |-> IncomingAt(project, p, k)]

Incoming(project, p) == [k \in Inbound(project, p) |-> IncomingAt(project, p, k)]

PlanFor(project, p) == [outgoing |-> Outgoing(project, p), incoming |-> Incoming(project, p)]

IsEmpty(plan) == DOMAIN plan.outgoing = {} /\ DOMAIN plan.incoming = {}

(* RenderStreamConfig, as far as the rewrite looks at it: own are the ends   *)
(* the user configured, in and out the NATS inputs and output subjects, and *)
(* filter the processor put in front of the pipeline's own, if any.         *)
Render(spec) ==
  [error |-> spec.raw /\ ~spec.parses,
   own |-> {key \in {"input", "output"} : HasKey(spec, key)},
   in |-> <<>>, out |-> <<>>, filter |-> {}]

(* A slip: the fan-in is not filtered. *)
PredicateProcessorSingleOnly(incoming) ==
  {[kind |-> "mapping", when |-> incoming[k].when] :
     k \in {k \in DOMAIN incoming : DOMAIN incoming = {k} /\ incoming[k].when # ""}}

(* buildPredicateProcessor: nothing, a mapping for a single inbound route,  *)
(* or a switch with one case per filtered inbound route.                    *)
PredicateProcessor(incoming) ==
  LET filtered == {k \in DOMAIN incoming : incoming[k].when # ""}
  IN  IF filtered = {} THEN {}
      ELSE IF \A k, l \in DOMAIN incoming : k = l
      THEN {[kind |-> "mapping", when |-> incoming[k].when] : k \in filtered}
      ELSE {[kind |-> "switch",
             cases |-> [k \in filtered |-> [subject |-> incoming[k].subject,
                                            when |-> incoming[k].when]]]}

(* ApplyProjectIO with buildOutput (one output or a fan_out broker: the     *)
(* subjects), buildInput (one input or a broker: the inputs) and            *)
(* prependProcessor; a side the plan names is replaced.                     *)
ApplyProjectIO(doc, plan) ==
  IF doc.error \/ IsEmpty(plan) THEN doc
  ELSE [error |-> FALSE,
        own |-> doc.own \ ((IF DOMAIN plan.outgoing # {} THEN {"output"} ELSE {}) \cup
                           (IF DOMAIN plan.incoming # {} THEN {"input"} ELSE {})),
        out |-> plan.outgoing,
        in |-> [k \in DOMAIN plan.incoming |-> [subject |-> plan.incoming[k].subject,
                                               durable |-> plan.incoming[k].durable]],
        filter |-> PredicateProcessor(plan.incoming)]

(* handleProjectAssigned: the config a member of the project is deployed    *)
(* with.                                                                    *)
MemberConfig(project, spec, p) == ApplyProjectIO(Render(spec), PlanFor(project, p))

=============================================================================
