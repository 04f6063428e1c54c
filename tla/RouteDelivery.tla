--------------------------- MODULE RouteDelivery ---------------------------
(***************************************************************************)
(* A project at work: every member runs the config the operator rewrote for *)
(* it, whether the routes are valid or not, and messages travel through the *)
(* streams of the routes, which are provisioned only when they are.         *)
(* Redpanda Connect and JetStream are external and modelled by what the     *)
(* config asks of them: an output of several subjects publishes to each, an *)
(* input delivers every message of its subject that its durable has not     *)
(* acknowledged, a mapping deletes what its predicate rejects, a switch     *)
(* runs its first case whose check holds and passes on what matches none.   *)
(* A message is acknowledged after it was forwarded, so a restart in        *)
(* between delivers it again.                                               *)
(***************************************************************************)
EXTENDS ProjectRoutes, FiniteSets

CONSTANTS
  Pipelines,    \* the pipelines of the namespace
  Namespaces,   \* what users may write: [project, specs : Pipelines -> spec]
  Kinds         \* the kinds of message a predicate tells apart

(* A namespace has a spec per pipeline, and the targets of a route are a     *)
(* list.                                                                    *)
ASSUME NamespacesAreTyped ==
  \A n \in Namespaces :
    /\ DOMAIN n.specs = Pipelines
    /\ \A i \in DOMAIN n.project.routes : DOMAIN n.project.routes[i].to \subseteq Nat

VARIABLES
  project, specs,   \* what the users wrote, then fixed
  stream,           \* per subject, the messages of the stream that holds it
  acked,            \* per durable, the messages acknowledged on it
  got               \* per pipeline, the messages past its predicate

vars == <<project, specs, stream, acked, got>>

RouteNames == {project.routes[i].name : i \in DOMAIN project.routes}

Subjects == {Subject(project.name, r) : r \in RouteNames}

Durables == {DurableName(project.name, r, p) : r \in RouteNames, p \in Pipelines}

Messages == UNION {stream[s] : s \in Subjects}

Config(p) == MemberConfig(project, specs[p], p)

(* handleProjectAssigned does not ask whether the routes are valid. *)
Deployed(p) == specs[p].projectRef = project.name /\ ~Config(p).error

(* reconcileRouteStreams has run: an invalid table is reported instead, as   *)
(* RoutesValid = False and phase Degraded.                                  *)
Provisioned == ValidateProjectRoutes(project, specs)

Init ==
  /\ \E n \in Namespaces : project = n.project /\ specs = n.specs
  /\ stream = [s \in Subjects |-> {}]
  /\ acked = [d \in Durables |-> {}]
  /\ got = [p \in Pipelines |-> {}]

(* The Connect output of p: m goes to every subject of a rewritten output.   *)
Publish(p, m) ==
  stream' = [s \in Subjects |->
    IF s \in Range(Config(p).out)
    THEN stream[s] \cup {[kind |-> m.kind, via |-> Append(m.via, s)]}
    ELSE stream[s]]

(* The positions k and l of the plan in its order. *)
NoLater(k, l) == k[1] < l[1] \/ (k[1] = l[1] /\ k[2] <= l[2])

(* Does m, read from subject, get past the filter the rewrite put in front   *)
(* of p's own processors?                                                   *)
Passes(p, subject, m) ==
  \A proc \in Config(p).filter :
    LET hits == {c \in DOMAIN proc.cases : proc.cases[c].subject = subject}
    IN  IF proc.kind = "mapping" THEN proc.when = m.kind
        ELSE hits # {} =>
               \E c \in hits : (\A d \in hits : NoLater(c, d)) /\ proc.cases[c].when = m.kind

(* A pipeline no route feeds produces a message of its own; JetStream takes  *)
(* it when the subject has a stream.  Bound: one behaviour carries messages  *)
(* of one kind, since none waits for another.                               *)
Produce(p, kind) ==
  /\ Deployed(p) /\ Provisioned
  /\ \A m \in Messages : m.kind = kind
  /\ DOMAIN Config(p).in = {}
  /\ Publish(p, [kind |-> kind, via |-> <<>>])
  /\ UNCHANGED <<project, specs, acked, got>>

(* Input i of p takes message m; with ack FALSE p restarts before the ack.   *)
Consume(p, i, m, ack) ==
  LET input == Config(p).in[i]
  IN  /\ m \in stream[input.subject] \ acked[input.durable]
      /\ acked' = [acked EXCEPT ![input.durable] = @ \cup (IF ack THEN {m} ELSE {})]
      /\ IF Passes(p, input.subject, m)
         THEN /\ got' = [got EXCEPT ![p] = @ \cup {m}]
              /\ Publish(p, m)
         ELSE UNCHANGED <<got, stream>>
      /\ UNCHANGED <<project, specs>>

Next ==
  \/ \E p \in Pipelines, kind \in Kinds : Produce(p, kind)
  \/ \E p \in Pipelines :
       /\ Deployed(p)
       /\ \E i \in DOMAIN Config(p).in, ack \in BOOLEAN :
            \E m \in stream[Config(p).in[i].subject] : Consume(p, i, m, ack)

Spec == Init /\ [][Next]_vars

TypeOK ==
  /\ DOMAIN specs = Pipelines
  /\ \A s \in Subjects : \A m \in stream[s] : m.kind \in Kinds /\ Last(m.via) = s
  /\ \A r \in RouteNames, p \in Pipelines :
       acked[DurableName(project.name, r, p)] \subseteq stream[Subject(project.name, r)]
  /\ \A p \in Pipelines : got[p] \subseteq Messages

(* Whether the table sends m, published on subject s, to pipeline p. *)
RoutedTo(p, s, m) ==
  \E i \in DOMAIN project.routes :
    /\ Subject(project.name, project.routes[i].name) = s
    /\ \E j \in DOMAIN project.routes[i].to :
         LET t == project.routes[i].to[j] IN t.pipeline = p /\ t.when \in {"", m.kind}

(* What the routes say is what the rewritten configs do: a pipeline gets a   *)
(* message only when its route lists it with a predicate that keeps the     *)
(* message (plan, input, predicate processor of project_rewrite.go).        *)
DeliveredAsRouted ==
  \A p \in Pipelines : \A m \in got[p] : RoutedTo(p, Last(m.via), m)

ListedOnce(p, s) ==
  \A i \in DOMAIN project.routes : Subject(project.name, project.routes[i].name) = s =>
    \A j, k \in DOMAIN project.routes[i].to :
      project.routes[i].to[j].pipeline = p /\ project.routes[i].to[k].pipeline = p => j = k

(* And nothing a route sends is lost: once a target has acknowledged a       *)
(* message of a route it was delivered to it, or its predicate rejected it; *)
(* every target has an input of its own, with its own durable.  The one     *)
(* exception is a pipeline that a route lists twice: both inputs share the  *)
(* durable, and the first predicate decides for both.                       *)
NothingLost ==
  \A p \in Pipelines, s \in Subjects : \A m \in stream[s] :
    RoutedTo(p, s, m) /\ ListedOnce(p, s) /\ Deployed(p) =>
      \/ m \in got[p]
      \/ \E i \in DOMAIN Config(p).in :
           /\ Config(p).in[i].subject = s
           /\ m \notin acked[Config(p).in[i].durable]

(* The cycle rule keeps messages from circulating: none passes a route       *)
(* twice, so what a project produces comes to rest.                         *)
NoLoop ==
  \A m \in Messages : \A i, j \in DOMAIN m.via : m.via[i] = m.via[j] => i = j

(* An input or output of the user's is never replaced in silence.  The       *)
(* rewrite overwrites the key without looking (project_rewrite.go), and      *)
(* members are deployed without asking for the validation; so whatever the   *)
(* rewrite replaces, in whatever shape the config has it, must be a conflict *)
(* that makes the controller report the routes as invalid.                  *)
UserIOReported ==
  \A p \in Pipelines :
    Deployed(p) /\ Config(p).own # Render(specs[p]).own => ~Provisioned

=============================================================================
