------------------------ MODULE RouteDeliveryProofs ------------------------
(***************************************************************************)
(* What the config rewrite and the validation promise about the messages of *)
(* a project, for every set of pipelines, every routing table and every     *)
(* kind of message.  The argument has two halves: what the rewritten  *)
(* config of a member says (Wiring, PassedIsRouted, RoutedPasses), and an   *)
(* invariant of the messages under way (RouteInv).                          *)
(***************************************************************************)
EXTENDS RouteDelivery, SequenceTheorems, TLAPS

SubjectAt(i) == Subject(project.name, project.routes[i].name)

(* The routes are valid: the streams are there. *)
Accepted ==
  /\ DOMAIN specs = Pipelines
  /\ \A i \in DOMAIN project.routes : DOMAIN project.routes[i].to \subseteq Nat
  /\ ValidateProjectRoutes(project, specs)

Domains ==
  DOMAIN stream = Subjects /\ DOMAIN acked = Durables /\ DOMAIN got = Pipelines

(* The route of subject s lists a pipeline that the route of subject t       *)
(* starts from.                                                             *)
Feeds(s, t) ==
  \E i, j \in DOMAIN project.routes :
    /\ SubjectAt(i) = s /\ SubjectAt(j) = t
    /\ <<project.routes[i].from, project.routes[j].from>> \in Edges(project.routes)

(* A message records the subjects it passed, the last the one it is on, and  *)
(* each route on its way feeds the next.                                    *)
Travels(m, s) ==
  /\ m.kind \in Kinds
  /\ m.via \in Seq(Subjects) /\ Len(m.via) # 0 /\ m.via[Len(m.via)] = s
  /\ \A k \in 1..Len(m.via) : k # Len(m.via) => Feeds(m.via[k], m.via[k + 1])

Traced == \A s \in Subjects : \A m \in stream[s] : Travels(m, s)

(* Only what is in a stream is acknowledged or received. *)
FromStream ==
  /\ \A r \in RouteNames, p \in Pipelines :
       acked[DurableName(project.name, r, p)] \subseteq stream[Subject(project.name, r)]
  /\ \A p \in Pipelines : got[p] \subseteq Messages

(* The inductive invariant of a project whose routes are valid. *)
RouteInv ==
  Accepted /\ Domains /\ Traced /\ FromStream /\ DeliveredAsRouted /\ NothingLost

(* And of one whose routes are not: no stream, no message. *)
Idle ==
  /\ DOMAIN specs = Pipelines /\ ~Provisioned
  /\ \A s \in Subjects : stream[s] = {}
  /\ \A d \in Durables : acked[d] = {}
  /\ \A p \in Pipelines : got[p] = {}

-----------------------------------------------------------------------------
(* The rewritten config. *)

(* The positions of the plan are the targets that name the pipeline. *)
LEMMA InboundIs ==
  ASSUME NEW p, NEW k
  PROVE  k \in Inbound(project, p) <=>
           \E i \in DOMAIN project.routes : \E j \in DOMAIN project.routes[i].to :
             project.routes[i].to[j].pipeline = p /\ k = <<i, j>>
BY DEF Inbound

(* What IncomingAt takes from a position. *)
LEMMA AtPosition ==
  ASSUME NEW p, NEW k
  PROVE  /\ IncomingAt(project, p, k).subject = SubjectAt(k[1])
         /\ IncomingAt(project, p, k).durable =
              DurableName(project.name, project.routes[k[1]].name, p)
         /\ IncomingAt(project, p, k).when = project.routes[k[1]].to[k[2]].when
BY DEF IncomingAt, SubjectAt

(* A deployed member has one input per target that names it, publishes to    *)
(* the routes it starts, and filters as buildPredicateProcessor says.       *)
LEMMA Wiring ==
  ASSUME NEW p \in Pipelines, Deployed(p)
  PROVE  /\ DOMAIN Config(p).in = Inbound(project, p)
         /\ \A k \in Inbound(project, p) :
              /\ Config(p).in[k].subject = SubjectAt(k[1])
              /\ Config(p).in[k].durable =
                   DurableName(project.name, project.routes[k[1]].name, p)
         /\ \A s : s \in Range(Config(p).out) <=>
              \E i \in DOMAIN project.routes : project.routes[i].from = p /\ SubjectAt(i) = s
         /\ Config(p).filter = PredicateProcessor(Incoming(project, p))
<1> DEFINE doc == Render(specs[p])
           out == Outgoing(project, p)
           inc == Incoming(project, p)
<1>1. /\ DOMAIN out = {i \in DOMAIN project.routes : project.routes[i].from = p}
      /\ \A i \in DOMAIN out : out[i] = SubjectAt(i)
  BY DEF Outgoing, SubjectAt
<1>2. DOMAIN inc = Inbound(project, p) /\ \A k \in DOMAIN inc : inc[k] = IncomingAt(project, p, k)
  BY DEF Incoming
<1>3. PlanFor(project, p).outgoing = out /\ PlanFor(project, p).incoming = inc
  BY DEF PlanFor
<1>4. Config(p) = ApplyProjectIO(doc, PlanFor(project, p)) /\ ~Config(p).error
  BY DEF Config, MemberConfig, Deployed
<1>5. DOMAIN doc.in = {} /\ Range(doc.out) = {} /\ doc.filter = {}
  BY DEF Render, Range
<1> HIDE DEF doc, out, inc
<1>7. ~doc.error
  BY <1>4 DEF ApplyProjectIO
<1>8. CASE DOMAIN out = {} /\ DOMAIN inc = {}
  <2>1. Config(p) = doc
    BY <1>3, <1>4, <1>8 DEF ApplyProjectIO, IsEmpty
  <2>2. PredicateProcessor(inc) = {}
    BY <1>8 DEF PredicateProcessor
  <2> QED BY <1>1, <1>2, <1>5, <1>8, <2>1, <2>2 DEF inc
<1>9. CASE ~(DOMAIN out = {} /\ DOMAIN inc = {})
  <2>1. /\ Config(p).out = out
        /\ Config(p).in = [k \in DOMAIN inc |-> [subject |-> inc[k].subject,
                                                 durable |-> inc[k].durable]]
        /\ Config(p).filter = PredicateProcessor(inc)
    BY <1>3, <1>4, <1>7, <1>9 DEF ApplyProjectIO, IsEmpty
  <2>2. \A s : s \in Range(out) <=> \E i \in DOMAIN out : out[i] = s
    BY DEF Range
  <2>3. \A s : s \in Range(Config(p).out) <=>
          \E i \in DOMAIN project.routes : project.routes[i].from = p /\ SubjectAt(i) = s
    BY <1>1, <2>1, <2>2
  <2>4. DOMAIN Config(p).in = Inbound(project, p)
    BY <1>2, <2>1
  <2>5. ASSUME NEW k \in Inbound(project, p)
        PROVE  /\ Config(p).in[k].subject = SubjectAt(k[1])
               /\ Config(p).in[k].durable =
                    DurableName(project.name, project.routes[k[1]].name, p)
    <3>1. /\ Config(p).in[k].subject = IncomingAt(project, p, k).subject
          /\ Config(p).in[k].durable = IncomingAt(project, p, k).durable
      BY <1>2, <2>1
    <3> QED BY <3>1, AtPosition
  <2> QED BY <2>1, <2>3, <2>4, <2>5 DEF inc
<1> QED BY <1>8, <1>9

(* A subject belongs to one route: the validation asks for unique names. *)
LEMMA SubjectHasOneRoute ==
  ASSUME Accepted, NEW i \in DOMAIN project.routes, NEW j \in DOMAIN project.routes,
         SubjectAt(i) = SubjectAt(j)
  PROVE  i = j
<1>1. UniqueNames(project.routes)
  BY DEF Accepted, ValidateProjectRoutes, ValidateProject
<1>2. project.routes[i].name = project.routes[j].name
  BY DEF SubjectAt, Subject
<1> QED BY <1>1, <1>2 DEF UniqueNames

(* The filter in terms of the plan: a mapping only for a single inbound      *)
(* target, a switch with exactly the filtered ones as cases.                *)
LEMMA FilterShape ==
  ASSUME NEW p \in Pipelines, Deployed(p), NEW proc \in Config(p).filter
  PROVE  \/ \E k \in Inbound(project, p) :
              /\ \A l \in Inbound(project, p) : l = k
              /\ proc.kind = "mapping"
              /\ proc.when = project.routes[k[1]].to[k[2]].when /\ proc.when # ""
         \/ /\ proc.kind = "switch"
            /\ \A k : k \in DOMAIN proc.cases <=>
                 k \in Inbound(project, p) /\ project.routes[k[1]].to[k[2]].when # ""
            /\ \A k \in DOMAIN proc.cases :
                 /\ proc.cases[k].subject = SubjectAt(k[1])
                 /\ proc.cases[k].when = project.routes[k[1]].to[k[2]].when
<1> DEFINE inc == Incoming(project, p)
           filtered == {k \in DOMAIN inc : inc[k].when # ""}
<1>1. DOMAIN inc = Inbound(project, p)
  BY DEF Incoming
<1>2. \A k \in DOMAIN inc : /\ inc[k].subject = SubjectAt(k[1])
                            /\ inc[k].when = project.routes[k[1]].to[k[2]].when
  BY AtPosition DEF Incoming
<1>3. proc \in PredicateProcessor(inc)
  BY Wiring
<1> HIDE DEF inc
<1>4. \/ /\ \A k, l \in DOMAIN inc : k = l
         /\ proc \in {[kind |-> "mapping", when |-> inc[k].when] : k \in filtered}
      \/ proc = [kind |-> "switch",
                 cases |-> [k \in filtered |-> [subject |-> inc[k].subject,
                                                when |-> inc[k].when]]]
  BY <1>3 DEF PredicateProcessor
<1>5. CASE /\ \A k, l \in DOMAIN inc : k = l
           /\ proc \in {[kind |-> "mapping", when |-> inc[k].when] : k \in filtered}
  <2>1. PICK k \in filtered : proc = [kind |-> "mapping", when |-> inc[k].when]
    BY <1>5
  <2>2. k \in DOMAIN inc /\ inc[k].when # "" /\ proc.kind = "mapping" /\ proc.when = inc[k].when
    BY <2>1
  <2> QED BY <1>1, <1>2, <1>5, <2>2
<1>6. CASE proc = [kind |-> "switch",
                   cases |-> [k \in filtered |-> [subject |-> inc[k].subject,
                                                  when |-> inc[k].when]]]
  <2>1. proc.kind = "switch" /\ DOMAIN proc.cases = filtered
    BY <1>6
  <2>2. \A k \in filtered : proc.cases[k].subject = inc[k].subject /\ proc.cases[k].when = inc[k].when
    BY <1>6
  <2> QED BY <1>1, <1>2, <2>1, <2>2
<1> QED BY <1>4, <1>5, <1>6

(* A position is a target of a route. *)
LEMMA PositionIsTarget ==
  ASSUME NEW p, NEW k \in Inbound(project, p)
  PROVE  /\ k = <<k[1], k[2]>>
         /\ k[1] \in DOMAIN project.routes /\ k[2] \in DOMAIN project.routes[k[1]].to
         /\ project.routes[k[1]].to[k[2]].pipeline = p
BY InboundIs

(* No predicate processor of a pipeline lets a message through that the      *)
(* routes keep from it.                                                     *)
LEMMA PassedIsRouted ==
  ASSUME NEW p \in Pipelines, Deployed(p), NEW k \in Inbound(project, p), NEW m,
         Passes(p, SubjectAt(k[1]), m)
  PROVE  RoutedTo(p, SubjectAt(k[1]), m)
<1>1. SUFFICES \E l \in Inbound(project, p) :
                 /\ SubjectAt(l[1]) = SubjectAt(k[1])
                 /\ project.routes[l[1]].to[l[2]].when \in {"", m.kind}
  BY <1>1, PositionIsTarget DEF RoutedTo, SubjectAt
<1>2. CASE project.routes[k[1]].to[k[2]].when = ""
  BY <1>2
<1>3. CASE project.routes[k[1]].to[k[2]].when # ""
  <2>1. Config(p).filter # {}
    <3>1. Config(p).filter = PredicateProcessor(Incoming(project, p))
      BY Wiring
    <3>2. k \in DOMAIN Incoming(project, p) /\ Incoming(project, p)[k].when # ""
      BY <1>3, AtPosition DEF Incoming
    <3> QED BY <3>1, <3>2 DEF PredicateProcessor
  <2>2. PICK proc \in Config(p).filter : TRUE
    BY <2>1
  <2>3. CASE \E l \in Inbound(project, p) :
               /\ \A h \in Inbound(project, p) : h = l
               /\ proc.kind = "mapping"
               /\ proc.when = project.routes[l[1]].to[l[2]].when /\ proc.when # ""
    <3>1. proc.kind = "mapping" /\ proc.when = project.routes[k[1]].to[k[2]].when
      BY <2>3
    <3>2. proc.when = m.kind
      BY <3>1 DEF Passes
    <3> QED BY <3>1, <3>2
  <2>4. CASE /\ proc.kind = "switch"
             /\ \A l : l \in DOMAIN proc.cases <=>
                  l \in Inbound(project, p) /\ project.routes[l[1]].to[l[2]].when # ""
             /\ \A l \in DOMAIN proc.cases :
                  /\ proc.cases[l].subject = SubjectAt(l[1])
                  /\ proc.cases[l].when = project.routes[l[1]].to[l[2]].when
    <3>1. k \in {c \in DOMAIN proc.cases : proc.cases[c].subject = SubjectAt(k[1])}
      BY <1>3, <2>4
    <3>2. PICK c \in {c \in DOMAIN proc.cases : proc.cases[c].subject = SubjectAt(k[1])} :
            proc.cases[c].when = m.kind
      BY <2>4, <3>1 DEF Passes
    <3> QED BY <2>4, <3>2
  <2> QED BY <2>3, <2>4, FilterShape
<1> QED BY <1>2, <1>3

(* And a message that a route sends to a pipeline it lists once gets past    *)
(* that pipeline's filter.                                                  *)
LEMMA RoutedPasses ==
  ASSUME Accepted, NEW p \in Pipelines, Deployed(p), NEW s, NEW m,
         RoutedTo(p, s, m), ListedOnce(p, s)
  PROVE  Passes(p, s, m)
<1>1. PICK i \in DOMAIN project.routes : \E j \in DOMAIN project.routes[i].to :
        /\ SubjectAt(i) = s /\ project.routes[i].to[j].pipeline = p
        /\ project.routes[i].to[j].when \in {"", m.kind}
  BY DEF RoutedTo, SubjectAt
<1>2. PICK j \in DOMAIN project.routes[i].to :
        /\ SubjectAt(i) = s /\ project.routes[i].to[j].pipeline = p
        /\ project.routes[i].to[j].when \in {"", m.kind}
  BY <1>1
<1>3. <<i, j>> \in Inbound(project, p)
  BY <1>2, InboundIs
<1>4. ASSUME NEW k \in Inbound(project, p), SubjectAt(k[1]) = s PROVE k = <<i, j>>
  <2>1. /\ k = <<k[1], k[2]>> /\ k[1] \in DOMAIN project.routes
        /\ k[2] \in DOMAIN project.routes[k[1]].to /\ project.routes[k[1]].to[k[2]].pipeline = p
    BY PositionIsTarget
  <2>2. k[1] = i
    BY <1>2, <1>4, <2>1, SubjectHasOneRoute
  <2>3. k[2] = j
    BY <1>2, <2>1, <2>2 DEF ListedOnce, SubjectAt
  <2> QED BY <2>1, <2>2, <2>3
<1>5. ASSUME NEW proc \in Config(p).filter
      PROVE  LET hits == {c \in DOMAIN proc.cases : proc.cases[c].subject = s}
             IN  IF proc.kind = "mapping" THEN proc.when = m.kind
                 ELSE hits # {} => \E c \in hits :
                        (\A d \in hits : NoLater(c, d)) /\ proc.cases[c].when = m.kind
  <2> DEFINE hits == {c \in DOMAIN proc.cases : proc.cases[c].subject = s}
  <2>1. CASE \E k \in Inbound(project, p) :
               /\ \A l \in Inbound(project, p) : l = k
               /\ proc.kind = "mapping"
               /\ proc.when = project.routes[k[1]].to[k[2]].when /\ proc.when # ""
    <3>0. PICK k \in Inbound(project, p) :
            /\ \A l \in Inbound(project, p) : l = k
            /\ proc.kind = "mapping"
            /\ proc.when = project.routes[k[1]].to[k[2]].when /\ proc.when # ""
      BY <2>1
    <3>a. k = <<i, j>>
      BY <1>3, <3>0
    <3>1. proc.kind = "mapping" /\ proc.when = project.routes[i].to[j].when /\ proc.when # ""
      BY <3>0, <3>a
    <3> QED BY <1>2, <3>1
  <2>2. CASE /\ proc.kind = "switch"
             /\ \A k : k \in DOMAIN proc.cases <=>
                  k \in Inbound(project, p) /\ project.routes[k[1]].to[k[2]].when # ""
             /\ \A k \in DOMAIN proc.cases :
                  /\ proc.cases[k].subject = SubjectAt(k[1])
                  /\ proc.cases[k].when = project.routes[k[1]].to[k[2]].when
    <3>1. \A c \in hits : c = <<i, j>> /\ project.routes[i].to[j].when # ""
                          /\ proc.cases[c].when = project.routes[i].to[j].when
      BY <1>4, <2>2
    <3>2. \A c \in hits : proc.cases[c].when = m.kind
      BY <1>2, <3>1
    <3>3. \A c, d \in hits : NoLater(c, d)
      <4>1. <<i, j>>[1] = i /\ <<i, j>>[2] = j /\ j \in Nat
        BY <1>2 DEF Accepted
      <4>2. NoLater(<<i, j>>, <<i, j>>)
        BY <4>1 DEF NoLater
      <4> QED BY <3>1, <4>2
    <3> QED BY <2>2, <3>2, <3>3
  <2> QED BY <2>1, <2>2, FilterShape
<1> QED BY <1>5 DEF Passes

-----------------------------------------------------------------------------
(* Messages under way. *)

(* Project and specs stay as they were accepted, and with them everything    *)
(* that depends on them alone.                                              *)
LEMMA WiringStays ==
  ASSUME project' = project, specs' = specs
  PROVE  /\ Subjects' = Subjects /\ RouteNames' = RouteNames /\ Durables' = Durables
         /\ Accepted' = Accepted
         /\ \A p : Config(p)' = Config(p) /\ Deployed(p)' = Deployed(p)
         /\ \A p, s, m : RoutedTo(p, s, m)' = RoutedTo(p, s, m)
         /\ \A p, s : ListedOnce(p, s)' = ListedOnce(p, s)
         /\ \A s, t : Feeds(s, t)' = Feeds(s, t)
         /\ \A m, s : Travels(m, s)' = Travels(m, s)
<1>1. Subjects' = Subjects /\ RouteNames' = RouteNames /\ Durables' = Durables
  BY DEF Subjects, RouteNames, Durables
<1>2. Accepted' = Accepted
  BY DEF Accepted
<1>3. \A p : Config(p)' = Config(p) /\ Deployed(p)' = Deployed(p)
  BY DEF Config, Deployed
<1>4. \A p, s, m : RoutedTo(p, s, m)' = RoutedTo(p, s, m)
  BY DEF RoutedTo
<1>5. \A p, s : ListedOnce(p, s)' = ListedOnce(p, s)
  BY DEF ListedOnce
<1>6. \A s, t : Feeds(s, t)' = Feeds(s, t)
  BY DEF Feeds, SubjectAt
<1>7. \A m, s : Travels(m, s)' = Travels(m, s)
  BY <1>1, <1>6 DEF Travels
<1> QED BY <1>1, <1>2, <1>3, <1>4, <1>5, <1>6, <1>7

(* The subject of a route is a subject, and the durables of its targets are  *)
(* durables.                                                                *)
LEMMA PositionNames ==
  ASSUME NEW i \in DOMAIN project.routes, NEW p \in Pipelines
  PROVE  /\ project.routes[i].name \in RouteNames /\ SubjectAt(i) \in Subjects
         /\ SubjectAt(i) = Subject(project.name, project.routes[i].name)
         /\ DurableName(project.name, project.routes[i].name, p) \in Durables
BY DEF RouteNames, Subjects, Durables, SubjectAt

(* The first message of a pipeline that no route feeds. *)
LEMMA FirstHop ==
  ASSUME NEW kind \in Kinds, NEW s \in Subjects
  PROVE  Travels([kind |-> kind, via |-> Append(<<>>, s)], s)
<1> DEFINE m == [kind |-> kind, via |-> Append(<<>>, s)]
<1>1. m.kind = kind /\ m.via = <<s>>
  OBVIOUS
<1>2. <<s>> \in Seq(Subjects) /\ Len(<<s>>) = 1 /\ <<s>>[1] = s
  OBVIOUS
<1> HIDE DEF m
<1>3. m.via \in Seq(Subjects) /\ Len(m.via) = 1 /\ m.via[1] = s
  BY <1>1, <1>2
<1>4. \A k \in 1..Len(m.via) : k = Len(m.via)
  BY <1>3
<1>5. Travels(m, s)
  BY <1>1, <1>3, <1>4 DEF Travels
<1> QED BY <1>5 DEF m

(* One hop more: the pipeline that took m from s starts the route of t. *)
LEMMA NextHop ==
  ASSUME NEW s \in Subjects, NEW t \in Subjects, NEW m, Travels(m, s), Feeds(s, t)
  PROVE  Travels([kind |-> m.kind, via |-> Append(m.via, t)], t)
<1> DEFINE n == [kind |-> m.kind, via |-> Append(m.via, t)]
           v == m.via
           L == Len(v)
<1>1. n.kind = m.kind /\ n.via = Append(v, t)
  OBVIOUS
<1>2. m.kind \in Kinds /\ v \in Seq(Subjects) /\ L # 0 /\ v[L] = s /\ L \in Nat
  BY DEF Travels
<1>3. \A k \in 1..L : k # L => Feeds(v[k], v[k + 1])
  BY DEF Travels
<1> HIDE DEF n, v, L
<1>4. /\ Append(v, t) \in Seq(Subjects) /\ Len(Append(v, t)) = L + 1
      /\ Append(v, t)[L + 1] = t /\ \A k \in 1..L : Append(v, t)[k] = v[k]
  BY <1>2 DEF L
<1>5. ASSUME NEW k \in 1..(L + 1), k # L + 1
      PROVE  Feeds(Append(v, t)[k], Append(v, t)[k + 1])
  <2>1. CASE k = L
    BY <1>2, <1>4, <2>1
  <2>2. CASE k # L
    <3>1. k \in 1..L /\ k + 1 \in 1..L
      BY <1>2, <1>5, <2>2
    <3> QED BY <1>3, <1>4, <2>2, <3>1
  <2> QED BY <2>1, <2>2
<1>6. L + 1 # 0
  BY <1>2
<1>7. Travels(n, t)
  BY <1>1, <1>2, <1>4, <1>5, <1>6 DEF Travels
<1> QED BY <1>7 DEF n, v

(* A member that reads from a route and publishes to another is the edge     *)
(* between them.                                                            *)
LEMMA HopIsFed ==
  ASSUME NEW p \in Pipelines, Deployed(p), NEW k \in Inbound(project, p),
         NEW t \in Range(Config(p).out)
  PROVE  Feeds(SubjectAt(k[1]), t)
<1>1. PICK j \in DOMAIN project.routes : project.routes[j].from = p /\ SubjectAt(j) = t
  BY Wiring
<1>2. /\ k[1] \in DOMAIN project.routes /\ k[2] \in DOMAIN project.routes[k[1]].to
      /\ project.routes[k[1]].to[k[2]].pipeline = p
  BY PositionIsTarget
<1>3. project.routes[k[1]].to[k[2]] \in Range(project.routes[k[1]].to)
      /\ project.routes[k[1]] \in Range(project.routes)
  BY <1>2 DEF Range
<1>4. <<project.routes[k[1]].from, p>> \in Edges(project.routes)
  BY <1>2, <1>3 DEF Edges
<1> QED BY <1>1, <1>2, <1>4 DEF Feeds

(* Publishing adds a traced message to some streams and takes nothing away. *)
LEMMA PublishKeeps ==
  ASSUME Domains, Traced, project' = project, specs' = specs,
         NEW p \in Pipelines, Deployed(p), NEW m, Publish(p, m),
         \A t \in Range(Config(p).out) \cap Subjects :
           Travels([kind |-> m.kind, via |-> Append(m.via, t)], t)
  PROVE  /\ Traced' /\ DOMAIN stream' = Subjects
         /\ \A s \in Subjects : stream[s] \subseteq stream'[s]
<1>1. stream' = [s \in Subjects |->
        IF s \in Range(Config(p).out)
        THEN stream[s] \cup {[kind |-> m.kind, via |-> Append(m.via, s)]}
        ELSE stream[s]]
  BY DEF Publish
<1>2. DOMAIN stream' = Subjects /\ \A s \in Subjects : stream[s] \subseteq stream'[s]
  BY <1>1
<1>3. Subjects' = Subjects /\ \A n, s : Travels(n, s)' = Travels(n, s)
  BY WiringStays
<1>4. ASSUME NEW s \in Subjects, NEW n \in stream'[s] PROVE Travels(n, s)
  <2>1. CASE n \in stream[s]
    BY <2>1 DEF Traced
  <2>2. CASE n \notin stream[s]
    <3>1. s \in Range(Config(p).out) /\ n = [kind |-> m.kind, via |-> Append(m.via, s)]
      BY <1>1, <2>2
    <3> QED BY <3>1
  <2> QED BY <2>1, <2>2
<1>5. Traced'
  BY <1>3, <1>4 DEF Traced
<1> QED BY <1>2, <1>5

(* Messages grow with the streams. *)
LEMMA MessagesGrow ==
  ASSUME project' = project, specs' = specs,
         \A s \in Subjects : stream[s] \subseteq stream'[s]
  PROVE  Messages \subseteq Messages'
<1>1. Subjects' = Subjects
  BY WiringStays
<1> QED BY <1>1 DEF Messages

(* The way to NothingLost: a message a stream gains is acknowledged by       *)
(* nobody, and one that a durable gains was received or is not for it.      *)
LEMMA StillNothingLost ==
  ASSUME RouteInv, project' = project, specs' = specs,
         \A s \in Subjects : stream[s] \subseteq stream'[s],
         \A p \in Pipelines : got[p] \subseteq got'[p],
         \A r \in RouteNames, p \in Pipelines :
           \A m \in acked'[DurableName(project.name, r, p)] :
             \/ m \in acked[DurableName(project.name, r, p)]
             \/ Deployed(p) =>
                  \/ m \in got'[p]
                  \/ ~(RoutedTo(p, Subject(project.name, r), m)
                       /\ ListedOnce(p, Subject(project.name, r)))
  PROVE  NothingLost'
<1>1. /\ Subjects' = Subjects
      /\ \A p : Config(p)' = Config(p) /\ Deployed(p)' = Deployed(p)
      /\ \A p, s, m : RoutedTo(p, s, m)' = RoutedTo(p, s, m)
      /\ \A p, s : ListedOnce(p, s)' = ListedOnce(p, s)
  BY WiringStays
<1>2. SUFFICES ASSUME NEW p \in Pipelines, NEW s \in Subjects, NEW m \in stream'[s],
                      RoutedTo(p, s, m), ListedOnce(p, s), Deployed(p)
               PROVE  \/ m \in got'[p]
                      \/ \E i \in DOMAIN Config(p).in :
                           /\ Config(p).in[i].subject = s
                           /\ m \notin acked'[Config(p).in[i].durable]
  BY <1>1 DEF NothingLost
<1>3. PICK i \in DOMAIN project.routes : \E j \in DOMAIN project.routes[i].to :
        SubjectAt(i) = s /\ project.routes[i].to[j].pipeline = p
  BY <1>2 DEF RoutedTo, SubjectAt
<1>4. PICK j \in DOMAIN project.routes[i].to :
        SubjectAt(i) = s /\ project.routes[i].to[j].pipeline = p
  BY <1>3
<1> DEFINE d(k) == DurableName(project.name, project.routes[k].name, p)
<1>5. /\ project.routes[i].name \in RouteNames
      /\ s = Subject(project.name, project.routes[i].name)
  BY <1>4, PositionNames
<1>6. PICK k : k = <<i, j>>
  OBVIOUS
<1>7. k \in DOMAIN Config(p).in /\ Config(p).in[k].subject = s /\ Config(p).in[k].durable = d(i)
  <2>1. k \in Inbound(project, p) /\ k[1] = i
    BY <1>4, <1>6, InboundIs
  <2> QED BY <1>2, <1>4, <2>1, Wiring
<1>8. CASE m \notin acked'[d(i)]
  BY <1>7, <1>8
<1>9. CASE m \in acked'[d(i)] /\ m \notin acked[d(i)]
  BY <1>2, <1>5, <1>9
<1>10. CASE m \in acked[d(i)]
  <2>1. m \in stream[s]
    BY <1>5, <1>10 DEF RouteInv, FromStream
  <2>2. CASE m \in got[p]
    BY <2>2
  <2>3. CASE m \notin got[p]
    <3>1. PICK l \in DOMAIN Config(p).in :
            Config(p).in[l].subject = s /\ m \notin acked[Config(p).in[l].durable]
      BY <1>2, <2>1, <2>3 DEF RouteInv, NothingLost
    <3>2. l \in Inbound(project, p) /\ SubjectAt(l[1]) = s /\ Config(p).in[l].durable = d(l[1])
      BY <1>2, <3>1, Wiring
    <3>3. l[1] \in DOMAIN project.routes
      BY <3>2, PositionIsTarget
    <3>4. l[1] = i
      BY <1>4, <3>2, <3>3, SubjectHasOneRoute DEF RouteInv
    <3> QED BY <1>10, <3>1, <3>2, <3>4
  <2> QED BY <2>2, <2>3
<1> QED BY <1>8, <1>9, <1>10

(* The initial state: nothing under way in an accepted project. *)
LEMMA InitRouteInv == Init => RouteInv \/ Idle
<1> SUFFICES ASSUME Init PROVE RouteInv \/ Idle
  OBVIOUS
<1>0. CASE ~Provisioned
  <2>1. PICK n \in Namespaces : project = n.project /\ specs = n.specs
    BY DEF Init
  <2>2. DOMAIN specs = Pipelines
    BY <2>1, NamespacesAreTyped
  <2> QED BY <1>0, <2>2 DEF Init, Idle
<1> SUFFICES ASSUME Provisioned PROVE RouteInv
  BY <1>0
<1>1. Accepted
  <2>1. PICK n \in Namespaces : project = n.project /\ specs = n.specs
    BY DEF Init
  <2> QED BY <2>1, NamespacesAreTyped DEF Accepted, Provisioned
<1>2. Domains /\ \A s \in Subjects : stream[s] = {}
  BY DEF Init, Domains
<1>3. \A p \in Pipelines : got[p] = {}
  BY DEF Init
<1>4. ASSUME NEW r \in RouteNames, NEW p \in Pipelines
      PROVE  acked[DurableName(project.name, r, p)] = {}
  <2>1. DurableName(project.name, r, p) \in Durables
    BY DEF Durables
  <2> QED BY <2>1 DEF Init
<1>5. Traced /\ FromStream /\ DeliveredAsRouted
  BY <1>2, <1>3, <1>4 DEF Traced, FromStream, DeliveredAsRouted
<1>6. NothingLost
  BY <1>2 DEF NothingLost
<1> QED BY <1>1, <1>2, <1>5, <1>6 DEF RouteInv

(* A produced message: its first subject is that of a route of its producer. *)
LEMMA ProduceKeeps ==
  ASSUME RouteInv, NEW p \in Pipelines, NEW kind \in Kinds, Produce(p, kind)
  PROVE  RouteInv'
<1>1. /\ project' = project /\ specs' = specs /\ acked' = acked /\ got' = got
      /\ Deployed(p) /\ Publish(p, [kind |-> kind, via |-> <<>>])
  BY DEF Produce
<1>2. Domains /\ Traced /\ Accepted /\ FromStream /\ DeliveredAsRouted
  BY DEF RouteInv
<1>3. \A t \in Subjects : Travels([kind |-> kind, via |-> Append(<<>>, t)], t)
  BY FirstHop
<1>4. PICK m : m = [kind |-> kind, via |-> <<>>]
  OBVIOUS
<1>5. m.kind = kind /\ m.via = <<>>
  BY <1>4
<1>6. /\ Traced' /\ DOMAIN stream' = Subjects
      /\ \A s \in Subjects : stream[s] \subseteq stream'[s]
  <2>1. Publish(p, m) /\ \A t \in Range(Config(p).out) \cap Subjects :
                           Travels([kind |-> m.kind, via |-> Append(m.via, t)], t)
    BY <1>1, <1>3, <1>4, <1>5
  <2> HIDE DEF Traced
  <2> QED BY <1>1, <1>2, <2>1, PublishKeeps
<1>7. /\ Subjects' = Subjects /\ RouteNames' = RouteNames /\ Durables' = Durables
      /\ Accepted' = Accepted
      /\ \A q, s, n : RoutedTo(q, s, n)' = RoutedTo(q, s, n)
  BY <1>1, WiringStays
<1>8. Messages \subseteq Messages'
  BY <1>1, <1>6, MessagesGrow
<1>9. Accepted' /\ Domains'
  BY <1>1, <1>2, <1>6, <1>7 DEF Domains
<1>10. FromStream'
  <2>1. ASSUME NEW r \in RouteNames, NEW q \in Pipelines
        PROVE  acked[DurableName(project.name, r, q)] \subseteq stream'[Subject(project.name, r)]
    <3>1. Subject(project.name, r) \in Subjects
      BY DEF Subjects
    <3> QED BY <1>2, <1>6, <3>1 DEF FromStream
  <2>2. \A q \in Pipelines : got[q] \subseteq Messages'
    BY <1>2, <1>8 DEF FromStream
  <2> QED BY <1>1, <1>7, <2>1, <2>2 DEF FromStream
<1>11. DeliveredAsRouted'
  BY <1>1, <1>2, <1>7 DEF DeliveredAsRouted
<1>12. NothingLost'
  BY <1>1, <1>6, StillNothingLost
<1> QED BY <1>6, <1>9, <1>10, <1>11, <1>12 DEF RouteInv

(* A consumed message: received and forwarded, or kept away by the filter,   *)
(* and acknowledged or not.                                                 *)
LEMMA ConsumeKeeps ==
  ASSUME RouteInv, NEW p \in Pipelines, Deployed(p), NEW k \in DOMAIN Config(p).in,
         NEW m, NEW ack \in BOOLEAN, Consume(p, k, m, ack)
  PROVE  RouteInv'
<1> DEFINE r0 == project.routes[k[1]].name
           s0 == SubjectAt(k[1])
           d0 == DurableName(project.name, r0, p)
<1>1. k \in Inbound(project, p) /\ Config(p).in[k].subject = s0 /\ Config(p).in[k].durable = d0
  BY Wiring
<1>2. k[1] \in DOMAIN project.routes
  BY <1>1, PositionIsTarget
<1>3. r0 \in RouteNames /\ s0 \in Subjects /\ s0 = Subject(project.name, r0) /\ d0 \in Durables
  BY <1>2, PositionNames
<1>4. Domains /\ Traced /\ Accepted /\ FromStream /\ DeliveredAsRouted
  BY DEF RouteInv
<1>5. /\ project' = project /\ specs' = specs /\ m \in stream[s0]
      /\ acked' = [acked EXCEPT ![d0] = @ \cup (IF ack THEN {m} ELSE {})]
      /\ \/ /\ Passes(p, s0, m) /\ got' = [got EXCEPT ![p] = @ \cup {m}] /\ Publish(p, m)
         \/ ~Passes(p, s0, m) /\ got' = got /\ stream' = stream
  BY <1>1 DEF Consume
<1>6. Travels(m, s0) /\ Last(m.via) = s0
  BY <1>3, <1>4, <1>5 DEF Traced, Travels, Last
<1>7. /\ Subjects' = Subjects /\ RouteNames' = RouteNames /\ Durables' = Durables
      /\ Accepted' = Accepted
      /\ \A q, s, n : RoutedTo(q, s, n)' = RoutedTo(q, s, n)
      /\ \A n, s : Travels(n, s)' = Travels(n, s)
  BY <1>5, WiringStays
<1>8. \A r \in RouteNames, q \in Pipelines :
        DurableName(project.name, r, q) = d0 <=> r = r0 /\ q = p
  BY DEF DurableName
<1>9. \A r \in RouteNames, q \in Pipelines : DurableName(project.name, r, q) \in Durables
  BY DEF Durables
<1> HIDE DEF r0, s0, d0
<1>10. /\ Traced' /\ DOMAIN stream' = Subjects
       /\ \A s \in Subjects : stream[s] \subseteq stream'[s]
  <2>1. CASE Passes(p, s0, m) /\ Publish(p, m)
    <3>1. ASSUME NEW t \in Range(Config(p).out) \cap Subjects
          PROVE  Travels([kind |-> m.kind, via |-> Append(m.via, t)], t)
      <4>1. Feeds(s0, t)
        BY <1>1, HopIsFed DEF s0
      <4> QED BY <1>3, <1>6, <4>1, NextHop
    <3> QED BY <1>4, <1>5, <2>1, <3>1, PublishKeeps
  <2>2. CASE stream' = stream
    <3>1. Traced'
      BY <1>4, <1>7, <2>2 DEF Traced
    <3> QED BY <1>4, <2>2, <3>1 DEF Domains
  <2> QED BY <1>5, <2>1, <2>2
<1>11. /\ DOMAIN got' = Pipelines /\ \A q \in Pipelines : got[q] \subseteq got'[q]
       /\ \A q \in Pipelines : \A n \in got'[q] :
            n \in got[q] \/ (q = p /\ n = m /\ Passes(p, s0, m))
       /\ Passes(p, s0, m) => m \in got'[p]
  BY <1>4, <1>5 DEF Domains
<1>12. /\ DOMAIN acked' = Durables
       /\ \A r \in RouteNames, q \in Pipelines : \A n \in acked'[DurableName(project.name, r, q)] :
            n \in acked[DurableName(project.name, r, q)] \/ (r = r0 /\ q = p /\ n = m)
  <2>1. DOMAIN acked' = Durables
    BY <1>4, <1>5 DEF Domains
  <2>2. ASSUME NEW r \in RouteNames, NEW q \in Pipelines,
               NEW n \in acked'[DurableName(project.name, r, q)]
        PROVE  n \in acked[DurableName(project.name, r, q)] \/ (r = r0 /\ q = p /\ n = m)
    <3>1. PICK d \in Durables : d = DurableName(project.name, r, q)
      BY <1>9
    <3>2. d \in DOMAIN acked /\ n \in acked'[d]
      BY <1>4, <2>2, <3>1 DEF Domains
    <3>3. CASE d = d0
      <4>1. n \in acked[d] \/ n = m
        BY <1>5, <3>2, <3>3
      <4> QED BY <1>8, <3>1, <3>3, <4>1
    <3>4. CASE d # d0
      BY <1>5, <3>1, <3>2, <3>4
    <3> QED BY <3>3, <3>4
  <2> QED BY <2>1, <2>2
<1>13. Messages \subseteq Messages' /\ m \in Messages
  <2>1. m \in Messages
    BY <1>3, <1>5 DEF Messages
  <2> QED BY <1>5, <1>10, <2>1, MessagesGrow
<1>14. Accepted' /\ Domains'
  BY <1>4, <1>7, <1>10, <1>11, <1>12 DEF Domains
<1>15. FromStream'
  <2>1. ASSUME NEW r \in RouteNames, NEW q \in Pipelines
        PROVE  acked'[DurableName(project.name, r, q)] \subseteq stream'[Subject(project.name, r)]
    <3>1. Subject(project.name, r) \in Subjects
      BY DEF Subjects
    <3>2. acked[DurableName(project.name, r, q)] \subseteq stream'[Subject(project.name, r)]
      BY <1>4, <1>10, <3>1 DEF FromStream
    <3>3. r = r0 => m \in stream'[Subject(project.name, r)]
      BY <1>3, <1>5, <1>10
    <3> QED BY <1>12, <3>2, <3>3
  <2>2. ASSUME NEW q \in Pipelines PROVE got'[q] \subseteq Messages'
    BY <1>4, <1>11, <1>13 DEF FromStream
  <2> QED BY <1>5, <1>7, <2>1, <2>2 DEF FromStream
<1>16. DeliveredAsRouted'
  <2>1. ASSUME NEW q \in Pipelines, NEW n \in got'[q] PROVE RoutedTo(q, Last(n.via), n)
    <3>1. CASE n \in got[q]
      BY <1>4, <3>1 DEF DeliveredAsRouted
    <3>2. CASE q = p /\ n = m /\ Passes(p, s0, m)
      <4>1. RoutedTo(p, s0, m)
        BY <1>1, <3>2, PassedIsRouted DEF s0
      <4> QED BY <1>6, <3>2, <4>1
    <3> QED BY <1>11, <3>1, <3>2
  <2> QED BY <1>7, <2>1 DEF DeliveredAsRouted
<1>17. NothingLost'
  <2>1. ASSUME RoutedTo(p, s0, m), ListedOnce(p, s0) PROVE m \in got'[p]
    <3>1. Passes(p, s0, m)
      BY <1>4, <2>1, RoutedPasses
    <3> QED BY <1>11, <3>1
  <2>2. ASSUME NEW r \in RouteNames, NEW q \in Pipelines,
               NEW n \in acked'[DurableName(project.name, r, q)]
        PROVE  \/ n \in acked[DurableName(project.name, r, q)]
               \/ Deployed(q) =>
                    \/ n \in got'[q]
                    \/ ~(RoutedTo(q, Subject(project.name, r), n)
                         /\ ListedOnce(q, Subject(project.name, r)))
    BY <1>3, <1>12, <2>1
  <2> QED BY <1>5, <1>10, <1>11, <2>2, StillNothingLost
<1> QED BY <1>10, <1>14, <1>15, <1>16, <1>17 DEF RouteInv

(* Every step keeps the invariant. *)
LEMMA NextRouteInv == RouteInv /\ [Next]_vars => RouteInv'
<1> SUFFICES ASSUME RouteInv, [Next]_vars PROVE RouteInv'
  OBVIOUS
<1>1. CASE \E p \in Pipelines, kind \in Kinds : Produce(p, kind)
  BY <1>1, ProduceKeeps
<1>2. CASE \E p \in Pipelines :
             /\ Deployed(p)
             /\ \E i \in DOMAIN Config(p).in, ack \in BOOLEAN :
                  \E m \in stream[Config(p).in[i].subject] : Consume(p, i, m, ack)
  BY <1>2, ConsumeKeeps
<1>3. CASE UNCHANGED vars
  <2>1. project' = project /\ specs' = specs /\ stream' = stream /\ acked' = acked /\ got' = got
    BY <1>3 DEF vars
  <2>2. /\ Subjects' = Subjects /\ RouteNames' = RouteNames /\ Durables' = Durables
        /\ Accepted' = Accepted
        /\ \A q, s, n : RoutedTo(q, s, n)' = RoutedTo(q, s, n)
        /\ \A n, s : Travels(n, s)' = Travels(n, s)
    BY <2>1, WiringStays
  <2>3. NothingLost'
    BY <2>1, StillNothingLost
  <2>4. Domains' /\ Traced' /\ FromStream' /\ DeliveredAsRouted'
    BY <2>1, <2>2 DEF RouteInv, Domains, Traced, FromStream, DeliveredAsRouted, Messages
  <2> QED BY <2>2, <2>3, <2>4 DEF RouteInv
<1> QED BY <1>1, <1>2, <1>3 DEF Next

(* Without a stream no member takes a step. *)
LEMMA IdleStays == Idle /\ [Next]_vars => Idle'
<1> SUFFICES ASSUME Idle, [Next]_vars PROVE Idle'
  OBVIOUS
<1>1. ASSUME NEW p \in Pipelines, Deployed(p), NEW k \in DOMAIN Config(p).in
      PROVE  stream[Config(p).in[k].subject] = {}
  <2>1. k \in Inbound(project, p) /\ Config(p).in[k].subject = SubjectAt(k[1])
    BY <1>1, Wiring
  <2>2. SubjectAt(k[1]) \in Subjects
    BY <2>1, PositionIsTarget, PositionNames
  <2> QED BY <2>1, <2>2 DEF Idle
<1>2. UNCHANGED vars
  <2>1. ASSUME NEW p \in Pipelines, NEW kind \in Kinds PROVE ~Produce(p, kind)
    BY DEF Produce, Idle
  <2> QED BY <1>1, <2>1 DEF Next
<1> QED BY <1>2 DEF vars, Idle, Provisioned, Subjects, Durables, RouteNames

-----------------------------------------------------------------------------
(* What follows from the invariant in every state. *)

(* A message that passed a subject twice walked a cycle of the table, and    *)
(* the validation accepts none: the pipelines between the two visits all    *)
(* feed a pipeline among themselves.                                        *)
LEMMA NoSubjectTwice ==
  ASSUME Accepted, NEW s \in Subjects, NEW m, Travels(m, s),
         NEW a \in DOMAIN m.via, NEW b \in DOMAIN m.via, m.via[a] = m.via[b], a < b
  PROVE  FALSE
<1> DEFINE v == m.via
           At(k) == {i \in DOMAIN project.routes : SubjectAt(i) = v[k]}
           S == UNION {{project.routes[i].from : i \in At(k)} : k \in a..(b - 1)}
           edges == Edges(project.routes)
<1>1. v \in Seq(Subjects) /\ Len(v) \in Nat /\ DOMAIN v = 1..Len(v)
  BY DEF Travels
<1>2. a \in 1..Len(v) /\ b \in 1..Len(v)
  BY <1>1
<1>3. ASSUME NEW k \in a..(b - 1) PROVE Feeds(v[k], v[k + 1]) /\ k + 1 \in 1..Len(v)
  <2>1. k \in 1..Len(v) /\ k # Len(v) /\ k + 1 \in 1..Len(v)
    BY <1>1, <1>2
  <2> QED BY <2>1 DEF Travels
<1>4. ASSUME NEW k \in a..(b - 1), NEW i \in At(k)
      PROVE  \E n \in S : <<project.routes[i].from, n>> \in edges
  <2>1. PICK h, j \in DOMAIN project.routes :
          /\ SubjectAt(h) = v[k] /\ SubjectAt(j) = v[k + 1]
          /\ <<project.routes[h].from, project.routes[j].from>> \in edges
    BY <1>3 DEF Feeds
  <2>2. h = i
    BY <2>1, SubjectHasOneRoute
  <2>3. project.routes[j].from \in S
    <3>1. CASE k = b - 1
      <4>1. v[k + 1] = v[a] /\ a \in a..(b - 1)
        BY <1>1, <1>2, <3>1
      <4>2. j \in At(a)
        BY <2>1, <4>1
      <4> QED BY <4>1, <4>2
    <3>2. CASE k # b - 1
      <4>1. k + 1 \in a..(b - 1)
        BY <1>1, <1>2, <3>2
      <4>2. j \in At(k + 1)
        BY <2>1
      <4> QED BY <4>1, <4>2
    <3> QED BY <3>1, <3>2
  <2> QED BY <2>1, <2>2, <2>3
<1>5. S # {}
  <2>1. a \in a..(b - 1)
    BY <1>1, <1>2
  <2>2. PICK h \in DOMAIN project.routes : SubjectAt(h) = v[a]
    BY <1>3, <2>1 DEF Feeds
  <2>3. h \in At(a)
    BY <2>2
  <2>4. project.routes[h].from \in S
    BY <2>1, <2>3
  <2> QED BY <2>4
<1>6. ASSUME NEW n \in S PROVE \E n2 \in S : <<n, n2>> \in edges
  <2>1. PICK k \in a..(b - 1) : n \in {project.routes[i].from : i \in At(k)}
    OBVIOUS
  <2>2. PICK i \in At(k) : n = project.routes[i].from
    BY <2>1
  <2> HIDE DEF S, At, edges
  <2> QED BY <1>4, <2>2
<1> HIDE DEF S, At, v
<1>7. S \in SUBSET {e[1] : e \in edges}
  <2>1. ASSUME NEW n \in S PROVE n \in {e[1] : e \in edges}
    <3>1. PICK n2 \in S : <<n, n2>> \in edges
      BY <1>6
    <3>2. PICK e \in edges : e = <<n, n2>>
      BY <3>1
    <3>3. e[1] = n
      BY <3>2
    <3> QED BY <3>3
  <2> QED BY <2>1
<1>8. HasCycle(project.routes)
  BY <1>5, <1>6, <1>7 DEF HasCycle, Cyclic
<1> QED BY <1>8 DEF Accepted, ValidateProjectRoutes, ValidateProject

(* The invariant says of a state what the run checks of it. *)
LEMMA RouteInvImplies ==
  ASSUME RouteInv
  PROVE  TypeOK /\ DeliveredAsRouted /\ NothingLost /\ NoLoop /\ UserIOReported
<1>1. DeliveredAsRouted /\ NothingLost
  BY DEF RouteInv
<1>2. TypeOK
  <2>1. \A s \in Subjects : \A m \in stream[s] : m.kind \in Kinds /\ Last(m.via) = s
    BY DEF RouteInv, Traced, Travels, Last
  <2> QED BY <2>1 DEF RouteInv, Accepted, FromStream, TypeOK
<1>3. NoLoop
  <2>1. SUFFICES ASSUME NEW m \in Messages, NEW i \in DOMAIN m.via, NEW j \in DOMAIN m.via,
                        m.via[i] = m.via[j], i # j
                 PROVE  FALSE
    BY DEF NoLoop
  <2>2. PICK s \in Subjects : m \in stream[s]
    BY DEF Messages
  <2>3. Travels(m, s) /\ Accepted
    BY <2>2 DEF RouteInv, Traced
  <2>4. i \in Nat /\ j \in Nat
    BY <2>3 DEF Travels
  <2>5. i < j \/ j < i
    BY <2>1, <2>4
  <2> QED BY <2>1, <2>3, <2>5, NoSubjectTwice
<1>4. UserIOReported
  <2> SUFFICES ASSUME NEW p \in Pipelines, Deployed(p)
               PROVE  Config(p).own = Render(specs[p]).own
    BY DEF UserIOReported
  <2> DEFINE views == [q \in DOMAIN specs |-> PipelineView(specs[q])]
             doc == Render(specs[p])
             plan == PlanFor(project, p)
  <2>1. NoIOConflict(project, views)
    BY DEF RouteInv, Accepted, ValidateProjectRoutes, ValidateProject
  <2>2. p \in DOMAIN views /\ views[p].projectName = project.name
    BY DEF RouteInv, Accepted, Deployed, PipelineView
  <2>3. /\ views[p].hasInput = HasKey(specs[p], "input")
        /\ views[p].hasOutput = HasKey(specs[p], "output")
    BY <2>2 DEF PipelineView
  <2>4. "output" \in doc.own => DOMAIN plan.outgoing = {}
    <3>1. "output" \in doc.own => ~IsProducer(project.routes, p)
      BY <2>1, <2>2, <2>3 DEF NoIOConflict, Render
    <3> QED BY <3>1 DEF IsProducer, PlanFor, Outgoing
  <2>5. "input" \in doc.own => DOMAIN plan.incoming = {}
    <3>1. "input" \in doc.own => ~IsConsumer(project.routes, p)
      BY <2>1, <2>2, <2>3 DEF NoIOConflict, Render
    <3> QED BY <3>1 DEF IsConsumer, PlanFor, Incoming, Inbound
  <2>6. Config(p) = ApplyProjectIO(doc, plan)
    BY DEF Config, MemberConfig
  <2> HIDE DEF doc, plan, views
  <2>7. CASE doc.error \/ IsEmpty(plan)
    BY <2>6, <2>7 DEF ApplyProjectIO, doc
  <2>8. CASE ~(doc.error \/ IsEmpty(plan))
    <3>1. Config(p).own = doc.own \ ((IF DOMAIN plan.outgoing # {} THEN {"output"} ELSE {}) \cup
                                     (IF DOMAIN plan.incoming # {} THEN {"input"} ELSE {}))
      BY <2>6, <2>8 DEF ApplyProjectIO
    <3>2. Config(p).own = doc.own
      BY <2>4, <2>5, <3>1
    <3> QED BY <3>2 DEF doc
  <2> QED BY <2>7, <2>8
<1> QED BY <1>1, <1>2, <1>3, <1>4

(* Nor is there anything to get wrong without a message. *)
LEMMA IdleImplies ==
  ASSUME Idle
  PROVE  TypeOK /\ DeliveredAsRouted /\ NothingLost /\ NoLoop /\ UserIOReported
<1>1. Messages = {}
  BY DEF Idle, Messages
<1>2. \A r \in RouteNames, p \in Pipelines : acked[DurableName(project.name, r, p)] = {}
  BY DEF Idle, Durables
<1>3. TypeOK
  BY <1>2 DEF Idle, TypeOK
<1>4. NothingLost
  BY DEF Idle, NothingLost
<1> QED BY <1>1, <1>3, <1>4 DEF Idle, DeliveredAsRouted, NoLoop, UserIOReported

(* The invariant, in what it says of a state, holds throughout. *)
LEMMA RouteInvHolds ==
  Spec => [](TypeOK /\ DeliveredAsRouted /\ NothingLost /\ NoLoop /\ UserIOReported)
<1>1. (RouteInv \/ Idle) /\ [Next]_vars => (RouteInv \/ Idle)'
  BY NextRouteInv, IdleStays
<1>2. RouteInv \/ Idle =>
        TypeOK /\ DeliveredAsRouted /\ NothingLost /\ NoLoop /\ UserIOReported
  BY RouteInvImplies, IdleImplies
<1> QED BY <1>1, <1>2, InitRouteInv, PTL DEF Spec

(* A subject's stream holds what was published on it last, a durable         *)
(* acknowledges and a pipeline receives only what is in a stream.           *)
THEOREM TypeCorrect == Spec => []TypeOK
BY RouteInvHolds, PTL

(* Whatever the routes, the fan-in and the predicates: a pipeline receives a *)
(* message only from a route that lists it with a predicate that keeps the  *)
(* message (PlanFor, buildInput and buildPredicateProcessor together).      *)
THEOREM RoutesAreFollowed == Spec => []DeliveredAsRouted
BY RouteInvHolds, PTL

(* A message of a route stays unacknowledged on the target's durable until   *)
(* the target has received it, restarts included, unless its predicate      *)
(* rejects it or the route lists the target twice.                          *)
THEOREM NothingIsLost == Spec => []NothingLost
BY RouteInvHolds, PTL

(* No message passes a route twice, however long the chain of routes: the    *)
(* cycle rule of ValidateProject is enough.                                 *)
THEOREM NoMessageLoops == Spec => []NoLoop
BY RouteInvHolds, PTL

(* The rewrite overwrites input and output unseen, in a project whose routes *)
(* are invalid too; one the user configured is replaced only where the       *)
(* validation finds the conflict and the project reports invalid routes.     *)
THEOREM UsersIOIsReported == Spec => []UserIOReported
BY RouteInvHolds, PTL

=============================================================================
