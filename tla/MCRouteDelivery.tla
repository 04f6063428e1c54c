-------------------------- MODULE MCRouteDelivery --------------------------
(***************************************************************************)
(* Instances of RouteDelivery: every table of at most two routes over three *)
(* pipelines that leave both ends to the routes, one route with every kind  *)
(* of pipeline, and one with a predicate that does not parse or a cache     *)
(* resource.  Names are not ordered by the code modelled here, so the first *)
(* route starts at "a".                                                     *)
(***************************************************************************)
EXTENDS RouteDelivery

Members == {"a", "b", "c"}

ToLists(whens) ==
  LET targets == [pipeline : Members, when : whens]
  IN  {<<t>> : t \in targets} \cup {<<t, u>> : t, u \in targets}

Routes(names, froms, whens) == [name : names, from : froms, to : ToLists(whens)]

Project(routes, caches) == [name |-> "p", routes |-> routes, cacheResources |-> caches]

Spec1(ref, raw, parses, keys) ==
  [projectRef |-> ref, raw |-> raw, parses |-> parses, keys |-> keys]

Plain == Spec1("p", FALSE, TRUE, {})

(* A pipeline that leaves both ends to the routes, one with its own output,  *)
(* one raw that reads from its own input, one that does not parse, and one  *)
(* of another project.                                                      *)
AllSpecs ==
  { Plain, Spec1("p", FALSE, TRUE, {"output"}), Spec1("p", TRUE, TRUE, {"input"}),
    Spec1("p", TRUE, FALSE, {"input"}), Spec1("q", FALSE, TRUE, {}) }

TwoRoutes ==
  { [project |-> Project(<<r, s>>, <<>>), specs |-> [p \in Members |-> Plain]] :
      r \in Routes({"r1"}, {"a"}, {"", "red"}), s \in Routes({"r1", "r2"}, Members, {"", "red"}) }

OneRoute ==
  { [project |-> Project(<<r>>, <<>>), specs |-> f] :
      r \in Routes({"r1"}, {"a"}, {"", "red"}), f \in [Members -> AllSpecs] }

(* A predicate that does not parse, a cache that sets both or only one kind. *)
Refused ==
  { [project |-> Project(<<r>>, <<[natsKV |-> TRUE, config |-> b]>>),
     specs |-> [p \in Members |-> Plain]] :
      r \in Routes({"r1"}, {"a"}, {"red", "bad"}), b \in BOOLEAN }

SmallNamespaces == TwoRoutes \cup OneRoute \cup Refused

=============================================================================
