--------------------------- MODULE MCApiHandlers ---------------------------
(* Bodies that clients send to the pipeline handlers. *)
EXTENDS ApiHandlers

Body(stopped, projectRef, clusterRef, raw, input, output, secrets) ==
  [stopped |-> stopped, projectRef |-> projectRef, clusterRef |-> clusterRef, raw |-> raw,
   input |-> input, output |-> output, secrets |-> secrets, labels |-> TRUE]

(* A pipeline of its own and a stopped member of a project that leaves its   *)
(* input to a route, which pass; and bodies with one thing wrong each: one  *)
(* end missing outside a project, one end unknown, YAML that does not       *)
(* parse, two placements, a variable twice.                                 *)
MixedBodies ==
  { Body(FALSE, FALSE, FALSE, "", "known", "known", "ok"),
    Body(TRUE, TRUE, FALSE, "", "", "known", "ok"),
    Body(FALSE, FALSE, TRUE, "", "known", "", "ok"),
    Body(FALSE, TRUE, FALSE, "", "", "unknown", "ok"),
    Body(FALSE, FALSE, FALSE, "broken", "", "", "ok"),
    Body(FALSE, TRUE, TRUE, "parses", "", "", "ok"),
    Body(FALSE, FALSE, FALSE, "", "known", "known", "duplicate") }
=============================================================================
