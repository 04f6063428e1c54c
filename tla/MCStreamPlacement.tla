------------------------- MODULE MCStreamPlacement -------------------------
(* Small instances of StreamPlacement for TLC.  The .cfg files make the names  *)
(* below model values and build the constants of StreamPlacement from them.    *)
EXTENDS StreamPlacement, TLC

CONSTANTS
  p1, p2,       \* pipelines
  c1, c2,       \* clusters
  plain,        \* a config every instance accepts
  withSecret,   \* a config with a secretRef
  unrendered,   \* a config that fails to render
  refused,      \* a config every instance rejects
  v1, v2        \* values of the Secret

(* Clusters differ by their name only. *)
ClusterSymmetry == Permutations(Clusters)

=============================================================================
