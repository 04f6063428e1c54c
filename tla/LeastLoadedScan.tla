-------------------------- MODULE LeastLoadedScan --------------------------
(***************************************************************************)
(* The loop of leastLoadedInstance (internal/controller/                    *)
(* cluster_scheduler.go): sort the ready ordinals, keep the first as best,  *)
(* and replace best by a later ordinal only when its load is strictly       *)
(* smaller.  One step per loop iteration; the sorted slice is the set of    *)
(* ordinals still to visit, taken in ascending order.                       *)
(***************************************************************************)
EXTENDS ClusterScheduler, FiniteSets

CONSTANTS
  Ordinals,   \* the ordinals an instance of the cluster may have
  MaxLoad     \* bound on the pipelines placed on one instance

ASSUME OrdinalsAreNaturals == Ordinals \subseteq Nat
ASSUME MaxLoadIsNatural == MaxLoad \in Nat

VARIABLES
  readyOrdinals,  \* the argument of the same name, as a set
  loadByOrdinal,  \* the argument of the same name; 0 for a missing key
  sorted,         \* the ordinals of the sorted slice not visited yet
  best            \* the local variable of the same name

scanVars == <<readyOrdinals, loadByOrdinal, sorted, best>>

(* The next ordinal of the sorted slice. *)
IsNextOrdinal(o, ords) == o \in ords /\ \A other \in ords : o <= other

(* A call with a non-empty slice: the empty one returns ok = false at once.  *)
ScanInit ==
  /\ readyOrdinals \in (SUBSET Ordinals) \ {{}}
  /\ loadByOrdinal \in [Ordinals -> 0 .. MaxLoad]
  /\ \E o \in readyOrdinals : /\ IsNextOrdinal(o, readyOrdinals)
                              /\ best = o
                              /\ sorted = readyOrdinals \ {o}

(* A slip: a later ordinal also wins a tie. *)
VisitLaterWinsTie(o) ==
  /\ IsNextOrdinal(o, sorted)
  /\ sorted' = sorted \ {o}
  /\ best' = IF loadByOrdinal[o] <= loadByOrdinal[best] THEN o ELSE best
  /\ UNCHANGED <<readyOrdinals, loadByOrdinal>>

(* One iteration of "for _, o := range sorted[1:]". *)
Visit(o) ==
  /\ IsNextOrdinal(o, sorted)
  /\ sorted' = sorted \ {o}
  /\ best' = IF loadByOrdinal[o] < loadByOrdinal[best] THEN o ELSE best
  /\ UNCHANGED <<readyOrdinals, loadByOrdinal>>

ScanNext == \E o \in Ordinals : Visit(o)

ScanSpec == ScanInit /\ [][ScanNext]_scanVars

ScanTypeOK ==
  /\ readyOrdinals \in SUBSET Ordinals
  /\ loadByOrdinal \in [Ordinals -> 0 .. MaxLoad]
  /\ sorted \in SUBSET readyOrdinals
  /\ best \in readyOrdinals \ sorted

(* The loop invariant: best is the least-loaded ordinal of the visited       *)
(* prefix, and every ordinal still to visit is above the whole prefix.       *)
PrefixIsLeastLoaded ==
  /\ IsLeastLoaded(best, readyOrdinals \ sorted, loadByOrdinal)
  /\ \A o \in readyOrdinals \ sorted, later \in sorted : o < later

(* When leastLoadedInstance returns, its result is a ready ordinal with the  *)
(* fewest placed pipelines and the lowest of those: the comment of           *)
(* cluster_scheduler.go says so, and the strict < over the ascending slice   *)
(* is what makes it true.  docs/user/clusters/defining.md:46 and             *)
(* docs/user/reference/pipelinecluster-crd.md:31 promise a round-robin       *)
(* assignment instead: a user who deletes the streams of one instance sees   *)
(* the next ones all go there.                                               *)
ReturnsLeastLoaded ==
  sorted = {} => IsLeastLoaded(best, readyOrdinals, loadByOrdinal)

=============================================================================
