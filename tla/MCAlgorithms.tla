---------------------------- MODULE MCAlgorithms ----------------------------
(***************************************************************************)
(* The two loops of the controllers that are worth a step per iteration,    *)
(* findCycle and leastLoadedInstance, for TLC.  They share no state: a      *)
(* behaviour is one call of either, next to a finished call of the other.   *)
(***************************************************************************)
EXTENDS FindCycle, LeastLoadedScan

(* findCycle(nil) has returned: there is no route. *)
NoSearch ==
  /\ edges = {} /\ path = <<>> /\ result = <<>>
  /\ todo = [n \in Nodes |-> {}]
  /\ color = [n \in Nodes |-> "white"]

(* leastLoadedInstance has returned the only ready instance. *)
NoScan ==
  /\ loadByOrdinal = [o \in Ordinals |-> 0]
  /\ best = 0 /\ readyOrdinals = {best} /\ sorted = {}

CallInit == (Init /\ NoScan) \/ (NoSearch /\ ScanInit)

CallNext ==
  \/ Next /\ UNCHANGED scanVars
  \/ ScanNext /\ UNCHANGED vars

CallSpec == CallInit /\ [][CallNext]_<<vars, scanVars>>

=============================================================================
