----------------------------- MODULE FindCycle -----------------------------
(***************************************************************************)
(* findCycle (internal/projectroute/projectroute.go): the depth-first       *)
(* search that rejects a project whose routes form a cycle.  One step per   *)
(* call, per iteration of "for _, m := range adj[n]" and per return of the  *)
(* local function dfs; the recursion is the slice path itself.              *)
(* Pipeline names are numbers: sort.Strings only fixes an order.  A target  *)
(* listed twice is next to its copy in the sorted adj[n] and black by the   *)
(* second visit, so adj[n] is a set taken in ascending order.               *)
(***************************************************************************)
EXTENDS Naturals, Sequences, FiniteSets

CONSTANT Nodes    \* the pipeline names routes may mention

ASSUME NodesAreNaturals == Nodes \subseteq Nat

VARIABLES
  edges,    \* <<from, to>> of every route target: the argument routes
  todo,     \* per node, the part of adj[n] its loop has not visited
  color,    \* the local map of the same name; a missing key is white
  path,     \* the local slice of the same name
  result    \* the cycle returned, <<>> for nil or not returned yet

vars == <<edges, todo, color, path, result>>

Adj(n) == {m \in Nodes : <<n, m>> \in edges}

(* nodeSet: every name some route starts or ends at. *)
NodeSet == {n \in Nodes : \E m \in Nodes : <<n, m>> \in edges \/ <<m, n>> \in edges}

IsFirst(n, ns) == n \in ns /\ \A other \in ns : n <= other

OnPath(n) == \E i \in 1 .. Len(path) : path[i] = n

White == {n \in NodeSet : color[n] = "white"}

Top == path[Len(path)]

Init ==
  /\ edges \in SUBSET (Nodes \X Nodes)
  /\ todo = [n \in Nodes |-> Adj(n)]
  /\ color = [n \in Nodes |-> "white"]
  /\ path = <<>>
  /\ result = <<>>

(* dfs(n): colour it gray and push it. *)
Enter(n) ==
  /\ color' = [color EXCEPT ![n] = "gray"]
  /\ path' = Append(path, n)

(* The outer loop calls dfs on the next white node. *)
Root(n) ==
  /\ result = <<>> /\ path = <<>>
  /\ IsFirst(n, White)
  /\ Enter(n)
  /\ UNCHANGED <<edges, todo, result>>

(* The loop of the node on top takes m, its next successor. *)
Take(m) ==
  /\ result = <<>> /\ path # <<>>
  /\ IsFirst(m, todo[Top])
  /\ todo' = [todo EXCEPT ![Top] = @ \ {m}]

(* case white: recurse. *)
Descend(m) ==
  /\ Take(m)
  /\ color[m] = "white"
  /\ Enter(m)
  /\ UNCHANGED <<edges, result>>

(* A slip: the cycle is cut after the repeated node instead of before it. *)
CloseCutsLate(m) ==
  /\ Take(m)
  /\ color[m] = "gray"
  /\ \E i \in 1 .. Len(path) :
       /\ path[i] = m
       /\ \A k \in 1 .. i - 1 : path[k] # m
       /\ result' = Append(SubSeq(path, i + 1, Len(path)), m)
  /\ UNCHANGED <<edges, color, path>>

(* case gray: return path from the first occurrence of m on, and m again.   *)
Close(m) ==
  /\ Take(m)
  /\ color[m] = "gray"
  /\ \E i \in 1 .. Len(path) :
       /\ path[i] = m
       /\ \A k \in 1 .. i - 1 : path[k] # m
       /\ result' = Append(SubSeq(path, i, Len(path)), m)
  /\ UNCHANGED <<edges, color, path>>

(* A slip: only a node met twice below its own loop counts as a cycle, so a *)
(* gray successor is passed over.                                           *)
PassIgnoresGray(m) ==
  /\ Take(m)
  /\ color[m] # "white"
  /\ UNCHANGED <<edges, color, path, result>>

(* A black successor, or a gray one the loop over path does not find. *)
Pass(m) ==
  /\ Take(m)
  /\ color[m] = "black" \/ (color[m] = "gray" /\ ~OnPath(m))
  /\ UNCHANGED <<edges, color, path, result>>

(* The loop is over: pop the node, turn it black and return nil. *)
Leave ==
  /\ result = <<>> /\ path # <<>>
  /\ todo[Top] = {}
  /\ path' = SubSeq(path, 1, Len(path) - 1)
  /\ color' = [color EXCEPT ![Top] = "black"]
  /\ UNCHANGED <<edges, todo, result>>

Next ==
  \/ \E n \in Nodes : Root(n) \/ Descend(n) \/ Close(n) \/ Pass(n)
  \/ Leave

Spec == Init /\ [][Next]_vars

Returned == result # <<>> \/ (path = <<>> /\ White = {})

TypeOK ==
  /\ edges \in SUBSET (Nodes \X Nodes)
  /\ todo \in [Nodes -> SUBSET Nodes]
  /\ color \in [Nodes -> {"white", "gray", "black"}]
  /\ path \in Seq(Nodes)
  /\ \A i, k \in 1 .. Len(path) : path[i] = path[k] => i = k
  /\ result \in Seq(Nodes)

(* The gray nodes are exactly the recursion stack: what the inner loop over *)
(* path relies on to find the gray successor.                               *)
GrayIsPath == \A n \in Nodes : color[n] = "gray" <=> OnPath(n)

(* The stack is a walk: dfs calls itself only along an edge. *)
PathIsWalk ==
  \A i \in 1 .. Len(path) - 1 : <<path[i], path[i + 1]>> \in edges

(* The loop of a node still has to visit all of its successors before dfs   *)
(* is called on it, and never anything else.                                *)
LoopsOverSuccessors ==
  \A n, m \in Nodes :
    /\ m \in todo[n] => <<n, m>> \in edges
    /\ color[n] = "white" /\ <<n, m>> \in edges => m \in todo[n]

(* What the loop of a node on the stack has passed is finished, but for the *)
(* successor it is searching right now, unless the search has returned.     *)
PassedIsFinished ==
  result = <<>> =>
    \A i \in 1 .. Len(path), m \in Nodes :
      <<path[i], m>> \in edges /\ m \notin todo[path[i]] =>
        color[m] = "black" \/ (i < Len(path) /\ m = path[i + 1])

Black == {n \in Nodes : color[n] = "black"}

(* A set of nodes that a walk along edges need never leave. *)
KeepsToItself(S) == \A n \in S : \E m \in S : <<n, m>> \in edges

(* A node is finished after all its successors, so there is no cycle among  *)
(* the finished nodes.                                                      *)
BlackIsAcyclic ==
  /\ \A n \in Black, m \in Nodes : <<n, m>> \in edges => m \in Black
  /\ \A S \in SUBSET Black : KeepsToItself(S) => S = {}

(* What ValidateProject reports as "route graph contains a cycle" is one of *)
(* the routes: at least one edge, each step a route, back at its start, and *)
(* no other node twice.                                                     *)
CycleIsReal ==
  result # <<>> =>
    /\ Len(result) >= 2
    /\ result[1] = result[Len(result)]
    /\ \A i \in 1 .. Len(result) - 1 : <<result[i], result[i + 1]>> \in edges
    /\ \A i, k \in 1 .. Len(result) - 1 : result[i] = result[k] => i = k

Routes == INSTANCE ProjectRoutes

(* The search decides what it is for: it returns a cycle when the routes have *)
(* one, and nil only when they have none, whatever branches it abandoned,     *)
(* finished or met again on the way.                                         *)
RejectsCycles == Returned => (result # <<>> <=> Routes!Cyclic(edges))

=============================================================================
