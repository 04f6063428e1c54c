-------------------------- MODULE AlgorithmProofs --------------------------
(***************************************************************************)
(* The two algorithms of the operator, right for every input.               *)
(*                                                                          *)
(* findCycle, for every set of pipelines and every set of routes: what it   *)
(* returns is a cycle, and it returns nil exactly when there is none.  The  *)
(* inductive invariant says that the gray nodes are the stack, that the     *)
(* stack is a walk, that whatever a node's loop has passed is finished, and *)
(* that the finished nodes have no cycle.                                   *)
(*                                                                          *)
(* leastLoadedInstance, for every set of ordinals and all loads: it returns *)
(* the lowest ordinal among the least loaded ready instances.  The loop     *)
(* invariant PrefixIsLeastLoaded is inductive and implies it.               *)
(***************************************************************************)
EXTENDS FindCycle, LeastLoadedScan, SequenceTheorems, TLAPS

SearchInv ==
  /\ TypeOK
  /\ GrayIsPath
  /\ PathIsWalk
  /\ LoopsOverSuccessors
  /\ PassedIsFinished
  /\ BlackIsAcyclic
  /\ CycleIsReal

(* The search starts with nothing gray, nothing black and an empty stack.   *)
LEMMA SearchInvInit == Init => SearchInv
<1> SUFFICES ASSUME Init PROVE SearchInv
  OBVIOUS
<1>1. path = <<>> /\ Len(path) = 0 /\ result = <<>>
  BY DEF Init
<1>2. TypeOK
  BY <1>1 DEF Init, TypeOK, Adj
<1> QED BY <1>1, <1>2 DEF Init, SearchInv, GrayIsPath, PathIsWalk, LoopsOverSuccessors,
             PassedIsFinished, BlackIsAcyclic, Black, CycleIsReal, OnPath, Adj

(* As long as no node is finished, nothing changes for the finished ones.   *)
LEMMA BlackStays ==
  ASSUME BlackIsAcyclic, edges' = edges,
         \A n \in Nodes : color'[n] = "black" <=> color[n] = "black"
  PROVE  BlackIsAcyclic'
<1>1. Black' = Black
  BY DEF Black
<1> QED BY <1>1 DEF BlackIsAcyclic, KeepsToItself

(* Enter pushes one node: the old stack is a prefix of the new one.         *)
LEMMA EnterPath ==
  ASSUME TypeOK, NEW n \in Nodes, Enter(n)
  PROVE  /\ path' \in Seq(Nodes)
         /\ Len(path') = Len(path) + 1
         /\ \A i \in 1 .. Len(path) : path'[i] = path[i]
         /\ path'[Len(path) + 1] = n
         /\ Len(path) \in Nat
<1>1. path \in Seq(Nodes) BY DEF TypeOK
<1> QED BY <1>1, AppendProperties DEF Enter

(* The stack with a white node pushed on it still is the set of gray nodes, *)
(* without repetition.                                                      *)
LEMMA EnterGray ==
  ASSUME TypeOK, GrayIsPath, NEW n \in Nodes, Enter(n), color[n] = "white"
  PROVE  /\ GrayIsPath'
         /\ \A i, k \in 1 .. Len(path') : path'[i] = path'[k] => i = k
         /\ color' \in [Nodes -> {"white", "gray", "black"}]
<1> USE EnterPath
<1>1. \A i \in 1 .. Len(path) : path[i] # n
  BY DEF GrayIsPath, OnPath
<1>2. \A i, k \in 1 .. Len(path') : path'[i] = path'[k] => i = k
  <2> SUFFICES ASSUME NEW i \in 1 .. Len(path) + 1, NEW k \in 1 .. Len(path) + 1,
                      path'[i] = path'[k]
               PROVE  i = k
    OBVIOUS
  <2>1. CASE i \in 1 .. Len(path) /\ k \in 1 .. Len(path) BY <2>1 DEF TypeOK
  <2>2. CASE i = Len(path) + 1 /\ k \in 1 .. Len(path) BY <2>2, <1>1
  <2>3. CASE k = Len(path) + 1 /\ i \in 1 .. Len(path) BY <2>3, <1>1
  <2> QED BY <2>1, <2>2, <2>3
<1>3. color' \in [Nodes -> {"white", "gray", "black"}]
  BY DEF Enter, TypeOK
<1>4. ASSUME NEW m \in Nodes PROVE color'[m] = "gray" <=> OnPath(m)'
  <2>1. OnPath(m)' <=> (OnPath(m) \/ m = n)
    <3>1. ASSUME OnPath(m)' PROVE OnPath(m) \/ m = n
      BY <3>1 DEF OnPath
    <3>2. ASSUME OnPath(m) PROVE OnPath(m)'
      BY <3>2 DEF OnPath
    <3>3. ASSUME m = n PROVE OnPath(m)'
      <4>1. Len(path) + 1 \in 1 .. Len(path') /\ path'[Len(path) + 1] = m
        BY <3>3
      <4> QED BY <4>1 DEF OnPath
    <3> QED BY <3>1, <3>2, <3>3
  <2>2. color'[m] = IF m = n THEN "gray" ELSE color[m]
    BY DEF Enter, TypeOK
  <2> QED BY <2>1, <2>2 DEF GrayIsPath
<1> QED BY <1>2, <1>3, <1>4 DEF GrayIsPath

(* The outer loop starts a search at a white node.                          *)
LEMMA RootStep ==
  ASSUME SearchInv, NEW n \in Nodes, Root(n)
  PROVE  SearchInv'
<1> USE DEF SearchInv
<1>1. Enter(n) /\ color[n] = "white" /\ path = <<>> /\ Len(path) = 0 /\ result = <<>>
  BY DEF Root, IsFirst, White
<1>2. Len(path') = 1 /\ path'[1] = n
  BY <1>1, EnterPath
<1>3. TypeOK'
  BY <1>1, EnterPath, EnterGray DEF TypeOK, Root
<1>4. GrayIsPath'
  BY <1>1, EnterGray
<1>5. PathIsWalk'
  BY <1>2 DEF PathIsWalk
<1>6. \A m \in Nodes : color'[m] = IF m = n THEN "gray" ELSE color[m]
  BY <1>1 DEF Enter, TypeOK
<1>7. UNCHANGED <<edges, todo, result>>
  BY DEF Root
<1>8. LoopsOverSuccessors'
  BY <1>6, <1>7 DEF LoopsOverSuccessors
<1>9. PassedIsFinished'
  BY <1>1, <1>2, <1>7 DEF PassedIsFinished, LoopsOverSuccessors
<1>10. BlackIsAcyclic'
  BY <1>1, <1>6, <1>7, BlackStays
<1>11. CycleIsReal'
  BY <1>1, <1>7 DEF CycleIsReal
<1> QED BY <1>3, <1>4, <1>5, <1>8, <1>9, <1>10, <1>11

(* What taking the next successor of the node on top leaves behind.         *)
LEMMA TakeFacts ==
  ASSUME SearchInv, NEW m \in Nodes, Take(m)
  PROVE  /\ Len(path) \in Nat \ {0}
         /\ path \in Seq(Nodes)
         /\ Top = path[Len(path)] /\ Top \in Nodes
         /\ color[Top] = "gray"
         /\ m \in todo[Top]
         /\ result = <<>>
         /\ todo' \in [Nodes -> SUBSET Nodes]
         /\ todo'[Top] = todo[Top] \ {m}
         /\ \A q \in Nodes : q # Top => todo'[q] = todo[q]
<1>1. path \in Seq(Nodes) /\ path # <<>> BY DEF SearchInv, TypeOK, Take
<1>2. Len(path) \in Nat \ {0} BY <1>1, EmptySeq, LenProperties
<1>3. Top \in Nodes BY <1>1, <1>2, ElementOfSeq DEF Top
<1>4. color[Top] = "gray"
  BY <1>2, <1>3 DEF SearchInv, GrayIsPath, OnPath, Top
<1> QED BY <1>1, <1>2, <1>3, <1>4 DEF SearchInv, TypeOK, Take, IsFirst, Top

(* A successor that is taken was an edge, and keeps LoopsOverSuccessors.    *)
LEMMA TakeLoops ==
  ASSUME SearchInv, NEW m \in Nodes, Take(m), edges' = edges,
         \A q \in Nodes : color'[q] = "white" => color[q] = "white"
  PROVE  <<Top, m>> \in edges /\ LoopsOverSuccessors'
<1> USE TakeFacts DEF SearchInv
<1>1. <<Top, m>> \in edges
  BY DEF LoopsOverSuccessors
<1>2. ASSUME NEW a \in Nodes, NEW b \in Nodes
      PROVE  /\ b \in todo'[a] => <<a, b>> \in edges'
             /\ color'[a] = "white" /\ <<a, b>> \in edges' => b \in todo'[a]
  <2>1. CASE a = Top BY <2>1 DEF LoopsOverSuccessors
  <2>2. CASE a # Top BY <2>2 DEF LoopsOverSuccessors
  <2> QED BY <2>1, <2>2
<1> QED BY <1>1, <1>2 DEF LoopsOverSuccessors

(* Recursing into a white successor keeps the invariant: it becomes the new *)
(* top, and the loop below it waits for it.                                 *)
LEMMA DescendStep ==
  ASSUME SearchInv, NEW m \in Nodes, Descend(m)
  PROVE  SearchInv'
<1> USE DEF SearchInv
<1>1. Take(m) /\ Enter(m) /\ color[m] = "white" /\ UNCHANGED <<edges, result>>
  BY DEF Descend
<1>2. \A q \in Nodes : color'[q] = IF q = m THEN "gray" ELSE color[q]
  BY <1>1 DEF Enter, TypeOK
<1>3. TypeOK'
  BY <1>1, TakeFacts, EnterPath, EnterGray DEF TypeOK
<1>4. GrayIsPath'
  BY <1>1, EnterGray
<1>5. LoopsOverSuccessors' /\ <<Top, m>> \in edges
  BY <1>1, <1>2, TakeLoops
<1>6. PathIsWalk'
  <2> SUFFICES ASSUME NEW i \in 1 .. Len(path') - 1
               PROVE  <<path'[i], path'[i + 1]>> \in edges
    BY <1>1 DEF PathIsWalk
  <2>1. CASE i \in 1 .. Len(path) - 1
    <3>1. i \in 1 .. Len(path) /\ i + 1 \in 1 .. Len(path)
      BY <1>1, <2>1, TakeFacts
    <3>2. path'[i] = path[i] /\ path'[i + 1] = path[i + 1]
      BY <1>1, <3>1, EnterPath
    <3> QED BY <2>1, <3>2 DEF PathIsWalk
  <2>2. CASE i = Len(path)
    BY <1>1, <1>5, <2>2, EnterPath, TakeFacts
  <2> QED BY <1>1, <2>1, <2>2, EnterPath
<1>7. PassedIsFinished'
  <2> SUFFICES ASSUME NEW i \in 1 .. Len(path'), NEW q \in Nodes,
                      <<path'[i], q>> \in edges, q \notin todo'[path'[i]]
               PROVE  color'[q] = "black" \/ (i < Len(path') /\ q = path'[i + 1])
    BY <1>1 DEF PassedIsFinished
  <2>1. CASE i = Len(path) + 1
    <3>1. path'[i] = m /\ m # Top
      BY <1>1, <2>1, EnterPath, TakeFacts
    <3>2. todo'[m] = todo[m]
      BY <1>1, <3>1, TakeFacts
    <3> QED BY <1>1, <3>1, <3>2 DEF LoopsOverSuccessors
  <2>2. CASE i = Len(path)
    <3>1. path'[i] = Top /\ i + 1 \in 1 .. Len(path') /\ path'[i + 1] = m
      BY <1>1, <2>2, EnterPath, TakeFacts
    <3>2. CASE q = m BY <1>1, <2>2, <3>1, <3>2, EnterPath
    <3>3. CASE q # m
      <4>1. q \notin todo[Top] BY <1>1, <3>1, <3>3, TakeFacts
      <4>2. color[q] = "black"
        BY <1>1, <2>2, <3>1, <4>1, TakeFacts DEF PassedIsFinished
      <4> QED BY <1>2, <3>3, <4>2
    <3> QED BY <3>2, <3>3
  <2>3. CASE i \in 1 .. Len(path) - 1
    <3>0. i \in 1 .. Len(path) /\ i + 1 \in 1 .. Len(path) /\ path \in Seq(Nodes)
      BY <1>1, <2>3, TakeFacts
    <3>1. path'[i] = path[i] /\ path'[i + 1] = path[i + 1] /\ path[i] \in Nodes
      BY <1>1, <3>0, EnterPath, ElementOfSeq
    <3>2. path[i] # Top
      <4>1. i \in 1 .. Len(path) /\ Len(path) \in 1 .. Len(path) /\ i # Len(path)
        BY <1>1, <2>3, TakeFacts
      <4>2. path[i] # path[Len(path)]
        BY <4>1 DEF TypeOK
      <4> QED BY <4>2 DEF Top
    <3>3. q \notin todo[path[i]]
      BY <1>1, <3>1, <3>2, TakeFacts
    <3>4. color[q] = "black" \/ q = path[i + 1]
      BY <1>1, <2>3, <3>1, <3>3, TakeFacts DEF PassedIsFinished
    <3> QED BY <1>1, <1>2, <2>3, <3>1, <3>4, EnterPath
  <2> QED BY <1>1, <2>1, <2>2, <2>3, EnterPath
<1>8. BlackIsAcyclic'
  BY <1>1, <1>2, BlackStays
<1>9. CycleIsReal'
  BY <1>1, TakeFacts DEF CycleIsReal
<1> QED BY <1>3, <1>4, <1>5, <1>6, <1>7, <1>8, <1>9

(* Passing over a finished successor keeps the invariant; a gray one is on  *)
(* the stack and is never passed over.                                      *)
LEMMA PassStep ==
  ASSUME SearchInv, NEW m \in Nodes, Pass(m)
  PROVE  SearchInv'
<1> USE DEF SearchInv
<1>1. Take(m) /\ color[m] = "black" /\ UNCHANGED <<edges, color, path, result>>
  BY DEF Pass, GrayIsPath
<1>2. TypeOK'
  BY <1>1, TakeFacts DEF TypeOK
<1>3. GrayIsPath' /\ PathIsWalk' /\ BlackIsAcyclic' /\ CycleIsReal'
  BY <1>1, BlackStays DEF GrayIsPath, PathIsWalk, CycleIsReal, OnPath
<1>4. LoopsOverSuccessors'
  BY <1>1, TakeLoops
<1>5. PassedIsFinished'
  <2> SUFFICES ASSUME NEW i \in 1 .. Len(path), NEW q \in Nodes,
                      <<path[i], q>> \in edges, q \notin todo'[path[i]], q # m
               PROVE  color[q] = "black" \/ (i < Len(path) /\ q = path[i + 1])
    BY <1>1 DEF PassedIsFinished
  <2>1. path[i] \in Nodes BY <1>1, TakeFacts, ElementOfSeq
  <2>2. q \notin todo[path[i]] BY <1>1, <2>1, TakeFacts
  <2> QED BY <1>1, <2>2, TakeFacts DEF PassedIsFinished
<1> QED BY <1>2, <1>3, <1>4, <1>5

(* A gray successor closes a cycle: the stack from it to the top, and it.   *)
LEMMA CloseStep ==
  ASSUME SearchInv, NEW m \in Nodes, Close(m)
  PROVE  SearchInv'
<1> USE DEF SearchInv
<1>1. Take(m) /\ UNCHANGED <<edges, color, path>>
  BY DEF Close
<1>2. PICK i \in 1 .. Len(path) :
        path[i] = m /\ result' = Append(SubSeq(path, i, Len(path)), m)
  BY DEF Close
<1> DEFINE cyc == SubSeq(path, i, Len(path))
           len == Len(path) - i + 1
<1>3. /\ cyc \in Seq(Nodes) /\ Len(cyc) = len /\ len \in Nat \ {0}
      /\ \A k \in 1 .. len : cyc[k] = path[i + k - 1]
  BY <1>1, TakeFacts, SubSeqProperties
<1>4. /\ result' \in Seq(Nodes) /\ Len(result') = len + 1
      /\ \A k \in 1 .. len : result'[k] = path[i + k - 1]
      /\ result'[len + 1] = m
  BY <1>2, <1>3, AppendProperties
<1>5. TypeOK'
  BY <1>1, <1>4, TakeFacts DEF TypeOK
<1>6. GrayIsPath' /\ PathIsWalk' /\ BlackIsAcyclic'
  BY <1>1, BlackStays DEF GrayIsPath, PathIsWalk, OnPath
<1>7. LoopsOverSuccessors' /\ <<Top, m>> \in edges
  BY <1>1, TakeLoops
<1>8. result' # <<>>
  BY <1>3, <1>4
<1>9. PassedIsFinished'
  BY <1>8 DEF PassedIsFinished
<1>10. CycleIsReal'
  <2>1. Len(result') >= 2 /\ result'[1] = result'[Len(result')]
    BY <1>2, <1>3, <1>4
  <2>2. ASSUME NEW k \in 1 .. Len(result') - 1
        PROVE  <<result'[k], result'[k + 1]>> \in edges'
    <3>1. CASE k = len
      <4>1. result'[k] = Top BY <1>1, <1>3, <1>4, <3>1, TakeFacts
      <4> QED BY <1>1, <1>4, <1>7, <3>1, <4>1
    <3>2. CASE k \in 1 .. len - 1
      <4>1. result'[k] = path[i + k - 1] /\ result'[k + 1] = path[i + k]
        BY <1>3, <1>4, <3>2
      <4>2. i + k - 1 \in 1 .. Len(path) - 1
        BY <1>1, <3>2, TakeFacts
      <4>3. <<path[i + k - 1], path[(i + k - 1) + 1]>> \in edges
        BY <4>2 DEF PathIsWalk
      <4>4. (i + k - 1) + 1 = i + k
        OBVIOUS
      <4> QED BY <1>1, <4>1, <4>3, <4>4
    <3>3. k = len \/ k \in 1 .. len - 1
      <4>1. len \in Nat \ {0} /\ Len(result') = len + 1
        BY <1>3, <1>4
      <4> HIDE DEF len
      <4> QED BY <4>1
    <3> QED BY <3>1, <3>2, <3>3
  <2>3. ASSUME NEW k \in 1 .. Len(result') - 1, NEW j \in 1 .. Len(result') - 1,
               result'[k] = result'[j]
        PROVE  k = j
    <3>1. k \in 1 .. len /\ j \in 1 .. len /\ path[i + k - 1] = path[i + j - 1]
      BY <1>3, <1>4, <2>3
    <3>2. i + k - 1 \in 1 .. Len(path) /\ i + j - 1 \in 1 .. Len(path)
      BY <1>1, <3>1, TakeFacts
    <3>3. i + k - 1 = i + j - 1
      BY <3>1, <3>2 DEF TypeOK
    <3> QED BY <3>1, <3>3
  <2> QED BY <2>1, <2>2, <2>3 DEF CycleIsReal
<1> QED BY <1>5, <1>6, <1>7, <1>9, <1>10

(* Finishing the node on top keeps the invariant: all its successors are    *)
(* black, so no cycle runs through it.                                      *)
LEMMA LeaveStep ==
  ASSUME SearchInv, Leave
  PROVE  SearchInv'
<1> USE DEF SearchInv
<1> DEFINE t == Top
           len == Len(path)
<1>1. path \in Seq(Nodes) /\ path # <<>> /\ result = <<>> /\ todo[t] = {}
  BY DEF TypeOK, Leave
<1>2. len \in Nat \ {0} /\ t \in Nodes /\ t = path[len]
  BY <1>1, EmptySeq, LenProperties, ElementOfSeq DEF Top
<1>3. /\ path' \in Seq(Nodes) /\ Len(path') = len - 1
      /\ \A i \in 1 .. len - 1 : path'[i] = path[i]
  <2>1. path' = SubSeq(path, 1, len - 1) BY DEF Leave
  <2>2. 1 \in 1 .. len + 1 /\ len - 1 \in 0 .. len
    BY <1>2
  <2>3. /\ SubSeq(path, 1, len - 1) \in Seq(Nodes)
        /\ Len(SubSeq(path, 1, len - 1)) =
             IF 1 <= len - 1 THEN (len - 1) - 1 + 1 ELSE 0
        /\ \A i \in 1 .. (len - 1) - 1 + 1 :
             SubSeq(path, 1, len - 1)[i] = path[1 + i - 1]
    BY <1>1, <2>2, SubSeqProperties
  <2>4. Len(path') = len - 1
    <3>1. len \in Nat \ {0} BY <1>2
    <3> HIDE DEF len
    <3>2. (IF 1 <= len - 1 THEN (len - 1) - 1 + 1 ELSE 0) = len - 1
      BY <3>1
    <3> QED BY <2>1, <2>3, <3>2
  <2>5. ASSUME NEW i \in 1 .. len - 1 PROVE path'[i] = path[i]
    <3>1. i \in 1 .. (len - 1) - 1 + 1 /\ 1 + i - 1 = i
      BY <1>2
    <3> QED BY <2>1, <2>3, <3>1
  <2> QED BY <2>1, <2>3, <2>4, <2>5
<1>4. /\ UNCHANGED <<edges, todo, result>>
      /\ \A q \in Nodes : color'[q] = IF q = t THEN "black" ELSE color[q]
      /\ color' \in [Nodes -> {"white", "gray", "black"}]
  BY <1>2 DEF Leave, TypeOK
<1>5. \A i \in 1 .. len - 1 : path[i] # t
  BY <1>2 DEF TypeOK
<1>6. TypeOK'
  <2>1. \A i, k \in 1 .. Len(path') : path'[i] = path'[k] => i = k
    <3> SUFFICES ASSUME NEW i \in 1 .. len - 1, NEW k \in 1 .. len - 1,
                        path'[i] = path'[k]
                 PROVE  i = k
      BY <1>3
    <3>1. i \in 1 .. len /\ k \in 1 .. len /\ path[i] = path[k]
      BY <1>2, <1>3
    <3> QED BY <3>1 DEF TypeOK
  <2> QED BY <1>3, <1>4, <2>1 DEF TypeOK
<1>7. GrayIsPath'
  <2> SUFFICES ASSUME NEW q \in Nodes PROVE color'[q] = "gray" <=> OnPath(q)'
    BY DEF GrayIsPath
  <2>1. OnPath(q)' => OnPath(q) /\ q # t
    BY <1>2, <1>3, <1>5 DEF OnPath
  <2>2. OnPath(q) /\ q # t => OnPath(q)'
    BY <1>2, <1>3 DEF OnPath
  <2> QED BY <1>4, <2>1, <2>2 DEF GrayIsPath
<1>8. PathIsWalk'
  BY <1>2, <1>3, <1>4 DEF PathIsWalk
<1>9. LoopsOverSuccessors'
  BY <1>4 DEF LoopsOverSuccessors
<1>10. \A q \in Nodes : <<t, q>> \in edges => color[q] = "black"
  BY <1>1, <1>2 DEF PassedIsFinished
<1>11. PassedIsFinished'
  <2> SUFFICES ASSUME NEW i \in 1 .. len - 1, NEW q \in Nodes,
                      <<path[i], q>> \in edges, q \notin todo[path[i]]
               PROVE  color'[q] = "black" \/ (i < len - 1 /\ q = path'[i + 1])
    BY <1>2, <1>3, <1>4 DEF PassedIsFinished
  <2>1. color[q] = "black" \/ q = path[i + 1]
    BY <1>1, <1>2 DEF PassedIsFinished
  <2>2. CASE i = len - 1 BY <1>2, <1>4, <2>1, <2>2
  <2>3. CASE i < len - 1
    <3>1. i + 1 \in 1 .. len - 1
      BY <1>2, <2>3
    <3>2. path'[i + 1] = path[i + 1]
      BY <1>3, <3>1
    <3>3. color[q] = "black" => color'[q] = "black"
      BY <1>4
    <3> QED BY <2>1, <2>3, <3>2, <3>3
  <2> QED BY <1>2, <2>2, <2>3
<1>12. BlackIsAcyclic'
  <2>1. Black' = Black \cup {t} /\ t \notin Black
    BY <1>2, <1>4 DEF Black, GrayIsPath, OnPath
  <2>2. ASSUME NEW q \in Black', NEW r \in Nodes, <<q, r>> \in edges PROVE r \in Black
    BY <1>10, <2>1, <2>2 DEF BlackIsAcyclic, Black
  <2>3. ASSUME NEW S \in SUBSET Black', \A n \in S : \E m \in S : <<n, m>> \in edges
        PROVE  S = {}
    <3>1. S \subseteq Nodes
      BY DEF Black
    <3>2. \A n \in S : \E m \in S : <<n, m>> \in edges /\ m \in Black
      BY <2>2, <2>3, <3>1
    <3>3. S \ {t} \in SUBSET Black /\ \A n \in S : \E m \in S \ {t} : <<n, m>> \in edges
      BY <2>1, <3>2
    <3>4. S \ {t} = {}
      BY <3>3 DEF BlackIsAcyclic, KeepsToItself
    <3> QED BY <3>3, <3>4
  <2>4. edges' = edges
    BY <1>4
  <2> QED BY <2>1, <2>2, <2>3, <2>4 DEF BlackIsAcyclic, KeepsToItself
<1>13. CycleIsReal'
  BY <1>1, <1>4 DEF CycleIsReal
<1> QED BY <1>6, <1>7, <1>8, <1>9, <1>11, <1>12, <1>13

(* Every step of the search keeps the invariant.                            *)
LEMMA SearchInvNext == SearchInv /\ [Next]_vars => SearchInv'
<1> SUFFICES ASSUME SearchInv, [Next]_vars PROVE SearchInv'
  OBVIOUS
<1>1. CASE UNCHANGED vars
  BY <1>1, BlackStays DEF vars, SearchInv, TypeOK, GrayIsPath, PathIsWalk, LoopsOverSuccessors,
       PassedIsFinished, CycleIsReal, OnPath
<1> QED BY <1>1, RootStep, DescendStep, CloseStep, PassStep, LeaveStep DEF Next

(* The search keeps the invariant throughout.                               *)
LEMMA SearchInvAlways == Spec => []SearchInv
BY SearchInvInit, SearchInvNext, PTL DEF Spec

(* The variables of findCycle stay in their types, and no pipeline is twice *)
(* on the recursion stack, so the recursion is no deeper than the project.  *)
THEOREM SearchTypeOK == Spec => []TypeOK
<1>1. SearchInv => TypeOK BY DEF SearchInv
<1> QED BY <1>1, SearchInvAlways, PTL

(* A project is rejected only for a cycle its routes really have.           *)
THEOREM SearchIsSound == Spec => []CycleIsReal
<1>1. SearchInv => CycleIsReal BY DEF SearchInv
<1> QED BY <1>1, SearchInvAlways, PTL

(* Routes are rejected exactly when they are cyclic, for any number of      *)
(* pipelines and routes.  One direction is the cycle itself, the other that  *)
(* the search finishes every node and finished nodes have no cycle.         *)
THEOREM SearchDecides == Spec => []RejectsCycles
<1>1. ASSUME SearchInv, result # <<>> PROVE Routes!Cyclic(edges)
  <2> DEFINE len == Len(result)
             S == {result[i] : i \in 1 .. len - 1}
  <2>1. /\ len \in Nat /\ len >= 2 /\ result[1] = result[len]
        /\ \A i \in 1 .. len - 1 : <<result[i], result[i + 1]>> \in edges
    BY <1>1 DEF SearchInv, TypeOK, CycleIsReal
  <2> HIDE DEF len
  <2>2. S # {}
    BY <2>1
  <2>3. S \subseteq {e[1] : e \in edges}
    <3>1. ASSUME NEW i \in 1 .. len - 1 PROVE \E e \in edges : result[i] = e[1]
      <4>1. <<result[i], result[i + 1]>> \in edges
        BY <2>1
      <4> QED BY <4>1
    <3> QED BY <3>1
  <2>4. ASSUME NEW n \in S PROVE \E m \in S : <<n, m>> \in edges
    <3>1. PICK i \in 1 .. len - 1 : n = result[i]
      OBVIOUS
    <3>2. <<n, result[i + 1]>> \in edges
      BY <2>1, <3>1
    <3>3. result[i + 1] \in S
      <4>1. CASE i + 1 \in 1 .. len - 1
        BY <4>1
      <4>2. CASE i + 1 = len
        <5>1. 1 \in 1 .. len - 1 /\ result[i + 1] = result[1]
          BY <2>1, <4>2
        <5> QED BY <5>1
      <4>3. i + 1 \in 1 .. len - 1 \/ i + 1 = len
        BY <2>1
      <4> QED BY <4>1, <4>2, <4>3
    <3> QED BY <3>2, <3>3
  <2> QED BY <2>2, <2>3, <2>4 DEF Routes!Cyclic
<1>2. ASSUME SearchInv, path = <<>>, White = {}, Routes!Cyclic(edges) PROVE FALSE
  <2>1. PICK S \in SUBSET {e[1] : e \in edges} :
          S # {} /\ \A n \in S : \E m \in S : <<n, m>> \in edges
    BY <1>2 DEF Routes!Cyclic
  <2>2. ASSUME NEW n \in S PROVE n \in Black
    <3>1. PICK m \in S : <<n, m>> \in edges
      BY <2>1
    <3>2. n \in Nodes /\ m \in Nodes
      BY <1>2, <3>1 DEF SearchInv, TypeOK
    <3>3. color[n] # "white"
      BY <1>2, <3>1, <3>2 DEF White, NodeSet
    <3>4. Len(path) = 0
      BY <1>2
    <3>5. color[n] # "gray"
      BY <1>2, <3>2, <3>4 DEF SearchInv, GrayIsPath, OnPath
    <3> QED BY <1>2, <3>2, <3>3, <3>5 DEF SearchInv, TypeOK, Black
  <2> QED BY <1>2, <2>1, <2>2 DEF SearchInv, BlackIsAcyclic, KeepsToItself
<1>3. SearchInv => RejectsCycles
  BY <1>1, <1>2 DEF RejectsCycles, Returned
<1> QED BY <1>3, SearchInvAlways, PTL

-----------------------------------------------------------------------------
(* leastLoadedInstance *)

LoopInv == ScanTypeOK /\ PrefixIsLeastLoaded

(* The first iteration starts with the invariant: the first ordinal of the   *)
(* sorted slice is the least loaded of the one-element prefix.               *)
LEMMA LoopInvInit == ScanInit => LoopInv
BY OrdinalsAreNaturals, MaxLoadIsNatural
   DEF ScanInit, LoopInv, ScanTypeOK, PrefixIsLeastLoaded, IsLeastLoaded, IsNextOrdinal

(* An iteration keeps the invariant: the visited ordinal is above the whole  *)
(* prefix, so it takes over only when its load is strictly smaller.          *)
LEMMA LoopInvNext == LoopInv /\ [ScanNext]_scanVars => LoopInv'
<1> SUFFICES ASSUME LoopInv, [ScanNext]_scanVars PROVE LoopInv'
  OBVIOUS
<1> USE OrdinalsAreNaturals, MaxLoadIsNatural
<1>1. ASSUME NEW o \in Ordinals, Visit(o) PROVE LoopInv'
  <2>1. ScanTypeOK'
    BY <1>1 DEF LoopInv, ScanTypeOK, Visit, IsNextOrdinal
  <2>2. readyOrdinals' \ sorted' = (readyOrdinals \ sorted) \cup {o}
    BY <1>1 DEF LoopInv, ScanTypeOK, Visit, IsNextOrdinal
  <2>3. \A q \in readyOrdinals : q \in Nat /\ loadByOrdinal[q] \in Nat
    BY DEF LoopInv, ScanTypeOK
  <2>4. \A q \in readyOrdinals \ sorted : q < o
    BY <1>1 DEF LoopInv, PrefixIsLeastLoaded, Visit, IsNextOrdinal
  <2>5. IsLeastLoaded(best', readyOrdinals' \ sorted', loadByOrdinal')
    <3>1. CASE loadByOrdinal[o] < loadByOrdinal[best]
      BY <1>1, <2>2, <2>3, <2>4, <3>1
         DEF LoopInv, ScanTypeOK, PrefixIsLeastLoaded, IsLeastLoaded, Visit, IsNextOrdinal
    <3>2. CASE ~(loadByOrdinal[o] < loadByOrdinal[best])
      BY <1>1, <2>2, <2>3, <2>4, <3>2
         DEF LoopInv, ScanTypeOK, PrefixIsLeastLoaded, IsLeastLoaded, Visit, IsNextOrdinal
    <3> QED BY <3>1, <3>2
  <2>6. \A q \in readyOrdinals' \ sorted', later \in sorted' : q < later
    BY <1>1, <2>2, <2>3, <2>4 DEF LoopInv, ScanTypeOK, PrefixIsLeastLoaded, Visit, IsNextOrdinal
  <2> QED BY <2>1, <2>5, <2>6 DEF LoopInv, PrefixIsLeastLoaded
<1>2. CASE UNCHANGED scanVars
  BY <1>2 DEF scanVars, LoopInv, ScanTypeOK, PrefixIsLeastLoaded, IsLeastLoaded
<1> QED BY <1>1, <1>2 DEF ScanNext

(* leastLoadedInstance's result has the fewest placed pipelines among the    *)
(* ready instances and is the lowest such ordinal, for every input.          *)
THEOREM ScanIsCorrect == ScanSpec => []ReturnsLeastLoaded
<1>1. LoopInv => ReturnsLeastLoaded
  <2> SUFFICES ASSUME LoopInv, sorted = {} PROVE IsLeastLoaded(best, readyOrdinals, loadByOrdinal)
    BY DEF ReturnsLeastLoaded
  <2>1. readyOrdinals \ sorted = readyOrdinals
    OBVIOUS
  <2> QED BY <2>1 DEF LoopInv, PrefixIsLeastLoaded
<1> QED BY <1>1, LoopInvInit, LoopInvNext, PTL DEF ScanSpec

(* The loop of leastLoadedInstance never picks an instance that is not      *)
(* ready, and never one it has still to visit.                              *)
THEOREM ScanTypes == ScanSpec => []ScanTypeOK
<1>1. LoopInv => ScanTypeOK BY DEF LoopInv
<1> QED BY <1>1, LoopInvInit, LoopInvNext, PTL DEF ScanSpec

=============================================================================
