------------------------- MODULE ApiHandlersProofs -------------------------
(***************************************************************************)
(* For any number of requests in flight, any bodies, both ways to read and  *)
(* any number of versions: an update replaces only the spec its Get         *)
(* returned.  A resource version is given out once, so two copies of an     *)
(* object that bear the same version are the same object.                   *)
(***************************************************************************)
EXTENDS ApiHandlers, TLAPS

Verbs == {"none", "create", "update", "delete", "stop", "run"}
AnyBody == UNION {Bodies(k) : k \in Kinds}
AnySpec == UNION {Specs(k) : k \in Kinds}

(* The types of the whole state. *)
Typed ==
  /\ last \in 0 .. MaxVersion
  /\ obj \in [Kinds -> [rv : Nat, spec : AnySpec]]
  /\ seen \in [Kinds -> [rv : Nat, spec : AnySpec]]
  /\ \A k \in Kinds : /\ obj[k].rv <= last /\ obj[k].spec \in Specs(k)
                      /\ seen[k].rv <= last /\ seen[k].spec \in Specs(k)
  /\ pc \in [Requests -> {"idle", "get", "check", "write"}]
  /\ op \in [Requests -> [verb : Verbs, kind : Kinds, body : AnyBody]]
  /\ cur \in [Requests -> [rv : Nat, spec : AnySpec]]
  /\ \A t \in Requests :
       /\ op[t].body \in Bodies(op[t].kind)
       /\ op[t].verb \in {"stop", "run"} => op[t].kind = "pipeline"
       /\ cur[t].rv <= last
       /\ pc[t] \in {"check", "write"} /\ op[t].verb # "create" =>
            cur[t].rv # 0 /\ cur[t].spec \in Specs(op[t].kind)

(* A version names one spec. *)
SameVersion(a, b) == a.rv # 0 /\ a.rv = b.rv => a.spec = b.spec

Versioned ==
  /\ \A k \in Kinds : SameVersion(obj[k], seen[k])
  /\ \A t \in Requests :
       pc[t] \in {"check", "write"} /\ op[t].verb # "create" =>
         SameVersion(obj[op[t].kind], cur[t])

(* What the steps preserve. *)
ApiInv == Typed /\ Versioned

-----------------------------------------------------------------------------
(* A body may be stored, stopping or running it changes nothing else, and    *)
(* there is one for every kind.                                             *)
LEMMA BodyFacts ==
  ASSUME NEW k \in Kinds
  PROVE  /\ Bodies(k) \subseteq Specs(k) /\ Bodies(k) \subseteq AnyBody /\ Specs(k) \subseteq AnySpec
         /\ Absent(k).rv = 0 /\ Absent(k).spec \in Bodies(k)
         /\ Absent(k) \in [rv : Nat, spec : AnySpec]
<1>1. ASSUME NEW s \in PipelineSpecs PROVE s \in Specs("pipeline")
  <2>1. s \in [stopped : BOOLEAN, projectRef : BOOLEAN, clusterRef : BOOLEAN, labels : BOOLEAN,
               raw : {"", "parses", "broken"}, input : {"", "known", "unknown"},
               output : {"", "known", "unknown"}, secrets : {"ok", "incomplete", "duplicate"}]
    BY BodiesAreTyped
  <2>2. s = [s EXCEPT !.stopped = s.stopped] /\ s.stopped \in BOOLEAN BY <2>1
  <2> QED BY <2>2 DEF Specs
<1>2. Bodies(k) \subseteq Specs(k) BY <1>1 DEF Bodies, Specs, Kinds
<1>3. Bodies(k) \subseteq AnyBody /\ Specs(k) \subseteq AnySpec BY DEF AnyBody, AnySpec
<1>4. Bodies(k) # {}
  <2>1. CASE k = "pipeline" BY <2>1, BodiesAreTyped DEF Bodies
  <2>2. CASE k = "cluster" BY <2>2 DEF Bodies
  <2>3. CASE k = "project"
    <3>1. Bodies(k) = BOOLEAN BY <2>3 DEF Bodies
    <3> QED BY <3>1
  <2> QED BY <2>1, <2>2, <2>3 DEF Kinds
<1>5. (CHOOSE s \in Bodies(k) : TRUE) \in Bodies(k) BY <1>4
<1> QED BY <1>2, <1>3, <1>5 DEF Absent

(* Stop and run keep a spec storable. *)
LEMMA StoppedFacts ==
  ASSUME NEW s \in Specs("pipeline"), NEW b \in BOOLEAN
  PROVE  [s EXCEPT !.stopped = b] \in Specs("pipeline")
<1>1. PICK r \in PipelineSpecs, c \in BOOLEAN : s = [r EXCEPT !.stopped = c]
  BY DEF Specs
<1>2. r \in [stopped : BOOLEAN, projectRef : BOOLEAN, clusterRef : BOOLEAN, labels : BOOLEAN,
             raw : {"", "parses", "broken"}, input : {"", "known", "unknown"},
             output : {"", "known", "unknown"}, secrets : {"ok", "incomplete", "duplicate"}]
  BY BodiesAreTyped
<1>3. [s EXCEPT !.stopped = b] = [r EXCEPT !.stopped = b] BY <1>1, <1>2
<1> QED BY <1>3 DEF Specs

(* The operation of an idle request is well typed. *)
LEMMA OpFacts ==
  /\ NoOp \in [verb : Verbs, kind : Kinds, body : AnyBody]
  /\ NoOp.verb = "none" /\ NoOp.kind = "cluster" /\ NoOp.body \in Bodies("cluster")
<1>1. "cluster" \in Kinds /\ 1 \in Bodies("cluster") BY DEF Kinds, Bodies
<1>2. 1 \in AnyBody BY <1>1, BodyFacts
<1> QED BY <1>1, <1>2 DEF NoOp, Verbs

(* Nothing is stored and no request is under way. *)
LEMMA InitInv == Init => ApiInv
<1> SUFFICES ASSUME Init PROVE ApiInv OBVIOUS
<1> USE DEF Init
<1>0. "cluster" \in Kinds BY DEF Kinds
<1>1. last \in 0 .. MaxVersion BY ApiConstants
<1>2. \A k \in Kinds : /\ obj[k] = Absent(k) /\ seen[k] = Absent(k)
                       /\ obj[k].rv = 0 /\ obj[k].spec \in Specs(k)
  BY BodyFacts
<1>3. obj \in [Kinds -> [rv : Nat, spec : AnySpec]] /\ seen \in [Kinds -> [rv : Nat, spec : AnySpec]]
  BY BodyFacts
<1>4. /\ pc \in [Requests -> {"idle", "get", "check", "write"}]
      /\ op \in [Requests -> [verb : Verbs, kind : Kinds, body : AnyBody]]
      /\ cur \in [Requests -> [rv : Nat, spec : AnySpec]]
  BY <1>0, BodyFacts, OpFacts
<1>5. \A t \in Requests : op[t] = NoOp /\ cur[t].rv = 0 /\ pc[t] = "idle"
  BY <1>0, BodyFacts
<1>6. Typed BY <1>1, <1>2, <1>3, <1>4, <1>5, OpFacts DEF Typed
<1>7. Versioned BY <1>2, <1>5 DEF Versioned, SameVersion
<1> QED BY <1>6, <1>7 DEF ApiInv

-----------------------------------------------------------------------------
(* A step on the objects: none changes, or one gets a version never used     *)
(* before with a spec that may be stored, or it goes.                       *)
ObjectsMove ==
  \/ UNCHANGED <<obj, last>>
  \/ \E k \in Kinds : \E s \in Specs(k) :
       /\ last < MaxVersion /\ last' = last + 1
       /\ obj' = [obj EXCEPT ![k] = [rv |-> last + 1, spec |-> s]]
  \/ \E k \in Kinds : obj' = [obj EXCEPT ![k] = Absent(k)] /\ last' = last

(* What every write of the store has in common: it gives out a new version  *)
(* or deletes.                                                              *)
LEMMA MoveFacts ==
  ASSUME ApiInv, ObjectsMove
  PROVE  /\ last' \in 0 .. MaxVersion /\ last <= last'
         /\ obj' \in [Kinds -> [rv : Nat, spec : AnySpec]]
         /\ \A k \in Kinds : obj'[k].rv <= last' /\ obj'[k].spec \in Specs(k)
         /\ \A k \in Kinds : obj'[k] = obj[k] \/ obj'[k].rv = 0 \/ obj'[k].rv > last
<1>0. /\ last \in 0 .. MaxVersion /\ obj \in [Kinds -> [rv : Nat, spec : AnySpec]]
      /\ \A k \in Kinds : obj[k].rv <= last /\ obj[k].spec \in Specs(k)
      /\ last \in Nat /\ MaxVersion \in Nat
  BY ApiConstants DEF ApiInv, Typed
<1>1. CASE UNCHANGED <<obj, last>> BY <1>0, <1>1
<1>2. ASSUME NEW k \in Kinds, NEW s \in Specs(k),
             last < MaxVersion, last' = last + 1,
             obj' = [obj EXCEPT ![k] = [rv |-> last + 1, spec |-> s]]
      PROVE  /\ last' \in 0 .. MaxVersion /\ last <= last'
             /\ obj' \in [Kinds -> [rv : Nat, spec : AnySpec]]
             /\ \A j \in Kinds : obj'[j].rv <= last' /\ obj'[j].spec \in Specs(j)
             /\ \A j \in Kinds : obj'[j] = obj[j] \/ obj'[j].rv = 0 \/ obj'[j].rv > last
  <2>1. last' \in 0 .. MaxVersion /\ last <= last' /\ last + 1 \in Nat /\ last + 1 > last
    BY <1>0, <1>2
  <2>2. s \in AnySpec BY BodyFacts
  <2>3. /\ obj'[k].rv = last + 1 /\ obj'[k].spec = s
        /\ \A j \in Kinds : j # k => obj'[j] = obj[j]
        /\ obj' \in [Kinds -> [rv : Nat, spec : AnySpec]]
    BY <1>0, <1>2, <2>1, <2>2
  <2>4. \A j \in Kinds : obj'[j].rv <= last' /\ obj'[j].spec \in Specs(j)
    <3> SUFFICES ASSUME NEW j \in Kinds PROVE obj'[j].rv <= last' /\ obj'[j].spec \in Specs(j)
      OBVIOUS
    <3>1. CASE j = k BY <3>1, <2>1, <2>3, <1>2
    <3>2. CASE j # k
      <4>1. obj[j].rv \in Nat BY <1>0
      <4> QED BY <3>2, <4>1, <2>1, <2>3, <1>0, <1>2
    <3> QED BY <3>1, <3>2
  <2> QED BY <1>0, <1>2, <2>1, <2>3, <2>4
<1>3. ASSUME NEW k \in Kinds, obj' = [obj EXCEPT ![k] = Absent(k)], last' = last
      PROVE  /\ last' \in 0 .. MaxVersion /\ last <= last'
             /\ obj' \in [Kinds -> [rv : Nat, spec : AnySpec]]
             /\ \A j \in Kinds : obj'[j].rv <= last' /\ obj'[j].spec \in Specs(j)
             /\ \A j \in Kinds : obj'[j] = obj[j] \/ obj'[j].rv = 0 \/ obj'[j].rv > last
  <2>1. Absent(k).rv = 0 /\ Absent(k).spec \in Specs(k) /\ Absent(k) \in [rv : Nat, spec : AnySpec]
    BY BodyFacts
  <2>2. /\ obj'[k] = Absent(k)
        /\ \A j \in Kinds : j # k => obj'[j] = obj[j]
        /\ obj' \in [Kinds -> [rv : Nat, spec : AnySpec]]
    BY <1>0, <1>3, <2>1
  <2> QED BY <1>0, <1>3, <2>1, <2>2
<1> QED BY <1>1, <1>2, <1>3 DEF ObjectsMove

(* Such a step leaves every copy of an object what its version says. *)
LEMMA MoveKeepsVersions ==
  ASSUME ApiInv, ObjectsMove, NEW k \in Kinds, NEW c, c.rv \in Nat, c.rv <= last,
         SameVersion(obj[k], c)
  PROVE  SameVersion(obj'[k], c)
<1>1. /\ obj'[k] = obj[k] \/ obj'[k].rv = 0 \/ obj'[k].rv > last
      /\ obj'[k].rv \in Nat /\ last \in Nat
  BY MoveFacts DEF ApiInv, Typed
<1>2. CASE obj'[k] = obj[k] BY <1>2
<1>3. CASE obj'[k].rv = 0 BY <1>3 DEF SameVersion
<1>4. CASE obj'[k].rv > last BY <1>1, <1>4 DEF SameVersion
<1> QED BY <1>1, <1>2, <1>3, <1>4

(* A request that ends, and the objects moving. *)
LEMMA AnswerKeeps ==
  ASSUME ApiInv, NEW t \in Requests, ObjectsMove, Answer(t), UNCHANGED seen
  PROVE  ApiInv'
<1>0. "cluster" \in Kinds /\ last \in Nat BY DEF Kinds, ApiInv, Typed
<1>1. /\ pc' \in [Requests -> {"idle", "get", "check", "write"}]
      /\ op' \in [Requests -> [verb : Verbs, kind : Kinds, body : AnyBody]]
      /\ cur' \in [Requests -> [rv : Nat, spec : AnySpec]]
      /\ pc'[t] = "idle" /\ op'[t] = NoOp /\ cur'[t] = Absent("cluster")
      /\ \A u \in Requests : u # t => pc'[u] = pc[u] /\ op'[u] = op[u] /\ cur'[u] = cur[u]
  BY <1>0, BodyFacts, OpFacts DEF ApiInv, Typed, Answer, Goto
<1>2. /\ last' \in 0 .. MaxVersion /\ last <= last'
      /\ obj' \in [Kinds -> [rv : Nat, spec : AnySpec]]
      /\ \A k \in Kinds : obj'[k].rv <= last' /\ obj'[k].spec \in Specs(k)
  BY MoveFacts
<1>3. \A k \in Kinds : seen[k].rv \in Nat /\ seen[k].rv <= last BY DEF ApiInv, Typed
<1>4. \A u \in Requests : cur[u].rv \in Nat /\ cur[u].rv <= last BY DEF ApiInv, Typed
<1>5. Absent("cluster").rv = 0 BY <1>0, BodyFacts
<1>6. last' \in Nat BY <1>2, ApiConstants
<1>7. Typed'
  <2>1. \A k \in Kinds : seen'[k].rv <= last' /\ seen'[k].spec \in Specs(k)
    <3>1. \A k \in Kinds : seen[k].spec \in Specs(k) BY DEF ApiInv, Typed
    <3> QED BY <3>1, <1>0, <1>2, <1>3, <1>6
  <2>2. ASSUME NEW u \in Requests
        PROVE  /\ op'[u].body \in Bodies(op'[u].kind)
               /\ op'[u].verb \in {"stop", "run"} => op'[u].kind = "pipeline"
               /\ cur'[u].rv <= last'
               /\ pc'[u] \in {"check", "write"} /\ op'[u].verb # "create" =>
                    cur'[u].rv # 0 /\ cur'[u].spec \in Specs(op'[u].kind)
    <3>1. CASE u = t BY <3>1, <1>1, <1>5, <1>6, OpFacts
    <3>2. CASE u # t
      <4>1. cur'[u].rv <= last' BY <3>2, <1>0, <1>1, <1>2, <1>4, <1>6
      <4> QED BY <3>2, <4>1, <1>1 DEF ApiInv, Typed
    <3> QED BY <3>1, <3>2
  <2> QED BY <1>1, <1>2, <2>1, <2>2 DEF ApiInv, Typed
<1>8. Versioned'
  <2>1. \A k \in Kinds : SameVersion(obj'[k], seen'[k])
    BY <1>3, MoveKeepsVersions DEF ApiInv, Versioned
  <2>2. ASSUME NEW u \in Requests, pc'[u] \in {"check", "write"}, op'[u].verb # "create"
        PROVE  SameVersion(obj'[op'[u].kind], cur'[u])
    <3>1. u # t /\ op'[u] = op[u] /\ cur'[u] = cur[u] /\ pc'[u] = pc[u] BY <2>2, <1>1
    <3>2. op[u].kind \in Kinds /\ SameVersion(obj[op[u].kind], cur[u])
      BY <3>1, <2>2 DEF ApiInv, Typed, Versioned
    <3> QED BY <3>1, <3>2, <1>4, MoveKeepsVersions
  <2> QED BY <2>1, <2>2 DEF Versioned, SameVersion
<1> QED BY <1>7, <1>8 DEF ApiInv

(* A request arrives and its body is remembered. *)
LEMMA ReceiveKeeps ==
  ASSUME ApiInv, NEW t \in Requests, NEW verb \in Verbs, NEW k \in Kinds, NEW body \in Bodies(k),
         verb \in {"stop", "run"} => k = "pipeline",
         Receive(t, verb, k, body)
  PROVE  ApiInv'
<1> DEFINE new == [verb |-> verb, kind |-> k, body |-> body]
           to == IF verb # "create" THEN "get" ELSE IF k = "project" THEN "check" ELSE "write"
<1>0. /\ op' = [op EXCEPT ![t] = new] /\ pc' = [pc EXCEPT ![t] = to]
      /\ UNCHANGED <<obj, seen, last, cur>>
  BY DEF Receive, Goto
<1>1. /\ to \in {"get", "check", "write"} /\ (to # "get" => verb = "create")
      /\ new \in [verb : Verbs, kind : Kinds, body : AnyBody]
      /\ new.verb = verb /\ new.kind = k /\ new.body = body
  BY BodyFacts
<1> HIDE DEF new, to
<1>2. /\ pc' \in [Requests -> {"idle", "get", "check", "write"}]
      /\ op' \in [Requests -> [verb : Verbs, kind : Kinds, body : AnyBody]]
      /\ pc'[t] = to /\ op'[t] = new
      /\ \A u \in Requests : u # t => pc'[u] = pc[u] /\ op'[u] = op[u]
  BY <1>0, <1>1 DEF ApiInv, Typed
<1>3. Typed' BY <1>0, <1>1, <1>2 DEF ApiInv, Typed
<1>4. Versioned' BY <1>0, <1>1, <1>2 DEF ApiInv, Versioned, SameVersion
<1> QED BY <1>3, <1>4 DEF ApiInv

(* Each handler of the API starts with a request of its verb and kind. *)
LEMMA HandlersKeep ==
  ASSUME ApiInv, NEW t \in Requests,
         \/ HandleCreate(t) \/ HandleUpdate(t) \/ HandleDelete(t) \/ HandleStop(t) \/ HandleRun(t)
         \/ HandleCreateCluster(t) \/ HandleUpdateCluster(t) \/ HandleDeleteCluster(t)
         \/ HandleCreateProject(t) \/ HandleUpdateProject(t) \/ HandleDeleteProject(t)
  PROVE  ApiInv'
<1>1. \A k \in Kinds : Absent(k).spec \in Bodies(k) BY BodyFacts
<1>2. PICK k \in Kinds, verb \in {"create", "update", "delete", "stop", "run"} :
        /\ verb \in {"stop", "run"} => k = "pipeline"
        /\ \E b \in Bodies(k) : Receive(t, verb, k, b)
  BY <1>1 DEF HandleCreate, HandleUpdate, HandleDelete, HandleStop, HandleRun, HandleCreateCluster,
              HandleUpdateCluster, HandleDeleteCluster, HandleCreateProject, HandleUpdateProject,
              HandleDeleteProject, Kinds
<1> QED BY <1>2, ReceiveKeeps DEF Verbs

(* What a Get returns is a version of the object, current or old. *)
LEMMA GetKeeps == ASSUME ApiInv, NEW t \in Requests, Get(t) PROVE ApiInv'
<1> DEFINE k == op[t].kind
<1>0. k \in Kinds /\ last \in Nat BY DEF ApiInv, Typed
<1>1. CASE Read(k).rv = 0
  <2>1. Answer(t) /\ UNCHANGED <<obj, seen, last>> BY <1>1 DEF Get
  <2> QED BY <2>1, AnswerKeeps DEF ObjectsMove
<1>2. CASE Read(k).rv # 0
  <2> DEFINE to == IF k = "project" /\ op[t].verb = "update" THEN "check" ELSE "write"
  <2>0. /\ cur' = [cur EXCEPT ![t] = Read(k)] /\ pc' = [pc EXCEPT ![t] = to]
        /\ UNCHANGED <<obj, seen, last, op>>
    BY <1>2 DEF Get, Goto
  <2>1. to \in {"check", "write"} OBVIOUS
  <2>2. /\ Read(k) \in [rv : Nat, spec : AnySpec] /\ Read(k).rv <= last
        /\ Read(k).spec \in Specs(k) /\ SameVersion(obj[k], Read(k))
    BY <1>0 DEF Read, ApiInv, Typed, Versioned, SameVersion
  <2> DEFINE got == Read(k)
  <2> HIDE DEF to, got
  <2>3. /\ pc' \in [Requests -> {"idle", "get", "check", "write"}]
        /\ cur' \in [Requests -> [rv : Nat, spec : AnySpec]]
        /\ pc'[t] = to /\ cur'[t] = got
        /\ \A u \in Requests : u # t => pc'[u] = pc[u] /\ cur'[u] = cur[u]
    BY <2>0, <2>1, <2>2 DEF ApiInv, Typed, got
  <2>4. got.rv # 0 /\ got.rv <= last /\ got.spec \in Specs(k) /\ SameVersion(obj[k], got)
    BY <1>2, <2>2 DEF got
  <2>5. Typed' BY <2>0, <2>1, <2>3, <2>4 DEF ApiInv, Typed
  <2>6. Versioned' BY <2>0, <2>1, <2>3, <2>4 DEF ApiInv, Versioned, SameVersion
  <2> QED BY <2>5, <2>6 DEF ApiInv
<1> QED BY <1>1, <1>2

(* The check of the route graph reads and may refuse, it stores nothing. *)
LEMMA GraphKeeps == ASSUME ApiInv, NEW t \in Requests, ValidateProjectGraph(t) PROVE ApiInv'
<1>0. pc[t] = "check" /\ UNCHANGED <<obj, seen, last>> BY DEF ValidateProjectGraph
<1>1. CASE Answer(t) BY <1>0, <1>1, AnswerKeeps DEF ObjectsMove
<1>2. CASE Goto(t, "write") /\ UNCHANGED <<op, cur>>
  <2>1. /\ pc' \in [Requests -> {"idle", "get", "check", "write"}]
        /\ pc'[t] = "write"
        /\ \A u \in Requests : u # t => pc'[u] = pc[u]
    BY <1>2 DEF ApiInv, Typed, Goto
  <2>2. Typed' BY <1>0, <1>2, <2>1 DEF ApiInv, Typed
  <2>3. Versioned' BY <1>0, <1>2, <2>1 DEF ApiInv, Versioned, SameVersion
  <2> QED BY <2>2, <2>3 DEF ApiInv
<1> QED BY <1>1, <1>2 DEF ValidateProjectGraph

(* A status write gives the object a new version of the same spec. *)
LEMMA TouchMoves ==
  ASSUME ApiInv, NEW k \in Kinds, obj[k].rv # 0, Touch(k) PROVE ObjectsMove
<1>1. /\ obj \in [Kinds -> [rv : Nat, spec : AnySpec]] /\ obj[k].spec \in Specs(k) /\ last \in Nat
  BY DEF ApiInv, Typed
<1>3. obj[k] \in [rv : Nat, spec : AnySpec] BY <1>1
<1>4. [obj[k] EXCEPT !.rv = last + 1] = [rv |-> last + 1, spec |-> obj[k].spec] BY <1>3
<1>2. obj' = [obj EXCEPT ![k] = [rv |-> last + 1, spec |-> obj[k].spec]]
  BY <1>4 DEF Touch
<1> QED BY <1>1, <1>2 DEF Touch, ObjectsMove

(* A write of a spec of the kind is such a move. *)
LEMMA StoreMoves ==
  ASSUME NEW k \in Kinds, NEW s \in Specs(k), Store(k, s)
  PROVE  ObjectsMove
BY DEF Store, ObjectsMove

(* A request writes its own body, or what was stored already, stopped or     *)
(* not.                                                                     *)
LEMMA WriteKeeps == ASSUME ApiInv, NEW t \in Requests, Write(t) PROVE ApiInv'
<1>0. pc[t] = "write" /\ Answer(t) /\ UNCHANGED seen BY DEF Write
<1>1. ObjectsMove
  <2>0. PICK k \in Kinds : k = op[t].kind BY DEF ApiInv, Typed
  <2>1. CASE op[t].verb \in {"create", "update"} /\ Store(k, op[t].body)
    <3>1. PICK b \in Bodies(k) : b = op[t].body BY <2>0 DEF ApiInv, Typed
    <3>3. b \in Specs(k) /\ Store(k, b) BY <2>1, <3>1, BodyFacts
    <3> QED BY <3>3, StoreMoves
  <2>2. CASE obj[k].rv # 0 /\ (Gone(k) \/ Touch(k))
    <3>1. CASE Gone(k) BY <3>1 DEF Gone, ObjectsMove
    <3>2. CASE Touch(k) BY <2>2, <3>2, TouchMoves
    <3> QED BY <2>2, <3>1, <3>2
  <2>3. CASE /\ op[t].verb \in {"stop", "run"} /\ obj[k].rv # 0
             /\ Store(k, [obj[k].spec EXCEPT !.stopped = op[t].verb = "stop"])
    <3>1. k = "pipeline" BY <2>0, <2>3 DEF ApiInv, Typed
    <3>2. PICK s \in Specs("pipeline") : s = obj[k].spec BY <3>1 DEF ApiInv, Typed
    <3>3. PICK b \in BOOLEAN : b = (op[t].verb = "stop") OBVIOUS
    <3>5. PICK n \in Specs("pipeline") : n = [s EXCEPT !.stopped = b]
      BY StoppedFacts
    <3>6. Store(k, n) BY <2>3, <3>2, <3>3, <3>5
    <3> QED BY <3>1, <3>5, <3>6, StoreMoves
  <2>4. CASE UNCHANGED <<obj, last>> BY <2>4 DEF ObjectsMove
  <2> QED BY <2>0, <2>1, <2>2, <2>3, <2>4 DEF Write
<1> QED BY <1>0, <1>1, AnswerKeeps

(* The objects move on their own, or the cache catches up. *)
LEMMA ElsewhereKeeps ==
  ASSUME ApiInv, ObjectsMove, UNCHANGED <<seen, pc, op, cur>>
  PROVE  ApiInv'
<1>0. last \in Nat BY DEF ApiInv, Typed
<1>2. /\ last' \in 0 .. MaxVersion /\ last <= last'
      /\ obj' \in [Kinds -> [rv : Nat, spec : AnySpec]]
      /\ \A k \in Kinds : obj'[k].rv <= last' /\ obj'[k].spec \in Specs(k)
  BY MoveFacts
<1>3. \A k \in Kinds : seen[k].rv \in Nat /\ seen[k].rv <= last BY DEF ApiInv, Typed
<1>4. \A u \in Requests : cur[u].rv \in Nat /\ cur[u].rv <= last BY DEF ApiInv, Typed
<1>6. last' \in Nat BY <1>2, ApiConstants
<1>5. /\ \A k \in Kinds : seen[k].rv <= last'
      /\ \A u \in Requests : cur[u].rv <= last'
  BY <1>0, <1>2, <1>3, <1>4, <1>6
<1>7. Typed' BY <1>2, <1>5 DEF ApiInv, Typed
<1>8. Versioned'
  <2>1. \A k \in Kinds : SameVersion(obj'[k], seen'[k])
    BY <1>3, MoveKeepsVersions DEF ApiInv, Versioned
  <2>2. ASSUME NEW u \in Requests, pc[u] \in {"check", "write"}, op[u].verb # "create"
        PROVE  SameVersion(obj'[op[u].kind], cur[u])
    <3>2. op[u].kind \in Kinds /\ SameVersion(obj[op[u].kind], cur[u])
      BY <2>2 DEF ApiInv, Typed, Versioned
    <3> QED BY <3>2, <1>4, MoveKeepsVersions
  <2> QED BY <2>1, <2>2 DEF Versioned, SameVersion
<1> QED BY <1>7, <1>8 DEF ApiInv

(* The cache catches up with a version that was given out for that spec. *)
LEMMA CacheEventKeeps == ASSUME ApiInv, NEW k \in Kinds, CacheEvent(k) PROVE ApiInv'
<1> USE DEF CacheEvent
<1>1. Typed' BY DEF ApiInv, Typed
<1>2. Versioned' BY <1>1 DEF ApiInv, Typed, Versioned, SameVersion
<1> QED BY <1>1, <1>2 DEF ApiInv

(* Every step preserves the invariant. *)
LEMMA StepKeeps == ApiInv /\ [Next]_vars => ApiInv'
<1> SUFFICES ASSUME ApiInv, [Next]_vars PROVE ApiInv' OBVIOUS
<1>1. CASE UNCHANGED vars
  BY <1>1 DEF vars, ApiInv, Typed, Versioned, SameVersion
<1>2. ASSUME NEW t \in Requests,
             \/ HandleCreate(t) \/ HandleUpdate(t) \/ HandleDelete(t) \/ HandleStop(t) \/ HandleRun(t)
             \/ HandleCreateCluster(t) \/ HandleUpdateCluster(t) \/ HandleDeleteCluster(t)
             \/ HandleCreateProject(t) \/ HandleUpdateProject(t) \/ HandleDeleteProject(t)
             \/ Get(t) \/ ValidateProjectGraph(t) \/ Write(t)
      PROVE  ApiInv'
  BY <1>2, HandlersKeep, GetKeeps, GraphKeeps, WriteKeeps
<1>3. ASSUME NEW k \in Kinds, StatusWrite(k) \/ Removed(k) \/ CacheEvent(k) PROVE ApiInv'
  <2>1. CASE StatusWrite(k) BY <2>1, TouchMoves, ElsewhereKeeps DEF StatusWrite
  <2>2. CASE Removed(k) BY <2>2, ElsewhereKeeps DEF Removed, Gone, ObjectsMove
  <2>3. CASE CacheEvent(k) BY <2>3, CacheEventKeeps
  <2> QED BY <1>3, <2>1, <2>2, <2>3
<1> QED BY <1>1, <1>2, <1>3 DEF Next

(* The invariant holds in every state of every behaviour. *)
LEMMA Invariance == Safety => []ApiInv
BY InitInv, StepKeeps, PTL DEF Safety

-----------------------------------------------------------------------------
(* Every reachable state is typed: what is stored, cached or in flight is    *)
(* one of the specs and bodies of its kind, and versions stay in range.     *)
THEOREM TypeCorrect == Safety => []TypeOK
<1>1. ApiInv => TypeOK
  <2> SUFFICES ASSUME ApiInv PROVE TypeOK OBVIOUS
  <2>1. last \in 0 .. MaxVersion /\ last \in Nat BY DEF ApiInv, Typed
  <2>2. \A k \in Kinds : /\ obj[k].rv \in 0 .. last /\ obj[k].spec \in Specs(k)
                         /\ seen[k].rv \in 0 .. last /\ seen[k].spec \in Specs(k)
    BY <2>1 DEF ApiInv, Typed
  <2>3. ASSUME NEW t \in Requests
        PROVE  /\ pc[t] \in {"idle", "get", "check", "write"}
               /\ pc[t] # "idle" => op[t].kind \in Kinds /\ op[t].body \in Bodies(op[t].kind)
               /\ pc[t] = "write" /\ op[t].verb # "create" =>
                    cur[t].rv \in 1 .. last /\ cur[t].spec \in Specs(op[t].kind)
    BY <2>1 DEF ApiInv, Typed
  <2> QED BY <2>1, <2>2, <2>3 DEF TypeOK
<1> QED BY <1>1, Invariance, PTL

(* An update is atomic from its Get to its Update, also when it read a       *)
(* cache: the version it sends is the stored one only if the spec is.       *)
THEOREM UpdateIsAtomic == Safety => ReplacesWhatItRead
<1> DEFINE Atomic == \A t \in Requests :
             pc[t] = "write" /\ pc'[t] = "idle" /\ op[t].verb = "update"
               /\ obj'[op[t].kind].spec # obj[op[t].kind].spec
             => cur[t].spec = obj[op[t].kind].spec
<1>1. ApiInv /\ [Next]_vars => [Atomic]_vars
  <2> SUFFICES ASSUME ApiInv, Next, NEW t \in Requests,
                      pc[t] = "write", pc'[t] = "idle", op[t].verb = "update",
                      obj'[op[t].kind].spec # obj[op[t].kind].spec
               PROVE  cur[t].spec = obj[op[t].kind].spec
    BY DEF vars
  <2>0. pc \in [Requests -> {"idle", "get", "check", "write"}] /\ op[t].kind \in Kinds
    BY DEF ApiInv, Typed
  <2>1. Write(t)
    BY <2>0 DEF Next, HandleCreate, HandleUpdate, HandleDelete, HandleStop, HandleRun,
       HandleCreateCluster, HandleUpdateCluster, HandleDeleteCluster, HandleCreateProject,
       HandleUpdateProject, HandleDeleteProject, Receive, Get, ValidateProjectGraph, Write, Answer,
       Goto, StatusWrite, Removed, CacheEvent
  <2>2. obj[op[t].kind].rv # 0 /\ obj[op[t].kind].rv = cur[t].rv
    BY <2>0, <2>1 DEF Write
  <2>3. SameVersion(obj[op[t].kind], cur[t]) BY DEF ApiInv, Versioned
  <2> QED BY <2>2, <2>3 DEF SameVersion
<1>2. Safety => [][Atomic]_vars BY <1>1, Invariance, PTL DEF Safety
<1> QED BY <1>2 DEF ReplacesWhatItRead

=============================================================================
