------------------------- MODULE OIDCSessionsProofs -------------------------
(* Proof that a session in the store holds the refresh token the provider    *)
(* accepts, for any number of requests, sessions and rotations.             *)
EXTENDS OIDCSessions, TLAPS

(* A request slot is neither a session nor "none". *)
LEMMA NoneIsNobody == \A t \in Requests : t # None
BY SessionConstants

(* No session and no refresh at the start. *)
LEMMA InitInv == Init => SessionInv
BY SessionConstants
   DEF Init, SessionInv, TypeOK, LockOwned, LockHeld, AnswerCurrent, OneExchange,
       TokenCurrent, Steps, Locked, Calling

(* Steps that only drop sessions from the store. *)
LEMMA ShrinkStep ==
  ASSUME SessionInv, store' \subseteq store, TypeOK',
         UNCHANGED <<sess, lock, code, idp, pc, req, got, unread>>
  PROVE  SessionInv'
BY DEF SessionInv, LockHeld, AnswerCurrent, OneExchange, TokenCurrent

(* The provider's discovery touches no session. *)
LEMMA DiscoverStep == ASSUME SessionInv, Discover PROVE SessionInv'
<1>1. TypeOK' BY DEF SessionInv, TypeOK, LockOwned, Discover
<1> QED BY <1>1, ShrinkStep DEF Discover

(* The clock moves on; what has expired stays expired. *)
LEMMA TickStep == ASSUME SessionInv, Tick PROVE SessionInv'
<1>1. TypeOK' BY DEF SessionInv, TypeOK, LockOwned, Tick
<1> QED BY <1>1, ShrinkStep DEF Tick

(* The sweep removes expired sessions only. *)
LEMMA GCStep == ASSUME SessionInv, GC PROVE SessionInv'
<1>1. TypeOK' BY DEF SessionInv, TypeOK, LockOwned, GC
<1> QED BY <1>1, ShrinkStep DEF GC

(* A logout removes the session of the request. *)
LEMMA LogoutStep == ASSUME SessionInv, NEW t \in Requests, Logout(t) PROVE SessionInv'
<1>1. TypeOK' BY DEF SessionInv, TypeOK, LockOwned, Logout
<1>2. store' \subseteq store BY DEF Logout
<1> QED BY <1>1, <1>2, ShrinkStep DEF Logout

(* A login touches only a session that no request has reached yet. *)
LEMMA LoginStep == ASSUME SessionInv, NEW t \in Requests, Login(t) PROVE SessionInv'
<1> USE DEF SessionInv
<1>1. PICK i \in Ids :
        /\ code[i] = "none"
        /\ store' = store \cup {i}
        /\ sess' = [sess EXCEPT ![i] = [created |-> clock, token |-> 0]]
        /\ cookie' = i
        /\ code' = [code EXCEPT ![i] = "issued"]
        /\ UNCHANGED <<clock, rt, lock, idp, pc, req, got, unread, out>>
  BY DEF Login
<1>2. TypeOK' BY <1>1 DEF TypeOK, LockOwned
<1>3. /\ sess'[i].token = 0 /\ code'[i] = "issued" /\ idp[i] = 0 /\ sess[i].token = 0
      /\ \A j \in Ids : j # i => sess'[j] = sess[j] /\ code'[j] = code[j]
  BY <1>1 DEF TypeOK, OneExchange
<1>4. LockHeld' BY <1>1 DEF LockHeld
<1>5. AnswerCurrent'
  BY <1>1, <1>3 DEF AnswerCurrent, TypeOK, Locked, Calling
<1>6. OneExchange' BY <1>1, <1>3 DEF OneExchange
<1>8. TokenCurrent' BY <1>1, <1>3 DEF TokenCurrent, TypeOK
<1> QED BY <1>2, <1>4, <1>5, <1>6, <1>8

(* A request that starts takes its session with it and writes none. *)
LEMMA CallbackStep == ASSUME SessionInv, NEW t \in Requests, Callback(t) PROVE SessionInv'
<1>1. /\ store' \subseteq store
      /\ UNCHANGED <<clock, rt, sess, lock, cookie, code, idp, got, unread, out>>
  BY DEF Callback
<1>2. CASE UNCHANGED <<pc, req>>
  <2>1. TypeOK' BY <1>1, <1>2 DEF SessionInv, TypeOK, LockOwned
  <2> QED BY <1>1, <1>2, <2>1, ShrinkStep
<1>3. CASE /\ cookie \in store /\ pc[t] = "idle"
           /\ pc' = [pc EXCEPT ![t] = "exchange"] /\ req' = [req EXCEPT ![t] = cookie]
  <2> USE DEF SessionInv
  <2>1. TypeOK' BY <1>1, <1>3 DEF TypeOK, LockOwned, Steps, Locked, Calling
  <2>2. /\ pc'[t] = "exchange"
        /\ \A s \in Requests : s # t => pc'[s] = pc[s] /\ req'[s] = req[s]
    BY <1>3 DEF TypeOK
  <2>3. LockHeld' BY <1>1, <2>2 DEF LockHeld, Locked, Calling
  <2>4. AnswerCurrent' BY <1>1, <2>2 DEF AnswerCurrent, Locked, Calling
  <2>5. OneExchange' BY <1>1, <2>2 DEF OneExchange
  <2>7. TokenCurrent' BY <1>1, <1>3, <2>2 DEF TokenCurrent, Calling
  <2> QED BY <2>1, <2>3, <2>4, <2>5, <2>7
<1> QED BY <1>2, <1>3 DEF Callback, Goto

(* A refresh that finds its session goes on to the session's lock. *)
LEMMA RefreshStep == ASSUME SessionInv, NEW t \in Requests, Refresh(t) PROVE SessionInv'
<1>1. /\ store' \subseteq store
      /\ UNCHANGED <<clock, rt, sess, lock, cookie, code, idp, got, unread, out>>
  BY DEF Refresh
<1>2. CASE UNCHANGED <<pc, req>>
  <2>1. TypeOK' BY <1>1, <1>2 DEF SessionInv, TypeOK, LockOwned
  <2> QED BY <1>1, <1>2, <2>1, ShrinkStep
<1>3. CASE /\ cookie \in store /\ pc[t] = "idle" /\ sess[cookie].token # 0
           /\ pc' = [pc EXCEPT ![t] = "lock"] /\ req' = [req EXCEPT ![t] = cookie]
  <2> USE DEF SessionInv
  <2>1. TypeOK' BY <1>1, <1>3 DEF TypeOK, LockOwned, Steps, Locked, Calling
  <2>2. /\ pc'[t] = "lock" /\ req'[t] = cookie
        /\ \A s \in Requests : s # t => pc'[s] = pc[s] /\ req'[s] = req[s]
    BY <1>3 DEF TypeOK
  <2>3. LockHeld' BY <1>1, <2>2 DEF LockHeld, Locked, Calling
  <2>4. AnswerCurrent' BY <1>1, <1>3, <2>2 DEF AnswerCurrent, Locked, Calling
  <2>5. OneExchange' BY <1>1, <2>2 DEF OneExchange
  <2>7. TokenCurrent' BY <1>1, <1>3, <2>2 DEF TokenCurrent, Calling
  <2> QED BY <2>1, <2>3, <2>4, <2>5, <2>7
<1> QED BY <1>2, <1>3 DEF Refresh, Goto

(* The exchange: the first use of a code, and any that fails. *)
LEMMA ExchangeStep == ASSUME SessionInv, NEW t \in Requests, Exchange(t) PROVE SessionInv'
<1> USE DEF SessionInv
<1> DEFINE i == req[t]
<1>1. pc[t] = "exchange" /\ i \in Ids BY DEF Exchange, TypeOK
<1>2. UNCHANGED <<clock, rt, store, sess, lock, cookie, req, unread, out>> BY DEF Exchange
<1>3. CASE /\ code[i] = "issued"
           /\ code' = [code EXCEPT ![i] = "used"] /\ idp' = [idp EXCEPT ![i] = 1]
           /\ \/ Goto(t, "keep") /\ got' = [got EXCEPT ![t] = 1]
              \/ Goto(t, "drop") /\ UNCHANGED got
              \/ Goto(t, "leave") /\ UNCHANGED got
  <2>1. TypeOK' BY <1>1, <1>2, <1>3 DEF TypeOK, LockOwned, Goto, Steps, Locked, Calling
  <2>2. /\ pc'[t] \in {"keep", "drop", "leave"} /\ (pc'[t] = "keep" => got'[t] = 1)
        /\ \A s \in Requests : s # t => pc'[s] = pc[s] /\ got'[s] = got[s]
    BY <1>3 DEF TypeOK, Goto
  <2>3. /\ code'[i] = "used" /\ idp'[i] = 1 /\ sess[i].token = 0
        /\ \A j \in Ids : j # i => code'[j] = code[j] /\ idp'[j] = idp[j]
    BY <1>1, <1>3 DEF TypeOK, OneExchange
  <2>4. LockHeld' BY <1>2, <2>2 DEF LockHeld, Locked, Calling
  <2>5. \A s \in Requests : s # t /\ req[s] = i => pc[s] \notin Locked \cup {"lock", "keep"}
    BY <1>1, <1>3, <2>3 DEF AnswerCurrent
  <2>6. AnswerCurrent'
    BY <1>1, <1>2, <2>2, <2>3, <2>5 DEF AnswerCurrent, TypeOK, Locked, Calling
  <2>7. OneExchange' BY <1>1, <1>2, <2>2, <2>3, <2>5 DEF OneExchange
  <2>9. TokenCurrent'
    <3>1. \A s \in Requests : req'[s] = req[s] /\ (pc[s] \in Calling => pc'[s] \in Calling)
      BY <1>1, <1>2, <2>2 DEF Calling
    <3>2. \A j \in store' : j \in Ids /\ j \in store /\ sess'[j] = sess[j]
      BY <1>2 DEF TypeOK
    <3> QED BY <1>2, <2>3, <3>1, <3>2 DEF TokenCurrent
  <2> QED BY <2>1, <2>4, <2>6, <2>7, <2>9
<1>4. CASE Goto(t, "drop") /\ UNCHANGED <<code, idp, got>>
  <2>1. TypeOK' BY <1>1, <1>2, <1>4 DEF TypeOK, LockOwned, Goto, Steps, Locked, Calling
  <2>2. pc'[t] = "drop" /\ \A s \in Requests : s # t => pc'[s] = pc[s]
    BY <1>4 DEF TypeOK, Goto
  <2>3. LockHeld' BY <1>2, <2>2 DEF LockHeld, Locked, Calling
  <2>4. AnswerCurrent' BY <1>2, <1>4, <2>2 DEF AnswerCurrent, Locked, Calling
  <2>5. OneExchange' BY <1>2, <1>4, <2>2 DEF OneExchange
  <2>7. TokenCurrent' BY <1>1, <1>2, <1>4, <2>2 DEF TokenCurrent, Calling
  <2> QED BY <2>1, <2>3, <2>4, <2>5, <2>7
<1> QED BY <1>3, <1>4 DEF Exchange

(* What every answer does to the requests. *)
LEMMA AnswerFacts ==
  ASSUME TypeOK, NEW t \in Requests, Answer(t)
  PROVE  /\ pc' \in [Requests -> Steps] /\ req' \in [Requests -> Ids \cup {None}]
         /\ got' \in [Requests -> Nat]
         /\ pc'[t] = "idle"
         /\ \A s \in Requests : s # t => pc'[s] = pc[s] /\ req'[s] = req[s] /\ got'[s] = got[s]
BY DEF TypeOK, Answer, Goto, Steps

(* A session takes the token of the first exchange. *)
LEMMA KeepStep == ASSUME SessionInv, NEW t \in Requests, Keep(t) PROVE SessionInv'
<1> USE DEF SessionInv
<1> DEFINE i == req[t]
<1>1. pc[t] = "keep" /\ i \in Ids /\ got[t] = 1 /\ idp[i] = 1 /\ sess[i].token = 0 /\ code[i] = "used"
  BY DEF Keep, TypeOK, AnswerCurrent
<1>2. /\ sess' = [sess EXCEPT ![i].token = got[t]] /\ store' = store \cup {i}
      /\ cookie' = i /\ Answer(t)
      /\ UNCHANGED <<clock, rt, lock, code, idp, unread, out>>
  BY DEF Keep
<1>3. /\ sess' \in [Ids -> [created : Nat, token : Nat]] /\ sess'[i].token = 1
      /\ \A j \in Ids : j # i => sess'[j] = sess[j]
  BY <1>1, <1>2 DEF TypeOK
<1>4. TypeOK'
  <2>1. \A j \in Ids : lock[j] # t BY <1>1, NoneIsNobody DEF TypeOK, LockOwned, Locked, Calling
  <2>2. LockOwned' BY <1>2, <2>1, AnswerFacts DEF TypeOK, LockOwned
  <2>3. store' \subseteq Ids /\ cookie' \in Ids BY <1>1, <1>2 DEF TypeOK
  <2> QED BY <1>2, <1>3, <2>2, <2>3, AnswerFacts DEF TypeOK
<1>5. \A s \in Requests : s # t /\ req[s] = i => pc[s] # "keep"
  BY <1>1 DEF OneExchange
<1>6. LockHeld' BY <1>2, AnswerFacts DEF LockHeld, Locked, Calling
<1>7. AnswerCurrent'
  BY <1>1, <1>2, <1>3, <1>5, AnswerFacts DEF AnswerCurrent, TypeOK, Locked, Calling
<1>8. OneExchange' BY <1>1, <1>2, <1>3, AnswerFacts DEF OneExchange
<1>10. TokenCurrent'
  BY <1>1, <1>2, <1>3, AnswerFacts DEF TokenCurrent, TypeOK, Calling
<1> QED BY <1>4, <1>6, <1>7, <1>8, <1>10

(* The error paths of the callback. *)
LEMMA GiveUpStep == ASSUME SessionInv, NEW t \in Requests, GiveUp(t) PROVE SessionInv'
<1> USE DEF SessionInv
<1>1. /\ pc[t] \in {"drop", "leave"} /\ store' \subseteq store /\ Answer(t)
      /\ UNCHANGED <<clock, rt, sess, lock, cookie, code, idp, unread, out>>
  BY DEF GiveUp
<1>2. TypeOK' BY <1>1, AnswerFacts DEF TypeOK, LockOwned, Locked, Calling
<1>3. LockHeld' BY <1>1, AnswerFacts DEF LockHeld, Locked, Calling
<1>4. AnswerCurrent' BY <1>1, AnswerFacts DEF AnswerCurrent, Locked, Calling
<1>5. OneExchange' BY <1>1, AnswerFacts DEF OneExchange
<1>7. TokenCurrent' BY <1>1, AnswerFacts DEF TokenCurrent, Calling
<1> QED BY <1>2, <1>3, <1>4, <1>5, <1>7

(* The lock is free, so nobody else is past it. *)
LEMMA AcquireStep == ASSUME SessionInv, NEW t \in Requests, Acquire(t) PROVE SessionInv'
<1> USE DEF SessionInv
<1> DEFINE i == req[t]
<1>1. /\ pc[t] = "lock" /\ i \in Ids /\ lock[i] = None
      /\ lock' = [lock EXCEPT ![i] = t] /\ pc' = [pc EXCEPT ![t] = "token"]
      /\ UNCHANGED <<clock, rt, store, sess, cookie, code, idp, req, got, unread, out>>
  BY DEF Acquire, Goto, TypeOK
<1>2. TypeOK' BY <1>1 DEF TypeOK, LockOwned, Steps, Locked
<1>3. /\ pc'[t] = "token" /\ lock'[i] = t
      /\ \A s \in Requests : s # t => pc'[s] = pc[s]
      /\ \A j \in Ids : j # i => lock'[j] = lock[j]
  BY <1>1 DEF TypeOK
<1>4. \A s \in Requests : s # t /\ req[s] = i => pc[s] \notin Locked
  BY <1>1, NoneIsNobody DEF LockHeld
<1>5. LockHeld'
  BY <1>1, <1>3, <1>4 DEF LockHeld, TypeOK, Locked, Calling
<1>6. AnswerCurrent' BY <1>1, <1>3 DEF AnswerCurrent, Locked, Calling
<1>7. OneExchange' BY <1>1, <1>3 DEF OneExchange
<1>9. TokenCurrent' BY <1>1, <1>3 DEF TokenCurrent, Calling
<1> QED BY <1>2, <1>5, <1>6, <1>7, <1>9

(* The holder of a session's lock is the only one past it. *)
LEMMA HolderAlone ==
  ASSUME SessionInv, NEW s \in Requests, NEW t \in Requests,
         pc[s] \in Locked, pc[t] \in Locked, req[s] = req[t]
  PROVE  s = t
BY DEF SessionInv, LockHeld

(* The provider moves on to the token it hands out. *)
LEMMA TokenStep ==
  ASSUME SessionInv, NEW t \in Requests, Token(t)
  PROVE  SessionInv'
<1> USE DEF SessionInv
<1> DEFINE i == req[t]
<1>1. pc[t] = "token" /\ i \in Ids /\ sess[i].token # 0 /\ lock[i] = t
  BY DEF Token, TypeOK, AnswerCurrent, LockHeld, Locked
<1>2. UNCHANGED <<clock, rt, store, sess, lock, cookie, code, req, out>> BY DEF Token
<1>3. \A s \in Requests : s # t /\ req[s] = i => pc[s] \notin Locked \cup {"keep"}
  BY <1>1, HolderAlone DEF AnswerCurrent, Locked
<1>4. CASE /\ sess[i].token = idp[i]
           /\ \E next \in {idp[i], idp[i] + 1} :
                /\ idp' = [idp EXCEPT ![i] = next]
                /\ \/ Goto(t, "rotate") /\ got' = [got EXCEPT ![t] = next] /\ UNCHANGED unread
                   \/ Goto(t, "refused") /\ UNCHANGED <<got, unread>>
                   \/ /\ Goto(t, "unverified") /\ UNCHANGED got
                      /\ unread' = IF next = idp[i] THEN unread ELSE unread \cup {i}
  <2>1. PICK next \in {idp[i], idp[i] + 1} :
          /\ idp' = [idp EXCEPT ![i] = next]
          /\ \/ Goto(t, "rotate") /\ got' = [got EXCEPT ![t] = next] /\ UNCHANGED unread
             \/ Goto(t, "refused") /\ UNCHANGED <<got, unread>>
             \/ /\ Goto(t, "unverified") /\ UNCHANGED got
                /\ unread' = IF next = idp[i] THEN unread ELSE unread \cup {i}
    BY <1>4
  <2>2. idp[i] \in Nat /\ idp[i] # 0 BY <1>1, <1>4 DEF TypeOK
  <2>3. next \in Nat /\ next # 0 BY <2>1, <2>2
  <2>4. TypeOK' BY <1>1, <1>2, <2>1, <2>3 DEF TypeOK, LockOwned, Goto, Steps, Locked, Calling
  <2>5. /\ pc'[t] \in Calling /\ (pc'[t] = "rotate" => got'[t] = next)
        /\ unread \subseteq unread'
        /\ pc'[t] = "unverified" => sess[i].token = next \/ i \in unread'
        /\ \A s \in Requests : s # t => pc'[s] = pc[s] /\ got'[s] = got[s]
        /\ idp'[i] = next /\ \A j \in Ids : j # i => idp'[j] = idp[j]
    BY <1>1, <1>4, <2>1 DEF TypeOK, Goto, Calling
  <2>6. LockHeld' BY <1>1, <1>2, <2>5 DEF LockHeld
  <2>7. AnswerCurrent'
    BY <1>1, <1>2, <1>3, <2>3, <2>5 DEF AnswerCurrent, TypeOK, Locked, Calling
  <2>8. OneExchange' BY <1>1, <1>2, <2>3, <2>5 DEF OneExchange, Calling
  <2>10. TokenCurrent'
    <3>1. \A s \in Requests : req'[s] = req[s] /\ (pc[s] \in Calling => pc'[s] \in Calling)
      BY <1>1, <1>2, <2>5 DEF Calling
    <3>2. \A j \in store' : j \in Ids /\ j \in store /\ sess'[j] = sess[j]
      BY <1>2 DEF TypeOK
    <3>3. req'[t] = i /\ pc'[t] \in Calling BY <1>2, <2>5 DEF Calling
    <3> QED BY <2>5, <3>1, <3>2, <3>3 DEF TokenCurrent
  <2> QED BY <2>4, <2>6, <2>7, <2>8, <2>10
<1>5. CASE Goto(t, "refused") /\ UNCHANGED <<idp, got, unread>>
  <2>1. TypeOK' BY <1>1, <1>2, <1>5 DEF TypeOK, LockOwned, Goto, Steps, Locked, Calling
  <2>2. pc'[t] = "refused" /\ \A s \in Requests : s # t => pc'[s] = pc[s]
    BY <1>5 DEF TypeOK, Goto
  <2>3. LockHeld' BY <1>1, <1>2, <2>2 DEF LockHeld
  <2>4. AnswerCurrent' BY <1>1, <1>2, <1>5, <2>2 DEF AnswerCurrent, Locked, Calling
  <2>5. OneExchange' BY <1>2, <1>5, <2>2 DEF OneExchange
  <2>7. TokenCurrent' BY <1>1, <1>2, <1>5, <2>2 DEF TokenCurrent, Calling
  <2> QED BY <2>1, <2>3, <2>4, <2>5, <2>7
<1> QED BY <1>4, <1>5 DEF Token

(* A request that ends with the lock gives it back. *)
LEMMA ReleaseFacts ==
  ASSUME SessionInv, NEW t \in Requests, pc[t] \in Locked, Release(t), Answer(t)
  PROVE  lock' \in [Ids -> Requests \cup {None}] /\ LockHeld' /\ LockOwned'
<1> USE DEF SessionInv
<1> DEFINE i == req[t]
<1>1. i \in Ids BY DEF TypeOK, Locked, Calling
<1>2. /\ lock' \in [Ids -> Requests \cup {None}]
      /\ lock'[i] = None /\ \A j \in Ids : j # i => lock'[j] = lock[j]
  BY <1>1 DEF Release, TypeOK
<1>3. \A s \in Requests : s # t /\ pc[s] \in Locked => req[s] # i /\ req[s] \in Ids
  BY HolderAlone DEF TypeOK, Locked, Calling
<1>4. LockHeld' BY <1>2, <1>3, AnswerFacts DEF LockHeld, Locked, Calling
<1>5. LockOwned'
  <2>1. \A j \in Ids : lock'[j] # None => lock[j] = lock'[j] /\ lock[j] \in Requests /\ lock[j] # t
    BY <1>2, NoneIsNobody DEF TypeOK, LockOwned
  <2> QED BY <2>1, AnswerFacts DEF TypeOK, LockOwned
<1> QED BY <1>2, <1>4, <1>5

(* The refresh token that replaces the old one is the provider's latest. *)
LEMMA RotateStep == ASSUME SessionInv, NEW t \in Requests, Rotate(t) PROVE SessionInv'
<1> USE DEF SessionInv
<1> DEFINE i == req[t]
<1>1. /\ pc[t] = "rotate" /\ i \in Ids /\ got[t] = idp[i] /\ got[t] # 0 /\ got[t] \in Nat
      /\ sess[i].token # 0 /\ pc[t] \in Locked
  BY DEF Rotate, TypeOK, AnswerCurrent, Locked, Calling
<1>2. Release(t) /\ Answer(t) /\ UNCHANGED <<clock, rt, cookie, code, idp, unread, out>>
  BY DEF Rotate
<1>3. /\ sess' \in [Ids -> [created : Nat, token : Nat]] /\ sess'[i].token = got[t]
      /\ \A j \in Ids : j # i => sess'[j] = sess[j]
      /\ store' \subseteq store \cup {i}
  <2>1. CASE got[t] # sess[i].token
    <3>1. sess' = [sess EXCEPT ![i].token = got[t]] /\ store' = store \cup {i}
      BY <2>1 DEF Rotate
    <3> QED BY <1>1, <3>1 DEF TypeOK
  <2>2. CASE got[t] = sess[i].token
    <3>1. sess' = sess /\ store' = store
      BY <2>2 DEF Rotate
    <3> QED BY <2>2, <3>1 DEF TypeOK
  <2> QED BY <2>1, <2>2
<1>4. lock' \in [Ids -> Requests \cup {None}] /\ LockHeld' /\ LockOwned'
  BY <1>1, <1>2, ReleaseFacts
<1>5. TypeOK' BY <1>1, <1>2, <1>3, <1>4, AnswerFacts DEF TypeOK, Locked, Calling
<1>6. \A s \in Requests : s # t /\ req[s] = i => pc[s] \notin Locked \cup {"keep"}
  BY <1>1, HolderAlone DEF AnswerCurrent
<1>7. AnswerCurrent'
  BY <1>1, <1>2, <1>3, <1>6, AnswerFacts DEF AnswerCurrent, TypeOK, Locked, Calling
<1>8. OneExchange'
  <2>1. \A j \in Ids : sess'[j].token # 0 => sess[j].token # 0 BY <1>1, <1>3
  <2>2. \A s \in Requests : pc'[s] = "keep" => pc[s] = "keep" /\ req'[s] = req[s]
    BY <1>2, AnswerFacts
  <2> QED BY <1>1, <1>2, <2>1, <2>2 DEF OneExchange, TypeOK
<1>10. TokenCurrent'
  <2>1. sess'[i].token = idp'[i] BY <1>1, <1>2, <1>3
  <2>2. \A j \in store' : j # i => j \in Ids /\ j \in store /\ sess'[j] = sess[j] /\ idp'[j] = idp[j]
    BY <1>2, <1>3 DEF TypeOK
  <2>3. \A s \in Requests : req[s] # i => req'[s] = req[s] /\ pc'[s] = pc[s]
    BY <1>2, AnswerFacts
  <2> QED BY <1>2, <2>1, <2>2, <2>3 DEF TokenCurrent
<1> QED BY <1>4, <1>5, <1>7, <1>8, <1>10

(* The refresh failed: session and cookie go, and the lock is released. *)
LEMMA RefusedStep == ASSUME SessionInv, NEW t \in Requests, Refused(t) PROVE SessionInv'
<1> USE DEF SessionInv
<1> DEFINE i == req[t]
<1>1. pc[t] = "refused" /\ i \in Ids /\ pc[t] \in Locked
  BY DEF Refused, TypeOK, Locked, Calling
<1>2. /\ store' = store \ {i} /\ cookie' = None /\ Release(t) /\ Answer(t)
      /\ UNCHANGED <<clock, rt, sess, code, idp, unread, out>>
  BY DEF Refused
<1>3. lock' \in [Ids -> Requests \cup {None}] /\ LockHeld' /\ LockOwned'
  BY <1>1, <1>2, ReleaseFacts
<1>4. TypeOK' BY <1>1, <1>2, <1>3, AnswerFacts DEF TypeOK, Locked, Calling
<1>5. AnswerCurrent' BY <1>2, AnswerFacts DEF AnswerCurrent, Locked, Calling
<1>6. OneExchange' BY <1>2, AnswerFacts DEF OneExchange
<1>8. TokenCurrent' BY <1>1, <1>2, AnswerFacts DEF TokenCurrent, Calling
<1> QED BY <1>3, <1>4, <1>5, <1>6, <1>8

(* The refreshed token does not verify. *)
LEMMA UnverifiedStep == ASSUME SessionInv, NEW t \in Requests, Unverified(t) PROVE SessionInv'
<1> USE DEF SessionInv
<1> DEFINE i == req[t]
<1>1. /\ pc[t] = "unverified" /\ i \in Ids /\ pc[t] \in Locked
      /\ sess[i].token = idp[i] \/ i \in unread
  BY DEF Unverified, TypeOK, AnswerCurrent, Locked, Calling
<1>2. /\ Release(t) /\ Answer(t)
      /\ UNCHANGED <<clock, rt, store, sess, cookie, code, idp, unread, out>>
  BY DEF Unverified
<1>3. lock' \in [Ids -> Requests \cup {None}] /\ LockHeld' /\ LockOwned'
  BY <1>1, <1>2, ReleaseFacts
<1>4. TypeOK' BY <1>1, <1>2, <1>3, AnswerFacts DEF TypeOK, Locked, Calling
<1>5. AnswerCurrent' BY <1>2, AnswerFacts DEF AnswerCurrent, Locked, Calling
<1>6. OneExchange' BY <1>2, AnswerFacts DEF OneExchange
<1>7. TokenCurrent'
  <2>1. \A s \in Requests : req[s] # i => req'[s] = req[s] /\ pc'[s] = pc[s]
    BY <1>2, AnswerFacts
  <2> QED BY <1>1, <1>2, <2>1 DEF TokenCurrent
<1> QED BY <1>3, <1>4, <1>5, <1>6, <1>7

(* Every step preserves the invariant. *)
LEMMA StepInv == SessionInv /\ [Next]_vars => SessionInv'
<1> SUFFICES ASSUME SessionInv, [Next]_vars PROVE SessionInv'
  OBVIOUS
<1>1. CASE UNCHANGED vars
  BY <1>1, ShrinkStep DEF vars, SessionInv, TypeOK, LockOwned
<1> QED
  BY <1>1, DiscoverStep, TickStep, GCStep, LogoutStep, LoginStep, CallbackStep, RefreshStep,
     ExchangeStep, KeepStep, GiveUpStep, AcquireStep, TokenStep, RotateStep, RefusedStep,
     UnverifiedStep
     DEF Next, Handle

(* A session that can be found holds the refresh token the provider accepts, *)
(* unless it was rotated by an answer without a valid id_token.             *)
THEOREM TokensStayCurrent == Safety => []TokenCurrent
<1>1. SessionInv => TokenCurrent BY DEF SessionInv
<1> QED BY InitInv, StepInv, <1>1, PTL DEF Safety

(* The store, the locks and the requests stay what they should be: a request *)
(* under way always has a session.                                          *)
THEOREM SessionTypes == Safety => []TypeOK
<1>1. SessionInv => TypeOK BY DEF SessionInv
<1> QED BY InitInv, StepInv, <1>1, PTL DEF Safety

(* The handlers and the browser never come back to a session that is out. *)
LEMMA OutStep ==
  ASSUME SessionInv, OutIsGone, [Next]_vars
  PROVE  OutIsGone'
<1> USE DEF OutIsGone
<1>1. TypeOK /\ \A t \in Requests : pc[t] = "keep" => code[req[t]] = "used"
  BY DEF SessionInv, AnswerCurrent
<1>2. CASE UNCHANGED vars BY <1>2 DEF vars, InHand
<1>3. CASE Discover BY <1>3 DEF Discover, InHand
<1>4. CASE GC BY <1>4 DEF GC, InHand
<1>5. CASE Tick BY <1>5 DEF Tick, InHand
<1>6. ASSUME NEW t \in Requests, Login(t) PROVE OutIsGone'
  BY <1>1, <1>6, SessionConstants DEF Login, InHand, TypeOK
<1>7. ASSUME NEW t \in Requests, Callback(t) PROVE OutIsGone'
  BY <1>1, <1>7 DEF Callback, Goto, InHand, TypeOK
<1>8. ASSUME NEW t \in Requests, Refresh(t) PROVE OutIsGone'
  BY <1>1, <1>8 DEF Refresh, Goto, InHand, TypeOK
<1>9. ASSUME NEW t \in Requests, Logout(t) PROVE OutIsGone'
  BY <1>1, <1>9, SessionConstants DEF Logout, InHand, TypeOK
<1>10. ASSUME NEW t \in Requests, Acquire(t) PROVE OutIsGone'
  BY <1>10 DEF Acquire, InHand
<1>11. ASSUME NEW t \in Requests, Exchange(t) PROVE OutIsGone'
  BY <1>1, <1>11 DEF Exchange, InHand, TypeOK
<1>12. ASSUME NEW t \in Requests, Keep(t) \/ GiveUp(t) PROVE OutIsGone'
  BY <1>1, <1>12, SessionConstants DEF Keep, GiveUp, Answer, InHand, TypeOK
<1>13. ASSUME NEW t \in Requests, Token(t) PROVE OutIsGone'
  BY <1>13 DEF Token, InHand
<1>14. ASSUME NEW t \in Requests, Rotate(t) \/ Refused(t) \/ Unverified(t) PROVE OutIsGone'
  BY <1>1, <1>14, SessionConstants
     DEF Rotate, Refused, Unverified, Answer, InHand, TypeOK, Locked, Calling
<1> QED
  BY <1>2, <1>3, <1>4, <1>5, <1>6, <1>7, <1>8, <1>9, <1>10, <1>11, <1>12, <1>13, <1>14
     DEF Next, Handle

(* A session that was logged out while no request had it in hand never comes *)
(* back, whatever is under way with other sessions.                         *)
THEOREM LogoutsAreFinal == Safety => []LogoutIsFinal
<1>1. Init => OutIsGone BY SessionConstants DEF Init, OutIsGone
<1>2. OutIsGone => LogoutIsFinal BY DEF OutIsGone, LogoutIsFinal
<1> QED BY InitInv, StepInv, OutStep, <1>1, <1>2, PTL DEF Safety
=============================================================================
