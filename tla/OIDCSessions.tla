---------------------------- MODULE OIDCSessions ----------------------------
(***************************************************************************)
(* OIDC sessions of the REST API (internal/api/oidc.go): one browser with   *)
(* several tabs logs in, comes back from the identity provider with a code, *)
(* refreshes its id_token and logs out.  Sessions live in an in-memory map  *)
(* guarded by a mutex that is held for one map operation at a time; a       *)
(* handler keeps its pointer to the session across calls to the provider.   *)
(* A session has a mutex of its own that refreshes hold across theirs.      *)
(*                                                                          *)
(* The provider is external: a code can be exchanged once, a refresh token  *)
(* may be rotated by every refresh, and a rotated one is refused.           *)
(***************************************************************************)
EXTENDS Integers

CONSTANTS
  Requests,     \* slots for requests in flight
  Ids,          \* session ids that randB64 can still return
  None,         \* no request, no session
  TTL,          \* oidcSessionTTL
  MaxClock,     \* bound on time
  MaxTokens     \* bound on the rotations of one refresh token

ASSUME SessionConstants ==
  /\ None \notin Requests \cup Ids
  /\ {TTL, MaxClock, MaxTokens} \subseteq Nat

VARIABLES
  clock,
  rt,         \* oidcRuntime: "unset", "ok", or "failed" for ever
  store,      \* keys of sessionStore.sessions
  sess,       \* the session of each id: [created, token], token 0 when empty
  lock,       \* per id the request that holds oidcSession.mu
  cookie,     \* the session id in the browser's cookie
  code,       \* per login the provider's code: "none", "issued", "used"
  idp,        \* per login the refresh token the provider accepts, 0 before the first
  pc, req,    \* per request its step, and the value of its cookie
  got,        \* the refresh token in the provider's answer
  unread,     \* history: sessions rotated by an answer without a valid id_token
  out         \* history: sessions logged out while no request had them in hand

vars == <<clock, rt, store, sess, lock, cookie, code, idp, pc, req, got, unread, out>>

Expired(id) == clock - sess[id].created > TTL

Init ==
  /\ clock = 0 /\ rt = "unset"
  /\ store = {} /\ sess = [i \in Ids |-> [created |-> 0, token |-> 0]]
  /\ lock = [i \in Ids |-> None]
  /\ cookie = None
  /\ code = [i \in Ids |-> "none"] /\ idp = [i \in Ids |-> 0]
  /\ pc = [t \in Requests |-> "idle"] /\ req = [t \in Requests |-> None]
  /\ got = [t \in Requests |-> 0]
  /\ unread = {} /\ out = {}

Goto(t, p) == pc' = [pc EXCEPT ![t] = p]

(* The handler answers. *)
Answer(t) ==
  /\ Goto(t, "idle")
  /\ req' = [req EXCEPT ![t] = None] /\ got' = [got EXCEPT ![t] = 0]

(* init: the first request does the discovery for all; its error is kept. *)
Discover ==
  /\ rt = "unset"
  /\ rt' \in {"ok", "failed"}
  /\ UNCHANGED <<clock, store, sess, lock, cookie, code, idp, pc, req, got, unread, out>>

(* handleOIDCLogin, and the browser sent to the provider for a code. *)
Login(t) == \E i \in Ids :
  /\ pc[t] = "idle" /\ rt = "ok"
  /\ code[i] = "none"
  /\ store' = store \cup {i}
  /\ sess' = [sess EXCEPT ![i] = [created |-> clock, token |-> 0]]
  /\ cookie' = i
  /\ code' = [code EXCEPT ![i] = "issued"]
  /\ UNCHANGED <<clock, rt, lock, idp, pc, req, got, unread, out>>

(* handleOIDCCallback with the state of login i, up to the exchange: get     *)
(* drops an expired session, a state that is not the session's ends it.     *)
Callback(t) == \E i \in Ids :
  /\ pc[t] = "idle" /\ rt = "ok"
  /\ code[i] # "none" /\ cookie # None
  /\ LET c == cookie IN
       IF c \in store /\ ~Expired(c) /\ i = c
       THEN Goto(t, "exchange") /\ req' = [req EXCEPT ![t] = c] /\ UNCHANGED store
       ELSE store' = store \ {c} /\ UNCHANGED <<pc, req>>
  /\ UNCHANGED <<clock, rt, sess, lock, cookie, code, idp, got, unread, out>>

(* The code exchange.  The answer may be lost, or lack a valid id_token. *)
Exchange(t) ==
  /\ pc[t] = "exchange"
  /\ LET i == req[t] IN
       \/ /\ code[i] = "issued"
          /\ code' = [code EXCEPT ![i] = "used"] /\ idp' = [idp EXCEPT ![i] = 1]
          /\ \/ Goto(t, "keep") /\ got' = [got EXCEPT ![t] = 1]
             \/ Goto(t, "drop") /\ UNCHANGED got
             \/ Goto(t, "leave") /\ UNCHANGED got
       \/ Goto(t, "drop") /\ UNCHANGED <<code, idp, got>>
  /\ UNCHANGED <<clock, rt, store, sess, lock, cookie, req, unread, out>>

(* The session takes the refresh token, and the cookie is set again. *)
Keep(t) ==
  /\ pc[t] = "keep"
  /\ sess' = [sess EXCEPT ![req[t]].token = got[t]]
  /\ store' = store \cup {req[t]}
  /\ cookie' = req[t]
  /\ Answer(t)
  /\ UNCHANGED <<clock, rt, lock, code, idp, unread, out>>

(* Errors of the callback: most delete the session, a missing or invalid     *)
(* id_token does not.                                                       *)
GiveUp(t) ==
  /\ pc[t] \in {"drop", "leave"}
  /\ store' = IF pc[t] = "drop" THEN store \ {req[t]} ELSE store
  /\ Answer(t)
  /\ UNCHANGED <<clock, rt, sess, lock, cookie, code, idp, unread, out>>

(* handleOIDCRefresh up to sess.mu.Lock(). *)
Refresh(t) ==
  /\ pc[t] = "idle" /\ rt = "ok"
  /\ cookie # None
  /\ LET c == cookie IN
       /\ IF c \in store /\ ~Expired(c) /\ sess[c].token # 0
          THEN Goto(t, "lock") /\ req' = [req EXCEPT ![t] = c]
          ELSE UNCHANGED <<pc, req>>
       /\ store' = IF c \in store /\ Expired(c) THEN store \ {c} ELSE store
  /\ UNCHANGED <<clock, rt, sess, lock, cookie, code, idp, got, unread, out>>

(* A slip: refreshes of one session are not serialized. *)
AcquireFree(t) ==
  /\ pc[t] = "lock"
  /\ Goto(t, "token")
  /\ UNCHANGED <<clock, rt, store, sess, lock, cookie, code, idp, req, got, unread, out>>

Acquire(t) ==
  /\ pc[t] = "lock"
  /\ lock[req[t]] = None
  /\ lock' = [lock EXCEPT ![req[t]] = t]
  /\ Goto(t, "token")
  /\ UNCHANGED <<clock, rt, store, sess, cookie, code, idp, req, got, unread, out>>

(* A slip: a refused call is tried again, for ever. *)
TokenRetries(t) ==
  /\ pc[t] = "token"
  /\ LET i == req[t] IN
       /\ sess[i].token = idp[i]
       /\ \E next \in {idp[i], idp[i] + 1} :
            /\ next <= MaxTokens
            /\ idp' = [idp EXCEPT ![i] = next]
            /\ \/ Goto(t, "rotate") /\ got' = [got EXCEPT ![t] = next] /\ UNCHANGED unread
               \/ /\ Goto(t, "unverified") /\ UNCHANGED got
                  /\ unread' = IF next = idp[i] THEN unread ELSE unread \cup {i}
  /\ UNCHANGED <<clock, rt, store, sess, lock, cookie, code, req, out>>

(* src.Token(): the provider refuses a token that is not the current one;    *)
(* it may rotate the token, and its answer may be lost.                     *)
Token(t) ==
  /\ pc[t] = "token"
  /\ LET i == req[t] IN
       \/ /\ sess[i].token = idp[i]
          /\ \E next \in {idp[i], idp[i] + 1} :
               /\ next <= MaxTokens
               /\ idp' = [idp EXCEPT ![i] = next]
               /\ \/ Goto(t, "rotate") /\ got' = [got EXCEPT ![t] = next] /\ UNCHANGED unread
                  \/ Goto(t, "refused") /\ UNCHANGED <<got, unread>>
                  \/ /\ Goto(t, "unverified") /\ UNCHANGED got
                     /\ unread' = IF next = idp[i] THEN unread ELSE unread \cup {i}
       \/ Goto(t, "refused") /\ UNCHANGED <<idp, got, unread>>
  /\ UNCHANGED <<clock, rt, store, sess, lock, cookie, code, req, out>>

Release(t) == lock' = [lock EXCEPT ![req[t]] = None]

(* A new refresh token replaces the old one, and the session is put back. *)
Rotate(t) ==
  /\ pc[t] = "rotate"
  /\ LET i == req[t] IN
       IF got[t] # sess[i].token
       THEN sess' = [sess EXCEPT ![i].token = got[t]] /\ store' = store \cup {i}
       ELSE UNCHANGED <<sess, store>>
  /\ Release(t) /\ Answer(t)
  /\ UNCHANGED <<clock, rt, cookie, code, idp, unread, out>>

(* A slip: the error path does not unlock. *)
RefusedKeepsLock(t) ==
  /\ pc[t] = "refused"
  /\ store' = store \ {req[t]} /\ cookie' = None
  /\ Answer(t)
  /\ UNCHANGED <<clock, rt, sess, lock, code, idp, unread, out>>

(* The refresh failed: the session and the cookie go. *)
Refused(t) ==
  /\ pc[t] = "refused"
  /\ store' = store \ {req[t]} /\ cookie' = None
  /\ Release(t) /\ Answer(t)
  /\ UNCHANGED <<clock, rt, sess, code, idp, unread, out>>

(* No id_token, or one that does not verify: answer before the refresh token *)
(* is looked at.                                                            *)
Unverified(t) ==
  /\ pc[t] = "unverified"
  /\ Release(t) /\ Answer(t)
  /\ UNCHANGED <<clock, rt, store, sess, cookie, code, idp, unread, out>>

InHand(id) == \E t \in Requests : req[t] = id

(* A slip: only the cookie goes. *)
LogoutCookieOnly(t) ==
  /\ pc[t] = "idle" /\ cookie # None
  /\ out' = IF InHand(cookie) THEN out ELSE out \cup {cookie}
  /\ cookie' = None
  /\ UNCHANGED <<clock, rt, store, sess, lock, code, idp, pc, req, got, unread>>

(* handleOIDCLogout. *)
Logout(t) ==
  /\ pc[t] = "idle" /\ cookie # None
  /\ store' = store \ {cookie}
  /\ out' = IF InHand(cookie) THEN out ELSE out \cup {cookie}
  /\ cookie' = None
  /\ UNCHANGED <<clock, rt, sess, lock, code, idp, pc, req, got, unread>>

(* gc, on a ticker. *)
GC ==
  /\ \E i \in store : Expired(i)
  /\ store' = {i \in store : ~Expired(i)}
  /\ UNCHANGED <<clock, rt, sess, lock, cookie, code, idp, pc, req, got, unread, out>>

Tick ==
  /\ clock < MaxClock /\ clock' = clock + 1
  /\ UNCHANGED <<rt, store, sess, lock, cookie, code, idp, pc, req, got, unread, out>>

(* The step that a request under way takes next. *)
Handle(t) ==
  \/ Exchange(t) \/ Keep(t) \/ GiveUp(t)
  \/ Token(t) \/ Rotate(t) \/ Refused(t) \/ Unverified(t)

Next ==
  \/ Discover \/ GC \/ Tick
  \/ \E t \in Requests :
       Login(t) \/ Callback(t) \/ Refresh(t) \/ Logout(t) \/ Acquire(t) \/ Handle(t)

Safety == Init /\ [][Next]_vars

(* The provider answers or the call fails, and a sync.Mutex is handed to a   *)
(* waiter in the end, however many compete.                                 *)
Spec ==
  Safety /\ \A t \in Requests : WF_vars(Handle(t)) /\ SF_vars(Acquire(t))

-----------------------------------------------------------------------------
Calling == {"rotate", "refused", "unverified"}
Locked == {"token"} \cup Calling
Steps == {"idle", "exchange", "keep", "drop", "leave", "lock"} \cup Locked

(* A lock that is held is held by a request of its session that will unlock it. *)
LockOwned ==
  \A i \in Ids : lock[i] # None => req[lock[i]] = i /\ pc[lock[i]] \in Locked

(* Type invariant, with the requests and the locks they hold. *)
TypeOK ==
  /\ clock \in Nat /\ rt \in {"unset", "ok", "failed"}
  /\ store \subseteq Ids
  /\ sess \in [Ids -> [created : Nat, token : Nat]]
  /\ lock \in [Ids -> Requests \cup {None}]
  /\ cookie \in Ids \cup {None}
  /\ code \in [Ids -> {"none", "issued", "used"}] /\ idp \in [Ids -> Nat]
  /\ pc \in [Requests -> Steps]
  /\ req \in [Requests -> Ids \cup {None}] /\ got \in [Requests -> Nat]
  /\ unread \subseteq Ids /\ out \subseteq Ids
  /\ \A t \in Requests : pc[t] # "idle" => req[t] \in Ids
  /\ LockOwned

(* "If the IdP rotates the refresh_token (e.g. Keycloak with reuse=0), we    *)
(* replace it in the session": however refreshes, callbacks, logouts, lost  *)
(* answers and expiry interleave, a session that can be found holds the     *)
(* refresh token that the provider will accept, unless a refresh is between *)
(* the provider's answer and its last line, or the answer that rotated the  *)
(* token had no valid id_token, in which case the code drops the new token. *)
TokenCurrent ==
  \A i \in store : sess[i].token # 0 =>
    \/ sess[i].token = idp[i] \/ i \in unread
    \/ \E t \in Requests : req[t] = i /\ pc[t] \in Calling

(* oidc.go:373: "handleOIDCLogout removes the session".  A logout is final   *)
(* when no request had the session in hand: a refresh or a callback under   *)
(* way puts it back, and nothing else does.                                 *)
LogoutIsFinal == store \cap out = {}

(* Why: the lock is held by one request at a time, between its call and its  *)
(* end; the answer it carries is the current token; only the first exchange *)
(* of a code gives a session its first token; and a session whose token was *)
(* lost leaves the store before the lock is released.                       *)
LockHeld ==
  \A t \in Requests : pc[t] \in Locked => lock[req[t]] = t

AnswerCurrent ==
  \A t \in Requests :
    /\ pc[t] = "rotate" => got[t] = idp[req[t]] /\ got[t] # 0
    /\ pc[t] = "keep" => got[t] = 1 /\ idp[req[t]] = 1 /\ sess[req[t]].token = 0
                         /\ code[req[t]] = "used"
    /\ pc[t] \in Locked \cup {"lock"} => sess[req[t]].token # 0
    /\ pc[t] = "unverified" => sess[req[t]].token = idp[req[t]] \/ req[t] \in unread

OneExchange ==
  /\ \A i \in Ids : code[i] # "used" => idp[i] = 0 /\ sess[i].token = 0
  /\ \A i \in Ids : sess[i].token # 0 => code[i] = "used" /\ idp[i] # 0
  /\ \A s, t \in Requests :
       pc[s] = "keep" /\ pc[t] = "keep" /\ req[s] = req[t] => s = t

(* A session that is out was issued, and neither a request nor the browser   *)
(* names it.                                                                *)
OutIsGone ==
  /\ cookie # None => code[cookie] # "none"
  /\ \A i \in out :
       i \notin store /\ code[i] # "none" /\ cookie # i /\ ~InHand(i)

SessionInv ==
  TypeOK /\ LockHeld /\ AnswerCurrent /\ OneExchange /\ TokenCurrent

(* A refresh that waits for another one of its session is answered. *)
Answered == \A t \in Requests : pc[t] = "lock" ~> pc[t] = "idle"

=============================================================================
