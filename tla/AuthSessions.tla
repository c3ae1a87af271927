---------------------------- MODULE AuthSessions ----------------------------
(***************************************************************************)
(* Login sessions and the WebSockets bound to them (AiohttpAuthAdapter of  *)
(* voice/webauth/aiohttp_adapter.py over SQLiteAuthStore, and the periodic *)
(* sweep of voice/server.py).                                              *)
(*                                                                         *)
(* A socket carries the identity of its session for as long as it is open, *)
(* so whoever ends a session in the store has to close its sockets too,    *)
(* with other requests, the expiry watchers and the sweep in between.  An  *)
(* action is the code between two awaits; a store call is its transaction, *)
(* run in a thread, with the now its caller read before, and what it       *)
(* returns is acted upon in the same step.  What Google says of a login is *)
(* the subject of LoginGate: here a login comes with its verified subject. *)
(* There is one tenant, the configured one.                                *)
(*                                                                         *)
(* An operator with a suffix, as Unbind_KeepEntry, is the operator named   *)
(* before the suffix with one mistake in it, see BrowserReply.             *)
(***************************************************************************)
EXTENDS Naturals

CONSTANTS Sub,          \* Google subjects
          Socket,       \* WebSocket requests, each with its handler
          Handler,      \* request handlers running login, logout and me
          MaxTokens,    \* sessions issued
          Idle,         \* idle_ttl
          Absolute,     \* absolute_ttl
          MaxTime,      \* ticks of the clock
          MayFail       \* does the store fail at times?

ASSUME AuthAssumption ==
    /\ MaxTokens \in Nat \ {0} /\ MaxTime \in Nat
    /\ Idle \in Nat \ {0} /\ Absolute \in Nat \ {0}
    /\ MayFail \in BOOLEAN
    /\ Handler \cap Socket = {}

Token   == 1 .. MaxTokens
NoToken == 0
Sweeper == "sweeper"
Free    == "free"
Actor   == Handler \cup Socket \cup {Sweeper}

ASSUME ActorAssumption ==
    /\ Sweeper \notin Handler \cup Socket /\ Free \notin Handler \cup Socket
    /\ Sub # {}

VARIABLES
    clock,
    live,                    \* tokens with a row in the table sessions
    owner, expires, seen,    \* user_sub, expires_at and last_seen of the rows
    issued,                  \* tokens issued
    known,                   \* tokens a browser has received
    lock,                    \* who holds _socket_lock across an await
    entries, bound,          \* _bound_tokens and entry.sockets
    sockToken,               \* _socket_token_hashes
    ws,                      \* state of the WebSockets
    watch, wake,             \* _watch_token_expiry of the entry; its deadline, or its now
    pc, tok, sub, at,        \* the handlers: where they are, token, subject, now
    todo, dying              \* tokens still to be closed, sockets being closed

table    == <<live, owner, expires, seen, issued>>
registry == <<entries, bound, sockToken, watch, wake>>
local    == <<tok, sub, at>>
vars     == <<clock, live, owner, expires, seen, issued, known, lock, entries, bound,
              sockToken, ws, watch, wake, pc, tok, sub, at, todo, dying>>

HandlerPc == {"idle", "login", "loginLock", "issue", "rotated",
              "logout", "revoke", "me", "closing"}
SocketPc  == {"new", "lock", "resolve", "upgrade", "serve", "unbind", "closing", "gone"}
SweeperPc == {"sleep", "sweep", "snapshot", "check", "drop"}

TypeOK ==
    /\ clock \in 0 .. MaxTime
    /\ live \subseteq Token /\ known \subseteq Token
    /\ owner \in [Token -> Sub]
    /\ expires \in [Token -> Nat] /\ seen \in [Token -> Nat]
    /\ issued \in 0 .. MaxTokens
    /\ lock \in Handler \cup Socket \cup {Free}
    /\ entries \subseteq Token
    /\ bound \in [Token -> SUBSET Socket]
    /\ sockToken \in [Socket -> Token \cup {NoToken}]
    /\ ws \in [Socket -> {"new", "open", "closing", "closed"}]
    /\ watch \in [Token -> {"off", "asleep", "resolve", "close"}] /\ wake \in [Token -> Nat]
    /\ pc \in [Actor -> HandlerPc \cup SocketPc \cup SweeperPc]
    /\ tok \in [Actor -> Token \cup {NoToken}]
    /\ sub \in [Handler -> Sub] /\ at \in [Actor -> Nat]
    /\ todo \in [Actor -> SUBSET Token] /\ dying \in [Actor -> SUBSET Socket]

Init ==
    /\ clock = 0
    /\ live = {} /\ known = {} /\ issued = 0
    /\ owner = [t \in Token |-> CHOOSE u \in Sub : TRUE]
    /\ expires = [t \in Token |-> 0] /\ seen = [t \in Token |-> 0]
    /\ lock = Free
    /\ entries = {} /\ bound = [t \in Token |-> {}]
    /\ sockToken = [s \in Socket |-> NoToken]
    /\ ws = [s \in Socket |-> "new"]
    /\ watch = [t \in Token |-> "off"] /\ wake = [t \in Token |-> 0]
    /\ pc = [a \in Actor |-> IF a \in Handler THEN "idle"
                             ELSE IF a \in Socket THEN "new" ELSE "sleep"]
    /\ tok = [a \in Actor |-> NoToken]
    /\ sub = [h \in Handler |-> CHOOSE u \in Sub : TRUE]
    /\ at = [a \in Actor |-> 0]
    /\ todo = [a \in Actor |-> {}] /\ dying = [a \in Actor |-> {}]

-----------------------------------------------------------------------------
(* The session table: each operator is one transaction.                    *)

Latest(m, n) == IF m >= n THEN m ELSE n

(* is_expired: the earlier of the absolute and the idle deadline.          *)
Expired(t, now) == now >= expires[t] \/ now >= seen[t] + Idle

(* resolve_session: a row that has not expired is touched, no other one.   *)
Resolves(t, now) == t \in live /\ ~Expired(t, now)
Touch(t, now)    == seen' = [seen EXCEPT ![t] = Latest(seen[t], now)]

(* issue_hashed_session: the subject's rows go, one new row comes.         *)
Issue(u, now) ==
    /\ issued < MaxTokens
    /\ issued' = issued + 1
    /\ live' = {t \in live : owner[t] # u} \cup {issued + 1}
    /\ owner' = [owner EXCEPT ![issued + 1] = u]
    /\ expires' = [expires EXCEPT ![issued + 1] = now + Absolute]
    /\ seen' = [seen EXCEPT ![issued + 1] = now]

Sweep(now) == live' = {t \in live : ~Expired(t, now)}

-----------------------------------------------------------------------------
(* _close_token_hash: the entry is popped under the lock, its watcher is   *)
(* cancelled, and every socket of it that is not closed gets a close().    *)
Doomed(t) == {s \in bound[t] : ws[s] = "open"}

CloseToken(t) ==
    /\ lock = Free
    /\ entries' = entries \ {t}
    /\ bound' = [bound EXCEPT ![t] = {}]
    /\ sockToken' = [s \in Socket |-> IF s \in bound[t] THEN NoToken ELSE sockToken[s]]
    /\ watch' = [watch EXCEPT ![t] = "off"] /\ wake' = [wake EXCEPT ![t] = 0]
    /\ ws' = [s \in Socket |-> IF s \in Doomed(t) THEN "closing" ELSE ws[s]]

(* Whoever closes waits for the close handshakes it began (gather).        *)
Closed(a) == \A s \in dying[a] : ws[s] # "closing"

CloseNext(a) ==
    /\ pc[a] = "closing" /\ Closed(a)
    /\ \E t \in todo[a] :
          /\ CloseToken(t)
          /\ todo' = [todo EXCEPT ![a] = @ \ {t}]
          /\ dying' = [dying EXCEPT ![a] = Doomed(t)]
    /\ UNCHANGED <<clock, table, known, lock, pc, local>>

(* ws.close() ends with the peer's answer or its own timeout.              *)
CloseEnds(s) ==
    /\ ws[s] = "closing"
    /\ ws' = [ws EXCEPT ![s] = "closed"]
    /\ UNCHANGED <<clock, table, known, lock, registry, pc, local, todo, dying>>

Goto(a, where) == pc' = [pc EXCEPT ![a] = where]
(* A handler returns; its locals are gone.                                 *)
Leave(h) ==
    /\ Goto(h, "idle")
    /\ tok' = [tok EXCEPT ![h] = NoToken] /\ at' = [at EXCEPT ![h] = 0]
    /\ UNCHANGED sub
CloseAfter(a, T) ==
    /\ Goto(a, "closing")
    /\ todo' = [todo EXCEPT ![a] = T] /\ dying' = [dying EXCEPT ![a] = {}]

-----------------------------------------------------------------------------
(* google_handler.                                                         *)

LoginStart(h, u) ==
    /\ pc[h] = "idle" /\ issued < MaxTokens
    /\ Goto(h, "login")
    /\ sub' = [sub EXCEPT ![h] = u] /\ at' = [at EXCEPT ![h] = clock]
    /\ UNCHANGED <<clock, table, known, lock, registry, ws, tok, todo, dying>>

(* The token is verified and upsert_identity has run, or the login fails.  *)
LoginVerified(h) ==
    /\ pc[h] = "login"
    /\ \/ Goto(h, "loginLock") /\ UNCHANGED local
       \/ Leave(h)
    /\ UNCHANGED <<clock, table, known, lock, registry, ws, todo, dying>>

LoginLock(h) ==
    /\ pc[h] = "loginLock" /\ lock = Free
    /\ lock' = h
    /\ Goto(h, "issue")
    /\ UNCHANGED <<clock, table, known, registry, ws, local, todo, dying>>

(* The cap on tokens counts as a failure of the store.                     *)
LoginIssue(h) ==
    /\ pc[h] = "issue"
    /\ \/ /\ Issue(sub[h], at[h])
          /\ tok' = [tok EXCEPT ![h] = issued + 1]
          /\ Goto(h, "rotated")
          /\ UNCHANGED <<sub, at>>
       \/ /\ MayFail \/ issued = MaxTokens
          /\ Leave(h)
          /\ UNCHANGED table
    /\ lock' = Free
    /\ UNCHANGED <<clock, known, registry, ws, todo, dying>>

(* _close_subject_sockets: all entries of the subject, as they are now.    *)
LoginSnapshot(h) ==
    /\ pc[h] = "rotated" /\ lock = Free
    /\ CloseAfter(h, {t \in entries : owner[t] = sub[h]})
    /\ UNCHANGED <<clock, table, known, lock, registry, ws, local>>

(* The end of a login, a logout or a refused me: the response.             *)
Respond(h) ==
    /\ pc[h] = "closing" /\ Closed(h) /\ todo[h] = {}
    /\ Leave(h)
    /\ known' = known \cup ({tok[h]} \ {NoToken})
    /\ dying' = [dying EXCEPT ![h] = {}]
    /\ UNCHANGED <<clock, table, lock, registry, ws, todo>>

-----------------------------------------------------------------------------
(* logout_handler and me_handler, with any token a browser has received.   *)

Present(h, t) ==
    /\ pc[h] = "idle" /\ t \in known
    /\ tok' = [tok EXCEPT ![h] = t]
    /\ UNCHANGED <<clock, table, known, lock, registry, ws, sub, todo, dying>>

LogoutStart(h, t) == Present(h, t) /\ Goto(h, "logout") /\ UNCHANGED at

LogoutLock(h) ==
    /\ pc[h] = "logout" /\ lock = Free
    /\ lock' = h
    /\ Goto(h, "revoke")
    /\ UNCHANGED <<clock, table, known, registry, ws, local, todo, dying>>

(* revoke; whether it fails or not, the sockets are closed afterwards.     *)
LogoutRevoke_NoClose(h) ==
    /\ pc[h] = "revoke"
    /\ live' = live \ {tok[h]}
    /\ lock' = Free
    /\ CloseAfter(h, {})
    /\ UNCHANGED <<clock, owner, expires, seen, issued, known, registry, ws, local>>
LogoutRevoke(h) ==
    /\ pc[h] = "revoke"
    /\ \/ live' = live \ {tok[h]}
       \/ MayFail /\ UNCHANGED live
    /\ lock' = Free
    /\ CloseAfter(h, {tok[h]})
    /\ UNCHANGED <<clock, owner, expires, seen, issued, known, registry, ws, local>>

MeStart(h, t) == Present(h, t) /\ Goto(h, "me") /\ at' = [at EXCEPT ![h] = clock]

MeResolve(h) ==
    LET t == tok[h] IN
    /\ pc[h] = "me"
    /\ \/ /\ Resolves(t, at[h])
          /\ Touch(t, at[h])
          /\ Leave(h)
          /\ UNCHANGED <<todo, dying>>
       \/ /\ ~Resolves(t, at[h])
          /\ CloseAfter(h, {t})
          /\ UNCHANGED <<seen, local>>
       \/ /\ MayFail
          /\ Leave(h)
          /\ UNCHANGED <<seen, todo, dying>>
    /\ UNCHANGED <<clock, live, owner, expires, issued, known, lock, registry, ws>>

-----------------------------------------------------------------------------
(* A WebSocket request: bind_websocket, then websocket_handler until the   *)
(* socket is closed, then unbind_websocket.  A request without a cookie    *)
(* is never bound and plays no part here.                                  *)

BindStart(s, t) ==
    /\ pc[s] = "new" /\ t \in known
    /\ tok' = [tok EXCEPT ![s] = t]
    /\ Goto(s, "lock")
    /\ UNCHANGED <<clock, table, known, lock, registry, ws, sub, at, todo, dying>>

BindLock_ReleasedEarly(s) ==
    /\ pc[s] = "lock" /\ lock = Free
    /\ at' = [at EXCEPT ![s] = clock]
    /\ Goto(s, "resolve")
    /\ UNCHANGED <<clock, table, known, lock, registry, ws, tok, sub, todo, dying>>
BindLock(s) ==
    /\ pc[s] = "lock" /\ lock = Free
    /\ lock' = s /\ at' = [at EXCEPT ![s] = clock]
    /\ Goto(s, "resolve")
    /\ UNCHANGED <<clock, table, known, registry, ws, tok, sub, todo, dying>>

BindResolve(s) ==
    LET t == tok[s] IN
    /\ pc[s] = "resolve"
    /\ \/ /\ Resolves(t, at[s])
          /\ Touch(t, at[s])
          /\ Goto(s, "upgrade")
          /\ UNCHANGED <<lock, todo, dying>>
       \/ /\ ~Resolves(t, at[s])
          /\ CloseAfter(s, {t})
          /\ lock' = Free
          /\ UNCHANGED seen
       \/ /\ MayFail
          /\ Goto(s, "gone") /\ lock' = Free
          /\ UNCHANGED <<seen, todo, dying>>
    /\ at' = [at EXCEPT ![s] = 0]
    /\ UNCHANGED <<clock, live, owner, expires, issued, known, registry, ws, tok, sub>>

(* ws.prepare, and what follows it up to the release of the lock.          *)
Register(s) ==
    LET t == tok[s] IN
    /\ ws' = [ws EXCEPT ![s] = "open"]
    /\ entries' = entries \cup {t}
    /\ bound' = [bound EXCEPT ![t] = @ \cup {s}]
    /\ sockToken' = [sockToken EXCEPT ![s] = t]
    /\ IF watch[t] = "off"
       THEN /\ watch' = [watch EXCEPT ![t] = "asleep"]
            /\ wake' = [wake EXCEPT ![t] = clock + Idle]
       ELSE UNCHANGED <<watch, wake>>

BindUpgrade(s) ==
    /\ pc[s] = "upgrade"
    /\ lock' = Free
    /\ \/ Register(s) /\ Goto(s, "serve")
       \/ Goto(s, "gone") /\ UNCHANGED <<registry, ws>>
    /\ UNCHANGED <<clock, table, known, local, todo, dying>>

BindRefused(s) ==
    /\ pc[s] = "closing" /\ Closed(s) /\ todo[s] = {}
    /\ Goto(s, "gone")
    /\ UNCHANGED <<clock, table, known, lock, registry, ws, local, todo, dying>>

(* The browser closes the socket, or its connection breaks.                *)
PeerLeaves(s) ==
    /\ ws[s] = "open"
    /\ ws' = [ws EXCEPT ![s] = "closed"]
    /\ UNCHANGED <<clock, table, known, lock, registry, pc, local, todo, dying>>

ServeEnds(s) ==
    /\ pc[s] = "serve" /\ ws[s] # "open"
    /\ Goto(s, "unbind")
    /\ UNCHANGED <<clock, table, known, lock, registry, ws, local, todo, dying>>

Unbind_KeepEntry(s) ==
    LET t == sockToken[s] IN
    /\ pc[s] = "unbind" /\ lock = Free
    /\ sockToken' = [sockToken EXCEPT ![s] = NoToken]
    /\ bound' = [u \in Token |-> IF u = t THEN bound[u] \ {s} ELSE bound[u]]
    /\ UNCHANGED <<entries, watch>>
    /\ Goto(s, "gone")
    /\ UNCHANGED <<clock, table, known, lock, wake, ws, local, todo, dying>>
Unbind(s) ==
    LET t    == sockToken[s]
        last == t \in entries /\ bound[t] = {s}
    IN  /\ pc[s] = "unbind" /\ lock = Free
        /\ sockToken' = [sockToken EXCEPT ![s] = NoToken]
        /\ bound' = [u \in Token |-> IF u = t THEN bound[u] \ {s} ELSE bound[u]]
        /\ entries' = IF last THEN entries \ {t} ELSE entries
        /\ watch' = [u \in Token |-> IF last /\ u = t THEN "off" ELSE watch[u]]
        /\ wake' = [u \in Token |-> IF last /\ u = t THEN 0 ELSE wake[u]]
        /\ Goto(s, "gone")
        /\ UNCHANGED <<clock, table, known, lock, ws, local, todo, dying>>

-----------------------------------------------------------------------------
(* _watch_token_expiry: asleep for one idle_ttl, then a look at the store. *)
(* A cancelled watcher is gone, whatever its thread still does.            *)

WatchWake(t) ==
    /\ watch[t] = "asleep" /\ clock >= wake[t] /\ lock = Free
    /\ watch' = [watch EXCEPT ![t] = IF t \in entries THEN "resolve" ELSE "off"]
    /\ wake' = [wake EXCEPT ![t] = clock]
    /\ UNCHANGED <<clock, table, known, lock, entries, bound, sockToken, ws, pc, local,
                   todo, dying>>

WatchResolve(t) ==
    /\ watch[t] = "resolve"
    /\ \/ /\ Resolves(t, wake[t])
          /\ Touch(t, wake[t])
          /\ watch' = [watch EXCEPT ![t] = "asleep"]
          /\ wake' = [wake EXCEPT ![t] = clock + Idle]
       \/ /\ ~Resolves(t, wake[t]) \/ MayFail
          /\ watch' = [watch EXCEPT ![t] = "close"]
          /\ UNCHANGED <<seen, wake>>
    /\ UNCHANGED <<clock, live, owner, expires, issued, known, lock, entries, bound,
                   sockToken, ws, pc, local, todo, dying>>

WatchClose(t) ==
    /\ watch[t] = "close"
    /\ CloseToken(t)
    /\ UNCHANGED <<clock, table, known, lock, pc, local, todo, dying>>

-----------------------------------------------------------------------------
(* _auth_sweep_loop: store.sweep, then close_expired_sockets with the same *)
(* now, one entry of the snapshot after the other.                         *)

SweepStart ==
    /\ pc[Sweeper] = "sleep" /\ clock > at[Sweeper]
    /\ at' = [at EXCEPT ![Sweeper] = clock]
    /\ Goto(Sweeper, "sweep")
    /\ UNCHANGED <<clock, table, known, lock, registry, ws, tok, sub, todo, dying>>

SweepStore ==
    /\ pc[Sweeper] = "sweep"
    /\ \/ Sweep(at[Sweeper])
       \/ MayFail /\ UNCHANGED live
    /\ Goto(Sweeper, "snapshot")
    /\ UNCHANGED <<clock, owner, expires, seen, issued, known, lock, registry, ws,
                   local, todo, dying>>

SweepSnapshot_Unlocked ==
    /\ pc[Sweeper] = "snapshot"
    /\ todo' = [todo EXCEPT ![Sweeper] = entries]
    /\ Goto(Sweeper, "check")
    /\ UNCHANGED <<clock, table, known, lock, registry, ws, local, dying>>
SweepSnapshot ==
    /\ pc[Sweeper] = "snapshot" /\ lock = Free
    /\ todo' = [todo EXCEPT ![Sweeper] = entries]
    /\ Goto(Sweeper, "check")
    /\ UNCHANGED <<clock, table, known, lock, registry, ws, local, dying>>

SweepCheck ==
    /\ pc[Sweeper] = "check" /\ Closed(Sweeper)
    /\ \E t \in todo[Sweeper] :
          \/ /\ Resolves(t, at[Sweeper])
             /\ Touch(t, at[Sweeper])
             /\ todo' = [todo EXCEPT ![Sweeper] = @ \ {t}]
             /\ UNCHANGED <<pc, tok>>
          \/ /\ ~Resolves(t, at[Sweeper]) \/ MayFail
             /\ tok' = [tok EXCEPT ![Sweeper] = t]
             /\ Goto(Sweeper, "drop")
             /\ UNCHANGED <<seen, todo>>
    /\ UNCHANGED <<clock, live, owner, expires, issued, known, lock, registry, ws,
                   sub, at, dying>>

SweepDrop ==
    LET t == tok[Sweeper] IN
    /\ pc[Sweeper] = "drop"
    /\ CloseToken(t)
    /\ dying' = [dying EXCEPT ![Sweeper] = Doomed(t)]
    /\ todo' = [todo EXCEPT ![Sweeper] = @ \ {t}]
    /\ tok' = [tok EXCEPT ![Sweeper] = NoToken]
    /\ Goto(Sweeper, "check")
    /\ UNCHANGED <<clock, table, known, lock, sub, at>>

SweepEnds ==
    /\ pc[Sweeper] = "check" /\ Closed(Sweeper) /\ todo[Sweeper] = {}
    /\ dying' = [dying EXCEPT ![Sweeper] = {}]
    /\ Goto(Sweeper, "sleep")
    /\ UNCHANGED <<clock, table, known, lock, registry, ws, local, todo>>

Tick ==
    /\ clock < MaxTime
    /\ clock' = clock + 1
    /\ UNCHANGED <<table, known, lock, registry, ws, pc, local, todo, dying>>

-----------------------------------------------------------------------------
LoginStep(h) ==
    \/ LoginVerified(h) \/ LoginLock(h) \/ LoginIssue(h) \/ LoginSnapshot(h)
LogoutStep(h) == LogoutLock(h) \/ LogoutRevoke(h)
HandlerStep(h) ==
    LoginStep(h) \/ LogoutStep(h) \/ MeResolve(h) \/ CloseNext(h) \/ Respond(h)
SocketStep(s) ==
    \/ BindLock(s) \/ BindResolve(s) \/ BindUpgrade(s) \/ CloseNext(s) \/ BindRefused(s)
    \/ ServeEnds(s) \/ Unbind(s)
WatchStep(t) == WatchWake(t) \/ WatchResolve(t) \/ WatchClose(t)
SweepStep ==
    SweepStart \/ SweepStore \/ SweepSnapshot \/ SweepCheck \/ SweepDrop \/ SweepEnds
Arrive(h) ==
    \/ \E u \in Sub : LoginStart(h, u)
    \/ \E t \in Token : LogoutStart(h, t) \/ MeStart(h, t)
Connect(s) == \E t \in Token : BindStart(s, t)

Next ==
    \/ \E h \in Handler : Arrive(h) \/ HandlerStep(h)
    \/ \E s \in Socket : Connect(s) \/ SocketStep(s) \/ CloseEnds(s) \/ PeerLeaves(s)
    \/ \E t \in Token : WatchStep(t)
    \/ SweepStep
    \/ Tick

Spec == Init /\ [][Next]_vars

(* Fairness, and no more than the properties need.  asyncio.Lock serves    *)
(* its waiters in order, so a handler and the sweep are not kept waiting   *)
(* for ever by others that come and go (SF); who holds the lock gets its   *)
(* answer from the store or the upgrade, and ws.close() ends (WF).         *)
(* Nothing is assumed of the clock, of browsers, or of the watchers.       *)
FairSpec ==
    /\ Spec
    /\ \A h \in Handler : SF_vars(HandlerStep(h))
    /\ SF_vars(SweepStep)
    /\ WF_vars(\E s \in Socket : BindResolve(s) \/ BindUpgrade(s))
    /\ WF_vars(\E s \in Socket : CloseEnds(s))

-----------------------------------------------------------------------------
(* The two maps and the watchers agree: a socket's hash names the entry it *)
(* is in, an entry has a socket and a running watcher, and there are no    *)
(* other watchers.  Entries come and go under other requests' close loops. *)
RegistryAgrees ==
    /\ \A s \in Socket, t \in Token : s \in bound[t] <=> sockToken[s] = t
    /\ \A t \in Token : t \in entries <=> bound[t] # {}
    /\ \A t \in Token : t \in entries <=> watch[t] # "off"

(* Somebody is on the way to close the sockets of t.                       *)
Closer(t) ==
    \/ \E h \in Handler :
          \/ pc[h] = "rotated" /\ sub[h] = owner[t]
          \/ pc[h] = "closing" /\ t \in todo[h]
    \/ pc[Sweeper] = "snapshot"
    \/ pc[Sweeper] \in {"check", "drop"} /\ t \in todo[Sweeper]

(* A socket never stays open with the identity of a session that has left  *)
(* the store unless somebody is on the way to close it: logout, rotation   *)
(* and sweep all reach the sockets that were being upgraded meanwhile      *)
(* (docs/AUTH.md: they "close any socket whose cached identity has become  *)
(* invalid").                                                              *)
EndedIsClosing ==
    \A s \in Socket : ws[s] = "open" => tok[s] \in live \/ Closer(tok[s])

(* An upgrade is completed on a session that logout and rotation have not  *)
(* ended since it was resolved: only its expiry can fall in between.       *)
UpgradeAuthorized ==
    [][\A s \in Socket :
          ws[s] = "new" /\ ws'[s] = "open" => tok[s] \in live \/ Expired(tok[s], clock)]_vars

(* ... and it is closed in the end, whether the clock goes on or not.      *)
EndedGetsClosed ==
    \A s \in Socket : (ws[s] = "open" /\ tok[s] \notin live) ~> (ws[s] # "open")
=============================================================================
