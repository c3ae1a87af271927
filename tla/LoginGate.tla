----------------------------- MODULE LoginGate -----------------------------
(***************************************************************************)
(* What a Google login has to pass before a session is issued: the rate    *)
(* limits (LoginRateLimiter), the one-time challenge bound to the browser  *)
(* by its pre-auth cookie (LoginNonceStore), and the signature under a     *)
(* certificate of the cached Google keys (GoogleKeyCache), put together by *)
(* config_handler, google_handler and verify_id_token.                     *)
(*                                                                         *)
(* A request reads the clock once, when it arrives, and everything it does *)
(* later is dated by that; requests overlap while they wait for the        *)
(* rest of their body, for the refresh lock, for Google, or for the thread *)
(* that decodes.  An action is the code between two awaits.  Certificates, *)
(* claims and their limits are data: whether they are accepted is chosen.  *)
(*                                                                         *)
(* An operator with a suffix, as Consume_Keep, is the operator named       *)
(* before the suffix with one mistake in it, see BrowserReply.             *)
(***************************************************************************)
EXTENDS Naturals, FiniteSets, Sequences

CONSTANTS Request,      \* tasks running google_handler
          Cookie,       \* pre-auth cookie values the server can draw
          Kid,          \* key ids that credentials name
          Sub,          \* Google subjects
          MaxNonces,    \* challenges issued
          NonceTtl,     \* LoginNonceStore.ttl
          MaxPending,   \* LoginNonceStore.max_pending
          KeyTtl,       \* freshness Google gives its keys, where it gives any
          Throttle,     \* refresh_throttle
          UnknownTtl,   \* unknown_kid_ttl
          MaxUnknown,   \* MAX_CACHED_KEYS * 4
          SubLimit,     \* sub_attempts
          Window,       \* window of the rate limiter
          MaxTime       \* ticks of the clock

ASSUME GateAssumption ==
    /\ MaxNonces \in Nat /\ MaxPending \in Nat \ {0}
    /\ NonceTtl \in Nat \ {0} /\ KeyTtl \in Nat
    /\ Throttle \in Nat \ {0} /\ UnknownTtl \in Nat \ {0}
    /\ SubLimit \in Nat \ {0} /\ Window \in Nat \ {0}
    /\ MaxUnknown \in Nat \ {0} /\ MaxTime \in Nat
    /\ IsFiniteSet(Cookie) /\ Cookie # {} /\ Kid # {} /\ Sub # {}

Nonce   == 1 .. MaxNonces
NoNonce == 0
Free    == "free"

ASSUME FreeAssumption == Free \notin Request

VARIABLES
    clock,
    issued, given,           \* nonces and cookies handed out
    preOf, expOf,            \* pre_auth_digest and expires_at of the records
    byPre, byNonce,          \* _by_pre_auth, _by_nonce
    keys, expiresAt,         \* _keys, _expires_at
    nextRefresh,             \* _next_refresh_at
    unknownUntil,            \* _unknown_until, 0 where there is no entry
    refreshLock,             \* who holds _refresh_lock
    fetched,                 \* the now of the last fetch and Throttle, 0 before any
    attempts,                \* _buckets of the scope "sub"
    admitted,                \* every login attempt check_sub let pass, in order
    logins,                  \* identities verified with each nonce
    pc, at, cookie, nonce, kid   \* the requests

nonceStore == <<issued, given, preOf, expOf, byPre, byNonce>>
keyCache   == <<keys, expiresAt, nextRefresh, unknownUntil, refreshLock, fetched>>
limiter    == <<attempts, admitted>>
request    == <<pc, at, cookie, nonce, kid>>
vars       == <<clock, issued, given, preOf, expOf, byPre, byNonce, keys, expiresAt,
                nextRefresh, unknownUntil, refreshLock, fetched, attempts, admitted, logins,
                pc, at, cookie, nonce, kid>>

LoginTypes ==
    /\ clock \in 0 .. MaxTime
    /\ issued \in 0 .. MaxNonces /\ given \subseteq Cookie
    /\ preOf \in [Nonce -> Cookie] /\ expOf \in [Nonce -> Nat]
    /\ byPre \in [Cookie -> Nonce \cup {NoNonce}] /\ byNonce \subseteq Nonce
    /\ logins \in [Nonce -> Nat]
    /\ pc \in [Request -> {"idle", "body", "lock", "fetch", "decode"}]
    /\ at \in [Request -> Nat]
    /\ cookie \in [Request -> Cookie] /\ nonce \in [Request -> Nonce \cup {NoNonce}]
    /\ kid \in [Request -> Kid]

KeyTypes ==
    /\ keys \subseteq Kid /\ expiresAt \in Nat /\ nextRefresh \in Nat
    /\ unknownUntil \in [Kid -> Nat]
    /\ refreshLock \in Request \cup {Free} /\ fetched \in Nat

TypeOK ==
    /\ LoginTypes /\ KeyTypes
    /\ attempts \in [Sub -> Seq(Nat)] /\ admitted \in [Sub -> Seq(Nat)]

Some(S) == CHOOSE x \in S : TRUE

Init ==
    /\ clock = 0 /\ issued = 0 /\ given = {}
    /\ preOf = [n \in Nonce |-> Some(Cookie)] /\ expOf = [n \in Nonce |-> 0]
    /\ byPre = [c \in Cookie |-> NoNonce] /\ byNonce = {}
    /\ keys = {} /\ expiresAt = 0 /\ nextRefresh = 0
    /\ unknownUntil = [k \in Kid |-> 0]
    /\ refreshLock = Free /\ fetched = 0
    /\ attempts = [u \in Sub |-> <<>>] /\ admitted = [u \in Sub |-> <<>>]
    /\ logins = [n \in Nonce |-> 0]
    /\ pc = [r \in Request |-> "idle"] /\ at = [r \in Request |-> 0]
    /\ cookie = [r \in Request |-> Some(Cookie)]
    /\ nonce = [r \in Request |-> NoNonce] /\ kid = [r \in Request |-> Some(Kid)]

-----------------------------------------------------------------------------
(* LoginNonceStore.  A record is its nonce; a record is taken out of each  *)
(* index only where that index still holds this very record.               *)
Pending        == {c \in Cookie : byPre[c] # NoNonce}
Without(N)     == [c \in Cookie |-> IF byPre[c] \in N THEN NoNonce ELSE byPre[c]]
Stale(now)     == {n \in byNonce : now >= expOf[n]}
Remove(N)      == byPre' = Without(N) /\ byNonce' = byNonce \ N

(* expected_nonce: also removes the record it finds expired.               *)
Lapsed(c, now) == byPre[c] # NoNonce /\ now >= expOf[byPre[c]]
Expected(c, now) == IF Lapsed(c, now) THEN NoNonce ELSE byPre[c]

(* issue for a cookie, after the sweep; a nonce the cookie had is replaced.*)
Challenge_KeepOld(c) ==
    LET gone == Stale(clock)
        held == {d \in Cookie : Without(gone)[d] # NoNonce}
    IN  /\ issued < MaxNonces
        /\ c \in held \/ Cardinality(held) < MaxPending
        /\ issued' = issued + 1
        /\ preOf' = [preOf EXCEPT ![issued + 1] = c]
        /\ expOf' = [expOf EXCEPT ![issued + 1] = clock + NonceTtl]
        /\ byPre' = [Without(gone) EXCEPT ![c] = issued + 1]
        /\ byNonce' = (byNonce \ gone) \cup {issued + 1}
Challenge(c) ==
    LET gone == Stale(clock)
        held == {d \in Cookie : Without(gone)[d] # NoNonce}
    IN  /\ issued < MaxNonces
        /\ c \in held \/ Cardinality(held) < MaxPending
        /\ issued' = issued + 1
        /\ preOf' = [preOf EXCEPT ![issued + 1] = c]
        /\ expOf' = [expOf EXCEPT ![issued + 1] = clock + NonceTtl]
        /\ byPre' = [Without(gone) EXCEPT ![c] = issued + 1]
        /\ byNonce' = (byNonce \ (gone \cup {byPre[c]})) \cup {issued + 1}

(* config_handler: a cookie whose challenge is live keeps its binding,     *)
(* every other request gets a new cookie, whose value tells nobody         *)
(* anything.  The answer 503 of a full store changes nothing: had its      *)
(* sweep removed a record, there would be room.                            *)
ConfigAgain(c) ==
    /\ c \in given /\ Expected(c, clock) # NoNonce
    /\ Challenge(c)
    /\ UNCHANGED <<clock, given, keyCache, limiter, logins, request>>
ConfigNew(c) ==
    /\ c \notin given /\ c = Some(Cookie \ given)
    /\ Challenge(c)
    /\ given' = given \cup {c}
    /\ UNCHANGED <<clock, keyCache, limiter, logins, request>>

(* consume, by whoever comes first.                                        *)
Consumable(n, now) == n \in byNonce /\ now < expOf[n]

-----------------------------------------------------------------------------
(* google_handler: the clock is read and the cookie has come with the head *)
(* of the request; then the body is awaited, for as long as it takes.      *)

Arrive(r) ==
    \E c \in given :
       /\ pc[r] = "idle"
       /\ pc' = [pc EXCEPT ![r] = "body"]
       /\ at' = [at EXCEPT ![r] = clock]
       /\ cookie' = [cookie EXCEPT ![r] = c]
       /\ UNCHANGED <<clock, nonceStore, keyCache, limiter, logins, nonce, kid>>

(* The response, whatever it says: the locals of the handler are gone.     *)
Answer(r) ==
    /\ pc' = [pc EXCEPT ![r] = "idle"]
    /\ at' = [at EXCEPT ![r] = 0]
    /\ cookie' = [cookie EXCEPT ![r] = Some(Cookie)]
    /\ nonce' = [nonce EXCEPT ![r] = NoNonce] /\ kid' = [kid EXCEPT ![r] = Some(Kid)]

-----------------------------------------------------------------------------
(* GoogleKeyCache.get_key.                                                 *)

Fresh(now)      == now < expiresAt
Known(k, now)   == Fresh(now) /\ k \in keys
Negative(k, now) == Fresh(now) /\ now < unknownUntil[k]

(* _mark_unknown: entries that have expired by now are dropped, and there  *)
(* may be no room for one more.                                            *)
Marked(f, k, now) ==
    LET live == {j \in Kid : now < f[j]}
    IN  [j \in Kid |-> IF j = k /\ Cardinality(live) < MaxUnknown THEN now + UnknownTtl
                       ELSE IF j \in live THEN f[j] ELSE 0]

(* Before the lock; the cookie has served, and a key that is known goes    *)
(* with the request to the thread.                                         *)
KeyLookup(r, k) ==
    IF ~Known(k, at[r]) /\ Negative(k, at[r])
    THEN Answer(r)
    ELSE /\ pc' = [pc EXCEPT ![r] = IF Known(k, at[r]) THEN "decode" ELSE "lock"]
         /\ nonce' = [nonce EXCEPT ![r] = Expected(cookie[r], at[r])]
         /\ kid' = [kid EXCEPT ![r] = IF Known(k, at[r]) THEN Some(Kid) ELSE k]
         /\ cookie' = [cookie EXCEPT ![r] = Some(Cookie)]
         /\ UNCHANGED at

(* google_handler with the body, up to the next await: the cookie alone    *)
(* selects the nonce the credential must carry, and the credential names   *)
(* its key.  Without a usable body, or a challenge, the answer is 401.     *)
BodyRead(r) ==
    /\ pc[r] = "body"
    /\ \/ Answer(r) /\ UNCHANGED <<byPre, byNonce>>
       \/ /\ Lapsed(cookie[r], at[r])
          /\ Remove({byPre[cookie[r]]})
          /\ Answer(r)
       \/ /\ Expected(cookie[r], at[r]) # NoNonce
          /\ \E k \in Kid : KeyLookup(r, k)
          /\ UNCHANGED <<byPre, byNonce>>
    /\ UNCHANGED <<clock, issued, given, preOf, expOf, keyCache, limiter, logins>>

Fetching(r) == pc' = [pc EXCEPT ![r] = "fetch"] /\ UNCHANGED <<at, cookie, nonce, kid>>
KeyFound(r) ==
    /\ pc' = [pc EXCEPT ![r] = "decode"] /\ kid' = [kid EXCEPT ![r] = Some(Kid)]
    /\ UNCHANGED <<at, cookie, nonce>>

(* Under the refresh lock the cache is asked again, then the gate.         *)
KeyLocked(r) ==
    LET k == kid[r]
        now == at[r]
    IN  /\ pc[r] = "lock" /\ refreshLock = Free
        /\ \/ /\ Known(k, now)
              /\ KeyFound(r)
              /\ UNCHANGED <<nextRefresh, unknownUntil, refreshLock, fetched>>
           \/ /\ ~Known(k, now)
              /\ Negative(k, now) \/ now < nextRefresh
              /\ unknownUntil' = IF Fresh(now) /\ ~Negative(k, now)
                                 THEN Marked(unknownUntil, k, now) ELSE unknownUntil
              /\ Answer(r)
              /\ UNCHANGED <<nextRefresh, refreshLock, fetched>>
           \/ /\ ~Known(k, now) /\ ~Negative(k, now) /\ now >= nextRefresh
              /\ nextRefresh' = now + Throttle /\ fetched' = now + Throttle
              /\ refreshLock' = r
              /\ Fetching(r)
              /\ UNCHANGED unknownUntil
        /\ UNCHANGED <<clock, nonceStore, keys, expiresAt, limiter, logins>>

(* _parse_response accepts any set of certificates but an empty one, which *)
(* need not be for an id of Kid; _cache_ttl reads from its headers for how *)
(* long.                                                                   *)
Usable    == SUBSET Kid
Freshness == {0, KeyTtl}

(* Google's answer, dated by the request that asked, or none to be used.   *)
FetchAnswered(r) ==
    \E S \in Usable, ttl \in Freshness :
       /\ pc[r] = "fetch"
       /\ keys' = S /\ expiresAt' = at[r] + ttl
       /\ IF kid[r] \in S
          THEN unknownUntil' = [k \in Kid |-> 0] /\ KeyFound(r)
          ELSE unknownUntil' = Marked([k \in Kid |-> 0], kid[r], at[r]) /\ Answer(r)
       /\ refreshLock' = Free
       /\ UNCHANGED <<clock, nonceStore, nextRefresh, fetched, limiter, logins>>
FetchFails_LockKept(r) ==
    /\ pc[r] = "fetch"
    /\ Answer(r)
    /\ UNCHANGED <<clock, nonceStore, keyCache, limiter, logins>>
FetchFails_GateOpened(r) ==
    /\ pc[r] = "fetch"
    /\ refreshLock' = Free
    /\ nextRefresh' = 0
    /\ Answer(r)
    /\ UNCHANGED <<clock, nonceStore, keys, expiresAt, unknownUntil, fetched, limiter,
                   logins>>
FetchFails(r) ==
    /\ pc[r] = "fetch"
    /\ refreshLock' = Free
    /\ Answer(r)
    /\ UNCHANGED <<clock, nonceStore, keys, expiresAt, nextRefresh, unknownUntil, fetched,
                   limiter, logins>>

-----------------------------------------------------------------------------
(* LoginRateLimiter._check for a subject: stamps of the window are kept in *)
(* the order of arrival, and purged from the front only.                   *)
Purged_Anywhere(s, now) ==
    SelectSeq(s, LAMBDA stamp : stamp + Window > now)
Purged(s, now) ==
    LET kept == {i \in DOMAIN s : s[i] + Window > now}
    IN  SubSeq(s, IF kept = {} THEN Len(s) + 1
                  ELSE CHOOSE i \in kept : \A j \in kept : i <= j, Len(s))

CheckSub(u, now) ==
    IF Len(Purged(attempts[u], now)) >= SubLimit
    THEN attempts' = [attempts EXCEPT ![u] = Purged(@, now)] /\ UNCHANGED admitted
    ELSE /\ attempts' = [attempts EXCEPT ![u] = Append(Purged(@, now), now)]
         /\ admitted' = [admitted EXCEPT ![u] = Append(@, now)]

-----------------------------------------------------------------------------
(* verify_id_token after the thread has decoded the token, up to the       *)
(* answer: the claims, the signed nonce, the one-time consume, and then    *)
(* the limit on the subject, which only a verified token reveals.  The     *)
(* signature, the claims or the nonce may be refused, whatever they are.   *)

Verified_Keep(r) ==
    /\ Consumable(nonce[r], at[r])
    /\ logins' = [logins EXCEPT ![nonce[r]] = @ + 1]
    /\ \E u \in Sub : CheckSub(u, at[r])
    /\ UNCHANGED <<byPre, byNonce>>
Verified(r) ==
    /\ Consumable(nonce[r], at[r])
    /\ Remove({nonce[r]})
    /\ logins' = [logins EXCEPT ![nonce[r]] = @ + 1]
    /\ \E u \in Sub : CheckSub(u, at[r])

(* consume removes the record it finds expired; a token that is refused    *)
(* before it comes to that leaves the challenge in place.                  *)
Refused(r) ==
    /\ \/ UNCHANGED <<byPre, byNonce>>
       \/ /\ nonce[r] \in byNonce /\ at[r] >= expOf[nonce[r]]
          /\ Remove({nonce[r]})
    /\ UNCHANGED <<logins, limiter>>

Decoded(r) ==
    /\ pc[r] = "decode"
    /\ Verified(r) \/ Refused(r)
    /\ Answer(r)
    /\ UNCHANGED <<clock, issued, given, preOf, expOf, keyCache>>

Tick ==
    /\ clock < MaxTime
    /\ clock' = clock + 1
    /\ UNCHANGED <<nonceStore, keyCache, limiter, logins, request>>

-----------------------------------------------------------------------------
RequestStep(r) ==
    KeyLocked(r) \/ FetchAnswered(r) \/ FetchFails(r) \/ Decoded(r)

Next ==
    \/ \E c \in Cookie : ConfigNew(c) \/ ConfigAgain(c)
    \/ \E r \in Request : Arrive(r) \/ BodyRead(r) \/ RequestStep(r)
    \/ Tick

Spec == Init /\ [][Next]_vars

(* Once its body is there, every await of a request ends: Google's answer  *)
(* or its timeout, the decoding thread, and the refresh lock, whose        *)
(* waiters are served in order.  The body may never come.                  *)
FairSpec == Spec /\ \A r \in Request : SF_vars(RequestStep(r))

-----------------------------------------------------------------------------
(* The two indexes of the challenge store hold the same records, and no    *)
(* more than it may hold: a rotated, consumed or swept challenge is gone   *)
(* from both (_remove_locked).                                             *)
IndexesAgree ==
    /\ \A n \in Nonce : n \in byNonce <=> n <= issued /\ byPre[preOf[n]] = n
    /\ \A c \in Cookie : byPre[c] # NoNonce => byPre[c] \in byNonce /\ preOf[byPre[c]] = c
    /\ Cardinality(Pending) <= MaxPending

(* A challenge is good for one login, however many requests carry it at    *)
(* the same time ("Concurrent replay attempts therefore race on one atomic *)
(* consume and only one can succeed", LoginNonceStore).                    *)
SpentOnce == \A n \in Nonce : logins[n] + (IF n \in byNonce THEN 1 ELSE 0) <= 1

(* A login is verified against the challenge the browser holds by then: a  *)
(* challenge that its config requests have replaced no longer counts.      *)
LatestChallenge ==
    [][\A n \in Nonce : logins'[n] > logins[n] => byPre[preOf[n]] = n]_vars

(* One fetch of Google's keys at a time, and none that asks within the     *)
(* throttle of the one before, though that one failed: retries "cannot     *)
(* turn ... into a fetch storm" (get_key).                                 *)
FetchesSpaced ==
    [][\A r \in Request : pc[r] # "fetch" /\ pc'[r] = "fetch" =>
          /\ \A q \in Request : pc[q] # "fetch"
          /\ at[r] >= fetched]_vars

(* A slow request is checked after ones that arrived later, so the stamps  *)
(* of a bucket are out of order, and a purge stops at the first one of the *)
(* window ("while attempts and attempts[0] <= cutoff", _purge_bucket).     *)
(* Still no subject gets past its limit without a window going by: of an   *)
(* attempt and the SubLimit next ones let pass, one arrived at least a     *)
(* window after the first, however slow the requests are.                  *)
SubLimited ==
    \A u \in Sub : \A i \in DOMAIN admitted[u] :
       i + SubLimit \in DOMAIN admitted[u] =>
          \E j \in i + 1 .. i + SubLimit : admitted[u][j] >= admitted[u][i] + Window

(* Every login whose body has come is answered, whoever else wants the     *)
(* keys, whether Google answers or not.                                    *)
LoginsAnswered ==
    \A r \in Request : pc[r] \notin {"idle", "body"} ~> pc[r] = "idle"
=============================================================================
