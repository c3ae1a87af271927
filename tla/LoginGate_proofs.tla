------------------------- MODULE LoginGate_proofs -------------------------
(***************************************************************************)
(* Proofs about LoginGate, for any number of requests, cookies, challenges *)
(* and keys: the two indexes of the challenge store agree, a challenge is  *)
(* good for one login and only the latest of its browser, and Google is    *)
(* asked for its keys by one request at a time, no more often than the     *)
(* throttle allows, and no subject gets past its limit without a window    *)
(* going by.                                                               *)
(***************************************************************************)
EXTENDS LoginGate, FiniteSetTheorems, SequenceTheorems, WellFoundedInduction, TLAPS

LEMMA NextCases ==
    ASSUME Next
    PROVE  \/ \E c \in Cookie : ConfigNew(c) \/ ConfigAgain(c)
           \/ Tick
           \/ \E r \in Request : \/ Arrive(r) \/ BodyRead(r) \/ KeyLocked(r)
                                 \/ FetchAnswered(r) \/ FetchFails(r) \/ Decoded(r)
  BY DEF Next, RequestStep

LEMMA SomeIn == Some(Cookie) \in Cookie /\ Some(Kid) \in Kid /\ Some(Sub) \in Sub
  BY GateAssumption DEF Some

-----------------------------------------------------------------------------
(* Types.                                                                  *)

requestTypes ==
    /\ pc \in [Request -> {"idle", "body", "lock", "fetch", "decode"}]
    /\ at \in [Request -> Nat]
    /\ cookie \in [Request -> Cookie] /\ nonce \in [Request -> Nonce \cup {NoNonce}]
    /\ kid \in [Request -> Kid]

LEMMA AnswerTypes ==
    ASSUME requestTypes, NEW r \in Request, Answer(r)
    PROVE  requestTypes'
  BY SomeIn DEF requestTypes, Answer

LEMMA WaitTypes ==
    ASSUME requestTypes, NEW r \in Request, Fetching(r) \/ KeyFound(r)
    PROVE  requestTypes'
  BY SomeIn DEF requestTypes, Fetching, KeyFound

LEMMA BodyTypes ==
    ASSUME LoginTypes, NEW r \in Request, BodyRead(r)
    PROVE  requestTypes'
  <1>1. requestTypes
    BY DEF LoginTypes, requestTypes
  <1>2. CASE Answer(r)
    BY <1>1, <1>2, AnswerTypes
  <1>3. ASSUME NEW k \in Kid, KeyLookup(r, k) PROVE requestTypes'
    <2>1. Expected(cookie[r], at[r]) \in Nonce \cup {NoNonce}
      BY DEF LoginTypes, Expected
    <2>2. CASE ~Answer(r)
      <3>1. /\ nonce' = [nonce EXCEPT ![r] = Expected(cookie[r], at[r])]
            /\ cookie' = [cookie EXCEPT ![r] = Some(Cookie)] /\ at' = at
        BY <1>3, <2>2 DEF KeyLookup
      <3>2. PICK w \in {"decode", "lock"}, l \in Kid :
               pc' = [pc EXCEPT ![r] = w] /\ kid' = [kid EXCEPT ![r] = l]
        BY <1>3, <2>2, SomeIn DEF KeyLookup
      <3> QED  BY <1>1, <2>1, <3>1, <3>2, SomeIn DEF requestTypes
    <2> QED  BY <1>2, <2>2
  <1> QED  BY <1>2, <1>3 DEF BodyRead

LEMMA RemoveTypes ==
    ASSUME byPre \in [Cookie -> Nonce \cup {NoNonce}], byNonce \subseteq Nonce,
           NEW N, Remove(N)
    PROVE  byPre' \in [Cookie -> Nonce \cup {NoNonce}] /\ byNonce' \subseteq Nonce
  BY DEF Remove, Without

(* issued is below the bound when a challenge is.                          *)
LEMMA NextNonce ==
    ASSUME issued \in 0 .. MaxNonces, issued < MaxNonces
    PROVE  issued + 1 \in Nonce /\ issued + 1 \in 0 .. MaxNonces /\ issued + 1 # NoNonce
  BY GateAssumption DEF Nonce, NoNonce

LEMMA ChallengeTypes ==
    ASSUME LoginTypes, NEW c \in Cookie, Challenge(c)
    PROVE  /\ issued' \in 0 .. MaxNonces
           /\ preOf' \in [Nonce -> Cookie] /\ expOf' \in [Nonce -> Nat]
           /\ byPre' \in [Cookie -> Nonce \cup {NoNonce}] /\ byNonce' \subseteq Nonce
  <1>1. issued + 1 \in Nonce /\ issued + 1 \in 0 .. MaxNonces
    BY NextNonce DEF Challenge, LoginTypes
  <1>2. issued' \in 0 .. MaxNonces /\ preOf' \in [Nonce -> Cookie]
    BY <1>1 DEF Challenge, LoginTypes
  <1>3. clock + NonceTtl \in Nat
    BY GateAssumption DEF LoginTypes
  <1>4. expOf' \in [Nonce -> Nat]
    BY <1>1, <1>3 DEF Challenge, LoginTypes
  <1>5. byPre' \in [Cookie -> Nonce \cup {NoNonce}]
    BY <1>1 DEF Challenge, Without, LoginTypes
  <1>6. byNonce' \subseteq Nonce
    BY <1>1 DEF Challenge, LoginTypes
  <1> QED  BY <1>2, <1>4, <1>5, <1>6

(* The store, the clock and the requests keep their types.                 *)
THEOREM LoginTypesHold == Spec => []LoginTypes
<1>1. Init => LoginTypes
  BY GateAssumption, SomeIn DEF Init, LoginTypes, Nonce, NoNonce
<1>2. LoginTypes /\ [Next]_vars => LoginTypes'
  <2> SUFFICES ASSUME LoginTypes, [Next]_vars PROVE LoginTypes'
    OBVIOUS
  <2>r. requestTypes
    BY DEF LoginTypes, requestTypes
  <2>s. clock \in 0 .. MaxTime /\ clock \in Nat /\ issued \in 0 .. MaxNonces
    BY GateAssumption DEF LoginTypes
  <2>1. CASE UNCHANGED vars
    BY <2>1 DEF vars, LoginTypes
  <2>2. ASSUME NEW c \in Cookie, ConfigNew(c) \/ ConfigAgain(c) PROVE LoginTypes'
    <3>1. /\ Challenge(c) /\ given' \subseteq Cookie
          /\ UNCHANGED <<clock, logins, pc, at, cookie, nonce, kid>>
      BY <2>2 DEF ConfigNew, ConfigAgain, request, LoginTypes
    <3> QED  BY <3>1, ChallengeTypes DEF LoginTypes
  <2>3. CASE Tick
    BY <2>3, GateAssumption DEF Tick, nonceStore, request, LoginTypes
  <2>4. ASSUME NEW r \in Request, Arrive(r) PROVE LoginTypes'
    <3>1. PICK c \in Cookie :
             /\ pc' = [pc EXCEPT ![r] = "body"] /\ at' = [at EXCEPT ![r] = clock]
             /\ cookie' = [cookie EXCEPT ![r] = c] /\ UNCHANGED <<nonce, kid>>
      BY <2>4 DEF Arrive, LoginTypes
    <3>2. requestTypes'
      BY <2>r, <2>s, <3>1 DEF requestTypes
    <3> QED  BY <2>4, <3>2 DEF Arrive, nonceStore, LoginTypes, requestTypes
  <2>5. ASSUME NEW r \in Request, KeyLocked(r) \/ FetchAnswered(r) \/ FetchFails(r)
        PROVE  LoginTypes'
    <3>1. UNCHANGED <<clock, issued, given, preOf, expOf, byPre, byNonce, logins>>
      BY <2>5 DEF KeyLocked, FetchAnswered, FetchFails, nonceStore
    <3>2. Answer(r) \/ Fetching(r) \/ KeyFound(r)
      BY <2>5 DEF KeyLocked, FetchAnswered, FetchFails
    <3>3. requestTypes'
      BY <2>r, <3>2, AnswerTypes, WaitTypes
    <3> QED  BY <3>1, <3>3 DEF LoginTypes, requestTypes
  <2>7. ASSUME NEW r \in Request, BodyRead(r) PROVE LoginTypes'
    <3>1. UNCHANGED <<byPre, byNonce>> \/ \E N : Remove(N)
      BY <2>7 DEF BodyRead
    <3>2. byPre' \in [Cookie -> Nonce \cup {NoNonce}] /\ byNonce' \subseteq Nonce
      BY <3>1, RemoveTypes DEF LoginTypes
    <3>3. UNCHANGED <<clock, issued, given, preOf, expOf, logins>> /\ requestTypes'
      BY <2>7, BodyTypes DEF BodyRead
    <3> QED  BY <3>2, <3>3 DEF LoginTypes, requestTypes
  <2>6. ASSUME NEW r \in Request, Decoded(r) PROVE LoginTypes'
    <3>1. Answer(r) /\ UNCHANGED <<clock, issued, given, preOf, expOf>>
      BY <2>6 DEF Decoded
    <3>2. requestTypes'
      BY <2>r, <3>1, AnswerTypes
    <3>3. \/ UNCHANGED <<byPre, byNonce>> /\ logins' = logins
          \/ Remove({nonce[r]}) /\ logins' = logins
          \/ Remove({nonce[r]}) /\ logins' = [logins EXCEPT ![nonce[r]] = @ + 1]
      BY <2>6 DEF Decoded, Verified, Refused
    <3>4. byPre' \in [Cookie -> Nonce \cup {NoNonce}] /\ byNonce' \subseteq Nonce
      BY <3>3, RemoveTypes DEF LoginTypes
    <3>5. logins' \in [Nonce -> Nat]
      BY <3>3 DEF LoginTypes
    <3> QED  BY <3>1, <3>2, <3>4, <3>5 DEF LoginTypes, requestTypes
  <2> QED  BY <2>1, <2>2, <2>3, <2>4, <2>5, <2>6, <2>7, NextCases
<1> QED  BY <1>1, <1>2, PTL DEF Spec

-----------------------------------------------------------------------------
(* The challenge store.                                                    *)

(* The first two parts of IndexesAgree.                                    *)
Agree ==
    /\ \A n \in Nonce : n \in byNonce <=> n <= issued /\ byPre[preOf[n]] = n
    /\ \A c \in Cookie : byPre[c] # NoNonce => byPre[c] \in byNonce /\ preOf[byPre[c]] = c

Capacity == Cardinality(Pending) <= MaxPending

LEMMA ZeroIsNoNonce == NoNonce \notin Nonce
  BY GateAssumption DEF Nonce, NoNonce

LEMMA PendingFinite ==
    IsFiniteSet(Pending) /\ Cardinality(Pending) \in Nat
  <1>1. Pending \subseteq Cookie
    BY DEF Pending
  <1> QED  BY <1>1, GateAssumption, FS_Subset, FS_CardinalityType

(* Fewer challenges do not take more room.                                 *)
LEMMA Smaller ==
    ASSUME NEW S, S \subseteq Pending
    PROVE  IsFiniteSet(S) /\ Cardinality(S) \in Nat /\ Cardinality(S) <= Cardinality(Pending)
  BY PendingFinite, FS_Subset, FS_CardinalityType

(* Whatever is removed is removed from both.                               *)
LEMMA RemoveAgrees ==
    ASSUME LoginTypes, Agree, Capacity, NEW N, Remove(N), UNCHANGED <<issued, preOf>>
    PROVE  Agree' /\ Capacity'
  <1>1. byNonce' = byNonce \ N
    BY DEF Remove
  <1>2. \A c \in Cookie : byPre'[c] = IF byPre[c] \in N THEN NoNonce ELSE byPre[c]
    BY DEF Remove, Without
  <1>3. Agree'
    BY <1>1, <1>2, ZeroIsNoNonce DEF Agree, LoginTypes
  <1>4. Pending' \subseteq Pending
    BY <1>2 DEF Pending
  <1> QED  BY <1>3, <1>4, Smaller, PendingFinite, GateAssumption DEF Capacity

(* A new challenge replaces its cookie's, and finds room.                  *)
LEMMA ChallengeAgrees ==
    ASSUME LoginTypes, Agree, Capacity, NEW c \in Cookie, Challenge(c)
    PROVE  Agree' /\ Capacity'
  <1> DEFINE gone == Stale(clock)
             m    == issued + 1
             held == {d \in Cookie : Without(gone)[d] # NoNonce}
  <1>1. m \in Nonce /\ issued' = m /\ issued \in Nat
    BY NextNonce, GateAssumption DEF Challenge, LoginTypes
  <1>2. \A n \in Nonce : preOf'[n] = IF n = m THEN c ELSE preOf[n]
    BY <1>1 DEF Challenge, LoginTypes
  <1>3. \A d \in Cookie :
           byPre'[d] = IF d = c THEN m ELSE IF byPre[d] \in gone THEN NoNonce ELSE byPre[d]
    BY DEF Challenge, Without
  <1>4. byNonce' = (byNonce \ (gone \cup {byPre[c]})) \cup {m}
    BY DEF Challenge
  <1>5. m \notin byNonce
    BY <1>1 DEF Agree
  <1>6. \A n \in Nonce : n # m => (n <= m <=> n <= issued)
    BY <1>1 DEF Nonce
  <1>7. \A n \in Nonce : n \in byNonce' <=> n <= issued' /\ byPre'[preOf'[n]] = n
    <2> SUFFICES ASSUME NEW n \in Nonce
                 PROVE  n \in byNonce' <=> n <= issued' /\ byPre'[preOf'[n]] = n
      OBVIOUS
    <2>1. CASE n = m
      BY <1>1, <1>2, <1>3, <1>4, <2>1
    <2>2. CASE n # m
      <3>1. preOf'[n] = preOf[n] /\ preOf[n] \in Cookie
        BY <1>2, <2>2 DEF LoginTypes
      <3>2. n \in byNonce' <=> n \in byNonce /\ n \notin gone /\ n # byPre[c]
        BY <1>4, <2>2
      <3>3. CASE preOf[n] = c
        BY <1>3, <2>2, <3>1, <3>2, <3>3 DEF Agree
      <3>4. CASE preOf[n] # c
        <4>1. byPre'[preOf[n]] = n <=> byPre[preOf[n]] = n /\ n \notin gone
          BY <1>3, <3>1, <3>4, ZeroIsNoNonce
        <4>2. n # byPre[c] \/ n \notin byNonce
          BY <3>4, ZeroIsNoNonce DEF Agree
        <4> QED  BY <1>1, <1>6, <2>2, <3>1, <3>2, <4>1, <4>2 DEF Agree
      <3> QED  BY <3>3, <3>4
    <2> QED  BY <2>1, <2>2
  <1>8. \A d \in Cookie :
           byPre'[d] # NoNonce => byPre'[d] \in byNonce' /\ preOf'[byPre'[d]] = d
    <2> SUFFICES ASSUME NEW d \in Cookie, byPre'[d] # NoNonce
                 PROVE  byPre'[d] \in byNonce' /\ preOf'[byPre'[d]] = d
      OBVIOUS
    <2>1. CASE d = c
      BY <1>1, <1>2, <1>3, <1>4, <2>1
    <2>2. CASE d # c
      <3>1. byPre'[d] = byPre[d] /\ byPre[d] \notin gone /\ byPre[d] # NoNonce
        BY <1>3, <2>2
      <3>2. byPre[d] \in byNonce /\ preOf[byPre[d]] = d /\ byPre[d] \in Nonce
        BY <3>1 DEF Agree, LoginTypes
      <3>3. byPre[d] # byPre[c]
        BY <2>2, <3>1, <3>2 DEF Agree
      <3> QED  BY <1>2, <1>4, <1>5, <3>1, <3>2, <3>3
    <2> QED  BY <2>1, <2>2
  <1>9. Capacity'
    <2>1. held \subseteq Pending
      BY DEF Without, Pending
    <2>2. IsFiniteSet(held) /\ Cardinality(held) \in Nat /\ Cardinality(held) <= Cardinality(Pending)
      BY <2>1, Smaller
    <2>3. Pending' \subseteq held \cup {c}
      BY <1>3 DEF Pending, Without
    <2>4. c \in held \/ Cardinality(held) < MaxPending
      BY DEF Challenge
    <2>5. IsFiniteSet(held \cup {c}) /\ Cardinality(held \cup {c}) <= MaxPending
          /\ Cardinality(held \cup {c}) \in Nat
      <3>1. Cardinality(held \cup {c}) = IF c \in held THEN Cardinality(held)
                                         ELSE Cardinality(held) + 1
        BY <2>2, FS_AddElement
      <3>2. IsFiniteSet(held \cup {c})
        BY <2>2, FS_AddElement
      <3> HIDE DEF held
      <3> QED  BY <2>2, <2>4, <3>1, <3>2, PendingFinite, GateAssumption DEF Capacity
    <2>6. IsFiniteSet(Pending') /\ Cardinality(Pending') \in Nat
          /\ Cardinality(Pending') <= Cardinality(held \cup {c})
      <3> HIDE DEF held
      <3> QED  BY <2>3, <2>5, FS_Subset, FS_CardinalityType
    <2> HIDE DEF held
    <2> QED  BY <2>5, <2>6, GateAssumption DEF Capacity
  <1> QED  BY <1>7, <1>8, <1>9 DEF Agree

(* What a step does to the store: nothing, or one of these.                *)
LEMMA StoreSteps ==
    ASSUME [Next]_vars
    PROVE  \/ UNCHANGED <<issued, preOf, byPre, byNonce>>
           \/ \E c \in Cookie : Challenge(c)
           \/ UNCHANGED <<issued, preOf>> /\ \E N : Remove(N)
  <1>1. CASE UNCHANGED vars
    BY <1>1 DEF vars
  <1>2. ASSUME NEW c \in Cookie, ConfigNew(c) \/ ConfigAgain(c) PROVE Challenge(c)
    BY <1>2 DEF ConfigNew, ConfigAgain
  <1>3. CASE Tick
    BY <1>3 DEF Tick, nonceStore
  <1>4. ASSUME NEW r \in Request, BodyRead(r)
        PROVE  UNCHANGED <<issued, preOf>> /\ (UNCHANGED <<byPre, byNonce>> \/ \E N : Remove(N))
    BY <1>4 DEF BodyRead
  <1>5. ASSUME NEW r \in Request,
               Arrive(r) \/ KeyLocked(r) \/ FetchAnswered(r) \/ FetchFails(r)
        PROVE  UNCHANGED <<issued, preOf, byPre, byNonce>>
    BY <1>5 DEF Arrive, KeyLocked, FetchAnswered, FetchFails, nonceStore
  <1>6. ASSUME NEW r \in Request, Decoded(r)
        PROVE  UNCHANGED <<issued, preOf>> /\ (UNCHANGED <<byPre, byNonce>> \/ \E N : Remove(N))
    BY <1>6 DEF Decoded, Verified, Refused
  <1> QED  BY <1>1, <1>2, <1>3, <1>4, <1>5, <1>6, NextCases

(* The indexes hold the same challenges, and no more than there is room    *)
(* for.                                                                    *)
THEOREM Indexes == Spec => []IndexesAgree
<1>1. Init => Agree /\ Capacity
  <2> SUFFICES ASSUME Init PROVE Agree /\ Capacity
    OBVIOUS
  <2>1. Agree
    BY GateAssumption DEF Init, Agree, Nonce, NoNonce
  <2>2. Pending = {}
    BY DEF Init, Pending
  <2> QED  BY <2>1, <2>2, FS_EmptySet, GateAssumption DEF Capacity
<1>2. LoginTypes /\ Agree /\ Capacity /\ [Next]_vars => Agree' /\ Capacity'
  <2> SUFFICES ASSUME LoginTypes, Agree, Capacity, [Next]_vars PROVE Agree' /\ Capacity'
    OBVIOUS
  <2>1. CASE UNCHANGED <<issued, preOf, byPre, byNonce>>
    BY <2>1 DEF Agree, Capacity, Pending
  <2> QED  BY <2>1, StoreSteps, ChallengeAgrees, RemoveAgrees
<1>3. Agree /\ Capacity => IndexesAgree
  BY DEF Agree, Capacity, IndexesAgree
<1> QED  BY <1>1, <1>2, <1>3, LoginTypesHold, PTL DEF Spec

-----------------------------------------------------------------------------
(* Logins.                                                                 *)

(* A challenge was not issued yet, or is in the store, or may be spent.    *)
Spent == \A n \in Nonce : /\ logins[n] <= 1
                          /\ n \in byNonce \/ n > issued => logins[n] = 0

(* A login is counted only for the challenge it takes out of the store.    *)
LEMMA LoginStep ==
    ASSUME LoginTypes, [Next]_vars
    PROVE  \/ logins' = logins
           \/ \E n \in byNonce : /\ logins' = [logins EXCEPT ![n] = @ + 1]
                                 /\ byNonce' = byNonce \ {n} /\ issued' = issued
  <1>1. CASE UNCHANGED vars
    BY <1>1 DEF vars
  <1>2. ASSUME NEW c \in Cookie, ConfigNew(c) \/ ConfigAgain(c) PROVE logins' = logins
    BY <1>2 DEF ConfigNew, ConfigAgain
  <1>3. CASE Tick
    BY <1>3 DEF Tick
  <1>4. ASSUME NEW r \in Request,
               Arrive(r) \/ BodyRead(r) \/ KeyLocked(r) \/ FetchAnswered(r) \/ FetchFails(r)
        PROVE  logins' = logins
    BY <1>4 DEF Arrive, BodyRead, KeyLocked, FetchAnswered, FetchFails
  <1>5. ASSUME NEW r \in Request, Decoded(r)
        PROVE  \/ logins' = logins
               \/ \E n \in byNonce : /\ logins' = [logins EXCEPT ![n] = @ + 1]
                                     /\ byNonce' = byNonce \ {n} /\ issued' = issued
    BY <1>5 DEF Decoded, Verified, Refused, Consumable, Remove
  <1> QED  BY <1>1, <1>2, <1>3, <1>4, <1>5, NextCases

LEMMA SpentStep ==
    ASSUME LoginTypes, Agree, Spent, [Next]_vars
    PROVE  Spent'
  <1>n. /\ issued \in Nat /\ byNonce \subseteq Nonce
        /\ \A n \in Nonce : n \in Nat /\ logins[n] \in Nat
    BY GateAssumption DEF LoginTypes, Nonce
  <1>1. CASE logins' = logins
    <2>1. CASE UNCHANGED <<issued, preOf, byPre, byNonce>>
      BY <1>1, <2>1 DEF Spent
    <2>2. ASSUME NEW c \in Cookie, Challenge(c) PROVE Spent'
      <3>1. issued' = issued + 1 /\ byNonce' \subseteq byNonce \cup {issued + 1}
        BY <2>2 DEF Challenge
      <3> QED  BY <1>n, <1>1, <3>1 DEF Spent
    <2>3. CASE UNCHANGED <<issued, preOf>> /\ \E N : Remove(N)
      BY <1>1, <2>3 DEF Spent, Remove
    <2> QED  BY <2>1, <2>2, <2>3, StoreSteps
  <1>2. ASSUME NEW n \in byNonce, logins' = [logins EXCEPT ![n] = @ + 1],
               byNonce' = byNonce \ {n}, issued' = issued
        PROVE  Spent'
    <2>1. n \in Nonce /\ n <= issued /\ logins[n] = 0
      BY <1>n DEF Agree, Spent
    <2>2. \A k \in Nonce : logins'[k] = IF k = n THEN 1 ELSE logins[k]
      BY <1>2, <2>1 DEF LoginTypes
    <2> QED  BY <1>n, <1>2, <2>1, <2>2 DEF Spent
  <1> QED  BY <1>1, <1>2, LoginStep

(* A challenge is good for one login.                                      *)
THEOREM Once == Spec => []SpentOnce
<1>1. Init => Spent
  BY DEF Init, Spent
<1>2. LoginTypes /\ IndexesAgree /\ Spent /\ [Next]_vars => Spent'
  BY SpentStep DEF IndexesAgree, Agree
<1>3. LoginTypes /\ Spent => SpentOnce
  <2> SUFFICES ASSUME LoginTypes, Spent, NEW n \in Nonce
               PROVE  logins[n] + (IF n \in byNonce THEN 1 ELSE 0) <= 1
    BY DEF SpentOnce
  <2>1. logins[n] \in Nat /\ logins[n] <= 1 /\ (n \in byNonce => logins[n] = 0)
    BY DEF LoginTypes, Spent
  <2> QED  BY <2>1
<1> QED  BY <1>1, <1>2, <1>3, LoginTypesHold, Indexes, PTL DEF Spec

(* ... and only while it is the one its browser holds.                     *)
THEOREM Latest == Spec => LatestChallenge
<1>1. LoginTypes /\ IndexesAgree /\ [Next]_vars =>
         [\A n \in Nonce : logins'[n] > logins[n] => byPre[preOf[n]] = n]_vars
  <2> SUFFICES ASSUME LoginTypes, IndexesAgree, [Next]_vars,
                      NEW n \in Nonce, logins'[n] > logins[n]
               PROVE  byPre[preOf[n]] = n
    OBVIOUS
  <2>1. logins[n] \in Nat
    BY DEF LoginTypes
  <2>2. n \in byNonce
    BY <2>1, LoginStep DEF LoginTypes
  <2> QED  BY <2>2 DEF IndexesAgree
<1> QED  BY <1>1, LoginTypesHold, Indexes, PTL DEF Spec, LatestChallenge

-----------------------------------------------------------------------------
(* Fetches.                                                                *)

(* Who fetches holds the lock, and the gate is where the last fetch put it.*)
Gate ==
    /\ \A r \in Request : pc[r] = "fetch" => refreshLock = r
    /\ fetched = nextRefresh

(* A fetch begins behind the lock and the gate.                            *)
LEMMA FetchStep ==
    ASSUME LoginTypes, Next, NEW r \in Request, pc[r] # "fetch", pc'[r] = "fetch"
    PROVE  refreshLock = Free /\ at[r] >= nextRefresh
  <1>1. ASSUME NEW c \in Cookie, ConfigNew(c) \/ ConfigAgain(c) PROVE pc' = pc
    BY <1>1 DEF ConfigNew, ConfigAgain, request
  <1>2. CASE Tick
    BY <1>2 DEF Tick, request
  <1>3. ASSUME NEW q \in Request, Arrive(q) PROVE pc'[r] # "fetch"
    BY <1>3 DEF Arrive, LoginTypes
  <1>4. ASSUME NEW q \in Request,
               BodyRead(q) \/ FetchAnswered(q) \/ FetchFails(q) \/ Decoded(q)
        PROVE  pc'[r] # "fetch"
    <2>1. pc' = [pc EXCEPT ![q] = "idle"] \/ pc' = [pc EXCEPT ![q] = "lock"]
          \/ pc' = [pc EXCEPT ![q] = "decode"]
      BY <1>4 DEF BodyRead, KeyLookup, FetchAnswered, FetchFails, Decoded, Answer, KeyFound
    <2> QED  BY <2>1 DEF LoginTypes
  <1>5. ASSUME NEW q \in Request, KeyLocked(q) PROVE refreshLock = Free /\ at[r] >= nextRefresh
    <2>1. CASE q = r
      BY <1>5, <2>1 DEF KeyLocked, Answer, Fetching, KeyFound, LoginTypes
    <2>2. CASE q # r
      BY <1>5, <2>2 DEF KeyLocked, Answer, Fetching, KeyFound, LoginTypes
    <2> QED  BY <2>1, <2>2
  <1> QED  BY <1>1, <1>2, <1>3, <1>4, <1>5, NextCases

THEOREM GateHolds == Spec => []Gate
<1>1. Init => Gate
  BY DEF Init, Gate
<1>2. LoginTypes /\ Gate /\ [Next]_vars => Gate'
  <2> SUFFICES ASSUME LoginTypes, Gate, [Next]_vars PROVE Gate'
    OBVIOUS
  <2>1. CASE UNCHANGED vars
    BY <2>1 DEF vars, Gate
  <2>2. ASSUME NEW c \in Cookie, ConfigNew(c) \/ ConfigAgain(c) PROVE Gate'
    BY <2>2 DEF ConfigNew, ConfigAgain, keyCache, request, Gate
  <2>3. CASE Tick
    BY <2>3 DEF Tick, keyCache, request, Gate
  <2>4. ASSUME NEW r \in Request, Arrive(r) PROVE Gate'
    BY <2>4 DEF Arrive, keyCache, Gate, LoginTypes
  <2>5. ASSUME NEW r \in Request, BodyRead(r) \/ Decoded(r) PROVE Gate'
    BY <2>5 DEF BodyRead, KeyLookup, Decoded, Answer, keyCache, Gate, LoginTypes
  <2>6. ASSUME NEW r \in Request, KeyLocked(r) PROVE Gate'
    <3>1. fetched' = nextRefresh'
      BY <2>6 DEF KeyLocked, Gate
    <3>2. \A q \in Request : pc[q] # "fetch"
      BY <2>6, FreeAssumption DEF KeyLocked, Gate
    <3>3. \A q \in Request : pc'[q] = "fetch" => refreshLock' = q
      BY <2>6, <3>2 DEF KeyLocked, Answer, Fetching, KeyFound, LoginTypes
    <3> QED  BY <3>1, <3>3 DEF Gate
  <2>7. ASSUME NEW r \in Request, FetchAnswered(r) \/ FetchFails(r) PROVE Gate'
    <3>1. pc[r] = "fetch" /\ UNCHANGED <<nextRefresh, fetched>>
      BY <2>7 DEF FetchAnswered, FetchFails
    <3>2. \A q \in Request : q # r => pc[q] # "fetch"
      BY <3>1 DEF Gate
    <3>3. \A q \in Request : pc'[q] # "fetch"
      BY <2>7, <3>2 DEF FetchAnswered, FetchFails, Answer, KeyFound, LoginTypes
    <3> QED  BY <3>1, <3>3 DEF Gate
  <2> QED  BY <2>1, <2>2, <2>3, <2>4, <2>5, <2>6, <2>7, NextCases
<1> QED  BY <1>1, <1>2, LoginTypesHold, PTL DEF Spec

(* One fetch at a time, spaced by the throttle.                            *)
THEOREM Spaced == Spec => FetchesSpaced
<1>1. LoginTypes /\ Gate /\ [Next]_vars =>
         [\A r \in Request : pc[r] # "fetch" /\ pc'[r] = "fetch" =>
             /\ \A q \in Request : pc[q] # "fetch"
             /\ at[r] >= fetched]_vars
  <2> SUFFICES ASSUME LoginTypes, Gate, [Next]_vars,
                      NEW r \in Request, pc[r] # "fetch", pc'[r] = "fetch"
               PROVE  (\A q \in Request : pc[q] # "fetch") /\ at[r] >= fetched
    OBVIOUS
  <2>1. Next
    BY DEF vars
  <2>2. refreshLock = Free /\ at[r] >= nextRefresh
    BY <2>1, FetchStep
  <2> QED  BY <2>2, FreeAssumption DEF Gate
<1> QED  BY <1>1, LoginTypesHold, GateHolds, PTL DEF Spec, FetchesSpaced

-----------------------------------------------------------------------------
(* The rate limiter.                                                       *)

LEMMA Least ==
    ASSUME NEW S \in SUBSET Nat, S # {}
    PROVE  \E m \in S : \A k \in S : m <= k
  <1>1. \E m \in S : \A k \in S : ~(<<k, m>> \in OpToRel(<, Nat))
    BY WFMin, NatLessThanWellFounded, Zenon
  <1>2. PICK m \in S : \A k \in S : ~(k < m)
    BY <1>1, Zenon DEF OpToRel
  <1> QED  BY <1>2

(* A purge takes a beginning, of stamps that are out of the window.        *)
LEMMA PurgeTakesOld ==
    ASSUME NEW s \in Seq(Nat), NEW now \in Nat
    PROVE  \E p \in 0 .. Len(s) :
              /\ Purged(s, now) \in Seq(Nat) /\ Len(Purged(s, now)) = Len(s) - p
              /\ \A i \in 1 .. Len(s) - p : Purged(s, now)[i] = s[p + i]
              /\ \A i \in 1 .. p : s[i] + Window <= now
  <1> DEFINE kept == {i \in DOMAIN s : s[i] + Window > now}
  <1>1. Len(s) \in Nat /\ DOMAIN s = 1 .. Len(s) /\ \A i \in 1 .. Len(s) : s[i] \in Nat
    BY LenProperties, ElementOfSeq
  <1>2. Window \in Nat
    BY GateAssumption
  <1>3. ASSUME NEW f \in 1 .. Len(s) + 1, Purged(s, now) = SubSeq(s, f, Len(s)),
               \A i \in 1 .. f - 1 : s[i] + Window <= now
        PROVE  \E p \in 0 .. Len(s) :
                  /\ Purged(s, now) \in Seq(Nat) /\ Len(Purged(s, now)) = Len(s) - p
                  /\ \A i \in 1 .. Len(s) - p : Purged(s, now)[i] = s[p + i]
                  /\ \A i \in 1 .. p : s[i] + Window <= now
    <2>1. /\ SubSeq(s, f, Len(s)) \in Seq(Nat)
          /\ Len(SubSeq(s, f, Len(s))) = IF f <= Len(s) THEN Len(s) - f + 1 ELSE 0
          /\ \A i \in 1 .. Len(s) - f + 1 : SubSeq(s, f, Len(s))[i] = s[f + i - 1]
      <3>1. \A i \in f .. Len(s) : s[i] \in Nat
        BY <1>1
      <3>2. f \in Int /\ Len(s) \in Int
        BY <1>1
      <3> QED  BY <3>1, <3>2, SubSeqProperties
    <2>2. f - 1 \in 0 .. Len(s)
          /\ Len(s) - f + 1 = Len(s) - (f - 1)
          /\ (IF f <= Len(s) THEN Len(s) - f + 1 ELSE 0) = Len(s) - (f - 1)
          /\ \A i \in 1 .. Len(s) - (f - 1) : f + i - 1 = f - 1 + i
      BY <1>1
    <2>3. \A i \in 1 .. Len(s) - (f - 1) : Purged(s, now)[i] = s[f - 1 + i]
      BY <1>3, <2>1, <2>2
    <2> QED  BY <1>3, <2>1, <2>2, <2>3
  <1>4. CASE kept = {}
    <2>1. Purged(s, now) = SubSeq(s, Len(s) + 1, Len(s))
      BY <1>4 DEF Purged
    <2>2. ASSUME NEW i \in 1 .. Len(s) PROVE s[i] + Window <= now
      <3>1. i \notin kept /\ s[i] \in Nat
        BY <1>1, <1>4
      <3>2. ~(s[i] + Window > now)
        BY <1>1, <3>1
      <3> QED  BY <1>2, <3>1, <3>2
    <2>4. \A i \in 1 .. Len(s) + 1 - 1 : s[i] + Window <= now
      BY <1>1, <2>2
    <2>3. Len(s) + 1 \in 1 .. Len(s) + 1
      BY <1>1
    <2> QED  BY <1>3, <2>1, <2>3, <2>4
  <1>5. CASE kept # {}
    <2> DEFINE f == CHOOSE i \in kept : \A j \in kept : i <= j
    <2>1. kept \in SUBSET Nat
      BY <1>1
    <2>2. \E i \in kept : \A j \in kept : i <= j
      BY <1>5, <2>1, Least
    <2>3. f \in kept /\ \A j \in kept : f <= j
      BY <2>2
    <2>4. Purged(s, now) = SubSeq(s, f, Len(s))
      BY <1>5 DEF Purged
    <2> HIDE DEF f
    <2>5. f \in 1 .. Len(s)
      BY <1>1, <2>3
    <2>6. ASSUME NEW i \in 1 .. f - 1 PROVE s[i] + Window <= now
      <3>1. i \in 1 .. Len(s) /\ ~(f <= i)
        BY <1>1, <2>5
      <3>2. i \notin kept
        BY <2>3, <3>1
      <3>3. ~(s[i] + Window > now) /\ s[i] \in Nat
        BY <1>1, <3>1, <3>2
      <3> QED  BY <1>2, <3>3
    <2>7. f \in 1 .. Len(s) + 1
      BY <1>1, <2>5
    <2> QED  BY <1>3, <2>4, <2>6, <2>7
  <1> QED  BY <1>4, <1>5

(* An attempt is out of its bucket for a later one, at most SubLimit       *)
(* attempts after it, that arrived when a window had gone by.              *)
Outlived(all, i) ==
    \E j \in i + 1 .. i + SubLimit : j <= Len(all) /\ all[j] >= all[i] + Window

(* The limiter's stamps `kept' are the last of all those it let pass, no   *)
(* more than the limit, and the others are outlived.                       *)
Recorded(all, kept) ==
    /\ Len(kept) <= SubLimit /\ Len(kept) <= Len(all)
    /\ \A i \in 1 .. Len(kept) : kept[i] = all[Len(all) - Len(kept) + i]
    /\ \A i \in 1 .. Len(all) - Len(kept) : Outlived(all, i)

(* `rest' is what a purge of p stamps by the clock now leaves of `kept'.   *)
PurgedOf(kept, rest, p, now) ==
    /\ Len(rest) = Len(kept) - p
    /\ \A i \in 1 .. Len(kept) - p : rest[i] = kept[p + i]
    /\ \A i \in 1 .. p : kept[i] + Window <= now

LEMMA LimitNumbers ==
    /\ SubLimit \in Nat \ {0} /\ Window \in Nat
    /\ \A s \in Seq(Nat) : Len(s) \in Nat /\ \A i \in 1 .. Len(s) : s[i] \in Nat
  BY LenProperties, ElementOfSeq, GateAssumption

(* A bucket that is full after the purge was not purged of anything.       *)
LEMMA FullRecords ==
    ASSUME NEW all \in Seq(Nat), NEW kept \in Seq(Nat), NEW rest \in Seq(Nat), NEW now \in Nat,
           NEW p \in 0 .. Len(kept), Recorded(all, kept), PurgedOf(kept, rest, p, now),
           Len(rest) >= SubLimit
    PROVE  Recorded(all, rest)
  <1>1. Len(kept) \in Nat /\ Len(rest) \in Nat /\ Len(all) \in Nat
    BY LimitNumbers
  <1>2. p = 0 /\ Len(rest) = Len(kept)
    BY <1>1, LimitNumbers DEF Recorded, PurgedOf
  <1>3. \A i \in 1 .. Len(rest) : rest[i] = kept[i]
    BY <1>1, <1>2 DEF PurgedOf
  <1> QED  BY <1>1, <1>2, <1>3 DEF Recorded

(* An attempt that is let pass outlives what its purge took.               *)
LEMMA StampRecords ==
    ASSUME NEW all \in Seq(Nat), NEW kept \in Seq(Nat), NEW rest \in Seq(Nat), NEW now \in Nat,
           NEW p \in 0 .. Len(kept), Recorded(all, kept), PurgedOf(kept, rest, p, now),
           Len(rest) < SubLimit
    PROVE  Recorded(Append(all, now), Append(rest, now))
  <1> DEFINE more  == Append(all, now)
             again == Append(rest, now)
  <1>1. /\ more \in Seq(Nat) /\ again \in Seq(Nat)
        /\ Len(more) = Len(all) + 1 /\ Len(again) = Len(rest) + 1
        /\ \A i \in 1 .. Len(all) : more[i] = all[i]
        /\ more[Len(all) + 1] = now
        /\ \A i \in 1 .. Len(rest) : again[i] = rest[i]
        /\ again[Len(rest) + 1] = now
    BY AppendProperties, LenProperties
  <1> HIDE DEF more, again
  <1> DEFINE n == Len(all) - Len(kept)
  <1>2. /\ n \in Nat /\ p \in Nat /\ Len(kept) \in Nat /\ Len(rest) \in Nat
        /\ Len(kept) = Len(rest) + p /\ Len(all) = n + p + Len(rest)
        /\ Len(kept) <= SubLimit /\ n = Len(all) - Len(kept)
    BY LimitNumbers DEF Recorded, PurgedOf
  <1> HIDE DEF n
  <1>3. Len(again) <= SubLimit /\ Len(again) <= Len(more) /\ Len(more) - Len(again) = n + p
    BY <1>1, <1>2, LimitNumbers
  <1>4. ASSUME NEW i \in 1 .. p + Len(rest) PROVE kept[i] = all[n + i]
    BY <1>2, <1>4 DEF Recorded
  <1>5. ASSUME NEW i \in 1 .. Len(again) PROVE again[i] = more[n + p + i]
    <2>1. CASE i <= Len(rest)
      <3>1. /\ i \in 1 .. Len(rest) /\ i \in 1 .. Len(kept) - p
            /\ p + i \in 1 .. p + Len(rest) /\ n + p + i \in 1 .. Len(all)
            /\ n + (p + i) = n + p + i
        BY <1>2, <2>1
      <3>2. rest[i] = kept[p + i]
        BY <3>1 DEF PurgedOf
      <3>3. kept[p + i] = all[n + p + i]
        BY <1>4, <3>1
      <3> QED  BY <1>1, <3>1, <3>2, <3>3
    <2>2. CASE i = Len(rest) + 1
      <3>1. n + p + i = Len(all) + 1
        BY <1>2, <2>2
      <3> QED  BY <1>1, <2>2, <3>1
    <2> QED  BY <1>1, <1>2, <2>1, <2>2
  <1>6. ASSUME NEW i \in 1 .. n + p PROVE Outlived(more, i)
    <2>0. i \in 1 .. Len(all) /\ more[i] = all[i] /\ all[i] \in Nat
      <3>1. i \in 1 .. Len(all)
        BY <1>2, <1>6
      <3> QED  BY <1>1, <3>1, LimitNumbers
    <2>1. CASE i <= n
      <3>0. i \in 1 .. Len(all) - Len(kept)
        BY <1>2, <1>6, <2>1
      <3>1. PICK j \in i + 1 .. i + SubLimit : j <= Len(all) /\ all[j] >= all[i] + Window
        BY <3>0 DEF Recorded, Outlived
      <3>2. j \in 1 .. Len(all)
        BY <1>2, <3>1, LimitNumbers
      <3>3. more[j] >= more[i] + Window /\ j <= Len(more)
        BY <1>1, <1>2, <2>0, <3>1, <3>2
      <3> QED  BY <3>1, <3>3 DEF Outlived
    <2>2. CASE i > n
      <3>1. i - n \in 1 .. p /\ i - n \in 1 .. p + Len(rest) /\ n + (i - n) = i
        BY <1>2, <2>2
      <3>2. kept[i - n] = all[i]
        BY <1>4, <3>1
      <3>3. kept[i - n] + Window <= now
        BY <3>1 DEF PurgedOf
      <3>4. Len(all) + 1 \in i + 1 .. i + SubLimit
        BY <1>2, <2>0, <2>2, LimitNumbers
      <3>5. more[Len(all) + 1] >= more[i] + Window /\ Len(all) + 1 <= Len(more)
        BY <1>1, <1>2, <2>0, <3>2, <3>3, LimitNumbers
      <3> QED  BY <3>4, <3>5 DEF Outlived
    <2> QED  BY <1>2, <2>1, <2>2
  <1>7. Recorded(more, again)
    BY <1>3, <1>5, <1>6 DEF Recorded
  <1> QED  BY <1>7 DEF more, again

(* The inductive invariant of the limiter.                                 *)
Limiter ==
    /\ attempts \in [Sub -> Seq(Nat)] /\ admitted \in [Sub -> Seq(Nat)]
    /\ \A u \in Sub : Recorded(admitted[u], attempts[u])

LEMMA CheckRecords ==
    ASSUME Limiter, NEW u \in Sub, NEW now \in Nat, CheckSub(u, now)
    PROVE  Limiter'
  <1>1. /\ attempts[u] \in Seq(Nat) /\ admitted[u] \in Seq(Nat)
        /\ Recorded(admitted[u], attempts[u])
    BY DEF Limiter
  <1>2. PICK rest \in Seq(Nat), p \in 0 .. Len(attempts[u]) :
           rest = Purged(attempts[u], now) /\ PurgedOf(attempts[u], rest, p, now)
    BY <1>1, PurgeTakesOld DEF PurgedOf
  <1>3. CASE Len(rest) >= SubLimit
    <2>1. attempts' = [attempts EXCEPT ![u] = rest] /\ admitted' = admitted
      BY <1>2, <1>3 DEF CheckSub
    <2>2. Recorded(admitted[u], rest)
      BY <1>1, <1>2, <1>3, FullRecords
    <2> QED  BY <1>2, <2>1, <2>2 DEF Limiter
  <1>4. CASE ~(Len(rest) >= SubLimit)
    <2>1. PICK more \in Seq(Nat), again \in Seq(Nat) :
             more = Append(admitted[u], now) /\ again = Append(rest, now)
      BY <1>1, <1>2, AppendProperties
    <2>2. attempts' = [attempts EXCEPT ![u] = again] /\ admitted' = [admitted EXCEPT ![u] = more]
      BY <1>2, <1>4, <2>1 DEF CheckSub
    <2>3. Len(rest) < SubLimit
      BY <1>4, LimitNumbers
    <2>4. Recorded(more, again)
      BY <1>1, <1>2, <2>1, <2>3, StampRecords
    <2> QED  BY <2>1, <2>2, <2>4 DEF Limiter
  <1> QED  BY <1>3, <1>4

LEMMA LimiterStep ==
    ASSUME LoginTypes, Limiter, [Next]_vars
    PROVE  Limiter'
  <1>1. CASE UNCHANGED <<attempts, admitted>>
    BY <1>1 DEF Limiter
  <1>2. ASSUME NEW r \in Request, Decoded(r) PROVE Limiter'
    <2>1. UNCHANGED <<attempts, admitted>> \/ \E u \in Sub : CheckSub(u, at[r])
      BY <1>2 DEF Decoded, Verified, Refused, limiter
    <2>2. at[r] \in Nat
      BY DEF LoginTypes
    <2> QED  BY <1>1, <2>1, <2>2, CheckRecords
  <1>3. CASE UNCHANGED vars
    BY <1>1, <1>3 DEF vars
  <1>4. ASSUME NEW c \in Cookie, ConfigNew(c) \/ ConfigAgain(c) PROVE Limiter'
    BY <1>1, <1>4 DEF ConfigNew, ConfigAgain, limiter
  <1>5. CASE Tick
    BY <1>1, <1>5 DEF Tick, limiter
  <1>6. ASSUME NEW r \in Request,
               Arrive(r) \/ BodyRead(r) \/ KeyLocked(r) \/ FetchAnswered(r) \/ FetchFails(r)
        PROVE  Limiter'
    BY <1>1, <1>6 DEF Arrive, BodyRead, KeyLocked, FetchAnswered, FetchFails, limiter
  <1> QED  BY <1>2, <1>3, <1>4, <1>5, <1>6, NextCases

(* The inductive invariant of the limiter holds.                           *)
THEOREM LimiterHolds == Spec => []Limiter
<1>1. Init => Limiter
  <2> SUFFICES ASSUME Init PROVE Limiter
    OBVIOUS
  <2>1. Recorded(<<>>, <<>>) /\ <<>> \in Seq(Nat)
    BY LimitNumbers DEF Recorded
  <2> QED  BY <2>1 DEF Init, Limiter
<1>2. LoginTypes /\ Limiter /\ [Next]_vars => Limiter'
  BY LimiterStep
<1> QED  BY <1>1, <1>2, LoginTypesHold, PTL DEF Spec

(* No subject gets past its limit without a window going by, in whatever   *)
(* order slow requests come to the limiter (SubLimited).                   *)
THEOREM Limited == Spec => []SubLimited
<1>1. Limiter => SubLimited
  <2> SUFFICES ASSUME Limiter, NEW u \in Sub, NEW i \in DOMAIN admitted[u],
                      i + SubLimit \in DOMAIN admitted[u]
               PROVE  \E j \in i + 1 .. i + SubLimit :
                         admitted[u][j] >= admitted[u][i] + Window
    BY DEF SubLimited
  <2>1. /\ admitted[u] \in Seq(Nat) /\ attempts[u] \in Seq(Nat)
        /\ Recorded(admitted[u], attempts[u])
    BY DEF Limiter
  <2>2. /\ DOMAIN admitted[u] = 1 .. Len(admitted[u])
        /\ Len(admitted[u]) \in Nat /\ Len(attempts[u]) \in Nat
    BY <2>1, LenProperties
  <2>3. i \in 1 .. Len(admitted[u]) - Len(attempts[u])
    <3>1. Len(attempts[u]) <= SubLimit
      BY <2>1 DEF Recorded
    <3>2. i \in Nat /\ 1 <= i /\ i + SubLimit <= Len(admitted[u])
      BY <2>2, LimitNumbers
    <3> QED  BY <2>2, <3>1, <3>2, LimitNumbers
  <2>4. Outlived(admitted[u], i)
    BY <2>1, <2>3 DEF Recorded
  <2>5. PICK j \in i + 1 .. i + SubLimit :
           j <= Len(admitted[u]) /\ admitted[u][j] >= admitted[u][i] + Window
    BY <2>4 DEF Outlived
  <2> QED  BY <2>5
<1> QED  BY <1>1, LimiterHolds, PTL

-----------------------------------------------------------------------------
(* The keys and the lock keep their types.                                 *)
LEMMA KeyTypesStep ==
    ASSUME LoginTypes, KeyTypes, [Next]_vars
    PROVE  KeyTypes'
  <1>0. /\ Throttle \in Nat /\ UnknownTtl \in Nat /\ KeyTtl \in Nat
        /\ \A r \in Request : at[r] \in Nat /\ kid[r] \in Kid
    BY GateAssumption DEF LoginTypes
  <1>1. CASE UNCHANGED keyCache
    BY <1>1 DEF keyCache, KeyTypes
  <1>2. ASSUME NEW f \in [Kid -> Nat], NEW k \in Kid, NEW now \in Nat
        PROVE  Marked(f, k, now) \in [Kid -> Nat]
    BY <1>0, <1>2 DEF Marked
  <1>3. ASSUME NEW r \in Request, KeyLocked(r) PROVE KeyTypes'
    <2>1. at[r] + Throttle \in Nat /\ Marked(unknownUntil, kid[r], at[r]) \in [Kid -> Nat]
      BY <1>0, <1>2 DEF KeyTypes
    <2>2. /\ UNCHANGED <<keys, expiresAt>>
          /\ nextRefresh' \in {nextRefresh, at[r] + Throttle}
          /\ fetched' \in {fetched, at[r] + Throttle}
          /\ unknownUntil' \in {unknownUntil, Marked(unknownUntil, kid[r], at[r])}
          /\ refreshLock' \in {refreshLock, r}
      BY <1>3 DEF KeyLocked
    <2> QED  BY <2>1, <2>2 DEF KeyTypes
  <1>4. ASSUME NEW r \in Request, FetchAnswered(r) PROVE KeyTypes'
    <2>1. PICK S \in Usable, ttl \in Freshness :
             /\ keys' = S /\ expiresAt' = at[r] + ttl
             /\ unknownUntil' \in {[k \in Kid |-> 0], Marked([k \in Kid |-> 0], kid[r], at[r])}
             /\ refreshLock' = Free /\ UNCHANGED <<nextRefresh, fetched>>
      BY <1>4 DEF FetchAnswered
    <2>2. S \subseteq Kid /\ at[r] + ttl \in Nat
      BY <1>0, <2>1 DEF Usable, Freshness
    <2>3. [k \in Kid |-> 0] \in [Kid -> Nat]
      OBVIOUS
    <2>4. Marked([k \in Kid |-> 0], kid[r], at[r]) \in [Kid -> Nat]
      BY <1>0, <1>2, <2>3
    <2> QED  BY <2>1, <2>2, <2>3, <2>4 DEF KeyTypes
  <1>5. ASSUME NEW r \in Request, FetchFails(r) PROVE KeyTypes'
    BY <1>5 DEF FetchFails, KeyTypes
  <1>6. CASE UNCHANGED vars
    BY <1>1, <1>6 DEF vars, keyCache
  <1>7. ASSUME NEW c \in Cookie, ConfigNew(c) \/ ConfigAgain(c) PROVE KeyTypes'
    BY <1>1, <1>7 DEF ConfigNew, ConfigAgain
  <1>8. CASE Tick
    BY <1>1, <1>8 DEF Tick
  <1>9. ASSUME NEW r \in Request, Arrive(r) \/ BodyRead(r) \/ Decoded(r) PROVE KeyTypes'
    BY <1>1, <1>9 DEF Arrive, BodyRead, Decoded
  <1> QED  BY <1>3, <1>4, <1>5, <1>6, <1>7, <1>8, <1>9, NextCases

(* Every variable of challenges, keys, limiter and requests keeps its type *)
(* (TypeOK).                                                               *)
THEOREM TypeCorrect == Spec => []TypeOK
<1>1. Init => KeyTypes
  BY DEF Init, KeyTypes
<1>2. LoginTypes /\ KeyTypes /\ [Next]_vars => KeyTypes'
  BY KeyTypesStep
<1>3. LoginTypes /\ KeyTypes /\ Limiter => TypeOK
  BY DEF Limiter, TypeOK
<1> QED  BY <1>1, <1>2, <1>3, LoginTypesHold, LimiterHolds, PTL DEF Spec
=============================================================================
