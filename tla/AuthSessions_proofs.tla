------------------------ MODULE AuthSessions_proofs ------------------------
(***************************************************************************)
(* Proofs about AuthSessions, for any number of subjects, sessions,        *)
(* sockets and requests: the registry's maps agree, no socket stays open   *)
(* on a session that was ended unless somebody is on the way to close it,  *)
(* and no upgrade is completed on a session that was logged out or rotated *)
(* away.                                                                   *)
(***************************************************************************)
EXTENDS AuthSessions, TLAPS

LEMMA NextCases ==
    ASSUME Next
    PROVE  \/ \E h \in Handler, u \in Sub : LoginStart(h, u)
           \/ \E h \in Handler, t \in Token : LogoutStart(h, t) \/ MeStart(h, t)
           \/ \E h \in Handler : \/ LoginVerified(h) \/ LoginLock(h) \/ LoginIssue(h)
                                 \/ LoginSnapshot(h) \/ LogoutLock(h) \/ LogoutRevoke(h)
                                 \/ MeResolve(h) \/ Respond(h)
           \/ \E a \in Handler \cup Socket : CloseNext(a)
           \/ \E s \in Socket, t \in Token : BindStart(s, t)
           \/ \E s \in Socket : \/ BindLock(s) \/ BindResolve(s) \/ BindUpgrade(s)
                                \/ BindRefused(s) \/ ServeEnds(s) \/ Unbind(s)
                                \/ CloseEnds(s) \/ PeerLeaves(s)
           \/ \E t \in Token : WatchWake(t) \/ WatchResolve(t) \/ WatchClose(t)
           \/ SweepStart \/ SweepStore \/ SweepSnapshot \/ SweepCheck \/ SweepDrop \/ SweepEnds
           \/ Tick
  BY DEF Next, Arrive, HandlerStep, LoginStep, LogoutStep, Connect, SocketStep, WatchStep,
         SweepStep

-----------------------------------------------------------------------------
(* Types.                                                                  *)

Pc == HandlerPc \cup SocketPc \cup SweeperPc

LEMMA PcIn ==
    /\ {"idle", "login", "loginLock", "issue", "rotated", "logout", "revoke", "me", "closing"}
          \subseteq Pc
    /\ {"new", "lock", "resolve", "upgrade", "serve", "unbind", "gone"} \subseteq Pc
    /\ {"sleep", "sweep", "snapshot", "check", "drop"} \subseteq Pc
  BY DEF Pc, HandlerPc, SocketPc, SweeperPc

LEMMA ActorIn == Handler \subseteq Actor /\ Socket \subseteq Actor /\ Sweeper \in Actor
  BY DEF Actor

LEMMA TokenIn == Token \subseteq Nat /\ NoToken \notin Token /\ NoToken \in Nat
  BY DEF Token, NoToken

LEMMA GotoType ==
    ASSUME pc \in [Actor -> Pc], NEW a \in Actor, NEW where \in Pc, Goto(a, where)
    PROVE  pc' \in [Actor -> Pc]
  BY DEF Goto

(* The table, the registry, and the locals of the actors.                  *)
TableTypes ==
    /\ clock \in 0 .. MaxTime
    /\ live \subseteq Token /\ known \subseteq Token
    /\ owner \in [Token -> Sub]
    /\ expires \in [Token -> Nat] /\ seen \in [Token -> Nat]
    /\ issued \in 0 .. MaxTokens

RegistryTypes ==
    /\ entries \subseteq Token
    /\ bound \in [Token -> SUBSET Socket]
    /\ sockToken \in [Socket -> Token \cup {NoToken}]
    /\ ws \in [Socket -> {"new", "open", "closing", "closed"}]
    /\ watch \in [Token -> {"off", "asleep", "resolve", "close"}] /\ wake \in [Token -> Nat]

LocalTypes ==
    /\ lock \in Handler \cup Socket \cup {Free}
    /\ pc \in [Actor -> Pc]
    /\ tok \in [Actor -> Token \cup {NoToken}]
    /\ sub \in [Handler -> Sub] /\ at \in [Actor -> Nat]
    /\ todo \in [Actor -> SUBSET Token] /\ dying \in [Actor -> SUBSET Socket]

Types == TableTypes /\ RegistryTypes /\ LocalTypes

LEMMA TypeParts == Types <=> TypeOK
  BY DEF Types, TypeOK, TableTypes, RegistryTypes, LocalTypes, Pc

LEMMA TouchType ==
    ASSUME TableTypes, NEW t, NEW now \in Nat, Touch(t, now)
    PROVE  seen' \in [Token -> Nat]
  BY DEF Touch, Latest, TableTypes

LEMMA IssueType ==
    ASSUME TableTypes, NEW u \in Sub, NEW now \in Nat, Issue(u, now)
    PROVE  /\ issued' \in 0 .. MaxTokens /\ live' \subseteq Token
           /\ owner' \in [Token -> Sub]
           /\ expires' \in [Token -> Nat] /\ seen' \in [Token -> Nat]
           /\ issued + 1 \in Token
  <1>1. issued + 1 \in Token /\ issued + 1 \in 0 .. MaxTokens
    BY AuthAssumption DEF Issue, TableTypes, Token
  <1>2. now + Absolute \in Nat
    BY AuthAssumption
  <1> QED  BY <1>1, <1>2 DEF Issue, TableTypes

LEMMA CloseTokenType ==
    ASSUME RegistryTypes, NEW t, CloseToken(t)
    PROVE  RegistryTypes'
  BY DEF CloseToken, Doomed, RegistryTypes

LEMMA DoomedType == ASSUME RegistryTypes, NEW t \in Token PROVE Doomed(t) \subseteq Socket
  BY DEF Doomed, RegistryTypes

LEMMA RegisterType ==
    ASSUME RegistryTypes, clock \in Nat, NEW s \in Socket, tok[s] \in Token, Register(s)
    PROVE  RegistryTypes'
  <1>1. clock + Idle \in Nat
    BY AuthAssumption
  <1> QED  BY <1>1 DEF Register, RegistryTypes

(* Whoever acts upon a session has its token.                              *)
Holding  == {"logout", "revoke", "me", "lock", "resolve", "upgrade", "serve", "drop"}
HasToken == \A a \in Actor : pc[a] \in Holding => tok[a] \in Token

LEMMA StillHolding ==
    ASSUME LocalTypes, HasToken, NEW a \in Actor, NEW where, Goto(a, where),
           \A b \in Actor : b = a \/ tok'[b] = tok[b],
           where \in Holding => tok'[a] \in Token
    PROVE  HasToken'
  BY DEF HasToken, Goto, LocalTypes

LEMMA LeaveType ==
    ASSUME LocalTypes, NEW h \in Handler, Leave(h)
    PROVE  /\ pc' \in [Actor -> Pc] /\ tok' \in [Actor -> Token \cup {NoToken}]
           /\ sub' \in [Handler -> Sub] /\ at' \in [Actor -> Nat]
  BY ActorIn, PcIn DEF Leave, Goto, LocalTypes

LEMMA CloseAfterType ==
    ASSUME LocalTypes, NEW a \in Actor, NEW T \in SUBSET Token, CloseAfter(a, T)
    PROVE  /\ pc' \in [Actor -> Pc]
           /\ todo' \in [Actor -> SUBSET Token] /\ dying' \in [Actor -> SUBSET Socket]
  BY PcIn DEF CloseAfter, Goto, LocalTypes

LEMMA LoginTypes ==
    ASSUME Types, HasToken, NEW h \in Handler,
           \/ \E u \in Sub : LoginStart(h, u)
           \/ \E t \in Token : LogoutStart(h, t) \/ MeStart(h, t)
           \/ LoginVerified(h) \/ LoginLock(h) \/ LoginIssue(h) \/ LoginSnapshot(h)
    PROVE  Types' /\ HasToken'
  <1> USE PcIn, ActorIn, TokenIn
  <1>0. TableTypes /\ RegistryTypes /\ LocalTypes /\ h \in Actor
    BY DEF Types
  <1>1. ASSUME NEW u \in Sub, LoginStart(h, u) PROVE Types' /\ HasToken'
    <2>1. TableTypes' /\ RegistryTypes'
      BY <1>0, <1>1 DEF LoginStart, table, registry, TableTypes, RegistryTypes
    <2>2. LocalTypes'
      BY <1>0, <1>1, GotoType DEF LoginStart, TableTypes, LocalTypes
    <2>3. HasToken'
      BY <1>0, <1>1, StillHolding DEF LoginStart, Holding
    <2> QED  BY <2>1, <2>2, <2>3 DEF Types
  <1>2. ASSUME NEW t \in Token, LogoutStart(h, t) \/ MeStart(h, t) PROVE Types' /\ HasToken'
    <2>1. TableTypes' /\ RegistryTypes'
      BY <1>0, <1>2 DEF LogoutStart, MeStart, Present, table, registry, TableTypes, RegistryTypes
    <2>2. LocalTypes'
      BY <1>0, <1>2, GotoType DEF LogoutStart, MeStart, Present, TableTypes, LocalTypes
    <2>3. /\ \A b \in Actor : b = h \/ tok'[b] = tok[b]
          /\ tok'[h] \in Token
      BY <1>0, <1>2 DEF LogoutStart, MeStart, Present, LocalTypes
    <2>4. HasToken'
      BY <1>0, <1>2, <2>3, StillHolding DEF LogoutStart, MeStart
    <2> QED  BY <2>1, <2>2, <2>4 DEF Types
  <1>3. CASE LoginVerified(h)
    <2>1. TableTypes' /\ RegistryTypes'
      BY <1>0, <1>3 DEF LoginVerified, table, registry, TableTypes, RegistryTypes
    <2>2. LocalTypes'
      BY <1>0, <1>3, GotoType, LeaveType DEF LoginVerified, local, LocalTypes
    <2>3. \A b \in Actor : b = h \/ tok'[b] = tok[b]
      BY <1>0, <1>3 DEF LoginVerified, Leave, local, LocalTypes
    <2>4. HasToken'
      BY <1>0, <1>3, <2>3, StillHolding DEF LoginVerified, Leave, Holding
    <2> QED  BY <2>1, <2>2, <2>4 DEF Types
  <1>4. CASE LoginLock(h)
    <2>1. TableTypes' /\ RegistryTypes'
      BY <1>0, <1>4 DEF LoginLock, table, registry, TableTypes, RegistryTypes
    <2>2. LocalTypes'
      BY <1>0, <1>4, GotoType DEF LoginLock, local, LocalTypes
    <2>3. HasToken'
      BY <1>0, <1>4, StillHolding DEF LoginLock, local, Holding
    <2> QED  BY <2>1, <2>2, <2>3 DEF Types
  <1>5. CASE LoginIssue(h)
    <2>0. sub[h] \in Sub /\ at[h] \in Nat
      BY <1>0 DEF LocalTypes
    <2>1. TableTypes' /\ RegistryTypes'
      BY <1>0, <1>5, <2>0, IssueType DEF LoginIssue, table, registry, TableTypes, RegistryTypes
    <2>2. LocalTypes' /\ \A b \in Actor : b = h \/ tok'[b] = tok[b]
      <3>1. CASE Issue(sub[h], at[h]) /\ tok' = [tok EXCEPT ![h] = issued + 1]
                 /\ Goto(h, "rotated") /\ UNCHANGED <<sub, at>>
        BY <1>0, <1>5, <2>0, <3>1, IssueType, GotoType DEF LoginIssue, LocalTypes
      <3>2. CASE Leave(h)
        BY <1>0, <1>5, <3>2, LeaveType DEF LoginIssue, Leave, LocalTypes
      <3> QED  BY <1>5, <3>1, <3>2 DEF LoginIssue
    <2>3. HasToken'
      BY <1>0, <1>5, <2>2, StillHolding DEF LoginIssue, Leave, Holding
    <2> QED  BY <2>1, <2>2, <2>3 DEF Types
  <1>6. CASE LoginSnapshot(h)
    <2>1. TableTypes' /\ RegistryTypes'
      BY <1>0, <1>6 DEF LoginSnapshot, table, registry, TableTypes, RegistryTypes
    <2>2. LocalTypes'
      BY <1>0, <1>6, CloseAfterType DEF LoginSnapshot, local, LocalTypes, RegistryTypes
    <2>3. HasToken'
      BY <1>0, <1>6, StillHolding DEF LoginSnapshot, CloseAfter, local, Holding
    <2> QED  BY <2>1, <2>2, <2>3 DEF Types
  <1> QED  BY <1>1, <1>2, <1>3, <1>4, <1>5, <1>6

LEMMA LogoutTypes ==
    ASSUME Types, HasToken, NEW h \in Handler,
           LogoutLock(h) \/ LogoutRevoke(h) \/ MeResolve(h) \/ Respond(h)
    PROVE  Types' /\ HasToken'
  <1> USE PcIn, ActorIn, TokenIn
  <1>0. TableTypes /\ RegistryTypes /\ LocalTypes /\ h \in Actor
    BY DEF Types
  <1>1. CASE LogoutLock(h)
    <2>1. TableTypes' /\ RegistryTypes'
      BY <1>0, <1>1 DEF LogoutLock, table, registry, TableTypes, RegistryTypes
    <2>2. LocalTypes'
      BY <1>0, <1>1, GotoType DEF LogoutLock, local, LocalTypes
    <2>3. HasToken'
      BY <1>0, <1>1, StillHolding DEF LogoutLock, local, HasToken, Holding
    <2> QED  BY <2>1, <2>2, <2>3 DEF Types
  <1>2. CASE LogoutRevoke(h)
    <2>0. tok[h] \in Token
      BY <1>0, <1>2 DEF LogoutRevoke, HasToken, Holding
    <2>1. TableTypes' /\ RegistryTypes'
      BY <1>0, <1>2 DEF LogoutRevoke, registry, TableTypes, RegistryTypes
    <2>2. LocalTypes'
      BY <1>0, <1>2, <2>0, CloseAfterType DEF LogoutRevoke, local, LocalTypes
    <2>3. HasToken'
      BY <1>0, <1>2, StillHolding DEF LogoutRevoke, CloseAfter, local, Holding
    <2> QED  BY <2>1, <2>2, <2>3 DEF Types
  <1>3. CASE MeResolve(h)
    <2>0. tok[h] \in Token /\ at[h] \in Nat
      BY <1>0, <1>3 DEF MeResolve, HasToken, Holding, LocalTypes
    <2>1. TableTypes' /\ RegistryTypes'
      <3>1. seen' \in [Token -> Nat]
        BY <1>0, <1>3, <2>0, TouchType DEF MeResolve, TableTypes
      <3> QED  BY <1>0, <1>3, <3>1 DEF MeResolve, registry, TableTypes, RegistryTypes
    <2>2. LocalTypes' /\ \A b \in Actor : b = h \/ tok'[b] = tok[b]
      <3>1. CASE Leave(h) /\ UNCHANGED <<todo, dying>>
        BY <1>0, <1>3, <3>1, LeaveType DEF MeResolve, Leave, LocalTypes
      <3>2. CASE CloseAfter(h, {tok[h]}) /\ UNCHANGED local
        BY <1>0, <1>3, <2>0, <3>2, CloseAfterType DEF MeResolve, local, LocalTypes
      <3> QED  BY <1>3, <3>1, <3>2 DEF MeResolve
    <2>3. HasToken'
      BY <1>0, <1>3, <2>2, StillHolding DEF MeResolve, Leave, CloseAfter, Holding
    <2> QED  BY <2>1, <2>2, <2>3 DEF Types
  <1>4. CASE Respond(h)
    <2>0. tok[h] \in Token \cup {NoToken}
      BY <1>0 DEF LocalTypes
    <2>1. TableTypes' /\ RegistryTypes'
      <3>1. known' \subseteq Token
        BY <1>0, <1>4, <2>0 DEF Respond, TableTypes
      <3> QED  BY <1>0, <1>4, <3>1 DEF Respond, table, registry, TableTypes, RegistryTypes
    <2>2. LocalTypes'
      BY <1>0, <1>4, LeaveType DEF Respond, LocalTypes
    <2>3. \A b \in Actor : b = h \/ tok'[b] = tok[b]
      BY <1>0, <1>4 DEF Respond, Leave, LocalTypes
    <2>4. HasToken'
      BY <1>0, <1>4, <2>3, StillHolding DEF Respond, Leave, Holding
    <2> QED  BY <2>1, <2>2, <2>4 DEF Types
  <1> QED  BY <1>1, <1>2, <1>3, <1>4

LEMMA CloseTypes ==
    ASSUME Types, HasToken, NEW a \in Handler \cup Socket, CloseNext(a)
    PROVE  Types' /\ HasToken'
  <1>1. TableTypes /\ RegistryTypes /\ LocalTypes /\ a \in Actor
    BY DEF Types, Actor
  <1>2. PICK t \in todo[a] :
          /\ CloseToken(t)
          /\ todo' = [todo EXCEPT ![a] = @ \ {t}]
          /\ dying' = [dying EXCEPT ![a] = Doomed(t)]
    BY DEF CloseNext
  <1>3. t \in Token
    BY <1>1 DEF LocalTypes
  <1>4. RegistryTypes' /\ TableTypes'
    BY <1>1, <1>2, CloseTokenType DEF CloseNext, table, TableTypes
  <1>5. LocalTypes'
    <2>1. todo' \in [Actor -> SUBSET Token] /\ dying' \in [Actor -> SUBSET Socket]
      BY <1>1, <1>2, <1>3, DoomedType DEF LocalTypes
    <2> QED  BY <1>1, <2>1 DEF CloseNext, local, LocalTypes
  <1>6. HasToken'
    BY DEF CloseNext, local, HasToken
  <1> QED  BY <1>4, <1>5, <1>6 DEF Types

LEMMA SocketTypes ==
    ASSUME Types, HasToken, NEW s \in Socket,
           \/ \E t \in Token : BindStart(s, t)
           \/ BindLock(s) \/ BindResolve(s) \/ BindUpgrade(s) \/ BindRefused(s)
           \/ ServeEnds(s) \/ Unbind(s) \/ CloseEnds(s) \/ PeerLeaves(s)
    PROVE  Types' /\ HasToken'
  <1> USE PcIn, ActorIn, TokenIn
  <1>0. TableTypes /\ RegistryTypes /\ LocalTypes /\ s \in Actor
    BY DEF Types
  <1>1. ASSUME NEW t \in Token, BindStart(s, t) PROVE Types' /\ HasToken'
    <2>1. TableTypes' /\ RegistryTypes'
      BY <1>0, <1>1 DEF BindStart, table, registry, TableTypes, RegistryTypes
    <2>2. LocalTypes' /\ (\A b \in Actor : b = s \/ tok'[b] = tok[b]) /\ tok'[s] \in Token
      BY <1>0, <1>1, GotoType DEF BindStart, LocalTypes
    <2>3. HasToken'
      BY <1>0, <1>1, <2>2, StillHolding DEF BindStart
    <2> QED  BY <2>1, <2>2, <2>3 DEF Types
  <1>2. CASE BindLock(s)
    <2>1. TableTypes' /\ RegistryTypes'
      BY <1>0, <1>2 DEF BindLock, table, registry, TableTypes, RegistryTypes
    <2>2. LocalTypes'
      BY <1>0, <1>2, GotoType DEF BindLock, TableTypes, LocalTypes
    <2>3. HasToken'
      BY <1>0, <1>2, StillHolding DEF BindLock, HasToken, Holding
    <2> QED  BY <2>1, <2>2, <2>3 DEF Types
  <1>3. CASE BindResolve(s)
    <2>0. tok[s] \in Token /\ at[s] \in Nat
      BY <1>0, <1>3 DEF BindResolve, HasToken, Holding, LocalTypes
    <2>1. TableTypes' /\ RegistryTypes'
      <3>1. seen' \in [Token -> Nat]
        BY <1>0, <1>3, <2>0, TouchType DEF BindResolve, TableTypes
      <3> QED  BY <1>0, <1>3, <3>1 DEF BindResolve, registry, TableTypes, RegistryTypes
    <2>2. LocalTypes'
      <3>1. CASE CloseAfter(s, {tok[s]}) /\ lock' = Free
        BY <1>0, <1>3, <2>0, <3>1, CloseAfterType DEF BindResolve, LocalTypes
      <3>2. CASE \/ Goto(s, "upgrade") /\ UNCHANGED <<lock, todo, dying>>
                 \/ Goto(s, "gone") /\ lock' = Free /\ UNCHANGED <<todo, dying>>
        BY <1>0, <1>3, <3>2, GotoType DEF BindResolve, LocalTypes
      <3> QED  BY <1>3, <3>1, <3>2 DEF BindResolve
    <2>3. HasToken'
      BY <1>0, <1>3, <2>0, StillHolding DEF BindResolve, CloseAfter, Holding
    <2> QED  BY <2>1, <2>2, <2>3 DEF Types
  <1>4. CASE BindUpgrade(s)
    <2>0. tok[s] \in Token
      BY <1>0, <1>4 DEF BindUpgrade, HasToken, Holding
    <2>1. TableTypes' /\ RegistryTypes'
      <3>1. TableTypes' /\ clock \in Nat
        BY <1>0, <1>4 DEF BindUpgrade, table, TableTypes
      <3>2. RegistryTypes'
        BY <1>0, <1>4, <2>0, <3>1, RegisterType DEF BindUpgrade, registry, RegistryTypes
      <3> QED  BY <3>1, <3>2
    <2>2. LocalTypes'
      BY <1>0, <1>4, GotoType DEF BindUpgrade, local, LocalTypes
    <2>3. HasToken'
      BY <1>0, <1>4, <2>0, StillHolding DEF BindUpgrade, local, Holding
    <2> QED  BY <2>1, <2>2, <2>3 DEF Types
  <1>5. CASE BindRefused(s) \/ ServeEnds(s)
    <2>1. TableTypes' /\ RegistryTypes'
      BY <1>0, <1>5 DEF BindRefused, ServeEnds, table, registry, TableTypes, RegistryTypes
    <2>2. LocalTypes'
      BY <1>0, <1>5, GotoType DEF BindRefused, ServeEnds, local, LocalTypes
    <2>3. HasToken'
      BY <1>0, <1>5, StillHolding DEF BindRefused, ServeEnds, local, Holding
    <2> QED  BY <2>1, <2>2, <2>3 DEF Types
  <1>6. CASE Unbind(s)
    <2>1. TableTypes' /\ RegistryTypes'
      BY <1>0, <1>6 DEF Unbind, table, TableTypes, RegistryTypes
    <2>2. LocalTypes'
      BY <1>0, <1>6, GotoType DEF Unbind, local, LocalTypes
    <2>3. HasToken'
      BY <1>0, <1>6, StillHolding DEF Unbind, local, Holding
    <2> QED  BY <2>1, <2>2, <2>3 DEF Types
  <1>7. CASE CloseEnds(s) \/ PeerLeaves(s)
    <2>1. TableTypes' /\ RegistryTypes'
      BY <1>0, <1>7 DEF CloseEnds, PeerLeaves, table, registry, TableTypes, RegistryTypes
    <2>2. LocalTypes' /\ HasToken'
      BY <1>0, <1>7 DEF CloseEnds, PeerLeaves, local, LocalTypes, HasToken
    <2> QED  BY <2>1, <2>2 DEF Types
  <1> QED  BY <1>1, <1>2, <1>3, <1>4, <1>5, <1>6, <1>7

LEMMA WatchTypes ==
    ASSUME Types, HasToken, NEW t \in Token, WatchWake(t) \/ WatchResolve(t) \/ WatchClose(t)
    PROVE  Types' /\ HasToken'
  <1>0. TableTypes /\ RegistryTypes /\ LocalTypes /\ clock \in Nat /\ clock + Idle \in Nat
        /\ wake[t] \in Nat
    BY AuthAssumption DEF Types, TableTypes, RegistryTypes
  <1>1. TableTypes'
    <2>1. seen' \in [Token -> Nat]
      BY <1>0, TouchType DEF WatchWake, WatchResolve, WatchClose, table, TableTypes
    <2> QED  BY <1>0, <2>1 DEF WatchWake, WatchResolve, WatchClose, table, TableTypes
  <1>2. RegistryTypes'
    <2>1. CASE WatchWake(t)
      BY <1>0, <2>1 DEF WatchWake, RegistryTypes
    <2>2. CASE WatchResolve(t)
      BY <1>0, <2>2 DEF WatchResolve, RegistryTypes
    <2>3. CASE WatchClose(t)
      BY <1>0, <2>3, CloseTokenType DEF WatchClose
    <2> QED  BY <2>1, <2>2, <2>3
  <1>3. LocalTypes' /\ HasToken'
    BY <1>0 DEF WatchWake, WatchResolve, WatchClose, local, LocalTypes, HasToken
  <1> QED  BY <1>1, <1>2, <1>3 DEF Types

LEMMA SweepTypes ==
    ASSUME Types, HasToken, SweepStep
    PROVE  Types' /\ HasToken'
  <1> USE PcIn, ActorIn, TokenIn
  <1>0. TableTypes /\ RegistryTypes /\ LocalTypes /\ at[Sweeper] \in Nat
    BY DEF Types, LocalTypes
  <1>1. CASE SweepStart \/ SweepStore \/ SweepSnapshot \/ SweepEnds
    <2>1. TableTypes' /\ RegistryTypes'
      BY <1>0, <1>1 DEF SweepStart, SweepStore, SweepSnapshot, SweepEnds, Sweep, table, registry,
                        TableTypes, RegistryTypes
    <2>2. pc' \in [Actor -> Pc] /\ tok' = tok
      BY <1>0, <1>1, GotoType DEF SweepStart, SweepStore, SweepSnapshot, SweepEnds, local,
                                  LocalTypes
    <2>3. LocalTypes'
      <3>1. clock \in Nat /\ entries \subseteq Token
        BY <1>0 DEF TableTypes, RegistryTypes
      <3>2. /\ at' \in [Actor -> Nat]
            /\ todo' \in [Actor -> SUBSET Token] /\ dying' \in [Actor -> SUBSET Socket]
        BY <1>0, <1>1, <3>1 DEF SweepStart, SweepStore, SweepSnapshot, SweepEnds, local,
                                LocalTypes
      <3> QED  BY <1>0, <1>1, <2>2, <3>2 DEF SweepStart, SweepStore, SweepSnapshot, SweepEnds,
                                             local, LocalTypes
    <2>4. HasToken'
      BY <1>0, <1>1, <2>2, StillHolding DEF SweepStart, SweepStore, SweepSnapshot, SweepEnds,
                                            Holding
    <2> QED  BY <2>1, <2>3, <2>4 DEF Types
  <1>2. CASE SweepCheck
    <2>1. PICK t \in todo[Sweeper] :
          \/ /\ Resolves(t, at[Sweeper])
             /\ Touch(t, at[Sweeper])
             /\ todo' = [todo EXCEPT ![Sweeper] = @ \ {t}]
             /\ UNCHANGED <<pc, tok>>
          \/ /\ ~Resolves(t, at[Sweeper]) \/ MayFail
             /\ tok' = [tok EXCEPT ![Sweeper] = t]
             /\ Goto(Sweeper, "drop")
             /\ UNCHANGED <<seen, todo>>
      BY <1>2 DEF SweepCheck
    <2>2. t \in Token
      BY <1>0 DEF LocalTypes
    <2>3. TableTypes' /\ RegistryTypes'
      <3>1. seen' \in [Token -> Nat]
        BY <1>0, <2>1, TouchType DEF TableTypes
      <3> QED  BY <1>0, <1>2, <3>1 DEF SweepCheck, registry, TableTypes, RegistryTypes
    <2>4. LocalTypes'
      BY <1>0, <1>2, <2>1, <2>2, GotoType DEF SweepCheck, LocalTypes
    <2>5. HasToken'
      <3>1. CASE UNCHANGED <<pc, tok>>
        BY <3>1 DEF HasToken
      <3>2. CASE tok' = [tok EXCEPT ![Sweeper] = t] /\ Goto(Sweeper, "drop")
        BY <1>0, <2>2, <3>2, StillHolding DEF LocalTypes
      <3> QED  BY <2>1, <3>1, <3>2
    <2> QED  BY <2>3, <2>4, <2>5 DEF Types
  <1>3. CASE SweepDrop
    <2>1. tok[Sweeper] \in Token
      BY <1>0, <1>3 DEF SweepDrop, HasToken, Holding
    <2>2. TableTypes' /\ RegistryTypes'
      BY <1>0, <1>3, CloseTokenType DEF SweepDrop, table, TableTypes
    <2>3. /\ todo' \in [Actor -> SUBSET Token] /\ dying' \in [Actor -> SUBSET Socket]
          /\ pc' \in [Actor -> Pc] /\ tok' \in [Actor -> Token \cup {NoToken}]
      BY <1>0, <1>3, <2>1, DoomedType, GotoType DEF SweepDrop, LocalTypes
    <2>4. LocalTypes'
      BY <1>0, <1>3, <2>3 DEF SweepDrop, LocalTypes
    <2>5. HasToken'
      BY <1>0, <1>3, StillHolding DEF SweepDrop, Holding, LocalTypes
    <2> QED  BY <2>2, <2>4, <2>5 DEF Types
  <1> QED  BY <1>1, <1>2, <1>3 DEF SweepStep

LEMMA TypeStep == Types /\ HasToken /\ [Next]_vars => Types' /\ HasToken'
  <1> SUFFICES ASSUME Types, HasToken, [Next]_vars PROVE Types' /\ HasToken'
    OBVIOUS
  <1>1. CASE Next
    <2>1. CASE Tick
      <3>1. clock + 1 \in 0 .. MaxTime
        BY <2>1, AuthAssumption DEF Tick, Types, TableTypes
      <3> QED  BY <2>1, <3>1 DEF Tick, Types, HasToken, TableTypes, RegistryTypes, LocalTypes,
                                 table, registry, local
    <2> QED
      BY <1>1, <2>1, NextCases, LoginTypes, LogoutTypes, CloseTypes, SocketTypes, WatchTypes,
         SweepTypes DEF SweepStep
  <1>2. CASE UNCHANGED vars
    BY <1>2 DEF vars, Types, HasToken, TableTypes, RegistryTypes, LocalTypes
  <1> QED  BY <1>1, <1>2

LEMMA TypeInit == Init => Types /\ HasToken
  <1> SUFFICES ASSUME Init PROVE Types /\ HasToken
    OBVIOUS
  <1> DEFINE someone == CHOOSE u \in Sub : TRUE
  <1>1. someone \in Sub
    BY ActorAssumption
  <1>2. 0 \in 0 .. MaxTime /\ 0 \in 0 .. MaxTokens /\ 0 \in Nat
    BY AuthAssumption
  <1>3. owner \in [Token -> Sub] /\ sub \in [Handler -> Sub]
    BY <1>1 DEF Init
  <1>4. TableTypes /\ RegistryTypes
    BY <1>2, <1>3 DEF Init, TableTypes, RegistryTypes
  <1>5. LocalTypes /\ HasToken
    BY <1>2, <1>3, PcIn DEF Init, LocalTypes, HasToken, Holding
  <1> QED  BY <1>4, <1>5 DEF Types

(* Everything has its type, and whoever acts upon a session has a token.   *)
THEOREM TypeCorrect == Spec => []TypeOK
  <1>1. Spec => [](Types /\ HasToken)
    BY TypeInit, TypeStep, PTL DEF Spec
  <1> QED  BY <1>1, TypeParts, PTL

-----------------------------------------------------------------------------
(* The registry.  A socket that is still being bound is in no entry, so    *)
(* that it cannot be added to a second one.                                *)

Binding  == {"new", "lock", "resolve", "upgrade"}
Fresh    == \A s \in Socket : pc[s] \in Binding => sockToken[s] = NoToken
Registry == RegistryAgrees /\ Fresh

LEMMA CloseTokenAgrees ==
    ASSUME RegistryTypes, RegistryAgrees, NEW t \in Token, CloseToken(t)
    PROVE  /\ RegistryAgrees'
           /\ \A s \in Socket : sockToken'[s] \in {sockToken[s], NoToken}
  <1>1. /\ bound' \in [Token -> SUBSET Socket]
        /\ bound'[t] = {} /\ \A u \in Token \ {t} : bound'[u] = bound[u]
    BY DEF CloseToken, RegistryTypes
  <1>2. \A s \in Socket : sockToken'[s] = IF s \in bound[t] THEN NoToken ELSE sockToken[s]
    BY DEF CloseToken
  <1>3. \A s \in Socket, u \in Token : s \in bound'[u] <=> sockToken'[s] = u
    BY <1>1, <1>2, TokenIn DEF RegistryAgrees
  <1>4. \A u \in Token : (u \in entries' <=> bound'[u] # {}) /\ (u \in entries' <=> watch'[u] # "off")
    <2>1. watch'[t] = "off" /\ \A u \in Token \ {t} : watch'[u] = watch[u]
      BY DEF CloseToken, RegistryTypes
    <2> QED  BY <1>1, <2>1 DEF CloseToken, RegistryAgrees
  <1> QED  BY <1>2, <1>3, <1>4 DEF RegistryAgrees

LEMMA RegisterAgrees ==
    ASSUME RegistryTypes, RegistryAgrees, NEW s \in Socket, tok[s] \in Token,
           sockToken[s] = NoToken, Register(s)
    PROVE  /\ RegistryAgrees'
           /\ \A r \in Socket : sockToken'[r] = IF r = s THEN tok[s] ELSE sockToken[r]
  <1>1. \A u \in Token : bound'[u] = IF u = tok[s] THEN bound[u] \cup {s} ELSE bound[u]
    BY DEF Register, RegistryTypes
  <1>2. \A r \in Socket : sockToken'[r] = IF r = s THEN tok[s] ELSE sockToken[r]
    BY DEF Register, RegistryTypes
  <1>3. ASSUME NEW r \in Socket, NEW u \in Token
        PROVE  r \in bound'[u] <=> sockToken'[r] = u
    <2>1. r \in bound[u] <=> sockToken[r] = u
      BY DEF RegistryAgrees
    <2>2. CASE r = s
      BY <1>1, <1>2, <2>1, <2>2, TokenIn
    <2>3. CASE r # s
      BY <1>1, <1>2, <2>1, <2>3
    <2> QED  BY <2>2, <2>3
  <1>4. \A u \in Token : watch'[u] # "off" <=> watch[u] # "off" \/ u = tok[s]
    BY DEF Register, RegistryTypes
  <1>5. \A u \in Token : (u \in entries' <=> bound'[u] # {}) /\ (u \in entries' <=> watch'[u] # "off")
    BY <1>1, <1>4 DEF Register, RegistryAgrees
  <1> QED  BY <1>2, <1>3, <1>5 DEF RegistryAgrees

LEMMA UnbindAgrees ==
    ASSUME RegistryTypes, RegistryAgrees, NEW s \in Socket, Unbind(s)
    PROVE  /\ RegistryAgrees'
           /\ \A r \in Socket : sockToken'[r] = IF r = s THEN NoToken ELSE sockToken[r]
  <1> DEFINE t    == sockToken[s]
             last == t \in entries /\ bound[t] = {s}
  <1>1. \A u \in Token : bound'[u] = IF u = t THEN bound[u] \ {s} ELSE bound[u]
    BY DEF Unbind
  <1>2. \A r \in Socket : sockToken'[r] = IF r = s THEN NoToken ELSE sockToken[r]
    BY DEF Unbind, RegistryTypes
  <1>3. ASSUME NEW r \in Socket, NEW u \in Token
        PROVE  r \in bound'[u] <=> sockToken'[r] = u
    <2>1. r \in bound[u] <=> sockToken[r] = u
      BY DEF RegistryAgrees
    <2>2. CASE r = s
      BY <1>1, <1>2, <2>1, <2>2, TokenIn
    <2>3. CASE r # s
      BY <1>1, <1>2, <2>1, <2>3
    <2> QED  BY <2>2, <2>3
  <1>4. \A u \in Token : watch'[u] = IF last /\ u = t THEN "off" ELSE watch[u]
    BY DEF Unbind
  <1>5. \A u \in Token : u \in entries' <=> u \in entries /\ ~(last /\ u = t)
    BY DEF Unbind
  <1>6. \A u \in Token : (u \in entries' <=> bound'[u] # {}) /\ (u \in entries' <=> watch'[u] # "off")
    <2>1. ASSUME NEW u \in Token PROVE (u \in entries' <=> bound'[u] # {})
      <3>1. CASE u # t
        BY <1>1, <1>5, <3>1 DEF RegistryAgrees
      <3>2. CASE u = t
        <4>1. s \in bound[u] /\ u \in entries
          BY <3>2 DEF RegistryAgrees
        <4> QED  BY <1>1, <1>5, <3>2, <4>1
      <3> QED  BY <3>1, <3>2
    <2>2. ASSUME NEW u \in Token PROVE (u \in entries' <=> watch'[u] # "off")
      BY <1>4, <1>5 DEF RegistryAgrees
    <2> QED  BY <2>1, <2>2
  <1> QED  BY <1>2, <1>3, <1>6 DEF RegistryAgrees

LEMMA Distinct ==
    /\ \A h \in Handler, s \in Socket : h # s
    /\ \A h \in Handler : h # Sweeper /\ h # Free
    /\ \A s \in Socket : s # Sweeper /\ s # Free
    /\ Sweeper # Free
  BY AuthAssumption, ActorAssumption DEF Sweeper, Free

LEMMA GotoOthers ==
    ASSUME LocalTypes, NEW a \in Actor, NEW where, Goto(a, where)
    PROVE  pc'[a] = where /\ \A b \in Actor : b = a \/ pc'[b] = pc[b]
  BY DEF Goto, LocalTypes

LEMMA SameRegistry ==
    ASSUME Registry, UNCHANGED registry,
           \A s \in Socket : pc'[s] \in Binding => pc[s] \in Binding
    PROVE  Registry'
  BY DEF Registry, RegistryAgrees, Fresh, registry

LEMMA RegistryStep == Types /\ HasToken /\ Registry /\ [Next]_vars => Registry'
  <1> SUFFICES ASSUME Types, HasToken, Registry, [Next]_vars PROVE Registry'
    OBVIOUS
  <1>0. TableTypes /\ RegistryTypes /\ LocalTypes /\ RegistryAgrees /\ Fresh
    BY DEF Types, Registry
  <1>1. ASSUME NEW h \in Handler,
               \/ \E u \in Sub : LoginStart(h, u)
               \/ \E t \in Token : LogoutStart(h, t) \/ MeStart(h, t)
               \/ LoginVerified(h) \/ LoginLock(h) \/ LoginIssue(h) \/ LoginSnapshot(h)
               \/ LogoutLock(h) \/ LogoutRevoke(h) \/ MeResolve(h) \/ Respond(h)
        PROVE  Registry'
    <2>1. UNCHANGED registry
      BY <1>1 DEF LoginStart, LogoutStart, MeStart, Present, LoginVerified, LoginLock, LoginIssue,
                  LoginSnapshot, LogoutLock, LogoutRevoke, MeResolve, Respond
    <2>2. \E where : Goto(h, where)
      BY <1>1 DEF LoginStart, LogoutStart, MeStart, LoginVerified, LoginLock, LoginIssue, Leave,
                  LoginSnapshot, LogoutLock, LogoutRevoke, MeResolve, Respond, CloseAfter
    <2>3. \A s \in Socket : pc'[s] = pc[s]
      BY <1>0, <2>2, GotoOthers, Distinct, ActorIn
    <2> QED  BY <2>1, <2>3, SameRegistry
  <1>2. ASSUME NEW a \in Handler \cup Socket, CloseNext(a) PROVE Registry'
    <2>1. PICK t \in Token : CloseToken(t)
      BY <1>0, <1>2 DEF CloseNext, LocalTypes, Actor
    <2>2. pc' = pc
      BY <1>2 DEF CloseNext
    <2> QED  BY <1>0, <2>1, <2>2, CloseTokenAgrees DEF Registry, Fresh
  <1>3. ASSUME NEW s \in Socket,
               \/ \E t \in Token : BindStart(s, t)
               \/ BindLock(s) \/ BindResolve(s) \/ BindRefused(s) \/ ServeEnds(s)
        PROVE  Registry'
    <2>1. UNCHANGED registry
      BY <1>3 DEF BindStart, BindLock, BindResolve, BindRefused, ServeEnds
    <2>2. \E where : Goto(s, where) /\ (where \in Binding => pc[s] \in Binding)
      BY <1>3 DEF BindStart, BindLock, BindResolve, BindRefused, ServeEnds, CloseAfter, Binding
    <2>3. \A r \in Socket : pc'[r] \in Binding => pc[r] \in Binding
      BY <1>0, <2>2, GotoOthers, ActorIn
    <2> QED  BY <2>1, <2>3, SameRegistry
  <1>4. ASSUME NEW s \in Socket, BindUpgrade(s) PROVE Registry'
    <2>1. tok[s] \in Token /\ sockToken[s] = NoToken
      BY <1>0, <1>4, ActorIn DEF BindUpgrade, HasToken, Holding, Fresh, Binding
    <2>2. \A r \in Socket : pc'[r] \in Binding => pc[r] \in Binding /\ r # s
      BY <1>0, <1>4, GotoOthers, ActorIn DEF BindUpgrade, Binding
    <2>3. CASE Register(s)
      BY <1>0, <2>1, <2>2, <2>3, RegisterAgrees DEF Registry, Fresh
    <2>4. CASE UNCHANGED registry
      BY <2>2, <2>4, SameRegistry
    <2> QED  BY <1>4, <2>3, <2>4 DEF BindUpgrade
  <1>5. ASSUME NEW s \in Socket, Unbind(s) PROVE Registry'
    <2>1. \A r \in Socket : pc'[r] \in Binding => pc[r] \in Binding /\ r # s
      BY <1>0, <1>5, GotoOthers, ActorIn DEF Unbind, Binding
    <2> QED  BY <1>0, <1>5, <2>1, UnbindAgrees DEF Registry, Fresh
  <1>6. ASSUME NEW s \in Socket, CloseEnds(s) \/ PeerLeaves(s) PROVE Registry'
    BY <1>6, SameRegistry DEF CloseEnds, PeerLeaves
  <1>7. ASSUME NEW t \in Token, WatchWake(t) \/ WatchResolve(t) \/ WatchClose(t) PROVE Registry'
    <2>1. CASE WatchWake(t) \/ WatchResolve(t)
      <3>1. \A u \in Token : watch'[u] # "off" <=> watch[u] # "off"
        BY <1>0, <2>1 DEF WatchWake, WatchResolve, RegistryAgrees, RegistryTypes
      <3> QED  BY <1>0, <2>1, <3>1 DEF WatchWake, WatchResolve, Registry, RegistryAgrees, Fresh
    <2>2. CASE WatchClose(t)
      BY <1>0, <2>2, CloseTokenAgrees DEF WatchClose, Registry, Fresh
    <2> QED  BY <1>7, <2>1, <2>2
  <1>8. CASE SweepStart \/ SweepStore \/ SweepSnapshot \/ SweepCheck \/ SweepEnds
    <2>1. UNCHANGED registry
      BY <1>8 DEF SweepStart, SweepStore, SweepSnapshot, SweepCheck, SweepEnds
    <2>2. pc' = pc \/ \E where : Goto(Sweeper, where)
      BY <1>8 DEF SweepStart, SweepStore, SweepSnapshot, SweepCheck, SweepEnds
    <2>3. \A s \in Socket : pc'[s] = pc[s]
      BY <1>0, <2>2, GotoOthers, Distinct, ActorIn
    <2> QED  BY <2>1, <2>3, SameRegistry
  <1>9. CASE SweepDrop
    <2>1. tok[Sweeper] \in Token /\ CloseToken(tok[Sweeper])
      BY <1>0, <1>9, ActorIn DEF SweepDrop, HasToken, Holding
    <2>2. \A s \in Socket : pc'[s] = pc[s]
      BY <1>0, <1>9, GotoOthers, Distinct, ActorIn DEF SweepDrop
    <2> QED  BY <1>0, <2>1, <2>2, CloseTokenAgrees DEF Registry, Fresh
  <1>10. CASE Tick \/ UNCHANGED vars
    BY <1>10, SameRegistry DEF Tick, vars, registry
  <1> QED
    BY <1>1, <1>2, <1>3, <1>4, <1>5, <1>6, <1>7, <1>8, <1>9, <1>10, NextCases

(* The maps from sockets to sessions and back, and the expiry watchers,    *)
(* agree at all times, whoever closes, binds and unbinds in between.       *)
THEOREM RegistryHolds == Spec => []RegistryAgrees
  <1>1. Init => Registry
    BY DEF Init, Registry, RegistryAgrees, Fresh, Token, NoToken
  <1>2. Spec => [](Types /\ HasToken /\ Registry)
    BY <1>1, TypeInit, TypeStep, RegistryStep, PTL DEF Spec
  <1>3. Registry => RegistryAgrees
    BY DEF Registry
  <1> QED  BY <1>2, <1>3, PTL

-----------------------------------------------------------------------------
(* The lock: whoever is between taking and releasing it holds it.          *)
Locking  == {"issue", "revoke", "resolve", "upgrade"}
LockHeld == \A a \in Actor : pc[a] \in Locking => lock = a

LEMMA LockStep == Types /\ LockHeld /\ [Next]_vars => LockHeld'
  <1> SUFFICES ASSUME Types, LockHeld, [Next]_vars PROVE LockHeld'
    OBVIOUS
  <1> USE ActorIn, Distinct
  <1>0. LocalTypes
    BY DEF Types
  <1>1. ASSUME NEW a \in Handler \cup Socket,
               \/ LoginLock(a) \/ LogoutLock(a) \/ BindLock(a)
        PROVE  LockHeld'
    <2>1. lock = Free /\ lock' = a /\ \E where : Goto(a, where)
      BY <1>1 DEF LoginLock, LogoutLock, BindLock
    <2> QED  BY <1>0, <2>1, GotoOthers DEF LockHeld, Actor
  <1>2. ASSUME NEW a \in Handler \cup Socket,
               LoginIssue(a) \/ LogoutRevoke(a) \/ BindUpgrade(a)
        PROVE  LockHeld'
    <2>1. /\ pc[a] \in Locking /\ lock' = Free
          /\ \E where : Goto(a, where) /\ where \notin Locking
      BY <1>2 DEF LoginIssue, LogoutRevoke, BindUpgrade, Leave, CloseAfter, Locking
    <2> QED  BY <1>0, <2>1, GotoOthers DEF LockHeld, Actor
  <1>3. ASSUME NEW s \in Socket, BindResolve(s) PROVE LockHeld'
    <2>1. /\ pc[s] \in Locking
          /\ \E where : /\ Goto(s, where)
                        /\ \/ lock' = Free /\ where \notin Locking
                           \/ lock' = lock /\ where = "upgrade"
      BY <1>3 DEF BindResolve, CloseAfter, Locking
    <2> QED  BY <1>0, <2>1, GotoOthers DEF LockHeld, Actor
  <1>4. ASSUME NEW a \in Actor, lock' = lock, NEW where, Goto(a, where), where \notin Locking
        PROVE  LockHeld'
    BY <1>0, <1>4, GotoOthers DEF LockHeld
  <1>5. ASSUME NEW h \in Handler,
               \/ \E u \in Sub : LoginStart(h, u)
               \/ \E t \in Token : LogoutStart(h, t) \/ MeStart(h, t)
               \/ LoginVerified(h) \/ LoginSnapshot(h) \/ MeResolve(h) \/ Respond(h)
        PROVE  LockHeld'
    <2>1. lock' = lock /\ \E where : Goto(h, where) /\ where \notin Locking
      BY <1>5 DEF LoginStart, LogoutStart, MeStart, Present, LoginVerified, LoginSnapshot,
                  MeResolve, Respond, Leave, CloseAfter, Locking
    <2> QED  BY <1>4, <2>1
  <1>6. ASSUME NEW s \in Socket,
               \/ \E t \in Token : BindStart(s, t)
               \/ BindRefused(s) \/ ServeEnds(s) \/ Unbind(s)
        PROVE  LockHeld'
    <2>1. lock' = lock /\ \E where : Goto(s, where) /\ where \notin Locking
      BY <1>6 DEF BindStart, BindRefused, ServeEnds, Unbind, Locking
    <2> QED  BY <1>4, <2>1
  <1>7. CASE SweepStart \/ SweepStore \/ SweepSnapshot \/ SweepDrop \/ SweepEnds
    <2>1. lock' = lock /\ \E where : Goto(Sweeper, where) /\ where \notin Locking
      BY <1>7 DEF SweepStart, SweepStore, SweepSnapshot, SweepDrop, SweepEnds, Locking
    <2> QED  BY <1>4, <2>1
  <1>8. CASE SweepCheck
    <2>1. lock' = lock /\ (pc' = pc \/ Goto(Sweeper, "drop"))
      BY <1>8 DEF SweepCheck
    <2>2. "drop" \notin Locking
      BY DEF Locking
    <2>3. CASE pc' = pc
      BY <2>1, <2>3 DEF LockHeld
    <2> QED  BY <1>4, <2>1, <2>2, <2>3
  <1>9. ASSUME pc' = pc, lock' = lock PROVE LockHeld'
    BY <1>9 DEF LockHeld
  <1>10. ASSUME \/ \E a \in Handler \cup Socket : CloseNext(a)
                \/ \E s \in Socket : CloseEnds(s) \/ PeerLeaves(s)
                \/ \E t \in Token : WatchWake(t) \/ WatchResolve(t) \/ WatchClose(t)
                \/ Tick \/ UNCHANGED vars
         PROVE  LockHeld'
    BY <1>9, <1>10 DEF CloseNext, CloseEnds, PeerLeaves, WatchWake, WatchResolve, WatchClose,
                       Tick, vars
  <1> QED
    BY <1>1, <1>2, <1>3, <1>5, <1>6, <1>7, <1>8, <1>10, NextCases

-----------------------------------------------------------------------------
(* An open socket is being served, under the token it was bound with.      *)
OpenServes == \A s \in Socket : ws[s] = "open" => pc[s] = "serve" /\ sockToken[s] = tok[s]

LEMMA StaysServed ==
    ASSUME OpenServes,
           \A s \in Socket : ws'[s] = "open" =>
              \/ pc'[s] = "serve" /\ sockToken'[s] = tok'[s]
              \/ /\ ws[s] = "open" /\ sockToken'[s] = sockToken[s]
                 /\ pc'[s] = pc[s] /\ tok'[s] = tok[s]
    PROVE  OpenServes'
  BY DEF OpenServes

LEMMA CloseTokenOpen ==
    ASSUME RegistryTypes, NEW t, CloseToken(t)
    PROVE  \A s \in Socket :
              ws'[s] = "open" => ws[s] = "open" /\ s \notin bound[t] /\ sockToken'[s] = sockToken[s]
  BY DEF CloseToken, Doomed, RegistryTypes

LEMMA OpenStep == Types /\ HasToken /\ OpenServes /\ [Next]_vars => OpenServes'
  <1> SUFFICES ASSUME Types, HasToken, OpenServes, [Next]_vars PROVE OpenServes'
    OBVIOUS
  <1> USE ActorIn, Distinct
  <1>0. RegistryTypes /\ LocalTypes
    BY DEF Types
  <1>1. ASSUME NEW h \in Handler,
               \/ \E u \in Sub : LoginStart(h, u)
               \/ \E t \in Token : LogoutStart(h, t) \/ MeStart(h, t)
               \/ LoginVerified(h) \/ LoginLock(h) \/ LoginIssue(h) \/ LoginSnapshot(h)
               \/ LogoutLock(h) \/ LogoutRevoke(h) \/ MeResolve(h) \/ Respond(h)
        PROVE  OpenServes'
    <2>1. UNCHANGED registry /\ UNCHANGED ws /\ \E where : Goto(h, where)
      BY <1>1 DEF LoginStart, LogoutStart, MeStart, Present, LoginVerified, LoginLock, LoginIssue,
                  LoginSnapshot, LogoutLock, LogoutRevoke, MeResolve, Respond, Leave, CloseAfter
    <2>2. \A s \in Socket : tok'[s] = tok[s]
      BY <1>0, <1>1 DEF LoginStart, LogoutStart, MeStart, Present, LoginVerified, LoginLock,
                  LoginIssue, LoginSnapshot, LogoutLock, LogoutRevoke, MeResolve, Respond,
                  Leave, local, LocalTypes
    <2> QED  BY <1>0, <2>1, <2>2, GotoOthers, StaysServed DEF registry
  <1>2. ASSUME NEW a \in Handler \cup Socket, CloseNext(a) PROVE OpenServes'
    <2>1. PICK t : CloseToken(t)
      BY <1>2 DEF CloseNext
    <2> QED  BY <1>0, <1>2, <2>1, CloseTokenOpen, StaysServed DEF CloseNext, local
  <1>3. ASSUME NEW s \in Socket,
               \/ \E t \in Token : BindStart(s, t)
               \/ BindLock(s) \/ BindResolve(s) \/ BindRefused(s) \/ ServeEnds(s) \/ Unbind(s)
        PROVE  OpenServes'
    <2>1. ws[s] # "open" /\ UNCHANGED ws /\ \E where : Goto(s, where)
      BY <1>3 DEF BindStart, BindLock, BindResolve, BindRefused, ServeEnds, Unbind, CloseAfter,
                  OpenServes
    <2>2. \A r \in Socket \ {s} : tok'[r] = tok[r] /\ sockToken'[r] = sockToken[r]
      BY <1>0, <1>3 DEF BindStart, BindLock, BindResolve, BindRefused, ServeEnds, Unbind,
                        local, registry, LocalTypes, RegistryTypes
    <2> QED  BY <1>0, <2>1, <2>2, GotoOthers, StaysServed
  <1>4. ASSUME NEW s \in Socket, BindUpgrade(s) PROVE OpenServes'
    <2>1. tok' = tok /\ ws[s] # "open" /\ tok[s] \in Token
      BY <1>4, <1>0 DEF BindUpgrade, local, OpenServes, HasToken, Holding
    <2>2. CASE Register(s) /\ Goto(s, "serve")
      BY <1>0, <2>1, <2>2, GotoOthers, StaysServed DEF Register, RegistryTypes
    <2>3. CASE Goto(s, "gone") /\ UNCHANGED <<registry, ws>>
      BY <1>0, <2>1, <2>3, GotoOthers, StaysServed DEF registry
    <2> QED  BY <1>4, <2>2, <2>3 DEF BindUpgrade
  <1>5. ASSUME NEW s \in Socket, CloseEnds(s) \/ PeerLeaves(s) PROVE OpenServes'
    BY <1>0, <1>5, StaysServed DEF CloseEnds, PeerLeaves, registry, local, RegistryTypes
  <1>6. ASSUME NEW t \in Token, WatchWake(t) \/ WatchResolve(t) \/ WatchClose(t) PROVE OpenServes'
    <2>1. CASE WatchWake(t) \/ WatchResolve(t)
      BY <2>1, StaysServed DEF WatchWake, WatchResolve, local
    <2>2. CASE WatchClose(t)
      BY <1>0, <2>2, CloseTokenOpen, StaysServed DEF WatchClose, local
    <2> QED  BY <1>6, <2>1, <2>2
  <1>7. CASE SweepStart \/ SweepStore \/ SweepSnapshot \/ SweepCheck \/ SweepEnds
    <2>1. UNCHANGED registry /\ UNCHANGED ws /\ \A s \in Socket : tok'[s] = tok[s]
      BY <1>0, <1>7 DEF SweepStart, SweepStore, SweepSnapshot, SweepCheck, SweepEnds, local,
                        LocalTypes
    <2>2. pc' = pc \/ \E where : Goto(Sweeper, where)
      BY <1>7 DEF SweepStart, SweepStore, SweepSnapshot, SweepCheck, SweepEnds
    <2> QED  BY <1>0, <2>1, <2>2, GotoOthers, StaysServed DEF registry
  <1>8. CASE SweepDrop
    <2>1. CloseToken(tok[Sweeper]) /\ Goto(Sweeper, "check") /\ \A s \in Socket : tok'[s] = tok[s]
      BY <1>0, <1>8 DEF SweepDrop, LocalTypes
    <2> QED  BY <1>0, <2>1, CloseTokenOpen, GotoOthers, StaysServed
  <1>9. CASE Tick \/ UNCHANGED vars
    BY <1>9, StaysServed DEF Tick, vars, registry, local
  <1> QED
    BY <1>1, <1>2, <1>3, <1>4, <1>5, <1>6, <1>7, <1>8, <1>9, NextCases

-----------------------------------------------------------------------------
(* While a socket is being upgraded its session can only fall to the       *)
(* sweep, whose snapshot then waits for the lock the socket holds.         *)
Upgrading ==
    /\ at[Sweeper] <= clock
    /\ \A s \in Socket : pc[s] = "upgrade" =>
          tok[s] \in live \/ (pc[Sweeper] = "snapshot" /\ Expired(tok[s], clock))

(* No row that is gone is touched, and none changes its absolute deadline. *)
Dead(t) == t \notin live => t \notin live' /\ seen'[t] = seen[t] /\ expires'[t] = expires[t]

LEMMA StaysExpired ==
    ASSUME Types, NEW t \in Token, NEW now \in Nat, NEW later \in Nat, now <= later,
           seen'[t] = seen[t], expires'[t] = expires[t], Expired(t, now)
    PROVE  Expired(t, later)'
  <1>1. seen[t] \in Nat /\ expires[t] \in Nat /\ Idle \in Nat
    BY AuthAssumption DEF Types, TableTypes
  <1> QED  BY <1>1 DEF Expired

LEMMA StaysUpgrading ==
    ASSUME Types, Types', HasToken, Upgrading, clock <= clock', at'[Sweeper] = at[Sweeper],
           \A t \in Token : t \in live => t \in live',
           \A t \in Token : Dead(t),
           pc[Sweeper] = "snapshot" => pc'[Sweeper] = "snapshot",
           \A s \in Socket : pc'[s] = "upgrade" => pc[s] = "upgrade" /\ tok'[s] = tok[s]
    PROVE  Upgrading'
  <1>1. clock \in Nat /\ clock' \in Nat /\ at[Sweeper] \in Nat
    BY ActorIn DEF Types, TableTypes, LocalTypes
  <1>2. at'[Sweeper] <= clock'
    BY <1>1 DEF Upgrading
  <1>3. ASSUME NEW s \in Socket, pc'[s] = "upgrade"
        PROVE  tok'[s] \in live' \/ (pc'[Sweeper] = "snapshot" /\ Expired(tok[s], clock)')
    <2>1. pc[s] = "upgrade" /\ tok'[s] = tok[s] /\ tok[s] \in Token
      BY <1>3, ActorIn DEF HasToken, Holding
    <2>2. CASE tok[s] \in live
      BY <2>1, <2>2
    <2>3. CASE tok[s] \notin live
      BY <1>1, <2>1, <2>3, StaysExpired DEF Upgrading, Dead, Expired
    <2> QED  BY <2>2, <2>3
  <1> QED  BY <1>2, <1>3 DEF Upgrading

LEMMA TouchDead ==
    ASSUME Types, NEW t \in live, NEW now \in Nat, Touch(t, now), UNCHANGED <<live, expires>>
    PROVE  \A u \in Token : Dead(u)
  BY DEF Touch, Dead, Types, TableTypes

LEMMA UpgradingStep ==
    Types /\ Types' /\ HasToken /\ LockHeld /\ Upgrading /\ [Next]_vars => Upgrading'
  <1> SUFFICES ASSUME Types, Types', HasToken, LockHeld, Upgrading, [Next]_vars PROVE Upgrading'
    OBVIOUS
  <1> USE ActorIn, Distinct
  <1>0. /\ LocalTypes /\ LocalTypes' /\ clock \in Nat /\ at[Sweeper] \in Nat
        /\ \A a \in Actor : at[a] \in Nat
        /\ \A t \in Token : wake[t] \in Nat
    BY DEF Types, TableTypes, RegistryTypes, LocalTypes
  <1>1. ASSUME NEW h \in Handler,
               \/ \E u \in Sub : LoginStart(h, u)
               \/ \E t \in Token : LogoutStart(h, t) \/ MeStart(h, t)
               \/ LoginVerified(h) \/ LoginLock(h) \/ LoginSnapshot(h)
               \/ LogoutLock(h) \/ MeResolve(h) \/ Respond(h)
        PROVE  Upgrading'
    <2>1. clock' = clock /\ live' = live /\ \E where : Goto(h, where)
      BY <1>1 DEF LoginStart, LogoutStart, MeStart, Present, LoginVerified, LoginLock,
                  LoginSnapshot, LogoutLock, MeResolve, Respond, Leave, CloseAfter, table
    <2>2. at'[Sweeper] = at[Sweeper] /\ \A s \in Socket : tok'[s] = tok[s]
      BY <1>0, <1>1 DEF LoginStart, LogoutStart, MeStart, Present, LoginVerified, LoginLock,
                  LoginSnapshot, LogoutLock, MeResolve, Respond, Leave, local, LocalTypes
    <2>3. \A t \in Token : Dead(t)
      <3>1. CASE MeResolve(h)
        BY <1>0, <3>1, TouchDead DEF MeResolve, Resolves, Dead
      <3>2. CASE ~MeResolve(h)
        BY <1>1, <3>2 DEF LoginStart, LogoutStart, MeStart, Present, LoginVerified, LoginLock,
                  LoginSnapshot, LogoutLock, Respond, table, Dead
      <3> QED  BY <3>1, <3>2
    <2> QED  BY <1>0, <2>1, <2>2, <2>3, GotoOthers, StaysUpgrading
  <1>2. ASSUME NEW h \in Handler, LoginIssue(h) \/ LogoutRevoke(h) PROVE Upgrading'
    <2>1. /\ lock = h /\ clock' = clock
          /\ \E where : Goto(h, where)
      BY <1>2 DEF LoginIssue, LogoutRevoke, Leave, CloseAfter, LockHeld, Locking
    <2>2. \A s \in Socket : pc'[s] # "upgrade"
      BY <1>0, <2>1, GotoOthers DEF LockHeld, Locking
    <2>3. at'[Sweeper] = at[Sweeper]
      BY <1>0, <1>2 DEF LoginIssue, LogoutRevoke, Leave, local, LocalTypes
    <2> QED  BY <2>1, <2>2, <2>3 DEF Upgrading
  <1>3. ASSUME \/ \E a \in Handler \cup Socket : CloseNext(a)
               \/ \E s \in Socket : CloseEnds(s) \/ PeerLeaves(s)
               \/ \E t \in Token : WatchWake(t) \/ WatchClose(t)
               \/ UNCHANGED vars
        PROVE  Upgrading'
    BY <1>3 DEF CloseNext, CloseEnds, PeerLeaves, WatchWake, WatchClose, vars, table, local,
                Upgrading, Expired
  <1>4. ASSUME NEW s \in Socket,
               \/ \E t \in Token : BindStart(s, t)
               \/ BindLock(s) \/ BindUpgrade(s) \/ BindRefused(s) \/ ServeEnds(s) \/ Unbind(s)
        PROVE  Upgrading'
    <2>1. /\ clock' = clock /\ UNCHANGED table
          /\ \E where : Goto(s, where) /\ where # "upgrade"
      BY <1>4 DEF BindStart, BindLock, BindUpgrade, BindRefused, ServeEnds, Unbind
    <2>2. at'[Sweeper] = at[Sweeper] /\ \A r \in Socket \ {s} : tok'[r] = tok[r]
      BY <1>0, <1>4 DEF BindStart, BindLock, BindUpgrade, BindRefused, ServeEnds, Unbind, local,
                        LocalTypes
    <2>3. \A t \in Token : Dead(t)
      BY <2>1 DEF Dead, table
    <2> QED  BY <1>0, <2>1, <2>2, <2>3, GotoOthers, StaysUpgrading DEF table
  <1>5. ASSUME NEW s \in Socket, BindResolve(s) PROVE Upgrading'
    <2>1. clock' = clock /\ live' = live /\ expires' = expires /\ tok' = tok
          /\ at'[Sweeper] = at[Sweeper] /\ lock = s
      BY <1>0, <1>5 DEF BindResolve, LockHeld, Locking, LocalTypes
    <2>2. \A r \in Socket : pc'[r] = "upgrade" => r = s
      <3>1. \E where : Goto(s, where)
        BY <1>5 DEF BindResolve, CloseAfter
      <3> QED  BY <1>0, <2>1, <3>1, GotoOthers DEF LockHeld, Locking
    <2>3. pc'[s] = "upgrade" => tok[s] \in live
      BY <1>0, <1>5, GotoOthers DEF BindResolve, CloseAfter, Resolves
    <2> QED  BY <2>1, <2>2, <2>3 DEF Upgrading
  <1>6. ASSUME NEW t \in Token, WatchResolve(t) PROVE Upgrading'
    <2>1. UNCHANGED <<clock, live, expires, pc, tok, at>>
      BY <1>6 DEF WatchResolve, local
    <2>2. \A u \in Token : Dead(u)
      BY <1>0, <1>6, TouchDead DEF WatchResolve, Resolves, Dead
    <2> QED  BY <1>0, <2>1, <2>2, StaysUpgrading
  <1>7. CASE SweepStart
    <2>1. /\ clock' = clock /\ UNCHANGED table /\ tok' = tok /\ at'[Sweeper] = clock
          /\ pc[Sweeper] # "snapshot" /\ Goto(Sweeper, "sweep")
      BY <1>0, <1>7 DEF SweepStart, LocalTypes
    <2> QED  BY <1>0, <2>1, GotoOthers DEF Upgrading, table
  <1>8. CASE SweepStore
    <2>1. /\ UNCHANGED <<clock, expires, seen, tok, at>> /\ Goto(Sweeper, "snapshot")
          /\ pc[Sweeper] # "snapshot"
      BY <1>8 DEF SweepStore, local
    <2>2. ASSUME NEW s \in Socket, pc[s] = "upgrade", tok[s] \notin live'
          PROVE  Expired(tok[s], clock)'
      <3>1. tok[s] \in live /\ tok[s] \in Token
        BY <2>1, <2>2 DEF Upgrading, HasToken, Holding
      <3>2. Expired(tok[s], at[Sweeper])
        BY <1>8, <2>2, <3>1 DEF SweepStore, Sweep
      <3> QED  BY <1>0, <2>1, <3>1, <3>2, StaysExpired DEF Upgrading, Expired
    <2> QED  BY <1>0, <2>1, <2>2, GotoOthers DEF Upgrading
  <1>9. CASE SweepSnapshot
    <2>1. \A s \in Socket : pc'[s] # "upgrade"
      BY <1>0, <1>9, GotoOthers DEF SweepSnapshot, LockHeld, Locking
    <2> QED  BY <1>9, <2>1 DEF SweepSnapshot, local, Upgrading
  <1>10. CASE SweepCheck
    <2>1. UNCHANGED <<clock, live, expires, at>> /\ pc[Sweeper] # "snapshot"
      BY <1>10 DEF SweepCheck
    <2>2. \A u \in Token : Dead(u)
      <3>1. CASE UNCHANGED seen
        BY <2>1, <3>1 DEF Dead
      <3>2. CASE ~UNCHANGED seen
        BY <1>0, <1>10, <2>1, <3>2, TouchDead DEF SweepCheck, Resolves
      <3> QED  BY <3>1, <3>2
    <2>3. \A s \in Socket : pc'[s] = pc[s] /\ tok'[s] = tok[s]
      BY <1>0, <1>10 DEF SweepCheck, Goto, LocalTypes
    <2> QED  BY <1>0, <2>1, <2>2, <2>3, StaysUpgrading
  <1>11. CASE SweepDrop \/ SweepEnds
    <2>1. UNCHANGED <<clock, live, seen, expires, at>> /\ pc[Sweeper] # "snapshot"
      BY <1>11 DEF SweepDrop, SweepEnds, table, local
    <2>2. \A s \in Socket : pc'[s] = pc[s] /\ tok'[s] = tok[s]
      BY <1>0, <1>11 DEF SweepDrop, SweepEnds, Goto, LocalTypes, local
    <2> QED  BY <1>0, <2>1, <2>2, StaysUpgrading DEF Dead
  <1>12. CASE Tick
    <2>1. clock <= clock' /\ UNCHANGED <<live, seen, expires, pc, tok, at>>
      BY <1>0, <1>12 DEF Tick, table, local
    <2> QED  BY <1>0, <2>1, StaysUpgrading DEF Dead
  <1> QED
    BY <1>1, <1>2, <1>3, <1>4, <1>5, <1>6, <1>7, <1>8, <1>9, <1>10, <1>11, <1>12, NextCases

LEMMA OpensByUpgrade ==
    ASSUME Types, [Next]_vars, NEW s \in Socket, ws[s] # "open", ws'[s] = "open"
    PROVE  BindUpgrade(s)
  <1>0. RegistryTypes
    BY DEF Types
  <1>1. ~UNCHANGED ws
    OBVIOUS
  <1>2. ASSUME NEW t, CloseToken(t) PROVE FALSE
    BY <1>0, <1>2, CloseTokenOpen
  <1>3. ASSUME NEW r \in Socket, CloseEnds(r) \/ PeerLeaves(r) PROVE FALSE
    BY <1>0, <1>3 DEF CloseEnds, PeerLeaves, RegistryTypes
  <1>4. ASSUME NEW r \in Socket, BindUpgrade(r) PROVE r = s
    BY <1>0, <1>1, <1>4 DEF BindUpgrade, Register, RegistryTypes
  <1> QED
    BY <1>1, <1>2, <1>3, <1>4, NextCases
       DEF LoginStart, LogoutStart, MeStart, Present, LoginVerified, LoginLock, LoginIssue,
           LoginSnapshot, LogoutLock, LogoutRevoke, MeResolve, Respond, CloseNext, BindStart,
           BindLock, BindResolve, BindRefused, ServeEnds, Unbind, WatchWake, WatchResolve,
           WatchClose, SweepStart, SweepStore, SweepSnapshot, SweepCheck, SweepDrop, SweepEnds,
           Tick, vars

LEMMA Authorized ==
    Types /\ Upgrading /\ [Next]_vars =>
      \A s \in Socket :
         ws[s] = "new" /\ ws'[s] = "open" => tok[s] \in live \/ Expired(tok[s], clock)
  BY OpensByUpgrade DEF BindUpgrade, Upgrading

LEMMA UpgradingInit == Init => LockHeld /\ OpenServes /\ Upgrading
  <1> SUFFICES ASSUME Init PROVE LockHeld /\ OpenServes /\ Upgrading
    OBVIOUS
  <1>1. at[Sweeper] = 0 /\ clock = 0
    BY ActorIn DEF Init
  <1> QED  BY <1>1, ActorIn DEF Init, LockHeld, Locking, OpenServes, Upgrading

(* No upgrade is completed on a session that was logged out or rotated     *)
(* away since it was resolved, in any interleaving of requests and sweeps. *)
THEOREM UpgradesHold == Spec => UpgradeAuthorized
  <1>1. Spec => [](Types /\ HasToken /\ LockHeld /\ Upgrading)
    BY TypeInit, UpgradingInit, TypeStep, LockStep, UpgradingStep, PTL DEF Spec
  <1> QED  BY <1>1, Authorized, PTL DEF Spec, UpgradeAuthorized

-----------------------------------------------------------------------------
(* Ended sessions.  A row is issued under a token nobody has seen yet, so  *)
(* the rows requests and sockets know of keep their subject.               *)
SeenIssued ==
    /\ known \subseteq 0 .. issued
    /\ \A a \in Handler \cup Socket : tok[a] \in 0 .. issued

LEMMA SeenStep == Types /\ SeenIssued /\ [Next]_vars => SeenIssued'
  <1> SUFFICES ASSUME Types, SeenIssued, [Next]_vars PROVE SeenIssued'
    OBVIOUS
  <1>0. LocalTypes /\ issued \in Nat /\ issued + 1 \in Nat /\ 0 .. issued \subseteq 0 .. issued + 1
    BY AuthAssumption DEF Types, TableTypes
  <1> DEFINE Requests == Handler \cup Socket
  <1>1. ASSUME NEW h \in Handler, LoginIssue(h) PROVE SeenIssued'
    <2>1. known' = known /\ issued' \in {issued, issued + 1}
      BY <1>1 DEF LoginIssue, Issue, table
    <2>2. \A a \in Requests : a # h => tok'[a] = tok[a]
      BY <1>0, <1>1 DEF LoginIssue, Leave, LocalTypes, Actor
    <2>3. tok'[h] \in {0, issued'}
      BY <1>0, <1>1, ActorIn DEF LoginIssue, Issue, Leave, LocalTypes, NoToken
    <2> QED  BY <1>0, <2>1, <2>2, <2>3 DEF SeenIssued
  <1>2. ASSUME NEW h \in Handler, Respond(h) PROVE SeenIssued'
    <2>1. issued' = issued /\ known' \subseteq 0 .. issued
      BY <1>0, <1>2 DEF Respond, table, SeenIssued
    <2>2. \A a \in Requests : tok'[a] = tok[a] \/ tok'[a] = 0
      BY <1>0, <1>2 DEF Respond, Leave, LocalTypes, Actor, NoToken
    <2> QED  BY <1>0, <2>1, <2>2 DEF SeenIssued
  <1>3. ASSUME UNCHANGED <<known, issued>>,
               \A a \in Requests : tok'[a] = tok[a] \/ tok'[a] = 0 \/ tok'[a] \in known
        PROVE  SeenIssued'
    <2>1. ASSUME NEW a \in Requests PROVE tok'[a] \in 0 .. issued
      <3>1. 0 \in 0 .. issued /\ tok[a] \in 0 .. issued /\ known \subseteq 0 .. issued
        BY <1>0 DEF SeenIssued
      <3>2. tok'[a] = tok[a] \/ tok'[a] = 0 \/ tok'[a] \in known
        BY <1>3
      <3> QED  BY <3>1, <3>2
    <2> QED  BY <1>3, <2>1 DEF SeenIssued
  <1>4. ASSUME NEW h \in Handler,
               \/ \E u \in Sub : LoginStart(h, u)
               \/ \E t \in Token : LogoutStart(h, t) \/ MeStart(h, t)
               \/ LoginVerified(h) \/ LoginLock(h) \/ LoginSnapshot(h)
               \/ LogoutLock(h) \/ LogoutRevoke(h) \/ MeResolve(h)
        PROVE  SeenIssued'
    <2>1. UNCHANGED <<known, issued>>
      BY <1>4 DEF LoginStart, LogoutStart, MeStart, Present, LoginVerified, LoginLock,
                  LoginSnapshot, LogoutLock, LogoutRevoke, MeResolve, table
    <2>2. \A a \in Requests : tok'[a] = tok[a] \/ tok'[a] = 0 \/ tok'[a] \in known
      BY <1>0, <1>4 DEF LoginStart, LogoutStart, MeStart, Present, LoginVerified, LoginLock,
                  LoginSnapshot, LogoutLock, LogoutRevoke, MeResolve, Leave, local, LocalTypes,
                  Actor, NoToken
    <2> QED  BY <1>3, <2>1, <2>2
  <1>5. ASSUME NEW s \in Socket,
               \/ \E t \in Token : BindStart(s, t)
               \/ BindLock(s) \/ BindResolve(s) \/ BindUpgrade(s) \/ BindRefused(s)
               \/ ServeEnds(s) \/ Unbind(s) \/ CloseEnds(s) \/ PeerLeaves(s)
        PROVE  SeenIssued'
    <2>1. UNCHANGED <<known, issued>>
      BY <1>5 DEF BindStart, BindLock, BindResolve, BindUpgrade, BindRefused, ServeEnds, Unbind,
                  CloseEnds, PeerLeaves, table
    <2>2. \A a \in Requests : tok'[a] = tok[a] \/ tok'[a] \in known
      BY <1>0, <1>5 DEF BindStart, BindLock, BindResolve, BindUpgrade, BindRefused, ServeEnds,
                  Unbind, CloseEnds, PeerLeaves, local, LocalTypes, Actor
    <2> QED  BY <1>3, <2>1, <2>2
  <1>6. ASSUME \/ \E a \in Requests : CloseNext(a)
               \/ \E t \in Token : WatchWake(t) \/ WatchResolve(t) \/ WatchClose(t)
               \/ Tick \/ UNCHANGED vars
        PROVE  SeenIssued'
    BY <1>3, <1>6 DEF CloseNext, WatchWake, WatchResolve, WatchClose, Tick, vars, table, local
  <1>7. CASE SweepStart \/ SweepStore \/ SweepSnapshot \/ SweepCheck \/ SweepDrop \/ SweepEnds
    <2>1. UNCHANGED <<known, issued>>
      BY <1>7 DEF SweepStart, SweepStore, SweepSnapshot, SweepCheck, SweepDrop, SweepEnds, table
    <2>2. \A a \in Requests : tok'[a] = tok[a]
      BY <1>0, <1>7, Distinct DEF SweepStart, SweepStore, SweepSnapshot, SweepCheck, SweepDrop,
                  SweepEnds, local, LocalTypes, Actor
    <2> QED  BY <1>3, <2>1, <2>2
  <1> QED
    BY <1>1, <1>2, <1>4, <1>5, <1>6, <1>7, NextCases

(* What Closer says of one actor.                                          *)
Closes(a, t) ==
    \/ a \in Handler /\ pc[a] = "rotated" /\ sub[a] = owner[t]
    \/ a \in Handler /\ pc[a] = "closing" /\ t \in todo[a]
    \/ a = Sweeper /\ pc[a] = "snapshot"
    \/ a = Sweeper /\ pc[a] \in {"check", "drop"} /\ t \in todo[a]

LEMMA CloserIs == \A t \in Token : Closer(t) <=> \E a \in Handler \cup {Sweeper} : Closes(a, t)
  BY Distinct DEF Closer, Closes

(* A step of one actor: what the others were going to close they still are *)
(* going to close, so that only the actor itself has to be looked at.      *)
LEMMA OneActs ==
    ASSUME Types, HasToken', OpenServes', EndedIsClosing, NEW a \in Actor,
           \A b \in Actor : b = a \/ (pc'[b] = pc[b] /\ todo'[b] = todo[b]),
           \A h \in Handler : h = a \/ sub'[h] = sub[h],
           \A s \in Socket, t \in Token : ws'[s] = "open" /\ tok'[s] = t =>
              /\ ws[s] = "open" /\ tok[s] = t /\ owner'[t] = owner[t]
              /\ (t \in live \/ Closes(a, t)) => (t \in live' \/ Closes(a, t)')
    PROVE  EndedIsClosing'
  <1> USE ActorIn
  <1>1. ASSUME NEW s \in Socket, NEW t \in Token, ws'[s] = "open", tok'[s] = t
        PROVE  t \in live' \/ Closer(t)'
    <2>1. /\ ws[s] = "open" /\ tok[s] = t /\ owner'[t] = owner[t]
          /\ (t \in live \/ Closes(a, t)) => (t \in live' \/ Closes(a, t)')
      BY <1>1
    <2>2. \A b \in Handler \cup {Sweeper} : b # a /\ Closes(b, t) => Closes(b, t)'
      BY <2>1 DEF Closes
    <2>3. t \in live \/ \E b \in Handler \cup {Sweeper} : Closes(b, t)
      BY <2>1, CloserIs DEF EndedIsClosing
    <2>4. t \in live' \/ \E b \in Handler \cup {Sweeper} : Closes(b, t)'
      <3>1. Closes(a, t)' => a \in Handler \cup {Sweeper}
        BY DEF Closes
      <3> QED  BY <2>1, <2>2, <2>3, <3>1
    <2> QED  BY <2>4, Distinct DEF Closer, Closes
  <1>2. ASSUME NEW s \in Socket, ws'[s] = "open"
        PROVE  tok'[s] \in live' \/ Closer(tok[s])'
    <2>1. PICK t \in Token : tok'[s] = t
      BY <1>2 DEF OpenServes, HasToken, Holding
    <2>2. t \in live' \/ Closer(t)'
      BY <1>1, <1>2, <2>1
    <2> QED  BY <2>1, <2>2 DEF Closer
  <1> QED  BY <1>2 DEF EndedIsClosing

(* The sockets that stay open are in the entry of their session.           *)
LEMMA OpenIsBound ==
    ASSUME HasToken, Registry, OpenServes, NEW s \in Socket, ws[s] = "open"
    PROVE  s \in bound[tok[s]] /\ tok[s] \in entries /\ tok[s] \in Token
  <1>1. tok[s] \in Token /\ sockToken[s] = tok[s]
    BY ActorIn DEF OpenServes, HasToken, Holding
  <1> QED  BY <1>1 DEF Registry, RegistryAgrees

LEMMA ClosingStep ==
    /\ Types /\ HasToken /\ Registry /\ LockHeld /\ OpenServes /\ Upgrading /\ SeenIssued
    /\ Types' /\ HasToken' /\ OpenServes' /\ EndedIsClosing /\ [Next]_vars
    => EndedIsClosing'
  <1> SUFFICES ASSUME Types, HasToken, Registry, LockHeld, OpenServes, Upgrading, SeenIssued,
                      Types', HasToken', OpenServes', EndedIsClosing, [Next]_vars
               PROVE  EndedIsClosing'
    OBVIOUS
  <1> USE ActorIn, Distinct
  <1>0. LocalTypes /\ RegistryTypes /\ TableTypes
    BY DEF Types
  <1>1. ASSUME NEW h \in Handler,
               \/ \E u \in Sub : LoginStart(h, u)
               \/ \E t \in Token : LogoutStart(h, t) \/ MeStart(h, t)
               \/ LoginVerified(h) \/ LoginLock(h) \/ LogoutLock(h) \/ MeResolve(h) \/ Respond(h)
        PROVE  EndedIsClosing'
    <2>1. UNCHANGED <<live, owner, ws>> /\ \E where : Goto(h, where)
      BY <1>1 DEF LoginStart, LogoutStart, MeStart, Present, LoginVerified, LoginLock, LogoutLock,
                  MeResolve, Respond, Leave, CloseAfter, table
    <2>2. /\ \A b \in Actor : b = h \/ (todo'[b] = todo[b] /\ tok'[b] = tok[b])
          /\ \A g \in Handler : g = h \/ sub'[g] = sub[g]
      BY <1>0, <1>1 DEF LoginStart, LogoutStart, MeStart, Present, LoginVerified, LoginLock,
                  LogoutLock, MeResolve, Respond, Leave, CloseAfter, local, LocalTypes
    <2>3. \A t : ~Closes(h, t)
      BY <1>1 DEF LoginStart, LogoutStart, MeStart, Present, LoginVerified, LoginLock, LogoutLock,
                  MeResolve, Respond, Closes
    <2> QED  BY <1>0, <2>1, <2>2, <2>3, GotoOthers, OneActs
  <1>2. ASSUME NEW h \in Handler, LoginIssue(h) PROVE EndedIsClosing'
    <2>1. /\ UNCHANGED <<ws, todo, sub>> /\ (\A t : ~Closes(h, t)) /\ \E where : Goto(h, where)
      BY <1>2 DEF LoginIssue, Leave, Closes
    <2>2. \A b \in Actor : b = h \/ tok'[b] = tok[b]
      BY <1>0, <1>2 DEF LoginIssue, Leave, LocalTypes
    <2>3. ASSUME NEW s \in Socket, NEW t \in Token, ws[s] = "open", tok[s] = t
          PROVE  owner'[t] = owner[t] /\ (t \in live => t \in live' \/ Closes(h, t)')
      <3>1. CASE UNCHANGED table
        BY <3>1 DEF table
      <3>2. CASE Issue(sub[h], at[h]) /\ Goto(h, "rotated")
        <4>1. t # issued + 1 /\ owner'[t] = owner[t]
          BY <1>0, <2>3, <3>2 DEF SeenIssued, Issue, TableTypes
        <4>2. CASE owner[t] = sub[h]
          BY <1>0, <2>1, <3>2, <4>1, <4>2, GotoOthers DEF Closes
        <4>3. CASE owner[t] # sub[h]
          BY <3>2, <4>1, <4>3 DEF Issue
        <4> QED  BY <4>1, <4>2, <4>3
      <3> QED  BY <1>2, <3>1, <3>2 DEF LoginIssue
    <2> QED  BY <1>0, <2>1, <2>2, <2>3, GotoOthers, OneActs
  <1>3. ASSUME NEW h \in Handler, LoginSnapshot(h) \/ LogoutRevoke(h) PROVE EndedIsClosing'
    <2>1. /\ UNCHANGED <<owner, ws, tok, sub>> /\ Goto(h, "closing")
          /\ \A b \in Actor : b = h \/ todo'[b] = todo[b]
      BY <1>0, <1>3 DEF LoginSnapshot, LogoutRevoke, CloseAfter, table, local, LocalTypes
    <2>2. ASSUME NEW s \in Socket, NEW t \in Token, ws[s] = "open", tok[s] = t,
                 t \in live \/ Closes(h, t)
          PROVE  t \in live' \/ Closes(h, t)'
      <3>1. t \in entries
        BY <2>2, OpenIsBound
      <3>2. CASE LoginSnapshot(h)
        <4>1. live' = live /\ todo'[h] = {u \in entries : owner[u] = sub[h]}
          BY <1>0, <3>2 DEF LoginSnapshot, CloseAfter, table, LocalTypes
        <4>2. Closes(h, t) => owner[t] = sub[h]
          BY <3>2 DEF LoginSnapshot, Closes
        <4> QED  BY <1>0, <2>1, <2>2, <3>1, <4>1, <4>2, GotoOthers DEF Closes
      <3>3. CASE LogoutRevoke(h)
        <4>1. t \in live /\ todo'[h] = {tok[h]} /\ (t = tok[h] \/ t \in live')
          BY <1>0, <2>2, <3>3 DEF LogoutRevoke, CloseAfter, Closes, LocalTypes
        <4> QED  BY <1>0, <2>1, <4>1, GotoOthers DEF Closes
      <3> QED  BY <1>3, <3>2, <3>3
    <2> QED  BY <1>0, <2>1, <2>2, GotoOthers, OneActs
  <1>4. ASSUME NEW a \in Handler \cup Socket, CloseNext(a) PROVE EndedIsClosing'
    <2>1. UNCHANGED <<live, owner, pc, sub, tok>>
      BY <1>4 DEF CloseNext, table, local
    <2>2. PICK u \in todo[a] : CloseToken(u) /\ todo' = [todo EXCEPT ![a] = @ \ {u}]
      BY <1>4 DEF CloseNext
    <2>3. \A b \in Actor : b = a \/ todo'[b] = todo[b]
      BY <1>0, <2>2 DEF LocalTypes
    <2>4. a \in Actor /\ todo'[a] = todo[a] \ {u}
      BY <1>0, <2>2 DEF LocalTypes, Actor
    <2>5. \A s \in Socket : ws'[s] = "open" => ws[s] = "open" /\ tok[s] # u
      BY <1>0, <2>2, CloseTokenOpen, OpenIsBound
    <2> QED  BY <2>1, <2>3, <2>4, <2>5, OneActs DEF Closes
  <1>5. ASSUME NEW s \in Socket,
               \/ \E t \in Token : BindStart(s, t)
               \/ BindLock(s) \/ BindResolve(s) \/ BindRefused(s) \/ ServeEnds(s) \/ Unbind(s)
        PROVE  EndedIsClosing'
    <2>1. /\ UNCHANGED <<live, owner, ws, sub>> /\ ws[s] # "open" /\ \E where : Goto(s, where)
      BY <1>5 DEF BindStart, BindLock, BindResolve, BindRefused, ServeEnds, Unbind, CloseAfter,
                  table, local, OpenServes
    <2>2. \A b \in Actor : b = s \/ (todo'[b] = todo[b] /\ tok'[b] = tok[b])
      BY <1>0, <1>5 DEF BindStart, BindLock, BindResolve, BindRefused, ServeEnds, Unbind,
                        CloseAfter, local, LocalTypes
    <2>3. \A t : ~Closes(s, t)
      BY DEF Closes
    <2> QED  BY <1>0, <2>1, <2>2, <2>3, GotoOthers, OneActs
  <1>6. ASSUME NEW s \in Socket, BindUpgrade(s) PROVE EndedIsClosing'
    <2>1. /\ UNCHANGED <<live, owner, sub, tok, todo>> /\ \E where : Goto(s, where)
          /\ pc[s] = "upgrade"
      BY <1>6 DEF BindUpgrade, table, local
    <2>2. \A r \in Socket : r # s /\ ws'[r] = "open" => ws[r] = "open"
      BY <1>0, <1>6 DEF BindUpgrade, Register, RegistryTypes
    <2>3. \A h \in Handler \cup {Sweeper} : pc'[h] = pc[h]
      BY <1>0, <2>1, GotoOthers
    <2>4. tok[s] \in live \/ pc[Sweeper] = "snapshot"
      BY <2>1 DEF Upgrading
    <2> QED  BY <2>1, <2>2, <2>3, <2>4 DEF EndedIsClosing, Closer
  <1>7. ASSUME \/ \E s \in Socket : CloseEnds(s) \/ PeerLeaves(s)
               \/ \E t \in Token : WatchWake(t) \/ WatchResolve(t) \/ WatchClose(t)
               \/ Tick \/ UNCHANGED vars
        PROVE  EndedIsClosing'
    <2>1. UNCHANGED <<live, owner, sub, tok, todo, pc>>
      BY <1>7 DEF CloseEnds, PeerLeaves, WatchWake, WatchResolve, WatchClose, Tick, vars, table,
                  local
    <2>2. \A s \in Socket : ws'[s] = "open" => ws[s] = "open"
      <3>1. ASSUME NEW t \in Token, WatchClose(t)
            PROVE  \A s \in Socket : ws'[s] = "open" => ws[s] = "open"
        BY <1>0, <3>1, CloseTokenOpen DEF WatchClose
      <3> QED  BY <1>0, <1>7, <3>1 DEF CloseEnds, PeerLeaves, WatchWake, WatchResolve, Tick, vars,
                                       RegistryTypes
    <2> QED  BY <2>1, <2>2 DEF EndedIsClosing, Closer
  <1>8. CASE SweepStart \/ SweepStore \/ SweepSnapshot \/ SweepEnds
    <2>1. /\ UNCHANGED <<owner, ws, tok, sub>>
          /\ \A b \in Actor : b = Sweeper \/ (pc'[b] = pc[b] /\ todo'[b] = todo[b])
      BY <1>0, <1>8, GotoOthers DEF SweepStart, SweepStore, SweepSnapshot, SweepEnds, table, local,
                                    LocalTypes
    <2>2. ASSUME NEW s \in Socket, NEW t \in Token, ws[s] = "open", tok[s] = t,
                 t \in live \/ Closes(Sweeper, t)
          PROVE  t \in live' \/ Closes(Sweeper, t)'
      <3>1. CASE SweepStart \/ SweepEnds
        BY <2>2, <3>1 DEF SweepStart, SweepEnds, table, Closes
      <3>2. CASE SweepStore
        BY <1>0, <3>2, GotoOthers DEF SweepStore, Closes
      <3>3. CASE SweepSnapshot
        <4>1. t \in entries
          BY <2>2, OpenIsBound
        <4>2. todo'[Sweeper] = entries /\ pc'[Sweeper] = "check"
          BY <1>0, <3>3, GotoOthers DEF SweepSnapshot, LocalTypes
        <4> QED  BY <4>1, <4>2 DEF Closes
      <3> QED  BY <1>8, <3>1, <3>2, <3>3
    <2> QED  BY <2>1, <2>2, OneActs
  <1>9. CASE SweepCheck
    <2>1. /\ UNCHANGED <<live, owner, ws, sub>> /\ pc[Sweeper] = "check"
          /\ \A b \in Actor : b = Sweeper \/ (pc'[b] = pc[b] /\ todo'[b] = todo[b] /\ tok'[b] = tok[b])
      BY <1>0, <1>9, GotoOthers DEF SweepCheck, LocalTypes
    <2>2. /\ pc'[Sweeper] \in {"check", "drop"}
          /\ \A t \in Token : t \in todo[Sweeper] => t \in live \/ t \in todo'[Sweeper]
      BY <1>0, <1>9 DEF SweepCheck, Resolves, Goto, LocalTypes
    <2> QED  BY <2>1, <2>2, OneActs DEF Closes
  <1>10. CASE SweepDrop
    <2>1. /\ UNCHANGED <<live, owner, sub>> /\ pc[Sweeper] = "drop"
          /\ pc'[Sweeper] = "check" /\ todo'[Sweeper] = todo[Sweeper] \ {tok[Sweeper]}
          /\ \A b \in Actor : b = Sweeper \/ (pc'[b] = pc[b] /\ todo'[b] = todo[b] /\ tok'[b] = tok[b])
      BY <1>0, <1>10, GotoOthers DEF SweepDrop, LocalTypes, table
    <2>2. \A s \in Socket : ws'[s] = "open" => ws[s] = "open" /\ tok[s] # tok[Sweeper]
      BY <1>0, <1>10, CloseTokenOpen, OpenIsBound DEF SweepDrop
    <2> QED  BY <2>1, <2>2, OneActs DEF Closes
  <1> QED
    BY <1>1, <1>2, <1>3, <1>4, <1>5, <1>6, <1>7, <1>8, <1>9, <1>10, NextCases

(* Logout, rotation and sweep leave no socket open on a session they ended *)
(* unless the one that ended it, or the sweep, is still on the way to it:  *)
(* the sockets that were being upgraded meanwhile are reached too.         *)
THEOREM EndedSocketsClose == Spec => []EndedIsClosing
  <1>1. Init => Registry /\ SeenIssued /\ EndedIsClosing
    <2> SUFFICES ASSUME Init PROVE Registry /\ SeenIssued /\ EndedIsClosing
      OBVIOUS
    <2>1. Registry
      BY TokenIn DEF Init, Registry, RegistryAgrees, Fresh
    <2>2. EndedIsClosing
      BY DEF Init, EndedIsClosing
    <2>3. issued = 0 /\ known = {} /\ (\A a \in Actor : tok[a] = 0) /\ 0 \in 0 .. 0
      BY DEF Init, NoToken
    <2>4. SeenIssued
      BY <2>3 DEF SeenIssued, Actor
    <2> QED  BY <2>1, <2>2, <2>4
  <1>2. Spec => [](/\ Types /\ HasToken /\ Registry /\ LockHeld /\ OpenServes /\ Upgrading
                   /\ SeenIssued /\ EndedIsClosing)
    BY <1>1, TypeInit, UpgradingInit, TypeStep, RegistryStep, LockStep, OpenStep, UpgradingStep,
       SeenStep, ClosingStep, PTL DEF Spec
  <1> QED  BY <1>2, PTL

=============================================================================
