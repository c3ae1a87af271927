-------------------------- MODULE AgentApi_proofs --------------------------
(***************************************************************************)
(* Proofs about AgentApi, for any number of handlers, sessions, Memory     *)
(* objects and calls, and whatever the file system does; and about the     *)
(* calls of language models it makes (ModelFallback).                      *)
(***************************************************************************)
EXTENDS AgentApi, ModelCall, SequenceTheorems, WellFoundedInduction, TLAPS

Object == [session : Session, text : Seq(Message), deleted : BOOLEAN]
File   == [there : BOOLEAN, text : Seq(Message), age : 0 .. SessionTtl + 1]
Entry  == [memory : MemoryId, iteration : Nat, age : 0 .. PendingTtl + 1]
State  == [pc : Pc, memory : MemoryId \cup {None}, iteration : Nat,
           call : CallId \cup {None}, tool : 0 .. NumTools]

-----------------------------------------------------------------------------
(* Transcripts.                                                            *)

(* Trim keeps the end of a transcript, all of it if the result is short.   *)
LEMMA TrimKeeps ==
    ASSUME NEW t \in Seq(Message)
    PROVE  /\ Trim(t) \in Seq(Message)
           /\ Len(Trim(t)) < MaxMessages => Trim(t) = t
           /\ \A i \in DOMAIN Trim(t) : \E j \in DOMAIN t : Trim(t)[i] = t[j]
  <1>0. MaxMessages \in Nat \ {0} /\ Len(t) \in Nat /\ DOMAIN t = 1 .. Len(t)
    BY AgentAssumption, LenProperties
  <1>1. CASE Len(t) <= MaxMessages
    BY <1>1 DEF Trim
  <1>2. CASE Len(t) > MaxMessages
    <2>1. \A i \in Len(t) - MaxMessages + 1 .. Len(t) : t[i] \in Message
      BY <1>0, <1>2, ElementOfSeq
    <2>2. /\ SubSeq(t, Len(t) - MaxMessages + 1, Len(t)) \in Seq(Message)
          /\ Len(SubSeq(t, Len(t) - MaxMessages + 1, Len(t))) = MaxMessages
          /\ \A i \in 1 .. MaxMessages :
                SubSeq(t, Len(t) - MaxMessages + 1, Len(t))[i] = t[Len(t) - MaxMessages + i]
      <3> DEFINE a == Len(t) - MaxMessages + 1
      <3>1. a \in Int /\ Len(t) \in Int /\ a <= Len(t) /\ Len(t) - a + 1 = MaxMessages
            /\ \A i \in 1 .. MaxMessages : a + i - 1 = Len(t) - MaxMessages + i
        BY <1>0, <1>2
      <3>2. \A i \in a .. Len(t) : t[i] \in Message
        BY <2>1
      <3> HIDE DEF a
      <3>3. /\ SubSeq(t, a, Len(t)) \in Seq(Message)
            /\ Len(SubSeq(t, a, Len(t))) = IF a <= Len(t) THEN Len(t) - a + 1 ELSE 0
            /\ \A i \in 1 .. Len(t) - a + 1 : SubSeq(t, a, Len(t))[i] = t[a + i - 1]
        BY <3>1, <3>2, SubSeqProperties
      <3>4. /\ SubSeq(t, a, Len(t)) \in Seq(Message)
            /\ Len(SubSeq(t, a, Len(t))) = MaxMessages
            /\ \A i \in 1 .. MaxMessages : SubSeq(t, a, Len(t))[i] = t[Len(t) - MaxMessages + i]
        BY <3>1, <3>3
      <3> QED  BY <3>4 DEF a
    <2>3. Trim(t) = SubSeq(t, Len(t) - MaxMessages + 1, Len(t))
      BY <1>0, <1>2 DEF Trim
    <2>4. DOMAIN Trim(t) = 1 .. MaxMessages
      BY <2>2, <2>3, LenProperties
    <2>5. \A i \in 1 .. MaxMessages : Len(t) - MaxMessages + i \in DOMAIN t
      BY <1>0, <1>2
    <2>6. Trim(t) \in Seq(Message) /\ Len(Trim(t)) = MaxMessages
      BY <2>2, <2>3
    <2>7. ASSUME NEW i \in DOMAIN Trim(t) PROVE \E j \in DOMAIN t : Trim(t)[i] = t[j]
      <3>1. i \in 1 .. MaxMessages /\ Trim(t)[i] = t[Len(t) - MaxMessages + i]
        BY <2>2, <2>3, <2>4
      <3> QED  BY <2>5, <3>1
    <2> QED  BY <1>0, <2>6, <2>7
  <1> QED  BY <1>0, <1>1, <1>2

(* What is written of a text that grew: a beginning of the growth.         *)
LEMMA GrownText ==
    ASSUME NEW t \in Seq(Message), NEW ms \in Seq(Message), NEW n \in 0 .. Len(ms)
    PROVE  /\ SubSeq(ms, 1, n) \in Seq(Message) /\ Len(SubSeq(ms, 1, n)) = n
           /\ \A i \in 1 .. n : SubSeq(ms, 1, n)[i] = ms[i]
           /\ t \o SubSeq(ms, 1, n) \in Seq(Message)
           /\ Len(t \o SubSeq(ms, 1, n)) = Len(t) + n
           /\ \A i \in 1 .. Len(t) : (t \o SubSeq(ms, 1, n))[i] = t[i]
           /\ \A i \in 1 .. n : (t \o SubSeq(ms, 1, n))[Len(t) + i] = ms[i]
  <1>1. Len(ms) \in Nat /\ Len(t) \in Nat /\ n \in Nat /\ n <= Len(ms)
    BY LenProperties
  <1>2. \A i \in 1 .. n : ms[i] \in Message
    BY <1>1, ElementOfSeq
  <1>3. /\ SubSeq(ms, 1, n) \in Seq(Message)
        /\ Len(SubSeq(ms, 1, n)) = IF 1 <= n THEN n - 1 + 1 ELSE 0
        /\ \A i \in 1 .. n - 1 + 1 : SubSeq(ms, 1, n)[i] = ms[1 + i - 1]
    BY <1>1, <1>2, SubSeqProperties
  <1>4. /\ SubSeq(ms, 1, n) \in Seq(Message) /\ Len(SubSeq(ms, 1, n)) = n
        /\ \A i \in 1 .. n : SubSeq(ms, 1, n)[i] = ms[i]
    BY <1>1, <1>3
  <1> DEFINE b == SubSeq(ms, 1, n)
  <1> HIDE DEF b
  <1>5. /\ b \in Seq(Message) /\ Len(b) = n /\ \A i \in 1 .. n : b[i] = ms[i]
    BY <1>4 DEF b
  <1>6. /\ t \o b \in Seq(Message) /\ Len(t \o b) = Len(t) + n
        /\ \A i \in 1 .. Len(t) + n : (t \o b)[i] = IF i <= Len(t) THEN t[i] ELSE b[i - Len(t)]
    BY <1>5, ConcatProperties
  <1>7. \A i \in 1 .. Len(t) : (t \o b)[i] = t[i]
    BY <1>1, <1>6
  <1>8. \A i \in 1 .. n : (t \o b)[Len(t) + i] = ms[i]
    BY <1>1, <1>5, <1>6
  <1> QED  BY <1>4, <1>6, <1>7, <1>8 DEF b

LEMMA AllOfIt ==
    ASSUME NEW ms \in Seq(Message)
    PROVE  Len(ms) \in 0 .. Len(ms) /\ SubSeq(ms, 1, Len(ms)) = ms
  BY LenProperties, SubSeqFull

(* The messages.                                                           *)
LEMMA Messages ==
    ASSUME NEW m \in MemoryId
    PROVE  /\ Text(m) \in Message /\ <<Text(m)>> \in Seq(Message) /\ <<>> \in Seq(Message)
           /\ \A c \in CallId : Call(m, c) \in Message /\ <<Call(m, c)>> \in Seq(Message)
           /\ \A c \in CallId, k \in 1 .. NumTools :
                 Result(m, c, k) \in Message /\ <<Result(m, c, k)>> \in Seq(Message)
           /\ \A c \in CallId : [k \in 1 .. NumTools |-> Result(m, c, k)] \in Seq(Message)
  <1>1. /\ Text(m) \in Message
        /\ \A c \in CallId : Call(m, c) \in Message
        /\ \A c \in CallId, k \in 1 .. NumTools : Result(m, c, k) \in Message
    BY AgentAssumption DEF Text, Call, Result, Message, CallId, None
  <1>2. \A x \in Message : <<x>> \in Seq(Message)
    OBVIOUS
  <1>3. ASSUME NEW c \in CallId
        PROVE  [k \in 1 .. NumTools |-> Result(m, c, k)] \in Seq(Message)
    <2>1. \A k \in 1 .. NumTools : Result(m, c, k) \in Message
      BY <1>1
    <2> QED  BY <2>1, AgentAssumption, IsASeq
  <1> QED  BY <1>1, <1>2, <1>3

-----------------------------------------------------------------------------
(* Types.                                                                  *)

StoreTypes ==
    /\ current \in [Session -> MemoryId \cup {None}] /\ idle \in [Session -> 0 .. Unused]
    /\ created \in 0 .. MaxMemories
    /\ memories \in [MemoryId -> Object] /\ disk \in [Session -> File]
    /\ erased \subseteq MemoryId

CallTypes ==
    /\ issued \in 0 .. MaxCalls /\ DOMAIN pending \subseteq 1 .. issued
    /\ \A c \in DOMAIN pending : pending[c] \in Entry
    /\ ran \in [CallId -> [1 .. NumTools -> Nat]] /\ rejected \subseteq 1 .. issued

(* A request at work, and a call that is pending, has its Memory object.   *)
Holders ==
    /\ \A r \in Request : request[r].pc # "idle" => request[r].memory \in 1 .. created
    /\ \A c \in DOMAIN pending : pending[c].memory \in 1 .. created
    /\ \A s \in Session : current[s] # None => current[s] \in 1 .. created
    /\ \A r \in Request : request[r].pc = "tool" =>
                            request[r].call \in 1 .. issued /\ request[r].tool \in 1 .. NumTools

Types == TypeOK /\ Holders

RequestTypes == /\ request \in [Request -> State]
                /\ task \in [Request -> {"none", "running", "ended"}]

LEMMA TypesAre ==
    /\ TypeOK <=> StoreTypes /\ CallTypes /\ RequestTypes
    /\ TypeOK' <=> StoreTypes' /\ CallTypes' /\ RequestTypes'
  BY DEF TypeOK, StoreTypes, CallTypes, RequestTypes, Object, File, Entry, State

LEMMA Numbers ==
    /\ MaxMemories \in Nat \ {0} /\ NumTools \in Nat \ {0} /\ MaxCalls \in Nat
    /\ SessionTtl \in Nat /\ PendingTtl \in Nat /\ Unused = SessionTtl + 2
    /\ None = 0 /\ None \notin MemoryId /\ None \notin CallId
    /\ MemoryId = 1 .. MaxMemories /\ CallId = 1 .. MaxCalls
  BY AgentAssumption DEF Unused, None, MemoryId, CallId

LEMMA AddTypes ==
    ASSUME NEW m \in MemoryId, NEW object \in Object, NEW ms \in Seq(Message),
           memories \in [MemoryId -> Object], disk \in [Session -> File], Add(m, object, ms)
    PROVE  memories' \in [MemoryId -> Object] /\ disk' \in [Session -> File]
  <1>1. CASE object.deleted
    BY <1>1 DEF Add
  <1>2. CASE ~object.deleted
    <2>1. object.text \in Seq(Message) /\ object.session \in Session
      BY DEF Object
    <2>2. PICK n \in Saves(Len(ms)) :
             /\ memories' = [memories EXCEPT ![m] = [object EXCEPT !.text = Trim(object.text \o ms)]]
             /\ disk' = IF n = 0 THEN disk
                        ELSE Save(object.session, Trim(object.text \o SubSeq(ms, 1, n)))
      BY <1>2 DEF Add
    <2>3. n \in 0 .. Len(ms)
      BY AllOfIt DEF Saves
    <2>4. Trim(object.text \o ms) \in Seq(Message)
      BY <2>1, TrimKeeps, ConcatProperties
    <2>5. Trim(object.text \o SubSeq(ms, 1, n)) \in Seq(Message)
      BY <2>1, <2>3, GrownText, TrimKeeps
    <2>6. [object EXCEPT !.text = Trim(object.text \o ms)] \in Object
      BY <2>4 DEF Object
    <2>7. \A x \in Seq(Message) : [there |-> TRUE, text |-> x, age |-> 0] \in File
      BY AgentAssumption DEF File
    <2>8. Save(object.session, Trim(object.text \o SubSeq(ms, 1, n))) \in [Session -> File]
      BY <2>1, <2>5, <2>7 DEF Save
    <2> QED  BY <2>2, <2>6, <2>8
  <1> QED  BY <1>1, <1>2

LEMMA SomeTypes ==
    /\ Fresh.text = <<>> /\ NoFile \in File
    /\ \A s \in Session : [session |-> s, text |-> <<>>, deleted |-> FALSE] \in Object
    /\ \A s \in Session : Fresh \in Object
    /\ Rest \in State
  <1>1. \A s \in Session : (CHOOSE x \in Session : TRUE) \in Session
    OBVIOUS
  <1>2. <<>> \in Seq(Message)
    BY EmptySeq
  <1> QED  BY <1>1, <1>2, AgentAssumption DEF Fresh, NoFile, File, Object, Rest, State, Pc, None

LEMMA DropTypes ==
    ASSUME memories \in [MemoryId -> Object], NEW m \in MemoryId
    PROVE  Drop(m) \in Object
  BY EmptySeq DEF Drop, Object

LEMMA ForgetTypes ==
    ASSUME StoreTypes, CallTypes, NEW S, NEW old, Forget(S, old)
    PROVE  /\ memories' \in [MemoryId -> Object]
           /\ current' \in [Session -> MemoryId \cup {None}] /\ idle' \in [Session -> 0 .. Unused]
           /\ DOMAIN pending' \subseteq DOMAIN pending
           /\ \A c \in DOMAIN pending' : pending'[c] = pending[c]
  <1>1. memories' \in [MemoryId -> Object]
    BY DropTypes DEF Forget, StoreTypes
  <1>2. current' \in [Session -> MemoryId \cup {None}] /\ idle' \in [Session -> 0 .. Unused]
    BY Numbers DEF Forget, StoreTypes
  <1> QED  BY <1>1, <1>2 DEF Forget

LEMMA UnlinkTypes ==
    ASSUME NEW files \in [Session -> File], NEW S, NEW failed, Unlink(files, S, failed),
           created \in 0 .. MaxMemories, erased \subseteq MemoryId
    PROVE  disk' \in [Session -> File] /\ erased' \subseteq MemoryId
  <1>1. disk' \in [Session -> File]
    BY SomeTypes DEF Unlink
  <1>2. \A s : Of(s) \subseteq MemoryId
    BY Numbers DEF Of
  <1>3. erased' = erased \cup UNION {Of(s) : s \in S \ failed}
    BY DEF Unlink
  <1> QED  BY <1>1, <1>2, <1>3

LEMMA NextCases ==
    ASSUME Next
    PROVE  \/ \E r \in Request, s \in Session : \/ Chat(r, s)
                                                \/ \E c \in CallId : Approve(r, c, s) \/ Reject(r, c, s)
           \/ \E r \in Request : \/ Retrieved(r) \/ Submit(r) \/ TaskEnds(r) \/ PollEnds(r)
                                 \/ PollGivesUp(r) \/ CancelTask(r) \/ ModelAnswers(r)
                                 \/ ModelCalls(r) \/ RunTool(r)
           \/ \E failed : \/ Cleanup(failed) \/ \E s \in Session : Delete(s, failed)
                          \/ \E torn \in SUBSET Session : Restart(torn, failed)
           \/ Tick
  <1>1. CASE \E r \in Request : Accept(r)
    BY <1>1 DEF Accept
  <1>2. CASE \E r \in Request : Works(r) \/ Speaks(r) \/ TaskEnds(r)
    BY <1>2 DEF Works, Deep, Speaks
  <1>3. CASE Housekeeping
    BY <1>3 DEF Housekeeping
  <1> QED  BY <1>1, <1>2, <1>3 DEF Next

LEMMA AtTypes ==
    ASSUME NEW m \in MemoryId, NEW i \in Nat, NEW pc \in Pc
    PROVE  At(pc, m, i) \in State /\ At(pc, m, i).pc = pc /\ At(pc, m, i).memory = m
           /\ At(pc, m, i).call = None /\ At(pc, m, i).iteration = i
  <1>1. 0 \in 0 .. NumTools
    BY Numbers
  <1> QED  BY <1>1 DEF At, State

LEMMA EndsTypes ==
    ASSUME Types, NEW r \in Request, request[r].pc # "idle", NEW ms \in Seq(Message), Ends(r, ms)
    PROVE  /\ memories' \in [MemoryId -> Object] /\ disk' \in [Session -> File]
           /\ request' = [request EXCEPT ![r] = Rest] /\ request' \in [Request -> State]
  <1>1. request[r].memory \in MemoryId /\ StoreTypes /\ request \in [Request -> State]
    BY TypesAre, Numbers DEF Types, Holders, StoreTypes, RequestTypes
  <1>2. Add(request[r].memory, memories[request[r].memory], ms)
    BY DEF Ends
  <1>3. memories[request[r].memory] \in Object
    BY <1>1 DEF StoreTypes
  <1>4. memories' \in [MemoryId -> Object] /\ disk' \in [Session -> File]
    BY <1>1, <1>2, <1>3, AddTypes DEF StoreTypes
  <1>5. request' = [request EXCEPT ![r] = Rest]
    BY DEF Ends
  <1> QED  BY <1>1, <1>4, <1>5, SomeTypes

LEMMA ContinueTypes ==
    ASSUME request \in [Request -> State], NEW r \in Request, NEW m \in MemoryId, NEW i \in Nat,
           Continue(r, m, i)
    PROVE  \E x \in State : /\ request' = [request EXCEPT ![r] = x]
                            /\ x.pc \in {"idle", "retrieve"} /\ (x.pc # "idle" => x.memory = m)
  <1>1. "retrieve" \in Pc /\ i + 1 \in Nat /\ Rest.pc = "idle"
    BY DEF Pc, Rest
  <1>2. At("retrieve", m, i + 1) \in State /\ At("retrieve", m, i + 1).memory = m
        /\ At("retrieve", m, i + 1).pc = "retrieve"
    BY <1>1, AtTypes
  <1>3. CASE i < MaxIterations
    BY <1>2, <1>3 DEF Continue
  <1>4. CASE ~(i < MaxIterations)
    BY <1>1, <1>4, SomeTypes DEF Continue
  <1> QED  BY <1>3, <1>4

LEMMA ObjectTypes ==
    ASSUME StoreTypes, NEW s \in Session
    PROVE  ObjectOf(s) \in Object /\ created + 1 \in Nat
  BY Numbers DEF ObjectOf, StoreTypes, Object, File

LEMMA ChatTypes ==
    ASSUME Types, NEW r \in Request, NEW s \in Session, Chat(r, s)
    PROVE  Types'
  <1> DEFINE m == MemoryOf(s)
  <1>1. /\ request[r].pc = "idle" /\ m \in MemoryId
        /\ current' = [current EXCEPT ![s] = m]
        /\ created' = IF m > created THEN m ELSE created
        /\ Used(s)
        /\ Add(m, ObjectOf(s), <<Text(m)>>)
        /\ UNCHANGED <<pending, issued, ran, rejected, task, erased>>
    BY DEF Chat, calls
  <1>2. PICK next \in {"retrieve", "submit"} : request' = [request EXCEPT ![r] = At(next, m, 1)]
    BY DEF Chat
  <1>3. StoreTypes /\ CallTypes /\ RequestTypes /\ request \in [Request -> State]
    BY TypesAre DEF Types, RequestTypes
  <1>4. created' \in 0 .. MaxMemories /\ m \in 1 .. created' /\ created \in Nat /\ created <= created'
    <2> HIDE DEF m
    <2> QED  BY <1>1, <1>3, Numbers DEF StoreTypes
  <1>5. At(next, m, 1) \in State /\ At(next, m, 1).pc = next /\ At(next, m, 1).memory = m
    <2>1. 1 \in Nat /\ next \in Pc
      BY DEF Pc
    <2> QED  BY <1>1, <2>1, AtTypes
  <1>6. request' \in [Request -> State]
    BY <1>2, <1>3, <1>5
  <1>7. memories' \in [MemoryId -> Object] /\ disk' \in [Session -> File]
    BY <1>1, <1>3, AddTypes, ObjectTypes, Messages DEF StoreTypes
  <1>8. idle' \in [Session -> 0 .. Unused]
    BY <1>1, <1>3, Numbers DEF Used, StoreTypes
  <1>9. StoreTypes'
    BY <1>1, <1>3, <1>4, <1>7, <1>8 DEF StoreTypes
  <1>10. CallTypes'
    BY <1>1, <1>3 DEF CallTypes
  <1>11. Holders'
    <2>1. \A x \in 1 .. created : x \in 1 .. created'
      BY <1>4, <1>3 DEF StoreTypes
    <2>2. \A q \in Request : request'[q].pc # "idle" => request'[q].memory \in 1 .. created'
      BY <1>2, <1>3, <1>4, <1>5, <2>1 DEF Types, Holders
    <2>3. \A c \in DOMAIN pending' : pending'[c].memory \in 1 .. created'
      BY <1>1, <2>1 DEF Types, Holders
    <2>4. \A x \in Session : current'[x] # None => current'[x] \in 1 .. created'
      BY <1>1, <1>3, <1>4, <2>1 DEF Types, Holders, StoreTypes
    <2>5. \A q \in Request : request'[q].pc = "tool" =>
             request'[q].call \in 1 .. issued' /\ request'[q].tool \in 1 .. NumTools
      BY <1>1, <1>2, <1>3, <1>5 DEF Types, Holders
    <2> QED  BY <2>2, <2>3, <2>4, <2>5 DEF Holders
  <1>12. TypeOK'
    <2>1. RequestTypes'
      BY <1>1, <1>3, <1>6 DEF RequestTypes
    <2> QED  BY <1>9, <1>10, <2>1, TypesAre
  <1> QED  BY <1>11, <1>12 DEF Types

(* A step of the handler r that neither makes nor forgets Memory objects.  *)
LEMMA HandlerTypes ==
    ASSUME Types, StoreTypes', CallTypes', task' \in [Request -> {"none", "running", "ended"}],
           UNCHANGED <<current, created>>, issued' >= issued,
           \A c \in DOMAIN pending' : pending'[c].memory \in 1 .. created,
           NEW r \in Request, NEW x \in State, request' = [request EXCEPT ![r] = x],
           x.pc # "idle" => x.memory \in 1 .. created,
           x.pc = "tool" => x.call \in 1 .. issued' /\ x.tool \in 1 .. NumTools
    PROVE  Types'
  <1>1. request \in [Request -> State]
    BY TypesAre DEF Types, RequestTypes
  <1>2. RequestTypes'
    BY <1>1 DEF RequestTypes
  <1>3. TypeOK'
    BY <1>2, TypesAre
  <1>4. \A q \in Request : request'[q].pc # "idle" => request'[q].memory \in 1 .. created'
    BY <1>1 DEF Types, Holders
  <1>5. \A s \in Session : current'[s] # None => current'[s] \in 1 .. created'
    BY DEF Types, Holders
  <1>6. \A q \in Request : request'[q].pc = "tool" =>
           request'[q].call \in 1 .. issued' /\ request'[q].tool \in 1 .. NumTools
    <2>1. issued \in Nat /\ issued' \in Nat
      BY TypesAre, Numbers DEF Types, CallTypes
    <2>2. ASSUME NEW q \in Request, q # r, request'[q].pc = "tool"
          PROVE  request'[q].call \in 1 .. issued' /\ request'[q].tool \in 1 .. NumTools
      <3>1. request'[q] = request[q]
        BY <1>1, <2>2
      <3>2. request[q].call \in 1 .. issued /\ request[q].tool \in 1 .. NumTools
        BY <2>2, <3>1 DEF Types, Holders
      <3> QED  BY <2>1, <3>1, <3>2
    <2>3. request'[r] = x
      BY <1>1
    <2> QED  BY <2>2, <2>3
  <1>7. \A c \in DOMAIN pending' : pending'[c].memory \in 1 .. created'
    OBVIOUS
  <1> QED  BY <1>3, <1>4, <1>5, <1>6, <1>7 DEF Types, Holders

LEMMA TypesInit == Init => Types
  <1> SUFFICES ASSUME Init PROVE Types
    OBVIOUS
  <1>1. StoreTypes
    <2>1. memories \in [MemoryId -> Object] /\ disk \in [Session -> File]
      <3>1. Fresh \in Object
        BY SomeTypes, AgentAssumption
      <3>2. memories = [m \in MemoryId |-> Fresh] /\ disk = [s \in Session |-> NoFile]
        BY DEF Init
      <3> QED  BY <3>1, <3>2, SomeTypes
    <2>2. Unused \in 0 .. Unused /\ 0 \in 0 .. MaxMemories
      BY Numbers
    <2> QED  BY <2>1, <2>2 DEF Init, StoreTypes
  <1>2. DOMAIN pending = {}
    BY DEF Init
  <1>3. CallTypes
    BY <1>2, Numbers DEF Init, CallTypes
  <1>4. RequestTypes
    BY SomeTypes DEF Init, RequestTypes
  <1>5. Holders
    BY <1>2 DEF Init, Holders, Rest
  <1> QED  BY <1>1, <1>3, <1>4, <1>5, TypesAre DEF Types

(* A count of one thing more.                                              *)
LEMMA OneMore ==
    ASSUME NEW D, NEW f \in [D -> Nat], NEW k \in D
    PROVE  /\ [f EXCEPT ![k] = f[k] + 1] \in [D -> Nat]
           /\ [f EXCEPT ![k] = f[k] + 1][k] = f[k] + 1
           /\ \A j \in D : j # k => [f EXCEPT ![k] = f[k] + 1][j] = f[j]
  <1>1. f[k] + 1 \in Nat
    OBVIOUS
  <1> QED  BY <1>1

LEMMA TypesStep == Types /\ [Next]_vars => Types'
  <1> SUFFICES ASSUME Types, [Next]_vars PROVE Types'
    OBVIOUS
  <1>0. StoreTypes /\ CallTypes /\ RequestTypes /\ Holders
        /\ request \in [Request -> State] /\ issued \in Nat /\ issued >= issued
    BY TypesAre DEF Types, RequestTypes, CallTypes
  <1>1. CASE UNCHANGED vars
    BY <1>1 DEF vars, Types, TypeOK, Holders
  <1>2. ASSUME NEW r \in Request, NEW s \in Session, Chat(r, s) PROVE Types'
    BY <1>2, ChatTypes
  <1>3. ASSUME NEW r \in Request, Retrieved(r) \/ PollGivesUp(r) PROVE Types'
    <2>1. UNCHANGED <<store, calls, task>> /\ request[r].pc \in {"retrieve", "poll"}
      BY <1>3 DEF Retrieved, PollGivesUp
    <2>2. PICK next \in {"model", "submit", "answer", "cancel"} :
             request' = [request EXCEPT ![r].pc = next]
      BY <1>3 DEF Retrieved, PollGivesUp
    <2>3. [request[r] EXCEPT !.pc = next] \in State
      BY <1>0 DEF State, Pc
    <2>4. request' = [request EXCEPT ![r] = [request[r] EXCEPT !.pc = next]]
      BY <2>2
    <2>5. StoreTypes' /\ CallTypes'
      BY <1>0, <2>1 DEF StoreTypes, CallTypes, store, calls
    <2>6. [request[r] EXCEPT !.pc = next].memory \in 1 .. created
          /\ [request[r] EXCEPT !.pc = next].pc # "tool"
      BY <1>0, <2>1 DEF Holders, State
    <2> QED
      BY <1>0, <2>1, <2>3, <2>4, <2>5, <2>6, HandlerTypes DEF Holders, store, calls, RequestTypes
  <1>4. ASSUME NEW r \in Request, TaskEnds(r) PROVE Types'
    <2>1. UNCHANGED <<store, calls, request>>
      BY <1>4 DEF TaskEnds
    <2>2. RequestTypes'
      BY <1>0, <1>4 DEF TaskEnds, RequestTypes
    <2>3. StoreTypes' /\ CallTypes' /\ Holders'
      BY <1>0, <2>1 DEF StoreTypes, CallTypes, Holders, store, calls
    <2> QED  BY <2>2, <2>3, TypesAre DEF Types
  <1>5. ASSUME NEW r \in Request, Submit(r) \/ PollEnds(r) \/ CancelTask(r) \/ ModelAnswers(r)
        PROVE  Types'
    <2>1. /\ UNCHANGED <<current, idle, created, erased, calls>>
          /\ request[r].pc \in {"submit", "poll", "cancel", "model", "answer"}
      BY <1>5 DEF Submit, PollEnds, CancelTask, ModelAnswers
    <2>2. task' \in [Request -> {"none", "running", "ended"}]
      BY <1>0, <1>5 DEF Submit, PollEnds, CancelTask, ModelAnswers, RequestTypes
    <2>3. \/ \E ms \in {<<Text(request[r].memory)>>, <<>>} : Ends(r, ms)
          \/ /\ UNCHANGED <<memories, disk>>
             /\ \E next \in {"poll", "answer"} : request' = [request EXCEPT ![r].pc = next]
      BY <1>5 DEF Submit, PollEnds, CancelTask, ModelAnswers
    <2>4. CallTypes'
      BY <1>0, <2>1 DEF CallTypes, calls
    <2>5. CASE \E ms \in {<<Text(request[r].memory)>>, <<>>} : Ends(r, ms)
      <3>1. request[r].memory \in MemoryId
        BY <1>0, <2>1, Numbers DEF Holders, StoreTypes
      <3>2. PICK ms \in {<<Text(request[r].memory)>>, <<>>} : Ends(r, ms)
        BY <2>5
      <3>3. ms \in Seq(Message)
        BY <3>1, Messages
      <3>4. /\ memories' \in [MemoryId -> Object] /\ disk' \in [Session -> File]
            /\ request' = [request EXCEPT ![r] = Rest]
        BY <2>1, <3>2, <3>3, EndsTypes
      <3>5. StoreTypes'
        BY <1>0, <2>1, <3>4 DEF StoreTypes
      <3>6. Rest \in State /\ Rest.pc = "idle"
        BY SomeTypes DEF Rest
      <3> QED  BY <1>0, <2>1, <2>2, <2>4, <3>4, <3>5, <3>6, HandlerTypes DEF Holders, calls
    <2>6. ASSUME UNCHANGED <<memories, disk>>,
                 NEW next \in {"poll", "answer"}, request' = [request EXCEPT ![r].pc = next]
          PROVE  Types'
      <3>1. [request[r] EXCEPT !.pc = next] \in State
        BY <1>0 DEF State, Pc
      <3>2. request' = [request EXCEPT ![r] = [request[r] EXCEPT !.pc = next]]
        BY <2>6
      <3>3. StoreTypes'
        BY <1>0, <2>1, <2>6 DEF StoreTypes
      <3>4. [request[r] EXCEPT !.pc = next].memory \in 1 .. created
            /\ [request[r] EXCEPT !.pc = next].pc # "tool"
        BY <1>0, <2>1 DEF Holders, State
      <3> QED  BY <1>0, <2>1, <2>2, <2>4, <3>1, <3>2, <3>3, <3>4, HandlerTypes DEF Holders, calls
    <2> QED  BY <2>3, <2>5, <2>6
  <1>6. ASSUME NEW r \in Request, ModelCalls(r) PROVE Types'
    <2> DEFINE c == issued + 1
               m == request[r].memory
               entry == [memory |-> m, iteration |-> request[r].iteration, age |-> 0]
    <2>1. /\ request[r].pc = "model" /\ c \in CallId /\ issued' = c
          /\ pending' = [d \in DOMAIN pending \cup {c} |-> IF d = c THEN entry ELSE pending[d]]
          /\ Ends(r, <<Call(m, c)>>)
          /\ UNCHANGED <<current, idle, created, erased, ran, rejected, task>>
      BY <1>6 DEF ModelCalls
    <2>2. m \in 1 .. created /\ m \in MemoryId
      BY <1>0, <2>1, Numbers DEF Holders, StoreTypes
    <2>3. <<Call(m, c)>> \in Seq(Message)
      BY <2>1, <2>2, Messages
    <2>4. /\ memories' \in [MemoryId -> Object] /\ disk' \in [Session -> File]
          /\ request' = [request EXCEPT ![r] = Rest]
      BY <2>1, <2>3, EndsTypes
    <2>5. StoreTypes'
      BY <1>0, <2>1, <2>4 DEF StoreTypes
    <2>6. entry \in Entry
      BY <1>0, <2>2, Numbers DEF Entry, State
    <2>7. issued' \in 0 .. MaxCalls /\ issued' >= issued /\ c \in 1 .. issued'
          /\ 1 .. issued \subseteq 1 .. issued'
      BY <1>0, <2>1, Numbers
    <2> HIDE DEF c, m, entry
    <2>8. CallTypes'
      BY <1>0, <2>1, <2>6, <2>7 DEF CallTypes
    <2>9. \A d \in DOMAIN pending' : pending'[d].memory \in 1 .. created
      <3>1. entry.memory = m
        BY DEF entry
      <3> QED  BY <1>0, <2>1, <2>2, <3>1 DEF Holders
    <2>10. Rest \in State /\ Rest.pc = "idle"
      BY SomeTypes DEF Rest
    <2> QED  BY <1>0, <2>1, <2>4, <2>5, <2>7, <2>8, <2>9, <2>10, HandlerTypes DEF RequestTypes
  <1>7. ASSUME NEW r \in Request, RunTool(r) PROVE Types'
    <2> DEFINE m == request[r].memory
               c == request[r].call
               k == request[r].tool
    <2>1. /\ request[r].pc = "tool" /\ ran' = [ran EXCEPT ![c][k] = @ + 1]
          /\ Add(m, memories[m], <<Result(m, c, k)>>)
          /\ IF k < NumTools THEN request' = [request EXCEPT ![r].tool = k + 1]
             ELSE Continue(r, m, request[r].iteration)
          /\ UNCHANGED <<current, idle, created, pending, issued, rejected, task, erased>>
      BY <1>7 DEF RunTool
    <2>2. m \in 1 .. created /\ m \in MemoryId /\ c \in 1 .. issued /\ c \in CallId /\ k \in 1 .. NumTools
      BY <1>0, <2>1, Numbers DEF Holders, StoreTypes, CallTypes
    <2>3. <<Result(m, c, k)>> \in Seq(Message)
      BY <2>2, Messages
    <2>4. memories' \in [MemoryId -> Object] /\ disk' \in [Session -> File]
      BY <1>0, <2>1, <2>2, <2>3, AddTypes DEF StoreTypes
    <2>5. StoreTypes'
      BY <1>0, <2>1, <2>4 DEF StoreTypes
    <2>6. CallTypes'
      <3>1. ran \in [CallId -> [1 .. NumTools -> Nat]] /\ ran[c] \in [1 .. NumTools -> Nat]
        BY <1>0, <2>2 DEF CallTypes
      <3>2. ran[c][k] \in Nat
        BY <2>2, <3>1
      <3>3. [ran[c] EXCEPT ![k] = ran[c][k] + 1] \in [1 .. NumTools -> Nat]
        <4> HIDE DEF c, k
        <4> QED  BY <2>2, <3>1, OneMore
      <3>4. ran' = [ran EXCEPT ![c] = [ran[c] EXCEPT ![k] = ran[c][k] + 1]]
        BY <2>1
      <3>5. ran' \in [CallId -> [1 .. NumTools -> Nat]]
        BY <3>1, <3>3, <3>4
      <3> QED  BY <1>0, <2>1, <3>5 DEF CallTypes
    <2>7. PICK x \in State : /\ request' = [request EXCEPT ![r] = x]
                             /\ x.pc # "idle" => x.memory \in 1 .. created
                             /\ x.pc = "tool" => x.call \in 1 .. issued' /\ x.tool \in 1 .. NumTools
      <3>1. CASE k < NumTools
        <4>0. k + 1 \in 1 .. NumTools /\ k + 1 \in 0 .. NumTools
          BY <2>2, <3>1, Numbers
        <4>1. [request[r] EXCEPT !.tool = k + 1] \in State
          <5> HIDE DEF k
          <5> QED  BY <1>0, <4>0 DEF State
        <4>2. request' = [request EXCEPT ![r] = [request[r] EXCEPT !.tool = k + 1]]
          BY <2>1, <3>1
        <4>3. /\ [request[r] EXCEPT !.tool = k + 1].memory \in 1 .. created
              /\ [request[r] EXCEPT !.tool = k + 1].call \in 1 .. issued
              /\ [request[r] EXCEPT !.tool = k + 1].tool \in 1 .. NumTools
          <5> HIDE DEF k
          <5> QED  BY <1>0, <2>2, <4>0 DEF State
        <4> QED  BY <2>1, <4>1, <4>2, <4>3
      <3>2. CASE ~(k < NumTools)
        <4>1. request[r].iteration \in Nat
          BY <1>0 DEF State
        <4>2. Continue(r, m, request[r].iteration)
          BY <2>1, <3>2
        <4>3. PICK x \in State : /\ request' = [request EXCEPT ![r] = x]
                                 /\ x.pc \in {"idle", "retrieve"} /\ (x.pc # "idle" => x.memory = m)
          BY <1>0, <2>2, <4>1, <4>2, ContinueTypes
        <4> QED  BY <2>2, <4>3
      <3> QED  BY <3>1, <3>2
    <2> QED
      <3>1. task' \in [Request -> {"none", "running", "ended"}] /\ issued' >= issued
            /\ UNCHANGED <<current, created>>
            /\ \A d \in DOMAIN pending' : pending'[d].memory \in 1 .. created
        BY <1>0, <2>1 DEF Holders, RequestTypes
      <3> QED  BY <2>5, <2>6, <2>7, <3>1, HandlerTypes
  <1>8. ASSUME NEW r \in Request, NEW c \in CallId, NEW s \in Session, Approve(r, c, s)
        PROVE  Types'
    <2> DEFINE x == [pc |-> "tool", memory |-> pending[c].memory,
                     iteration |-> pending[c].iteration, call |-> c, tool |-> 1]
    <2>1. /\ c \in DOMAIN pending /\ Take(c) /\ Used(s)
          /\ request' = [request EXCEPT ![r] = x]
          /\ UNCHANGED <<current, memories, created, disk, issued, ran, rejected, task, erased>>
      BY <1>8 DEF Approve, Owner
    <2>2. pending[c] \in Entry /\ pending[c].memory \in 1 .. created /\ c \in 1 .. issued
      BY <1>0, <2>1 DEF CallTypes, Holders
    <2>3. x \in State
      BY <2>2, Numbers DEF State, Entry, Pc
    <2>4. DOMAIN pending' \subseteq DOMAIN pending /\ \A d \in DOMAIN pending' : pending'[d] = pending[d]
      BY <2>1 DEF Take
    <2>5. CallTypes'
      BY <1>0, <2>1, <2>4 DEF CallTypes
    <2>6. StoreTypes'
      <3>1. idle' \in [Session -> 0 .. Unused]
        BY <1>0, <2>1, Numbers DEF Used, StoreTypes
      <3> QED  BY <1>0, <2>1, <3>1 DEF StoreTypes
    <2>7. /\ x.memory \in 1 .. created /\ x.call \in 1 .. issued' /\ x.tool \in 1 .. NumTools
          /\ \A d \in DOMAIN pending' : pending'[d].memory \in 1 .. created
      BY <1>0, <2>1, <2>2, <2>4, Numbers DEF Holders
    <2>8. UNCHANGED <<current, created>> /\ issued' >= issued
          /\ task' \in [Request -> {"none", "running", "ended"}]
      BY <1>0, <2>1 DEF RequestTypes
    <2> HIDE DEF x
    <2> QED  BY <2>1, <2>3, <2>5, <2>6, <2>7, <2>8, HandlerTypes
  <1>9. ASSUME NEW r \in Request, NEW c \in CallId, NEW s \in Session, Reject(r, c, s)
        PROVE  Types'
    <2> DEFINE m  == pending[c].memory
               ms == [k \in 1 .. NumTools |-> Result(m, c, k)]
    <2>1. /\ c \in DOMAIN pending /\ Take(c) /\ Used(s)
          /\ Add(m, memories[m], ms)
          /\ Continue(r, m, pending[c].iteration)
          /\ rejected' = rejected \cup {c}
          /\ UNCHANGED <<current, created, issued, ran, task, erased>>
      BY <1>9 DEF Reject, Owner
    <2>2. m \in 1 .. created /\ m \in MemoryId /\ pending[c].iteration \in Nat
      BY <1>0, <2>1, Numbers DEF CallTypes, Holders, Entry
    <2>3. ms \in Seq(Message)
      BY <2>2, Messages
    <2> HIDE DEF ms
    <2>4. memories' \in [MemoryId -> Object] /\ disk' \in [Session -> File]
      BY <1>0, <2>1, <2>2, <2>3, AddTypes DEF StoreTypes
    <2>5. DOMAIN pending' \subseteq DOMAIN pending /\ \A d \in DOMAIN pending' : pending'[d] = pending[d]
      BY <2>1 DEF Take
    <2>6. CallTypes'
      <3>1. c \in 1 .. issued
        BY <1>0, <2>1 DEF CallTypes
      <3> QED  BY <1>0, <2>1, <2>5, <3>1 DEF CallTypes
    <2>7. StoreTypes'
      <3>1. idle' \in [Session -> 0 .. Unused]
        BY <1>0, <2>1, Numbers DEF Used, StoreTypes
      <3> QED  BY <1>0, <2>1, <2>4, <3>1 DEF StoreTypes
    <2>8. PICK x \in State : /\ request' = [request EXCEPT ![r] = x]
                             /\ x.pc \in {"idle", "retrieve"} /\ (x.pc # "idle" => x.memory = m)
      BY <1>0, <2>1, <2>2, ContinueTypes
    <2>9. UNCHANGED <<current, created>> /\ issued' >= issued
          /\ task' \in [Request -> {"none", "running", "ended"}]
          /\ \A d \in DOMAIN pending' : pending'[d].memory \in 1 .. created
      BY <1>0, <2>1, <2>5 DEF RequestTypes, Holders
    <2> QED  BY <2>2, <2>6, <2>7, <2>8, <2>9, HandlerTypes
  <1>10. ASSUME NEW S, NEW old, NEW T, NEW failed, Forget(S, old), Unlink(disk, T, failed),
                UNCHANGED <<created, issued, ran, rejected, request, task>>
         PROVE  Types'
    <2>1. /\ memories' \in [MemoryId -> Object]
          /\ current' \in [Session -> MemoryId \cup {None}] /\ idle' \in [Session -> 0 .. Unused]
          /\ DOMAIN pending' \subseteq DOMAIN pending
          /\ \A c \in DOMAIN pending' : pending'[c] = pending[c]
      BY <1>0, <1>10, ForgetTypes
    <2>2. disk' \in [Session -> File] /\ erased' \subseteq MemoryId
      BY <1>0, <1>10, UnlinkTypes DEF StoreTypes
    <2>3. StoreTypes' /\ CallTypes' /\ RequestTypes'
      BY <1>0, <1>10, <2>1, <2>2 DEF StoreTypes, CallTypes, RequestTypes
    <2>4. \A s \in Session : current'[s] # None => current'[s] \in 1 .. created
      BY <1>0, <1>10 DEF Forget, Holders
    <2>5. Holders'
      BY <1>0, <1>10, <2>1, <2>4 DEF Holders
    <2> QED  BY <2>3, <2>5, TypesAre DEF Types
  <1>11. ASSUME NEW failed, NEW s \in Session, Delete(s, failed) PROVE Types'
    BY <1>10, <1>11 DEF Delete
  <1>12. ASSUME NEW failed, Cleanup(failed) PROVE Types'
    BY <1>10, <1>12 DEF Cleanup
  <1>13. ASSUME NEW failed, NEW torn \in SUBSET Session, Restart(torn, failed) PROVE Types'
    <2> DEFINE files == [s \in Session |-> IF s \in torn THEN [disk[s] EXCEPT !.text = <<>>] ELSE disk[s]]
    <2>1. /\ memories' = [m \in MemoryId |-> IF m <= created THEN Drop(m) ELSE memories[m]]
          /\ current' = [s \in Session |-> None] /\ idle' = [s \in Session |-> Unused]
          /\ pending' = <<>>
          /\ request' = [r \in Request |-> Rest] /\ task' = [r \in Request |-> "none"]
          /\ Unlink(files, Orphans(files, {}), failed)
          /\ UNCHANGED <<created, issued, ran, rejected>>
      BY <1>13 DEF Restart
    <2>2. files \in [Session -> File]
      BY <1>0, EmptySeq DEF StoreTypes, File
    <2>3. disk' \in [Session -> File] /\ erased' \subseteq MemoryId
      <3> HIDE DEF files
      <3> QED  BY <1>0, <2>1, <2>2, UnlinkTypes DEF StoreTypes
    <2>4. memories' \in [MemoryId -> Object]
      BY <1>0, <2>1, DropTypes DEF StoreTypes
    <2>5. Unused \in 0 .. Unused /\ DOMAIN pending' = {}
      BY <2>1, Numbers
    <2>6. StoreTypes' /\ CallTypes'
      BY <1>0, <2>1, <2>3, <2>4, <2>5 DEF StoreTypes, CallTypes
    <2>7. RequestTypes'
      BY <2>1, SomeTypes DEF RequestTypes
    <2>8. Holders'
      BY <2>1, <2>5 DEF Holders, Rest
    <2> QED  BY <2>6, <2>7, <2>8, TypesAre DEF Types
  <1>14. CASE Tick
    <2>1. UNCHANGED <<current, memories, created, issued, request, task, ran, rejected, erased>>
      BY <1>14 DEF Tick
    <2>2. \A a \in 0 .. Unused : Older(a, SessionTtl + 1) \in 0 .. Unused
      BY Numbers DEF Older
    <2>3. \A a \in 0 .. SessionTtl + 1 : Older(a, SessionTtl + 1) \in 0 .. SessionTtl + 1
      BY Numbers DEF Older
    <2>4. \A a \in 0 .. PendingTtl + 1 : Older(a, PendingTtl + 1) \in 0 .. PendingTtl + 1
      BY Numbers DEF Older
    <2>5. idle' \in [Session -> 0 .. Unused]
      BY <1>0, <1>14, <2>2 DEF Tick, StoreTypes
    <2>6. disk' \in [Session -> File]
      BY <1>0, <1>14, <2>3 DEF Tick, StoreTypes, File
    <2>7. StoreTypes'
      BY <1>0, <2>1, <2>5, <2>6 DEF StoreTypes
    <2>8. DOMAIN pending' = DOMAIN pending
          /\ \A c \in DOMAIN pending : pending'[c] \in Entry /\ pending'[c].memory = pending[c].memory
      <3>1. pending' = [c \in DOMAIN pending |->
                          [pending[c] EXCEPT !.age = Older(pending[c].age, PendingTtl + 1)]]
        BY <1>14 DEF Tick
      <3> QED  BY <1>0, <2>4, <3>1 DEF CallTypes, Entry
    <2>9. CallTypes' /\ RequestTypes' /\ Holders'
      BY <1>0, <2>1, <2>8 DEF CallTypes, RequestTypes, Holders
    <2> QED  BY <2>7, <2>9, TypesAre DEF Types
  <1> QED
    BY <1>1, <1>2, <1>3, <1>4, <1>5, <1>6, <1>7, <1>8, <1>9, <1>11, <1>12, <1>13, <1>14, NextCases

LEMMA TypesAlways == Spec => []Types
  BY TypesInit, TypesStep, PTL DEF Spec

(* Handlers, sessions, Memory objects, files and calls keep their types:   *)
(* no handler acts for an object that does not exist, and none for a call  *)
(* that was never issued.                                                  *)
THEOREM TypeCorrect == Spec => []TypeOK
  <1>1. Types => TypeOK
    BY DEF Types
  <1> QED  BY <1>1, TypesAlways, PTL

-----------------------------------------------------------------------------
(* What has been deleted stays deleted.                                    *)

(* The session of an object knows it until it is deleted.                  *)
Known ==
    /\ \A s \in Session : current[s] # None => /\ memories[current[s]].session = s
                                               /\ ~memories[current[s]].deleted
    /\ \A m \in 1 .. created : ~memories[m].deleted => current[memories[m].session] = m

(* A deleted object, and one that does not exist yet, holds no text.       *)
Emptied ==
    /\ \A m \in MemoryId : memories[m].deleted => m <= created
    /\ \A m \in MemoryId : memories[m].deleted \/ m > created => memories[m].text = <<>>
    /\ \A m \in erased : m <= created /\ memories[m].deleted

WriterOf(message, s) == /\ message.by \in 1 .. created /\ message.by \notin erased
                        /\ memories[message.by].session = s

(* A transcript was written by objects of its session, none of them erased. *)
Written ==
    /\ \A s \in Session : \A i \in DOMAIN disk[s].text :
          WriterOf(disk[s].text[i], s)
    /\ \A m \in MemoryId : \A i \in DOMAIN memories[m].text :
          WriterOf(memories[m].text[i], memories[m].session)

Erasure == Types /\ Known /\ Emptied /\ Written

(* A step leaves the transcripts alone, adds messages of one object to it, *)
(* begins a chat, deletes sessions none of which has an object afterwards, *)
(* or is a restart.                                                        *)
Leaves == UNCHANGED <<current, memories, created, erased>>
          /\ \A s \in Session : disk'[s].text = disk[s].text /\ disk'[s].there = disk[s].there

Adds(m, ms) == /\ \A i \in DOMAIN ms : ms[i].by = m
               /\ Add(m, memories[m], ms)
               /\ UNCHANGED <<current, created, erased>>

Deletes(S, old, T, failed) ==
    /\ S \subseteq T /\ \A s \in T : s \in S \/ current[s] = None
    /\ T \subseteq Session
    /\ Forget(S, old) /\ Unlink(disk, T, failed) /\ UNCHANGED created

(* Neither a call nor a result.                                            *)
Plain(ms) == \A i \in DOMAIN ms : ms[i].kind # "tool" /\ ms[i].call = None

LEMMA WrittenBy ==
    ASSUME NEW m \in MemoryId
    PROVE  /\ \A i \in DOMAIN <<Text(m)>> : <<Text(m)>>[i].by = m
           /\ \A i \in DOMAIN <<>> : <<>>[i].by = m
           /\ Plain(<<Text(m)>>) /\ Plain(<<>>)
           /\ \A c \in CallId : \A i \in DOMAIN <<Call(m, c)>> : <<Call(m, c)>>[i].by = m
           /\ \A c \in CallId, k \in 1 .. NumTools : \A i \in DOMAIN <<Result(m, c, k)>> : <<Result(m, c, k)>>[i].by = m
           /\ \A c \in CallId : \A i \in DOMAIN [k \in 1 .. NumTools |-> Result(m, c, k)] :
                 [k \in 1 .. NumTools |-> Result(m, c, k)][i].by = m
  BY DEF Text, Call, Result, Plain

LEMMA CallAdds ==
    ASSUME Types, NEW r \in Request, ModelCalls(r)
    PROVE  LET m == request[r].memory
               c == issued + 1
           IN  /\ m \in 1 .. created /\ m \in MemoryId /\ c \in CallId
               /\ <<Call(m, c)>> \in Seq(Message) /\ Adds(m, <<Call(m, c)>>)
  <1> DEFINE m == request[r].memory
             c == issued + 1
  <1>1. /\ request[r].pc # "idle" /\ c \in CallId /\ UNCHANGED <<current, created, erased>>
        /\ Add(m, memories[m], <<Call(m, c)>>)
    BY DEF ModelCalls, Ends
  <1>2. m \in 1 .. created /\ m \in MemoryId
    BY <1>1, TypesAre, Numbers DEF Types, Holders, StoreTypes
  <1>3. <<Call(m, c)>> \in Seq(Message)
    BY <1>1, <1>2, Messages
  <1>4. \A i \in DOMAIN <<Call(m, c)>> : <<Call(m, c)>>[i].by = m
    BY <1>1, <1>2, WrittenBy
  <1>5. Adds(m, <<Call(m, c)>>)
    BY <1>1, <1>4 DEF Adds
  <1> QED  BY <1>1, <1>2, <1>3, <1>5

LEMMA ToolAdds ==
    ASSUME Types, NEW r \in Request, RunTool(r)
    PROVE  LET m == request[r].memory
               c == request[r].call
               k == request[r].tool
           IN  /\ m \in 1 .. created /\ m \in MemoryId /\ c \in CallId /\ c <= issued
               /\ k \in 1 .. NumTools
               /\ <<Result(m, c, k)>> \in Seq(Message) /\ Adds(m, <<Result(m, c, k)>>)
  <1> DEFINE m == request[r].memory
             c == request[r].call
             k == request[r].tool
  <1>1. /\ request[r].pc = "tool" /\ UNCHANGED <<current, created, erased>>
        /\ Add(m, memories[m], <<Result(m, c, k)>>)
    BY DEF RunTool
  <1>2. m \in 1 .. created /\ c \in 1 .. issued /\ k \in 1 .. NumTools
    BY <1>1 DEF Types, Holders
  <1>3. m \in MemoryId /\ c \in CallId /\ c <= issued
    BY <1>2, TypesAre, Numbers DEF Types, StoreTypes, CallTypes
  <1>4. <<Result(m, c, k)>> \in Seq(Message)
    BY <1>2, <1>3, Messages
  <1>5. \A i \in DOMAIN <<Result(m, c, k)>> : <<Result(m, c, k)>>[i].by = m
    BY DEF Result
  <1>6. Adds(m, <<Result(m, c, k)>>)
    BY <1>1, <1>5 DEF Adds
  <1> QED  BY <1>2, <1>3, <1>4, <1>6

LEMMA RejectAdds ==
    ASSUME Types, NEW r \in Request, NEW c \in CallId, NEW s \in Session, Reject(r, c, s)
    PROVE  LET m  == pending[c].memory
               ms == [k \in 1 .. NumTools |-> Result(m, c, k)]
           IN  /\ c \in DOMAIN pending /\ m \in 1 .. created /\ m \in MemoryId
               /\ ms \in Seq(Message) /\ Adds(m, ms)
  <1> DEFINE m  == pending[c].memory
             ms == [k \in 1 .. NumTools |-> Result(m, c, k)]
  <1>1. c \in DOMAIN pending /\ Add(m, memories[m], ms) /\ UNCHANGED <<current, created, erased>>
    BY DEF Reject, Owner
  <1>2. m \in 1 .. created /\ m \in MemoryId
    BY <1>1, TypesAre, Numbers DEF Types, Holders, StoreTypes
  <1>3. ms \in Seq(Message) /\ \A i \in DOMAIN ms : ms[i].by = m
    <2>1. m \in MemoryId
      BY <1>2
    <2> HIDE DEF m
    <2> QED  BY <2>1, Messages, WrittenBy
  <1> HIDE DEF ms
  <1>4. Adds(m, ms)
    BY <1>1, <1>3 DEF Adds
  <1> QED  BY <1>1, <1>2, <1>3, <1>4 DEF ms

LEMMA StoreSteps ==
    ASSUME Types, Next
    PROVE  \/ Leaves
           \/ \E m \in 1 .. created, ms \in Seq(Message) : Adds(m, ms) /\ Plain(ms)
           \/ \E r \in Request : ModelCalls(r) \/ RunTool(r)
           \/ \E r \in Request, c \in CallId, s \in Session : Reject(r, c, s)
           \/ \E r \in Request, s \in Session : Chat(r, s)
           \/ \E S, old, T, failed : Deletes(S, old, T, failed)
           \/ \E failed : \E torn \in SUBSET Session : Restart(torn, failed)
  <1> DEFINE Some == \E m \in 1 .. created, ms \in Seq(Message) : Adds(m, ms) /\ Plain(ms)
  <1>0. StoreTypes /\ CallTypes /\ Holders /\ \A m \in 1 .. created : m \in MemoryId
    BY TypesAre, Numbers DEF Types, StoreTypes
  <1>1. ASSUME NEW r \in Request, request[r].pc # "idle", NEW ms \in Seq(Message),
               \A i \in DOMAIN ms : ms[i].by = request[r].memory, Plain(ms),
               Add(request[r].memory, memories[request[r].memory], ms),
               UNCHANGED <<current, created, erased>>
        PROVE  Some
    <2>1. request[r].memory \in 1 .. created
      BY <1>0, <1>1 DEF Holders
    <2>2. Adds(request[r].memory, ms)
      BY <1>1 DEF Adds
    <2> QED  BY <1>1, <2>1, <2>2
  <1>2. ASSUME NEW r \in Request, request[r].pc # "idle"
        PROVE  /\ request[r].memory \in 1 .. created /\ request[r].memory \in MemoryId
               /\ (/\ (Ends(r, <<Text(request[r].memory)>>) \/ Ends(r, <<>>))
                   /\ UNCHANGED <<current, created, erased>>) => Some
    <2>1. request[r].memory \in 1 .. created /\ request[r].memory \in MemoryId
      BY <1>0, <1>2 DEF Holders
    <2>2. ASSUME Ends(r, <<Text(request[r].memory)>>), UNCHANGED <<current, created, erased>>
          PROVE  Some
      BY <1>1, <1>2, <2>1, <2>2, WrittenBy, Messages DEF Ends
    <2>3. ASSUME Ends(r, <<>>), UNCHANGED <<current, created, erased>>
          PROVE  Some
      BY <1>1, <1>2, <2>1, <2>3, WrittenBy, Messages DEF Ends
    <2> QED  BY <2>1, <2>2, <2>3
  <1>3. ASSUME NEW r \in Request, Retrieved(r) \/ PollGivesUp(r) \/ TaskEnds(r) PROVE Leaves
    BY <1>3 DEF Retrieved, PollGivesUp, TaskEnds, Leaves, store
  <1>4. ASSUME NEW r \in Request, Submit(r) PROVE Some \/ Leaves
    <2>1. request[r].pc # "idle" /\ UNCHANGED <<current, created, erased>>
      BY <1>4 DEF Submit
    <2>2. CASE Ends(r, <<Text(request[r].memory)>>)
      BY <2>1, <2>2, <1>2
    <2>3. CASE UNCHANGED <<memories, disk>>
      BY <2>1, <2>3 DEF Leaves
    <2> QED  BY <1>4, <2>2, <2>3 DEF Submit
  <1>5. ASSUME NEW r \in Request, PollEnds(r) PROVE Some \/ Leaves
    <2>1. request[r].pc # "idle" /\ UNCHANGED <<current, created, erased>>
      BY <1>5 DEF PollEnds
    <2>2. CASE Ends(r, <<Text(request[r].memory)>>)
      BY <2>1, <2>2, <1>2
    <2>3. CASE UNCHANGED <<memories, disk>>
      BY <2>1, <2>3 DEF Leaves
    <2> QED  BY <1>5, <2>2, <2>3 DEF PollEnds
  <1>6. ASSUME NEW r \in Request, CancelTask(r) \/ ModelAnswers(r) PROVE Some
    <2>1. request[r].pc # "idle" /\ UNCHANGED <<current, created, erased>>
          /\ (Ends(r, <<Text(request[r].memory)>>) \/ Ends(r, <<>>))
      BY <1>6 DEF CancelTask, ModelAnswers
    <2> QED  BY <2>1, <1>2
  <1>9. ASSUME NEW r \in Request, NEW c \in CallId, NEW s \in Session, Approve(r, c, s)
        PROVE  Leaves
    BY <1>9 DEF Approve, Leaves
  <1>11. ASSUME NEW failed, NEW s \in Session, Delete(s, failed)
         PROVE  Deletes({s}, {}, {s}, failed)
    BY <1>11 DEF Delete, Deletes
  <1>12. ASSUME NEW failed, Cleanup(failed)
         PROVE  Deletes(Expired, Old, Expired \cup Orphans(disk, Active \ Expired), failed)
    <2>1. Expired \subseteq Session /\ Orphans(disk, Active \ Expired) \subseteq Session
      BY AgentAssumption DEF Expired, Orphans
    <2>2. \A s \in Orphans(disk, Active \ Expired) : s \in Expired \/ current[s] = None
      BY <2>1 DEF Orphans, Active
    <2> QED  BY <1>12, <2>1, <2>2 DEF Cleanup, Deletes
  <1>13. CASE Tick
    <2>1. \A s \in Session : disk'[s].text = disk[s].text /\ disk'[s].there = disk[s].there
      BY <1>0, <1>13 DEF Tick, StoreTypes, File
    <2> QED  BY <1>13, <2>1 DEF Tick, Leaves
  <1> HIDE DEF Some
  <1>14. CASE \E r \in Request, s \in Session : Chat(r, s)
    BY <1>14
  <1>15. CASE \E r \in Request, s \in Session, c \in CallId : Approve(r, c, s)
    BY <1>15, <1>9
  <1>16. CASE \E r \in Request : \/ Retrieved(r) \/ Submit(r) \/ TaskEnds(r) \/ PollEnds(r)
                                  \/ PollGivesUp(r) \/ CancelTask(r) \/ ModelAnswers(r)
    <2>1. Some \/ Leaves
      BY <1>16, <1>3, <1>4, <1>5, <1>6
    <2> QED  BY <2>1 DEF Some
  <1>17. CASE \E failed : \/ Cleanup(failed) \/ \E s \in Session : Delete(s, failed)
                          \/ \E torn \in SUBSET Session : Restart(torn, failed)
    BY <1>17, <1>11, <1>12
  <1> QED  BY <1>13, <1>14, <1>15, <1>16, <1>17, NextCases

(* The messages of a text that grew are those it had and those it got.     *)
LEMMA TextGrows ==
    ASSUME NEW t \in Seq(Message), NEW ms \in Seq(Message), NEW n \in 0 .. Len(ms)
    PROVE  /\ \A i \in DOMAIN Trim(t \o SubSeq(ms, 1, n)) :
                 \/ \E j \in DOMAIN t : Trim(t \o SubSeq(ms, 1, n))[i] = t[j]
                 \/ \E j \in DOMAIN ms : Trim(t \o SubSeq(ms, 1, n))[i] = ms[j]
           /\ \A i \in DOMAIN Trim(t \o ms) :
                 \/ \E j \in DOMAIN t : Trim(t \o ms)[i] = t[j]
                 \/ \E j \in DOMAIN ms : Trim(t \o ms)[i] = ms[j]
  <1>1. ASSUME NEW k \in 0 .. Len(ms), NEW u \in Seq(Message), u = t \o SubSeq(ms, 1, k)
        PROVE  \A i \in DOMAIN Trim(u) : \/ \E j \in DOMAIN t : Trim(u)[i] = t[j]
                                         \/ \E j \in DOMAIN ms : Trim(u)[i] = ms[j]
    <2>1. /\ Len(u) = Len(t) + k /\ Len(t) \in Nat /\ k \in Nat /\ k <= Len(ms)
          /\ \A i \in 1 .. Len(t) : u[i] = t[i]
          /\ \A i \in 1 .. k : u[Len(t) + i] = ms[i]
      BY <1>1, GrownText, LenProperties
    <2>2. /\ DOMAIN t = 1 .. Len(t) /\ DOMAIN ms = 1 .. Len(ms) /\ Len(ms) \in Nat
          /\ DOMAIN u = 1 .. Len(u)
      BY LenProperties
    <2>3. ASSUME NEW i \in DOMAIN u
          PROVE  (\E j \in DOMAIN t : u[i] = t[j]) \/ (\E j \in DOMAIN ms : u[i] = ms[j])
      <3>1. CASE i <= Len(t)
        BY <2>1, <2>2, <3>1
      <3>2. CASE i > Len(t)
        <4>1. i - Len(t) \in 1 .. k /\ i = Len(t) + (i - Len(t)) /\ i - Len(t) \in DOMAIN ms
          BY <2>1, <2>2, <3>2
        <4>2. u[Len(t) + (i - Len(t))] = ms[i - Len(t)]
          BY <2>1, <4>1
        <4> QED  BY <4>1, <4>2
      <3> QED  BY <2>1, <2>2, <3>1, <3>2
    <2>4. \A i \in DOMAIN Trim(u) : \E j \in DOMAIN u : Trim(u)[i] = u[j]
      BY TrimKeeps
    <2> QED  BY <2>3, <2>4
  <1>2. t \o SubSeq(ms, 1, n) \in Seq(Message) /\ t \o SubSeq(ms, 1, Len(ms)) \in Seq(Message)
    BY GrownText, AllOfIt
  <1>3. \A i \in DOMAIN Trim(t \o SubSeq(ms, 1, n)) :
           \/ \E j \in DOMAIN t : Trim(t \o SubSeq(ms, 1, n))[i] = t[j]
           \/ \E j \in DOMAIN ms : Trim(t \o SubSeq(ms, 1, n))[i] = ms[j]
    BY <1>1, <1>2
  <1>4. \A i \in DOMAIN Trim(t \o SubSeq(ms, 1, Len(ms))) :
           \/ \E j \in DOMAIN t : Trim(t \o SubSeq(ms, 1, Len(ms)))[i] = t[j]
           \/ \E j \in DOMAIN ms : Trim(t \o SubSeq(ms, 1, Len(ms)))[i] = ms[j]
    BY <1>1, <1>2, AllOfIt
  <1>5. SubSeq(ms, 1, Len(ms)) = ms
    BY AllOfIt
  <1> QED  BY <1>3, <1>4, <1>5, Zenon

(* What an object adds is in its own text and its session's file.          *)
LEMMA AddText ==
    ASSUME NEW m \in MemoryId, NEW object \in Object, NEW ms \in Seq(Message),
           memories \in [MemoryId -> Object], disk \in [Session -> File], Add(m, object, ms),
           ~object.deleted
    PROVE  /\ memories'[m].session = object.session /\ ~memories'[m].deleted
           /\ \A i \in DOMAIN memories'[m].text :
                 \/ \E j \in DOMAIN object.text : memories'[m].text[i] = object.text[j]
                 \/ \E j \in DOMAIN ms : memories'[m].text[i] = ms[j]
           /\ \A x \in MemoryId : x # m => memories'[x] = memories[x]
           /\ \A s \in Session :
                 \/ disk'[s].text = disk[s].text
                 \/ /\ s = object.session
                    /\ \A i \in DOMAIN disk'[s].text :
                          \/ \E j \in DOMAIN object.text : disk'[s].text[i] = object.text[j]
                          \/ \E j \in DOMAIN ms : disk'[s].text[i] = ms[j]
  <1>1. object.text \in Seq(Message) /\ object.session \in Session
    BY DEF Object
  <1>2. PICK n \in Saves(Len(ms)) :
           /\ memories' = [memories EXCEPT ![m] = [object EXCEPT !.text = Trim(object.text \o ms)]]
           /\ disk' = IF n = 0 THEN disk
                      ELSE Save(object.session, Trim(object.text \o SubSeq(ms, 1, n)))
    BY DEF Add
  <1>3. n \in 0 .. Len(ms)
    BY AllOfIt, <1>2 DEF Saves
  <1> DEFINE a == Trim(object.text \o ms)
             b == Trim(object.text \o SubSeq(ms, 1, n))
  <1>4. /\ \A i \in DOMAIN a : \/ \E j \in DOMAIN object.text : a[i] = object.text[j]
                               \/ \E j \in DOMAIN ms : a[i] = ms[j]
        /\ \A i \in DOMAIN b : \/ \E j \in DOMAIN object.text : b[i] = object.text[j]
                               \/ \E j \in DOMAIN ms : b[i] = ms[j]
    BY <1>1, <1>3, TextGrows
  <1>5. memories' = [memories EXCEPT ![m] = [object EXCEPT !.text = a]]
        /\ disk' = IF n = 0 THEN disk ELSE Save(object.session, b)
    BY <1>2
  <1> HIDE DEF a, b
  <1>6. /\ memories'[m].session = object.session /\ ~memories'[m].deleted /\ memories'[m].text = a
        /\ \A x \in MemoryId : x # m => memories'[x] = memories[x]
    BY <1>5 DEF Object
  <1>7. \A s \in Session : disk'[s].text = disk[s].text \/ (s = object.session /\ disk'[s].text = b)
    BY <1>1, <1>5 DEF Save
  <1> QED  BY <1>4, <1>6, <1>7

LEMMA ErasureLeaves == Erasure /\ Types' /\ Leaves => Erasure'
  <1> SUFFICES ASSUME Erasure, Types', Leaves PROVE Erasure'
    OBVIOUS
  <1>1. Known' /\ Emptied'
    BY DEF Erasure, Leaves, Known, Emptied
  <1>2. Written'
    BY DEF Erasure, Leaves, Written, WriterOf
  <1> QED  BY <1>1, <1>2 DEF Erasure

(* A step by which an object gets text.                                    *)
LEMMA ErasureAdds ==
    ASSUME Erasure, Types', NEW m \in 1 .. created, NEW ms \in Seq(Message), Adds(m, ms)
    PROVE  Erasure'
  <1>1. /\ StoreTypes /\ StoreTypes' /\ m \in MemoryId /\ memories[m] \in Object
        /\ Known /\ Emptied /\ Written /\ created \in Nat
        /\ memories \in [MemoryId -> Object] /\ disk \in [Session -> File]
    BY TypesAre, Numbers DEF Erasure, Types, StoreTypes
  <1>2. /\ \A i \in DOMAIN ms : ms[i].by = m
        /\ Add(m, memories[m], ms)
        /\ UNCHANGED <<current, created, erased>>
    BY DEF Adds
  <1>3. CASE memories[m].deleted
    <2>1. Leaves
      BY <1>2, <1>3 DEF Add, Leaves
    <2> QED  BY <2>1, ErasureLeaves
  <1>4. CASE ~memories[m].deleted
    <2> DEFINE s == memories[m].session
               t == memories[m].text
    <2>1. /\ memories'[m].session = s /\ ~memories'[m].deleted
          /\ \A i \in DOMAIN memories'[m].text :
                \/ \E j \in DOMAIN t : memories'[m].text[i] = t[j]
                \/ \E j \in DOMAIN ms : memories'[m].text[i] = ms[j]
          /\ \A x \in MemoryId : x # m => memories'[x] = memories[x]
          /\ \A x \in Session :
                \/ disk'[x].text = disk[x].text
                \/ /\ x = s
                   /\ \A i \in DOMAIN disk'[x].text :
                         \/ \E j \in DOMAIN t : disk'[x].text[i] = t[j]
                         \/ \E j \in DOMAIN ms : disk'[x].text[i] = ms[j]
      BY <1>1, <1>2, <1>4, AddText
    <2>2. s \in Session
      BY <1>1, <1>4 DEF Object
    <2> HIDE DEF t
    <2>3. \A x \in MemoryId : memories'[x].session = memories[x].session
                              /\ memories'[x].deleted = memories[x].deleted
      <3>1. ASSUME NEW x \in MemoryId, x # m
            PROVE  memories'[x].session = memories[x].session
                   /\ memories'[x].deleted = memories[x].deleted
        BY <2>1, <3>1
      <3>2. memories'[m].deleted = memories[m].deleted
        BY <1>1, <1>4, <2>1 DEF StoreTypes, Object
      <3> QED  BY <2>1, <3>1, <3>2
    <2>4. Known'
      <3>1. \A x \in Session : current[x] # None => current[x] \in MemoryId
        BY <1>1 DEF StoreTypes
      <3>2. \A x \in 1 .. created : x \in MemoryId
        BY <1>1, Numbers DEF StoreTypes
      <3> QED  BY <1>1, <1>2, <2>3, <3>1, <3>2 DEF Known
    <2>5. Emptied'
      <3>1. m <= created
        BY <1>1
      <3>2. \A x \in erased : x \in MemoryId
        BY <1>1 DEF StoreTypes
      <3>3. \A x \in MemoryId : memories'[x].deleted \/ x > created => memories'[x].text = <<>>
        <4>1. ASSUME NEW x \in MemoryId, x # m, memories'[x].deleted \/ x > created
              PROVE  memories'[x].text = <<>>
          BY <1>1, <2>1, <4>1 DEF Emptied
        <4> QED  BY <1>1, <2>1, <3>1, <4>1
      <3> QED  BY <1>1, <1>2, <2>3, <3>2, <3>3 DEF Emptied
    <2>6. \A x \in 1 .. created : memories'[x].session = memories[x].session
      BY <1>1, <2>3, Numbers DEF StoreTypes
    <2>7. /\ \A i \in DOMAIN t : WriterOf(t[i], s)
          /\ \A i \in DOMAIN ms : WriterOf(ms[i], s)
      <3>1. \A i \in DOMAIN t : WriterOf(t[i], s)
        BY <1>1 DEF Written, t
      <3>2. m \notin erased
        BY <1>1, <1>4 DEF Emptied
      <3> QED  BY <1>2, <3>1, <3>2 DEF WriterOf
    <2>8. ASSUME NEW x \in Session, NEW i \in DOMAIN disk'[x].text
          PROVE  WriterOf(disk'[x].text[i], x)
      <3>1. CASE disk'[x].text = disk[x].text
        BY <1>1, <3>1 DEF Written
      <3>2. CASE disk'[x].text # disk[x].text
        BY <2>1, <2>7, <3>2
      <3> QED  BY <3>1, <3>2
    <2>9. ASSUME NEW x \in MemoryId, NEW i \in DOMAIN memories'[x].text
          PROVE  WriterOf(memories'[x].text[i], memories'[x].session)
      <3>1. CASE x = m
        BY <2>1, <2>7, <3>1
      <3>2. CASE x # m
        BY <1>1, <2>1, <3>2 DEF Written
      <3> QED  BY <3>1, <3>2
    <2>10. Written'
      BY <1>2, <2>6, <2>8, <2>9 DEF Written, WriterOf
    <2> QED  BY <2>4, <2>5, <2>10 DEF Erasure
  <1> QED  BY <1>3, <1>4

(* A chat in a session without an object makes one, with the file's text.  *)
LEMMA ErasureChat ==
    ASSUME Erasure, Types', NEW r \in Request, NEW s \in Session, Chat(r, s)
    PROVE  Erasure'
  <1> DEFINE m == MemoryOf(s)
             object == ObjectOf(s)
             ms == <<Text(m)>>
  <1>1. /\ StoreTypes /\ StoreTypes' /\ Holders /\ Types
        /\ Known /\ Emptied /\ Written /\ created \in Nat /\ created' \in Nat
        /\ memories \in [MemoryId -> Object] /\ disk \in [Session -> File]
    BY TypesAre, Numbers DEF Erasure, Types, StoreTypes
  <1>2. /\ m \in MemoryId /\ current' = [current EXCEPT ![s] = m]
        /\ created' = IF m > created THEN m ELSE created
        /\ Add(m, object, ms) /\ UNCHANGED erased
    BY DEF Chat
  <1>3. /\ ms \in Seq(Message) /\ \A i \in DOMAIN ms : ms[i].by = m
    <2>1. m \in MemoryId
      BY <1>2
    <2> HIDE DEF m
    <2> QED  BY <2>1, WrittenBy, Messages
  <1>4. CASE current[s] # None
    <2>1. m = current[s] /\ object = memories[m] /\ m \in 1 .. created
      BY <1>1, <1>4 DEF MemoryOf, ObjectOf, Holders
    <2>2. UNCHANGED <<current, created>>
      <3> HIDE DEF m
      <3> QED  BY <1>1, <1>2, <2>1 DEF StoreTypes
    <2> HIDE DEF m, object, ms
    <2>3. Adds(m, ms)
      BY <1>2, <1>3, <2>1, <2>2 DEF Adds
    <2> QED  BY <1>3, <2>1, <2>3, ErasureAdds
  <1>5. CASE current[s] = None
    <2>1. m = created + 1 /\ object = [session |-> s, text |-> disk[s].text, deleted |-> FALSE]
      BY <1>5 DEF MemoryOf, ObjectOf
    <2>2. created' = m
      BY <1>1, <1>2, <2>1
    <2>3. object \in Object /\ object.session = s /\ ~object.deleted /\ object.text = disk[s].text
      <3>1. object \in Object
        BY <1>1, ObjectTypes
      <3> HIDE DEF object
      <3> QED  BY <2>1, <3>1
    <2> HIDE DEF m, object, ms
    <2>4. /\ memories'[m].session = s /\ ~memories'[m].deleted
          /\ \A i \in DOMAIN memories'[m].text :
                \/ \E j \in DOMAIN object.text : memories'[m].text[i] = object.text[j]
                \/ \E j \in DOMAIN ms : memories'[m].text[i] = ms[j]
          /\ \A x \in MemoryId : x # m => memories'[x] = memories[x]
          /\ \A x \in Session :
                \/ disk'[x].text = disk[x].text
                \/ /\ x = s
                   /\ \A i \in DOMAIN disk'[x].text :
                         \/ \E j \in DOMAIN object.text : disk'[x].text[i] = object.text[j]
                         \/ \E j \in DOMAIN ms : disk'[x].text[i] = ms[j]
      <3>1. memories'[m].session = object.session
        BY <1>1, <1>2, <1>3, <2>3, AddText
      <3> QED  BY <1>1, <1>2, <1>3, <2>3, <3>1, AddText
    <2>5. \A x \in 1 .. created : x \in MemoryId /\ x # m /\ x \in 1 .. created'
      BY <1>1, <2>1, <2>2, Numbers DEF StoreTypes
    <2>6. \A x \in 1 .. created' : x = m \/ x \in 1 .. created
      BY <1>1, <2>1, <2>2
    <2>7. Known'
      <3>1. \A x \in Session : x # s => current'[x] = current[x]
        BY <1>1, <1>2 DEF StoreTypes
      <3>2. current'[s] = m
        BY <1>1, <1>2 DEF StoreTypes
      <3>3. ASSUME NEW x \in Session, current'[x] # None
            PROVE  memories'[current'[x]].session = x /\ ~memories'[current'[x]].deleted
        <4>1. CASE x = s
          BY <2>4, <3>2, <4>1
        <4>2. CASE x # s
          <5>1. current'[x] = current[x] /\ current[x] \in 1 .. created
            BY <1>1, <3>1, <3>3, <4>2 DEF Holders
          <5>2. memories'[current[x]] = memories[current[x]]
            BY <2>4, <2>5, <5>1
          <5> QED  BY <1>1, <3>3, <5>1, <5>2 DEF Known
        <4> QED  BY <4>1, <4>2
      <3>4. ASSUME NEW x \in 1 .. created', ~memories'[x].deleted
            PROVE  current'[memories'[x].session] = x
        <4>1. CASE x = m
          BY <2>4, <3>2, <4>1
        <4>2. CASE x # m
          <5>1. x \in 1 .. created /\ x \in MemoryId /\ memories'[x] = memories[x]
            BY <2>4, <2>5, <2>6, <4>2
          <5>2. current[memories[x].session] = x /\ memories[x].session \in Session
            BY <1>1, <3>4, <5>1 DEF Known, Object
          <5>3. x # None
            BY <5>1, Numbers
          <5> QED  BY <1>5, <3>1, <5>1, <5>2, <5>3
        <4> QED  BY <4>1, <4>2
      <3> QED  BY <3>3, <3>4 DEF Known
    <2>8. Emptied'
      <3>1. \A x \in MemoryId : memories'[x].deleted => x <= created'
        BY <1>1, <1>2, <2>1, <2>2, <2>4, Numbers DEF Emptied
      <3>2. \A x \in MemoryId : memories'[x].deleted \/ x > created' => memories'[x].text = <<>>
        <4>1. ASSUME NEW x \in MemoryId, x > created' PROVE x > created /\ x # m
          <5>1. x \in Nat /\ m = created + 1 /\ created' = m
            BY <2>1, <2>2, Numbers
          <5> QED  BY <1>1, <4>1, <5>1
        <4> QED  BY <1>1, <2>4, <4>1 DEF Emptied
      <3>3. \A x \in erased : x <= created' /\ memories'[x].deleted
        BY <1>1, <2>1, <2>2, <2>4, Numbers DEF Emptied, StoreTypes
      <3> QED  BY <1>2, <3>1, <3>2, <3>3 DEF Emptied
    <2>9. \A x \in 1 .. created : memories'[x].session = memories[x].session
      BY <2>4, <2>5
    <2>10. \A j \in DOMAIN ms : /\ ms[j].by \in 1 .. created' /\ ms[j].by \notin erased
                                /\ memories'[ms[j].by].session = s
      <3>1. m \notin erased /\ m \in 1 .. created'
        BY <1>1, <2>1, <2>2 DEF Emptied
      <3> QED  BY <1>3, <2>4, <3>1
    <2>11. ASSUME NEW x \in Session, NEW i \in DOMAIN disk[x].text
           PROVE  /\ disk[x].text[i].by \in 1 .. created' /\ disk[x].text[i].by \notin erased
                  /\ memories'[disk[x].text[i].by].session = x
      BY <1>1, <2>5, <2>9 DEF Written, WriterOf
    <2>12. ASSUME NEW x \in Session, NEW i \in DOMAIN disk'[x].text
           PROVE  /\ disk'[x].text[i].by \in 1 .. created' /\ disk'[x].text[i].by \notin erased
                  /\ memories'[disk'[x].text[i].by].session = x
      <3>1. CASE disk'[x].text = disk[x].text
        BY <2>11, <3>1
      <3>2. CASE \E j \in DOMAIN object.text : x = s /\ disk'[x].text[i] = object.text[j]
        BY <2>3, <2>11, <3>2
      <3>3. CASE \E j \in DOMAIN ms : x = s /\ disk'[x].text[i] = ms[j]
        BY <2>10, <3>3
      <3> QED  BY <2>4, <3>1, <3>2, <3>3
    <2>13. ASSUME NEW x \in MemoryId, NEW i \in DOMAIN memories'[x].text
           PROVE  /\ memories'[x].text[i].by \in 1 .. created' /\ memories'[x].text[i].by \notin erased
                  /\ memories'[memories'[x].text[i].by].session = memories'[x].session
      <3>1. CASE x # m
        BY <1>1, <2>4, <2>5, <2>9, <3>1 DEF Written, WriterOf
      <3>2. CASE x = m /\ \E j \in DOMAIN object.text : memories'[x].text[i] = object.text[j]
        BY <2>3, <2>4, <2>11, <3>2
      <3>3. CASE x = m /\ \E j \in DOMAIN ms : memories'[x].text[i] = ms[j]
        BY <2>4, <2>10, <3>3
      <3> QED  BY <2>4, <3>1, <3>2, <3>3
    <2>14. Written'
      BY <1>2, <2>12, <2>13 DEF Written, WriterOf
    <2> QED  BY <2>7, <2>8, <2>14 DEF Erasure
  <1> QED  BY <1>4, <1>5

(* The files of the sessions in T are unlinked, but for those that fail,   *)
(* from files that hold what the disk holds or nothing, when no session in *)
(* T has an object that is not deleted.                                    *)
LEMMA ErasureUnlink ==
    ASSUME Erasure, Types', Known', NEW files \in [Session -> File], NEW T, T \subseteq Session,
           NEW failed, Unlink(files, T, failed), UNCHANGED created,
           \A s \in Session : files[s].text = disk[s].text \/ files[s].text = <<>>,
           \A m \in MemoryId : /\ memories'[m].session = memories[m].session
                               /\ memories[m].deleted => memories'[m].deleted
                               /\ memories'[m].deleted => m <= created
                               /\ \/ memories'[m].deleted /\ memories'[m].text = <<>>
                                  \/ ~memories'[m].deleted /\ memories'[m].text = memories[m].text,
           \A m \in 1 .. created : memories[m].session \in T => memories'[m].deleted
    PROVE  Erasure'
  <1>1. /\ StoreTypes /\ Emptied /\ Written /\ created \in Nat
        /\ \A m \in 1 .. created : m \in MemoryId
        /\ \A m \in MemoryId : memories[m].session \in Session
    <2>1. /\ StoreTypes /\ Emptied /\ Written /\ created \in Nat
          /\ \A m \in 1 .. created : m \in MemoryId
          /\ \A m \in MemoryId : memories[m] \in Object
      BY TypesAre, Numbers DEF Erasure, Types, StoreTypes
    <2> QED  BY <2>1 DEF Object
  <1>2. /\ disk' = [s \in Session |-> IF s \in T \ failed THEN NoFile ELSE files[s]]
        /\ erased' = erased \cup UNION {Of(s) : s \in T \ failed}
    BY DEF Unlink
  <1>3. \A x : x \in erased' <=> \/ x \in erased
                                 \/ x \in 1 .. created /\ memories[x].session \in T \ failed
    BY <1>2 DEF Of
  <1>4. NoFile.text = <<>> /\ DOMAIN <<>> = {}
    BY DEF NoFile
  <1>5. Emptied'
    <2>1. \A x \in MemoryId : memories'[x].deleted \/ x > created => memories'[x].text = <<>>
      BY <1>1 DEF Emptied
    <2>2. \A x \in erased' : x <= created /\ memories'[x].deleted
      BY <1>1, <1>3 DEF Emptied, StoreTypes
    <2> QED  BY <2>1, <2>2 DEF Emptied
  <1>6. ASSUME NEW s \in Session, NEW i \in DOMAIN disk'[s].text
        PROVE  /\ disk'[s].text[i].by \in 1 .. created /\ disk'[s].text[i].by \notin erased'
               /\ memories'[disk'[s].text[i].by].session = s
    <2>1. s \notin T \ failed /\ disk'[s].text = disk[s].text
      BY <1>2, <1>4, <1>6
    <2>2. WriterOf(disk[s].text[i], s)
      BY <1>1, <1>6, <2>1 DEF Written
    <2> QED  BY <1>1, <1>3, <2>1, <2>2 DEF WriterOf
  <1>7. ASSUME NEW m \in MemoryId, NEW i \in DOMAIN memories'[m].text
        PROVE  /\ memories'[m].text[i].by \in 1 .. created /\ memories'[m].text[i].by \notin erased'
               /\ memories'[memories'[m].text[i].by].session = memories'[m].session
    <2>1. ~memories'[m].deleted /\ memories'[m].text = memories[m].text /\ i \in DOMAIN memories[m].text
      BY <1>4, <1>7
    <2>2. WriterOf(memories[m].text[i], memories[m].session)
      BY <1>1, <2>1 DEF Written
    <2>3. m \in 1 .. created
      BY <1>1, <1>4, <2>1, Numbers DEF Emptied
    <2>4. memories[m].session \notin T
      BY <2>1, <2>3
    <2> QED  BY <1>1, <1>3, <2>1, <2>2, <2>4 DEF WriterOf
  <1>8. Written'
    BY <1>6, <1>7 DEF Written, WriterOf
  <1> QED  BY <1>5, <1>8 DEF Erasure

LEMMA ErasureDeletes ==
    ASSUME Erasure, Types', NEW S, NEW old, NEW T, NEW failed, Deletes(S, old, T, failed)
    PROVE  Erasure'
  <1>1. /\ StoreTypes /\ Known /\ Emptied /\ Holders /\ created \in Nat
        /\ \A m \in 1 .. created : m \in MemoryId
        /\ \A m \in MemoryId : memories[m] \in Object
        /\ disk \in [Session -> File]
    BY TypesAre, Numbers DEF Erasure, Types, StoreTypes
  <1>2. /\ S \subseteq T /\ T \subseteq Session /\ UNCHANGED created /\ Unlink(disk, T, failed)
        /\ \A s \in T : s \in S \/ current[s] = None
        /\ memories' = [m \in MemoryId |-> IF \E s \in S : current[s] = m THEN Drop(m) ELSE memories[m]]
        /\ current' = [s \in Session |-> IF s \in S THEN None ELSE current[s]]
    BY DEF Deletes, Forget
  <1>3. ASSUME NEW m \in MemoryId
        PROVE  /\ memories'[m].session = memories[m].session
               /\ (\E s \in S : current[s] = m) => memories'[m].deleted /\ memories'[m].text = <<>>
               /\ ~(\E s \in S : current[s] = m) => memories'[m] = memories[m]
    <2>1. CASE \E s \in S : current[s] = m
      BY <1>1, <1>2, <2>1 DEF Drop, Object
    <2>2. CASE ~\E s \in S : current[s] = m
      BY <1>2, <2>2
    <2> QED  BY <2>1, <2>2
  <1>4. \A s \in S : current[s] # None => current[s] \in 1 .. created
    BY <1>1, <1>2 DEF Holders
  <1>5. Known'
    <2>1. ASSUME NEW s \in Session, current'[s] # None
          PROVE  memories'[current'[s]].session = s /\ ~memories'[current'[s]].deleted
      <3>1. s \notin S /\ current'[s] = current[s] /\ current[s] # None
        BY <1>2, <2>1
      <3>2. current[s] \in MemoryId /\ memories[current[s]].session = s /\ ~memories[current[s]].deleted
        BY <1>1, <3>1 DEF Holders, Known
      <3>3. ~\E x \in S : current[x] = current[s]
        BY <1>1, <1>2, <3>1, <3>2 DEF Known
      <3> QED  BY <1>3, <3>1, <3>2, <3>3
    <2>2. ASSUME NEW m \in 1 .. created, ~memories'[m].deleted
          PROVE  current'[memories'[m].session] = m
      <3>1. m \in MemoryId /\ memories'[m] = memories[m] /\ ~\E s \in S : current[s] = m
        BY <1>1, <1>3, <2>2
      <3>2. current[memories[m].session] = m /\ memories[m].session \in Session
        BY <1>1, <2>2, <3>1 DEF Known, Object
      <3> QED  BY <1>2, <3>1, <3>2
    <2> QED  BY <1>2, <2>1, <2>2 DEF Known
  <1>6. ASSUME NEW m \in MemoryId
        PROVE  /\ memories[m].deleted => memories'[m].deleted
               /\ memories'[m].deleted => m <= created
               /\ \/ memories'[m].deleted /\ memories'[m].text = <<>>
                  \/ ~memories'[m].deleted /\ memories'[m].text = memories[m].text
    <2>1. CASE \E s \in S : current[s] = m
      <3>1. m \in 1 .. created
        BY <1>4, <2>1, Numbers
      <3> QED  BY <1>1, <1>3, <2>1, <3>1
    <2>2. CASE ~\E s \in S : current[s] = m
      <3>1. memories'[m] = memories[m]
        BY <1>3, <2>2
      <3> QED  BY <1>1, <3>1 DEF Emptied
    <2> QED  BY <2>1, <2>2
  <1>7. ASSUME NEW m \in 1 .. created, memories[m].session \in T PROVE memories'[m].deleted
    <2>1. m \in MemoryId
      BY <1>1
    <2>2. CASE memories[m].deleted
      BY <1>6, <2>1, <2>2
    <2>3. CASE ~memories[m].deleted
      <3>1. current[memories[m].session] = m /\ m # None
        BY <1>1, <2>1, <2>3, Numbers DEF Known
      <3>2. memories[m].session \in S
        BY <1>2, <1>7, <3>1
      <3> QED  BY <1>3, <2>1, <3>1, <3>2
    <2> QED  BY <2>2, <2>3
  <1> QED  BY <1>1, <1>2, <1>3, <1>5, <1>6, <1>7, ErasureUnlink

LEMMA ErasureRestart ==
    ASSUME Erasure, Types', NEW torn, NEW failed, Restart(torn, failed)
    PROVE  Erasure'
  <1> DEFINE files == [s \in Session |-> IF s \in torn THEN [disk[s] EXCEPT !.text = <<>>] ELSE disk[s]]
  <1>1. /\ StoreTypes /\ Emptied /\ created \in Nat
        /\ \A m \in 1 .. created : m \in MemoryId
        /\ \A m \in MemoryId : memories[m] \in Object
        /\ disk \in [Session -> File]
    BY TypesAre, Numbers DEF Erasure, Types, StoreTypes
  <1>2. /\ memories' = [m \in MemoryId |-> IF m <= created THEN Drop(m) ELSE memories[m]]
        /\ current' = [s \in Session |-> None]
        /\ Unlink(files, Orphans(files, {}), failed) /\ UNCHANGED created
    BY DEF Restart
  <1>3. files \in [Session -> File]
        /\ \A s \in Session : files[s].text = disk[s].text \/ files[s].text = <<>>
    BY <1>1, EmptySeq DEF File
  <1>4. Orphans(files, {}) \subseteq Session
    BY AgentAssumption DEF Orphans
  <1> HIDE DEF files
  <1>5. ASSUME NEW m \in MemoryId
        PROVE  /\ memories'[m].session = memories[m].session
               /\ m <= created => memories'[m].deleted /\ memories'[m].text = <<>>
               /\ ~(m <= created) => memories'[m] = memories[m]
    BY <1>1, <1>2 DEF Drop, Object
  <1>6. \A m \in 1 .. created : m \in MemoryId /\ m <= created /\ memories'[m].deleted
    BY <1>1, <1>5
  <1>7. Known'
    BY <1>2, <1>6 DEF Known
  <1>8. ASSUME NEW m \in MemoryId
        PROVE  /\ memories[m].deleted => memories'[m].deleted
               /\ memories'[m].deleted => m <= created
               /\ \/ memories'[m].deleted /\ memories'[m].text = <<>>
                  \/ ~memories'[m].deleted /\ memories'[m].text = memories[m].text
    <2>1. CASE m <= created
      BY <1>5, <2>1
    <2>2. CASE ~(m <= created)
      <3>1. memories'[m] = memories[m]
        BY <1>5, <2>2
      <3> QED  BY <1>1, <2>2, <3>1 DEF Emptied
    <2> QED  BY <2>1, <2>2
  <1> QED  BY <1>2, <1>3, <1>4, <1>5, <1>6, <1>7, <1>8, ErasureUnlink

LEMMA ErasureInit == Init => Erasure
  <1> SUFFICES ASSUME Init PROVE Erasure
    OBVIOUS
  <1>1. Types
    BY TypesInit
  <1>2. \A m \in MemoryId : memories[m].text = <<>> /\ ~memories[m].deleted
    BY DEF Init, Fresh
  <1>3. \A s \in Session : disk[s].text = <<>> /\ current[s] = None
    BY DEF Init, NoFile
  <1>4. 1 .. created = {} /\ erased = {}
    BY DEF Init
  <1>5. Known /\ Emptied
    BY <1>2, <1>3, <1>4 DEF Known, Emptied
  <1>6. Written
    BY <1>2, <1>3 DEF Written
  <1> QED  BY <1>1, <1>5, <1>6 DEF Erasure

LEMMA ErasureStep == Erasure /\ [Next]_vars => Erasure'
  <1> SUFFICES ASSUME Erasure, [Next]_vars PROVE Erasure'
    OBVIOUS
  <1>1. Types /\ Types'
    BY TypesStep DEF Erasure
  <1>2. CASE UNCHANGED vars
    <2>1. Leaves
      BY <1>2 DEF vars, Leaves
    <2> QED  BY <1>1, <2>1, ErasureLeaves
  <1>3. CASE Next
    <2>1. CASE \E r \in Request : ModelCalls(r) \/ RunTool(r)
      BY <1>1, <2>1, CallAdds, ToolAdds, ErasureAdds
    <2>2. CASE \E r \in Request, c \in CallId, s \in Session : Reject(r, c, s)
      BY <1>1, <2>2, RejectAdds, ErasureAdds
    <2> QED
      BY <1>1, <1>3, <2>1, <2>2, StoreSteps, ErasureLeaves, ErasureAdds, ErasureChat,
         ErasureDeletes, ErasureRestart
  <1> QED  BY <1>2, <1>3

(* Whatever a handler still does for a conversation that was deleted: no   *)
(* message of an object whose transcript was unlinked comes back, neither  *)
(* into a file nor into the memory of a later conversation of the session  *)
(* (the deleted flag of memory.ts; ErasedStaysGone).                       *)
THEOREM NothingReturns == Spec => []ErasedStaysGone
  <1>1. Erasure => ErasedStaysGone
    BY DEF Erasure, Written, WriterOf, ErasedStaysGone, Writers
  <1> QED  BY <1>1, ErasureInit, ErasureStep, PTL DEF Spec

-----------------------------------------------------------------------------
(* Each tool of a call is run once at most, and none of a rejected call.   *)

Working(r, c) == request[r].pc = "tool" /\ request[r].call = c
Untouched(c)  == /\ \A k \in 1 .. NumTools : ran[c][k] = 0
                 /\ \A r \in Request : ~Working(r, c)

(* A call that was rejected is out of reach of an approval.                *)
Refused == \A c \in rejected : c \notin DOMAIN pending /\ Untouched(c)

(* A call is the entry in pendingRequests until a decision takes it, and   *)
(* from then on one handler's, which has run the tools before its own, or  *)
(* nobody's if it was rejected.                                            *)
Tickets ==
    /\ Types /\ Refused
    /\ \A c \in CallId : c > issued \/ c \in DOMAIN pending => Untouched(c)
    /\ \A c \in CallId, q, r \in Request : Working(q, c) /\ Working(r, c) => q = r
    /\ \A r \in Request : request[r].pc = "tool" =>
          \A k \in 1 .. NumTools : k >= request[r].tool => ran[request[r].call][k] = 0
    /\ ToolsRunOnce

(* A step that neither issues, approves nor runs anything.                 *)
Idles == /\ UNCHANGED <<issued, ran>> /\ DOMAIN pending' \subseteq DOMAIN pending
         /\ \A c \in DOMAIN pending' : pending'[c].memory = pending[c].memory
         /\ \A r \in Request : request'[r] = request[r] \/ request'[r].pc # "tool"
         /\ \A c \in rejected' \ rejected : c \in DOMAIN pending \ DOMAIN pending'

LEMMA CallSteps ==
    ASSUME Types, Next
    PROVE  \/ Idles
           \/ \E r \in Request : ModelCalls(r) \/ RunTool(r)
           \/ \E r \in Request, c \in CallId, s \in Session : Approve(r, c, s)
  <1>0. request \in [Request -> State] /\ Rest.pc = "idle" /\ Holders /\ CallTypes /\ StoreTypes
    BY TypesAre DEF Types, RequestTypes, Rest
  <1>1. ASSUME NEW r \in Request, NEW x, request' = [request EXCEPT ![r] = x], x.pc # "tool"
        PROVE  \A q \in Request : request'[q] = request[q] \/ request'[q].pc # "tool"
    BY <1>0, <1>1
  <1>2. ASSUME NEW r \in Request, NEW ms, Ends(r, ms)
        PROVE  \A q \in Request : request'[q] = request[q] \/ request'[q].pc # "tool"
    BY <1>0, <1>1, <1>2 DEF Ends
  <1>3. ASSUME NEW r \in Request, NEW s \in Session, Chat(r, s) PROVE Idles
    <2>1. PICK next \in {"retrieve", "submit"} :
             request' = [request EXCEPT ![r] = At(next, MemoryOf(s), 1)]
      BY <1>3 DEF Chat
    <2>2. At(next, MemoryOf(s), 1).pc # "tool"
      BY <2>1 DEF At
    <2> QED  BY <1>1, <1>3, <2>1, <2>2 DEF Chat, Idles, calls
  <1>4. ASSUME NEW r \in Request, Retrieved(r) PROVE Idles
    <2>1. PICK next \in {"model", "submit", "answer"} :
             request' = [request EXCEPT ![r] = [request[r] EXCEPT !.pc = next]]
      BY <1>4 DEF Retrieved
    <2>2. [request[r] EXCEPT !.pc = next].pc # "tool"
      BY <1>0, <2>1 DEF State
    <2> QED  BY <1>1, <1>4, <2>1, <2>2 DEF Retrieved, Idles, calls
  <1>5. ASSUME NEW r \in Request, PollGivesUp(r) PROVE Idles
    <2>1. request' = [request EXCEPT ![r] = [request[r] EXCEPT !.pc = "cancel"]]
      BY <1>5 DEF PollGivesUp
    <2>2. [request[r] EXCEPT !.pc = "cancel"].pc # "tool"
      BY <1>0 DEF State
    <2> QED  BY <1>1, <1>5, <2>1, <2>2 DEF PollGivesUp, Idles, calls
  <1>6. ASSUME NEW r \in Request, Submit(r) PROVE Idles
    <2>1. CASE request' = [request EXCEPT ![r] = [request[r] EXCEPT !.pc = "poll"]]
      <3>1. [request[r] EXCEPT !.pc = "poll"].pc # "tool"
        BY <1>0 DEF State
      <3> QED  BY <1>1, <1>6, <2>1, <3>1 DEF Submit, Idles, calls
    <2>2. CASE Ends(r, <<Text(request[r].memory)>>)
      BY <1>2, <1>6, <2>2 DEF Submit, Idles, calls
    <2> QED  BY <1>6, <2>1, <2>2 DEF Submit
  <1>7. ASSUME NEW r \in Request, PollEnds(r) PROVE Idles
    <2>1. CASE request' = [request EXCEPT ![r] = [request[r] EXCEPT !.pc = "answer"]]
      <3>1. [request[r] EXCEPT !.pc = "answer"].pc # "tool"
        BY <1>0 DEF State
      <3> QED  BY <1>1, <1>7, <2>1, <3>1 DEF PollEnds, Idles, calls
    <2>2. CASE Ends(r, <<Text(request[r].memory)>>)
      BY <1>2, <1>7, <2>2 DEF PollEnds, Idles, calls
    <2> QED  BY <1>7, <2>1, <2>2 DEF PollEnds
  <1>8. ASSUME NEW r \in Request, CancelTask(r) \/ ModelAnswers(r) PROVE Idles
    BY <1>2, <1>8 DEF CancelTask, ModelAnswers, Idles, calls
  <1>9. ASSUME NEW r \in Request, TaskEnds(r) PROVE Idles
    BY <1>9 DEF TaskEnds, Idles, calls
  <1>10. ASSUME NEW r \in Request, NEW c \in CallId, NEW s \in Session, Reject(r, c, s)
         PROVE  Idles
    <2>1. /\ c \in DOMAIN pending /\ Take(c) /\ UNCHANGED <<issued, ran>>
          /\ rejected' = rejected \cup {c}
          /\ Continue(r, pending[c].memory, pending[c].iteration)
      BY <1>10 DEF Reject, Owner
    <2>2. pending[c].memory \in MemoryId /\ pending[c].iteration \in Nat
      BY <1>0, <2>1, Numbers DEF CallTypes, Entry
    <2>3. PICK x \in State : request' = [request EXCEPT ![r] = x] /\ x.pc \in {"idle", "retrieve"}
      BY <1>0, <2>1, <2>2, ContinueTypes
    <2>4. /\ DOMAIN pending' = DOMAIN pending \ {c}
          /\ \A d \in DOMAIN pending' : pending'[d] = pending[d]
      BY <2>1 DEF Take
    <2> QED  BY <1>1, <2>1, <2>3, <2>4 DEF Idles
  <1>11. ASSUME NEW S, NEW old, Forget(S, old), UNCHANGED <<issued, ran, rejected, request>>
         PROVE  Idles
    BY <1>11 DEF Forget, Idles
  <1>12. ASSUME NEW failed, Cleanup(failed) \/ \E s \in Session : Delete(s, failed) PROVE Idles
    BY <1>11, <1>12 DEF Cleanup, Delete
  <1>13. ASSUME NEW failed, NEW torn \in SUBSET Session, Restart(torn, failed) PROVE Idles
    <2>1. DOMAIN pending' = {}
      BY <1>13 DEF Restart
    <2> QED  BY <1>0, <1>13, <2>1 DEF Restart, Idles
  <1>14. CASE Tick
    <2>1. pending' = [c \in DOMAIN pending |->
                        [pending[c] EXCEPT !.age = Older(pending[c].age, PendingTtl + 1)]]
      BY <1>14 DEF Tick
    <2>2. /\ DOMAIN pending' \subseteq DOMAIN pending
          /\ \A d \in DOMAIN pending' : pending'[d].memory = pending[d].memory
      BY <1>0, <2>1 DEF CallTypes, Entry
    <2> QED  BY <1>14, <2>2 DEF Tick, Idles
  <1> QED
    BY <1>3, <1>4, <1>5, <1>6, <1>7, <1>8, <1>9, <1>10, <1>12, <1>13, <1>14, NextCases

LEMMA TicketsInit == Init => Tickets
  <1> SUFFICES ASSUME Init PROVE Tickets
    OBVIOUS
  <1>1. /\ \A r \in Request : request[r].pc = "idle"
        /\ \A c \in CallId, k \in 1 .. NumTools : ran[c][k] = 0
    BY DEF Init, Rest
  <1>2. Refused
    BY DEF Init, Refused
  <1> QED  BY <1>1, <1>2, TypesInit DEF Tickets, Untouched, Working, ToolsRunOnce

LEMMA TicketsStep == Tickets /\ [Next]_vars => Tickets'
  <1> SUFFICES ASSUME Tickets, [Next]_vars PROVE Tickets'
    OBVIOUS
  <1>0. /\ Types /\ Types' /\ Holders /\ Holders' /\ issued \in Nat
        /\ request \in [Request -> State] /\ ran \in [CallId -> [1 .. NumTools -> Nat]]
        /\ \A c \in 1 .. issued : c \in CallId
        /\ DOMAIN pending \subseteq 1 .. issued /\ rejected \subseteq 1 .. issued /\ Refused
        /\ \A c \in rejected : c \in CallId /\ \A k \in 1 .. NumTools : ran[c][k] = 0
    <2>1. Types /\ Types' /\ Holders /\ Holders' /\ CallTypes /\ RequestTypes /\ Refused
      BY TypesStep, TypesAre DEF Tickets, Types
    <2>2. issued \in Nat /\ \A c \in 1 .. issued : c \in CallId
      BY <2>1, Numbers DEF CallTypes
    <2> QED  BY <2>1, <2>2 DEF CallTypes, RequestTypes, Refused, Untouched
  <1>1. CASE Idles
    <2>1. \A r \in Request, c \in CallId : Working(r, c)' => Working(r, c) /\ request'[r] = request[r]
      BY <1>1 DEF Idles, Working
    <2>2. \A c \in CallId : Untouched(c) => Untouched(c)'
      BY <1>1, <2>1 DEF Idles, Untouched
    <2>3. \A c \in CallId : c > issued' \/ c \in DOMAIN pending' => Untouched(c)'
      BY <1>1, <2>2 DEF Idles, Tickets
    <2>4. \A c \in CallId, q, r \in Request : Working(q, c)' /\ Working(r, c)' => q = r
      BY <2>1 DEF Tickets
    <2>5. \A r \in Request : request'[r].pc = "tool" =>
             \A k \in 1 .. NumTools : k >= request'[r].tool => ran'[request'[r].call][k] = 0
      BY <1>1 DEF Idles, Tickets
    <2>6. Refused'
      <3>1. ASSUME NEW c \in rejected' PROVE c \notin DOMAIN pending' /\ Untouched(c)'
        <4>1. c \in CallId /\ c \notin DOMAIN pending' /\ Untouched(c)
          BY <1>0, <1>1, <3>1 DEF Idles, Refused, Tickets
        <4> QED  BY <2>2, <4>1
      <3> QED  BY <3>1 DEF Refused
    <2>7. ToolsRunOnce'
      BY <1>1, <2>6 DEF Idles, Tickets, ToolsRunOnce, Refused, Untouched
    <2> QED  BY <1>0, <2>3, <2>4, <2>5, <2>6, <2>7 DEF Tickets
  <1>2. ASSUME NEW r \in Request, ModelCalls(r) PROVE Tickets'
    <2>1. /\ request' = [request EXCEPT ![r] = Rest] /\ issued' = issued + 1
          /\ UNCHANGED <<ran, rejected>>
          /\ DOMAIN pending' = DOMAIN pending \cup {issued + 1}
      BY <1>2 DEF ModelCalls, Ends
    <2>2. \A q \in Request : request'[q] = request[q] \/ request'[q].pc # "tool"
      BY <1>0, <2>1 DEF Rest
    <2>3. \A q \in Request, c \in CallId : Working(q, c)' => Working(q, c) /\ request'[q] = request[q]
      BY <2>2 DEF Working
    <2>4. \A c \in CallId : Untouched(c) => Untouched(c)'
      BY <2>1, <2>3 DEF Untouched
    <2>5. \A c \in CallId : c > issued' \/ c \in DOMAIN pending' => Untouched(c)'
      <3>1. \A c \in CallId : c > issued' \/ c \in DOMAIN pending' => c > issued \/ c \in DOMAIN pending
        BY <1>0, <2>1, Numbers
      <3> QED  BY <2>4, <3>1 DEF Tickets
    <2>6. \A c \in CallId, p, q \in Request : Working(p, c)' /\ Working(q, c)' => p = q
      BY <2>3 DEF Tickets
    <2>7. \A q \in Request : request'[q].pc = "tool" =>
             \A k \in 1 .. NumTools : k >= request'[q].tool => ran'[request'[q].call][k] = 0
      BY <2>1, <2>2 DEF Tickets
    <2>8. ToolsRunOnce'
      BY <2>1 DEF Tickets, ToolsRunOnce
    <2>9. Refused'
      <3>1. ASSUME NEW c \in rejected PROVE c \notin DOMAIN pending' /\ Untouched(c)'
        BY <1>0, <2>1, <2>4 DEF Refused
      <3> QED  BY <2>1, <3>1 DEF Refused
    <2> QED  BY <1>0, <2>5, <2>6, <2>7, <2>8, <2>9 DEF Tickets
  <1>3. ASSUME NEW r \in Request, NEW c \in CallId, NEW s \in Session, Approve(r, c, s)
        PROVE  Tickets'
    <2> DEFINE x == [pc |-> "tool", memory |-> pending[c].memory,
                     iteration |-> pending[c].iteration, call |-> c, tool |-> 1]
    <2>1. /\ c \in DOMAIN pending /\ Take(c) /\ UNCHANGED <<issued, ran, rejected>>
          /\ request' = [request EXCEPT ![r] = x]
      BY <1>3 DEF Approve, Owner
    <2>2. x.pc = "tool" /\ x.call = c /\ x.tool = 1
      OBVIOUS
    <2> HIDE DEF x
    <2>3. DOMAIN pending' = DOMAIN pending \ {c}
      BY <2>1 DEF Take
    <2>4. request'[r] = x /\ \A q \in Request : q # r => request'[q] = request[q]
      BY <1>0, <2>1
    <2>5. Untouched(c)
      BY <2>1 DEF Tickets
    <2>6. ASSUME NEW d \in CallId, d > issued' \/ d \in DOMAIN pending' PROVE Untouched(d)'
      <3>1. d # c /\ Untouched(d)
        BY <1>0, <2>1, <2>3, <2>6 DEF Tickets
      <3> QED  BY <2>1, <2>2, <2>4, <3>1 DEF Untouched, Working
    <2>7. ASSUME NEW d \in CallId, NEW p \in Request, NEW q \in Request, Working(p, d)', Working(q, d)'
          PROVE  p = q
      <3>1. CASE d = c
        BY <2>2, <2>4, <2>5, <2>7, <3>1 DEF Untouched, Working
      <3>2. CASE d # c
        <4>1. Working(p, d) /\ Working(q, d)
          BY <2>2, <2>4, <2>7, <3>2 DEF Working
        <4> QED  BY <4>1 DEF Tickets
      <3> QED  BY <3>1, <3>2
    <2>8. \A q \in Request : request'[q].pc = "tool" =>
             \A k \in 1 .. NumTools : k >= request'[q].tool => ran'[request'[q].call][k] = 0
      BY <2>1, <2>2, <2>4, <2>5 DEF Tickets, Untouched
    <2>9. ToolsRunOnce'
      BY <2>1 DEF Tickets, ToolsRunOnce
    <2>10. Refused'
      <3>1. ASSUME NEW d \in rejected PROVE d \notin DOMAIN pending' /\ Untouched(d)'
        <4>1. d # c /\ d \notin DOMAIN pending' /\ Untouched(d)
          BY <1>0, <2>1, <2>3 DEF Refused
        <4> QED  BY <2>1, <2>2, <2>4, <4>1 DEF Untouched, Working
      <3> QED  BY <2>1, <3>1 DEF Refused
    <2> QED  BY <1>0, <2>6, <2>7, <2>8, <2>9, <2>10 DEF Tickets
  <1>4. ASSUME NEW r \in Request, RunTool(r) PROVE Tickets'
    <2> DEFINE m == request[r].memory
               c == request[r].call
               k == request[r].tool
    <2>1. /\ request[r].pc = "tool" /\ ran' = [ran EXCEPT ![c][k] = @ + 1]
          /\ IF k < NumTools THEN request' = [request EXCEPT ![r].tool = k + 1]
             ELSE Continue(r, m, request[r].iteration)
          /\ UNCHANGED <<pending, issued, rejected>>
      BY <1>4 DEF RunTool
    <2>2. /\ c \in 1 .. issued /\ c \in CallId /\ k \in 1 .. NumTools /\ m \in MemoryId
          /\ request[r].iteration \in Nat
      BY <1>0, <2>1, Numbers DEF Holders, State
    <2>3. /\ ran[c][k] = 0 /\ \A j \in 1 .. NumTools : j >= k => ran[c][j] = 0
          /\ Working(r, c)
      BY <2>1, <2>2, Numbers DEF Tickets, Working
    <2>4. /\ ran'[c][k] = 1 /\ \A j \in 1 .. NumTools : j # k => ran'[c][j] = ran[c][j]
          /\ \A d \in CallId : d # c => ran'[d] = ran[d]
      <3> DEFINE g == ran[c]
                 f == [g EXCEPT ![k] = g[k] + 1]
      <3>1. ran' = [ran EXCEPT ![c] = f]
        BY <2>1
      <3>2. f[k] = 1 /\ \A j \in 1 .. NumTools : j # k => f[j] = ran[c][j]
        <4>1. /\ g \in [1 .. NumTools -> Nat] /\ k \in 1 .. NumTools /\ g[k] = 0
              /\ \A j \in 1 .. NumTools : g[j] = ran[c][j]
          BY <1>0, <2>2, <2>3
        <4> HIDE DEF c, k, g
        <4>2. f[k] = g[k] + 1 /\ \A j \in 1 .. NumTools : j # k => f[j] = g[j]
          BY <4>1, OneMore
        <4> HIDE DEF f
        <4> QED  BY <4>1, <4>2
      <3> HIDE DEF c, k, f
      <3>3. ran'[c] = f /\ \A d \in CallId : d # c => ran'[d] = ran[d]
        BY <1>0, <2>2, <3>1
      <3> QED  BY <3>2, <3>3
    <2>5. PICK x : /\ request' = [request EXCEPT ![r] = x]
                   /\ x.pc = "tool" => x.call = c /\ x.tool = k + 1
      <3>1. CASE k < NumTools
        BY <1>0, <2>1, <3>1 DEF State
      <3>2. CASE ~(k < NumTools)
        <4>1. Continue(r, m, request[r].iteration)
          BY <2>1, <3>2
        <4>2. \E x \in State : request' = [request EXCEPT ![r] = x] /\ x.pc \in {"idle", "retrieve"}
          BY <1>0, <2>2, <4>1, ContinueTypes
        <4> QED  BY <4>2
      <3> QED  BY <3>1, <3>2
    <2>6. request'[r] = x /\ \A q \in Request : q # r => request'[q] = request[q]
      BY <1>0, <2>5
    <2> HIDE DEF m, c, k
    <2>7. \A q \in Request, d \in CallId : Working(q, d)' => Working(q, d)
      BY <2>3, <2>5, <2>6 DEF Working
    <2>8. ASSUME NEW d \in CallId, d > issued' \/ d \in DOMAIN pending' PROVE Untouched(d)'
      <3>1. Untouched(d)
        BY <2>1, <2>8 DEF Tickets
      <3>2. d # c
        BY <2>3, <3>1 DEF Untouched
      <3> QED  BY <2>4, <2>7, <3>1, <3>2 DEF Untouched
    <2>9. \A d \in CallId, p, q \in Request : Working(p, d)' /\ Working(q, d)' => p = q
      BY <2>7 DEF Tickets
    <2>10. ASSUME NEW q \in Request, request'[q].pc = "tool", NEW j \in 1 .. NumTools, j >= request'[q].tool
           PROVE  ran'[request'[q].call][j] = 0
      <3>1. CASE q = r
        <4>1. request'[q].call = c /\ j >= k + 1
          BY <2>5, <2>6, <2>10, <3>1
        <4>2. j >= k /\ j # k
          BY <2>2, <4>1
        <4> QED  BY <2>3, <2>4, <4>1, <4>2
      <3>2. CASE q # r
        <4>1. request[q].pc = "tool" /\ j >= request[q].tool /\ request'[q] = request[q]
          BY <2>6, <2>10, <3>2
        <4>2. request[q].call \in CallId /\ Working(q, request[q].call)
          BY <1>0, <4>1 DEF Holders, Working
        <4>3. request[q].call # c
          BY <2>2, <2>3, <3>2, <4>2 DEF Tickets
        <4> QED  BY <2>4, <4>1, <4>2, <4>3 DEF Tickets
      <3> QED  BY <3>1, <3>2
    <2>11. ASSUME NEW d \in rejected PROVE d # c /\ Untouched(d)'
      <3>1. d \in CallId /\ Untouched(d)
        BY <1>0 DEF Refused
      <3>2. d # c
        BY <2>3, <3>1 DEF Untouched
      <3> QED  BY <2>4, <2>7, <3>1, <3>2 DEF Untouched
    <2>12. Refused'
      BY <1>0, <2>1, <2>11 DEF Refused
    <2>13. ToolsRunOnce'
      BY <2>1, <2>4, <2>11 DEF Tickets, ToolsRunOnce, Untouched
    <2> QED  BY <1>0, <2>8, <2>9, <2>10, <2>12, <2>13 DEF Tickets
  <1>5. CASE UNCHANGED vars
    <2>1. Idles
      BY <1>5 DEF vars, Idles
    <2> QED  BY <1>1, <2>1
  <1> QED  BY <1>0, <1>1, <1>2, <1>3, <1>4, <1>5, CallSteps

(* A tool call that is approved twice, approved and rejected, or decided   *)
(* upon while its session is cleaned up or the process restarts has each   *)
(* of its tools run once at most, and none if a request rejected it        *)
(* (ToolsRunOnce).                                                         *)
THEOREM RunOnce == Spec => []ToolsRunOnce
  <1>1. Tickets => ToolsRunOnce
    BY DEF Tickets
  <1> QED  BY <1>1, TicketsInit, TicketsStep, PTL DEF Spec

-----------------------------------------------------------------------------
(* A transcript the model accepts.                                         *)

(* What ResultsFollowCalls says of one transcript.                         *)
Sound(text) ==
    Len(text) < MaxMessages =>
        \A i \in DOMAIN text : text[i].kind = "tool" =>
            /\ Follows(text, i)
            /\ \A j \in DOMAIN text :
                  (text[j].kind = "tool" /\ text[j].call = text[i].call
                   /\ text[j].tool = text[i].tool) => i = j

(* The calls it is about have been issued.                                 *)
Given(text, n) == \A i \in DOMAIN text : text[i].call <= n

(* It has got to the result of tool k of the call c, to the call if k = 0. *)
Reached(text, c, k) ==
    Len(text) < MaxMessages =>
        /\ \E i \in DOMAIN text : text[i].call = c /\ text[i].tool = k
        /\ \A i \in DOMAIN text : (text[i].kind = "tool" /\ text[i].call = c) => text[i].tool <= k

(* The results among ms may follow text: each comes after what it is the   *)
(* result of, and is new.                                                  *)
Fits(text, ms) ==
    Len(text) < MaxMessages =>
        \A i \in DOMAIN ms : ms[i].kind = "tool" =>
            /\ \/ \E j \in DOMAIN text : text[j].call = ms[i].call /\ text[j].tool = ms[i].tool - 1
               \/ \E j \in 1 .. i - 1 : ms[j].call = ms[i].call /\ ms[j].tool = ms[i].tool - 1
            /\ \A j \in DOMAIN text : ~(/\ text[j].kind = "tool" /\ text[j].call = ms[i].call
                                        /\ text[j].tool = ms[i].tool)
            /\ \A j \in DOMAIN ms : (ms[j].call = ms[i].call /\ ms[j].tool = ms[i].tool) => i = j

LEMMA SoundGrows ==
    ASSUME NEW t \in Seq(Message), NEW ms \in Seq(Message), NEW n \in 0 .. Len(ms),
           Sound(t), Fits(t, ms)
    PROVE  Sound(Trim(t \o SubSeq(ms, 1, n)))
  <1> DEFINE u == t \o SubSeq(ms, 1, n)
  <1>1. /\ u \in Seq(Message) /\ Len(u) = Len(t) + n /\ Len(t) \in Nat /\ n \in Nat /\ n <= Len(ms)
        /\ \A i \in 1 .. Len(t) : u[i] = t[i]
        /\ \A i \in 1 .. n : u[Len(t) + i] = ms[i]
    BY GrownText, LenProperties
  <1>2. /\ DOMAIN t = 1 .. Len(t) /\ DOMAIN ms = 1 .. Len(ms) /\ Len(ms) \in Nat
        /\ MaxMessages \in Nat
    BY LenProperties, AgentAssumption
  <1> HIDE DEF u
  <1>3. DOMAIN u = 1 .. Len(u) /\ (Len(Trim(u)) < MaxMessages => Trim(u) = u)
    BY <1>1, LenProperties, TrimKeeps
  <1>4. ASSUME Len(u) < MaxMessages, NEW i \in DOMAIN u, u[i].kind = "tool"
        PROVE  /\ Follows(u, i)
               /\ \A j \in DOMAIN u : (u[j].kind = "tool" /\ u[j].call = u[i].call
                                       /\ u[j].tool = u[i].tool) => i = j
    <2>1. Len(t) < MaxMessages
      BY <1>1, <1>2, <1>4
    <2>2. CASE i <= Len(t)
      <3>1. i \in DOMAIN t /\ u[i] = t[i]
        BY <1>1, <1>2, <1>3, <2>2
      <3>2. PICK b \in 1 .. i - 1 : t[b].call = t[i].call /\ t[b].tool = t[i].tool - 1
        BY <1>4, <2>1, <3>1 DEF Sound, Follows
      <3>3. Follows(u, i)
        <4>1. b \in 1 .. Len(t)
          BY <1>1, <1>2, <3>1, <3>2
        <4>2. u[b] = t[b]
          BY <1>1, <4>1
        <4> QED  BY <3>1, <3>2, <4>2 DEF Follows
      <3>4. ASSUME NEW j \in DOMAIN u, u[j].kind = "tool", u[j].call = u[i].call,
                   u[j].tool = u[i].tool
            PROVE  i = j
        <4>1. CASE j <= Len(t)
          <5>1. j \in DOMAIN t /\ u[j] = t[j]
            BY <1>1, <1>2, <1>3, <4>1
          <5> QED  BY <1>4, <2>1, <3>1, <3>4, <5>1 DEF Sound
        <4>2. CASE j > Len(t)
          <5>1. PICK x \in 1 .. n : j = Len(t) + x /\ x \in DOMAIN ms
            <6>1. j - Len(t) \in 1 .. n /\ j = Len(t) + (j - Len(t)) /\ j - Len(t) \in DOMAIN ms
              BY <1>1, <1>2, <1>3, <4>2
            <6> QED  BY <6>1
          <5>2. u[j] = ms[x]
            BY <1>1, <5>1
          <5> QED  BY <1>4, <2>1, <3>1, <3>4, <5>1, <5>2 DEF Fits
        <4> QED  BY <1>1, <1>3, <4>1, <4>2
      <3> QED  BY <3>3, <3>4
    <2>3. CASE i > Len(t)
      <3>1. PICK x \in 1 .. n : i = Len(t) + x /\ x \in DOMAIN ms
        <4>1. i - Len(t) \in 1 .. n /\ i = Len(t) + (i - Len(t)) /\ i - Len(t) \in DOMAIN ms
          BY <1>1, <1>2, <1>3, <2>3
        <4> QED  BY <4>1
      <3>2. u[i] = ms[x]
        BY <1>1, <3>1
      <3>3. Follows(u, i)
        <4>1. CASE \E j \in DOMAIN t : t[j].call = ms[x].call /\ t[j].tool = ms[x].tool - 1
          <5>1. PICK j \in DOMAIN t : t[j].call = ms[x].call /\ t[j].tool = ms[x].tool - 1
            BY <4>1
          <5>2. j \in 1 .. i - 1 /\ u[j] = t[j]
            BY <1>1, <1>2, <3>1, <5>1
          <5> QED  BY <3>2, <5>1, <5>2 DEF Follows
        <4>2. CASE \E j \in 1 .. x - 1 : ms[j].call = ms[x].call /\ ms[j].tool = ms[x].tool - 1
          <5>1. PICK j \in 1 .. x - 1 : ms[j].call = ms[x].call /\ ms[j].tool = ms[x].tool - 1
            BY <4>2
          <5>2. j \in 1 .. n /\ Len(t) + j \in 1 .. i - 1
            BY <1>1, <3>1, <5>1
          <5>3. u[Len(t) + j] = ms[j]
            BY <1>1, <5>2
          <5> QED  BY <3>2, <5>1, <5>2, <5>3 DEF Follows
        <4> QED  BY <1>4, <2>1, <3>1, <3>2, <4>1, <4>2 DEF Fits
      <3>4. ASSUME NEW j \in DOMAIN u, u[j].kind = "tool", u[j].call = u[i].call,
                   u[j].tool = u[i].tool
            PROVE  i = j
        <4>1. CASE j <= Len(t)
          <5>1. j \in DOMAIN t /\ u[j] = t[j]
            BY <1>1, <1>2, <1>3, <4>1
          <5> QED  BY <1>4, <2>1, <3>1, <3>2, <3>4, <5>1 DEF Fits
        <4>2. CASE j > Len(t)
          <5>1. PICK y \in 1 .. n : j = Len(t) + y /\ y \in DOMAIN ms
            <6>1. j - Len(t) \in 1 .. n /\ j = Len(t) + (j - Len(t)) /\ j - Len(t) \in DOMAIN ms
              BY <1>1, <1>2, <1>3, <4>2
            <6> QED  BY <6>1
          <5>2. u[j] = ms[y]
            BY <1>1, <5>1
          <5> QED  BY <1>4, <2>1, <3>1, <3>2, <3>4, <5>1, <5>2 DEF Fits
        <4> QED  BY <1>1, <1>3, <4>1, <4>2
      <3> QED  BY <3>3, <3>4
    <2> QED  BY <1>1, <1>3, <2>2, <2>3
  <1>5. Sound(u)
    BY <1>4 DEF Sound
  <1>6. Sound(Trim(u))
    BY <1>3, <1>5 DEF Sound
  <1> QED  BY <1>6 DEF u

LEMMA SoundAll ==
    ASSUME NEW t \in Seq(Message), NEW ms \in Seq(Message), Sound(t), Fits(t, ms)
    PROVE  Sound(Trim(t \o ms))
  <1>1. Sound(Trim(t \o SubSeq(ms, 1, Len(ms)))) /\ SubSeq(ms, 1, Len(ms)) = ms
    BY SoundGrows, AllOfIt
  <1> QED  BY <1>1, Zenon

LEMMA GivenGrows ==
    ASSUME NEW t \in Seq(Message), NEW ms \in Seq(Message), NEW n \in 0 .. Len(ms), NEW top,
           Given(t, top), Given(ms, top)
    PROVE  Given(Trim(t \o SubSeq(ms, 1, n)), top) /\ Given(Trim(t \o ms), top)
  <1>1. Given(Trim(t \o SubSeq(ms, 1, n)), top)
    BY TextGrows DEF Given
  <1>2. Given(Trim(t \o ms), top)
    BY TextGrows DEF Given
  <1> QED  BY <1>1, <1>2

LEMMA NotTrimmed ==
    ASSUME NEW t \in Seq(Message), NEW ms \in Seq(Message), Len(Trim(t \o ms)) < MaxMessages
    PROVE  /\ Trim(t \o ms) = t \o ms /\ Len(t) < MaxMessages
           /\ Len(t) \in Nat /\ Len(ms) \in Nat /\ DOMAIN t = 1 .. Len(t) /\ DOMAIN ms = 1 .. Len(ms)
           /\ DOMAIN (t \o ms) = 1 .. Len(t) + Len(ms)
           /\ \A i \in 1 .. Len(t) : (t \o ms)[i] = t[i]
           /\ \A i \in 1 .. Len(ms) : (t \o ms)[Len(t) + i] = ms[i]
           /\ \A i \in 1 .. Len(t) + Len(ms) :
                 i \in DOMAIN t \/ \E j \in DOMAIN ms : i = Len(t) + j
  <1>1. /\ Len(t) \in Nat /\ Len(ms) \in Nat /\ DOMAIN t = 1 .. Len(t) /\ DOMAIN ms = 1 .. Len(ms)
        /\ MaxMessages \in Nat
    BY LenProperties, AgentAssumption
  <1>2. /\ t \o ms \in Seq(Message) /\ Len(t \o ms) = Len(t) + Len(ms)
        /\ \A i \in 1 .. Len(t) + Len(ms) : (t \o ms)[i] = IF i <= Len(t) THEN t[i] ELSE ms[i - Len(t)]
    BY ConcatProperties
  <1> DEFINE u == t \o ms
  <1> HIDE DEF u
  <1>3. u \in Seq(Message) /\ Len(u) = Len(t) + Len(ms) /\ Len(Trim(u)) < MaxMessages
    BY <1>2 DEF u
  <1>4. Trim(u) = u /\ DOMAIN u = 1 .. Len(u)
    BY <1>3, TrimKeeps, LenProperties
  <1>5. \A i \in 1 .. Len(t) + Len(ms) : u[i] = IF i <= Len(t) THEN t[i] ELSE ms[i - Len(t)]
    BY <1>2 DEF u
  <1>6. \A i \in 1 .. Len(t) : u[i] = t[i]
    BY <1>1, <1>5
  <1>7. \A i \in 1 .. Len(ms) : u[Len(t) + i] = ms[i]
    <2>1. ASSUME NEW i \in 1 .. Len(ms) PROVE u[Len(t) + i] = ms[i]
      <3>1. Len(t) + i \in 1 .. Len(t) + Len(ms) /\ ~(Len(t) + i <= Len(t)) /\ (Len(t) + i) - Len(t) = i
        BY <1>1
      <3> QED  BY <1>5, <3>1
    <2> QED  BY <2>1
  <1>8. ASSUME NEW i \in 1 .. Len(t) + Len(ms), i \notin DOMAIN t
        PROVE  \E j \in DOMAIN ms : i = Len(t) + j
    <2>1. i - Len(t) \in DOMAIN ms /\ i = Len(t) + (i - Len(t))
      BY <1>1, <1>8
    <2> QED  BY <2>1
  <1>9. Len(t) < MaxMessages
    BY <1>1, <1>3, <1>4
  <1> QED  BY <1>1, <1>3, <1>4, <1>6, <1>7, <1>8, <1>9 DEF u

(* Messages that are no results of the call c leave it where it was.       *)
LEMMA ReachedStays ==
    ASSUME NEW t \in Seq(Message), NEW ms \in Seq(Message), NEW c, NEW k, Reached(t, c, k),
           \A i \in DOMAIN ms : ~(ms[i].kind = "tool" /\ ms[i].call = c)
    PROVE  Reached(Trim(t \o ms), c, k)
  <1> SUFFICES ASSUME Len(Trim(t \o ms)) < MaxMessages
               PROVE  /\ \E i \in DOMAIN Trim(t \o ms) : /\ Trim(t \o ms)[i].call = c
                                                         /\ Trim(t \o ms)[i].tool = k
                      /\ \A i \in DOMAIN Trim(t \o ms) :
                            (Trim(t \o ms)[i].kind = "tool" /\ Trim(t \o ms)[i].call = c)
                               => Trim(t \o ms)[i].tool <= k
    BY DEF Reached
  <1> DEFINE u == t \o ms
  <1>1. /\ Trim(t \o ms) = u /\ Len(t) < MaxMessages
        /\ Len(t) \in Nat /\ Len(ms) \in Nat /\ DOMAIN t = 1 .. Len(t) /\ DOMAIN ms = 1 .. Len(ms)
        /\ DOMAIN u = 1 .. Len(t) + Len(ms)
        /\ \A i \in 1 .. Len(t) : u[i] = t[i]
        /\ \A i \in 1 .. Len(ms) : u[Len(t) + i] = ms[i]
        /\ \A i \in 1 .. Len(t) + Len(ms) : i \in DOMAIN t \/ \E j \in DOMAIN ms : i = Len(t) + j
    BY NotTrimmed
  <1> HIDE DEF u
  <1>2. \E i \in DOMAIN u : u[i].call = c /\ u[i].tool = k
    <2>1. PICK i \in DOMAIN t : t[i].call = c /\ t[i].tool = k
      BY <1>1 DEF Reached
    <2>2. i \in DOMAIN u /\ u[i] = t[i]
      BY <1>1, <2>1
    <2> QED  BY <2>1, <2>2
  <1>3. ASSUME NEW i \in DOMAIN u, u[i].kind = "tool", u[i].call = c PROVE u[i].tool <= k
    <2>1. CASE i \in DOMAIN t
      <3>1. u[i] = t[i]
        BY <1>1, <2>1
      <3> QED  BY <1>1, <1>3, <2>1, <3>1 DEF Reached
    <2>2. CASE \E j \in DOMAIN ms : i = Len(t) + j
      BY <1>1, <1>3, <2>2
    <2> QED  BY <1>1, <2>1, <2>2
  <1> QED  BY <1>1, <1>2, <1>3

(* The message e of the call c, after which no result comes yet.           *)
LEMMA ReachedNext ==
    ASSUME NEW t \in Seq(Message), NEW e \in Message, NEW k \in Nat, e.tool = k,
           Len(t) < MaxMessages => \A i \in DOMAIN t : (t[i].kind = "tool" /\ t[i].call = e.call)
                                                          => t[i].tool <= k
    PROVE  Reached(Trim(t \o <<e>>), e.call, k)
  <1> DEFINE ms == <<e>>
             u == t \o ms
  <1>0. ms \in Seq(Message) /\ Len(ms) = 1 /\ ms[1] = e
    OBVIOUS
  <1> SUFFICES ASSUME Len(Trim(t \o ms)) < MaxMessages
               PROVE  /\ \E i \in DOMAIN Trim(t \o ms) : /\ Trim(t \o ms)[i].call = e.call
                                                         /\ Trim(t \o ms)[i].tool = k
                      /\ \A i \in DOMAIN Trim(t \o ms) :
                            (Trim(t \o ms)[i].kind = "tool" /\ Trim(t \o ms)[i].call = e.call)
                               => Trim(t \o ms)[i].tool <= k
    BY DEF Reached
  <1> HIDE DEF ms
  <1>1. /\ Trim(t \o ms) = u /\ Len(t) < MaxMessages
        /\ Len(t) \in Nat /\ DOMAIN t = 1 .. Len(t) /\ DOMAIN ms = 1 .. Len(ms)
        /\ DOMAIN u = 1 .. Len(t) + Len(ms)
        /\ \A i \in 1 .. Len(t) : u[i] = t[i]
        /\ \A i \in 1 .. Len(ms) : u[Len(t) + i] = ms[i]
        /\ \A i \in 1 .. Len(t) + Len(ms) : i \in DOMAIN t \/ \E j \in DOMAIN ms : i = Len(t) + j
    BY <1>0, NotTrimmed
  <1> HIDE DEF u
  <1>2. Len(t) + 1 \in DOMAIN u /\ u[Len(t) + 1] = e
    BY <1>0, <1>1
  <1>3. ASSUME NEW i \in DOMAIN u, u[i].kind = "tool", u[i].call = e.call PROVE u[i].tool <= k
    <2>1. CASE i \in DOMAIN t
      <3>1. u[i] = t[i]
        BY <1>1, <2>1
      <3> QED  BY <1>1, <1>3, <2>1, <3>1
    <2>2. CASE \E j \in DOMAIN ms : i = Len(t) + j
      <3>1. u[i] = e
        BY <1>0, <1>1, <2>2
      <3> QED  BY <3>1
    <2> QED  BY <1>1, <2>1, <2>2
  <1> QED  BY <1>1, <1>2, <1>3

LEMMA FitsPlain ==
    ASSUME NEW t, NEW ms, \A i \in DOMAIN ms : ms[i].kind # "tool"
    PROVE  Fits(t, ms)
  BY DEF Fits

LEMMA FitsResult ==
    ASSUME NEW t \in Seq(Message), NEW m \in MemoryId, NEW c \in CallId, NEW k \in 1 .. NumTools,
           Reached(t, c, k - 1)
    PROVE  Fits(t, <<Result(m, c, k)>>)
  <1> DEFINE ms == <<Result(m, c, k)>>
  <1>1. DOMAIN ms = {1} /\ ms[1].kind = "tool" /\ ms[1].call = c /\ ms[1].tool = k
    BY DEF Result
  <1>2. k \in Nat /\ ~(k <= k - 1)
    BY Numbers
  <1> HIDE DEF ms
  <1>3. Fits(t, ms)
    <2> SUFFICES ASSUME Len(t) < MaxMessages
                 PROVE  /\ \E j \in DOMAIN t : t[j].call = c /\ t[j].tool = k - 1
                        /\ \A j \in DOMAIN t : ~(t[j].kind = "tool" /\ t[j].call = c /\ t[j].tool = k)
      BY <1>1 DEF Fits
    <2> QED  BY <1>2 DEF Reached
  <1> QED  BY <1>3 DEF ms

LEMMA FitsResults ==
    ASSUME NEW t \in Seq(Message), NEW m \in MemoryId, NEW c \in CallId, Reached(t, c, 0)
    PROVE  Fits(t, [k \in 1 .. NumTools |-> Result(m, c, k)])
  <1> DEFINE ms == [k \in 1 .. NumTools |-> Result(m, c, k)]
  <1>1. /\ DOMAIN ms = 1 .. NumTools /\ NumTools \in Nat
        /\ \A k \in 1 .. NumTools : ms[k].kind = "tool" /\ ms[k].call = c /\ ms[k].tool = k
    BY Numbers DEF Result
  <1> HIDE DEF ms
  <1>2. ASSUME Len(t) < MaxMessages, NEW i \in DOMAIN ms
        PROVE  /\ \/ \E j \in DOMAIN t : t[j].call = ms[i].call /\ t[j].tool = ms[i].tool - 1
                  \/ \E j \in 1 .. i - 1 : ms[j].call = ms[i].call /\ ms[j].tool = ms[i].tool - 1
               /\ \A j \in DOMAIN t : ~(/\ t[j].kind = "tool" /\ t[j].call = ms[i].call
                                        /\ t[j].tool = ms[i].tool)
               /\ \A j \in DOMAIN ms : (ms[j].call = ms[i].call /\ ms[j].tool = ms[i].tool) => i = j
    <2>1. i \in 1 .. NumTools /\ ms[i].call = c /\ ms[i].tool = i /\ i \in Nat /\ i > 0
      BY <1>1
    <2>2. \A j \in DOMAIN t : (t[j].kind = "tool" /\ t[j].call = c) => t[j].tool <= 0
      BY <1>2 DEF Reached
    <2>3. \A j \in DOMAIN t : ~(t[j].kind = "tool" /\ t[j].call = c /\ t[j].tool = i)
      BY <2>1, <2>2
    <2>4. CASE i = 1
      <3>1. \E j \in DOMAIN t : t[j].call = c /\ t[j].tool = 0
        BY <1>2 DEF Reached
      <3> QED  BY <1>1, <2>1, <2>3, <2>4, <3>1
    <2>5. CASE i # 1
      <3>1. i - 1 \in 1 .. i - 1 /\ i - 1 \in 1 .. NumTools
        BY <1>1, <2>1, <2>5
      <3>2. ms[i - 1].call = c /\ ms[i - 1].tool = i - 1
        BY <1>1, <3>1
      <3> QED  BY <1>1, <2>1, <2>3, <3>1, <3>2
    <2> QED  BY <2>4, <2>5
  <1>3. Fits(t, ms)
    BY <1>2 DEF Fits
  <1> QED  BY <1>3 DEF ms

(* Every transcript, in memory and on disk.                                *)
Texts ==
    /\ \A m \in MemoryId : Sound(memories[m].text) /\ Given(memories[m].text, issued)
    /\ \A s \in Session : Sound(disk[s].text) /\ Given(disk[s].text, issued)

LEMMA AddTexts ==
    ASSUME NEW m \in MemoryId, NEW object \in Object, NEW ms \in Seq(Message),
           memories \in [MemoryId -> Object], disk \in [Session -> File], Add(m, object, ms),
           Texts, issued \in Nat, issued' \in Nat, issued <= issued',
           Sound(object.text), Given(object.text, issued),
           ~object.deleted => Fits(object.text, ms) /\ \A i \in DOMAIN ms : ms[i].call <= issued'
    PROVE  Texts'
  <1>1. object.text \in Seq(Message) /\ object.session \in Session
    BY DEF Object
  <1>2. ASSUME NEW t \in Seq(Message), Given(t, issued) PROVE Given(t, issued')
    <2>1. ASSUME NEW i \in DOMAIN t PROVE t[i].call \in Nat
      <3>1. t[i] \in Message
        BY LenProperties, ElementOfSeq
      <3> QED  BY <3>1, Numbers DEF Message
    <2> QED  BY <1>2, <2>1 DEF Given
  <1>3. CASE object.deleted
    <2>1. memories' = memories /\ disk' = disk
      BY <1>3 DEF Add
    <2>2. /\ \A x \in MemoryId : Sound(memories[x].text) /\ Given(memories[x].text, issued')
          /\ \A s \in Session : Sound(disk[s].text) /\ Given(disk[s].text, issued')
      BY <1>2 DEF Texts, Object, File
    <2> QED  BY <2>1, <2>2 DEF Texts
  <1>4. CASE ~object.deleted
    <2>1. PICK n \in Saves(Len(ms)) :
             /\ memories' = [memories EXCEPT ![m] = [object EXCEPT !.text = Trim(object.text \o ms)]]
             /\ disk' = IF n = 0 THEN disk
                        ELSE Save(object.session, Trim(object.text \o SubSeq(ms, 1, n)))
      BY <1>4 DEF Add
    <2>2. n \in 0 .. Len(ms)
      BY AllOfIt, <2>1 DEF Saves
    <2> DEFINE a == Trim(object.text \o ms)
               b == Trim(object.text \o SubSeq(ms, 1, n))
    <2>3. Given(object.text, issued') /\ Given(ms, issued')
      BY <1>1, <1>2, <1>4 DEF Given
    <2>4. Sound(a) /\ Sound(b)
      BY <1>1, <1>4, <2>2, SoundGrows, SoundAll
    <2>5. Given(a, issued') /\ Given(b, issued')
      BY <1>1, <2>2, <2>3, GivenGrows
    <2>6. memories' = [memories EXCEPT ![m] = [object EXCEPT !.text = a]]
          /\ disk' = IF n = 0 THEN disk ELSE Save(object.session, b)
      BY <2>1
    <2> HIDE DEF a, b
    <2>7. memories'[m].text = a /\ \A x \in MemoryId : x # m => memories'[x] = memories[x]
      BY <2>6 DEF Object
    <2>8. \A s \in Session : disk'[s].text = disk[s].text \/ disk'[s].text = b
      BY <1>1, <2>6 DEF Save
    <2>9. ASSUME NEW x \in MemoryId
          PROVE  Sound(memories'[x].text) /\ Given(memories'[x].text, issued')
      <3>1. CASE x = m
        BY <2>4, <2>5, <2>7, <3>1
      <3>2. CASE x # m
        BY <1>2, <2>7, <3>2 DEF Texts, Object
      <3> QED  BY <3>1, <3>2
    <2>10. ASSUME NEW s \in Session
           PROVE  Sound(disk'[s].text) /\ Given(disk'[s].text, issued')
      <3>1. CASE disk'[s].text = b
        BY <2>4, <2>5, <3>1
      <3>2. CASE disk'[s].text = disk[s].text
        BY <1>2, <3>2 DEF Texts, File
      <3> QED  BY <2>8, <3>1, <3>2
    <2> QED  BY <2>9, <2>10 DEF Texts
  <1> QED  BY <1>3, <1>4

(* How far a call is, and the object that holds its messages: pending, or  *)
(* with the handler that has run its first k tools.                        *)
Stage(c, m, k) ==
    \/ c \in DOMAIN pending /\ m = pending[c].memory /\ k = 0
    \/ \E r \in Request : Working(r, c) /\ m = request[r].memory /\ k = request[r].tool - 1

(* The transcript of an open call is as far as the call.                   *)
Open ==
    \A c \in CallId, m \in MemoryId, k \in 0 .. NumTools :
        Stage(c, m, k) /\ ~memories[m].deleted => Reached(memories[m].text, c, k)

Order == Erasure /\ Tickets /\ Texts /\ Open

LEMMA StageHolder ==
    ASSUME Types, NEW c \in CallId, NEW m, NEW k, Stage(c, m, k)
    PROVE  m \in 1 .. created
  BY DEF Types, Holders, Stage, Working

(* No call gets further, and no object gets results of an open call.       *)
LEMMA OpenStays ==
    ASSUME Types, Open,
           \A c \in CallId, m \in MemoryId, k \in 0 .. NumTools : Stage(c, m, k)' => Stage(c, m, k),
           \A m \in MemoryId : m \in 1 .. created /\ ~memories'[m].deleted =>
              /\ ~memories[m].deleted
              /\ \/ memories'[m].text = memories[m].text
                 \/ \E ms \in Seq(Message) :
                       /\ memories'[m].text = Trim(memories[m].text \o ms)
                       /\ \A c \in CallId, k \in 0 .. NumTools : Stage(c, m, k)' =>
                             \A i \in DOMAIN ms : ~(ms[i].kind = "tool" /\ ms[i].call = c)
    PROVE  Open'
  <1>1. memories \in [MemoryId -> Object]
    BY TypesAre DEF Types, StoreTypes
  <1>2. ASSUME NEW c \in CallId, NEW m \in MemoryId, NEW k \in 0 .. NumTools,
               Stage(c, m, k)', ~memories'[m].deleted
        PROVE  Reached(memories'[m].text, c, k)
    <2>1. Stage(c, m, k) /\ m \in 1 .. created
      BY <1>2, StageHolder
    <2>2. ~memories[m].deleted /\ memories[m].text \in Seq(Message)
      BY <1>1, <1>2, <2>1 DEF Object
    <2>3. Reached(memories[m].text, c, k)
      BY <2>1, <2>2 DEF Open
    <2>4. CASE memories'[m].text = memories[m].text
      BY <2>3, <2>4
    <2>5. CASE memories'[m].text # memories[m].text
      <3>1. PICK ms \in Seq(Message) :
               /\ memories'[m].text = Trim(memories[m].text \o ms)
               /\ \A i \in DOMAIN ms : ~(ms[i].kind = "tool" /\ ms[i].call = c)
        BY <1>2, <2>1, <2>5
      <3>2. Reached(Trim(memories[m].text \o ms), c, k)
        BY <2>2, <2>3, <3>1, ReachedStays
      <3> QED  BY <3>1, <3>2
    <2> QED  BY <2>4, <2>5
  <1> QED  BY <1>2 DEF Open

LEMMA IdlesStages ==
    ASSUME Types, Idles
    PROVE  \A c \in CallId, m \in MemoryId, k \in 0 .. NumTools : Stage(c, m, k)' => Stage(c, m, k)
  <1> SUFFICES ASSUME NEW c \in CallId, NEW m \in MemoryId, NEW k \in 0 .. NumTools, Stage(c, m, k)'
               PROVE  Stage(c, m, k)
    OBVIOUS
  <1>1. CASE c \in DOMAIN pending' /\ m = pending'[c].memory /\ k = 0
    BY <1>1 DEF Idles, Stage
  <1>2. CASE \E r \in Request : Working(r, c)' /\ m = request'[r].memory /\ k = request'[r].tool - 1
    <2>1. PICK r \in Request : Working(r, c)' /\ m = request'[r].memory /\ k = request'[r].tool - 1
      BY <1>2
    <2>2. request'[r] = request[r] /\ Working(r, c)
      BY <2>1 DEF Idles, Working
    <2> QED  BY <2>1, <2>2 DEF Stage
  <1> QED  BY <1>1, <1>2 DEF Stage

LEMMA AddsText ==
    ASSUME Types, NEW m \in MemoryId, NEW ms \in Seq(Message), Adds(m, ms)
    PROVE  /\ \A x \in MemoryId : memories'[x].deleted = memories[x].deleted
           /\ \A x \in MemoryId : x # m => memories'[x] = memories[x]
           /\ \/ memories'[m].text = memories[m].text
              \/ memories'[m].text = Trim(memories[m].text \o ms)
           /\ ~memories[m].deleted => memories'[m].text = Trim(memories[m].text \o ms)
  <1>1. memories \in [MemoryId -> Object] /\ Add(m, memories[m], ms)
    BY TypesAre DEF Types, StoreTypes, Adds
  <1>2. CASE memories[m].deleted
    BY <1>1, <1>2 DEF Add
  <1>3. CASE ~memories[m].deleted
    <2> DEFINE a == Trim(memories[m].text \o ms)
    <2>1. memories' = [memories EXCEPT ![m] = [memories[m] EXCEPT !.text = a]]
      BY <1>1, <1>3 DEF Add
    <2> HIDE DEF a
    <2>2. memories'[m].text = a /\ memories'[m].deleted = memories[m].deleted
          /\ \A x \in MemoryId : x # m => memories'[x] = memories[x]
      BY <1>1, <2>1 DEF Object
    <2> QED  BY <1>3, <2>2 DEF a
  <1> QED  BY <1>2, <1>3

LEMMA OrderLeaves ==
    ASSUME Order, Erasure', Tickets', Leaves, UNCHANGED issued,
           \A c \in CallId, m \in MemoryId, k \in 0 .. NumTools : Stage(c, m, k)' => Stage(c, m, k)
    PROVE  Order'
  <1>1. Texts'
    BY DEF Order, Leaves, Texts
  <1>2. Types /\ Open /\ UNCHANGED memories
    BY DEF Order, Erasure, Leaves
  <1>3. Open'
    BY <1>2, OpenStays
  <1> QED  BY <1>1, <1>3 DEF Order

LEMMA OrderAdds ==
    ASSUME Order, Erasure', Tickets', Idles, NEW m \in 1 .. created, NEW ms \in Seq(Message),
           Adds(m, ms), Fits(memories[m].text, ms) \/ memories[m].deleted,
           \A i \in DOMAIN ms : ms[i].call <= issued,
           \A c \in CallId, k \in 0 .. NumTools : Stage(c, m, k)' =>
              \A i \in DOMAIN ms : ~(ms[i].kind = "tool" /\ ms[i].call = c)
    PROVE  Order'
  <1>1. /\ Types /\ Open /\ Texts /\ m \in MemoryId /\ memories[m] \in Object
        /\ memories \in [MemoryId -> Object] /\ disk \in [Session -> File]
        /\ issued \in Nat /\ issued' = issued /\ Add(m, memories[m], ms)
    BY TypesAre, Numbers DEF Order, Erasure, Types, StoreTypes, CallTypes, Adds, Idles
  <1>2. Texts'
    <2> DEFINE object == memories[m]
    <2>1. /\ object \in Object /\ Add(m, object, ms) /\ Sound(object.text) /\ Given(object.text, issued)
          /\ (Fits(object.text, ms) \/ object.deleted)
      BY <1>1 DEF Texts
    <2> HIDE DEF object
    <2>2. issued' \in Nat /\ issued <= issued' /\ \A i \in DOMAIN ms : ms[i].call <= issued'
      BY <1>1
    <2> QED  BY <1>1, <2>1, <2>2, AddTexts
  <1>3. Open'
    <2>1. /\ \A x \in MemoryId : memories'[x].deleted = memories[x].deleted
          /\ \A x \in MemoryId : x # m => memories'[x] = memories[x]
          /\ \/ memories'[m].text = memories[m].text
             \/ memories'[m].text = Trim(memories[m].text \o ms)
      BY <1>1, AddsText
    <2>2. ASSUME NEW x \in MemoryId
          PROVE  \/ memories'[x].text = memories[x].text
                 \/ \E y \in Seq(Message) :
                       /\ memories'[x].text = Trim(memories[x].text \o y)
                       /\ \A c \in CallId, k \in 0 .. NumTools : Stage(c, x, k)' =>
                             \A i \in DOMAIN y : ~(y[i].kind = "tool" /\ y[i].call = c)
      BY <2>1
    <2> QED  BY <1>1, <2>1, <2>2, OpenStays, IdlesStages
  <1> QED  BY <1>2, <1>3 DEF Order

LEMMA OrderChat ==
    ASSUME Order, Erasure', Tickets', Idles, NEW r \in Request, NEW s \in Session, Chat(r, s)
    PROVE  Order'
  <1> DEFINE m == MemoryOf(s)
             object == ObjectOf(s)
             ms == <<Text(m)>>
  <1>1. /\ Types /\ Types' /\ StoreTypes /\ Holders /\ Open /\ Texts /\ Known
        /\ memories \in [MemoryId -> Object] /\ disk \in [Session -> File]
        /\ created \in Nat /\ issued \in Nat /\ issued' = issued
    BY TypesAre, Numbers DEF Order, Erasure, Types, StoreTypes, CallTypes, Idles
  <1>2. m \in MemoryId /\ Add(m, object, ms)
    BY DEF Chat
  <1>3. ms \in Seq(Message) /\ Plain(ms)
    <2>1. m \in MemoryId
      BY <1>2
    <2> HIDE DEF m
    <2> QED  BY <2>1, Messages, WrittenBy
  <1>4. object \in Object /\ ~object.deleted /\ Sound(object.text) /\ Given(object.text, issued)
    <2>1. object \in Object
      BY <1>1, ObjectTypes
    <2>2. CASE current[s] # None
      <3>1. object = memories[current[s]] /\ current[s] \in MemoryId
        BY <1>1, <2>2 DEF ObjectOf, StoreTypes
      <3>2. ~memories[current[s]].deleted
        BY <1>1, <2>2 DEF Known
      <3> HIDE DEF object
      <3> QED  BY <1>1, <2>1, <3>1, <3>2 DEF Texts
    <2>3. CASE current[s] = None
      <3>1. object = [session |-> s, text |-> disk[s].text, deleted |-> FALSE]
        BY <2>3 DEF ObjectOf
      <3> HIDE DEF object
      <3> QED  BY <1>1, <2>1, <3>1 DEF Texts
    <2> QED  BY <2>2, <2>3
  <1>5. m \in 1 .. created => /\ memories[m] = object
                              /\ ~memories[m].deleted
    BY <1>1, <1>4 DEF MemoryOf, ObjectOf
  <1> HIDE DEF m, object, ms
  <1>6. Fits(object.text, ms) /\ \A i \in DOMAIN ms : ms[i].call <= issued
    <2>1. \A i \in DOMAIN ms : ms[i].kind # "tool" /\ ms[i].call = 0
      BY <1>3, Numbers DEF Plain
    <2> QED  BY <1>1, <2>1, FitsPlain
  <1>7. Texts'
    <2>1. issued' \in Nat /\ issued <= issued' /\ \A i \in DOMAIN ms : ms[i].call <= issued'
      BY <1>1, <1>6
    <2> QED  BY <1>1, <1>2, <1>3, <1>4, <1>6, <2>1, AddTexts
  <1>8. Open'
    <2>1. PICK a : memories' = [memories EXCEPT ![m] = [object EXCEPT !.text = a]]
                   /\ a = Trim(object.text \o ms)
      BY <1>2, <1>4 DEF Add
    <2>2. /\ \A x \in MemoryId : x # m => memories'[x] = memories[x]
          /\ memories'[m].text = Trim(object.text \o ms)
      BY <1>1, <1>2, <1>4, <2>1 DEF Object
    <2>3. ASSUME NEW x \in MemoryId, x \in 1 .. created, ~memories'[x].deleted
          PROVE  /\ ~memories[x].deleted
                 /\ \/ memories'[x].text = memories[x].text
                    \/ \E y \in Seq(Message) :
                          /\ memories'[x].text = Trim(memories[x].text \o y)
                          /\ \A c \in CallId, k \in 0 .. NumTools : Stage(c, x, k)' =>
                                \A i \in DOMAIN y : ~(y[i].kind = "tool" /\ y[i].call = c)
      <3>1. CASE x # m
        BY <2>2, <2>3, <3>1
      <3>2. CASE x = m
        <4>1. memories[m] = object /\ ~memories[m].deleted
          BY <1>5, <2>3, <3>2
        <4>2. memories'[m].text = Trim(memories[m].text \o ms)
          BY <2>2, <4>1
        <4> QED  BY <1>3, <3>2, <4>1, <4>2 DEF Plain
      <3> QED  BY <3>1, <3>2
    <2> QED  BY <1>1, <2>3, OpenStays, IdlesStages
  <1> QED  BY <1>7, <1>8 DEF Order

(* Objects and files stay as they are or are emptied.                      *)
LEMMA OrderEmpties ==
    ASSUME Order, Erasure', Tickets', Idles,
           \A m \in MemoryId : \/ memories'[m].text = memories[m].text
                               \/ memories'[m].text = <<>>,
           \A m \in MemoryId : m \in 1 .. created /\ ~memories'[m].deleted =>
              ~memories[m].deleted /\ memories'[m].text = memories[m].text,
           \A s \in Session : disk'[s].text = disk[s].text \/ disk'[s].text = <<>>
    PROVE  Order'
  <1>1. Types /\ Open /\ Texts /\ issued' = issued
    BY DEF Order, Erasure, Idles
  <1>2. Sound(<<>>) /\ Given(<<>>, issued)
    BY DEF Sound, Given
  <1>3. Texts'
    BY <1>1, <1>2 DEF Texts
  <1>4. Open'
    BY <1>1, OpenStays, IdlesStages
  <1> QED  BY <1>3, <1>4 DEF Order

LEMMA OrderDeletes ==
    ASSUME Order, Erasure', Tickets', Idles, NEW S, NEW old, NEW T, NEW failed,
           Deletes(S, old, T, failed)
    PROVE  Order'
  <1>1. /\ memories \in [MemoryId -> Object] /\ disk \in [Session -> File]
    BY TypesAre DEF Order, Erasure, Types, StoreTypes
  <1>2. /\ memories' = [m \in MemoryId |-> IF \E s \in S : current[s] = m THEN Drop(m) ELSE memories[m]]
        /\ disk' = [s \in Session |-> IF s \in T \ failed THEN NoFile ELSE disk[s]]
    BY DEF Deletes, Forget, Unlink
  <1>3. ASSUME NEW m \in MemoryId
        PROVE  memories'[m] = memories[m] \/ (memories'[m].deleted /\ memories'[m].text = <<>>)
    BY <1>1, <1>2 DEF Drop, Object
  <1>4. \A s \in Session : disk'[s].text = disk[s].text \/ disk'[s].text = <<>>
    BY <1>2 DEF NoFile
  <1> QED  BY <1>3, <1>4, OrderEmpties

LEMMA OrderRestart ==
    ASSUME Order, Erasure', Tickets', Idles, NEW torn, NEW failed, Restart(torn, failed)
    PROVE  Order'
  <1>1. /\ memories \in [MemoryId -> Object] /\ disk \in [Session -> File] /\ created \in Nat
        /\ Emptied
    BY TypesAre, Numbers DEF Order, Erasure, Types, StoreTypes
  <1> DEFINE files == [s \in Session |-> IF s \in torn THEN [disk[s] EXCEPT !.text = <<>>] ELSE disk[s]]
  <1>2. /\ memories' = [m \in MemoryId |-> IF m <= created THEN Drop(m) ELSE memories[m]]
        /\ disk' = [s \in Session |-> IF s \in Orphans(files, {}) \ failed THEN NoFile ELSE files[s]]
    BY DEF Restart, Unlink
  <1>3. ASSUME NEW m \in MemoryId
        PROVE  /\ m <= created => memories'[m].deleted /\ memories'[m].text = <<>>
               /\ ~(m <= created) => memories'[m] = memories[m]
    BY <1>1, <1>2 DEF Drop, Object
  <1>4. \A s \in Session : files[s].text = disk[s].text \/ files[s].text = <<>>
    BY <1>1 DEF File
  <1> HIDE DEF files
  <1>5. \A s \in Session : disk'[s].text = disk[s].text \/ disk'[s].text = <<>>
    BY <1>2, <1>4 DEF NoFile
  <1>6. \A m \in MemoryId : m \in 1 .. created => m <= created
    BY <1>1
  <1> QED  BY <1>3, <1>5, <1>6, OrderEmpties

LEMMA OrderApprove ==
    ASSUME Order, Erasure', Tickets', NEW r \in Request, NEW c \in CallId, NEW s \in Session,
           Approve(r, c, s)
    PROVE  Order'
  <1> DEFINE x == [pc |-> "tool", memory |-> pending[c].memory,
                   iteration |-> pending[c].iteration, call |-> c, tool |-> 1]
  <1>1. /\ c \in DOMAIN pending /\ Take(c) /\ request' = [request EXCEPT ![r] = x]
        /\ UNCHANGED <<issued, current, memories, created, disk, erased>>
    BY DEF Approve, Owner
  <1>2. x.pc = "tool" /\ x.memory = pending[c].memory /\ x.call = c /\ x.tool = 1
    OBVIOUS
  <1> HIDE DEF x
  <1>3. request \in [Request -> State]
    BY TypesAre DEF Order, Erasure, Types, RequestTypes
  <1>4. request'[r] = x /\ \A q \in Request : q # r => request'[q] = request[q]
    BY <1>1, <1>3
  <1>5. DOMAIN pending' \subseteq DOMAIN pending /\ \A d \in DOMAIN pending' : pending'[d] = pending[d]
    BY <1>1 DEF Take
  <1>6. ASSUME NEW d \in CallId, NEW m \in MemoryId, NEW k \in 0 .. NumTools, Stage(d, m, k)'
        PROVE  Stage(d, m, k)
    <2>1. CASE d \in DOMAIN pending' /\ m = pending'[d].memory /\ k = 0
      BY <1>5, <2>1 DEF Stage
    <2>2. CASE Working(r, d)' /\ m = request'[r].memory /\ k = request'[r].tool - 1
      <3>1. d = c /\ m = pending[c].memory
        BY <1>2, <1>4, <2>2 DEF Working
      <3>2. k = 0
        BY <1>2, <1>4, <2>2
      <3> QED  BY <1>1, <3>1, <3>2 DEF Stage
    <2>3. CASE \E q \in Request : /\ q # r /\ Working(q, d)'
                                  /\ m = request'[q].memory /\ k = request'[q].tool - 1
      BY <1>4, <2>3 DEF Stage, Working
    <2> QED  BY <1>6, <2>1, <2>2, <2>3 DEF Stage
  <1>7. Leaves
    BY <1>1 DEF Leaves
  <1> QED  BY <1>1, <1>6, <1>7, OrderLeaves

LEMMA OrderReject ==
    ASSUME Order, Erasure', Tickets', Idles, NEW r \in Request, NEW c \in CallId, NEW s \in Session,
           Reject(r, c, s)
    PROVE  Order'
  <1>1. /\ Types /\ Open /\ c <= issued /\ memories \in [MemoryId -> Object]
        /\ c \in DOMAIN pending /\ Untouched(c)
    BY TypesAre, Numbers DEF Order, Erasure, Types, CallTypes, StoreTypes, Tickets, Reject
  <1>2. PICK m \in 1 .. created : m = pending[c].memory
    BY <1>1 DEF Types, Holders
  <1> DEFINE ms == [k \in 1 .. NumTools |-> Result(m, c, k)]
  <1>3. m \in MemoryId /\ ms \in Seq(Message) /\ Adds(m, ms)
    BY <1>1, <1>2, RejectAdds
  <1>4. Fits(memories[m].text, ms) \/ memories[m].deleted
    <2> SUFFICES ASSUME ~memories[m].deleted PROVE Fits(memories[m].text, ms)
      OBVIOUS
    <2>1. Stage(c, m, 0) /\ 0 \in 0 .. NumTools
      BY <1>1, <1>2, Numbers DEF Stage
    <2>2. Reached(memories[m].text, c, 0)
      BY <1>1, <1>3, <2>1 DEF Open
    <2>3. memories[m].text \in Seq(Message)
      BY <1>1, <1>3 DEF Object
    <2> QED  BY <1>3, <2>2, <2>3, FitsResults
  <1>5. \A i \in DOMAIN ms : ms[i].call = c
    BY DEF Result
  <1>6. \A k \in 0 .. NumTools : ~Stage(c, m, k)'
    <2>1. c \notin DOMAIN pending'
      BY DEF Reject, Take
    <2>2. \A q \in Request : ~Working(q, c)'
      BY <1>1 DEF Idles, Untouched, Working
    <2> QED  BY <2>1, <2>2 DEF Stage
  <1> HIDE DEF ms
  <1>7. \A d \in CallId, k \in 0 .. NumTools : Stage(d, m, k)' =>
           \A i \in DOMAIN ms : ~(ms[i].kind = "tool" /\ ms[i].call = d)
    BY <1>5, <1>6
  <1>8. \A i \in DOMAIN ms : ms[i].call <= issued
    BY <1>1, <1>5
  <1> QED  BY <1>2, <1>3, <1>4, <1>7, <1>8, OrderAdds

LEMMA OrderCalls ==
    ASSUME Order, Erasure', Tickets', NEW r \in Request, ModelCalls(r)
    PROVE  Order'
  <1> DEFINE m == request[r].memory
             c == issued + 1
             ms == <<Call(m, c)>>
  <1>1. /\ Types /\ Open /\ Texts /\ memories \in [MemoryId -> Object] /\ disk \in [Session -> File]
        /\ issued \in Nat /\ issued' = c /\ issued' \in Nat /\ issued <= issued'
        /\ request \in [Request -> State] /\ DOMAIN pending \subseteq 1 .. issued
    BY TypesAre, Numbers
       DEF Order, Erasure, Types, StoreTypes, CallTypes, RequestTypes, ModelCalls
  <1>2. /\ m \in 1 .. created /\ m \in MemoryId /\ c \in CallId /\ ms \in Seq(Message) /\ Adds(m, ms)
        /\ memories[m] \in Object /\ Add(m, memories[m], ms)
    BY <1>1, CallAdds DEF Adds
  <1>3. /\ \A d \in DOMAIN pending' : d # c => d \in DOMAIN pending /\ pending'[d] = pending[d]
        /\ pending'[c].memory = m
        /\ request' = [request EXCEPT ![r] = Rest]
    BY DEF ModelCalls, Ends
  <1>4. /\ \A i \in DOMAIN ms : ms[i].call = c /\ ms[i].kind # "tool"
        /\ Call(m, c) \in Message /\ Call(m, c).call = c /\ Call(m, c).tool = 0
    <2>1. Call(m, c) \in Message
      BY <1>2, Messages
    <2> QED  BY <2>1 DEF Call
  <1>5. Texts'
    <2> DEFINE object == memories[m]
    <2>1. /\ object \in Object /\ Add(m, object, ms) /\ Sound(object.text) /\ Given(object.text, issued)
          /\ Fits(object.text, ms)
      BY <1>1, <1>2, <1>4, FitsPlain DEF Texts
    <2>2. \A i \in DOMAIN ms : ms[i].call <= issued'
      BY <1>1, <1>4
    <2> HIDE DEF object, m, ms
    <2> QED  BY <1>1, <1>2, <2>1, <2>2, AddTexts
  <1>6. /\ \A x \in MemoryId : memories'[x].deleted = memories[x].deleted
        /\ \A x \in MemoryId : x # m => memories'[x] = memories[x]
        /\ \/ memories'[m].text = memories[m].text
           \/ memories'[m].text = Trim(memories[m].text \o ms)
        /\ ~memories[m].deleted => memories'[m].text = Trim(memories[m].text \o ms)
    <2> HIDE DEF m, ms
    <2> QED  BY <1>1, <1>2, AddsText
  <1>7. \A q \in Request : request'[q] = request[q] \/ request'[q].pc # "tool"
    BY <1>1, <1>3 DEF Rest
  <1>8. ASSUME NEW d \in CallId, NEW x \in MemoryId, NEW k \in 0 .. NumTools, Stage(d, x, k)'
        PROVE  Stage(d, x, k) \/ (d = c /\ x = m /\ k = 0)
    <2>1. CASE d \in DOMAIN pending' /\ x = pending'[d].memory /\ k = 0
      BY <1>3, <2>1 DEF Stage
    <2>2. CASE \E q \in Request : /\ Working(q, d)'
                                  /\ x = request'[q].memory /\ k = request'[q].tool - 1
      BY <1>7, <2>2 DEF Stage, Working
    <2> QED  BY <1>8, <2>1, <2>2 DEF Stage
  <1>9. Open'
    <2> SUFFICES ASSUME NEW d \in CallId, NEW x \in MemoryId, NEW k \in 0 .. NumTools,
                        Stage(d, x, k)', ~memories'[x].deleted
                 PROVE  Reached(memories'[x].text, d, k)
      BY DEF Open
    <2>1. ~memories[x].deleted /\ memories[x].text \in Seq(Message)
      BY <1>1, <1>6 DEF Object
    <2> HIDE DEF ms
    <2>2. CASE Stage(d, x, k)
      <3>1. Reached(memories[x].text, d, k)
        BY <1>1, <2>1, <2>2 DEF Open
      <3>2. Reached(Trim(memories[x].text \o ms), d, k)
        BY <1>2, <1>4, <2>1, <3>1, ReachedStays
      <3> QED  BY <1>6, <3>1, <3>2
    <2>3. CASE d = c /\ x = m /\ k = 0
      <3>1. memories'[m].text = Trim(memories[m].text \o ms)
        BY <1>6, <2>1, <2>3
      <3> DEFINE t == memories[m].text
                 e == Call(m, c)
      <3>2. t \in Seq(Message) /\ e \in Message /\ e.tool = 0 /\ e.call = c /\ ms = <<e>>
        BY <1>4, <2>1, <2>3 DEF ms
      <3>3. \A i \in DOMAIN t : t[i].call # c
        BY <1>1, <1>2 DEF Texts, Given
      <3> HIDE DEF t, e
      <3>4. Reached(Trim(t \o <<e>>), e.call, 0)
        BY <3>2, <3>3, ReachedNext
      <3>5. Reached(Trim(t \o ms), c, 0)
        BY <3>2, <3>4, Zenon
      <3> QED  BY <2>3, <3>1, <3>5 DEF t
    <2> QED  BY <1>8, <2>2, <2>3
  <1> QED  BY <1>5, <1>9 DEF Order

LEMMA OrderTool ==
    ASSUME Order, Erasure', Tickets', NEW r \in Request, RunTool(r)
    PROVE  Order'
  <1> DEFINE m == request[r].memory
             c == request[r].call
             k == request[r].tool
             e == Result(m, c, k)
             ms == <<e>>
  <1>1. /\ Types /\ Open /\ Texts /\ memories \in [MemoryId -> Object] /\ disk \in [Session -> File]
        /\ issued \in Nat /\ issued' = issued /\ request \in [Request -> State]
        /\ UNCHANGED pending
    BY TypesAre, Numbers
       DEF Order, Erasure, Types, StoreTypes, CallTypes, RequestTypes, RunTool
  <1>2. /\ m \in 1 .. created /\ m \in MemoryId /\ c \in CallId /\ c <= issued /\ k \in 1 .. NumTools
        /\ ms \in Seq(Message) /\ Adds(m, ms) /\ memories[m] \in Object /\ Add(m, memories[m], ms)
    BY <1>1, ToolAdds DEF Adds
  <1>3. e \in Message /\ e.call = c /\ e.tool = k /\ e.kind = "tool" /\ k - 1 \in 0 .. NumTools /\ k \in Nat
    <2>1. e \in Message
      BY <1>2, Messages
    <2>2. k - 1 \in 0 .. NumTools /\ k \in Nat
      <3> HIDE DEF k
      <3> QED  BY <1>2, Numbers
    <2> QED  BY <2>1, <2>2 DEF Result
  <1>4. Working(r, c) /\ Stage(c, m, k - 1)
    BY <1>1 DEF RunTool, Working, Stage
  <1>5. ~memories[m].deleted => /\ memories[m].text \in Seq(Message)
                                /\ Reached(memories[m].text, c, k - 1)
    BY <1>1, <1>2, <1>3, <1>4 DEF Open, Object
  <1>6. ~memories[m].deleted => Fits(memories[m].text, ms)
    BY <1>2, <1>5, FitsResult
  <1>7. PICK x : /\ request' = [request EXCEPT ![r] = x]
                 /\ x.pc = "tool" => x.call = c /\ x.tool = k + 1 /\ x.memory = m
    <2>1. CASE k < NumTools
      BY <1>1, <2>1 DEF RunTool, State
    <2>2. CASE ~(k < NumTools)
      <3>1. Continue(r, m, request[r].iteration) /\ request[r].iteration \in Nat
        BY <1>1, <2>2 DEF RunTool, State
      <3>2. \E y \in State : request' = [request EXCEPT ![r] = y] /\ y.pc \in {"idle", "retrieve"}
        BY <1>1, <1>2, <3>1, ContinueTypes
      <3> QED  BY <3>2
    <2> QED  BY <2>1, <2>2
  <1>8. request'[r] = x /\ \A q \in Request : q # r => request'[q] = request[q]
    BY <1>1, <1>7
  <1>9. /\ c \notin DOMAIN pending
        /\ \A q \in Request : Working(q, c) => q = r
    BY <1>2, <1>4 DEF Order, Tickets, Untouched
  <1> HIDE DEF m, c, k, e, ms
  <1>10. DOMAIN ms = {1} /\ ms[1] = e
    BY DEF ms
  <1>11. Texts'
    <2> DEFINE object == memories[m]
    <2>1. /\ object \in Object /\ Add(m, object, ms) /\ Sound(object.text) /\ Given(object.text, issued)
          /\ ~object.deleted => Fits(object.text, ms)
      BY <1>1, <1>2, <1>6 DEF Texts
    <2>2. /\ \A i \in DOMAIN ms : ms[i].call <= issued'
          /\ issued' \in Nat /\ issued <= issued'
      BY <1>1, <1>2, <1>3, <1>10
    <2> HIDE DEF object
    <2> QED  BY <1>1, <1>2, <2>1, <2>2, AddTexts
  <1>12. /\ \A y \in MemoryId : memories'[y].deleted = memories[y].deleted
         /\ \A y \in MemoryId : y # m => memories'[y] = memories[y]
         /\ \/ memories'[m].text = memories[m].text
            \/ memories'[m].text = Trim(memories[m].text \o ms)
         /\ ~memories[m].deleted => memories'[m].text = Trim(memories[m].text \o ms)
    BY <1>1, <1>2, AddsText
  <1>13. ASSUME NEW d \in CallId, NEW y \in MemoryId, NEW j \in 0 .. NumTools, Stage(d, y, j)'
         PROVE  (Stage(d, y, j) /\ d # c) \/ (d = c /\ y = m /\ j = k)
    <2>1. CASE d \in DOMAIN pending' /\ y = pending'[d].memory /\ j = 0
      BY <1>1, <1>9, <2>1 DEF Stage
    <2>2. CASE Working(r, d)' /\ y = request'[r].memory /\ j = request'[r].tool - 1
      BY <1>3, <1>7, <1>8, <2>2 DEF Working
    <2>3. CASE \E q \in Request : /\ q # r /\ Working(q, d)'
                                  /\ y = request'[q].memory /\ j = request'[q].tool - 1
      <3>1. PICK q \in Request : /\ q # r /\ Working(q, d)'
                                 /\ y = request'[q].memory /\ j = request'[q].tool - 1
        BY <2>3
      <3>2. Working(q, d) /\ request'[q] = request[q]
        BY <1>8, <3>1 DEF Working
      <3> QED  BY <1>9, <3>1, <3>2 DEF Stage
    <2> QED  BY <1>13, <2>1, <2>2, <2>3 DEF Stage
  <1>14. Open'
    <2> SUFFICES ASSUME NEW d \in CallId, NEW y \in MemoryId, NEW j \in 0 .. NumTools,
                        Stage(d, y, j)', ~memories'[y].deleted
                 PROVE  Reached(memories'[y].text, d, j)
      BY DEF Open
    <2>1. ~memories[y].deleted /\ memories[y].text \in Seq(Message)
      BY <1>1, <1>12 DEF Object
    <2>2. CASE Stage(d, y, j) /\ d # c
      <3>1. Reached(memories[y].text, d, j)
        BY <1>1, <2>1, <2>2 DEF Open
      <3>2. \A i \in DOMAIN ms : ~(ms[i].kind = "tool" /\ ms[i].call = d)
        BY <1>3, <1>10, <2>2
      <3>3. Reached(Trim(memories[y].text \o ms), d, j)
        BY <1>2, <2>1, <3>1, <3>2, ReachedStays
      <3> QED  BY <1>12, <3>1, <3>3
    <2>3. CASE d = c /\ y = m /\ j = k
      <3>1. memories'[m].text = Trim(memories[m].text \o ms)
        BY <1>12, <2>1, <2>3
      <3> DEFINE t == memories[m].text
      <3>2. t \in Seq(Message) /\ ms = <<e>> /\ Reached(t, c, k - 1)
        BY <1>5, <2>1, <2>3 DEF ms
      <3> HIDE DEF t
      <3>3. Len(t) < MaxMessages => \A i \in DOMAIN t : (t[i].kind = "tool" /\ t[i].call = e.call)
                                                           => t[i].tool <= k
        <4>1. \A i \in DOMAIN t : t[i].tool \in Nat
          <5>1. \A i \in DOMAIN t : t[i] \in Message
            BY <3>2, LenProperties, ElementOfSeq
          <5> QED  BY <5>1, Numbers DEF Message
        <4>2. \A n \in Nat : n <= k - 1 => n <= k
          BY <1>3
        <4> QED  BY <1>3, <3>2, <4>1, <4>2 DEF Reached
      <3>4. Reached(Trim(t \o <<e>>), e.call, k)
        BY <1>3, <3>2, <3>3, ReachedNext
      <3>5. Reached(Trim(t \o ms), c, k)
        BY <1>3, <3>2, <3>4, Zenon
      <3> QED  BY <2>3, <3>1, <3>5 DEF t
    <2> QED  BY <1>13, <2>2, <2>3
  <1> QED  BY <1>11, <1>14 DEF Order

LEMMA OrderInit == Init => Order
  <1> SUFFICES ASSUME Init PROVE Order
    OBVIOUS
  <1>1. Erasure /\ Tickets
    BY ErasureInit, TicketsInit
  <1>2. /\ \A m \in MemoryId : memories[m].text = <<>>
        /\ \A s \in Session : disk[s].text = <<>>
    BY DEF Init, Fresh, NoFile
  <1>3. \A n : Sound(<<>>) /\ Given(<<>>, n)
    BY DEF Sound, Given
  <1>4. Texts
    BY <1>2, <1>3 DEF Texts
  <1>5. DOMAIN pending = {} /\ \A r \in Request : request[r].pc = "idle"
    BY DEF Init, Rest
  <1>6. Open
    BY <1>5 DEF Open, Stage, Working
  <1> QED  BY <1>1, <1>4, <1>6 DEF Order

LEMMA OrderStep == Order /\ [Next]_vars => Order'
  <1> SUFFICES ASSUME Order, [Next]_vars PROVE Order'
    OBVIOUS
  <1>1. Types /\ Erasure' /\ Tickets'
    BY ErasureStep, TicketsStep DEF Order, Erasure
  <1>2. CASE UNCHANGED vars
    <2>1. Idles /\ Leaves /\ UNCHANGED issued
      BY <1>2 DEF vars, Idles, Leaves
    <2> QED  BY <1>1, <2>1, IdlesStages, OrderLeaves
  <1>3. CASE Next
    <2>1. CASE \E r \in Request : ModelCalls(r) \/ RunTool(r)
      BY <1>1, <2>1, OrderCalls, OrderTool
    <2>2. CASE \E r \in Request, c \in CallId, s \in Session : Approve(r, c, s)
      BY <1>1, <2>2, OrderApprove
    <2>3. CASE Idles
      <3>1. CASE Leaves
        BY <1>1, <2>3, <3>1, IdlesStages, OrderLeaves DEF Idles
      <3>2. ASSUME NEW m \in 1 .. created, NEW ms \in Seq(Message), Adds(m, ms), Plain(ms)
            PROVE  Order'
        <4>1. Fits(memories[m].text, ms) /\ \A i \in DOMAIN ms : ms[i].call <= issued
          <5>1. \A i \in DOMAIN ms : ms[i].kind # "tool" /\ ms[i].call = 0 /\ issued \in Nat
            BY <1>1, <3>2, TypesAre, Numbers DEF Plain, Types, CallTypes
          <5> QED  BY <5>1, FitsPlain
        <4> QED  BY <1>1, <2>3, <3>2, <4>1, OrderAdds DEF Plain
      <3>3. ASSUME NEW r \in Request, NEW c \in CallId, NEW s \in Session, Reject(r, c, s)
            PROVE  Order'
        BY <1>1, <2>3, <3>3, OrderReject
      <3>4. ASSUME NEW r \in Request, NEW s \in Session, Chat(r, s) PROVE Order'
        BY <1>1, <2>3, <3>4, OrderChat
      <3>5. ASSUME NEW S, NEW old, NEW T, NEW failed, Deletes(S, old, T, failed) PROVE Order'
        BY <1>1, <2>3, <3>5, OrderDeletes
      <3>6. ASSUME NEW torn, NEW failed, Restart(torn, failed) PROVE Order'
        BY <1>1, <2>3, <3>6, OrderRestart
      <3> QED  BY <1>1, <1>3, <2>1, <3>1, <3>2, <3>3, <3>4, <3>5, <3>6, StoreSteps
    <2> QED  BY <1>1, <1>3, <2>1, <2>2, <2>3, CallSteps
  <1> QED  BY <1>2, <1>3

(* A result stands behind its call, or behind the result of the tool       *)
(* before it, and only once, in the transcript of every object, whatever   *)
(* other requests wrote into it between a call and its approval, after a   *)
(* cut, a restart or a load of a file whose last writes had failed         *)
(* (ResultsFollowCalls).                                                   *)
THEOREM ResultsInOrder == Spec => []ResultsFollowCalls
  <1>1. Order => ResultsFollowCalls
    BY DEF Order, Texts, Sound, ResultsFollowCalls
  <1> QED  BY <1>1, OrderInit, OrderStep, PTL DEF Spec

-----------------------------------------------------------------------------
(* Files.                                                                  *)

LEMMA AddKeepsFiles ==
    ASSUME disk \in [Session -> File], NEW m, NEW object, NEW ms, Add(m, object, ms)
    PROVE  \A s \in Session : disk[s].there => disk'[s].there
  <1>1. CASE object.deleted
    BY <1>1 DEF Add
  <1>2. CASE ~object.deleted
    <2>1. PICK n : disk' = IF n = 0 THEN disk
                           ELSE Save(object.session, Trim(object.text \o SubSeq(ms, 1, n)))
      BY <1>2 DEF Add
    <2> QED  BY <2>1 DEF Save
  <1> QED  BY <1>1, <1>2

LEMMA LiveFileStep ==
    ASSUME Types, Next, NEW s \in Session,
           disk[s].there, current[s] # None, current'[s] = current[s]
    PROVE  disk'[s].there
  <1>0. disk \in [Session -> File] /\ \A m \in 1 .. created : m \in MemoryId
    BY TypesAre, Numbers DEF Types, StoreTypes
  <1>1. CASE Leaves
    BY <1>1 DEF Leaves
  <1>2. ASSUME NEW m, NEW ms, Adds(m, ms) PROVE disk'[s].there
    BY <1>0, <1>2, AddKeepsFiles DEF Adds
  <1>3. CASE \E r \in Request : ModelCalls(r) \/ RunTool(r)
    BY <1>2, <1>3, CallAdds, ToolAdds
  <1>4. CASE \E r \in Request, c \in CallId, x \in Session : Reject(r, c, x)
    BY <1>2, <1>4, RejectAdds
  <1>5. ASSUME NEW r \in Request, NEW x \in Session, Chat(r, x) PROVE disk'[s].there
    BY <1>0, <1>5, AddKeepsFiles DEF Chat
  <1>6. ASSUME NEW S, NEW old, NEW T, NEW failed, Deletes(S, old, T, failed)
        PROVE  disk'[s].there
    <2>1. s \notin S
      BY <1>6 DEF Deletes, Forget
    <2>2. s \notin T
      BY <1>6, <2>1 DEF Deletes
    <2> QED  BY <1>6, <2>2 DEF Deletes, Unlink
  <1>7. ASSUME NEW torn, NEW failed, Restart(torn, failed) PROVE FALSE
    BY <1>7 DEF Restart
  <1> QED  BY <1>1, <1>2, <1>3, <1>4, <1>5, <1>6, <1>7, StoreSteps

(* No sweep takes the file of a session the process serves: a file goes    *)
(* with its session's object only (LiveFileStays).                         *)
THEOREM FileStays == Spec => LiveFileStays
  <1>1. Types /\ [Next]_vars => [\A s \in Session :
           (disk[s].there /\ current[s] # None /\ current'[s] = current[s])
              => disk'[s].there]_vars
    BY LiveFileStep
  <1> QED  BY <1>1, TypesInit, TypesStep, PTL DEF Spec, LiveFileStays

-----------------------------------------------------------------------------
(* The answer of a model that ModelAnswers and ModelCalls take is one call *)
(* of ModelFallback.  What follows is about that call, for chains of any   *)
(* length and streams of any number of tokens.                             *)
CONSTANTS Provider, MaxTokens

VARIABLES kind, at, spoke

Fallback == INSTANCE ModelFallback

(* The helper goes on to the next attempt only before the first token, and *)
(* whatever was said was said by the attempt it is at.                     *)
Committed ==
    /\ helper \in {"next", "close"} => ~spoke
    /\ spoke \in BOOLEAN
    /\ helper \in {"next", "wait", "close"} /\ ~spoke => said = <<>>
    /\ said \in Seq(Nat) /\ at \in Nat
    /\ \A i \in 1 .. Len(said) : said[i] = at

LEMMA NothingSaid == <<>> \in Seq(Nat) /\ 1 .. Len(<<>>) = {}
  OBVIOUS

LEMMA CommittedInit == Fallback!Init => Committed
  <1> SUFFICES ASSUME Fallback!Init PROVE Committed
    OBVIOUS
  <1>1. helper = "next" /\ spoke = FALSE /\ said = <<>> /\ at = 1
    BY DEF Fallback!Init
  <1> QED  BY <1>1, NothingSaid DEF Committed

LEMMA CommittedStep == Committed /\ [Fallback!Next]_(Fallback!vars) => Committed'
  <1> SUFFICES ASSUME Committed, [Fallback!Next]_(Fallback!vars) PROVE Committed'
    OBVIOUS
  <1> USE DEF Committed
  <1>1. CASE Fallback!Start
    <2>1. ~spoke /\ said = <<>> /\ said' = said /\ spoke' = FALSE
      BY <1>1 DEF Fallback!Start
    <2>2. at' \in Nat
      BY <1>1 DEF Fallback!Start, Fallback!GiveUp, Fallback!MoveOn
    <2> QED  BY <2>1, <2>2, NothingSaid
  <1>2. CASE Fallback!Token
    <2>1. /\ said' = Append(said, at) /\ at' = at /\ helper' = helper /\ helper = "wait" /\ spoke' = TRUE
      BY <1>2 DEF Fallback!Token
    <2>2. /\ said' \in Seq(Nat) /\ Len(said') = Len(said) + 1 /\ Len(said) \in Nat
          /\ \A i \in 1 .. Len(said) : said'[i] = said[i]
          /\ said'[Len(said) + 1] = at
      BY <2>1
    <2>3. \A i \in 1 .. Len(said') : said'[i] = at'
      BY <2>1, <2>2
    <2> QED  BY <2>1, <2>2, <2>3
  <1>3. CASE Fallback!Answered
    <2>1. /\ helper' = "done" /\ at' = at /\ spoke' = spoke /\ said' \in {<<at>>, said}
      BY <1>3 DEF Fallback!Answered
    <2>2. CASE said' = <<at>>
      <3>1. Len(said') = 1 /\ said'[1] = at /\ said' \in Seq(Nat)
        BY <2>2
      <3> QED  BY <2>1, <3>1
    <2>3. CASE said' = said
      BY <2>1, <2>3
    <2> QED  BY <2>1, <2>2, <2>3
  <1>4. CASE Fallback!Throws
    <2>1. said' = said /\ spoke' = spoke /\ helper = "wait"
      BY <1>4 DEF Fallback!Throws
    <2>2. CASE helper' = "failed" /\ at' = at
      BY <2>1, <2>2
    <2>3. CASE ~spoke /\ helper' = "next" /\ at' = at + 1
      <3>1. said' = <<>> /\ Len(said') = 0 /\ at' \in Nat
        BY <2>1, <2>3
      <3> QED  BY <2>1, <2>3, <3>1
    <2> QED  BY <1>4, <2>2, <2>3 DEF Fallback!Throws, Fallback!GiveUp, Fallback!MoveOn
  <1>5. CASE Fallback!TimeOut \/ Fallback!Closed
    <2>1. /\ said' = said /\ spoke' = spoke /\ ~spoke /\ helper' \in {"next", "close"}
          /\ at' \in {at, at + 1} /\ said = <<>>
      BY <1>5 DEF Fallback!TimeOut, Fallback!Closed, Fallback!MoveOn
    <2> QED  BY <2>1
  <1>6. CASE Fallback!Dropped
    BY <1>6 DEF Fallback!Dropped
  <1>7. CASE UNCHANGED Fallback!vars
    BY <1>7 DEF Fallback!vars
  <1> QED  BY <1>1, <1>2, <1>3, <1>4, <1>5, <1>6, <1>7 DEF Fallback!Next, Fallback!Helper, Fallback!Remote

(* Every word of a reply comes from one attempt, however many models fail, *)
(* hang or are given up before it, and whatever they do afterwards.        *)
THEOREM OneModelSpeaks == Fallback!Spec => []OneVoice
  <1>1. Committed => OneVoice
    BY DEF Committed, OneVoice
  <1> QED  BY <1>1, CommittedInit, CommittedStep, PTL DEF Fallback!Spec

-----------------------------------------------------------------------------
(* The chain of models.                                                    *)

(* Proofs by induction are by the least counterexample.                    *)
LEMMA Least ==
    ASSUME NEW S \in SUBSET Nat, S # {}
    PROVE  \E m \in S : \A k \in S : m <= k
  <1>1. \E m \in S : \A k \in S : ~(<<k, m>> \in OpToRel(<, Nat))
    BY WFMin, NatLessThanWellFounded, Zenon
  <1>2. PICK m \in S : \A k \in S : ~(k < m)
    BY <1>1, Zenon DEF OpToRel
  <1> QED  BY <1>2

(* What ChainAfter is, up to the k-th fallback.                            *)
After(f, k) ==
    f = [n \in 0 .. k |->
           IF n = 0 THEN <<asked>>
           ELSE IF Contains(f[n - 1], fallbacks[n]) \/ ~Routable(fallbacks[n])
                THEN f[n - 1]
                ELSE Append(f[n - 1], fallbacks[n])]

LEMMA AfterAt ==
    ASSUME NEW k \in Nat, NEW f, After(f, k), NEW i \in 0 .. k
    PROVE  f[i] = IF i = 0 THEN <<asked>>
                    ELSE IF Contains(f[i - 1], fallbacks[i]) \/ ~Routable(fallbacks[i])
                         THEN f[i - 1] ELSE Append(f[i - 1], fallbacks[i])
  <1> DEFINE h == [n \in 0 .. k |->
           IF n = 0 THEN <<asked>>
           ELSE IF Contains(f[n - 1], fallbacks[n]) \/ ~Routable(fallbacks[n])
                THEN f[n - 1]
                ELSE Append(f[n - 1], fallbacks[n])]
  <1>1. h[i] = IF i = 0 THEN <<asked>>
                    ELSE IF Contains(f[i - 1], fallbacks[i]) \/ ~Routable(fallbacks[i])
                         THEN f[i - 1] ELSE Append(f[i - 1], fallbacks[i])
    OBVIOUS
  <1>2. f = h
    BY DEF After
  <1> HIDE DEF h
  <1>3. f[i] = h[i]
    BY <1>2
  <1> QED  BY <1>1, <1>3

(* A sequence of chains there is, so ChainAfter is one.                    *)
LEMMA ChainDefined ==
    ASSUME NEW k \in Nat
    PROVE  \E f : After(f, k)
  <1> DEFINE S == {n \in Nat : ~ \E f : After(f, n)}
  <1> SUFFICES ASSUME S # {} PROVE FALSE
    OBVIOUS
  <1>1. PICK n \in S : \A i \in S : n <= i
    BY Least
  <1>2. n # 0
    <2>1. After([i \in 0 .. 0 |-> <<asked>>], 0)
      BY DEF After
    <2> QED  BY <2>1, <1>1
  <1>3. n - 1 \in Nat /\ n - 1 \notin S /\ n \in Nat
    BY <1>1, <1>2
  <1>4. PICK f : After(f, n - 1)
    BY <1>3
  <1> DEFINE last == IF Contains(f[n - 1], fallbacks[n]) \/ ~Routable(fallbacks[n])
                     THEN f[n - 1] ELSE Append(f[n - 1], fallbacks[n])
             g == [i \in 0 .. n |-> IF i = n THEN last ELSE f[i]]
  <1>5. After(g, n)
    <2>1. \A i \in 0 .. n - 1 : g[i] = f[i]
      BY <1>3
    <2>2. g[n] = last
      BY <1>3
    <2>3. ASSUME NEW i \in 0 .. n
          PROVE  g[i] = IF i = 0 THEN <<asked>>
                        ELSE IF Contains(g[i - 1], fallbacks[i]) \/ ~Routable(fallbacks[i])
                             THEN g[i - 1] ELSE Append(g[i - 1], fallbacks[i])
      <3>1. CASE i = n
        <4>1. g[i - 1] = f[n - 1] /\ i # 0
          BY <3>1, <2>1, <1>2, <1>3
        <4> HIDE DEF g
        <4> QED  BY <4>1, <3>1, <2>2
      <3>2. CASE i # n
        <4>1. g[i] = f[i] /\ (i # 0 => g[i - 1] = f[i - 1])
          BY <3>2, <2>1, <1>3
        <4> HIDE DEF g
        <4>2. f[i] = IF i = 0 THEN <<asked>>
                        ELSE IF Contains(f[i - 1], fallbacks[i]) \/ ~Routable(fallbacks[i])
                             THEN f[i - 1] ELSE Append(f[i - 1], fallbacks[i])
          <5>1. i \in 0 .. n - 1
            BY <1>3, <3>2
          <5> QED  BY <5>1, <1>3, <1>4, AfterAt
        <4> QED  BY <4>1, <4>2
      <3> QED  BY <3>1, <3>2
    <2> QED  BY <2>3 DEF After
  <1> QED  BY <1>1, <1>5

LEMMA ChainSteps ==
    ASSUME Len(fallbacks) \in Nat
    PROVE  /\ ChainAfter[0] = <<asked>>
           /\ \A n \in 1 .. Len(fallbacks) : ChainAfter[n] =
                IF Contains(ChainAfter[n - 1], fallbacks[n]) \/ ~Routable(fallbacks[n])
                THEN ChainAfter[n - 1]
                ELSE Append(ChainAfter[n - 1], fallbacks[n])
  <1>1. After(ChainAfter, Len(fallbacks))
    BY ChainDefined DEF After, ChainAfter
  <1>2. \A n \in 0 .. Len(fallbacks) : ChainAfter[n] =
           IF n = 0 THEN <<asked>>
           ELSE IF Contains(ChainAfter[n - 1], fallbacks[n]) \/ ~Routable(fallbacks[n])
                THEN ChainAfter[n - 1] ELSE Append(ChainAfter[n - 1], fallbacks[n])
    BY <1>1, AfterAt
  <1> QED  BY <1>2

(* A chain after n fallbacks: it begins with the model asked for, the rest *)
(* can be routed, and it has every fallback that can be.                   *)
Complete(c, n) ==
    /\ c \in Seq(Model) /\ Len(c) \in 1 .. n + 1 /\ c[1] = asked
    /\ \A i \in 2 .. Len(c) : Routable(c[i])
    /\ \A j \in 1 .. n : Routable(fallbacks[j]) => Contains(c, fallbacks[j])

(* The next fallback keeps a chain complete.                               *)
LEMMA CompleteStep ==
    ASSUME NEW n \in Nat, NEW c, Complete(c, n), fallbacks[n + 1] \in Model
    PROVE  Complete(IF Contains(c, fallbacks[n + 1]) \/ ~Routable(fallbacks[n + 1])
                    THEN c ELSE Append(c, fallbacks[n + 1]), n + 1)
  <1> DEFINE m == fallbacks[n + 1]
  <1>0. /\ c \in Seq(Model) /\ Len(c) \in 1 .. n + 1 /\ c[1] = asked /\ m \in Model
        /\ \A i \in 2 .. Len(c) : Routable(c[i])
        /\ \A j \in 1 .. n : Routable(fallbacks[j]) => Contains(c, fallbacks[j])
    BY DEF Complete
  <1>1. CASE Contains(c, m) \/ ~Routable(m)
    <2>1. \A j \in 1 .. n + 1 : Routable(fallbacks[j]) => Contains(c, fallbacks[j])
      <3> SUFFICES ASSUME NEW j \in 1 .. n + 1, Routable(fallbacks[j])
                   PROVE  Contains(c, fallbacks[j])
        OBVIOUS
      <3>1. CASE j = n + 1
        BY <1>1, <3>1
      <3>2. CASE j # n + 1
        <4>1. j \in 1 .. n
          BY <3>2
        <4> QED  BY <4>1, <1>0
      <3> QED  BY <3>1, <3>2
    <2> QED  BY <1>0, <1>1, <2>1 DEF Complete
  <1>2. CASE ~(Contains(c, m) \/ ~Routable(m))
    <2> DEFINE d == Append(c, m)
    <2> HIDE DEF m
    <2>1. /\ d \in Seq(Model) /\ Len(d) = Len(c) + 1 /\ d[Len(c) + 1] = m
          /\ \A i \in 1 .. Len(c) : d[i] = c[i]
      BY <1>0
    <2> HIDE DEF d
    <2>2. Len(d) \in 1 .. (n + 1) + 1 /\ d[1] = asked
      BY <1>0, <2>1
    <2>3. \A i \in 2 .. Len(d) : Routable(d[i])
      <3> SUFFICES ASSUME NEW i \in 2 .. Len(d) PROVE Routable(d[i])
        OBVIOUS
      <3>1. CASE i = Len(c) + 1
        BY <1>2, <2>1, <3>1
      <3>2. CASE i # Len(c) + 1
        <4>1. i \in 2 .. Len(c) /\ d[i] = c[i]
          BY <1>0, <2>1, <3>2
        <4> QED  BY <4>1, <1>0
      <3> QED  BY <3>1, <3>2
    <2>4. ASSUME NEW x, Contains(c, x)
          PROVE  Contains(d, x)
      <3>1. PICK i \in 1 .. Len(c) : c[i] = x
        BY <2>4 DEF Contains
      <3>2. i \in 1 .. Len(d) /\ d[i] = x
        BY <1>0, <2>1, <3>1
      <3> QED  BY <3>2 DEF Contains
    <2>5. Contains(d, m)
      <3>1. Len(c) + 1 \in 1 .. Len(d)
        BY <1>0, <2>1
      <3> QED  BY <2>1, <3>1 DEF Contains
    <2>6. \A j \in 1 .. n + 1 : Routable(fallbacks[j]) => Contains(d, fallbacks[j])
      <3> SUFFICES ASSUME NEW j \in 1 .. n + 1, Routable(fallbacks[j])
                   PROVE  Contains(d, fallbacks[j])
        OBVIOUS
      <3>1. CASE j = n + 1
        BY <2>5, <3>1 DEF m
      <3>2. CASE j # n + 1
        <4>1. j \in 1 .. n
          BY <3>2
        <4> QED  BY <4>1, <1>0, <2>4
      <3> QED  BY <3>1, <3>2
    <2>7. Complete(d, n + 1)
      BY <2>1, <2>2, <2>3, <2>6 DEF Complete
    <2> QED  BY <1>2, <2>7 DEF m, d
  <1> QED  BY <1>1, <1>2

Configured == asked \in Model /\ fallbacks \in Seq(Model) /\ Len(fallbacks) \in 0 .. MaxFallbacks

LEMMA ChainComplete ==
    ASSUME Configured
    PROVE  Complete(Chain, Len(fallbacks))
  <1>0. /\ asked \in Model /\ Len(fallbacks) \in Nat
        /\ \A n \in 1 .. Len(fallbacks) : fallbacks[n] \in Model
    BY LenProperties, ElementOfSeq DEF Configured
  <1> DEFINE c(n) == ChainAfter[n]
             S    == {n \in 0 .. Len(fallbacks) : ~Complete(c(n), n)}
  <1> SUFFICES S = {}
    BY <1>0 DEF Chain
  <1> SUFFICES ASSUME S # {} PROVE FALSE
    OBVIOUS
  <1>1. PICK n \in S : \A i \in S : n <= i
    <2>1. S \in SUBSET Nat
      BY <1>0
    <2> HIDE DEF S
    <2> QED  BY <2>1, Least
  <1>2. CASE n = 0
    <2>1. c(n) = <<asked>> /\ 1 .. n = {}
      BY <1>0, <1>2, ChainSteps
    <2>2. /\ <<asked>> \in Seq(Model) /\ Len(<<asked>>) = 1 /\ <<asked>>[1] = asked
      BY <1>0
    <2>3. Complete(<<asked>>, n)
      BY <1>2, <2>1, <2>2 DEF Complete
    <2> QED  BY <1>1, <2>1, <2>3
  <1>3. CASE n # 0
    <2>1. n \in 1 .. Len(fallbacks) /\ n - 1 \in 0 .. Len(fallbacks) /\ n - 1 \in Nat /\ (n - 1) + 1 = n
      BY <1>0, <1>1, <1>3
    <2>2. Complete(c(n - 1), n - 1)
      BY <1>0, <1>1, <2>1
    <2> DEFINE k == n - 1
               more == IF Contains(c(k), fallbacks[k + 1]) \/ ~Routable(fallbacks[k + 1])
                       THEN c(k) ELSE Append(c(k), fallbacks[k + 1])
    <2>3. Complete(more, k + 1)
      <3>1. k \in Nat /\ Complete(c(k), k) /\ fallbacks[k + 1] \in Model
        BY <1>0, <2>1, <2>2
      <3> HIDE DEF k
      <3> QED  BY <3>1, CompleteStep
    <2>4. c(n) = more
      BY <1>0, <2>1, ChainSteps
    <2> HIDE DEF more
    <2> QED  BY <1>1, <2>1, <2>3, <2>4
  <1> QED  BY <1>2, <1>3

(* A gateway that serves what has no key of its own is one of the list.    *)
LEMMA FirstGatewayIs ==
    ASSUME Gateways \in Seq(Provider), FirstGateway # 0
    PROVE  Contains(Gateways, Gateways[FirstGateway])
  <1> DEFINE I == {i \in 1 .. Len(Gateways) : Gateways[i] \in keyed}
  <1>1. I \in SUBSET Nat /\ I \subseteq 1 .. Len(Gateways)
    OBVIOUS
  <1>2. FirstGateway = IF I # {} THEN Min(I) ELSE 0
    BY DEF FirstGateway, SelectInSeq
  <1> HIDE DEF I
  <1>3. I # {} => Min(I) \in I
    <2>1. I # {} => \E m \in I : \A k \in I : m <= k
      BY <1>1, Least
    <2> QED  BY <2>1 DEF Min
  <1> QED  BY <1>1, <1>2, <1>3 DEF Contains

(* The chain and who can be reached depend on the configuration only.      *)
LEMMA ConfigStays ==
    ASSUME UNCHANGED Fallback!config
    PROVE  /\ Chain' = Chain
           /\ \A m : Reachable(m)' <=> Reachable(m)
           /\ UNCHANGED <<asked, fallbacks, keyed, kind>>
  <1>1. UNCHANGED <<asked, fallbacks, keyed, kind>>
    BY DEF Fallback!config
  <1>2. FirstGateway' = FirstGateway
    BY <1>1 DEF FirstGateway, SelectInSeq
  <1>3. \A m : /\ Routable(m)' <=> Routable(m)
               /\ Reachable(m)' <=> Reachable(m)
    BY <1>1, <1>2 DEF Routable, Reachable, Instances, Detected
  <1>4. ChainAfter' = ChainAfter
    BY <1>1, <1>2 DEF ChainAfter, Routable
  <1> QED  BY <1>1, <1>3, <1>4 DEF Chain

IsLast == at = Len(Chain)

(* The module that ModelFallback extends is this one.                      *)
LEMMA SameCall ==
    /\ Fallback!Chain = Chain
    /\ \A m : Fallback!Detected(m) = Detected(m) /\ Fallback!Instances(m) = Instances(m)
  <1>1. Fallback!FirstGateway = FirstGateway
    BY DEF Fallback!FirstGateway, FirstGateway, Fallback!SelectInSeq, SelectInSeq, Fallback!Min, Min
  <1>2. \A m : Fallback!Routable(m) <=> Routable(m)
    BY <1>1 DEF Fallback!Routable, Routable
  <1>3. Fallback!Chain = Chain
    BY <1>2 DEF Fallback!Chain, Chain, Fallback!ChainAfter, ChainAfter, Fallback!Contains, Contains
  <1> QED  BY <1>1, <1>3 DEF Fallback!Detected, Detected, Fallback!Instances, Instances

(* Every model of the chain up to the attempt the helper is at has been    *)
(* asked, unless nobody can be; and no other has been.                     *)
Tried ==
    /\ Configured
    /\ at \in 1 .. Len(Chain)
    /\ asks \in [Fallback!Attempt -> {"none", "open", "over"}]
    /\ said \in Seq(Nat) /\ (spoke => said # <<>>)
    /\ helper = "close" => ~IsLast
    /\ helper = "failed" /\ said = <<>> => IsLast
    /\ \A i \in Fallback!Attempt : asks[i] # "none" => i <= at
    /\ \A i \in 1 .. at :
          Reachable(Chain[i]) /\ (i = at => helper # "next") => asks[i] # "none"

(* Attempts are as many as a chain may need.                               *)
LEMMA ChainFits ==
    ASSUME MaxFallbacks \in Nat, Configured
    PROVE  Len(Chain) \in 1 .. MaxFallbacks + 1
  <1>1. Len(Chain) \in 1 .. Len(fallbacks) + 1
    BY ChainComplete DEF Complete
  <1> QED  BY <1>1 DEF Configured

LEMMA TriedInit == MaxFallbacks \in Nat /\ Fallback!Init => Tried
  <1> SUFFICES ASSUME MaxFallbacks \in Nat, Fallback!Init PROVE Tried
    OBVIOUS
  <1>1. Configured
    <2>1. PICK n \in 0 .. MaxFallbacks : fallbacks \in [1 .. n -> Model]
      BY DEF Fallback!Init
    <2>2. fallbacks \in Seq(Model) /\ Len(fallbacks) = n
      BY <2>1
    <2> QED  BY <2>2 DEF Configured, Fallback!Init
  <1>2. /\ at = 1 /\ helper = "next" /\ spoke = FALSE /\ asks = [i \in Fallback!Attempt |-> "none"]
    BY DEF Fallback!Init
  <1>3. Len(Chain) \in 1 .. MaxFallbacks + 1
    BY <1>1, ChainFits
  <1>4. said \in Seq(Nat)
    BY DEF Fallback!Init
  <1> QED  BY <1>1, <1>2, <1>3, <1>4 DEF Tried

(* A failed start is of a model nobody can be asked for.                   *)
LEMMA Unreachable ==
    ASSUME NEW m, \/ Instances(m) # Detected(m)
                  \/ Detected(m) = {}
    PROVE  ~Reachable(m)
  BY DEF Reachable, Routable, Instances, Detected

LEMMA TriedStep ==
    ASSUME MaxFallbacks \in Nat, Tried, [Fallback!Next]_(Fallback!vars)
    PROVE  Tried'
  <1>0. /\ Configured /\ Len(Chain) \in 1 .. MaxFallbacks + 1
        /\ at \in 1 .. Len(Chain) /\ at \in Fallback!Attempt
        /\ asks \in [Fallback!Attempt -> {"none", "open", "over"}]
        /\ Fallback!Attempt = 1 .. MaxFallbacks + 1
    BY ChainFits DEF Tried, Fallback!Attempt
  <1>1. UNCHANGED Fallback!config
    BY DEF Fallback!Next, Fallback!Helper, Fallback!Remote, Fallback!Start, Fallback!TimeOut,
           Fallback!Token, Fallback!Answered, Fallback!Throws, Fallback!Closed, Fallback!Dropped,
           Fallback!vars, Fallback!config
  <1>2. /\ Configured' /\ Chain' = Chain
        /\ \A m : Reachable(m)' <=> Reachable(m)
        /\ Fallback!Attempt' = Fallback!Attempt
    BY <1>0, <1>1, ConfigStays DEF Configured, Fallback!Attempt
  <1> DEFINE R(i) == Reachable(Chain[i])
  <1>3. \A i : Reachable(Chain[i])' <=> R(i)
    BY <1>2
  <1> DEFINE C == Chain
  (* What is left to show once the configuration is out of the way. *)
  <1>4. SUFFICES /\ at' \in 1 .. Len(C)
                 /\ asks' \in [Fallback!Attempt -> {"none", "open", "over"}]
                 /\ said' \in Seq(Nat) /\ (spoke' => said' # <<>>)
                 /\ helper' = "close" => at' # Len(C)
                 /\ helper' = "failed" /\ said' = <<>> => at' = Len(C)
                 /\ \A i \in Fallback!Attempt : asks'[i] # "none" => i <= at'
                 /\ \A i \in 1 .. at' : R(i) /\ (i = at' => helper' # "next") => asks'[i] # "none"
    BY <1>2, <1>3 DEF Tried, IsLast
  <1>5. /\ said \in Seq(Nat) /\ (spoke => said # <<>>)
        /\ helper = "close" => at # Len(C)
        /\ helper = "failed" /\ said = <<>> => at = Len(C)
        /\ \A i \in Fallback!Attempt : asks[i] # "none" => i <= at
        /\ \A i \in 1 .. at : R(i) /\ (i = at => helper # "next") => asks[i] # "none"
    BY DEF Tried, IsLast
  <1>6. Fallback!IsLast <=> at = Len(C)
    BY SameCall DEF Fallback!IsLast
  <1>7. Fallback!Start => helper = "next" /\ spoke' = FALSE /\ said' = said
    BY DEF Fallback!Start
  <1>8. CASE Fallback!Start
    <2>1. CASE asks' = [asks EXCEPT ![at] = "open"] /\ helper' = "wait" /\ at' = at
      BY <1>0, <1>5, <1>7, <1>8, <2>1
    <2>2. CASE asks' = asks /\ Fallback!GiveUp /\ ~R(at)
      BY <1>0, <1>5, <1>6, <1>7, <1>8, <2>2 DEF Fallback!GiveUp, Fallback!MoveOn
    <2> QED  BY <1>8, <2>1, <2>2, Unreachable, SameCall DEF Fallback!Start
  <1>9. ASSUME Fallback!Over, helper # "next"
        PROVE  /\ asks' \in [Fallback!Attempt -> {"none", "open", "over"}]
               /\ asks'[at] = "over"
               /\ \A i \in Fallback!Attempt : i # at => asks'[i] = asks[i]
    BY <1>0, <1>9 DEF Fallback!Over
  <1>10. CASE Fallback!Token
    <2>1. /\ UNCHANGED <<helper, at, asks>> /\ said' = Append(said, at) /\ helper = "wait"
      BY <1>10 DEF Fallback!Token
    <2>2. said' \in Seq(Nat) /\ said' # <<>>
      BY <1>0, <1>5, <2>1
    <2> QED  BY <1>0, <1>5, <2>1, <2>2
  <1>11. CASE Fallback!Answered
    <2>1. /\ helper = "wait" /\ helper' = "done" /\ UNCHANGED <<at, spoke>> /\ Fallback!Over
          /\ said' = <<at>> \/ said' = said
      BY <1>11 DEF Fallback!Answered
    <2>2. <<at>> \in Seq(Nat) /\ <<at>> # <<>>
      BY <1>0
    <2>3. said' \in Seq(Nat) /\ (spoke' => said' # <<>>)
      BY <1>5, <2>1, <2>2
    <2>4. helper # "next" /\ helper' = "done" /\ at' = at /\ Fallback!Over
      BY <2>1
    <2> QED  BY <1>0, <1>5, <1>9, <2>3, <2>4
  <1>12. CASE Fallback!Throws
    <2>1. helper = "wait" /\ UNCHANGED <<spoke, said>> /\ Fallback!Over /\ Fallback!GiveUp
      BY <1>12 DEF Fallback!Throws
    <2>2. CASE (spoke \/ at = Len(C)) /\ helper' = "failed" /\ at' = at
      BY <1>0, <1>5, <1>9, <2>1, <2>2
    <2>3. CASE at # Len(C) /\ helper' = "next" /\ at' = at + 1
      BY <1>0, <1>5, <1>9, <2>1, <2>3
    <2> QED  BY <1>6, <2>1, <2>2, <2>3 DEF Fallback!GiveUp, Fallback!MoveOn
  <1>13. CASE Fallback!TimeOut
    <2>1. /\ helper = "wait" /\ at # Len(C) /\ UNCHANGED <<asks, spoke, said>>
          /\ \/ helper' = "next" /\ at' = at + 1
             \/ helper' = "close" /\ at' = at
      BY <1>6, <1>13 DEF Fallback!TimeOut, Fallback!MoveOn
    <2> QED  BY <1>0, <1>5, <2>1
  <1>14. CASE Fallback!Closed
    <2>1. helper = "close" /\ helper' = "next" /\ at' = at + 1 /\ Fallback!Over /\ UNCHANGED <<spoke, said>>
      BY <1>14 DEF Fallback!Closed, Fallback!MoveOn
    <2> QED  BY <1>0, <1>5, <1>9, <2>1
  <1>15. CASE Fallback!Dropped
    <2>1. /\ UNCHANGED <<helper, at, spoke, said>>
          /\ \E i \in 1 .. at - 1 : asks[i] = "open" /\ asks' = [asks EXCEPT ![i] = "over"]
      BY <1>15 DEF Fallback!Dropped
    <2>2. PICK i \in 1 .. at - 1 : asks[i] = "open" /\ asks' = [asks EXCEPT ![i] = "over"]
      BY <2>1
    <2>3. /\ asks' \in [Fallback!Attempt -> {"none", "open", "over"}]
          /\ \A j \in Fallback!Attempt : asks'[j] = "none" <=> asks[j] = "none"
      BY <1>0, <2>2
    <2> QED  BY <1>0, <1>5, <2>1, <2>3
  <1>16. CASE UNCHANGED Fallback!vars
    BY <1>0, <1>5, <1>16 DEF Fallback!vars
  <1> QED  BY <1>8, <1>10, <1>11, <1>12, <1>13, <1>14, <1>15, <1>16
           DEF Fallback!Next, Fallback!Helper, Fallback!Remote

(* A call fails without a word only after it has asked every model that    *)
(* somebody can be asked for, and no fallback goes to a provider that does *)
(* not serve it (EveryModelTried), whatever keys and fallbacks are set.    *)
THEOREM AllModelsAsked ==
    ASSUME MaxFallbacks \in Nat, Gateways \in Seq(Provider)
    PROVE  Fallback!Spec => []EveryModelTried
  <1>1. Tried => EveryModelTried
    <2> SUFFICES ASSUME Tried PROVE EveryModelTried
      OBVIOUS
    <2>0. /\ Configured /\ Len(Chain) \in 1 .. MaxFallbacks + 1
          /\ at \in 1 .. Len(Chain) /\ Len(fallbacks) \in Nat
          /\ DOMAIN fallbacks = 1 .. Len(fallbacks)
      BY ChainFits, LenProperties DEF Tried, Configured
    <2>1. /\ Chain \in Seq(Model) /\ Chain[1] = asked
          /\ \A i \in 2 .. Len(Chain) : Routable(Chain[i])
          /\ \A j \in 1 .. Len(fallbacks) : Routable(fallbacks[j]) =>
                 Contains(Chain, fallbacks[j])
      BY <2>0, ChainComplete DEF Complete
    <2>2. ASSUME helper = "failed", said = <<>>,
                 NEW m \in {asked} \cup {fallbacks[i] : i \in DOMAIN fallbacks},
                 Reachable(m)
          PROVE  \E i \in DOMAIN Chain : Chain[i] = m /\ asks[i] # "none"
      <3>1. PICK i \in 1 .. Len(Chain) : Chain[i] = m
        <4>1. CASE m = asked
          BY <4>1, <2>0, <2>1
        <4>2. CASE \E j \in DOMAIN fallbacks : m = fallbacks[j]
          BY <4>2, <2>0, <2>1, <2>2 DEF Contains, Reachable
        <4> QED  BY <2>2, <4>1, <4>2
      <3>2. at = Len(Chain)
        BY <2>2 DEF Tried, IsLast
      <3>3. asks[i] # "none"
        BY <2>2, <3>1, <3>2 DEF Tried
      <3>4. DOMAIN Chain = 1 .. Len(Chain)
        BY <2>1, LenProperties
      <3> QED  BY <3>1, <3>3, <3>4
    <2>3. ASSUME NEW i \in 2 .. MaxFallbacks + 1, asks[i] # "none",
                 NEW p \in Detected(Chain[i])
          PROVE  p = Own[Chain[i]] \/ Contains(Gateways, p)
      <3>1. i \in 2 .. Len(Chain)
        BY <2>0, <2>3 DEF Tried, Fallback!Attempt
      <3>2. Routable(Chain[i])
        BY <2>1, <3>1
      <3>3. p = Own[Chain[i]] \/ (FirstGateway # 0 /\ p = Gateways[FirstGateway])
        BY <2>3, <3>2 DEF Routable, Detected
      <3> QED  BY <3>3, FirstGatewayIs
    <2> QED  BY <2>2, <2>3 DEF EveryModelTried
  <1> QED  BY <1>1, TriedInit, TriedStep, PTL DEF Fallback!Spec
=============================================================================
