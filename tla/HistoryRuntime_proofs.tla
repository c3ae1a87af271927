----------------------- MODULE HistoryRuntime_proofs -----------------------
(***************************************************************************)
(* Proofs about HistoryRuntime, for any number of sockets, replies and     *)
(* delete requests: the types, the mutual exclusion of the lock, and that  *)
(* the module implements HistoryPromise.                                   *)
(***************************************************************************)
EXTENDS HistoryRuntime, TLAPS

Waiter == Task \union {Del(d) : d \in Request}

PcState  == {"new", "reg", "talk", "wait", "store", "mark", "marking",
             "leave", "unreg", "run", "done"}
DpcState == {"new", "lock", "close", "erase", "erased", "unblock",
             "giveup", "note", "memory", "done"}

(* A statement of a capture runs only in the task that holds the lock.     *)
Exclusive == \A t \in Task : pc[t] \in {"store", "marking"} => Holds(t)

(* Nobody writes in a conversation that has a tombstone.                   *)
Tombstoned == \A c \in deleted, n \in 0 .. MaxTurns : pc[<<c, n>>] # "store"

(* What a deletion may name either cannot begin any more or has begun, and *)
(* a conversation that has begun does not insert its row again.            *)
Named ==
    /\ stored \subseteq started
    /\ \A d \in Request : scope[d] \subseteq deleted \union started
    /\ erased \subseteq deleted \union started
    /\ erased \intersect stored = {}

IInv == TypeOK /\ Exclusive /\ Tombstoned /\ Named
-----------------------------------------------------------------------------
(* A task that queues up changes neither the holder nor the type.          *)
LEMMA AppendKeepsHead ==
    ASSUME NEW S, NEW s \in Seq(S), NEW e \in S
    PROVE  /\ Append(s, e) \in Seq(S)
           /\ s # <<>> => Append(s, e) # <<>> /\ Head(Append(s, e)) = Head(s)
OBVIOUS

LEMMA TailIsSeq ==
    ASSUME NEW S, NEW s \in Seq(S), s # <<>>
    PROVE  Tail(s) \in Seq(S)
OBVIOUS

(* A waiter that gives up leaves the holder alone, unless it is itself.    *)
LEMMA GiveUpKeepsHead ==
    ASSUME NEW S, lock \in Seq(S), NEW t, GiveUpLock(t)
    PROVE  /\ lock' \in Seq(S)
           /\ Head(lock) # t => lock' # <<>> /\ Head(lock') = Head(lock)
<1>1. PICK i \in 1 .. Len(lock) :
          /\ lock[i] = t
          /\ lock' = [j \in 1 .. Len(lock) - 1 |-> IF j < i THEN lock[j] ELSE lock[j + 1]]
    BY DEF GiveUpLock
<1>2. Len(lock) \in Nat /\ \A j \in 1 .. Len(lock) : lock[j] \in S
    OBVIOUS
<1>3. Len(lock) - 1 \in Nat
    BY <1>2
<1>4. ASSUME NEW j \in 1 .. Len(lock) - 1
      PROVE  (IF j < i THEN lock[j] ELSE lock[j + 1]) \in S
    BY <1>2
<1>5. lock' \in [1 .. Len(lock) - 1 -> S]
    BY <1>1, <1>4
<1>6. lock' \in Seq(S)
    BY <1>3, <1>5
<1>7. ASSUME Head(lock) # t
      PROVE  lock' # <<>> /\ Head(lock') = Head(lock)
    <2>1. i # 1 /\ Len(lock) > 1
        BY <1>1, <1>2, <1>7
    <2>2. 1 \in 1 .. Len(lock) - 1 /\ 1 < i
        BY <1>2, <2>1
    <2>3. lock'[1] = lock[1]
        BY <1>1, <2>2
    <2>4. Len(lock') = Len(lock) - 1
        BY <1>3, <1>5
    <2>. QED BY <1>2, <1>6, <2>1, <2>3, <2>4
<1>. QED BY <1>6, <1>7

(* The entries of the queue are tasks; handlers, replies and requests      *)
(* have names of their own.                                                *)
LEMMA Names ==
    /\ \A c \in Conv : Handler(c) \in Task
    /\ \A c \in Conv, n \in 0 .. MaxTurns : <<c, n>> \in Task
    /\ \A c \in Conv : Handler(c) = <<c, 0>>
    /\ \A d \in Request : Del(d) \in Waiter /\ Del(d) \notin Task
    /\ Task \subseteq Waiter
    /\ \A n \in 1 .. MaxTurns : n \in 0 .. MaxTurns
    /\ 0 \in 0 .. MaxTurns
    /\ \A n \in 0 .. MaxTurns : n < MaxTurns => n + 1 \in 0 .. MaxTurns
    /\ \A n \in 0 .. MaxFails : n < MaxFails => n + 1 \in 0 .. MaxFails
BY ConstantsAssumption DEF ConstantsAssumption, Handler, Task, Request, Del, Waiter

(* What the operations on the lock do to its type.                         *)
LEMMA LockTypes ==
    ASSUME lock \in Seq(Waiter), NEW t \in Waiter
    PROVE  /\ Acquire(t) => lock' \in Seq(Waiter)
           /\ Holds(t) /\ Release => lock' \in Seq(Waiter)
           /\ Holds(t) /\ Requeue(t) => lock' \in Seq(Waiter)
           /\ GiveUpLock(t) => lock' \in Seq(Waiter)
<1>1. Acquire(t) => lock' \in Seq(Waiter)
    BY AppendKeepsHead DEF Acquire
<1>2. Holds(t) /\ Release => lock' \in Seq(Waiter)
    BY TailIsSeq DEF Holds, Release
<1>3. Holds(t) /\ Requeue(t) => lock' \in Seq(Waiter)
    BY TailIsSeq, AppendKeepsHead DEF Holds, Requeue
<1>4. GiveUpLock(t) => lock' \in Seq(Waiter)
    BY GiveUpKeepsHead
<1>. QED BY <1>1, <1>2, <1>3, <1>4

(* A task that waits for the lock or runs a statement: what its            *)
(* continuation does to the program counters.                              *)
LEMMA ResumeSteps ==
    ASSUME TypeOK, NEW c \in Conv, NEW n \in 0 .. MaxTurns, Resume(c, n)
    PROVE  /\ pc' \in [Task -> PcState]
           /\ cur' \in [Conv -> 0 .. MaxTurns]
           /\ pc'[<<c, n>>] \notin {"store", "marking"}
           /\ \A t \in Task : pc'[t] \in {"store", "marking"} => pc'[t] = pc[t]
<1>. USE Names
<1>1. pc \in [Task -> PcState] /\ cur \in [Conv -> 0 .. MaxTurns] /\ turns[c] \in 0 .. MaxTurns
    BY DEF TypeOK, PcState
<1>2. CASE n = 0 /\ Spawns(c)
    <2>1. pc' = [pc EXCEPT ![Handler(c)] = "talk", ![<<c, turns[c]>>] = "run"]
          /\ cur' = [cur EXCEPT ![c] = turns[c]]
        BY <1>2 DEF Resume
    <2>. QED BY <1>1, <1>2, <2>1 DEF PcState
<1>3. CASE ~(n = 0 /\ Spawns(c))
    <2>1. pc' = [pc EXCEPT ![<<c, n>>] = IF n = 0 THEN "talk" ELSE "done"] /\ cur' = cur
        BY <1>3 DEF Resume
    <2>. QED BY <1>1, <2>1 DEF PcState
<1>. QED BY <1>2, <1>3

(* A cancelled reply keeps the lock while its statement runs, and leaves   *)
(* the queue if it only waited.                                            *)
LEMMA CancelSteps ==
    ASSUME TypeOK, Exclusive, NEW c \in Conv, NEW r \in Task, CancelReply(c, r)
    PROVE  /\ AfterCancel(r) \in PcState
           /\ AfterCancel(r) \in {"store", "marking"} => AfterCancel(r) = pc[r]
           /\ lock' \in Seq(Waiter)
           /\ \A t \in Task : pc[t] \in {"store", "marking"} => lock' # <<>> /\ Head(lock') = t
<1>1. pc[r] \in PcState /\ lock \in Seq(Waiter) /\ r \in Waiter
    BY Names DEF TypeOK, PcState, Waiter
<1>2. /\ AfterCancel(r) \in PcState
      /\ AfterCancel(r) \in {"store", "marking"} => AfterCancel(r) = pc[r]
    BY <1>1 DEF AfterCancel, Busy, PcState
<1>3. CASE Waiting(r)
    <2>1. GiveUpLock(r)
        BY <1>3 DEF CancelReply
    <2>2. pc[r] \notin {"store", "marking"}
        BY <1>3 DEF Waiting
    <2>3. \A t \in Task : pc[t] \in {"store", "marking"} => Head(lock) = t /\ Head(lock) # r
        BY <2>2 DEF Exclusive, Holds
    <2>. QED BY <1>1, <1>2, <2>1, <2>3, GiveUpKeepsHead
<1>4. CASE ~Waiting(r)
    <2>1. lock' = lock
        BY <1>4 DEF CancelReply
    <2>. QED BY <1>1, <1>2, <2>1 DEF Exclusive, Holds
<1>. QED BY <1>3, <1>4

(* Every step keeps the variables in their types.                          *)
LEMMA TypeStep ==
    ASSUME TypeOK, Exclusive, [Next]_vars
    PROVE  TypeOK'
<1>. USE Names DEF PcState, runtime, store, faults, socket
<1>0. /\ pc \in [Task -> PcState] /\ dpc \in [Request -> DpcState] /\ lock \in Seq(Waiter)
      /\ scope \in [Request -> SUBSET Conv]
      /\ \A t \in Task : pc[t] \in {"store", "marking"} => Holds(t)
    BY DEF TypeOK, DpcState, Waiter, Exclusive
<1>1. ASSUME NEW c \in Conv, Connect(c)
      PROVE  TypeOK'
    <2>1. lock' \in Seq(Waiter)
        BY <1>0, <1>1, LockTypes DEF Connect
    <2>. QED BY <1>1, <2>1 DEF Connect, TypeOK, Waiter
<1>2. ASSUME NEW c \in Conv, Register(c)
      PROVE  TypeOK'
    <2>1. lock' \in Seq(Waiter)
        BY <1>0, <1>2, LockTypes DEF Register
    <2>2. pc' \in [Task -> PcState]
        BY <1>0, <1>2 DEF Register
    <2>3. active' \in SUBSET Conv /\ closed' \in SUBSET Conv
        BY <1>2 DEF Register, TypeOK
    <2>4. UNCHANGED <<dpc, deleted, blocked, store, faults, turns, cur, started, memory, scope>>
        BY <1>2 DEF Register
    <2>. QED BY <2>1, <2>2, <2>3, <2>4 DEF TypeOK, Waiter
<1>3. ASSUME NEW c \in Conv, Leave(c)
      PROVE  TypeOK'
    <2>. DEFINE r == <<c, cur[c]>>
    <2>1. cur[c] \in 0 .. MaxTurns /\ r \in Task
        BY DEF TypeOK
    <2>2. CancelReply(c, r) => AfterCancel(r) \in PcState /\ lock' \in Seq(Waiter)
        BY <2>1, CancelSteps
    <2>3. pc' \in [Task -> PcState] /\ lock' \in Seq(Waiter)
        BY <1>0, <1>3, <2>1, <2>2 DEF Leave
    <2>. QED BY <1>3, <2>3 DEF Leave, TypeOK, DpcState, Waiter
<1>4. ASSUME NEW c \in Conv, TearDown(c)
      PROVE  TypeOK'
    <2>1. lock' \in Seq(Waiter)
        BY <1>0, <1>4, LockTypes DEF TearDown
    <2>. QED BY <1>4, <2>1 DEF TearDown, TypeOK, Waiter
<1>5. ASSUME NEW c \in Conv, Unregister(c)
      PROVE  TypeOK'
    <2>1. lock' \in Seq(Waiter)
        BY <1>0, <1>5, LockTypes DEF Unregister
    <2>. QED BY <1>5, <2>1 DEF Unregister, TypeOK, Waiter
<1>6. ASSUME NEW c \in Conv, ClientLeaves(c)
      PROVE  TypeOK'
    BY <1>6 DEF ClientLeaves, TypeOK
<1>7. ASSUME NEW c \in Conv, UserTurn(c)
      PROVE  TypeOK'
    <2>1. lock' \in Seq(Waiter)
        BY <1>0, <1>7, LockTypes DEF UserTurn
    <2>. QED BY <1>7, <2>1 DEF UserTurn, TypeOK, Waiter
<1>8. ASSUME NEW c \in Conv, Interrupt(c)
      PROVE  TypeOK'
    <2>. DEFINE r == <<c, cur[c]>>
    <2>1. cur[c] \in 0 .. MaxTurns /\ r \in Task
        BY DEF TypeOK
    <2>2. CancelReply(c, r) => AfterCancel(r) \in PcState /\ lock' \in Seq(Waiter)
        BY <2>1, CancelSteps
    <2>3. pc' \in [Task -> PcState] /\ lock' \in Seq(Waiter)
        BY <1>0, <1>8, <2>1, <2>2 DEF Interrupt
    <2>. QED BY <1>8, <2>3 DEF Interrupt, TypeOK, DpcState, Waiter
<1>9. ASSUME NEW c \in Conv, NEW n \in 0 .. MaxTurns, Capture(c, n)
      PROVE  TypeOK'
    <2>1. lock' \in Seq(Waiter)
        BY <1>0, <1>9, LockTypes DEF Capture
    <2>. QED BY <1>9, <2>1 DEF Capture, TypeOK, Waiter
<1>10. ASSUME NEW c \in Conv, NEW n \in 0 .. MaxTurns, Written(c, n)
      PROVE  TypeOK'
    <2>1. Holds(<<c, n>>)
        BY <1>0, <1>10 DEF Written
    <2>2. lock' \in Seq(Waiter)
        BY <1>0, <1>10, <2>1, LockTypes DEF Written
    <2>3. pc' \in [Task -> PcState] /\ cur' \in [Conv -> 0 .. MaxTurns]
        BY <1>0, <1>10, ResumeSteps DEF Written, TypeOK
    <2>. QED BY <1>10, <2>2, <2>3 DEF Written, TypeOK, Waiter
<1>11. ASSUME NEW c \in Conv, NEW n \in 0 .. MaxTurns, NotWritten(c, n)
      PROVE  TypeOK'
    <2>1. Holds(<<c, n>>)
        BY <1>0, <1>11 DEF NotWritten
    <2>2. lock' \in Seq(Waiter)
        BY <1>0, <1>11, <2>1, LockTypes DEF NotWritten
    <2>3. pc' \in [Task -> PcState] /\ cur' \in [Conv -> 0 .. MaxTurns]
        BY <1>0, <1>11, ResumeSteps DEF NotWritten, TypeOK
    <2>. QED BY <1>11, <2>2, <2>3 DEF NotWritten, TypeOK, Waiter
<1>12. ASSUME NEW c \in Conv, NEW n \in 0 .. MaxTurns, Mark(c, n)
      PROVE  TypeOK'
    <2>1. lock' \in Seq(Waiter)
        BY <1>0, <1>12, LockTypes DEF Mark
    <2>. QED BY <1>12, <2>1 DEF Mark, TypeOK, Waiter
<1>13. ASSUME NEW c \in Conv, NEW n \in 0 .. MaxTurns, Marked(c, n)
      PROVE  TypeOK'
    <2>1. Holds(<<c, n>>)
        BY <1>0, <1>13 DEF Marked
    <2>2. lock' \in Seq(Waiter)
        BY <1>0, <1>13, <2>1, LockTypes DEF Marked
    <2>3. pc' \in [Task -> PcState] /\ cur' \in [Conv -> 0 .. MaxTurns]
        BY <1>0, <1>13, ResumeSteps DEF Marked, TypeOK
    <2>. QED BY <1>13, <2>2, <2>3 DEF Marked, TypeOK, Waiter
<1>14. ASSUME NEW c \in Conv, NEW n \in 0 .. MaxTurns, Complete(c, n)
      PROVE  TypeOK'
    <2>1. lock' \in Seq(Waiter)
        BY <1>0, <1>14, LockTypes DEF Complete
    <2>. QED BY <1>14, <2>1 DEF Complete, TypeOK, Waiter
<1>15. ASSUME NEW c \in Conv, NEW n \in 1 .. MaxTurns, Remember(c, n)
      PROVE  TypeOK'
    BY <1>15 DEF Remember, TypeOK
<1>16. ASSUME NEW d \in Request, CollectOne(d)
      PROVE  TypeOK'
    <2>1. lock' \in Seq(Waiter)
        BY <1>0, <1>16, LockTypes DEF CollectOne
    <2>. QED BY <1>0, <1>16, <2>1 DEF CollectOne, TypeOK, DpcState, Waiter
<1>17. ASSUME NEW d \in Request, CollectAll(d)
      PROVE  TypeOK'
    <2>1. lock' \in Seq(Waiter)
        BY <1>0, <1>17, LockTypes DEF CollectAll
    <2>. QED BY <1>0, <1>17, <2>1 DEF CollectAll, TypeOK, DpcState, Waiter
<1>18. ASSUME NEW d \in Request, CloseSockets(d)
      PROVE  TypeOK'
    BY <1>0, <1>18 DEF CloseSockets, TypeOK
<1>19. ASSUME NEW d \in Request, EraseOne(d)
      PROVE  TypeOK'
    BY <1>0, <1>19 DEF EraseOne, TypeOK
<1>20. ASSUME NEW d \in Request, EraseAll(d)
      PROVE  TypeOK'
    BY <1>0, <1>20 DEF EraseAll, TypeOK
<1>21. ASSUME NEW d \in Request, EraseFails(d)
      PROVE  TypeOK'
    <2>1. lock' \in Seq(Waiter)
        BY <1>0, <1>21, LockTypes DEF EraseFails
    <2>. QED BY <1>0, <1>21, <2>1 DEF EraseFails, TypeOK, DpcState, Waiter
<1>22. ASSUME NEW d \in Request, Erased(d)
      PROVE  TypeOK'
    <2>1. lock' \in Seq(Waiter)
        BY <1>0, <1>22, LockTypes DEF Erased
    <2>. QED BY <1>0, <1>22, <2>1 DEF Erased, TypeOK, DpcState, Waiter
<1>23. ASSUME NEW d \in Request, Unblock(d)
      PROVE  TypeOK'
    <2>1. lock' \in Seq(Waiter)
        BY <1>0, <1>23, LockTypes DEF Unblock
    <2>. QED BY <1>0, <1>23, <2>1 DEF Unblock, TypeOK, DpcState, Waiter
<1>24. ASSUME NEW d \in Request, Note(d)
      PROVE  TypeOK'
    <2>1. lock' \in Seq(Waiter)
        BY <1>0, <1>24, LockTypes DEF Note
    <2>. QED BY <1>0, <1>24, <2>1 DEF Note, TypeOK, DpcState, Waiter
<1>25. ASSUME NEW d \in Request, Forget(d)
      PROVE  TypeOK'
    BY <1>0, <1>25 DEF Forget, TypeOK
<1>26. ASSUME NEW d \in Request, AskOne(d)
      PROVE  TypeOK'
    <2>1. lock' \in Seq(Waiter)
        BY <1>0, <1>26, LockTypes DEF AskOne
    <2>. QED BY <1>0, <1>26, <2>1 DEF AskOne, TypeOK, DpcState, Waiter
<1>27. ASSUME NEW d \in Request, AskAll(d)
      PROVE  TypeOK'
    <2>1. lock' \in Seq(Waiter)
        BY <1>0, <1>27, LockTypes DEF AskAll
    <2>. QED BY <1>0, <1>27, <2>1 DEF AskAll, TypeOK, DpcState, Waiter
<1>28. CASE UNCHANGED vars
    BY <1>28 DEF vars, TypeOK
<1>29. ASSUME NEW c \in Conv, Socket(c)
       PROVE  TypeOK'
    BY <1>29, <1>1, <1>2, <1>3, <1>4, <1>5 DEF Socket
<1>30. ASSUME NEW c \in Conv, NEW n \in 0 .. MaxTurns, Turn(c, n)
       PROVE  TypeOK'
    BY <1>30, <1>9, <1>10, <1>11, <1>12, <1>13, <1>14 DEF Turn
<1>31. ASSUME NEW d \in Request, Deletion(d)
       PROVE  TypeOK'
    BY <1>31, <1>16, <1>17, <1>18, <1>19, <1>20, <1>21, <1>22, <1>23, <1>24, <1>25 DEF Deletion
<1>32. CASE Environment
    BY <1>32, <1>6, <1>7, <1>8, <1>15, <1>26, <1>27 DEF Environment
<1>. QED BY <1>28, <1>29, <1>30, <1>31, <1>32 DEF Next

(* Who queues up behind the holder, or releases what it holds, does not    *)
(* let a second task into a statement.                                     *)
LEMMA QueueingIsExclusive ==
    ASSUME lock \in Seq(Waiter), Exclusive,
           \A t \in Task : pc'[t] \in {"store", "marking"} => pc[t] \in {"store", "marking"},
           NEW x \in Waiter, lock' = lock \/ Acquire(x)
    PROVE  Exclusive'
<1>1. ASSUME NEW t \in Task, pc'[t] \in {"store", "marking"}
      PROVE  lock' # <<>> /\ Head(lock') = t
    <2>1. lock # <<>> /\ Head(lock) = t
        BY <1>1 DEF Exclusive, Holds
    <2>. QED BY <2>1, AppendKeepsHead DEF Acquire
<1>. QED BY <1>1 DEF Exclusive, Holds

LEMMA ReleasingIsExclusive ==
    ASSUME Exclusive, NEW x \in Waiter, Holds(x),
           \A t \in Task : pc'[t] \in {"store", "marking"} => pc[t] \in {"store", "marking"} /\ t # x
    PROVE  /\ \A t \in Task : pc'[t] \notin {"store", "marking"}
           /\ Exclusive'
<1>1. ASSUME NEW t \in Task, pc'[t] \in {"store", "marking"}
      PROVE  FALSE
    BY <1>1 DEF Exclusive, Holds
<1>. QED BY <1>1 DEF Exclusive

(* No step lets a task into a statement of the store without the lock.     *)
LEMMA ExclusiveStep ==
    ASSUME TypeOK, Exclusive, [Next]_vars
    PROVE  Exclusive'
<1>. USE Names DEF runtime, store, faults, socket
<1>0. pc \in [Task -> PcState] /\ lock \in Seq(Waiter)
    BY DEF TypeOK, PcState, Waiter
<1>1. ASSUME NEW c \in Conv, Connect(c)
      PROVE  Exclusive'
    <2>1. \A t \in Task : pc'[t] \in {"store", "marking"} => pc[t] \in {"store", "marking"}
        BY <1>0, <1>1 DEF Connect
    <2>2. lock' = lock \/ Acquire(Handler(c))
        BY <1>1 DEF Connect
    <2>. QED BY <1>0, <2>1, <2>2, QueueingIsExclusive
<1>2. ASSUME NEW c \in Conv, Register(c)
      PROVE  Exclusive'
    <2>1. \A t \in Task : pc'[t] \in {"store", "marking"} => pc[t] \in {"store", "marking"} /\ t # Handler(c)
        BY <1>0, <1>2 DEF Register
    <2>2. Holds(Handler(c))
        BY <1>2 DEF Register
    <2>. QED BY <2>1, <2>2, ReleasingIsExclusive
<1>3. ASSUME NEW c \in Conv, Leave(c)
      PROVE  Exclusive'
    <2>. DEFINE r == <<c, cur[c]>>
    <2>1. cur[c] \in 0 .. MaxTurns /\ r \in Task
        BY DEF TypeOK
    <2>2. CASE UNCHANGED lock /\ \A t \in Task : pc'[t] \in {"store", "marking"} => pc[t] \in {"store", "marking"}
        BY <1>0, <2>2, QueueingIsExclusive
    <2>3. CASE CancelReply(c, r) /\ \A t \in Task : pc'[t] \in {"store", "marking"} =>
                 pc[t] \in {"store", "marking"} \/ (t = r /\ AfterCancel(r) \in {"store", "marking"})
        BY <2>1, <2>3, CancelSteps DEF Exclusive, Holds
    <2>4. CASE cur[c] = 0
        <3>1. pc' = [pc EXCEPT ![Handler(c)] = "leave"] /\ lock' = lock
            BY <1>3, <2>4 DEF Leave
        <3>. QED BY <1>0, <2>2, <3>1
    <2>5. CASE cur[c] # 0
        <3>1. /\ pc' = [pc EXCEPT ![Handler(c)] = "leave", ![r] = AfterCancel(r)]
              /\ CancelReply(c, r)
            BY <1>3, <2>5 DEF Leave
        <3>2. \A t \in Task : pc'[t] \in {"store", "marking"} =>
                 pc[t] \in {"store", "marking"} \/ (t = r /\ AfterCancel(r) \in {"store", "marking"})
            BY <1>0, <2>1, <3>1
        <3>. QED BY <2>3, <3>1, <3>2
    <2>. QED BY <2>4, <2>5
<1>4. ASSUME NEW c \in Conv, TearDown(c)
      PROVE  Exclusive'
    <2>1. \A t \in Task : pc'[t] \in {"store", "marking"} => pc[t] \in {"store", "marking"}
        BY <1>0, <1>4 DEF TearDown
    <2>2. lock' = lock \/ Acquire(Handler(c))
        BY <1>4 DEF TearDown
    <2>. QED BY <1>0, <2>1, <2>2, QueueingIsExclusive
<1>5. ASSUME NEW c \in Conv, Unregister(c)
      PROVE  Exclusive'
    <2>1. \A t \in Task : pc'[t] \in {"store", "marking"} => pc[t] \in {"store", "marking"} /\ t # Handler(c)
        BY <1>0, <1>5 DEF Unregister
    <2>2. Holds(Handler(c))
        BY <1>5 DEF Unregister
    <2>. QED BY <2>1, <2>2, ReleasingIsExclusive
<1>6. ASSUME NEW c \in Conv, ClientLeaves(c)
      PROVE  Exclusive'
    <2>1. \A t \in Task : pc'[t] \in {"store", "marking"} => pc[t] \in {"store", "marking"}
        BY <1>0, <1>6 DEF ClientLeaves
    <2>2. lock' = lock \/ Acquire(Handler(c))
        BY <1>6 DEF ClientLeaves
    <2>. QED BY <1>0, <2>1, <2>2, QueueingIsExclusive
<1>7. ASSUME NEW c \in Conv, UserTurn(c)
      PROVE  Exclusive'
    <2>1. \A t \in Task : pc'[t] \in {"store", "marking"} => pc[t] \in {"store", "marking"}
        BY <1>0, <1>7 DEF UserTurn
    <2>2. lock' = lock \/ Acquire(Handler(c))
        BY <1>7 DEF UserTurn
    <2>. QED BY <1>0, <2>1, <2>2, QueueingIsExclusive
<1>8. ASSUME NEW c \in Conv, Interrupt(c)
      PROVE  Exclusive'
    <2>. DEFINE r == <<c, cur[c]>>
    <2>1. cur[c] \in 0 .. MaxTurns /\ r \in Task
        BY DEF TypeOK
    <2>3. CASE CancelReply(c, r) /\ \A t \in Task : pc'[t] \in {"store", "marking"} =>
                 pc[t] \in {"store", "marking"} \/ (t = r /\ AfterCancel(r) \in {"store", "marking"})
        BY <2>1, <2>3, CancelSteps DEF Exclusive, Holds
    <2>4. pc' = [pc EXCEPT ![r] = AfterCancel(r)] /\ CancelReply(c, r)
        BY <1>8 DEF Interrupt
    <2>5. \A t \in Task : pc'[t] \in {"store", "marking"} =>
                 pc[t] \in {"store", "marking"} \/ (t = r /\ AfterCancel(r) \in {"store", "marking"})
        BY <1>0, <2>1, <2>4
    <2>. QED BY <2>3, <2>4, <2>5
<1>9. ASSUME NEW c \in Conv, NEW n \in 0 .. MaxTurns, Capture(c, n)
      PROVE  Exclusive'
    <2>1. CASE Refused(c)
        <3>1. \A t \in Task : pc'[t] \in {"store", "marking"} => pc[t] \in {"store", "marking"} /\ t # <<c, n>>
            BY <1>0, <1>9, <2>1 DEF Capture
        <3>. QED BY <1>9, <3>1, ReleasingIsExclusive DEF Capture
    <2>2. CASE ~Refused(c)
        BY <1>0, <1>9, <2>2 DEF Capture, Exclusive, Holds
    <2>. QED BY <2>1, <2>2
<1>10. ASSUME NEW c \in Conv, NEW n \in 0 .. MaxTurns, Written(c, n)
      PROVE  Exclusive'
    <2>1. Holds(<<c, n>>)
        BY <1>10 DEF Written, Exclusive
    <2>2. Resume(c, n)
        BY <1>10 DEF Written
    <2>. QED BY <2>1, <2>2, ResumeSteps, ReleasingIsExclusive
<1>11. ASSUME NEW c \in Conv, NEW n \in 0 .. MaxTurns, NotWritten(c, n)
      PROVE  Exclusive'
    <2>1. Holds(<<c, n>>)
        BY <1>11 DEF NotWritten, Exclusive
    <2>2. CASE Resume(c, n)
        BY <2>1, <2>2, ResumeSteps, ReleasingIsExclusive
    <2>3. CASE pc' = [pc EXCEPT ![<<c, n>>] = "mark"]
        BY <1>0, <2>1, <2>3, ReleasingIsExclusive
    <2>. QED BY <1>11, <2>2, <2>3 DEF NotWritten
<1>12. ASSUME NEW c \in Conv, NEW n \in 0 .. MaxTurns, Mark(c, n)
      PROVE  Exclusive'
    BY <1>0, <1>12 DEF Mark, Exclusive, Holds
<1>13. ASSUME NEW c \in Conv, NEW n \in 0 .. MaxTurns, Marked(c, n)
      PROVE  Exclusive'
    <2>1. Holds(<<c, n>>)
        BY <1>13 DEF Marked, Exclusive
    <2>2. Resume(c, n)
        BY <1>13 DEF Marked
    <2>. QED BY <2>1, <2>2, ResumeSteps, ReleasingIsExclusive
<1>14. ASSUME NEW c \in Conv, NEW n \in 0 .. MaxTurns, Complete(c, n)
      PROVE  Exclusive'
    <2>1. \A t \in Task : pc'[t] \in {"store", "marking"} => pc[t] \in {"store", "marking"}
        BY <1>0, <1>14 DEF Complete
    <2>2. lock' = lock \/ Acquire(<<c, n>>)
        BY <1>14 DEF Complete
    <2>. QED BY <1>0, <2>1, <2>2, QueueingIsExclusive
<1>15. ASSUME NEW c \in Conv, NEW n \in 1 .. MaxTurns, Remember(c, n)
      PROVE  Exclusive'
    <2>1. \A t \in Task : pc'[t] \in {"store", "marking"} => pc[t] \in {"store", "marking"}
        BY <1>0, <1>15 DEF Remember
    <2>2. lock' = lock \/ Acquire(<<c, n>>)
        BY <1>15 DEF Remember
    <2>. QED BY <1>0, <2>1, <2>2, QueueingIsExclusive
<1>16. ASSUME NEW d \in Request, CollectOne(d)
      PROVE  Exclusive'
    <2>1. \A t \in Task : pc'[t] \in {"store", "marking"} => pc[t] \in {"store", "marking"} /\ t # Del(d)
        BY <1>0, <1>16 DEF CollectOne
    <2>2. Holds(Del(d))
        BY <1>16 DEF CollectOne
    <2>. QED BY <2>1, <2>2, ReleasingIsExclusive
<1>17. ASSUME NEW d \in Request, CollectAll(d)
      PROVE  Exclusive'
    <2>1. \A t \in Task : pc'[t] \in {"store", "marking"} => pc[t] \in {"store", "marking"} /\ t # Del(d)
        BY <1>0, <1>17 DEF CollectAll
    <2>2. Holds(Del(d))
        BY <1>17 DEF CollectAll
    <2>. QED BY <2>1, <2>2, ReleasingIsExclusive
<1>18. ASSUME NEW d \in Request, CloseSockets(d)
      PROVE  Exclusive'
    <2>1. \A t \in Task : pc'[t] \in {"store", "marking"} => pc[t] \in {"store", "marking"}
        BY <1>0, <1>18 DEF CloseSockets
    <2>2. lock' = lock \/ Acquire(Del(d))
        BY <1>18 DEF CloseSockets
    <2>. QED BY <1>0, <2>1, <2>2, QueueingIsExclusive
<1>19. ASSUME NEW d \in Request, EraseOne(d)
      PROVE  Exclusive'
    <2>1. \A t \in Task : pc'[t] \in {"store", "marking"} => pc[t] \in {"store", "marking"}
        BY <1>0, <1>19 DEF EraseOne
    <2>2. lock' = lock \/ Acquire(Del(d))
        BY <1>19 DEF EraseOne
    <2>. QED BY <1>0, <2>1, <2>2, QueueingIsExclusive
<1>20. ASSUME NEW d \in Request, EraseAll(d)
      PROVE  Exclusive'
    <2>1. \A t \in Task : pc'[t] \in {"store", "marking"} => pc[t] \in {"store", "marking"}
        BY <1>0, <1>20 DEF EraseAll
    <2>2. lock' = lock \/ Acquire(Del(d))
        BY <1>20 DEF EraseAll
    <2>. QED BY <1>0, <2>1, <2>2, QueueingIsExclusive
<1>21. ASSUME NEW d \in Request, EraseFails(d)
      PROVE  Exclusive'
    <2>1. \A t \in Task : pc'[t] \in {"store", "marking"} => pc[t] \in {"store", "marking"}
        BY <1>0, <1>21 DEF EraseFails
    <2>2. lock' = lock \/ Acquire(Del(d))
        BY <1>21 DEF EraseFails
    <2>. QED BY <1>0, <2>1, <2>2, QueueingIsExclusive
<1>22. ASSUME NEW d \in Request, Erased(d)
      PROVE  Exclusive'
    <2>1. \A t \in Task : pc'[t] \in {"store", "marking"} => pc[t] \in {"store", "marking"}
        BY <1>0, <1>22 DEF Erased
    <2>2. lock' = lock \/ Acquire(Del(d))
        BY <1>22 DEF Erased
    <2>. QED BY <1>0, <2>1, <2>2, QueueingIsExclusive
<1>23. ASSUME NEW d \in Request, Unblock(d)
      PROVE  Exclusive'
    <2>1. \A t \in Task : pc'[t] \in {"store", "marking"} => pc[t] \in {"store", "marking"} /\ t # Del(d)
        BY <1>0, <1>23 DEF Unblock
    <2>2. Holds(Del(d))
        BY <1>23 DEF Unblock
    <2>. QED BY <2>1, <2>2, ReleasingIsExclusive
<1>24. ASSUME NEW d \in Request, Note(d)
      PROVE  Exclusive'
    <2>1. \A t \in Task : pc'[t] \in {"store", "marking"} => pc[t] \in {"store", "marking"} /\ t # Del(d)
        BY <1>0, <1>24 DEF Note
    <2>2. Holds(Del(d))
        BY <1>24 DEF Note
    <2>. QED BY <2>1, <2>2, ReleasingIsExclusive
<1>25. ASSUME NEW d \in Request, Forget(d)
      PROVE  Exclusive'
    <2>1. \A t \in Task : pc'[t] \in {"store", "marking"} => pc[t] \in {"store", "marking"}
        BY <1>0, <1>25 DEF Forget
    <2>2. lock' = lock \/ Acquire(Del(d))
        BY <1>25 DEF Forget
    <2>. QED BY <1>0, <2>1, <2>2, QueueingIsExclusive
<1>26. ASSUME NEW d \in Request, AskOne(d)
      PROVE  Exclusive'
    <2>1. \A t \in Task : pc'[t] \in {"store", "marking"} => pc[t] \in {"store", "marking"}
        BY <1>0, <1>26 DEF AskOne
    <2>2. lock' = lock \/ Acquire(Del(d))
        BY <1>26 DEF AskOne
    <2>. QED BY <1>0, <2>1, <2>2, QueueingIsExclusive
<1>27. ASSUME NEW d \in Request, AskAll(d)
      PROVE  Exclusive'
    <2>1. \A t \in Task : pc'[t] \in {"store", "marking"} => pc[t] \in {"store", "marking"}
        BY <1>0, <1>27 DEF AskAll
    <2>2. lock' = lock \/ Acquire(Del(d))
        BY <1>27 DEF AskAll
    <2>. QED BY <1>0, <2>1, <2>2, QueueingIsExclusive
<1>28. CASE UNCHANGED vars
    BY <1>28 DEF vars, Exclusive, Holds
<1>29. ASSUME NEW c \in Conv, Socket(c)
       PROVE  Exclusive'
    BY <1>29, <1>1, <1>2, <1>3, <1>4, <1>5 DEF Socket
<1>30. ASSUME NEW c \in Conv, NEW n \in 0 .. MaxTurns, Turn(c, n)
       PROVE  Exclusive'
    BY <1>30, <1>9, <1>10, <1>11, <1>12, <1>13, <1>14 DEF Turn
<1>31. ASSUME NEW d \in Request, Deletion(d)
       PROVE  Exclusive'
    BY <1>31, <1>16, <1>17, <1>18, <1>19, <1>20, <1>21, <1>22, <1>23, <1>24, <1>25 DEF Deletion
<1>32. CASE Environment
    BY <1>32, <1>6, <1>7, <1>8, <1>15, <1>26, <1>27 DEF Environment
<1>. QED BY <1>28, <1>29, <1>30, <1>31, <1>32 DEF Next

(* A step that leaves the rows, the tombstones and the collected names     *)
(* alone and lets nobody into a write.                                     *)
LEMMA QuietStep ==
    ASSUME Tombstoned, Named, UNCHANGED <<deleted, stored, started, erased, scope>>,
           \A t \in Task : pc'[t] = "store" => pc[t] = "store", deleted \subseteq Conv
    PROVE  Tombstoned' /\ Named'
<1>1. Named'
    BY DEF Named
<1>2. Tombstoned'
    BY Names DEF Tombstoned
<1>. QED BY <1>1, <1>2

(* While a delete request holds the lock nobody writes.                    *)
LEMMA RequestHolds ==
    ASSUME Exclusive, NEW d \in Request, Holds(Del(d))
    PROVE  \A t \in Task : pc[t] # "store"
BY Names DEF Exclusive, Holds

(* Tombstones keep writers out, and what a deletion took is not written    *)
(* again: the only way to a row is the first write of a conversation, and  *)
(* a conversation that was taken before it began has a tombstone.          *)
LEMMA TakenStep ==
    ASSUME IInv, [Next]_vars
    PROVE  Tombstoned' /\ Named'
<1>. USE Names DEF runtime, store, faults, socket, IInv
<1>0. /\ pc \in [Task -> PcState] /\ scope \in [Request -> SUBSET Conv]
      /\ deleted \subseteq Conv /\ active \subseteq Conv /\ stored \subseteq Conv
      /\ started \subseteq Conv
    BY DEF TypeOK, PcState
<1>1. ASSUME NEW c \in Conv, Connect(c)
      PROVE  Tombstoned' /\ Named'
    <2>1. \A t \in Task : pc'[t] = "store" => pc[t] = "store"
        BY <1>0, <1>1 DEF Connect
    <2>2. UNCHANGED <<deleted, stored, started, erased, scope>>
        BY <1>1 DEF Connect
    <2>. QED BY <1>0, <2>1, <2>2, QuietStep
<1>2. ASSUME NEW c \in Conv, Register(c)
      PROVE  Tombstoned' /\ Named'
    <2>1. \A t \in Task : pc'[t] = "store" => pc[t] = "store"
        BY <1>0, <1>2 DEF Register
    <2>2. UNCHANGED <<deleted, stored, started, erased, scope>>
        BY <1>2 DEF Register
    <2>. QED BY <1>0, <2>1, <2>2, QuietStep
<1>3. ASSUME NEW c \in Conv, Leave(c)
      PROVE  Tombstoned' /\ Named'
    <2>. DEFINE r == <<c, cur[c]>>
    <2>1. cur[c] \in 0 .. MaxTurns /\ r \in Task
        BY DEF TypeOK
    <2>2. AfterCancel(r) = "store" => pc[r] = "store"
        BY DEF AfterCancel
    <2>3. \/ pc' = [pc EXCEPT ![Handler(c)] = "leave"]
          \/ pc' = [pc EXCEPT ![Handler(c)] = "leave", ![r] = AfterCancel(r)]
        BY <1>3 DEF Leave
    <2>4. \A t \in Task : pc'[t] = "store" => pc[t] = "store"
        BY <1>0, <2>1, <2>2, <2>3
    <2>5. UNCHANGED <<deleted, stored, started, erased, scope>>
        BY <1>3 DEF Leave
    <2>. QED BY <1>0, <2>4, <2>5, QuietStep
<1>4. ASSUME NEW c \in Conv, TearDown(c)
      PROVE  Tombstoned' /\ Named'
    <2>1. \A t \in Task : pc'[t] = "store" => pc[t] = "store"
        BY <1>0, <1>4 DEF TearDown
    <2>2. UNCHANGED <<deleted, stored, started, erased, scope>>
        BY <1>4 DEF TearDown
    <2>. QED BY <1>0, <2>1, <2>2, QuietStep
<1>5. ASSUME NEW c \in Conv, Unregister(c)
      PROVE  Tombstoned' /\ Named'
    <2>1. \A t \in Task : pc'[t] = "store" => pc[t] = "store"
        BY <1>0, <1>5 DEF Unregister
    <2>2. UNCHANGED <<deleted, stored, started, erased, scope>>
        BY <1>5 DEF Unregister
    <2>. QED BY <1>0, <2>1, <2>2, QuietStep
<1>6. ASSUME NEW c \in Conv, ClientLeaves(c)
      PROVE  Tombstoned' /\ Named'
    <2>1. \A t \in Task : pc'[t] = "store" => pc[t] = "store"
        BY <1>0, <1>6 DEF ClientLeaves
    <2>2. UNCHANGED <<deleted, stored, started, erased, scope>>
        BY <1>6 DEF ClientLeaves
    <2>. QED BY <1>0, <2>1, <2>2, QuietStep
<1>7. ASSUME NEW c \in Conv, UserTurn(c)
      PROVE  Tombstoned' /\ Named'
    <2>1. \A t \in Task : pc'[t] = "store" => pc[t] = "store"
        BY <1>0, <1>7 DEF UserTurn
    <2>2. UNCHANGED <<deleted, stored, started, erased, scope>>
        BY <1>7 DEF UserTurn
    <2>. QED BY <1>0, <2>1, <2>2, QuietStep
<1>8. ASSUME NEW c \in Conv, Interrupt(c)
      PROVE  Tombstoned' /\ Named'
    <2>. DEFINE r == <<c, cur[c]>>
    <2>1. cur[c] \in 0 .. MaxTurns /\ r \in Task
        BY DEF TypeOK
    <2>2. AfterCancel(r) = "store" => pc[r] = "store"
        BY DEF AfterCancel
    <2>3. pc' = [pc EXCEPT ![r] = AfterCancel(r)]
        BY <1>8 DEF Interrupt
    <2>4. \A t \in Task : pc'[t] = "store" => pc[t] = "store"
        BY <1>0, <2>1, <2>2, <2>3
    <2>5. UNCHANGED <<deleted, stored, started, erased, scope>>
        BY <1>8 DEF Interrupt
    <2>. QED BY <1>0, <2>4, <2>5, QuietStep
<1>9. ASSUME NEW c \in Conv, NEW n \in 0 .. MaxTurns, Capture(c, n)
      PROVE  Tombstoned' /\ Named'
    <2>1. UNCHANGED <<deleted, stored, started, erased, scope>>
        BY <1>9 DEF Capture
    <2>2. Named'
        BY <2>1 DEF Named
    <2>3. ASSUME NEW e \in deleted, NEW m \in 0 .. MaxTurns
          PROVE  pc'[<<e, m>>] # "store"
        <3>1. pc[<<e, m>>] # "store"
            BY DEF Tombstoned
        <3>2. <<e, m>> = <<c, n>> => Refused(c)
            BY DEF Refused
        <3>. QED BY <1>0, <1>9, <3>1, <3>2 DEF Capture
    <2>. QED BY <2>1, <2>2, <2>3 DEF Tombstoned
<1>10. ASSUME NEW c \in Conv, NEW n \in 0 .. MaxTurns, Written(c, n)
      PROVE  Tombstoned' /\ Named'
    <2>1. /\ UNCHANGED <<deleted, erased, scope>> /\ Resume(c, n)
          /\ stored' = stored \union {c} /\ started' = started \union {c}
        BY <1>10 DEF Written
    <2>2. c \notin deleted
        BY <1>10 DEF Written, Tombstoned
    <2>3. c \in erased => c \in stored
        BY <1>10, <2>2 DEF Written, Named
    <2>4. c \notin erased
        BY <2>3 DEF Named
    <2>5. Named'
        BY <2>1, <2>4 DEF Named
    <2>6. \A t \in Task : pc'[t] = "store" => pc[t] = "store"
        BY <2>1, ResumeSteps
    <2>7. Tombstoned'
        BY <1>0, <2>1, <2>6 DEF Tombstoned
    <2>. QED BY <2>5, <2>7
<1>11. ASSUME NEW c \in Conv, NEW n \in 0 .. MaxTurns, NotWritten(c, n)
      PROVE  Tombstoned' /\ Named'
    <2>1. Resume(c, n) \/ pc' = [pc EXCEPT ![<<c, n>>] = "mark"]
        BY <1>11 DEF NotWritten
    <2>2. \A t \in Task : pc'[t] = "store" => pc[t] = "store"
        BY <1>0, <2>1, ResumeSteps
    <2>3. UNCHANGED <<deleted, stored, started, erased, scope>>
        BY <1>11 DEF NotWritten
    <2>. QED BY <1>0, <2>2, <2>3, QuietStep
<1>12. ASSUME NEW c \in Conv, NEW n \in 0 .. MaxTurns, Mark(c, n)
      PROVE  Tombstoned' /\ Named'
    <2>1. \A t \in Task : pc'[t] = "store" => pc[t] = "store"
        BY <1>0, <1>12 DEF Mark
    <2>2. UNCHANGED <<deleted, stored, started, erased, scope>>
        BY <1>12 DEF Mark
    <2>. QED BY <1>0, <2>1, <2>2, QuietStep
<1>13. ASSUME NEW c \in Conv, NEW n \in 0 .. MaxTurns, Marked(c, n)
      PROVE  Tombstoned' /\ Named'
    <2>1. Resume(c, n) \/ pc' = [pc EXCEPT ![<<c, n>>] = "mark"]
        BY <1>13 DEF Marked
    <2>2. \A t \in Task : pc'[t] = "store" => pc[t] = "store"
        BY <1>0, <2>1, ResumeSteps
    <2>3. UNCHANGED <<deleted, stored, started, erased, scope>>
        BY <1>13 DEF Marked
    <2>. QED BY <1>0, <2>2, <2>3, QuietStep
<1>14. ASSUME NEW c \in Conv, NEW n \in 0 .. MaxTurns, Complete(c, n)
      PROVE  Tombstoned' /\ Named'
    <2>1. \A t \in Task : pc'[t] = "store" => pc[t] = "store"
        BY <1>0, <1>14 DEF Complete
    <2>2. UNCHANGED <<deleted, stored, started, erased, scope>>
        BY <1>14 DEF Complete
    <2>. QED BY <1>0, <2>1, <2>2, QuietStep
<1>15. ASSUME NEW c \in Conv, NEW n \in 1 .. MaxTurns, Remember(c, n)
      PROVE  Tombstoned' /\ Named'
    <2>1. \A t \in Task : pc'[t] = "store" => pc[t] = "store"
        BY <1>0, <1>15 DEF Remember
    <2>2. UNCHANGED <<deleted, stored, started, erased, scope>>
        BY <1>15 DEF Remember
    <2>. QED BY <1>0, <2>1, <2>2, QuietStep
<1>16. ASSUME NEW d \in Request, CollectOne(d)
      PROVE  Tombstoned' /\ Named'
    <2>1. \A t \in Task : pc'[t] # "store"
        BY <1>16, RequestHolds DEF CollectOne
    <2>2. /\ deleted' = deleted \union (scope[d] \intersect active) /\ scope' = scope
          /\ UNCHANGED <<stored, started, erased>>
        BY <1>16 DEF CollectOne
    <2>3. deleted' \subseteq Conv
        BY <1>0, <2>2
    <2>4. Tombstoned'
        BY <2>1, <2>3 DEF Tombstoned
    <2>5. Named'
        BY <1>0, <2>2 DEF Named
    <2>. QED BY <2>4, <2>5
<1>17. ASSUME NEW d \in Request, CollectAll(d)
      PROVE  Tombstoned' /\ Named'
    <2>1. \A t \in Task : pc'[t] # "store"
        BY <1>17, RequestHolds DEF CollectAll
    <2>2. /\ deleted' = deleted \union active /\ scope' = [scope EXCEPT ![d] = active]
          /\ UNCHANGED <<stored, started, erased>>
        BY <1>17 DEF CollectAll
    <2>3. deleted' \subseteq Conv
        BY <1>0, <2>2
    <2>4. Tombstoned'
        BY <2>1, <2>3 DEF Tombstoned
    <2>5. Named'
        BY <1>0, <2>2 DEF Named
    <2>. QED BY <2>4, <2>5
<1>18. ASSUME NEW d \in Request, CloseSockets(d)
      PROVE  Tombstoned' /\ Named'
    <2>1. \A t \in Task : pc'[t] = "store" => pc[t] = "store"
        BY <1>0, <1>18 DEF CloseSockets
    <2>2. UNCHANGED <<deleted, stored, started, erased, scope>>
        BY <1>18 DEF CloseSockets
    <2>. QED BY <1>0, <2>1, <2>2, QuietStep
<1>19. ASSUME NEW d \in Request, EraseOne(d)
      PROVE  Tombstoned' /\ Named'
    <2>1. /\ stored' = stored \ scope[d] /\ scope' = scope
          /\ erased' = erased \union (scope[d] \intersect stored)
          /\ UNCHANGED <<pc, deleted, started>>
        BY <1>19 DEF EraseOne
    <2>2. Tombstoned'
        BY <2>1 DEF Tombstoned
    <2>3. Named'
        BY <1>0, <2>1 DEF Named
    <2>. QED BY <2>2, <2>3
<1>20. ASSUME NEW d \in Request, EraseAll(d)
      PROVE  Tombstoned' /\ Named'
    <2>1. /\ stored' = {} /\ scope' = [scope EXCEPT ![d] = @ \union stored]
          /\ erased' = erased \union scope[d] \union stored
          /\ UNCHANGED <<pc, deleted, started>>
        BY <1>20 DEF EraseAll
    <2>2. Tombstoned'
        BY <2>1 DEF Tombstoned
    <2>3. Named'
        BY <1>0, <2>1 DEF Named
    <2>. QED BY <2>2, <2>3
<1>21. ASSUME NEW d \in Request, EraseFails(d)
      PROVE  Tombstoned' /\ Named'
    <2>1. \A t \in Task : pc'[t] = "store" => pc[t] = "store"
        BY <1>0, <1>21 DEF EraseFails
    <2>2. UNCHANGED <<deleted, stored, started, erased, scope>>
        BY <1>21 DEF EraseFails
    <2>. QED BY <1>0, <2>1, <2>2, QuietStep
<1>22. ASSUME NEW d \in Request, Erased(d)
      PROVE  Tombstoned' /\ Named'
    <2>1. \A t \in Task : pc'[t] = "store" => pc[t] = "store"
        BY <1>0, <1>22 DEF Erased
    <2>2. UNCHANGED <<deleted, stored, started, erased, scope>>
        BY <1>22 DEF Erased
    <2>. QED BY <1>0, <2>1, <2>2, QuietStep
<1>23. ASSUME NEW d \in Request, Unblock(d)
      PROVE  Tombstoned' /\ Named'
    <2>1. \A t \in Task : pc'[t] = "store" => pc[t] = "store"
        BY <1>0, <1>23 DEF Unblock
    <2>2. UNCHANGED <<deleted, stored, started, erased, scope>>
        BY <1>23 DEF Unblock
    <2>. QED BY <1>0, <2>1, <2>2, QuietStep
<1>24. ASSUME NEW d \in Request, Note(d)
      PROVE  Tombstoned' /\ Named'
    <2>1. \A t \in Task : pc'[t] # "store"
        BY <1>24, RequestHolds DEF Note
    <2>2. /\ deleted' = deleted \union scope[d] /\ scope' = scope
          /\ UNCHANGED <<stored, started, erased>>
        BY <1>24 DEF Note
    <2>3. deleted' \subseteq Conv
        BY <1>0, <2>2
    <2>4. Tombstoned'
        BY <2>1, <2>3 DEF Tombstoned
    <2>5. Named'
        BY <1>0, <2>2 DEF Named
    <2>. QED BY <2>4, <2>5
<1>25. ASSUME NEW d \in Request, Forget(d)
      PROVE  Tombstoned' /\ Named'
    <2>1. \A t \in Task : pc'[t] = "store" => pc[t] = "store"
        BY <1>0, <1>25 DEF Forget
    <2>2. UNCHANGED <<deleted, stored, started, erased, scope>>
        BY <1>25 DEF Forget
    <2>. QED BY <1>0, <2>1, <2>2, QuietStep
<1>26. ASSUME NEW d \in Request, AskOne(d)
      PROVE  Tombstoned' /\ Named'
    <2>1. /\ UNCHANGED <<pc, deleted, stored, started, erased>>
          /\ \E c \in started : scope' = [scope EXCEPT ![d] = {c}]
        BY <1>26 DEF AskOne
    <2>2. Tombstoned'
        BY <2>1 DEF Tombstoned
    <2>3. Named'
        BY <1>0, <2>1 DEF Named
    <2>. QED BY <2>2, <2>3
<1>27. ASSUME NEW d \in Request, AskAll(d)
      PROVE  Tombstoned' /\ Named'
    <2>1. \A t \in Task : pc'[t] = "store" => pc[t] = "store"
        BY <1>0, <1>27 DEF AskAll
    <2>2. UNCHANGED <<deleted, stored, started, erased, scope>>
        BY <1>27 DEF AskAll
    <2>. QED BY <1>0, <2>1, <2>2, QuietStep
<1>28. CASE UNCHANGED vars
    BY <1>0, <1>28, QuietStep DEF vars
<1>29. ASSUME NEW c \in Conv, Socket(c)
       PROVE  Tombstoned' /\ Named'
    BY <1>29, <1>1, <1>2, <1>3, <1>4, <1>5 DEF Socket
<1>30. ASSUME NEW c \in Conv, NEW n \in 0 .. MaxTurns, Turn(c, n)
       PROVE  Tombstoned' /\ Named'
    BY <1>30, <1>9, <1>10, <1>11, <1>12, <1>13, <1>14 DEF Turn
<1>31. ASSUME NEW d \in Request, Deletion(d)
       PROVE  Tombstoned' /\ Named'
    BY <1>31, <1>16, <1>17, <1>18, <1>19, <1>20, <1>21, <1>22, <1>23, <1>24, <1>25 DEF Deletion
<1>32. CASE Environment
    BY <1>32, <1>6, <1>7, <1>8, <1>15, <1>26, <1>27 DEF Environment
<1>. QED BY <1>28, <1>29, <1>30, <1>31, <1>32 DEF Next
-----------------------------------------------------------------------------
(* The inductive invariant holds in every state.                           *)
THEOREM Invariance == Spec => []IInv
<1>1. Init => IInv
    <2>. SUFFICES ASSUME Init PROVE IInv
        OBVIOUS
    <2>1. lock \in Seq(Waiter)
        BY DEF Init
    <2>2. TypeOK
        <3>1. /\ pc \in [Task -> PcState] /\ dpc \in [Request -> DpcState]
              /\ scope \in [Request -> SUBSET Conv]
            BY DEF Init, PcState, DpcState
        <3>2. /\ turns \in [Conv -> 0 .. MaxTurns] /\ cur \in [Conv -> 0 .. MaxTurns]
              /\ fails \in 0 .. MaxFails
            BY Names, ConstantsAssumption DEF Init, ConstantsAssumption
        <3>3. {active, deleted, failures, closed, started, stored, incomplete, memory, lost, erased}
                  \subseteq SUBSET Conv /\ blocked \in BOOLEAN
            BY DEF Init
        <3>. QED BY <2>1, <3>1, <3>2, <3>3 DEF TypeOK, Waiter, PcState, DpcState
    <2>3. Exclusive /\ Tombstoned /\ Named
        BY Names DEF Init, Exclusive, Tombstoned, Named
    <2>. QED BY <2>2, <2>3 DEF IInv
<1>2. IInv /\ [Next]_vars => IInv'
    BY TypeStep, ExclusiveStep, TakenStep DEF IInv
<1>. QED BY <1>1, <1>2, PTL DEF Spec

(* Types: every variable of the runtime keeps its type.                    *)
THEOREM TypeCorrect == Spec => []TypeOK
<1>1. IInv => TypeOK
    BY DEF IInv
<1>. QED BY <1>1, Invariance, PTL

(* The lock of _HistoryRuntime is a lock although a barge-in cancels tasks *)
(* that wait for it and tasks that hold it: at most one capture is in a    *)
(* statement of the store.                                                 *)
THEOREM OneWriter ==
    Spec => [](\A t, u \in Task : Busy(t) /\ Busy(u) => t = u)
<1>1. IInv => \A t, u \in Task : Busy(t) /\ Busy(u) => t = u
    BY DEF IInv, Exclusive, Holds, Busy
<1>. QED BY <1>1, Invariance, PTL
-----------------------------------------------------------------------------
(* Only a first write and a DELETE statement touch the rows.               *)
LEMMA PromisedStep ==
    ASSUME IInv, IInv', [Next]_vars
    PROVE  [Promise!Next]_<<stored, erased>>
<1>. USE Names DEF runtime, store, faults, socket
<1>0. /\ stored \subseteq Conv /\ scope \in [Request -> SUBSET Conv]
      /\ erased' \intersect stored' = {}
    BY DEF IInv, TypeOK, Named
<1>1. ASSUME NEW c \in Conv, NEW n \in 0 .. MaxTurns, Written(c, n)
      PROVE  Promise!Next
    <2>1. stored' = stored \union {c} /\ erased' = erased
        BY <1>1 DEF Written
    <2>2. Promise!Save(c)
        BY <1>0, <2>1 DEF Promise!Save
    <2>. QED BY <2>2 DEF Promise!Next
<1>2. ASSUME NEW d \in Request, EraseOne(d)
      PROVE  Promise!Next
    <2>1. /\ stored' = stored \ scope[d]
          /\ erased' = erased \union (scope[d] \intersect stored)
        BY <1>2 DEF EraseOne
    <2>2. Promise!Erase(scope[d] \intersect stored)
        BY <2>1 DEF Promise!Erase
    <2>. QED BY <1>0, <2>2 DEF Promise!Next
<1>3. ASSUME NEW d \in Request, EraseAll(d)
      PROVE  Promise!Next
    <2>1. stored' = {} /\ erased' = erased \union scope[d] \union stored
        BY <1>3 DEF EraseAll
    <2>2. Promise!Erase(scope[d] \union stored)
        BY <2>1 DEF Promise!Erase
    <2>. QED BY <1>0, <2>2 DEF Promise!Next
<1>4. ASSUME NEW c \in Conv, Socket(c)
      PROVE  UNCHANGED <<stored, erased>>
    BY <1>4 DEF Socket, Connect, Register, Leave, TearDown, Unregister
<1>5. ASSUME NEW c \in Conv, NEW n \in 0 .. MaxTurns, Turn(c, n)
      PROVE  Promise!Next \/ UNCHANGED <<stored, erased>>
    BY <1>1, <1>5 DEF Turn, Capture, NotWritten, Mark, Marked, Complete
<1>6. ASSUME NEW d \in Request, Deletion(d)
      PROVE  Promise!Next \/ UNCHANGED <<stored, erased>>
    BY <1>2, <1>3, <1>6
    DEF Deletion, CollectOne, CollectAll, CloseSockets, EraseFails, Erased, Unblock, Note, Forget
<1>7. CASE Environment
    BY <1>7 DEF Environment, ClientLeaves, UserTurn, Interrupt, Remember, AskOne, AskAll
<1>8. CASE UNCHANGED vars
    BY <1>8 DEF vars
<1>. QED BY <1>4, <1>5, <1>6, <1>7, <1>8 DEF Next

(* Whatever sockets, replies and delete requests do meanwhile, a saved     *)
(* conversation stays until a deletion names it, and what a deletion has   *)
(* named is never written again.                                           *)
THEOREM Implements == Spec => KeepsPromise
<1>1. Init => Promise!Init
    BY DEF Init, Promise!Init
<1>2. IInv /\ IInv' /\ [Next]_vars => [Promise!Next]_<<stored, erased>>
    BY PromisedStep
<1>. QED BY <1>1, <1>2, Invariance, PTL DEF Spec, KeepsPromise, Promise!Spec
-----------------------------------------------------------------------------
(* An owner is never blocked for good: blocked_owners holds the owner only *)
(* while a delete request that will take it out is under way.              *)
THEOREM BlockedOnlyMeanwhile == Spec => []BlockedIsTemporary
<1>. DEFINE Under == {"close", "erase", "erased", "unblock", "giveup"}
<1>1. Init => BlockedIsTemporary
    BY DEF Init, BlockedIsTemporary
<1>2. ASSUME TypeOK, BlockedIsTemporary, [Next]_vars
      PROVE  BlockedIsTemporary'
    <2>. USE DEF runtime
    <2>0. dpc \in [Request -> DpcState] /\ Wipes \subseteq Request
        BY <1>2 DEF TypeOK, DpcState, Request
    <2>1. CASE ~blocked'
        BY <2>1 DEF BlockedIsTemporary
    <2>2. ASSUME UNCHANGED <<blocked, dpc>>
          PROVE  BlockedIsTemporary'
        BY <1>2, <2>2 DEF BlockedIsTemporary
    <2>3. ASSUME NEW d \in Request, blocked', Deletion(d) \/ AskOne(d) \/ AskAll(d)
          PROVE  BlockedIsTemporary'
        <3>1. CASE CollectAll(d)
            <4>1. d \in Wipes /\ dpc'[d] = "close"
                BY <2>0, <3>1 DEF CollectAll
            <4>. QED BY <4>1 DEF BlockedIsTemporary
        <3>2. CASE ~CollectAll(d)
            <4>1. blocked /\ ~Unblock(d)
                BY <2>3, <3>2 DEF Deletion, CollectOne, CloseSockets, EraseOne, EraseAll,
                   EraseFails, Erased, Unblock, Note, Forget, AskOne, AskAll
            <4>2. PICK e \in Wipes : dpc[e] \in Under
                BY <1>2, <2>3, <4>1 DEF BlockedIsTemporary
            <4>3. e = d => d \in Wipes /\ d \notin Singles
                BY <4>2, ConstantsAssumption DEF ConstantsAssumption
            <4>. SUFFICES dpc'[e] \in Under
                BY <4>2 DEF BlockedIsTemporary
            <4>4. CASE AskOne(d) \/ AskAll(d) \/ CollectOne(d) \/ Note(d) \/ Forget(d)
                BY <2>0, <4>2, <4>3, <4>4 DEF AskOne, AskAll, CollectOne, Note, Forget
            <4>5. CASE CloseSockets(d) \/ EraseOne(d) \/ EraseAll(d)
                BY <2>0, <4>2, <4>3, <4>5 DEF CloseSockets, EraseOne, EraseAll
            <4>6. CASE EraseFails(d) \/ Erased(d)
                BY <2>0, <4>2, <4>3, <4>6 DEF EraseFails, Erased
            <4>. QED BY <2>3, <3>2, <4>1, <4>4, <4>5, <4>6 DEF Deletion
        <3>. QED BY <3>1, <3>2
    <2>4. ASSUME NEW c \in Conv, Socket(c)
          PROVE  UNCHANGED <<blocked, dpc>>
        BY <2>4 DEF Socket, Connect, Register, Leave, TearDown, Unregister
    <2>5. ASSUME NEW c \in Conv, NEW n \in 0 .. MaxTurns, Turn(c, n)
          PROVE  UNCHANGED <<blocked, dpc>>
        BY <2>5 DEF Turn, Capture, Written, NotWritten, Mark, Marked, Complete
    <2>6. CASE Environment
        <3>1. ASSUME NEW c \in Conv, ClientLeaves(c) \/ UserTurn(c) \/ Interrupt(c)
              PROVE  UNCHANGED <<blocked, dpc>>
            BY <3>1 DEF ClientLeaves, UserTurn, Interrupt
        <3>2. ASSUME NEW c \in Conv, NEW n \in 1 .. MaxTurns, Remember(c, n)
              PROVE  UNCHANGED <<blocked, dpc>>
            BY <3>2 DEF Remember
        <3>. QED BY <2>1, <2>2, <2>3, <2>6, <3>1, <3>2 DEF Environment
    <2>7. CASE UNCHANGED vars
        BY <2>2, <2>7 DEF vars
    <2>. QED BY <1>2, <2>1, <2>2, <2>3, <2>4, <2>5, <2>6, <2>7 DEF Next
<1>. QED BY <1>1, <1>2, TypeCorrect, PTL DEF Spec
-----------------------------------------------------------------------------
(* Where a handler can still cancel its reply.                             *)
Present == {"talk", "wait", "store", "mark", "marking"}

(* A reply that runs or waits is the one its handler will cancel.          *)
Alive == {"run", "wait"}

Current ==
    \A c \in Conv :
        /\ pc[Handler(c)] \in Present \ {"talk"} => turns[c] # 0
        /\ pc[Handler(c)] # "run"
        /\ \A n \in 1 .. MaxTurns :
              pc[<<c, n>>] \in Alive => n = cur[c] /\ pc[Handler(c)] \in Present

(* A request that is at one of these steps will still deal with c.         *)
Pending(c, steps) == \E d \in Request : c \in scope[d] /\ dpc[d] \in steps

(* Once c is erased, its tombstone is there or to come; and an agent       *)
(* memory of it is taken by the request, or by the handler when it leaves. *)
Forgetting ==
    \A c \in erased :
        /\ c \in deleted \/ Pending(c, {"erased", "unblock", "note"})
        /\ c \in memory => \/ Pending(c, {"erased", "unblock", "note", "memory"})
                           \/ c \in deleted /\ pc[Handler(c)] \in Present \union {"leave"}

(* Only a handler's continuation starts a reply, when none is running.     *)
LEMMA ResumeIsCurrent ==
    ASSUME TypeOK, Current, NEW c \in Conv, NEW n \in 0 .. MaxTurns, Resume(c, n),
           pc[<<c, n>>] \in {"store", "marking"}, turns' = turns
    PROVE  Current'
<1>. USE Names
<1>1. pc \in [Task -> PcState] /\ cur \in [Conv -> 0 .. MaxTurns] /\ turns[c] \in 0 .. MaxTurns
    BY DEF TypeOK, PcState
<1>2. CASE n = 0 /\ Spawns(c)
    <2>1. /\ pc' = [pc EXCEPT ![Handler(c)] = "talk", ![<<c, turns[c]>>] = "run"]
          /\ cur' = [cur EXCEPT ![c] = turns[c]]
        BY <1>2 DEF Resume
    <2>2. turns[c] # 0
        BY <1>2 DEF Current, Present
    <2>3. \A t \in Task : pc'[t] = IF t = <<c, turns[c]>> THEN "run"
                                   ELSE IF t = Handler(c) THEN "talk" ELSE pc[t]
        BY <1>1, <2>1, <2>2
    <2>4. \A m \in 1 .. MaxTurns : pc[<<c, m>>] \notin Alive
        BY <1>2 DEF Spawns, Current, Alive
    <2>5. \A m \in 1 .. MaxTurns : pc'[<<c, m>>] \in Alive => m = turns[c]
        BY <2>3, <2>4
    <2>6. pc'[Handler(c)] = "talk" /\ cur'[c] = turns[c]
        BY <1>1, <2>1, <2>2, <2>3
    <2>7. \A b \in Conv : b # c => /\ pc'[Handler(b)] = pc[Handler(b)] /\ cur'[b] = cur[b]
                                   /\ \A m \in 1 .. MaxTurns : pc'[<<b, m>>] = pc[<<b, m>>]
        BY <1>1, <2>1, <2>3
    <2>. QED BY <2>5, <2>6, <2>7 DEF Current, Present
<1>3. CASE ~(n = 0 /\ Spawns(c))
    <2>1. pc' = [pc EXCEPT ![<<c, n>>] = IF n = 0 THEN "talk" ELSE "done"] /\ cur' = cur
        BY <1>3 DEF Resume
    <2>2. \A b \in Conv : pc'[Handler(b)] = IF b = c /\ n = 0 THEN "talk" ELSE pc[Handler(b)]
        BY <1>1, <2>1
    <2>3. \A b \in Conv, m \in 1 .. MaxTurns : pc'[<<b, m>>] \in Alive => pc[<<b, m>>] \in Alive
        BY <1>1, <2>1 DEF Alive
    <2>4. n = 0 => pc[Handler(c)] \in Present
        BY DEF Present
    <2>. QED BY <2>1, <2>2, <2>3, <2>4 DEF Current, Present
<1>. QED BY <1>2, <1>3

(* A cancelled reply does not run any more.                                *)
LEMMA CancelIsCurrent ==
    ASSUME TypeOK, Current, NEW c \in Conv, cur[c] # 0, pc[Handler(c)] = "talk",
           NEW step \in {"talk", "leave"}, turns' = turns,
           \A t \in Task : pc'[t] = IF t = <<c, cur[c]>> THEN AfterCancel(<<c, cur[c]>>)
                                    ELSE IF t = Handler(c) THEN step ELSE pc[t],
           \A b \in Conv : b # c => cur'[b] = cur[b]
    PROVE  Current'
<1>. USE Names
<1>1. pc \in [Task -> PcState] /\ cur[c] \in 0 .. MaxTurns
    BY DEF TypeOK, PcState
<1>2. AfterCancel(<<c, cur[c]>>) \notin Alive
    BY DEF AfterCancel, Busy, Alive
<1>3. \A t \in Task : pc'[t] = IF t = <<c, cur[c]>> THEN AfterCancel(<<c, cur[c]>>)
                               ELSE IF t = Handler(c) THEN step ELSE pc[t]
    OBVIOUS
<1>4. \A m \in 1 .. MaxTurns : pc'[<<c, m>>] \notin Alive
    <2>1. ASSUME NEW m \in 1 .. MaxTurns
          PROVE  pc'[<<c, m>>] \notin Alive
        <3>1. <<c, m>> \in Task /\ <<c, m>> # Handler(c)
            OBVIOUS
        <3>2. m # cur[c] => pc[<<c, m>>] \notin Alive /\ <<c, m>> # <<c, cur[c]>>
            BY DEF Current
        <3>. QED BY <1>2, <1>3, <3>1, <3>2
    <2>. QED BY <2>1
<1>5. pc'[Handler(c)] = step
    BY <1>1, <1>3
<1>6. ASSUME NEW b \in Conv, b # c
      PROVE  /\ pc'[Handler(b)] = pc[Handler(b)]
             /\ \A m \in 1 .. MaxTurns : pc'[<<b, m>>] = pc[<<b, m>>]
    <2>1. \A m \in 0 .. MaxTurns : <<b, m>> # <<c, cur[c]>> /\ <<b, m>> # Handler(c)
        BY <1>6
    <2>. QED BY <1>3, <2>1
<1>. QED BY <1>4, <1>5, <1>6 DEF Current, Present

LEMMA CurrentStep ==
    ASSUME TypeOK, Current, [Next]_vars
    PROVE  Current'
<1>. USE Names DEF runtime, store, faults, socket
<1>0. pc \in [Task -> PcState] /\ turns \in [Conv -> 0 .. MaxTurns] /\ cur \in [Conv -> 0 .. MaxTurns]
    BY DEF TypeOK, PcState
<1>1. ASSUME UNCHANGED <<turns, cur, pc>>
      PROVE  Current'
    BY <1>1 DEF Current
(* A step of the handler alone that is not its continuation.               *)
<1>2. ASSUME NEW c \in Conv, NEW step \in {"reg", "talk", "wait", "leave", "unreg", "store", "mark",
                                           "marking", "done"},
             pc' = [pc EXCEPT ![Handler(c)] = step], cur' = cur,
             turns' = turns \/ turns' = [turns EXCEPT ![c] = turns[c] + 1],
             step \in Present \ {"talk"} => turns'[c] # 0,
             pc[Handler(c)] \in Present =>
                 \/ step \in Present
                 \/ \A n \in 1 .. MaxTurns : pc[<<c, n>>] \notin Alive
      PROVE  Current'
    <2>1. pc'[Handler(c)] = step
        BY <1>0, <1>2
    <2>2. \A m \in 1 .. MaxTurns : pc'[<<c, m>>] = pc[<<c, m>>]
        BY <1>0, <1>2
    <2>3. \A b \in Conv : b # c => /\ pc'[Handler(b)] = pc[Handler(b)] /\ turns'[b] = turns[b]
                                   /\ \A m \in 1 .. MaxTurns : pc'[<<b, m>>] = pc[<<b, m>>]
        BY <1>0, <1>2
    <2>. QED BY <1>2, <2>1, <2>2, <2>3 DEF Current
(* A step of a reply alone.                                                *)
<1>3. ASSUME NEW c \in Conv, NEW n \in 1 .. MaxTurns,
             NEW step \in {"wait", "store", "mark", "marking", "done"},
             pc' = [pc EXCEPT ![<<c, n>>] = step], UNCHANGED <<cur, turns>>,
             step = "wait" => pc[<<c, n>>] = "run"
      PROVE  Current'
    <2>1. \A b \in Conv : pc'[Handler(b)] = pc[Handler(b)]
        BY <1>0, <1>3
    <2>2. \A b \in Conv, m \in 1 .. MaxTurns : pc'[<<b, m>>] \in Alive => pc[<<b, m>>] \in Alive
        BY <1>0, <1>3 DEF Alive
    <2>. QED BY <1>3, <2>1, <2>2 DEF Current
<1>4. ASSUME NEW c \in Conv, Socket(c)
      PROVE  Current'
    <2>1. CASE Connect(c)
        BY <1>2, <2>1 DEF Connect, Present
    <2>2. CASE Register(c)
        BY <1>2, <2>2 DEF Register, Present
    <2>3. CASE TearDown(c)
        BY <1>2, <2>3 DEF TearDown, Present
    <2>4. CASE Unregister(c)
        BY <1>2, <2>4 DEF Unregister, Present
    <2>5. CASE Leave(c) /\ cur[c] = 0
        <3>1. \A n \in 1 .. MaxTurns : pc[<<c, n>>] \notin Alive
            BY <2>5 DEF Current
        <3>. QED BY <1>2, <2>5, <3>1 DEF Leave, Present
    <2>6. CASE Leave(c) /\ cur[c] # 0
        <3>. DEFINE a == AfterCancel(<<c, cur[c]>>)
        <3>1. pc' = [pc EXCEPT ![Handler(c)] = "leave", ![<<c, cur[c]>>] = a] /\ cur[c] \in 0 .. MaxTurns
            BY <1>0, <2>6 DEF Leave
        <3>. HIDE DEF a
        <3>2. \A t \in Task : pc'[t] = IF t = <<c, cur[c]>> THEN a
                                       ELSE IF t = Handler(c) THEN "leave" ELSE pc[t]
            BY <1>0, <3>1
        <3>. QED BY <2>6, <3>2, CancelIsCurrent DEF Leave, a
    <2>. QED BY <1>4, <2>1, <2>2, <2>3, <2>4, <2>5, <2>6 DEF Socket
<1>5. ASSUME NEW c \in Conv, NEW n \in 0 .. MaxTurns, Turn(c, n)
      PROVE  Current'
    <2>0. ASSUME NEW step \in {"talk", "wait", "store", "mark", "marking", "done"},
                 pc' = [pc EXCEPT ![<<c, n>>] = step], UNCHANGED <<cur, turns>>,
                 n = 0 => step \in Present /\ pc[Handler(c)] \in Present \ {"talk"},
                 n # 0 => step # "talk", n # 0 /\ step = "wait" => pc[<<c, n>>] = "run"
          PROVE  Current'
        <3>1. CASE n = 0
            <4>1. step \in Present \ {"talk"} => turns'[c] # 0
                BY <2>0, <3>1 DEF Current
            <4>2. pc' = [pc EXCEPT ![Handler(c)] = step]
                BY <2>0, <3>1
            <4>. QED BY <1>2, <2>0, <3>1, <4>1, <4>2 DEF Present
        <3>2. CASE n # 0
            <4>1. n \in 1 .. MaxTurns
                BY <3>2, ConstantsAssumption DEF ConstantsAssumption
            <4>. QED BY <1>3, <2>0, <3>2, <4>1
        <3>. QED BY <3>1, <3>2
    <2>1. CASE Capture(c, n)
        BY <2>0, <2>1 DEF Capture, Present
    <2>2. CASE Written(c, n)
        BY <2>2, ResumeIsCurrent DEF Written
    <2>3. CASE NotWritten(c, n)
        BY <2>0, <2>3, ResumeIsCurrent DEF NotWritten, Present
    <2>4. CASE Mark(c, n)
        BY <2>0, <2>4 DEF Mark, Present
    <2>5. CASE Marked(c, n)
        BY <2>5, ResumeIsCurrent DEF Marked
    <2>6. CASE Complete(c, n)
        <3>1. n # 0
            BY <2>6 DEF Complete, Current
        <3>. QED BY <2>0, <2>6, <3>1 DEF Complete
    <2>. QED BY <1>5, <2>1, <2>2, <2>3, <2>4, <2>5, <2>6 DEF Turn
<1>6. ASSUME NEW d \in Request, Deletion(d) \/ AskOne(d) \/ AskAll(d)
      PROVE  UNCHANGED <<turns, cur, pc>>
    BY <1>6 DEF Deletion, CollectOne, CollectAll, CloseSockets, EraseOne, EraseAll, EraseFails,
       Erased, Unblock, Note, Forget, AskOne, AskAll
<1>7. ASSUME NEW c \in Conv, ClientLeaves(c) \/ UserTurn(c) \/ Interrupt(c)
      PROVE  Current'
    <2>1. CASE ClientLeaves(c)
        BY <1>1, <2>1 DEF ClientLeaves
    <2>2. CASE UserTurn(c)
        <3>1. turns' = [turns EXCEPT ![c] = turns[c] + 1] /\ turns'[c] # 0
            BY <1>0, <2>2, ConstantsAssumption DEF UserTurn, ConstantsAssumption
        <3>. QED BY <1>2, <2>2, <3>1 DEF UserTurn, Present
    <2>3. CASE Interrupt(c)
        <3>. DEFINE a == AfterCancel(<<c, cur[c]>>)
        <3>0. pc' = [pc EXCEPT ![<<c, cur[c]>>] = a] /\ pc[Handler(c)] = "talk"
            BY <2>3 DEF Interrupt
        <3>. HIDE DEF a
        <3>1. \A t \in Task : pc'[t] = IF t = <<c, cur[c]>> THEN a
                                       ELSE IF t = Handler(c) THEN "talk" ELSE pc[t]
            BY <1>0, <3>0
        <3>2. \A b \in Conv : b # c => cur'[b] = cur[b]
            BY <1>0, <2>3 DEF Interrupt
        <3>. QED BY <2>3, <3>1, <3>2, CancelIsCurrent DEF Interrupt, a
    <2>. QED BY <1>7, <2>1, <2>2, <2>3
<1>8. ASSUME NEW c \in Conv, NEW n \in 1 .. MaxTurns, Remember(c, n)
      PROVE  UNCHANGED <<turns, cur, pc>>
    BY <1>8 DEF Remember
<1>9. CASE UNCHANGED vars
    BY <1>1, <1>9 DEF vars
<1>. QED BY <1>1, <1>4, <1>5, <1>6, <1>7, <1>8, <1>9 DEF Next, Environment

(* While a socket has its handler, only the handler's end takes it away.   *)
LEMMA HandlerStays ==
    ASSUME TypeOK, Current, [Next]_vars, NEW c \in Conv, ~TearDown(c),
           pc[Handler(c)] \in Present \union {"leave"}
    PROVE  pc'[Handler(c)] \in Present \union {"leave"}
<1>. USE Names DEF runtime, store, faults, socket
<1>0. pc \in [Task -> PcState] /\ turns \in [Conv -> 0 .. MaxTurns] /\ cur \in [Conv -> 0 .. MaxTurns]
    BY DEF TypeOK, PcState
<1>1. ASSUME UNCHANGED pc
      PROVE  pc'[Handler(c)] \in Present \union {"leave"}
    BY <1>1
<1>2. ASSUME NEW t \in Task, NEW step, pc' = [pc EXCEPT ![t] = step],
             t = Handler(c) => step \in Present \union {"leave"}
      PROVE  pc'[Handler(c)] \in Present \union {"leave"}
    BY <1>0, <1>2
<1>3. ASSUME NEW t \in Task, NEW u \in Task, NEW step, NEW other,
             pc' = [pc EXCEPT ![t] = step, ![u] = other], u # Handler(c),
             t = Handler(c) => step \in Present \union {"leave"}
      PROVE  pc'[Handler(c)] \in Present \union {"leave"}
    <2>1. Handler(c) \in Task
        OBVIOUS
    <2>2. pc'[Handler(c)] = IF t = Handler(c) THEN step ELSE pc[Handler(c)]
        BY <1>0, <1>3, <2>1
    <2>. QED BY <1>3, <2>2
<1>4. ASSUME NEW b \in Conv, Socket(b)
      PROVE  pc'[Handler(c)] \in Present \union {"leave"}
    <2>1. CASE Connect(b)
        BY <1>2, <2>1 DEF Connect, Present
    <2>2. CASE Register(b)
        BY <1>2, <2>2 DEF Register, Present
    <2>3. CASE TearDown(b)
        <3>1. Handler(b) # Handler(c)
            BY <2>3
        <3>. QED BY <1>2, <2>3, <3>1 DEF TearDown
    <2>4. CASE Unregister(b)
        BY <1>2, <2>4 DEF Unregister, Present
    <2>5. CASE Leave(b) /\ cur[b] = 0
        BY <1>2, <2>5 DEF Leave, Present
    <2>6. CASE Leave(b) /\ cur[b] # 0
        <3>1. <<b, cur[b]>> \in Task /\ <<b, cur[b]>> # Handler(c)
            BY <1>0, <2>6
        <3>. QED BY <1>3, <2>6, <3>1 DEF Leave, Present
    <2>. QED BY <1>4, <2>1, <2>2, <2>3, <2>4, <2>5, <2>6 DEF Socket
<1>5. ASSUME NEW b \in Conv, NEW n \in 0 .. MaxTurns, Turn(b, n)
      PROVE  pc'[Handler(c)] \in Present \union {"leave"}
    <2>1. ASSUME Resume(b, n), pc[<<b, n>>] \in {"store", "marking"}
          PROVE  pc'[Handler(c)] \in Present \union {"leave"}
        <3>1. CASE n = 0 /\ Spawns(b)
            <4>1. turns[b] # 0 /\ <<b, turns[b]>> \in Task
                BY <1>0, <2>1, <3>1 DEF Current, Present
            <4>2. <<b, turns[b]>> # Handler(c)
                BY <4>1
            <4>3. pc' = [pc EXCEPT ![Handler(b)] = "talk", ![<<b, turns[b]>>] = "run"]
                BY <2>1, <3>1 DEF Resume
            <4>. QED BY <1>3, <4>1, <4>2, <4>3 DEF Present
        <3>2. CASE ~(n = 0 /\ Spawns(b))
            <4>1. pc' = [pc EXCEPT ![<<b, n>>] = IF n = 0 THEN "talk" ELSE "done"]
                BY <2>1, <3>2 DEF Resume
            <4>2. n # 0 => <<b, n>> # Handler(c)
                OBVIOUS
            <4>. QED BY <1>2, <4>1, <4>2 DEF Present
        <3>. QED BY <3>1, <3>2
    <2>0. n # 0 => <<b, n>> # Handler(c)
        OBVIOUS
    <2>2. CASE Capture(b, n)
        BY <1>2, <2>0, <2>2 DEF Capture, Present
    <2>3. CASE Written(b, n)
        BY <2>1, <2>3 DEF Written
    <2>4. CASE NotWritten(b, n)
        BY <1>2, <2>1, <2>4 DEF NotWritten, Present
    <2>5. CASE Mark(b, n)
        BY <1>2, <2>5 DEF Mark, Present
    <2>6. CASE Marked(b, n)
        BY <2>1, <2>6 DEF Marked
    <2>7. CASE Complete(b, n)
        <3>1. n # 0
            BY <2>7 DEF Complete, Current
        <3>. QED BY <1>2, <2>0, <2>7, <3>1 DEF Complete
    <2>. QED BY <1>5, <2>2, <2>3, <2>4, <2>5, <2>6, <2>7 DEF Turn
<1>6. ASSUME NEW d \in Request, Deletion(d) \/ AskOne(d) \/ AskAll(d)
      PROVE  UNCHANGED pc
    BY <1>6 DEF Deletion, CollectOne, CollectAll, CloseSockets, EraseOne, EraseAll, EraseFails,
       Erased, Unblock, Note, Forget, AskOne, AskAll
<1>7. ASSUME NEW b \in Conv, ClientLeaves(b) \/ UserTurn(b) \/ Interrupt(b)
      PROVE  pc'[Handler(c)] \in Present \union {"leave"}
    <2>1. CASE ClientLeaves(b)
        BY <1>1, <2>1 DEF ClientLeaves
    <2>2. CASE UserTurn(b)
        BY <1>2, <2>2 DEF UserTurn, Present
    <2>3. CASE Interrupt(b)
        <3>1. <<b, cur[b]>> \in Task /\ <<b, cur[b]>> # Handler(c)
            BY <1>0, <2>3 DEF Interrupt
        <3>. QED BY <1>2, <2>3, <3>1 DEF Interrupt
    <2>. QED BY <1>7, <2>1, <2>2, <2>3
<1>8. ASSUME NEW b \in Conv, NEW n \in 1 .. MaxTurns, Remember(b, n)
      PROVE  UNCHANGED pc
    BY <1>8 DEF Remember
<1>9. CASE UNCHANGED vars
    BY <1>1, <1>9 DEF vars
<1>. QED BY <1>1, <1>4, <1>5, <1>6, <1>7, <1>8, <1>9 DEF Next, Environment

(* A request goes on to the next of its steps only.                        *)
LEMMA StillPending ==
    ASSUME TypeOK, [Next]_vars, NEW c \in Conv, NEW steps, NEW e \in Request,
           c \in scope[e], dpc[e] \in steps,
           \/ steps = {"erased", "unblock", "note"} /\ ~Note(e)
           \/ steps = {"erased", "unblock", "note", "memory"} /\ ~Forget(e)
    PROVE  c \in scope'[e] /\ dpc'[e] \in steps
<1>. USE DEF runtime, store, faults, socket
<1>0. dpc \in [Request -> DpcState] /\ scope \in [Request -> SUBSET Conv]
    BY DEF TypeOK, DpcState
<1>2. ASSUME UNCHANGED <<dpc, scope>>
      PROVE  c \in scope'[e] /\ dpc'[e] \in steps
    BY <1>2
<1>3. ASSUME NEW d \in Request, Deletion(d) \/ AskOne(d) \/ AskAll(d)
      PROVE  c \in scope'[e] /\ dpc'[e] \in steps
    <2>1. CASE AskOne(d) \/ AskAll(d) \/ CollectOne(d) \/ CollectAll(d)
        BY <1>0, <2>1 DEF AskOne, AskAll, CollectOne, CollectAll
    <2>2. CASE CloseSockets(d) \/ EraseOne(d) \/ EraseAll(d) \/ EraseFails(d)
        BY <1>0, <2>2 DEF CloseSockets, EraseOne, EraseAll, EraseFails
    <2>3. CASE Erased(d) \/ Unblock(d)
        BY <1>0, <2>3 DEF Erased, Unblock
    <2>4. CASE Note(d)
        <3>1. d = e => steps = {"erased", "unblock", "note", "memory"}
            BY <2>4
        <3>. QED BY <1>0, <2>4, <3>1 DEF Note
    <2>5. CASE Forget(d)
        <3>1. d = e => steps = {"erased", "unblock", "note"}
            BY <2>5
        <3>. QED BY <1>0, <2>5, <3>1 DEF Forget
    <2>. QED BY <1>3, <2>1, <2>2, <2>3, <2>4, <2>5 DEF Deletion
<1>4. ASSUME NEW b \in Conv, Socket(b)
      PROVE  UNCHANGED <<dpc, scope>>
    BY <1>4 DEF Socket, Connect, Register, Leave, TearDown, Unregister
<1>5. ASSUME NEW b \in Conv, NEW n \in 0 .. MaxTurns, Turn(b, n)
      PROVE  UNCHANGED <<dpc, scope>>
    BY <1>5 DEF Turn, Capture, Written, NotWritten, Mark, Marked, Complete
<1>6. ASSUME NEW b \in Conv, ClientLeaves(b) \/ UserTurn(b) \/ Interrupt(b)
      PROVE  UNCHANGED <<dpc, scope>>
    BY <1>6 DEF ClientLeaves, UserTurn, Interrupt
<1>7. ASSUME NEW b \in Conv, NEW n \in 1 .. MaxTurns, Remember(b, n)
      PROVE  UNCHANGED <<dpc, scope>>
    BY <1>7 DEF Remember
<1>8. CASE UNCHANGED vars
    BY <1>2, <1>8 DEF vars
<1>. QED BY <1>2, <1>3, <1>4, <1>5, <1>6, <1>7, <1>8 DEF Next, Environment

(* A request for one conversation names no other.                          *)
OneEach == \A d \in Singles : \A b, c \in scope[d] : b = c

LEMMA OneEachStep ==
    ASSUME TypeOK, OneEach, [Next]_vars
    PROVE  OneEach'
<1>. USE DEF runtime, store, faults, socket
<1>0. scope \in [Request -> SUBSET Conv] /\ Singles \subseteq Request
    BY DEF TypeOK, Request
<1>1. ASSUME NEW d \in Request, Deletion(d) \/ AskOne(d) \/ AskAll(d)
      PROVE  OneEach'
    <2>1. CASE scope' = scope
        BY <2>1 DEF OneEach
    <2>2. CASE AskOne(d)
        BY <1>0, <2>2 DEF AskOne, OneEach
    <2>3. ASSUME d \in Wipes, NEW S, scope' = [scope EXCEPT ![d] = S]
          PROVE  OneEach'
        <3>1. \A e \in Singles : scope'[e] = scope[e]
            BY <1>0, <2>3, ConstantsAssumption DEF ConstantsAssumption
        <3>. QED BY <3>1 DEF OneEach
    <2>. QED BY <1>1, <2>1, <2>2, <2>3 DEF AskAll, Deletion, CollectOne, CollectAll, CloseSockets,
             EraseOne, EraseAll, EraseFails, Erased, Unblock, Note, Forget
<1>2. ASSUME NEW c \in Conv, Socket(c)
      PROVE  UNCHANGED scope
    BY <1>2 DEF Socket, Connect, Register, Leave, TearDown, Unregister
<1>3. ASSUME NEW c \in Conv, NEW n \in 0 .. MaxTurns, Turn(c, n)
      PROVE  UNCHANGED scope
    BY <1>3 DEF Turn, Capture, Written, NotWritten, Mark, Marked, Complete
<1>4. ASSUME NEW c \in Conv, ClientLeaves(c) \/ UserTurn(c) \/ Interrupt(c)
      PROVE  UNCHANGED scope
    BY <1>4 DEF ClientLeaves, UserTurn, Interrupt
<1>5. ASSUME NEW c \in Conv, NEW n \in 1 .. MaxTurns, Remember(c, n)
      PROVE  UNCHANGED scope
    BY <1>5 DEF Remember
<1>6. CASE UNCHANGED scope
    BY <1>6 DEF OneEach
<1>7. CASE UNCHANGED vars
    BY <1>6, <1>7 DEF vars
<1>. QED BY <1>1, <1>2, <1>3, <1>4, <1>5, <1>6, <1>7 DEF Next, Environment

(* What a deletion took is forgotten, by the request or when the handler   *)
(* leaves.                                                                 *)
LEMMA ForgettingStep ==
    ASSUME TypeOK, Current, OneEach, Forgetting, [Next]_vars
    PROVE  Forgetting'
<1>. DEFINE Naming == {"erased", "unblock", "note"}
            Taking == {"erased", "unblock", "note", "memory"}
            Here(c) == pc[Handler(c)] \in Present \union {"leave"}
<1>. USE DEF runtime, store, faults, socket
<1>0. /\ dpc \in [Request -> DpcState] /\ scope \in [Request -> SUBSET Conv] /\ erased \subseteq Conv
      /\ pc \in [Task -> PcState]
    BY DEF TypeOK, DpcState, PcState
(* A step that erases nothing.                                             *)
<1>1. ASSUME erased' \subseteq erased, deleted \subseteq deleted',
             \A c \in Conv : c \in memory' \ memory => Here(c),
             \A c \in deleted : Here(c) /\ ~Here(c)' => c \notin memory',
             \A d \in Request : /\ Note(d) => scope[d] \subseteq deleted'
                                /\ Forget(d) => memory' \intersect scope[d] = {}
      PROVE  Forgetting'
    <2>. SUFFICES ASSUME NEW c \in erased'
                  PROVE  /\ c \in deleted' \/ Pending(c, Naming)'
                         /\ c \in memory' => Pending(c, Taking)' \/ (c \in deleted' /\ Here(c)')
        BY DEF Forgetting
    <2>1. c \in erased /\ c \in Conv
        BY <1>0, <1>1
    <2>2. c \in deleted' \/ Pending(c, Naming)'
        <3>1. CASE c \in deleted
            BY <1>1, <3>1
        <3>2. CASE c \notin deleted
            <4>1. PICK e \in Request : c \in scope[e] /\ dpc[e] \in Naming
                BY <2>1, <3>2 DEF Forgetting, Pending
            <4>2. CASE Note(e)
                BY <1>1, <4>1, <4>2
            <4>3. CASE ~Note(e)
                <5>1. c \in scope'[e] /\ dpc'[e] \in Naming
                    BY <2>1, <4>1, <4>3, StillPending
                <5>. QED BY <5>1 DEF Pending
            <4>. QED BY <4>2, <4>3
        <3>. QED BY <3>1, <3>2
    <2>3. ASSUME c \in memory', ~Pending(c, Taking)'
          PROVE  c \in deleted' /\ Here(c)'
        <3>1. \A e \in Request : ~(c \in scope[e] /\ dpc[e] \in Taking)
            <4>. SUFFICES ASSUME NEW e \in Request, c \in scope[e], dpc[e] \in Taking
                          PROVE  FALSE
                OBVIOUS
            <4>1. CASE Forget(e)
                BY <1>1, <2>3, <4>1
            <4>2. CASE ~Forget(e)
                <5>1. c \in scope'[e] /\ dpc'[e] \in Taking
                    BY <2>1, <4>2, StillPending
                <5>. QED BY <2>3, <5>1 DEF Pending
            <4>. QED BY <4>1, <4>2
        <3>2. ~Pending(c, Taking) /\ ~Pending(c, Naming)
            BY <3>1 DEF Pending
        <3>3. c \in deleted
            BY <2>1, <3>2 DEF Forgetting
        <3>4. Here(c)
            BY <1>1, <2>1, <2>3, <3>2 DEF Forgetting
        <3>. QED BY <1>1, <2>3, <3>3, <3>4
    <2>. QED BY <2>2, <2>3
(* A step that erases conversations of its scope.                          *)
<1>2. ASSUME NEW d \in Request, dpc'[d] = "erased" \/ erased' = erased, scope[d] \subseteq scope'[d],
             erased' \subseteq erased \union scope'[d],
             UNCHANGED <<pc, memory, deleted>>, \A e \in Request : ~Note(e) /\ ~Forget(e)
      PROVE  Forgetting'
    <2>1. CASE erased' = erased
        BY <1>1, <1>2, <2>1
    <2>2. ASSUME NEW c \in erased', dpc'[d] = "erased"
          PROVE  /\ c \in deleted' \/ Pending(c, Naming)'
                 /\ c \in memory' => Pending(c, Taking)' \/ (c \in deleted' /\ Here(c)')
        <3>1. CASE c \in scope'[d]
            BY <2>2, <3>1 DEF Pending
        <3>2. CASE c \in erased
            <4>1. c \in Conv
                BY <1>0, <3>2
            <4>2. Pending(c, Naming) => Pending(c, Naming)'
                BY <1>2, <4>1, StillPending DEF Pending
            <4>3. Pending(c, Taking) => Pending(c, Taking)'
                BY <1>2, <4>1, StillPending DEF Pending
            <4>4. Here(c)' <=> Here(c)
                BY <1>2
            <4>. QED BY <1>2, <3>2, <4>2, <4>3, <4>4 DEF Forgetting
        <3>. QED BY <1>2, <2>2, <3>1, <3>2
    <2>. QED BY <1>2, <2>1, <2>2 DEF Forgetting
<1>3. \A d \in Request : /\ Note(d) => scope[d] \subseteq deleted'
                         /\ Forget(d) => memory' \intersect scope[d] = {}
    BY DEF Note, Forget
(* A step that leaves the agent memories and the handlers where they are.  *)
<1>4. ASSUME erased' = erased, deleted \subseteq deleted', memory' \subseteq memory, pc' = pc
      PROVE  Forgetting'
    BY <1>1, <1>3, <1>4
<1>5. ASSUME NEW c \in Conv, TearDown(c)
      PROVE  Forgetting'
    <2>1. c \in deleted => c \notin memory'
        BY <1>5 DEF TearDown
    <2>2. \A b \in Conv : b # c => pc'[Handler(b)] = pc[Handler(b)]
        BY <1>0, <1>5, Names DEF TearDown
    <2>3. erased' = erased /\ deleted' = deleted /\ memory' \subseteq memory
        BY <1>5 DEF TearDown
    <2>4. deleted \subseteq Conv
        BY DEF TypeOK
    <2>. QED BY <1>1, <1>3, <2>1, <2>2, <2>3, <2>4
<1>6. ASSUME erased' = erased, deleted' = deleted, memory' = memory, \A c \in Conv : ~TearDown(c)
      PROVE  Forgetting'
    <2>1. \A c \in Conv : Here(c) => Here(c)'
        BY <1>6, HandlerStays
    <2>2. deleted \subseteq Conv
        BY DEF TypeOK
    <2>. QED BY <1>1, <1>3, <1>6, <2>1, <2>2
<1>7. ASSUME NEW c \in Conv, Socket(c)
      PROVE  Forgetting'
    <2>1. CASE \E b \in Conv : TearDown(b)
        BY <1>5, <2>1
    <2>2. CASE \A b \in Conv : ~TearDown(b)
        BY <1>6, <1>7, <2>2 DEF Socket, Connect, Register, Leave, Unregister
    <2>. QED BY <2>1, <2>2
<1>8. ASSUME NEW c \in Conv, NEW n \in 0 .. MaxTurns, Turn(c, n)
      PROVE  Forgetting'
    <2>1. erased' = erased /\ deleted' = deleted /\ memory' = memory
        BY <1>8 DEF Turn, Capture, Written, NotWritten, Mark, Marked, Complete
    <2>. QED BY <1>5, <1>6, <2>1
<1>9. ASSUME NEW c \in Conv, ClientLeaves(c) \/ UserTurn(c) \/ Interrupt(c)
      PROVE  Forgetting'
    <2>1. erased' = erased /\ deleted' = deleted /\ memory' = memory
        BY <1>9 DEF ClientLeaves, UserTurn, Interrupt
    <2>. QED BY <1>5, <1>6, <2>1
<1>10. ASSUME NEW c \in Conv, NEW n \in 1 .. MaxTurns, Remember(c, n)
       PROVE  Forgetting'
    <2>1. Here(c)
        BY <1>10 DEF Remember, Current, Alive
    <2>2. memory' = memory \union {c} /\ pc' = pc /\ erased' = erased /\ deleted' = deleted
        BY <1>10 DEF Remember
    <2>. QED BY <1>1, <1>3, <2>1, <2>2
<1>11. ASSUME NEW d \in Request, AskOne(d) \/ AskAll(d)
       PROVE  Forgetting'
    BY <1>4, <1>11 DEF AskOne, AskAll
<1>12. ASSUME NEW d \in Request, Deletion(d)
       PROVE  Forgetting'
    <2>1. CASE EraseOne(d)
        <3>1. \A e \in Request : ~Note(e) /\ ~Forget(e)
            BY <1>0, <2>1 DEF EraseOne, Note, Forget
        <3>2. CASE scope[d] \subseteq stored
            BY <1>0, <1>2, <2>1, <3>1, <3>2 DEF EraseOne
        <3>3. CASE ~(scope[d] \subseteq stored)
            <4>1. scope[d] \intersect stored = {}
                BY <2>1, <3>3 DEF EraseOne, OneEach
            <4>. QED BY <1>0, <1>2, <2>1, <3>1, <4>1 DEF EraseOne
        <3>. QED BY <3>2, <3>3
    <2>2. CASE EraseAll(d)
        <3>1. \A e \in Request : ~Note(e) /\ ~Forget(e)
            BY <1>0, <2>2 DEF EraseAll, Note, Forget
        <3>2. scope'[d] = scope[d] \union stored /\ dpc'[d] = "erased"
            BY <1>0, <2>2 DEF EraseAll
        <3>. QED BY <1>2, <2>2, <3>1, <3>2 DEF EraseAll
    <2>3. CASE ~EraseOne(d) /\ ~EraseAll(d)
        BY <1>4, <1>12, <2>3 DEF Deletion, CollectOne, CollectAll, CloseSockets, EraseFails, Erased,
           Unblock, Note, Forget
    <2>. QED BY <2>1, <2>2, <2>3
<1>13. CASE UNCHANGED vars
    BY <1>4, <1>13 DEF vars
<1>. QED BY <1>7, <1>8, <1>9, <1>10, <1>11, <1>12, <1>13 DEF Next, Environment

(* A conversation that was deleted leaves no agent memory once its socket  *)
(* has gone and the requests about it are answered: the request takes it,  *)
(* or the tombstone makes the leaving handler take it, in whatever order   *)
(* the two and the last reply come (DeletedIsForgotten).                   *)
THEOREM NothingRemembered == Spec => []DeletedIsForgotten
<1>1. Init => Current /\ OneEach /\ Forgetting
    <2>1. Init => Current
        BY Names DEF Init, Current, Present, Alive
    <2>. QED BY <2>1 DEF Init, OneEach, Forgetting, Request
<1>2. TypeOK /\ Current /\ OneEach /\ Forgetting /\ [Next]_vars => (Current /\ OneEach /\ Forgetting)'
    BY CurrentStep, OneEachStep, ForgettingStep
<1>3. Forgetting => DeletedIsForgotten
    <2>. SUFFICES ASSUME Forgetting, NEW c \in erased \intersect deleted,
                         pc[Handler(c)] = "done", Settled(c)
                  PROVE  c \notin memory
        BY DEF DeletedIsForgotten
    <2>1. ~Pending(c, {"erased", "unblock", "note", "memory"})
        BY DEF Pending, Settled
    <2>. QED BY <2>1 DEF Forgetting, Present
<1>. QED BY <1>1, <1>2, <1>3, TypeCorrect, PTL DEF Spec
-----------------------------------------------------------------------------
(* What is in a queue, once each, and what is ahead of what.               *)
Line(s) == {s[i] : i \in 1 .. Len(s)}
Distinct(s) == \A i, j \in 1 .. Len(s) : s[i] = s[j] => i = j
Ahead(s, x, y) == \E i, j \in 1 .. Len(s) : i < j /\ s[i] = x /\ s[j] = y

LEMMA JoinsLine ==
    ASSUME NEW S, NEW s \in Seq(S), Distinct(s), NEW e \in S, e \notin Line(s)
    PROVE  /\ Append(s, e) \in Seq(S)
           /\ Distinct(Append(s, e))
           /\ Line(Append(s, e)) = Line(s) \union {e}
           /\ \A x, y : Ahead(Append(s, e), x, y) =>
                 IF y = e THEN x \in Line(s) ELSE Ahead(s, x, y)
<1>. DEFINE t == Append(s, e)
            n == Len(s)
<1>1. /\ t \in Seq(S) /\ n \in Nat /\ Len(t) = n + 1
      /\ \A i \in 1 .. n : t[i] = s[i]
      /\ t[n + 1] = e
    OBVIOUS
<1>2. \A i \in 1 .. n : s[i] # e
    BY DEF Line
<1>. HIDE DEF t
<1>3. Distinct(t)
    BY <1>1, <1>2 DEF Distinct
<1>4. Line(t) = Line(s) \union {e}
    BY <1>1 DEF Line
<1>5. ASSUME NEW x, NEW y, NEW i \in 1 .. Len(t), NEW j \in 1 .. Len(t), i < j, t[i] = x, t[j] = y
      PROVE  IF y = e THEN x \in Line(s) ELSE Ahead(s, x, y)
    <2>1. i \in 1 .. n
        BY <1>1, <1>5
    <2>2. x = s[i] /\ x \in Line(s)
        BY <1>1, <1>5, <2>1 DEF Line
    <2>3. CASE y = e
        BY <2>2, <2>3
    <2>4. CASE y # e
        <3>1. j \in 1 .. n /\ y = s[j]
            BY <1>1, <1>5, <2>4
        <3>. QED BY <1>5, <2>1, <2>2, <2>4, <3>1 DEF Ahead
    <2>. QED BY <2>3, <2>4
<1>6. \A x, y : Ahead(t, x, y) => IF y = e THEN x \in Line(s) ELSE Ahead(s, x, y)
    BY <1>5 DEF Ahead
<1>. QED BY <1>1, <1>3, <1>4, <1>6 DEF t

(* The entry at k leaves.                                                  *)
LEMMA LeavesLine ==
    ASSUME NEW S, NEW s \in Seq(S), Distinct(s), NEW k \in 1 .. Len(s), NEW t \in Seq(S),
           Len(t) = Len(s) - 1,
           \A i \in 1 .. Len(t) : t[i] = IF i < k THEN s[i] ELSE s[i + 1]
    PROVE  /\ Distinct(t)
           /\ Line(t) = Line(s) \ {s[k]}
           /\ \A x, y : Ahead(t, x, y) => Ahead(s, x, y)
<1>. DEFINE at(i) == IF i < k THEN i ELSE i + 1
<1>1. Len(s) \in Nat /\ k \in Nat /\ Len(t) \in Nat
    OBVIOUS
<1>2. ASSUME NEW i \in 1 .. Len(t)
      PROVE  at(i) \in 1 .. Len(s) /\ at(i) # k /\ t[i] = s[at(i)]
    BY <1>1
<1>3. ASSUME NEW i \in 1 .. Len(t), NEW j \in 1 .. Len(t)
      PROVE  (i < j => at(i) < at(j)) /\ (at(i) = at(j) => i = j)
    BY <1>1
<1>4. ASSUME NEW i \in 1 .. Len(s), i # k
      PROVE  \E j \in 1 .. Len(t) : at(j) = i
    <2>1. CASE i < k
        <3>1. i \in 1 .. Len(t) /\ at(i) = i
            BY <1>1, <2>1
        <3>. QED BY <3>1
    <2>2. CASE i > k
        <3>1. i - 1 \in 1 .. Len(t) /\ at(i - 1) = i
            BY <1>1, <2>2
        <3>. QED BY <3>1
    <2>. QED BY <1>1, <1>4, <2>1, <2>2
<1>. HIDE DEF at
<1>5. Distinct(t)
    BY <1>2, <1>3 DEF Distinct
<1>6. ASSUME NEW x \in Line(t)
      PROVE  x \in Line(s) \ {s[k]}
    <2>1. PICK i \in 1 .. Len(t) : x = t[i]
        BY DEF Line
    <2>. QED BY <1>2, <2>1 DEF Line, Distinct
<1>7. ASSUME NEW x \in Line(s), x # s[k]
      PROVE  x \in Line(t)
    <2>1. PICK i \in 1 .. Len(s) : x = s[i] /\ i # k
        BY <1>7 DEF Line
    <2>2. PICK j \in 1 .. Len(t) : at(j) = i
        BY <1>4, <2>1
    <2>. QED BY <1>2, <2>1, <2>2 DEF Line
<1>8. ASSUME NEW i \in 1 .. Len(t), NEW j \in 1 .. Len(t), i < j
      PROVE  Ahead(s, t[i], t[j])
    BY <1>2, <1>3, <1>8 DEF Ahead
<1>9. \A x, y : Ahead(t, x, y) => Ahead(s, x, y)
    BY <1>8 DEF Ahead
<1>. QED BY <1>5, <1>6, <1>7, <1>9

LEMMA HeadLeaves ==
    ASSUME NEW S, NEW s \in Seq(S), s # <<>>, Distinct(s)
    PROVE  /\ Tail(s) \in Seq(S)
           /\ Distinct(Tail(s))
           /\ Line(Tail(s)) = Line(s) \ {Head(s)}
           /\ \A x, y : Ahead(Tail(s), x, y) => Ahead(s, x, y)
<1>. DEFINE t == Tail(s)
<1>1. t \in Seq(S) /\ Len(t) = Len(s) - 1 /\ 1 \in 1 .. Len(s) /\ Head(s) = s[1]
    OBVIOUS
<1>2. \A i \in 1 .. Len(t) : t[i] = s[i + 1] /\ ~(i < 1)
    OBVIOUS
<1>. HIDE DEF t
<1>3. \A i \in 1 .. Len(t) : t[i] = IF i < 1 THEN s[i] ELSE s[i + 1]
    BY <1>2
<1>4. /\ Distinct(t)
      /\ Line(t) = Line(s) \ {s[1]}
      /\ \A x, y : Ahead(t, x, y) => Ahead(s, x, y)
    BY <1>1, <1>3, LeavesLine
<1>. QED BY <1>1, <1>4 DEF t
-----------------------------------------------------------------------------
(* A reply is new until the turn that starts it is over.                   *)
Fresh ==
    \A c \in Conv :
        /\ cur[c] <= turns[c]
        /\ \A n \in 1 .. MaxTurns :
              \/ n > turns[c]
              \/ n = turns[c] /\ pc[Handler(c)] \in Present \ {"talk"}
              => pc[<<c, n>>] = "new"

(* A reply waits for the store only in a conversation that has a row, and  *)
(* a socket is registered while its handler serves it.                     *)
Registered ==
    \A c \in Conv :
        /\ pc[Handler(c)] \in {"new", "reg"} => c \notin lost \union started
        /\ pc[Handler(c)] \in Present \union {"leave", "unreg"} => c \in active
        /\ \A n \in 1 .. MaxTurns :
              /\ pc[<<c, n>>] \in {"wait", "store", "mark", "marking"} => c \in started
              /\ pc[<<c, n>>] \notin {"reg", "unreg"}

(* The lock's queue is of those who hold it or wait for it, once each.     *)
Queued == {"reg", "wait", "store", "mark", "marking", "unreg"}
Asking == {"lock", "unblock", "giveup", "note"}

Needs(x) == \/ x \in Task /\ pc[x] \in Queued
            \/ \E d \in Request : x = Del(d) /\ dpc[d] \in Asking

Queue == Distinct(lock) /\ \A x \in Waiter : x \in Line(lock) <=> Needs(x)

(* What one actor does to who needs the lock.                              *)
LEMMA TaskNeeds ==
    ASSUME dpc' = dpc, NEW t \in Task, \A u \in Task \ {t} : pc'[u] \in Queued <=> pc[u] \in Queued
    PROVE  /\ \A x \in Waiter \ {t} : Needs(x)' <=> Needs(x)
           /\ Needs(t)' <=> pc'[t] \in Queued
           /\ Needs(t) <=> pc[t] \in Queued
BY Names DEF Needs

LEMMA RequestNeeds ==
    ASSUME pc' = pc, NEW d \in Request, \A e \in Request \ {d} : dpc'[e] = dpc[e]
    PROVE  /\ \A x \in Waiter \ {Del(d)} : Needs(x)' <=> Needs(x)
           /\ Needs(Del(d))' <=> dpc'[d] \in Asking
           /\ Needs(Del(d)) <=> dpc[d] \in Asking
<1>1. \A e \in Request : Del(d) = Del(e) => d = e
    BY DEF Del
<1>. QED BY <1>1, Names DEF Needs

(* The four things an actor does to the queue.                             *)
KeepsOrder(x) ==
    \A u, v : Ahead(lock', u, v) => IF v = x THEN u \in Line(lock) \ {x} ELSE Ahead(lock, u, v)

LEMMA QueueMoves ==
    ASSUME lock \in Seq(Waiter), Queue, NEW x \in Waiter,
           \A y \in Waiter \ {x} : Needs(y)' <=> Needs(y),
           \/ UNCHANGED lock /\ (Needs(x)' <=> Needs(x))
           \/ Acquire(x) /\ ~Needs(x) /\ Needs(x)'
           \/ Holds(x) /\ Release /\ ~Needs(x)'
           \/ Holds(x) /\ Requeue(x) /\ Needs(x)'
           \/ GiveUpLock(x) /\ ~Needs(x)'
    PROVE  Queue' /\ (KeepsOrder(x) \/ \A u, v : Ahead(lock', u, v) => Ahead(lock, u, v))
<1>1. CASE UNCHANGED lock /\ (Needs(x)' <=> Needs(x))
    BY <1>1 DEF Queue
<1>2. CASE Acquire(x) /\ ~Needs(x) /\ Needs(x)'
    <2>1. x \notin Line(lock)
        BY <1>2 DEF Queue
    <2>2. /\ Distinct(lock')
          /\ Line(lock') = Line(lock) \union {x}
          /\ \A u, v : Ahead(lock', u, v) => IF v = x THEN u \in Line(lock) ELSE Ahead(lock, u, v)
        BY <1>2, <2>1, JoinsLine DEF Acquire, Queue
    <2>. QED BY <1>2, <2>1, <2>2 DEF Queue, KeepsOrder
<1>3. CASE Holds(x) /\ Release /\ ~Needs(x)'
    <2>1. /\ Distinct(lock')
          /\ Line(lock') = Line(lock) \ {x}
          /\ \A u, v : Ahead(lock', u, v) => Ahead(lock, u, v)
        BY <1>3, HeadLeaves DEF Holds, Release, Queue
    <2>. QED BY <1>3, <2>1 DEF Queue
<1>4. CASE Holds(x) /\ Requeue(x) /\ Needs(x)'
    <2>. DEFINE s == Tail(lock)
    <2>1. /\ s \in Seq(Waiter)
          /\ Distinct(s)
          /\ Line(s) = Line(lock) \ {x}
          /\ \A u, v : Ahead(s, u, v) => Ahead(lock, u, v)
        BY <1>4, HeadLeaves DEF Holds, Queue
    <2>2. lock' = Append(s, x)
        BY <1>4 DEF Requeue
    <2>. HIDE DEF s
    <2>3. /\ Distinct(lock')
          /\ Line(lock') = Line(s) \union {x}
          /\ \A u, v : Ahead(lock', u, v) => IF v = x THEN u \in Line(s) ELSE Ahead(s, u, v)
        BY <2>1, <2>2, JoinsLine
    <2>. QED BY <1>4, <2>1, <2>3 DEF Queue, KeepsOrder
<1>5. CASE GiveUpLock(x) /\ ~Needs(x)'
    <2>1. PICK k \in 1 .. Len(lock) :
              /\ lock[k] = x
              /\ lock' = [j \in 1 .. Len(lock) - 1 |-> IF j < k THEN lock[j] ELSE lock[j + 1]]
        BY <1>5 DEF GiveUpLock
    <2>2. lock' \in Seq(Waiter)
        BY <1>5, GiveUpKeepsHead
    <2>3. Len(lock') = Len(lock) - 1 /\ Len(lock) \in Nat
        <3>1. DOMAIN lock' = 1 .. Len(lock') /\ Len(lock') \in Nat
            BY <2>2
        <3>2. DOMAIN lock' = 1 .. Len(lock) - 1
            BY <2>1
        <3>. QED BY <3>1, <3>2
    <2>4. \A i \in 1 .. Len(lock') : lock'[i] = IF i < k THEN lock[i] ELSE lock[i + 1]
        BY <2>1, <2>3
    <2>5. /\ Distinct(lock')
          /\ Line(lock') = Line(lock) \ {x}
          /\ \A u, v : Ahead(lock', u, v) => Ahead(lock, u, v)
        <3>1. lock[k] = x
            BY <2>1
        <3>2. Distinct(lock)
            BY DEF Queue
        <3>. QED BY <2>2, <2>3, <2>4, <3>1, <3>2, LeavesLine
    <2>. QED BY <1>5, <2>5 DEF Queue
<1>. QED BY <1>1, <1>2, <1>3, <1>4, <1>5

LEMMA ResumeIsFresh ==
    ASSUME TypeOK, Current, Fresh, NEW c \in Conv, NEW n \in 0 .. MaxTurns, Resume(c, n),
           pc[<<c, n>>] \in {"store", "marking"}, turns' = turns
    PROVE  Fresh'
<1>. USE Names
<1>1. pc \in [Task -> PcState] /\ cur \in [Conv -> 0 .. MaxTurns] /\ turns \in [Conv -> 0 .. MaxTurns]
    BY DEF TypeOK, PcState
<1>2. CASE n = 0 /\ Spawns(c)
    <2>1. /\ pc' = [pc EXCEPT ![Handler(c)] = "talk", ![<<c, turns[c]>>] = "run"]
          /\ cur' = [cur EXCEPT ![c] = turns[c]]
        BY <1>2 DEF Resume
    <2>2. turns[c] # 0
        BY <1>2 DEF Current, Present
    <2>3. \A t \in Task : pc'[t] = IF t = <<c, turns[c]>> THEN "run"
                                   ELSE IF t = Handler(c) THEN "talk" ELSE pc[t]
        BY <1>1, <2>1, <2>2
    <2>4. ASSUME NEW b \in Conv, NEW m \in 1 .. MaxTurns,
                 \/ m > turns[b]
                 \/ m = turns[b] /\ pc'[Handler(b)] \in Present \ {"talk"}
          PROVE  pc'[<<b, m>>] = "new"
        <3>1. CASE b = c
            <4>1. pc'[Handler(c)] = "talk"
                BY <2>2, <2>3
            <4>2. m > turns[c]
                BY <2>4, <3>1, <4>1
            <4>3. pc[<<c, m>>] = "new" /\ <<c, m>> # <<c, turns[c]>> /\ <<c, m>> # Handler(c)
                BY <1>1, <4>2 DEF Fresh
            <4>. QED BY <2>3, <3>1, <4>3
        <3>2. CASE b # c
            <4>1. pc'[Handler(b)] = pc[Handler(b)] /\ pc'[<<b, m>>] = pc[<<b, m>>]
                BY <2>3, <3>2
            <4>. QED BY <2>4, <4>1 DEF Fresh
        <3>. QED BY <3>1, <3>2
    <2>5. \A b \in Conv : cur'[b] <= turns[b]
        BY <1>1, <2>1, ConstantsAssumption DEF Fresh, ConstantsAssumption
    <2>. QED BY <2>4, <2>5 DEF Fresh
<1>3. CASE ~(n = 0 /\ Spawns(c))
    <2>1. pc' = [pc EXCEPT ![<<c, n>>] = IF n = 0 THEN "talk" ELSE "done"] /\ cur' = cur
        BY <1>3 DEF Resume
    <2>2. \A b \in Conv : pc'[Handler(b)] = pc[Handler(b)] \/ pc'[Handler(b)] = "talk"
        BY <1>1, <2>1
    <2>3. \A b \in Conv, m \in 1 .. MaxTurns : pc[<<b, m>>] = "new" => pc'[<<b, m>>] = "new"
        BY <1>1, <2>1
    <2>. QED BY <2>1, <2>2, <2>3 DEF Fresh
<1>. QED BY <1>2, <1>3

LEMMA FreshStep ==
    ASSUME TypeOK, Current, Fresh, [Next]_vars
    PROVE  Fresh'
<1>. USE Names DEF runtime, store, faults, socket
<1>0. pc \in [Task -> PcState] /\ turns \in [Conv -> 0 .. MaxTurns] /\ cur \in [Conv -> 0 .. MaxTurns]
    BY DEF TypeOK, PcState
<1>1. ASSUME UNCHANGED <<turns, cur, pc>>
      PROVE  Fresh'
    BY <1>1 DEF Fresh
(* A step that leaves new replies alone.                                   *)
<1>2. ASSUME UNCHANGED turns, \A b \in Conv : cur'[b] = cur[b] \/ cur'[b] = 0,
             \A b \in Conv : pc'[Handler(b)] \in Present \ {"talk"} => pc[Handler(b)] \in Present \ {"talk"},
             \A b \in Conv, m \in 1 .. MaxTurns : pc[<<b, m>>] = "new" => pc'[<<b, m>>] = "new"
      PROVE  Fresh'
    <2>1. \A b \in Conv : cur'[b] <= turns'[b]
        BY <1>0, <1>2, ConstantsAssumption DEF Fresh, ConstantsAssumption
    <2>. QED BY <1>2, <2>1 DEF Fresh
(* A step of one task.                                                     *)
<1>3. ASSUME NEW t \in Task, NEW step, pc' = [pc EXCEPT ![t] = step], pc[t] # "new" \/ t[2] = 0,
             step \in Present \ {"talk"} /\ t[2] = 0 => pc[t] \in Present \ {"talk"},
             UNCHANGED <<turns, cur>>
      PROVE  Fresh'
    <2>1. PICK c \in Conv, m \in 0 .. MaxTurns : t = <<c, m>>
        BY DEF Task
    <2>2. \A b \in Conv : pc'[Handler(b)] \in Present \ {"talk"} => pc[Handler(b)] \in Present \ {"talk"}
        BY <1>0, <1>3
    <2>3. \A b \in Conv, k \in 1 .. MaxTurns : pc[<<b, k>>] = "new" => pc'[<<b, k>>] = "new"
        BY <1>0, <1>3
    <2>. QED BY <1>2, <1>3, <2>2, <2>3
(* A step that cancels the current reply.                                  *)
<1>4. ASSUME NEW c \in Conv, cur[c] # 0, NEW step \in {"talk", "leave"}, NEW end,
             \A t \in Task : pc'[t] = IF t = <<c, cur[c]>> THEN end
                                      ELSE IF t = Handler(c) THEN step ELSE pc[t],
             UNCHANGED turns, \A b \in Conv : cur'[b] = cur[b] \/ cur'[b] = 0
      PROVE  Fresh'
    <2>1. ASSUME NEW b \in Conv, NEW m \in 1 .. MaxTurns,
                 \/ m > turns[b]
                 \/ m = turns[b] /\ pc'[Handler(b)] \in Present \ {"talk"}
          PROVE  pc'[<<b, m>>] = "new"
        <3>1. CASE b = c
            <4>1. pc'[Handler(c)] = step
                BY <1>0, <1>4
            <4>2. m > turns[c]
                BY <2>1, <3>1, <4>1 DEF Present
            <4>3. m # cur[c] /\ pc[<<c, m>>] = "new"
                BY <1>0, <4>2, ConstantsAssumption DEF Fresh, ConstantsAssumption
            <4>4. <<c, m>> # <<c, cur[c]>> /\ <<c, m>> # Handler(c)
                BY <4>3
            <4>. QED BY <1>4, <3>1, <4>3, <4>4
        <3>2. CASE b # c
            <4>1. \A k \in 0 .. MaxTurns : <<b, k>> # <<c, cur[c]>> /\ <<b, k>> # Handler(c)
                BY <3>2
            <4>2. pc'[Handler(b)] = pc[Handler(b)] /\ pc'[<<b, m>>] = pc[<<b, m>>]
                BY <1>4, <4>1
            <4>. QED BY <2>1, <4>2 DEF Fresh
        <3>. QED BY <3>1, <3>2
    <2>2. \A b \in Conv : cur'[b] <= turns'[b]
        BY <1>0, <1>4, ConstantsAssumption DEF Fresh, ConstantsAssumption
    <2>. QED BY <1>4, <2>1, <2>2 DEF Fresh
<1>5. ASSUME NEW c \in Conv, Socket(c)
      PROVE  Fresh'
    <2>0. Handler(c)[2] = 0
        OBVIOUS
    <2>1. CASE Connect(c)
        BY <1>3, <2>0, <2>1 DEF Connect, Present
    <2>2. CASE Register(c)
        BY <1>3, <2>0, <2>2 DEF Register, Present
    <2>3. CASE TearDown(c)
        BY <1>3, <2>0, <2>3 DEF TearDown, Present
    <2>4. CASE Unregister(c)
        BY <1>3, <2>0, <2>4 DEF Unregister, Present
    <2>5. CASE Leave(c) /\ cur[c] = 0
        BY <1>3, <2>0, <2>5 DEF Leave, Present
    <2>6. CASE Leave(c) /\ cur[c] # 0
        <3>. DEFINE a == AfterCancel(<<c, cur[c]>>)
        <3>1. pc' = [pc EXCEPT ![Handler(c)] = "leave", ![<<c, cur[c]>>] = a] /\ cur[c] \in 0 .. MaxTurns
            BY <1>0, <2>6 DEF Leave
        <3>. HIDE DEF a
        <3>2. \A t \in Task : pc'[t] = IF t = <<c, cur[c]>> THEN a
                                       ELSE IF t = Handler(c) THEN "leave" ELSE pc[t]
            BY <1>0, <3>1
        <3>. QED BY <1>4, <2>6, <3>2 DEF Leave
    <2>. QED BY <1>5, <2>1, <2>2, <2>3, <2>4, <2>5, <2>6 DEF Socket
<1>6. ASSUME NEW c \in Conv, NEW n \in 0 .. MaxTurns, Turn(c, n)
      PROVE  Fresh'
    <2>0. <<c, n>>[2] = n
        OBVIOUS
    <2>1. CASE Capture(c, n)
        BY <1>3, <2>0, <2>1 DEF Capture, Present
    <2>2. CASE Written(c, n)
        BY <2>2, ResumeIsFresh DEF Written
    <2>3. CASE NotWritten(c, n)
        BY <1>3, <2>0, <2>3, ResumeIsFresh DEF NotWritten, Present
    <2>4. CASE Mark(c, n)
        BY <1>3, <2>0, <2>4 DEF Mark, Present
    <2>5. CASE Marked(c, n)
        BY <2>5, ResumeIsFresh DEF Marked
    <2>6. CASE Complete(c, n)
        <3>1. n # 0
            BY <2>6 DEF Complete, Current
        <3>. QED BY <1>3, <2>0, <2>6, <3>1 DEF Complete
    <2>. QED BY <1>6, <2>1, <2>2, <2>3, <2>4, <2>5, <2>6 DEF Turn
<1>7. ASSUME NEW d \in Request, Deletion(d) \/ AskOne(d) \/ AskAll(d)
      PROVE  UNCHANGED <<turns, cur, pc>>
    BY <1>7 DEF Deletion, CollectOne, CollectAll, CloseSockets, EraseOne, EraseAll, EraseFails,
       Erased, Unblock, Note, Forget, AskOne, AskAll
<1>8. ASSUME NEW c \in Conv, ClientLeaves(c) \/ UserTurn(c) \/ Interrupt(c)
      PROVE  Fresh'
    <2>1. CASE ClientLeaves(c)
        BY <1>1, <2>1 DEF ClientLeaves
    <2>2. CASE UserTurn(c)
        <3>1. /\ pc' = [pc EXCEPT ![Handler(c)] = "wait"] /\ cur' = cur
              /\ turns' = [turns EXCEPT ![c] = turns[c] + 1] /\ turns[c] < MaxTurns
            BY <2>2 DEF UserTurn
        <3>2. ASSUME NEW b \in Conv, NEW m \in 1 .. MaxTurns,
                     \/ m > turns'[b]
                     \/ m = turns'[b] /\ pc'[Handler(b)] \in Present \ {"talk"}
              PROVE  pc'[<<b, m>>] = "new"
            <4>0. pc'[<<b, m>>] = pc[<<b, m>>]
                BY <1>0, <3>1
            <4>1. CASE b = c
                <5>1. m > turns[c]
                    BY <1>0, <3>1, <3>2, <4>1, ConstantsAssumption DEF ConstantsAssumption
                <5>. QED BY <4>0, <4>1, <5>1 DEF Fresh
            <4>2. CASE b # c
                <5>1. pc'[Handler(b)] = pc[Handler(b)] /\ turns'[b] = turns[b]
                    BY <1>0, <3>1, <4>2
                <5>. QED BY <3>2, <4>0, <5>1 DEF Fresh
            <4>. QED BY <4>1, <4>2
        <3>3. \A b \in Conv : cur'[b] <= turns'[b]
            BY <1>0, <3>1, ConstantsAssumption DEF Fresh, ConstantsAssumption
        <3>. QED BY <3>2, <3>3 DEF Fresh
    <2>3. CASE Interrupt(c)
        <3>. DEFINE a == AfterCancel(<<c, cur[c]>>)
        <3>0. pc' = [pc EXCEPT ![<<c, cur[c]>>] = a] /\ pc[Handler(c)] = "talk"
            BY <2>3 DEF Interrupt
        <3>. HIDE DEF a
        <3>1. \A t \in Task : pc'[t] = IF t = <<c, cur[c]>> THEN a
                                       ELSE IF t = Handler(c) THEN "talk" ELSE pc[t]
            BY <1>0, <3>0
        <3>2. \A b \in Conv : cur'[b] = cur[b] \/ cur'[b] = 0
            BY <1>0, <2>3 DEF Interrupt
        <3>. QED BY <1>4, <2>3, <3>1, <3>2 DEF Interrupt
    <2>. QED BY <1>8, <2>1, <2>2, <2>3
<1>9. ASSUME NEW c \in Conv, NEW n \in 1 .. MaxTurns, Remember(c, n)
      PROVE  UNCHANGED <<turns, cur, pc>>
    BY <1>9 DEF Remember
<1>10. CASE UNCHANGED vars
    BY <1>1, <1>10 DEF vars
<1>. QED BY <1>1, <1>5, <1>6, <1>7, <1>8, <1>9, <1>10 DEF Next, Environment

LEMMA RegisteredStep ==
    ASSUME TypeOK, Current, Registered, [Next]_vars
    PROVE  Registered'
<1>. DEFINE Served == Present \union {"leave", "unreg"}
            Saving == {"wait", "store", "mark", "marking"}
            Registering == {"reg", "unreg"}
<1>. USE Names DEF runtime, store, faults, socket
<1>0. pc \in [Task -> PcState] /\ turns \in [Conv -> 0 .. MaxTurns] /\ cur \in [Conv -> 0 .. MaxTurns]
    BY DEF TypeOK, PcState
<1>1. ASSUME \A b \in Conv : /\ pc'[Handler(b)] \in {"new", "reg"} =>
                                   pc[Handler(b)] \in {"new", "reg"} /\ b \notin (lost' \union started') \ (lost \union started)
                             /\ pc'[Handler(b)] \in Served =>
                                   b \in active' \/ (pc[Handler(b)] \in Served /\ b \notin active \ active')
                             /\ \A m \in 1 .. MaxTurns : pc'[<<b, m>>] \in Saving =>
                                   pc[<<b, m>>] \in Saving \/ b \in started'
                             /\ \A m \in 1 .. MaxTurns : pc'[<<b, m>>] \in Registering =>
                                   pc[<<b, m>>] \in Registering,
             started \subseteq started'
      PROVE  Registered'
    <2>. SUFFICES ASSUME NEW b \in Conv
                  PROVE  /\ pc'[Handler(b)] \in {"new", "reg"} => b \notin lost' \union started'
                         /\ pc'[Handler(b)] \in Served => b \in active'
                         /\ \A m \in 1 .. MaxTurns : pc'[<<b, m>>] \in Saving => b \in started'
                         /\ \A m \in 1 .. MaxTurns : pc'[<<b, m>>] \notin Registering
        BY DEF Registered
    <2>. HIDE DEF Served, Saving, Registering
    <2>1. pc'[Handler(b)] \in {"new", "reg"} => b \notin lost' \union started'
        BY <1>1 DEF Registered
    <2>2. pc'[Handler(b)] \in Served => b \in active'
        BY <1>1 DEF Registered, Served
    <2>3. \A m \in 1 .. MaxTurns : pc'[<<b, m>>] \in Saving => b \in started'
        BY <1>1 DEF Registered, Saving
    <2>4. \A m \in 1 .. MaxTurns : pc'[<<b, m>>] \notin Registering
        BY <1>1 DEF Registered, Registering
    <2>. QED BY <2>1, <2>2, <2>3, <2>4
(* A step of one task that registers, saves and loses nothing.             *)
<1>2. ASSUME NEW t \in Task, NEW step, pc' = [pc EXCEPT ![t] = step],
             UNCHANGED <<active, started, lost>>,
             t[2] = 0 /\ step \in {"new", "reg"} => pc[t] \in {"new", "reg"},
             t[2] = 0 /\ step \in Served => pc[t] \in Served,
             t[2] # 0 /\ step \in Saving => pc[t] \in Saving \/ t[1] \in started,
             t[2] # 0 => step \notin Registering
      PROVE  Registered'
    <2>. HIDE DEF Served, Saving, Registering
    <2>1. PICK c \in Conv, m \in 0 .. MaxTurns : t = <<c, m>>
        BY DEF Task
    <2>2. t[2] = m /\ t[1] = c
        BY <2>1
    <2>3. CASE m = 0
        BY <1>0, <1>1, <1>2, <2>1, <2>2, <2>3
    <2>4. CASE m # 0
        <3>1. \A b \in Conv : pc'[Handler(b)] = pc[Handler(b)]
            BY <1>0, <1>2, <2>1, <2>4
        <3>2. \A b \in Conv, k \in 1 .. MaxTurns :
                 pc'[<<b, k>>] = pc[<<b, k>>] \/ (b = c /\ k = m /\ pc'[<<b, k>>] = step)
            BY <1>0, <1>2, <2>1
        <3>. QED BY <1>1, <1>2, <2>1, <2>2, <2>4, <3>1, <3>2
    <2>. QED BY <2>3, <2>4
<1>3. ASSUME NEW c \in Conv, Socket(c)
      PROVE  Registered'
    <2>0. Handler(c)[2] = 0 /\ Handler(c)[1] = c
        OBVIOUS
    <2>1. CASE Connect(c)
        BY <1>2, <2>0, <2>1 DEF Connect, Present
    <2>2. CASE Register(c)
        <3>1. PICK step \in {"done", "talk"} : pc' = [pc EXCEPT ![Handler(c)] = step]
            BY <2>2 DEF Register
        <3>2. /\ step = "talk" => active' = active \union {c}
              /\ step = "done" => active' = active
              /\ UNCHANGED <<started, lost>>
            BY <1>0, <2>2, <3>1 DEF Register
        <3>3. \A b \in Conv : pc'[Handler(b)] = IF b = c THEN step ELSE pc[Handler(b)]
            BY <1>0, <3>1
        <3>4. \A b \in Conv, m \in 1 .. MaxTurns : pc'[<<b, m>>] = pc[<<b, m>>]
            <4>1. ASSUME NEW b \in Conv, NEW m \in 1 .. MaxTurns
                  PROVE  pc'[<<b, m>>] = pc[<<b, m>>]
                <5>1. m # 0 /\ <<b, m>> \in Task
                    OBVIOUS
                <5>2. <<b, m>> # Handler(c)
                    BY <5>1
                <5>. QED BY <1>0, <3>1, <5>1, <5>2
            <4>. QED BY <4>1
        <3>. QED BY <1>1, <3>1, <3>2, <3>3, <3>4 DEF Present
    <2>3. CASE TearDown(c)
        BY <1>2, <2>0, <2>3 DEF TearDown, Present
    <2>4. CASE Unregister(c)
        BY <1>0, <1>1, <2>4 DEF Unregister, Present
    <2>5. CASE Leave(c) /\ cur[c] = 0
        BY <1>2, <2>0, <2>5 DEF Leave, Present
    <2>6. CASE Leave(c) /\ cur[c] # 0
        <3>. DEFINE a == AfterCancel(<<c, cur[c]>>)
        <3>1. pc' = [pc EXCEPT ![Handler(c)] = "leave", ![<<c, cur[c]>>] = a] /\ cur[c] \in 0 .. MaxTurns
            BY <1>0, <2>6 DEF Leave
        <3>2. (a \in Saving => a = pc[<<c, cur[c]>>]) /\ a \notin Registering
            BY DEF AfterCancel, Busy
        <3>3. UNCHANGED <<active, started, lost>> /\ pc[Handler(c)] = "talk"
            BY <2>6 DEF Leave
        <3>. HIDE DEF a
        <3>4. \A t \in Task : pc'[t] = IF t = <<c, cur[c]>> THEN a
                                       ELSE IF t = Handler(c) THEN "leave" ELSE pc[t]
            BY <1>0, <3>1
        <3>5. \A b \in Conv : pc'[Handler(b)] = pc[Handler(b)] \/ (b = c /\ pc'[Handler(b)] = "leave")
            <4>1. \A b \in Conv : Handler(b) \in Task /\ Handler(b) # <<c, cur[c]>>
                BY <2>6
            <4>2. \A b \in Conv : Handler(b) = Handler(c) <=> b = c
                OBVIOUS
            <4>. QED BY <3>4, <4>1, <4>2
        <3>6. \A b \in Conv, m \in 1 .. MaxTurns : (pc'[<<b, m>>] \in Saving => pc[<<b, m>>] \in Saving)
                         /\ (pc'[<<b, m>>] \in Registering => pc[<<b, m>>] \in Registering)
            BY <3>2, <3>4
        <3>. HIDE DEF Saving, Registering
        <3>. QED BY <1>1, <3>3, <3>5, <3>6 DEF Present
    <2>. QED BY <1>3, <2>1, <2>2, <2>3, <2>4, <2>5, <2>6 DEF Socket
<1>4. ASSUME NEW c \in Conv, NEW n \in 0 .. MaxTurns, Turn(c, n)
      PROVE  Registered'
    <2>0. <<c, n>>[2] = n /\ <<c, n>>[1] = c /\ (n = 0 => <<c, n>> = Handler(c))
        OBVIOUS
    <2>1. ASSUME Resume(c, n), pc[<<c, n>>] \in {"store", "marking"}, active' = active,
                 started' \subseteq started \union {c}, started \subseteq started',
                 lost' \subseteq lost \union {c}
          PROVE  Registered'
        <3>0. pc[Handler(c)] \notin {"new", "reg"}
            <4>1. CASE n = 0
                BY <2>0, <2>1, <4>1
            <4>2. CASE n # 0
                <5>1. n \in 1 .. MaxTurns
                    BY <4>2, ConstantsAssumption DEF ConstantsAssumption
                <5>. QED BY <2>1, <5>1 DEF Registered
            <4>. QED BY <4>1, <4>2
        <3>1. /\ \A b \in Conv : pc'[Handler(b)] = pc[Handler(b)]
                                 \/ (b = c /\ n = 0 /\ pc'[Handler(b)] = "talk")
              /\ \A b \in Conv, m \in 1 .. MaxTurns : (pc'[<<b, m>>] \in Saving => pc[<<b, m>>] \in Saving)
                         /\ (pc'[<<b, m>>] \in Registering => pc[<<b, m>>] \in Registering)
            <4>1. CASE n = 0 /\ Spawns(c)
                <5>1. turns[c] # 0 /\ <<c, turns[c]>> \in Task
                    BY <1>0, <2>1, <4>1 DEF Current, Present
                <5>2. pc' = [pc EXCEPT ![Handler(c)] = "talk", ![<<c, turns[c]>>] = "run"]
                    BY <2>1, <4>1 DEF Resume
                <5>3. \A t \in Task : pc'[t] = IF t = <<c, turns[c]>> THEN "run"
                                               ELSE IF t = Handler(c) THEN "talk" ELSE pc[t]
                    BY <1>0, <5>1, <5>2
                <5>. QED BY <4>1, <5>1, <5>3
            <4>2. CASE ~(n = 0 /\ Spawns(c))
                <5>1. pc' = [pc EXCEPT ![<<c, n>>] = IF n = 0 THEN "talk" ELSE "done"]
                    BY <2>1, <4>2 DEF Resume
                <5>. QED BY <1>0, <5>1
            <4>. QED BY <4>1, <4>2
        <3>2. n = 0 => pc[Handler(c)] \in Served
            BY <2>0, <2>1 DEF Present
        <3>. HIDE DEF Saving, Served, Registering
        <3>. QED BY <1>1, <2>1, <3>0, <3>1, <3>2
    <2>2. CASE Capture(c, n)
        BY <1>2, <2>0, <2>2 DEF Capture, Present
    <2>3. CASE Written(c, n)
        BY <2>1, <2>3 DEF Written
    <2>4. CASE NotWritten(c, n) /\ c \notin started
        BY <2>1, <2>4 DEF NotWritten
    <2>5. CASE NotWritten(c, n) /\ c \in started
        <3>0. pc[Handler(c)] \notin {"new", "reg"}
            BY <2>5 DEF Registered
        <3>1. /\ pc' = [pc EXCEPT ![<<c, n>>] = "mark"] /\ pc[<<c, n>>] = "store"
              /\ UNCHANGED <<active, started>> /\ lost' = lost \union {c}
            BY <2>5 DEF NotWritten
        <3>2. \A b \in Conv : pc'[Handler(b)] = pc[Handler(b)]
                              \/ (b = c /\ pc[Handler(b)] \in Served /\ pc'[Handler(b)] = "mark")
            BY <1>0, <2>0, <3>1 DEF Present
        <3>3. \A b \in Conv, m \in 1 .. MaxTurns : (pc'[<<b, m>>] \in Saving => pc[<<b, m>>] \in Saving)
                         /\ (pc'[<<b, m>>] \in Registering => pc[<<b, m>>] \in Registering)
            BY <1>0, <3>1
        <3>. HIDE DEF Saving, Served, Registering
        <3>. QED BY <1>1, <3>0, <3>1, <3>2, <3>3
    <2>6. CASE Mark(c, n)
        BY <1>2, <2>0, <2>6 DEF Mark, Present
    <2>7. CASE Marked(c, n)
        BY <2>1, <2>7 DEF Marked
    <2>8. CASE Complete(c, n)
        <3>1. n # 0
            BY <2>8 DEF Complete, Current
        <3>. QED BY <1>2, <2>0, <2>8, <3>1 DEF Complete
    <2>. QED BY <1>4, <2>2, <2>3, <2>4, <2>5, <2>6, <2>7, <2>8 DEF Turn
<1>5. ASSUME UNCHANGED <<pc, active, started, lost>>
      PROVE  Registered'
    BY <1>5 DEF Registered
<1>6. ASSUME NEW d \in Request, Deletion(d) \/ AskOne(d) \/ AskAll(d)
      PROVE  UNCHANGED <<pc, active, started, lost>>
    BY <1>6 DEF Deletion, CollectOne, CollectAll, CloseSockets, EraseOne, EraseAll, EraseFails,
       Erased, Unblock, Note, Forget, AskOne, AskAll
<1>7. ASSUME NEW c \in Conv, ClientLeaves(c) \/ UserTurn(c) \/ Interrupt(c)
      PROVE  Registered'
    <2>1. CASE ClientLeaves(c)
        BY <1>5, <2>1 DEF ClientLeaves
    <2>2. CASE UserTurn(c)
        BY <1>2, <2>2 DEF UserTurn, Present
    <2>3. CASE Interrupt(c)
        <3>. DEFINE a == AfterCancel(<<c, cur[c]>>)
        <3>1. (a \in Saving => a = pc[<<c, cur[c]>>]) /\ a \notin Registering
            BY DEF AfterCancel, Busy
        <3>2. /\ pc' = [pc EXCEPT ![<<c, cur[c]>>] = a] /\ cur[c] \in 0 .. MaxTurns /\ cur[c] # 0
              /\ UNCHANGED <<active, started, lost>>
            BY <1>0, <2>3 DEF Interrupt
        <3>3. <<c, cur[c]>> \in Task /\ <<c, cur[c]>>[2] # 0
            BY <3>2
        <3>. HIDE DEF a, Saving, Served, Registering
        <3>. QED BY <1>2, <3>1, <3>2, <3>3
    <2>. QED BY <1>7, <2>1, <2>2, <2>3
<1>8. ASSUME NEW c \in Conv, NEW n \in 1 .. MaxTurns, Remember(c, n)
      PROVE  UNCHANGED <<pc, active, started, lost>>
    BY <1>8 DEF Remember
<1>9. CASE UNCHANGED vars
    BY <1>5, <1>9 DEF vars
<1>. QED BY <1>3, <1>4, <1>5, <1>6, <1>7, <1>8, <1>9 DEF Next, Environment

(* What waits ahead of a request that is about to note its deletion was    *)
(* there before.                                                           *)
NoteOrder ==
    \A t \in Task, d \in Request :
        dpc[d] = "note" /\ dpc'[d] = "note" /\ Ahead(lock', t, Del(d)) => Ahead(lock, t, Del(d))

(* One task moves.                                                         *)
LEMMA TaskQueues ==
    ASSUME TypeOK, Queue, dpc' = dpc, NEW t \in Task,
           \A u \in Task \ {t} : pc'[u] \in Queued <=> pc[u] \in Queued,
           \/ UNCHANGED lock /\ (pc'[t] \in Queued <=> pc[t] \in Queued)
           \/ Acquire(t) /\ pc[t] \notin Queued /\ pc'[t] \in Queued
           \/ Holds(t) /\ Release /\ pc'[t] \notin Queued
           \/ Holds(t) /\ Requeue(t) /\ pc'[t] \in Queued
           \/ GiveUpLock(t) /\ pc'[t] \notin Queued
    PROVE  Queue' /\ NoteOrder
<1>1. /\ \A x \in Waiter \ {t} : Needs(x)' <=> Needs(x)
      /\ Needs(t)' <=> pc'[t] \in Queued
      /\ Needs(t) <=> pc[t] \in Queued
    BY TaskNeeds
<1>2. lock \in Seq(Waiter) /\ t \in Waiter /\ \A d \in Request : Del(d) # t
    BY Names DEF TypeOK, Waiter
<1>3. Queue' /\ (KeepsOrder(t) \/ \A u, v : Ahead(lock', u, v) => Ahead(lock, u, v))
    BY <1>1, <1>2, QueueMoves
<1>. QED BY <1>2, <1>3 DEF NoteOrder, KeepsOrder

(* One request moves.                                                      *)
LEMMA RequestQueues ==
    ASSUME TypeOK, Queue, pc' = pc, NEW d \in Request, NEW step, dpc' = [dpc EXCEPT ![d] = step],
           dpc[d] # "note" \/ step # "note",
           \/ UNCHANGED lock /\ (step \in Asking <=> dpc[d] \in Asking)
           \/ Acquire(Del(d)) /\ dpc[d] \notin Asking /\ step \in Asking
           \/ Holds(Del(d)) /\ Release /\ step \notin Asking
           \/ Holds(Del(d)) /\ Requeue(Del(d)) /\ step \in Asking
    PROVE  Queue' /\ NoteOrder
<1>0. dpc \in [Request -> DpcState] /\ dpc'[d] = step /\ \A e \in Request \ {d} : dpc'[e] = dpc[e]
    BY DEF TypeOK, DpcState
<1>1. /\ \A x \in Waiter \ {Del(d)} : Needs(x)' <=> Needs(x)
      /\ Needs(Del(d))' <=> dpc'[d] \in Asking
      /\ Needs(Del(d)) <=> dpc[d] \in Asking
    BY <1>0, RequestNeeds
<1>2. lock \in Seq(Waiter) /\ Del(d) \in Waiter /\ \A e \in Request : Del(d) = Del(e) => d = e
    BY Names DEF TypeOK, Waiter, Del
<1>3. Queue' /\ (KeepsOrder(Del(d)) \/ \A u, v : Ahead(lock', u, v) => Ahead(lock, u, v))
    BY <1>0, <1>1, <1>2, QueueMoves
<1>. QED BY <1>0, <1>2, <1>3 DEF NoteOrder, KeepsOrder

LEMMA QueueStep ==
    ASSUME TypeOK, Exclusive, Current, Fresh, Registered, Queue, [Next]_vars
    PROVE  Queue' /\ NoteOrder
<1>. USE Names DEF runtime, store, faults, socket
<1>0. pc \in [Task -> PcState] /\ turns \in [Conv -> 0 .. MaxTurns] /\ cur \in [Conv -> 0 .. MaxTurns]
      /\ dpc \in [Request -> DpcState]
    BY DEF TypeOK, PcState, DpcState
<1>1. ASSUME UNCHANGED <<pc, dpc, lock>>
      PROVE  Queue' /\ NoteOrder
    BY <1>1 DEF Queue, Needs, NoteOrder
<1>2. ASSUME NEW t \in Task, NEW step, pc' = [pc EXCEPT ![t] = step], dpc' = dpc,
             \/ UNCHANGED lock /\ (step \in Queued <=> pc[t] \in Queued)
             \/ Acquire(t) /\ pc[t] \notin Queued /\ step \in Queued
             \/ Holds(t) /\ Release /\ step \notin Queued
             \/ Holds(t) /\ Requeue(t) /\ step \in Queued
             \/ GiveUpLock(t) /\ step \notin Queued
      PROVE  Queue' /\ NoteOrder
    <2>1. pc'[t] = step /\ \A u \in Task \ {t} : pc'[u] = pc[u]
        BY <1>0, <1>2
    <2>. QED BY <1>2, <2>1, TaskQueues
(* A cancelled reply leaves the queue if it waits in it.                   *)
<1>3. ASSUME NEW c \in Conv, NEW r, r = <<c, cur[c]>>, cur[c] # 0, CancelReply(c, r),
             pc'[r] = AfterCancel(r), dpc' = dpc,
             \A u \in Task \ {r} : pc'[u] \in Queued <=> pc[u] \in Queued
      PROVE  Queue' /\ NoteOrder
    <2>1. r \in Task /\ cur[c] \in 1 .. MaxTurns
        BY <1>0, <1>3, ConstantsAssumption DEF ConstantsAssumption
    <2>2. pc[r] \notin {"reg", "unreg"}
        BY <1>3, <2>1 DEF Registered
    <2>3. CASE Waiting(r)
        <3>1. GiveUpLock(r) /\ pc'[r] = "done"
            BY <1>3, <2>3 DEF CancelReply, Waiting, AfterCancel, Busy
        <3>. QED BY <1>3, <2>1, <3>1, TaskQueues DEF Queued
    <2>4. CASE ~Waiting(r)
        <3>1. UNCHANGED lock /\ (pc'[r] \in Queued <=> pc[r] \in Queued)
            BY <1>3, <2>2, <2>4 DEF CancelReply, Waiting, AfterCancel, Busy, Queued
        <3>. QED BY <1>3, <2>1, <3>1, TaskQueues
    <2>. QED BY <2>3, <2>4
<1>4. ASSUME NEW c \in Conv, Socket(c)
      PROVE  Queue' /\ NoteOrder
    <2>1. CASE Connect(c)
        BY <1>2, <2>1 DEF Connect, Queued
    <2>2. CASE Register(c)
        BY <1>2, <2>2 DEF Register, Queued
    <2>3. CASE TearDown(c)
        BY <1>2, <2>3 DEF TearDown, Queued
    <2>4. CASE Unregister(c)
        BY <1>2, <2>4 DEF Unregister, Queued
    <2>5. CASE Leave(c) /\ cur[c] = 0
        BY <1>2, <2>5 DEF Leave, Queued
    <2>6. CASE Leave(c) /\ cur[c] # 0
        <3>. DEFINE r == <<c, cur[c]>>
                    a == AfterCancel(<<c, cur[c]>>)
        <3>1. pc' = [pc EXCEPT ![Handler(c)] = "leave", ![r] = a] /\ cur[c] \in 0 .. MaxTurns
              /\ pc[Handler(c)] = "talk" /\ r \in Task
            BY <1>0, <2>6 DEF Leave
        <3>. HIDE DEF a
        <3>2. \A t \in Task : pc'[t] = IF t = r THEN a
                                       ELSE IF t = Handler(c) THEN "leave" ELSE pc[t]
            BY <1>0, <3>1
        <3>3. pc'[r] = a /\ \A u \in Task \ {r} : pc'[u] \in Queued <=> pc[u] \in Queued
            <4>. HIDE DEF r
            <4>1. pc'[r] = a
                BY <3>1, <3>2
            <4>2. ASSUME NEW u \in Task \ {r}
                  PROVE  pc'[u] = pc[u] \/ (pc'[u] = "leave" /\ pc[u] = "talk")
                BY <3>1, <3>2
            <4>. QED BY <4>1, <4>2 DEF Queued
        <3>. QED BY <1>3, <2>6, <3>3 DEF Leave, a
    <2>. QED BY <1>4, <2>1, <2>2, <2>3, <2>4, <2>5, <2>6 DEF Socket
<1>5. ASSUME NEW c \in Conv, NEW n \in 0 .. MaxTurns, Turn(c, n)
      PROVE  Queue' /\ NoteOrder
    <2>1. ASSUME Resume(c, n), pc[<<c, n>>] \in {"store", "marking"}, Release, dpc' = dpc
          PROVE  Queue' /\ NoteOrder
        <3>1. Holds(<<c, n>>)
            BY <2>1 DEF Exclusive
        <3>2. pc'[<<c, n>>] \notin Queued /\ \A u \in Task \ {<<c, n>>} : pc'[u] \in Queued <=> pc[u] \in Queued
            <4>1. CASE n = 0 /\ Spawns(c)
                <5>1. turns[c] \in 1 .. MaxTurns /\ <<c, turns[c]>> \in Task
                    BY <1>0, <2>1, <4>1, ConstantsAssumption DEF Current, Present, ConstantsAssumption
                <5>2. pc[<<c, turns[c]>>] = "new"
                    BY <2>1, <4>1, <5>1 DEF Fresh, Present
                <5>3. pc' = [pc EXCEPT ![Handler(c)] = "talk", ![<<c, turns[c]>>] = "run"]
                    BY <2>1, <4>1 DEF Resume
                <5>4. \A t \in Task : pc'[t] = IF t = <<c, turns[c]>> THEN "run"
                                               ELSE IF t = Handler(c) THEN "talk" ELSE pc[t]
                    BY <1>0, <5>1, <5>3
                <5>. QED BY <4>1, <5>1, <5>2, <5>4 DEF Queued
            <4>2. CASE ~(n = 0 /\ Spawns(c))
                <5>1. pc' = [pc EXCEPT ![<<c, n>>] = IF n = 0 THEN "talk" ELSE "done"]
                    BY <2>1, <4>2 DEF Resume
                <5>. QED BY <1>0, <5>1 DEF Queued
            <4>. QED BY <4>1, <4>2
        <3>. QED BY <2>1, <3>1, <3>2, TaskQueues
    <2>2. CASE Capture(c, n)
        BY <1>2, <2>2 DEF Capture, Queued
    <2>3. CASE Written(c, n)
        BY <2>1, <2>3 DEF Written
    <2>4. CASE NotWritten(c, n) /\ c \notin started
        BY <2>1, <2>4 DEF NotWritten
    <2>5. CASE NotWritten(c, n) /\ c \in started
        <3>1. Holds(<<c, n>>)
            BY <2>5 DEF Exclusive, NotWritten
        <3>. QED BY <1>2, <2>5, <3>1 DEF NotWritten, Queued
    <2>6. CASE Mark(c, n)
        BY <1>2, <2>6 DEF Mark, Queued
    <2>7. CASE Marked(c, n)
        BY <2>1, <2>7 DEF Marked
    <2>8. CASE Complete(c, n)
        BY <1>2, <2>8 DEF Complete, Queued
    <2>. QED BY <1>5, <2>2, <2>3, <2>4, <2>5, <2>6, <2>7, <2>8 DEF Turn
<1>6. ASSUME NEW d \in Request, Deletion(d) \/ AskOne(d) \/ AskAll(d)
      PROVE  Queue' /\ NoteOrder
    <2>1. CASE AskOne(d) \/ AskAll(d)
        BY <2>1, RequestQueues DEF AskOne, AskAll, Asking
    <2>2. CASE CollectOne(d) \/ CollectAll(d)
        BY <2>2, RequestQueues DEF CollectOne, CollectAll, Asking
    <2>3. CASE CloseSockets(d) \/ EraseOne(d) \/ EraseAll(d)
        BY <2>3, RequestQueues DEF CloseSockets, EraseOne, EraseAll, Asking
    <2>4. CASE EraseFails(d) \/ Erased(d)
        BY <2>4, RequestQueues DEF EraseFails, Erased, Asking
    <2>5. CASE Unblock(d)
        BY <2>5, RequestQueues DEF Unblock, Asking
    <2>6. CASE Note(d) \/ Forget(d)
        BY <2>6, RequestQueues DEF Note, Forget, Asking
    <2>. QED BY <1>6, <2>1, <2>2, <2>3, <2>4, <2>5, <2>6 DEF Deletion
<1>7. ASSUME NEW c \in Conv, ClientLeaves(c) \/ UserTurn(c) \/ Interrupt(c)
      PROVE  Queue' /\ NoteOrder
    <2>1. CASE ClientLeaves(c)
        BY <1>1, <2>1 DEF ClientLeaves
    <2>2. CASE UserTurn(c)
        BY <1>2, <2>2 DEF UserTurn, Queued
    <2>3. CASE Interrupt(c)
        <3>. DEFINE r == <<c, cur[c]>>
                    a == AfterCancel(<<c, cur[c]>>)
        <3>1. pc' = [pc EXCEPT ![r] = a] /\ r \in Task
            BY <1>0, <2>3 DEF Interrupt
        <3>. HIDE DEF a
        <3>2. pc'[r] = a /\ \A u \in Task \ {r} : pc'[u] = pc[u]
            <4>. HIDE DEF r
            <4>. QED BY <1>0, <3>1
        <3>. QED BY <1>3, <2>3, <3>2 DEF Interrupt, a
    <2>. QED BY <1>7, <2>1, <2>2, <2>3
<1>8. ASSUME NEW c \in Conv, NEW n \in 1 .. MaxTurns, Remember(c, n)
      PROVE  UNCHANGED <<pc, dpc, lock>>
    BY <1>8 DEF Remember
<1>9. CASE UNCHANGED vars
    BY <1>1, <1>9 DEF vars
<1>. QED BY <1>1, <1>4, <1>5, <1>6, <1>7, <1>8, <1>9 DEF Next, Environment

(* Who registers, leaves or marks does not come back to write, who writes  *)
(* has passed the gate, and a handler that is done stays done.             *)
Leaving == {"reg", "unreg", "mark", "marking"}

LEMMA TaskSteps ==
    ASSUME TypeOK, [Next]_vars
    PROVE  /\ \A t \in Task : pc[t] \in Leaving => pc'[t] \notin {"wait", "store"}
           /\ \A t \in Task : pc'[t] = "store" =>
                 \/ pc[t] = "store"
                 \/ pc[t] = "wait" /\ Holds(t) /\ t[1] \notin deleted /\ ~blocked
           /\ \A c \in Conv : pc[Handler(c)] = "done" => pc'[Handler(c)] = "done"
<1>. USE Names DEF runtime, store, faults, socket
<1>. DEFINE Goal == /\ \A t \in Task : pc[t] \in Leaving => pc'[t] \notin {"wait", "store"}
                    /\ \A t \in Task : pc'[t] = "store" =>
                          \/ pc[t] = "store"
                          \/ pc[t] = "wait" /\ Holds(t) /\ t[1] \notin deleted /\ ~blocked
                    /\ \A c \in Conv : pc[Handler(c)] = "done" => pc'[Handler(c)] = "done"
<1>0. pc \in [Task -> PcState] /\ turns \in [Conv -> 0 .. MaxTurns] /\ cur \in [Conv -> 0 .. MaxTurns]
    BY DEF TypeOK, PcState
<1>1. ASSUME UNCHANGED pc
      PROVE  Goal
    BY <1>1 DEF Leaving
<1>2. ASSUME NEW t \in Task, NEW step, pc' = [pc EXCEPT ![t] = step],
             pc[t] \notin Leaving \/ step \notin {"wait", "store"},
             step # "store" \/ (pc[t] = "wait" /\ Holds(t) /\ t[1] \notin deleted /\ ~blocked),
             pc[t] # "done" \/ t[2] # 0
      PROVE  Goal
    <2>1. \A u \in Task : pc'[u] = IF u = t THEN step ELSE pc[u]
        BY <1>0, <1>2
    <2>2. \A c \in Conv : Handler(c)[2] = 0 /\ Handler(c) \in Task
        OBVIOUS
    <2>3. \A c \in Conv : pc[Handler(c)] = "done" => pc'[Handler(c)] = "done"
        BY <1>2, <2>1, <2>2
    <2>. QED BY <1>2, <2>1, <2>3 DEF Leaving
<1>3. ASSUME NEW c \in Conv, NEW r \in Task, r = <<c, cur[c]>>, cur[c] # 0,
             \A u \in Task : pc'[u] = IF u = r THEN AfterCancel(r)
                                      ELSE IF u = Handler(c) THEN pc'[Handler(c)] ELSE pc[u],
             pc'[Handler(c)] \in {"talk", "leave"}, pc[Handler(c)] = "talk"
      PROVE  Goal
    <2>1. AfterCancel(r) = "done" \/ (AfterCancel(r) = pc[r] /\ pc[r] \notin {"wait"})
        BY DEF AfterCancel, Busy
    <2>2. \A b \in Conv : Handler(b) \in Task /\ Handler(b) # r
        BY <1>3
    <2>3. \A b \in Conv : pc[Handler(b)] = "done" => pc'[Handler(b)] = "done"
        BY <1>3, <2>2
    <2>. HIDE <1>0
    <2>4. ASSUME NEW u \in Task
          PROVE  \/ pc'[u] = pc[u]
                 \/ pc'[u] \in {"done", "talk", "leave"}
        BY <1>3, <2>1
    <2>. QED BY <2>3, <2>4 DEF Leaving
<1>4. ASSUME NEW c \in Conv, Socket(c)
      PROVE  Goal
    <2>1. CASE Connect(c)
        BY <1>2, <2>1 DEF Connect, Leaving
    <2>2. CASE Register(c)
        BY <1>2, <2>2 DEF Register, Leaving
    <2>3. CASE TearDown(c)
        BY <1>2, <2>3 DEF TearDown, Leaving
    <2>4. CASE Unregister(c)
        BY <1>2, <2>4 DEF Unregister, Leaving
    <2>5. CASE Leave(c) /\ cur[c] = 0
        BY <1>2, <2>5 DEF Leave, Leaving
    <2>6. CASE Leave(c) /\ cur[c] # 0
        <3>. DEFINE r == <<c, cur[c]>>
                    a == AfterCancel(<<c, cur[c]>>)
        <3>1. pc' = [pc EXCEPT ![Handler(c)] = "leave", ![r] = a] /\ cur[c] \in 0 .. MaxTurns
              /\ pc[Handler(c)] = "talk" /\ r \in Task /\ r # Handler(c)
            BY <1>0, <2>6 DEF Leave
        <3>. HIDE DEF a
        <3>2. \A t \in Task : pc'[t] = IF t = r THEN a
                                       ELSE IF t = Handler(c) THEN "leave" ELSE pc[t]
            BY <1>0, <3>1
        <3>3. pc'[Handler(c)] = "leave"
            BY <3>1, <3>2
        <3>. QED BY <1>3, <2>6, <3>1, <3>2, <3>3 DEF a
    <2>. QED BY <1>4, <2>1, <2>2, <2>3, <2>4, <2>5, <2>6 DEF Socket
<1>5. ASSUME NEW c \in Conv, NEW n \in 0 .. MaxTurns, Turn(c, n)
      PROVE  Goal
    <2>0. <<c, n>>[1] = c /\ <<c, n>> \in Task
        OBVIOUS
    <2>1. ASSUME Resume(c, n), pc[<<c, n>>] \in {"store", "marking"}
          PROVE  Goal
        <3>1. CASE n = 0 /\ Spawns(c)
            <4>1. turns[c] \in 0 .. MaxTurns /\ <<c, turns[c]>> \in Task
                BY <1>0
            <4>2. pc' = [pc EXCEPT ![Handler(c)] = "talk", ![<<c, turns[c]>>] = "run"]
                BY <2>1, <3>1 DEF Resume
            <4>3. \A t \in Task : pc'[t] = IF t = <<c, turns[c]>> THEN "run"
                                           ELSE IF t = Handler(c) THEN "talk" ELSE pc[t]
                BY <1>0, <4>1, <4>2
            <4>4. \A b \in Conv : pc[Handler(b)] = "done" => pc'[Handler(b)] = "done"
                <5>1. ASSUME NEW b \in Conv, pc[Handler(b)] = "done"
                      PROVE  Handler(b) # <<c, turns[c]>> /\ Handler(b) # Handler(c)
                    BY <2>1, <3>1, <5>1
                <5>. QED BY <4>3, <5>1
            <4>. QED BY <4>3, <4>4 DEF Leaving
        <3>2. CASE ~(n = 0 /\ Spawns(c))
            <4>1. PICK step \in {"talk", "done"} : pc' = [pc EXCEPT ![<<c, n>>] = step]
                BY <2>1, <3>2 DEF Resume
            <4>. QED BY <1>2, <2>0, <2>1, <4>1
        <3>. QED BY <3>1, <3>2
    <2>2. CASE Capture(c, n)
        BY <1>2, <2>0, <2>2 DEF Capture, Leaving, Refused
    <2>3. CASE Written(c, n)
        BY <2>1, <2>3 DEF Written
    <2>4. CASE NotWritten(c, n)
        BY <1>2, <2>1, <2>4 DEF NotWritten
    <2>6. CASE Mark(c, n)
        BY <1>2, <2>6 DEF Mark
    <2>7. CASE Marked(c, n)
        BY <2>1, <2>7 DEF Marked
    <2>8. CASE Complete(c, n)
        BY <1>2, <2>8 DEF Complete, Leaving
    <2>. QED BY <1>5, <2>2, <2>3, <2>4, <2>6, <2>7, <2>8 DEF Turn
<1>6. ASSUME NEW d \in Request, Deletion(d) \/ AskOne(d) \/ AskAll(d)
      PROVE  UNCHANGED pc
    BY <1>6 DEF Deletion, CollectOne, CollectAll, CloseSockets, EraseOne, EraseAll, EraseFails,
       Erased, Unblock, Note, Forget, AskOne, AskAll
<1>7. ASSUME NEW c \in Conv, ClientLeaves(c) \/ UserTurn(c) \/ Interrupt(c)
      PROVE  Goal
    <2>1. CASE ClientLeaves(c)
        BY <1>1, <2>1 DEF ClientLeaves
    <2>2. CASE UserTurn(c)
        BY <1>2, <2>2 DEF UserTurn, Leaving
    <2>3. CASE Interrupt(c)
        <3>. DEFINE r == <<c, cur[c]>>
                    a == AfterCancel(<<c, cur[c]>>)
        <3>1. pc' = [pc EXCEPT ![r] = a] /\ r \in Task /\ r # Handler(c) /\ pc[Handler(c)] = "talk"
            BY <1>0, <2>3 DEF Interrupt
        <3>. HIDE DEF a
        <3>2. \A u \in Task : pc'[u] = IF u = r THEN a
                                       ELSE IF u = Handler(c) THEN pc'[Handler(c)] ELSE pc[u]
            BY <1>0, <3>1
        <3>3. pc'[Handler(c)] = "talk"
            BY <1>0, <3>1
        <3>. QED BY <1>3, <2>3, <3>1, <3>2, <3>3 DEF Interrupt, a
    <2>. QED BY <1>7, <2>1, <2>2, <2>3
<1>8. ASSUME NEW c \in Conv, NEW n \in 1 .. MaxTurns, Remember(c, n)
      PROVE  UNCHANGED pc
    BY <1>8 DEF Remember
<1>9. CASE UNCHANGED vars
    BY <1>1, <1>9 DEF vars
<1>. QED BY <1>1, <1>4, <1>5, <1>6, <1>7, <1>8, <1>9 DEF Next, Environment
-----------------------------------------------------------------------------
(* Requests that delete one conversation do not unblock, and what they     *)
(* note they have erased.                                                  *)
OneErased ==
    \A d \in Singles :
        /\ dpc[d] \notin {"unblock", "giveup"}
        /\ dpc[d] \in {"erased", "note"} => scope[d] \subseteq erased

LEMMA OneErasedStep ==
    ASSUME TypeOK, OneErased, [Next]_vars
    PROVE  OneErased'
<1>. USE DEF runtime, store, faults, socket
<1>0. /\ scope \in [Request -> SUBSET Conv] /\ dpc \in [Request -> DpcState]
      /\ Singles \subseteq Request /\ Singles \intersect Wipes = {}
    BY ConstantsAssumption DEF ConstantsAssumption, TypeOK, Request, DpcState
<1>1. ASSUME NEW d \in Request, Deletion(d) \/ AskOne(d) \/ AskAll(d)
      PROVE  OneErased'
    <2>1. CASE AskOne(d)
        BY <1>0, <2>1 DEF AskOne, OneErased
    <2>2. CASE EraseOne(d)
        BY <1>0, <2>2 DEF EraseOne, OneErased
    <2>3. CASE EraseAll(d) \/ CollectAll(d) \/ AskAll(d)
        BY <1>0, <2>3 DEF EraseAll, CollectAll, AskAll, OneErased
    <2>4. CASE CollectOne(d) \/ CloseSockets(d) \/ EraseFails(d) \/ Erased(d)
        BY <1>0, <2>4 DEF CollectOne, CloseSockets, EraseFails, Erased, OneErased
    <2>5. CASE Unblock(d) \/ Note(d) \/ Forget(d)
        BY <1>0, <2>5 DEF Unblock, Note, Forget, OneErased
    <2>. QED BY <1>1, <2>1, <2>2, <2>3, <2>4, <2>5 DEF Deletion
<1>2. ASSUME NEW c \in Conv, Socket(c)
      PROVE  UNCHANGED <<dpc, scope, erased>>
    BY <1>2 DEF Socket, Connect, Register, Leave, TearDown, Unregister
<1>3. ASSUME NEW c \in Conv, NEW n \in 0 .. MaxTurns, Turn(c, n)
      PROVE  UNCHANGED <<dpc, scope, erased>>
    BY <1>3 DEF Turn, Capture, Written, NotWritten, Mark, Marked, Complete
<1>4. ASSUME NEW c \in Conv, ClientLeaves(c) \/ UserTurn(c) \/ Interrupt(c)
      PROVE  UNCHANGED <<dpc, scope, erased>>
    BY <1>4 DEF ClientLeaves, UserTurn, Interrupt
<1>5. ASSUME NEW c \in Conv, NEW n \in 1 .. MaxTurns, Remember(c, n)
      PROVE  UNCHANGED <<dpc, scope, erased>>
    BY <1>5 DEF Remember
<1>6. CASE UNCHANGED <<dpc, scope, erased>>
    BY <1>6 DEF OneErased
<1>7. CASE UNCHANGED vars
    BY <1>6, <1>7 DEF vars
<1>. QED BY <1>1, <1>2, <1>3, <1>4, <1>5, <1>6, <1>7 DEF Next, Environment
-----------------------------------------------------------------------------
(* No two requests that delete everything overlap.                         *)
Wiping == {"close", "erase", "erased", "unblock", "giveup", "note"}
Apart  == \A d, e \in Wipes : dpc[d] \in Wiping /\ dpc[e] \in Wiping => d = e

(* A conversation that is past will not insert a row any more.             *)
Gone(c) == c \notin active /\ pc[Handler(c)] = "done"
Past(c) == c \in started \/ c \in deleted \/ Gone(c)

Passed(t) == t[1] \in deleted \/ pc[t] \in Leaving

(* From when it has collected the sockets until it has noted the deletion, *)
(* a request that deletes everything has nobody write: while it blocks the *)
(* owner for the block, then because who is ahead of it in the queue for   *)
(* the lock has a tombstone.                                               *)
Barred(d) ==
    /\ dpc[d] \in {"close", "erase", "erased", "unblock"} => blocked /\ active \subseteq deleted
    /\ dpc[d] \in {"close", "erase", "erased", "unblock", "note"} =>
          /\ \A t \in Task : pc[t] # "store"
          /\ \A c \in lost : Past(c)
    /\ dpc[d] \in {"erased", "unblock", "note"} => stored = {}
    /\ dpc[d] = "note" => \A t \in Task : Ahead(lock, t, Del(d)) => Passed(t)

(* A lost turn is noted, or its conversation has no row nor will have one. *)
Known ==
    /\ incomplete \subseteq stored
    /\ \A c \in lost : c \in failures \union incomplete \/ (c \notin stored /\ Past(c))

(* What is past stays past.                                                *)
LEMMA PastStays ==
    ASSUME TypeOK, [Next]_vars, NEW c \in Conv, Past(c)
    PROVE  Past(c)'
<1>. USE Names DEF runtime, store, faults, socket
<1>0. pc[Handler(c)] = "done" => pc'[Handler(c)] = "done"
    BY TaskSteps
<1>1. /\ started \subseteq started' /\ deleted \subseteq deleted'
      /\ active' \subseteq active \/ \E b \in Conv : Register(b) /\ active' \subseteq active \union {b}
    <2>1. ASSUME NEW b \in Conv, Socket(b)
          PROVE  /\ started \subseteq started' /\ deleted \subseteq deleted'
                 /\ active' \subseteq active \/ (Register(b) /\ active' \subseteq active \union {b})
        BY <2>1 DEF Socket, Connect, Register, Leave, TearDown, Unregister
    <2>2. ASSUME NEW b \in Conv, NEW n \in 0 .. MaxTurns, Turn(b, n)
          PROVE  started \subseteq started' /\ deleted \subseteq deleted' /\ active' = active
        BY <2>2 DEF Turn, Capture, Written, NotWritten, Mark, Marked, Complete
    <2>3. ASSUME NEW d \in Request, Deletion(d) \/ AskOne(d) \/ AskAll(d)
          PROVE  started \subseteq started' /\ deleted \subseteq deleted' /\ active' = active
        BY <2>3 DEF Deletion, CollectOne, CollectAll, CloseSockets, EraseOne, EraseAll, EraseFails,
           Erased, Unblock, Note, Forget, AskOne, AskAll
    <2>4. ASSUME NEW b \in Conv, ClientLeaves(b) \/ UserTurn(b) \/ Interrupt(b)
          PROVE  UNCHANGED <<started, deleted, active>>
        BY <2>4 DEF ClientLeaves, UserTurn, Interrupt
    <2>5. ASSUME NEW b \in Conv, NEW n \in 1 .. MaxTurns, Remember(b, n)
          PROVE  UNCHANGED <<started, deleted, active>>
        BY <2>5 DEF Remember
    <2>6. CASE UNCHANGED vars
        BY <2>6 DEF vars
    <2>. QED BY <2>1, <2>2, <2>3, <2>4, <2>5, <2>6 DEF Next, Environment
<1>2. \A b \in Conv : Register(b) => pc[Handler(b)] = "reg"
    BY DEF Register
<1>3. Gone(c) => Gone(c)'
    <2>. SUFFICES ASSUME Gone(c)
                  PROVE  c \notin active'
        BY <1>0 DEF Gone
    <2>. QED BY <1>1, <1>2 DEF Gone
<1>. QED BY <1>1, <1>3 DEF Past

(* Who leaves a note to come has nobody write.                             *)
LEMMA BarredKept ==
    ASSUME TypeOK, Exclusive, Current, Fresh, Registered, Queue, [Next]_vars,
           NEW d \in Wipes, Barred(d), dpc'[d] = dpc[d], deleted \subseteq deleted',
           dpc[d] \in {"close", "erase", "erased", "unblock"} => blocked' /\ active' \subseteq active,
           dpc[d] \in {"close", "erase", "erased", "unblock", "note"} => lost' \subseteq lost,
           dpc[d] \in {"erased", "unblock", "note"} => stored' \subseteq stored
    PROVE  Barred(d)'
<1>. DEFINE B == {"close", "erase", "erased", "unblock"}
<1>0. d \in Request /\ Queue' /\ NoteOrder /\ lost \subseteq Conv
    BY QueueStep DEF Request, TypeOK
<1>1. dpc[d] \in B => blocked' /\ active' \subseteq deleted'
    BY DEF Barred
<1>2. ASSUME dpc[d] \in B \union {"note"}, NEW t \in Task
      PROVE  pc'[t] # "store"
    <2>1. SUFFICES ASSUME pc[t] = "wait", Holds(t), t[1] \notin deleted, ~blocked
                   PROVE  FALSE
        BY <1>2, TaskSteps DEF Barred
    <2>2. dpc[d] = "note"
        BY <1>2, <2>1 DEF Barred
    <2>3. Del(d) \in Line(lock) /\ Del(d) # t
        BY <1>0, <2>2, Names DEF Queue, Needs, Asking
    <2>4. PICK j \in 1 .. Len(lock) : lock[j] = Del(d)
        BY <2>3 DEF Line
    <2>5. 1 \in 1 .. Len(lock) /\ lock[1] = t /\ 1 < j
        <3>1. lock \in Seq(Waiter)
            BY DEF TypeOK, Waiter
        <3>2. lock # <<>> /\ Head(lock) = t
            BY <2>1 DEF Holds
        <3>. QED BY <2>3, <2>4, <3>1, <3>2
    <2>6. Ahead(lock, t, Del(d))
        BY <2>4, <2>5 DEF Ahead
    <2>. QED BY <2>1, <2>2, <2>6 DEF Barred, Passed, Leaving
<1>3. ASSUME dpc[d] \in B \union {"note"}, NEW c \in lost'
      PROVE  Past(c)'
    <2>1. c \in lost /\ c \in Conv /\ Past(c)
        BY <1>0, <1>3 DEF Barred
    <2>. QED BY <2>1, PastStays
<1>4. ASSUME dpc[d] = "note", NEW t \in Task, Ahead(lock', t, Del(d))
      PROVE  Passed(t)'
    <2>1. Passed(t)
        BY <1>0, <1>4 DEF NoteOrder, Barred
    <2>2. CASE t[1] \in deleted
        BY <2>2 DEF Passed
    <2>3. CASE pc[t] \in Leaving
        <3>1. t \in Line(lock)'
            BY <1>4 DEF Ahead, Line
        <3>2. Needs(t)'
            BY <1>0, <3>1, Names DEF Queue
        <3>3. pc'[t] \in Queued
            BY <3>2, Names DEF Needs
        <3>4. pc'[t] \notin {"wait", "store"}
            BY <2>3, TaskSteps
        <3>. QED BY <3>3, <3>4 DEF Passed, Leaving, Queued
    <2>. QED BY <2>1, <2>2, <2>3 DEF Passed
<1>5. dpc[d] \in {"erased", "unblock", "note"} => stored' = {}
    BY DEF Barred
<1>. QED BY <1>1, <1>2, <1>3, <1>4, <1>5 DEF Barred

LEMMA BarredStep ==
    ASSUME IInv, Current, Fresh, Registered, Queue, OneErased, Apart, [Next]_vars,
           NEW d \in Wipes, Barred(d)
    PROVE  Barred(d)'
<1>. USE Names DEF runtime, store, faults, socket, IInv
<1>. DEFINE B == {"close", "erase", "erased", "unblock"}
<1>0. /\ d \in Request /\ dpc \in [Request -> DpcState] /\ lost \subseteq Conv
      /\ scope \in [Request -> SUBSET Conv] /\ pc \in [Task -> PcState]
      /\ Wipes \intersect Singles = {}
    BY ConstantsAssumption DEF Request, TypeOK, DpcState, PcState, ConstantsAssumption
(* The request's own steps.                                                *)
<1>1. ASSUME CollectAll(d)
      PROVE  Barred(d)'
    <2>1. /\ Holds(Del(d)) /\ blocked' /\ deleted' = deleted \union active
          /\ UNCHANGED <<pc, active, lost, started>> /\ dpc'[d] = "close"
        BY <1>0, <1>1 DEF CollectAll
    <2>2. \A t \in Task : pc[t] # "store"
        <3>1. ASSUME NEW t \in Task, pc[t] = "store"
              PROVE  t = Del(d)
            BY <2>1, <3>1 DEF Exclusive, Holds
        <3>2. Del(d) \notin Task
            BY <1>0
        <3>. QED BY <3>1, <3>2
    <2>3. ASSUME NEW c \in lost
          PROVE  Past(c)'
        <3>1. CASE c \in active
            BY <2>1, <3>1 DEF Past
        <3>2. CASE c \notin active
            <4>1. c \in Conv /\ pc[Handler(c)] \in PcState /\ pc[Handler(c)] # "run"
                BY <1>0 DEF Current
            <4>2. pc[Handler(c)] \notin {"new", "reg"} \union Present \union {"leave", "unreg"}
                BY <3>2, <4>1 DEF Registered
            <4>3. pc[Handler(c)] = "done"
                BY <4>1, <4>2 DEF PcState, Present
            <4>. QED BY <2>1, <3>2, <4>3 DEF Past, Gone
        <3>. QED BY <3>1, <3>2
    <2>. QED BY <2>1, <2>2, <2>3 DEF Barred
<1>2. ASSUME EraseAll(d) \/ CloseSockets(d) \/ Erased(d)
      PROVE  Barred(d)'
    <2>1. /\ dpc[d] \in {"close", "erase", "erased"}
          /\ dpc'[d] \in {"erase", "erased", "unblock"}
          /\ dpc'[d] \in {"erased", "unblock"} => stored' = {}
          /\ UNCHANGED <<pc, active, lost, started, deleted, blocked>>
        BY <1>0, <1>2 DEF EraseAll, CloseSockets, Erased, Barred
    <2>2. \A c \in lost : Past(c)' <=> Past(c)
        BY <2>1 DEF Past, Gone
    <2>. QED BY <2>1, <2>2 DEF Barred
<1>3. ASSUME Unblock(d)
      PROVE  Barred(d)'
    <2>1. CASE dpc[d] = "giveup"
        BY <1>0, <1>3, <2>1 DEF Unblock, Barred
    <2>2. CASE dpc[d] = "unblock"
        <3>1. /\ dpc'[d] = "note" /\ Requeue(Del(d)) /\ Holds(Del(d))
              /\ UNCHANGED <<pc, active, lost, started, deleted, stored>>
            BY <1>0, <1>3, <2>2 DEF Unblock
        <3>2. \A c \in lost : Past(c)' <=> Past(c)
            BY <3>1 DEF Past, Gone
        <3>3. ASSUME NEW t \in Task, Ahead(lock', t, Del(d))
              PROVE  Passed(t)'
            <4>1. lock \in Seq(Waiter) /\ Distinct(lock) /\ lock # <<>> /\ Head(lock) = Del(d)
                BY <3>1 DEF TypeOK, Waiter, Queue, Holds
            <4>. DEFINE s == Tail(lock)
            <4>2. s \in Seq(Waiter) /\ Distinct(s) /\ Line(s) = Line(lock) \ {Del(d)}
                BY <4>1, HeadLeaves
            <4>3. lock' = Append(s, Del(d))
                BY <3>1 DEF Requeue
            <4>. HIDE DEF s
            <4>4. t \in Line(lock)
                <5>1. Ahead(Append(s, Del(d)), t, Del(d)) => t \in Line(s)
                    BY <1>0, <4>2, JoinsLine
                <5>. QED BY <3>3, <4>2, <4>3, <5>1
            <4>5. pc[t] \in Queued
                BY <4>4 DEF Queue, Needs
            <4>6. pc[t] # "store" /\ active \subseteq deleted
                BY <2>2 DEF Barred
            <4>7. ASSUME pc[t] = "wait"
                  PROVE  t[1] \in active
                <5>1. PICK c \in Conv, n \in 0 .. MaxTurns : t = <<c, n>>
                    BY DEF Task
                <5>2. pc[Handler(c)] \in Present
                    <6>1. CASE n = 0
                        BY <4>7, <5>1, <6>1 DEF Present
                    <6>2. CASE n # 0
                        <7>1. n \in 1 .. MaxTurns
                            BY <6>2, ConstantsAssumption DEF ConstantsAssumption
                        <7>. QED BY <4>7, <5>1, <7>1 DEF Current, Alive
                    <6>. QED BY <6>1, <6>2
                <5>. QED BY <5>1, <5>2 DEF Registered
            <4>. QED BY <3>1, <4>5, <4>6, <4>7 DEF Passed, Queued, Leaving
        <3>. QED BY <2>2, <3>1, <3>2, <3>3 DEF Barred
    <2>. QED BY <1>3, <2>1, <2>2 DEF Unblock
<1>4. ASSUME dpc'[d] \notin B \union {"note"}
      PROVE  Barred(d)'
    BY <1>4 DEF Barred
<1>5. ASSUME NEW e \in Request, Deletion(e) \/ AskOne(e) \/ AskAll(e)
      PROVE  Barred(d)'
    <2>1. CASE e = d
        <3>1. CASE AskOne(d) \/ AskAll(d) \/ EraseFails(d) \/ Note(d) \/ Forget(d)
            BY <1>0, <1>4, <3>1 DEF AskOne, AskAll, EraseFails, Note, Forget
        <3>2. ~CollectOne(d) /\ ~EraseOne(d)
            BY <1>0 DEF CollectOne, EraseOne
        <3>. QED BY <1>1, <1>2, <1>3, <1>5, <2>1, <3>1, <3>2 DEF Deletion
    <2>2. CASE e # d
        <3>1. UNCHANGED <<active, lost>> /\ deleted \subseteq deleted' /\ stored' \subseteq stored
            BY <1>5 DEF Deletion, AskOne, AskAll, CollectOne, CollectAll, CloseSockets, EraseOne,
               EraseAll, EraseFails, Erased, Unblock, Note, Forget
        <3>2. dpc'[d] = dpc[d]
            BY <1>0, <1>5, <2>2 DEF Deletion, AskOne, AskAll, CollectOne, CollectAll, CloseSockets,
               EraseOne, EraseAll, EraseFails, Erased, Unblock, Note, Forget
        <3>3. dpc[d] \in B => blocked'
            <4>. SUFFICES ASSUME dpc[d] \in B
                          PROVE  blocked'
                OBVIOUS
            <4>1. CASE Unblock(e)
                <5>1. dpc[e] \in {"unblock", "giveup"} /\ e \in Wipes
                    BY <4>1 DEF Unblock, OneErased, Request
                <5>. QED BY <2>2, <5>1 DEF Apart, Wiping
            <4>2. CASE ~Unblock(e)
                <5>1. blocked' = blocked \/ blocked'
                    BY <1>5, <4>2 DEF Deletion, AskOne, AskAll, CollectOne, CollectAll, CloseSockets,
                       EraseOne, EraseAll, EraseFails, Erased, Note, Forget
                <5>. QED BY <5>1 DEF Barred
            <4>. QED BY <4>1, <4>2
        <3>. QED BY <3>1, <3>2, <3>3, BarredKept
    <2>. QED BY <2>1, <2>2
<1>6. ASSUME UNCHANGED <<dpc, deleted, blocked>>,
             active' \subseteq active \/ ~blocked,
             (\E t \in Task : pc[t] = "store") \/ (lost' \subseteq lost /\ stored' \subseteq stored)
      PROVE  Barred(d)'
    BY <1>6, BarredKept DEF Barred
<1>7. ASSUME NEW c \in Conv, Socket(c)
      PROVE  Barred(d)'
    BY <1>6, <1>7 DEF Socket, Connect, Register, Leave, TearDown, Unregister
<1>8. ASSUME NEW c \in Conv, NEW n \in 0 .. MaxTurns, Turn(c, n)
      PROVE  Barred(d)'
    <2>1. CASE Written(c, n) \/ NotWritten(c, n)
        BY <1>6, <2>1 DEF Written, NotWritten
    <2>2. CASE ~Written(c, n) /\ ~NotWritten(c, n)
        BY <1>6, <1>8, <2>2 DEF Turn, Capture, Mark, Marked, Complete
    <2>. QED BY <2>1, <2>2
<1>9. ASSUME NEW c \in Conv, ClientLeaves(c) \/ UserTurn(c) \/ Interrupt(c)
      PROVE  Barred(d)'
    BY <1>6, <1>9 DEF ClientLeaves, UserTurn, Interrupt
<1>10. ASSUME NEW c \in Conv, NEW n \in 1 .. MaxTurns, Remember(c, n)
       PROVE  Barred(d)'
    BY <1>6, <1>10 DEF Remember
<1>11. CASE UNCHANGED vars
    BY <1>6, <1>11 DEF vars
<1>. QED BY <1>5, <1>7, <1>8, <1>9, <1>10, <1>11 DEF Next, Environment

LEMMA KnownStep ==
    ASSUME IInv, Registered, OneErased, Known, \A d \in Wipes : Barred(d), [Next]_vars
    PROVE  Known'
<1>. USE Names DEF runtime, store, faults, socket, IInv
<1>0. /\ lost \subseteq Conv /\ scope \in [Request -> SUBSET Conv]
      /\ incomplete \subseteq stored /\ stored \subseteq started
    BY DEF TypeOK, Known, Named
<1>1. \A c \in lost : Past(c) => Past(c)'
    BY <1>0, PastStays
<1>2. ASSUME UNCHANGED <<incomplete, stored, lost>>, failures \subseteq failures'
      PROVE  Known'
    BY <1>1, <1>2 DEF Known
<1>3. ASSUME NEW c \in Conv, NEW n \in 0 .. MaxTurns, Written(c, n)
      PROVE  Known'
    <2>1. /\ pc[<<c, n>>] = "store" /\ (c \in started => c \in stored)
          /\ stored' = stored \union {c} /\ UNCHANGED <<incomplete, lost, failures>>
        BY <1>3 DEF Written
    <2>2. ASSUME c \in lost, c \notin failures \union incomplete
          PROVE  FALSE
        <3>1. c \notin stored /\ Past(c)
            BY <2>2 DEF Known
        <3>2. c \notin started /\ c \notin deleted
            BY <2>1, <3>1 DEF Tombstoned
        <3>3. pc[Handler(c)] = "done"
            BY <3>1, <3>2 DEF Past, Gone
        <3>4. n \in 1 .. MaxTurns
            BY <2>1, <3>3, ConstantsAssumption DEF ConstantsAssumption
        <3>. QED BY <2>1, <3>2, <3>4 DEF Registered
    <2>. QED BY <1>1, <2>1, <2>2 DEF Known
<1>4. ASSUME NEW c \in Conv, NEW n \in 0 .. MaxTurns, NotWritten(c, n)
      PROVE  Known'
    BY <1>1, <1>4 DEF NotWritten, Known
<1>5. ASSUME NEW c \in Conv, NEW n \in 0 .. MaxTurns, Marked(c, n)
      PROVE  Known'
    BY <1>1, <1>5 DEF Marked, Known
<1>6. ASSUME NEW d \in Request, EraseOne(d)
      PROVE  Known'
    <2>1. scope[d] \subseteq deleted \union started
        BY DEF Named
    <2>2. /\ stored' = stored \ scope[d] /\ incomplete' = incomplete \ scope[d]
          /\ UNCHANGED <<lost, failures, started, deleted>>
        BY <1>6 DEF EraseOne
    <2>3. \A c \in scope[d] : Past(c)'
        BY <2>1, <2>2 DEF Past
    <2>. QED BY <1>1, <2>2, <2>3 DEF Known
<1>7. ASSUME NEW d \in Request, EraseAll(d)
      PROVE  Known'
    <2>1. stored' = {} /\ incomplete' = {} /\ UNCHANGED <<lost, failures, started>>
        BY <1>7 DEF EraseAll
    <2>2. \A c \in incomplete : Past(c)
        BY <1>0 DEF Past
    <2>. QED BY <1>1, <2>1, <2>2 DEF Known
<1>8. ASSUME NEW d \in Request, Note(d)
      PROVE  Known'
    <2>1. /\ dpc[d] = "note" /\ deleted' = deleted \union scope[d]
          /\ failures' = IF d \in Wipes THEN {} ELSE failures \ scope[d]
          /\ UNCHANGED <<lost, stored, incomplete>>
        BY <1>8 DEF Note
    <2>2. CASE d \in Wipes
        <3>1. stored = {} /\ \A c \in lost : Past(c)
            BY <2>1, <2>2 DEF Barred
        <3>. QED BY <1>0, <1>1, <2>1, <3>1 DEF Known
    <2>3. CASE d \notin Wipes
        <3>1. scope[d] \intersect stored = {}
            BY <2>1, <2>3 DEF OneErased, Request, Named
        <3>2. \A c \in scope[d] : Past(c)'
            BY <2>1 DEF Past
        <3>3. failures' = failures \ scope[d]
            BY <2>1, <2>3
        <3>4. ASSUME NEW c \in lost
              PROVE  c \in failures' \union incomplete' \/ (c \notin stored' /\ Past(c)')
            BY <1>1, <2>1, <3>1, <3>2, <3>3 DEF Known
        <3>. QED BY <1>0, <2>1, <3>4 DEF Known
    <2>. QED BY <2>2, <2>3
<1>9. ASSUME NEW d \in Request, Deletion(d) \/ AskOne(d) \/ AskAll(d)
      PROVE  Known'
    <2>1. CASE EraseOne(d) \/ EraseAll(d) \/ Note(d)
        BY <1>6, <1>7, <1>8, <2>1
    <2>2. CASE ~EraseOne(d) /\ ~EraseAll(d) /\ ~Note(d)
        BY <1>2, <1>9, <2>2 DEF Deletion, AskOne, AskAll, CollectOne, CollectAll, CloseSockets,
           EraseFails, Erased, Unblock, Forget
    <2>. QED BY <2>1, <2>2
<1>10. ASSUME NEW c \in Conv, Socket(c)
       PROVE  Known'
    BY <1>2, <1>10 DEF Socket, Connect, Register, Leave, TearDown, Unregister
<1>11. ASSUME NEW c \in Conv, NEW n \in 0 .. MaxTurns, Turn(c, n)
       PROVE  Known'
    <2>1. CASE Capture(c, n) \/ Mark(c, n) \/ Complete(c, n)
        BY <1>2, <2>1 DEF Capture, Mark, Complete
    <2>. QED BY <1>3, <1>4, <1>5, <1>11, <2>1 DEF Turn
<1>12. ASSUME NEW c \in Conv, ClientLeaves(c) \/ UserTurn(c) \/ Interrupt(c)
       PROVE  Known'
    BY <1>2, <1>12 DEF ClientLeaves, UserTurn, Interrupt
<1>13. ASSUME NEW c \in Conv, NEW n \in 1 .. MaxTurns, Remember(c, n)
       PROVE  Known'
    BY <1>2, <1>13 DEF Remember
<1>14. CASE UNCHANGED vars
    BY <1>2, <1>14 DEF vars
<1>. QED BY <1>9, <1>10, <1>11, <1>12, <1>13, <1>14 DEF Next, Environment

(* The lock's queue is of those who hold it or wait for it, once each.     *)
THEOREM QueueHolds == Spec => [](Queue /\ Current /\ Fresh /\ Registered)
<1>1. Init => Queue /\ Current /\ Fresh /\ Registered
    <2>. SUFFICES ASSUME Init PROVE Queue /\ Current /\ Fresh /\ Registered
        OBVIOUS
    <2>1. Queue
        BY Names DEF Init, Queue, Distinct, Line, Needs, Queued, Asking
    <2>2. Current /\ Registered
        BY Names DEF Init, Current, Registered, Present, Alive
    <2>3. Fresh
        <3>1. ASSUME NEW c \in Conv
              PROVE  cur[c] <= turns[c]
            <4>1. cur[c] = 0 /\ turns[c] = 0
                BY DEF Init
            <4>2. \A k, m : k = 0 /\ m = 0 => k <= m
                OBVIOUS
            <4>. QED BY <4>1, <4>2
        <3>2. \A c \in Conv, n \in 1 .. MaxTurns : pc[<<c, n>>] = "new"
            BY Names DEF Init
        <3>. QED BY <3>1, <3>2 DEF Fresh
    <2>. QED BY <2>1, <2>2, <2>3
<1>2. IInv /\ Queue /\ Current /\ Fresh /\ Registered /\ [Next]_vars
         => (Queue /\ Current /\ Fresh /\ Registered)'
    BY QueueStep, CurrentStep, FreshStep, RegisteredStep DEF IInv
<1>. QED BY <1>1, <1>2, Invariance, PTL DEF Spec

(* As long as no two requests that delete everything overlap, a turn that  *)
(* could not be written shows on its row or in the process, whatever other *)
(* requests note or delete meanwhile (LostTurnShows).                      *)
THEOREM LossesShow == Spec /\ []Apart => []LostTurnShows
<1>. DEFINE All == OneErased /\ Known /\ \A d \in Wipes : Barred(d)
<1>1. Init => All
    BY Names DEF Init, OneErased, Known, Barred, Request
<1>2. IInv /\ Queue /\ Current /\ Fresh /\ Registered /\ Apart /\ All /\ [Next]_vars => All'
    BY OneErasedStep, KnownStep, BarredStep DEF IInv
<1>3. All => LostTurnShows
    BY DEF Known, LostTurnShows
<1>. HIDE DEF All
<1>. QED BY <1>1, <1>2, <1>3, Invariance, QueueHolds, PTL DEF Spec
=============================================================================
