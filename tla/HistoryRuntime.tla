--------------------------- MODULE HistoryRuntime ---------------------------
(***************************************************************************)
(* Conversation history of one signed-in owner: sockets that capture turns *)
(* while the owner's delete requests run (voice/server.py, _HistoryRuntime *)
(* and its users; voice/webauth/sqlite_store.py, the rows).                *)
(*                                                                         *)
(* A socket has one server-generated conversation id, so a conversation    *)
(* stands for its socket too.  Tasks are the socket's handler <<c, 0>>,    *)
(* the replies <<c, n>> it spawns and the delete requests.  Everything     *)
(* that captures runs under one asyncio.Lock, which is first come first    *)
(* served (other owners take it as well, so it may be contended at any     *)
(* time); the DELETE statements themselves run outside it, in a thread.    *)
(*                                                                         *)
(* An operator with a suffix after `_' is the operator before the suffix   *)
(* with one mistake in it, to show that a property notices the mistake.    *)
(***************************************************************************)
EXTENDS Naturals, Sequences

CONSTANTS Conv,      \* conversations (sockets) of the owner
          Singles,   \* DELETE /api/conversations/{id} requests
          Wipes,     \* DELETE /api/conversations requests
          MaxTurns,  \* user turns per conversation
          MaxFails   \* writes to the store that fail

ASSUME ConstantsAssumption ==
    /\ MaxTurns \in Nat
    /\ MaxFails \in Nat
    /\ Singles \intersect Wipes = {}
    /\ Conv \intersect (Singles \union Wipes) = {}

VARIABLES
    pc,          \* where each handler and reply is
    dpc,         \* where each delete request is
    lock,        \* _HistoryRuntime.lock: who holds it (the head) and who waits
    active,      \* _HistoryRuntime.active: registered sockets
    deleted,     \* _HistoryRuntime.deleted: tombstones
    blocked,     \* the owner is in _HistoryRuntime.blocked_owners
    failures,    \* _HistoryRuntime.failures
    closed,      \* sockets that are closed
    turns,       \* user turns captured or tried, the number of the newest reply
    cur,         \* Session._stream_task, 0 for None
    started,     \* Session._history_started
    stored,      \* rows of the conversations table
    incomplete,  \* rows with history_incomplete = 1
    memory,      \* conversations with an agent memory in the Node service
    scope,       \* conversations a delete request has collected
    fails,       \* failed writes so far (bounded by MaxFails)
    lost,        \* conversations of which a turn could not be written
    erased       \* conversations a successful DELETE statement was about

runtime == <<active, deleted, blocked>>
store   == <<stored, incomplete, erased>>
faults  == <<failures, fails, lost>>
socket  == <<closed, turns, cur, started, memory>>
vars == <<pc, dpc, lock, runtime, store, faults, socket, scope>>

Request == Singles \union Wipes
Handler(c) == <<c, 0>>
Task == Conv \X (0 .. MaxTurns)
Del(d) == <<d, 0>>

TypeOK ==
    /\ pc \in [Task -> {"new", "reg", "talk", "wait", "store", "mark", "marking",
                        "leave", "unreg", "run", "done"}]
    /\ dpc \in [Request -> {"new", "lock", "close", "erase", "erased", "unblock",
                            "giveup", "note", "memory", "done"}]
    /\ lock \in Seq(Task \union {Del(d) : d \in Request})
    /\ {active, deleted, failures, closed, started, stored, incomplete, memory, lost, erased}
           \subseteq SUBSET Conv
    /\ blocked \in BOOLEAN
    /\ turns \in [Conv -> 0 .. MaxTurns]
    /\ cur \in [Conv -> 0 .. MaxTurns]
    /\ scope \in [Request -> SUBSET Conv]
    /\ fails \in 0 .. MaxFails

Init ==
    /\ pc = [t \in Task |-> "new"]
    /\ dpc = [d \in Request |-> "new"]
    /\ lock = <<>>
    /\ active = {} /\ deleted = {} /\ failures = {} /\ closed = {} /\ started = {}
    /\ stored = {} /\ incomplete = {} /\ memory = {} /\ lost = {} /\ erased = {}
    /\ blocked = FALSE
    /\ turns = [c \in Conv |-> 0]
    /\ cur = [c \in Conv |-> 0]
    /\ scope = [d \in Request |-> {}]
    /\ fails = 0

(***************************************************************************)
(* The lock                                                                *)
(***************************************************************************)
Holds(t)   == lock # <<>> /\ Head(lock) = t
Acquire(t) == lock' = Append(lock, t)
Release    == lock' = Tail(lock)
Requeue(t) == lock' = Append(Tail(lock), t)

(* A cancelled waiter is taken out of the queue.                           *)
GiveUpLock(t) ==
    \E i \in 1 .. Len(lock) :
        /\ lock[i] = t
        /\ lock' = [j \in 1 .. Len(lock) - 1 |-> IF j < i THEN lock[j] ELSE lock[j + 1]]

(***************************************************************************)
(* Sockets                                                                 *)
(***************************************************************************)
Connect(c) ==
    /\ pc[Handler(c)] = "new"
    /\ pc' = [pc EXCEPT ![Handler(c)] = "reg"]
    /\ Acquire(Handler(c))
    /\ UNCHANGED <<dpc, runtime, store, faults, socket, scope>>

(* A socket that comes while the owner is blocked is closed at once.       *)
Register(c) ==
    /\ pc[Handler(c)] = "reg" /\ Holds(Handler(c))
    /\ Release
    /\ \/ /\ blocked
          /\ pc' = [pc EXCEPT ![Handler(c)] = "done"]
          /\ closed' = closed \union {c}
          /\ UNCHANGED active
       \/ /\ ~blocked
          /\ pc' = [pc EXCEPT ![Handler(c)] = "talk"]
          /\ active' = active \union {c}
          /\ UNCHANGED closed
    /\ UNCHANGED <<dpc, deleted, blocked, store, faults, turns, cur, started, memory, scope>>

ClientLeaves(c) ==
    /\ pc[Handler(c)] \notin {"new", "done"} /\ c \in active \ closed
    /\ closed' = closed \union {c}
    /\ UNCHANGED <<pc, dpc, lock, runtime, store, faults, turns, cur, started, memory, scope>>

(* The finally block cancels the reply and waits for it; the reply leaves  *)
(* a statement of the store only when that has finished.                   *)
Busy(t)    == pc[t] \in {"store", "marking"}
Waiting(t) == pc[t] \in {"wait", "mark"}

CancelReply_StaysQueued(c, t) == UNCHANGED lock

CancelReply(c, t) ==
    IF Waiting(t) THEN GiveUpLock(t) ELSE UNCHANGED lock

AfterCancel(t) == IF Busy(t) THEN pc[t] ELSE "done"

Leave(c) ==
    LET r == <<c, cur[c]>> IN
    /\ pc[Handler(c)] = "talk" /\ c \in closed
    /\ IF cur[c] = 0
       THEN /\ pc' = [pc EXCEPT ![Handler(c)] = "leave"]
            /\ UNCHANGED lock
       ELSE /\ pc' = [pc EXCEPT ![Handler(c)] = "leave", ![r] = AfterCancel(r)]
            /\ CancelReply(c, r)
    /\ UNCHANGED <<dpc, runtime, store, faults, socket, scope>>

TearDown_KeepsStarted(c) ==
    /\ pc[Handler(c)] = "leave"
    /\ cur[c] # 0 => pc[<<c, cur[c]>>] = "done"
    /\ memory' = IF c \in started THEN memory ELSE memory \ {c}
    /\ pc' = [pc EXCEPT ![Handler(c)] = "unreg"]
    /\ Acquire(Handler(c))
    /\ UNCHANGED <<dpc, runtime, store, faults, closed, turns, cur, started, scope>>

(* Agent memory outlives the socket only with a saved history to delete it *)
(* with.                                                                   *)
TearDown(c) ==
    /\ pc[Handler(c)] = "leave"
    /\ cur[c] # 0 => pc[<<c, cur[c]>>] = "done"
    /\ memory' = IF c \in started /\ c \notin deleted THEN memory ELSE memory \ {c}
    /\ pc' = [pc EXCEPT ![Handler(c)] = "unreg"]
    /\ Acquire(Handler(c))
    /\ UNCHANGED <<dpc, runtime, store, faults, closed, turns, cur, started, scope>>

Unregister(c) ==
    /\ pc[Handler(c)] = "unreg" /\ Holds(Handler(c))
    /\ Release
    /\ active' = active \ {c}
    /\ pc' = [pc EXCEPT ![Handler(c)] = "done"]
    /\ UNCHANGED <<dpc, deleted, blocked, store, faults, socket, scope>>

(***************************************************************************)
(* Turns                                                                   *)
(***************************************************************************)
UserTurn(c) ==
    /\ pc[Handler(c)] = "talk" /\ c \notin closed /\ turns[c] < MaxTurns
    /\ turns' = [turns EXCEPT ![c] = @ + 1]
    /\ pc' = [pc EXCEPT ![Handler(c)] = "wait"]
    /\ Acquire(Handler(c))
    /\ UNCHANGED <<dpc, runtime, store, faults, closed, cur, started, memory, scope>>

(* The request the reply makes has the Node service keep a memory.         *)
Remember(c, n) ==
    /\ pc[<<c, n>>] = "run"
    /\ memory' = memory \union {c}
    /\ UNCHANGED <<pc, dpc, lock, runtime, store, faults, closed, turns, cur, started, scope>>

(* A reply is only saved in a conversation that has a row, an error or an  *)
(* interrupted stream is not saved at all.                                 *)
Complete(c, n) ==
    /\ pc[<<c, n>>] = "run"
    /\ \/ /\ c \in started
          /\ pc' = [pc EXCEPT ![<<c, n>>] = "wait"]
          /\ Acquire(<<c, n>>)
       \/ /\ pc' = [pc EXCEPT ![<<c, n>>] = "done"]
          /\ UNCHANGED lock
    /\ UNCHANGED <<dpc, runtime, store, faults, socket, scope>>

(* A stop or a committed barge-in.                                         *)
Interrupt(c) ==
    LET r == <<c, cur[c]>> IN
    /\ pc[Handler(c)] = "talk" /\ c \notin closed
    /\ cur[c] # 0 /\ pc[r] # "done"
    /\ pc' = [pc EXCEPT ![r] = AfterCancel(r)]
    /\ CancelReply(c, r)
    /\ cur' = [cur EXCEPT ![c] = 0]
    /\ UNCHANGED <<dpc, runtime, store, faults, closed, turns, started, memory, scope>>

(* A captured user turn spawns a reply unless one is in flight.            *)
Spawns(c) == cur[c] = 0 \/ pc[<<c, cur[c]>>] = "done"

Resume(c, n) ==
    IF n = 0 /\ Spawns(c)
    THEN /\ pc' = [pc EXCEPT ![Handler(c)] = "talk", ![<<c, turns[c]>>] = "run"]
         /\ cur' = [cur EXCEPT ![c] = turns[c]]
    ELSE /\ pc' = [pc EXCEPT ![<<c, n>>] = IF n = 0 THEN "talk" ELSE "done"]
         /\ UNCHANGED cur

(* The gate: a capture under the lock is refused once its conversation is  *)
(* deleted or its owner blocked.  A refused user turn gets no reply.       *)
Refused_Never(c) == FALSE

Refused(c) == c \in deleted \/ blocked

Capture(c, n) ==
    /\ pc[<<c, n>>] = "wait" /\ Holds(<<c, n>>)
    /\ \/ /\ Refused(c)
          /\ pc' = [pc EXCEPT ![<<c, n>>] = IF n = 0 THEN "talk" ELSE "done"]
          /\ Release
       \/ /\ ~Refused(c)
          /\ pc' = [pc EXCEPT ![<<c, n>>] = "store"]
          /\ UNCHANGED lock
    /\ UNCHANGED <<dpc, runtime, store, faults, socket, scope>>

(* The first user turn inserts the row, later turns need it.               *)
Written(c, n) ==
    /\ pc[<<c, n>>] = "store"
    /\ c \in started => c \in stored
    /\ stored' = stored \union {c}
    /\ started' = started \union {c}
    /\ Resume(c, n)
    /\ Release
    /\ UNCHANGED <<dpc, runtime, incomplete, erased, faults, closed, turns, memory, scope>>

NotWritten_MarkOnly(c, n) ==
    /\ pc[<<c, n>>] = "store"
    /\ \/ fails < MaxFails /\ fails' = fails + 1
       \/ c \in started \ stored /\ UNCHANGED fails
    /\ lost' = lost \union {c}
    /\ \/ /\ c \in started
          /\ pc' = [pc EXCEPT ![<<c, n>>] = "mark"]
          /\ Requeue(<<c, n>>)
          /\ UNCHANGED <<cur, failures>>
       \/ /\ c \notin started
          /\ failures' = failures \union {c}
          /\ Resume(c, n)
          /\ Release
    /\ UNCHANGED <<dpc, runtime, store, closed, turns, started, memory, scope>>

NotWritten(c, n) ==
    /\ pc[<<c, n>>] = "store"
    /\ \/ fails < MaxFails /\ fails' = fails + 1
       \/ c \in started \ stored /\ UNCHANGED fails
    /\ failures' = failures \union {c}
    /\ lost' = lost \union {c}
    /\ \/ /\ c \in started
          /\ pc' = [pc EXCEPT ![<<c, n>>] = "mark"]
          /\ Requeue(<<c, n>>)
          /\ UNCHANGED cur
       \/ /\ c \notin started
          /\ Resume(c, n)
          /\ Release
    /\ UNCHANGED <<dpc, runtime, store, closed, turns, started, memory, scope>>

Mark(c, n) ==
    /\ pc[<<c, n>>] = "mark" /\ Holds(<<c, n>>)
    /\ pc' = [pc EXCEPT ![<<c, n>>] = "marking"]
    /\ UNCHANGED <<dpc, lock, runtime, store, faults, socket, scope>>

Marked(c, n) ==
    /\ pc[<<c, n>>] = "marking"
    /\ \/ /\ incomplete' = incomplete \union ({c} \intersect stored)
          /\ UNCHANGED fails
       \/ /\ fails < MaxFails /\ fails' = fails + 1
          /\ UNCHANGED incomplete
    /\ Resume(c, n)
    /\ Release
    /\ UNCHANGED <<dpc, runtime, stored, erased, failures, lost, closed, turns, started,
                   memory, scope>>

(***************************************************************************)
(* Deletion                                                                *)
(***************************************************************************)
(* An id can be asked for once it was listed.                              *)
AskOne(d) ==
    /\ d \in Singles /\ dpc[d] = "new"
    /\ \E c \in started : scope' = [scope EXCEPT ![d] = {c}]
    /\ dpc' = [dpc EXCEPT ![d] = "lock"]
    /\ Acquire(Del(d))
    /\ UNCHANGED <<pc, runtime, store, faults, socket>>

AskAll(d) ==
    /\ d \in Wipes /\ dpc[d] = "new"
    /\ dpc' = [dpc EXCEPT ![d] = "lock"]
    /\ Acquire(Del(d))
    /\ UNCHANGED <<pc, runtime, store, faults, socket, scope>>

CollectOne(d) ==
    /\ d \in Singles /\ dpc[d] = "lock" /\ Holds(Del(d))
    /\ deleted' = deleted \union (scope[d] \intersect active)
    /\ dpc' = [dpc EXCEPT ![d] = IF scope[d] \subseteq active THEN "close" ELSE "erase"]
    /\ Release
    /\ UNCHANGED <<pc, active, blocked, store, faults, socket, scope>>

CollectAll(d) ==
    /\ d \in Wipes /\ dpc[d] = "lock" /\ Holds(Del(d))
    /\ blocked' = TRUE
    /\ scope' = [scope EXCEPT ![d] = active]
    /\ deleted' = deleted \union active
    /\ dpc' = [dpc EXCEPT ![d] = "close"]
    /\ Release
    /\ UNCHANGED <<pc, active, store, faults, socket>>

CloseSockets(d) ==
    /\ dpc[d] = "close"
    /\ closed' = closed \union scope[d]
    /\ dpc' = [dpc EXCEPT ![d] = "erase"]
    /\ UNCHANGED <<pc, lock, runtime, store, faults, turns, cur, started, memory, scope>>

(* One statement, without the lock.  A single deletion that finds no row   *)
(* answers 404 and goes no further.                                        *)
EraseOne(d) ==
    /\ d \in Singles /\ dpc[d] = "erase"
    /\ stored' = stored \ scope[d]
    /\ incomplete' = incomplete \ scope[d]
    /\ erased' = erased \union (scope[d] \intersect stored)
    /\ dpc' = [dpc EXCEPT ![d] = IF scope[d] \subseteq stored THEN "erased" ELSE "done"]
    /\ UNCHANGED <<pc, lock, runtime, faults, socket, scope>>

EraseAll(d) ==
    /\ d \in Wipes /\ dpc[d] = "erase"
    /\ stored' = {} /\ incomplete' = {}
    /\ scope' = [scope EXCEPT ![d] = @ \union stored]
    /\ erased' = erased \union scope[d] \union stored
    /\ dpc' = [dpc EXCEPT ![d] = "erased"]
    /\ UNCHANGED <<pc, lock, runtime, faults, socket>>

EraseFails(d) ==
    /\ dpc[d] = "erase" /\ fails < MaxFails
    /\ fails' = fails + 1
    /\ \/ /\ d \in Singles
          /\ dpc' = [dpc EXCEPT ![d] = "done"]
          /\ UNCHANGED lock
       \/ /\ d \in Wipes
          /\ dpc' = [dpc EXCEPT ![d] = "giveup"]
          /\ Acquire(Del(d))
    /\ UNCHANGED <<pc, runtime, store, failures, lost, socket, scope>>

Erased(d) ==
    /\ dpc[d] = "erased"
    /\ dpc' = [dpc EXCEPT ![d] = IF d \in Wipes THEN "unblock" ELSE "note"]
    /\ Acquire(Del(d))
    /\ UNCHANGED <<pc, runtime, store, faults, socket, scope>>

(* blocked_owners is a set: discard() does not look for other requests.    *)
Unblock(d) ==
    /\ Holds(Del(d))
    /\ blocked' = FALSE
    /\ \/ /\ dpc[d] = "unblock"
          /\ dpc' = [dpc EXCEPT ![d] = "note"]
          /\ Requeue(Del(d))
       \/ /\ dpc[d] = "giveup"
          /\ dpc' = [dpc EXCEPT ![d] = "done"]
          /\ Release
    /\ UNCHANGED <<pc, active, deleted, store, faults, socket, scope>>

Note(d) ==
    /\ dpc[d] = "note" /\ Holds(Del(d))
    /\ deleted' = deleted \union scope[d]
    /\ failures' = IF d \in Wipes THEN {} ELSE failures \ scope[d]
    /\ dpc' = [dpc EXCEPT ![d] = "memory"]
    /\ Release
    /\ UNCHANGED <<pc, active, blocked, store, fails, lost, socket, scope>>

Forget(d) ==
    /\ dpc[d] = "memory"
    /\ memory' = memory \ scope[d]
    /\ dpc' = [dpc EXCEPT ![d] = "done"]
    /\ UNCHANGED <<pc, lock, runtime, store, faults, closed, turns, cur, started, scope>>

-----------------------------------------------------------------------------
Socket(c) == Connect(c) \/ Register(c) \/ Leave(c) \/ TearDown(c) \/ Unregister(c)

Turn(c, n) == \/ Capture(c, n) \/ Written(c, n) \/ NotWritten(c, n)
              \/ Mark(c, n) \/ Marked(c, n) \/ Complete(c, n)

Deletion(d) == \/ CollectOne(d) \/ CollectAll(d) \/ CloseSockets(d)
               \/ EraseOne(d) \/ EraseAll(d) \/ EraseFails(d)
               \/ Erased(d) \/ Unblock(d) \/ Note(d) \/ Forget(d)

Environment == \/ \E c \in Conv : ClientLeaves(c) \/ UserTurn(c) \/ Interrupt(c)
               \/ \E c \in Conv, n \in 1 .. MaxTurns : Remember(c, n)
               \/ \E d \in Request : AskOne(d) \/ AskAll(d)

Next == \/ \E c \in Conv : Socket(c)
        \/ \E c \in Conv, n \in 0 .. MaxTurns : Turn(c, n)
        \/ \E d \in Request : Deletion(d)
        \/ Environment

Spec == Init /\ [][Next]_vars

FairSpec == /\ Spec
            /\ \A c \in Conv : WF_vars(Socket(c))
            /\ \A c \in Conv, n \in 0 .. MaxTurns : WF_vars(Turn(c, n))
            /\ \A d \in Request : WF_vars(Deletion(d))

-----------------------------------------------------------------------------
(* A capture and a deletion exclude each other for good: rows only go when *)
(* a deletion names them and nothing a deletion took is written again.     *)
Promise == INSTANCE HistoryPromise WITH rows <- stored
KeepsPromise == Promise!Spec

Settled(c) == \A d \in Request : c \in scope[d] => dpc[d] = "done"

(* A tombstone on a connected socket closes it, or else it would stay open *)
(* and drop every turn without an answer.                                  *)
TombstoneCloses ==
    \A c \in deleted \intersect active : Settled(c) => c \in closed

(* A turn that was lost shows: either on the row or in the process.        *)
LostTurnShows == lost \intersect stored \subseteq failures \union incomplete

(* A deleted conversation whose socket is gone left no agent memory.       *)
DeletedIsForgotten ==
    \A c \in erased \intersect deleted :
        pc[Handler(c)] = "done" /\ Settled(c) => c \notin memory

(* Blocking is temporary: somebody who will unblock is under way.          *)
BlockedIsTemporary ==
    blocked => \E d \in Wipes : dpc[d] \in {"close", "erase", "erased", "unblock", "giveup"}

(* Delete requests are answered.                                           *)
RequestsEnd == \A d \in Request : dpc[d] = "lock" ~> dpc[d] = "done"
=============================================================================
