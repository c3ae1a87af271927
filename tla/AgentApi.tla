------------------------------ MODULE AgentApi ------------------------------
(***************************************************************************)
(* The agent's HTTP API (src/api/server.ts) with the memory of its         *)
(* sessions (src/agent/memory.ts) and the reasoning tasks it starts        *)
(* (src/agent/deep-reasoning.ts).                                          *)
(*                                                                         *)
(* A request awaits the retrieval, a reasoning task, the language model or *)
(* a tool, and meanwhile its session may be used by another request, be    *)
(* deleted, expire, or the process may restart.  An action is the code     *)
(* between two awaits; the file system is called synchronously.            *)
(*                                                                         *)
(* A message is reduced to what tells it apart: text, a call of tools, the *)
(* result of one tool, and the Memory object that wrote it.  A reply is    *)
(* streamed or not: the two loops differ in what they send, not in what    *)
(* they do.  Not modelled: the map of topics kept beside the transcript,   *)
(* and how questions, prompts and evidence are put together.               *)
(*                                                                         *)
(* An operator with a suffix, as Decide_TakenLate, is the operator named   *)
(* before the suffix with one mistake in it, see BrowserReply.             *)
(***************************************************************************)
EXTENDS Naturals, Sequences, FiniteSets

CONSTANTS Request,        \* request handlers, each used again and again
          Session,        \* session ids
          Ephemeral,      \* those of the browser's conversations
          NumTools,       \* tool calls in one answer of the model
          MaxMessages,    \* maxMessages of a Memory
          MaxIterations,  \* MAX_ITERATIONS
          PendingTtl,     \* PENDING_TTL_MS, in ticks
          SessionTtl,     \* EPHEMERAL_SESSION_TTL_MS, in ticks
          MaxMemories,    \* Memory objects created
          MaxCalls,       \* answers with tool calls
          Faults          \* what the file system may do at times

ASSUME AgentAssumption ==
    /\ Session # {} /\ Ephemeral \subseteq Session
    /\ NumTools \in Nat \ {0} /\ MaxMessages \in Nat \ {0} /\ MaxIterations \in Nat \ {0}
    /\ PendingTtl \in Nat /\ SessionTtl \in Nat
    /\ MaxMemories \in Nat \ {0} /\ MaxCalls \in Nat
    /\ Faults \subseteq {"save", "unlink", "tear"}

MemoryId == 1 .. MaxMemories
CallId   == 1 .. MaxCalls
None     == 0
Unused   == SessionTtl + 2          \* no entry in sessionLastUsed

VARIABLES
    current,     \* sessionMemories
    idle,        \* age of the entries of sessionLastUsed
    memories,    \* the Memory objects
    created,     \* how many there are
    disk,        \* memory files
    pending,     \* pendingRequests with the age in pendingTimestamps
    issued,      \* request ids given out for tool calls
    request,     \* the handlers
    task,        \* the reasoning task of each handler, as its service has it
    ran,         \* how often the tools of a call were executed
    rejected,    \* calls a request has rejected
    erased       \* Memory objects whose transcript has been deleted

store == <<current, idle, memories, created, disk, erased>>
calls == <<pending, issued, ran, rejected>>
vars  == <<current, idle, memories, created, disk, pending, issued, request, task, ran, rejected,
           erased>>

Message == [kind : {"text", "call", "tool"}, call : CallId \cup {None},
            tool : 0 .. NumTools, by : MemoryId]
Pc      == {"idle", "retrieve", "submit", "poll", "cancel", "model", "answer", "tool"}

TypeOK ==
    /\ current \in [Session -> MemoryId \cup {None}]
    /\ idle \in [Session -> 0 .. Unused]
    /\ created \in 0 .. MaxMemories
    /\ memories \in [MemoryId -> [session : Session, text : Seq(Message), deleted : BOOLEAN]]
    /\ disk \in [Session -> [there : BOOLEAN, text : Seq(Message), age : 0 .. SessionTtl + 1]]
    /\ issued \in 0 .. MaxCalls
    /\ DOMAIN pending \subseteq 1 .. issued
    /\ \A c \in DOMAIN pending :
          pending[c] \in [memory : MemoryId, iteration : Nat, age : 0 .. PendingTtl + 1]
    /\ request \in [Request -> [pc : Pc, memory : MemoryId \cup {None}, iteration : Nat,
                                call : CallId \cup {None}, tool : 0 .. NumTools]]
    /\ task \in [Request -> {"none", "running", "ended"}]
    /\ ran \in [CallId -> [1 .. NumTools -> Nat]]
    /\ rejected \subseteq 1 .. issued
    /\ erased \subseteq MemoryId

NoFile == [there |-> FALSE, text |-> <<>>, age |-> 0]
Fresh  == [session |-> CHOOSE s \in Session : TRUE, text |-> <<>>, deleted |-> FALSE]
Rest   == [pc |-> "idle", memory |-> None, iteration |-> 0, call |-> None, tool |-> 0]

Init ==
    /\ current = [s \in Session |-> None] /\ idle = [s \in Session |-> Unused]
    /\ memories = [m \in MemoryId |-> Fresh] /\ created = 0
    /\ disk = [s \in Session |-> NoFile]
    /\ pending = <<>> /\ issued = 0
    /\ request = [r \in Request |-> Rest]
    /\ task = [r \in Request |-> "none"]
    /\ ran = [c \in CallId |-> [k \in 1 .. NumTools |-> 0]]
    /\ rejected = {} /\ erased = {}

-----------------------------------------------------------------------------
(* Memory: load, addMessage with its trim and its save, delete.            *)

Text(m)          == [kind |-> "text", call |-> None, tool |-> 0, by |-> m]
Call(m, c)       == [kind |-> "call", call |-> c, tool |-> 0, by |-> m]
Result(m, c, k)  == [kind |-> "tool", call |-> c, tool |-> k, by |-> m]

Trim(text) == IF Len(text) <= MaxMessages THEN text
              ELSE SubSeq(text, Len(text) - MaxMessages + 1, Len(text))

(* After how many of n messages was the file last written?                 *)
Saves(n) == IF "save" \in Faults THEN 0 .. n ELSE {n}

Save(s, text) == [disk EXCEPT ![s] = [there |-> TRUE, text |-> text, age |-> 0]]

(* The messages ms are added to the object m one after the other; a        *)
(* deleted object stays as it is and writes nothing.                       *)
Add_Deleted(m, object, ms) ==
    /\ memories' = [memories EXCEPT ![m] = [object EXCEPT !.text = Trim(@ \o ms)]]
    /\ \E n \in Saves(Len(ms)) :
          disk' = IF n = 0 THEN disk
                  ELSE Save(object.session, Trim(object.text \o SubSeq(ms, 1, n)))

Add(m, object, ms) ==
    IF object.deleted
    THEN UNCHANGED <<memories, disk>>
    ELSE /\ memories' = [memories EXCEPT ![m] = [object EXCEPT !.text = Trim(@ \o ms)]]
         /\ \E n \in Saves(Len(ms)) :
               disk' = IF n = 0 THEN disk
                       ELSE Save(object.session, Trim(object.text \o SubSeq(ms, 1, n)))

(* getMemory: the object of the session, or a new one with the file's text. *)
MemoryOf(s) == IF current[s] # None THEN current[s] ELSE created + 1
ObjectOf(s) == IF current[s] # None THEN memories[current[s]]
               ELSE [session |-> s, text |-> disk[s].text, deleted |-> FALSE]

Of(s) == {m \in 1 .. created : memories[m].session = s}

(* The files of the sessions in S, but for those that fail, are unlinked   *)
(* from files; a failure is logged.                                        *)
Unlink(files, S, failed) ==
    /\ failed \subseteq {s \in S : files[s].there} /\ ("unlink" \in Faults \/ failed = {})
    /\ disk' = [s \in Session |-> IF s \in S \ failed THEN NoFile ELSE files[s]]
    /\ erased' = erased \cup UNION {Of(s) : s \in S \ failed}

Drop(m) == [memories[m] EXCEPT !.text = <<>>, !.deleted = TRUE]

(* The part of deleteSession that forgets the sessions in S; pending calls *)
(* of theirs go too, together with those in old.                           *)
Forget(S, old) ==
    /\ memories' = [m \in MemoryId |-> IF \E s \in S : current[s] = m THEN Drop(m) ELSE memories[m]]
    /\ current' = [s \in Session |-> IF s \in S THEN None ELSE current[s]]
    /\ idle' = [s \in Session |-> IF s \in S THEN Unused ELSE idle[s]]
    /\ pending' = [c \in {c \in DOMAIN pending \ old :
                            memories[pending[c].memory].session \notin S} |-> pending[c]]

Used(s) == idle' = IF s \in Ephemeral THEN [idle EXCEPT ![s] = 0] ELSE idle

-----------------------------------------------------------------------------
(* A chat, up to the answer or the tool calls it ends with.                *)

At(pc, m, i) == [pc |-> pc, memory |-> m, iteration |-> i, call |-> None, tool |-> 0]

(* The request adds ms, if anything, and is answered.                      *)
Ends(r, ms) ==
    LET m == request[r].memory
    IN  /\ Add(m, memories[m], ms)
        /\ request' = [request EXCEPT ![r] = Rest]

(* handleChat: the message is in the memory before the loop begins.  The   *)
(* first question of a turn may go to the reasoning service.               *)
Chat(r, s) ==
    LET m == MemoryOf(s)
    IN  /\ request[r].pc = "idle" /\ m \in MemoryId
        /\ current' = [current EXCEPT ![s] = m]
        /\ created' = IF m > created THEN m ELSE created
        /\ Used(s)
        /\ Add(m, ObjectOf(s), <<Text(m)>>)
        /\ \E next \in {"retrieve", "submit"} : request' = [request EXCEPT ![r] = At(next, m, 1)]
        /\ UNCHANGED <<calls, task, erased>>

(* A retrieval that fails is one without evidence.  In the first iteration *)
(* it may be a follow-up to an analysis: that is analysed again, or it is  *)
(* answered from its result, for which no tools are offered.               *)
Retrieved(r) ==
    /\ request[r].pc = "retrieve"
    /\ \E next \in {"model"} \cup IF request[r].iteration = 1 THEN {"submit", "answer"} ELSE {} :
          request' = [request EXCEPT ![r].pc = next]
    /\ UNCHANGED <<store, calls, task>>

(* A submission that fails, or whose answer is lost, leaves no task id.    *)
Submit(r) ==
    /\ request[r].pc = "submit"
    /\ \/ /\ request' = [request EXCEPT ![r].pc = "poll"]
          /\ task' = [task EXCEPT ![r] = "running"]
          /\ UNCHANGED <<memories, disk>>
       \/ Ends(r, <<Text(request[r].memory)>>) /\ UNCHANGED task
    /\ UNCHANGED <<current, idle, created, erased, calls>>

(* The service finishes a task (external).                                 *)
TaskEnds(r) ==
    /\ task[r] = "running"
    /\ task' = [task EXCEPT ![r] = "ended"]
    /\ UNCHANGED <<store, calls, request>>

(* A poll finds the task ended, with a result or without.                  *)
PollEnds(r) ==
    /\ request[r].pc = "poll" /\ task[r] = "ended"
    /\ task' = [task EXCEPT ![r] = "none"]
    /\ \/ request' = [request EXCEPT ![r].pc = "answer"] /\ UNCHANGED <<memories, disk>>
       \/ Ends(r, <<Text(request[r].memory)>>)
    /\ UNCHANGED <<current, idle, created, erased, calls>>

(* An error, the task's timeout, or the listener has gone: the finally of  *)
(* streamDeepReasoning cancels the task.                                   *)
PollGivesUp_Patient(r) ==
    /\ request[r].pc = "poll" /\ task[r] = "ended"
    /\ request' = [request EXCEPT ![r].pc = "cancel"]
    /\ UNCHANGED <<store, calls, task>>

PollGivesUp(r) ==
    /\ request[r].pc = "poll"
    /\ request' = [request EXCEPT ![r].pc = "cancel"]
    /\ UNCHANGED <<store, calls, task>>

CancelTask(r) ==
    /\ request[r].pc = "cancel"
    /\ task' = [task EXCEPT ![r] = "none"]
    /\ Ends(r, <<Text(request[r].memory)>>)
    /\ UNCHANGED <<current, idle, created, erased, calls>>

(* The language model answers, or fails and the request with it.           *)
ModelAnswers(r) ==
    /\ request[r].pc \in {"model", "answer"}
    /\ \/ Ends(r, <<Text(request[r].memory)>>)
       \/ Ends(r, <<>>)
    /\ UNCHANGED <<current, idle, created, erased, calls, task>>

(* It asks for tools: the request is answered and the call left pending,   *)
(* whatever has become of the session meanwhile.                           *)
ModelCalls(r) ==
    LET c == issued + 1
        m == request[r].memory
    IN  /\ request[r].pc = "model" /\ c \in CallId
        /\ issued' = c
        /\ pending' = [d \in DOMAIN pending \cup {c} |->
                         IF d = c THEN [memory |-> m, iteration |-> request[r].iteration, age |-> 0]
                         ELSE pending[d]]
        /\ Ends(r, <<Call(m, c)>>)
        /\ UNCHANGED <<current, idle, created, erased, ran, rejected, task>>

-----------------------------------------------------------------------------
(* Tool decisions.                                                         *)

(* The decision takes the entry out before it awaits anything.             *)
Take_Stays(c) == UNCHANGED pending

Take(c) == pending' = [d \in DOMAIN pending \ {c} |-> pending[d]]

(* The Memory object the results of the call go to.                        *)
Owner_Current(c) ==
    LET m == pending[c].memory
        s == memories[m].session
    IN  IF current[s] # None THEN current[s] ELSE m

Owner(c) == pending[c].memory

(* The loop goes on with one more iteration, if there is one left.         *)
Continue(r, m, iteration) ==
    request' = [request EXCEPT ![r] = IF iteration < MaxIterations
                                      THEN At("retrieve", m, iteration + 1) ELSE Rest]

(* handleApprove, up to its first tool; the id has to be its session's.    *)
Approve(r, c, s) ==
    /\ request[r].pc = "idle" /\ c \in DOMAIN pending
    /\ memories[pending[c].memory].session = s
    /\ Take(c) /\ Used(s)
    /\ request' = [request EXCEPT ![r] = [pc |-> "tool", memory |-> Owner(c),
                                          iteration |-> pending[c].iteration, call |-> c, tool |-> 1]]
    /\ UNCHANGED <<current, memories, created, disk, issued, ran, rejected, task, erased>>

(* A tool has run, and its result or error is in the memory.               *)
RunTool(r) ==
    LET m == request[r].memory
        c == request[r].call
        k == request[r].tool
    IN  /\ request[r].pc = "tool"
        /\ ran' = [ran EXCEPT ![c][k] = @ + 1]
        /\ Add(m, memories[m], <<Result(m, c, k)>>)
        /\ IF k < NumTools THEN request' = [request EXCEPT ![r].tool = k + 1]
           ELSE Continue(r, m, request[r].iteration)
        /\ UNCHANGED <<current, idle, created, pending, issued, rejected, task, erased>>

(* handleReject: the results say that nothing was run.                     *)
Reject(r, c, s) ==
    LET m == Owner(c)
    IN  /\ request[r].pc = "idle" /\ c \in DOMAIN pending
        /\ memories[pending[c].memory].session = s
        /\ Take(c) /\ Used(s)
        /\ Add(m, memories[m], [k \in 1 .. NumTools |-> Result(m, c, k)])
        /\ Continue(r, m, pending[c].iteration)
        /\ rejected' = rejected \cup {c}
        /\ UNCHANGED <<current, created, issued, ran, task, erased>>

-----------------------------------------------------------------------------
(* Deletion, expiry, restart.                                              *)

(* handleDeleteSession.                                                    *)
Delete(s, failed) ==
    /\ s \in Ephemeral
    /\ Forget({s}, {}) /\ Unlink(disk, {s}, failed)
    /\ UNCHANGED <<created, issued, ran, rejected, request, task>>

Old     == {c \in DOMAIN pending : pending[c].age > PendingTtl}
Expired == {s \in Ephemeral : idle[s] = SessionTtl + 1}

(* sweepEphemeralMemory: files of no active session that are old enough.   *)
Orphans_Active(files, active) ==
    {s \in Ephemeral : files[s].there /\ files[s].age >= SessionTtl}

Orphans(files, active) ==
    {s \in Ephemeral \ active : files[s].there /\ files[s].age >= SessionTtl}

Active == {s \in Session : current[s] # None}

(* cleanupStale, every minute, when it finds anything.                     *)
Cleanup_NoSweep(failed) ==
    /\ Old # {} \/ Expired # {}
    /\ Forget(Expired, Old)
    /\ Unlink(disk, Expired, failed)
    /\ UNCHANGED <<created, issued, ran, rejected, request, task>>

Cleanup(failed) ==
    LET orphans == Orphans(disk, Active \ Expired)
    IN  /\ Old # {} \/ Expired # {} \/ orphans # {}
        /\ Forget(Expired, Old)
        /\ Unlink(disk, Expired \cup orphans, failed)
        /\ UNCHANGED <<created, issued, ran, rejected, request, task>>

(* The process dies and starts again: what it held in memory is gone, a    *)
(* file it was writing may be torn and is then read as empty.              *)
Restart(torn, failed) ==
    LET files == [s \in Session |-> IF s \in torn THEN [disk[s] EXCEPT !.text = <<>>] ELSE disk[s]]
    IN  /\ torn \subseteq {memories[request[r].memory].session :
                              r \in {r \in Request : request[r].pc # "idle"}}
        /\ "tear" \in Faults \/ torn = {}
        /\ memories' = [m \in MemoryId |-> IF m <= created THEN Drop(m) ELSE memories[m]]
        /\ current' = [s \in Session |-> None] /\ idle' = [s \in Session |-> Unused]
        /\ pending' = <<>>
        /\ request' = [r \in Request |-> Rest] /\ task' = [r \in Request |-> "none"]
        /\ Unlink(files, Orphans(files, {}), failed)
        /\ UNCHANGED <<created, issued, ran, rejected>>

Older(age, limit) == IF age < limit THEN age + 1 ELSE age

Tick ==
    /\ idle' = [s \in Session |-> Older(idle[s], SessionTtl + 1)]
    /\ disk' = [s \in Session |-> IF disk[s].there
                                  THEN [disk[s] EXCEPT !.age = Older(@, SessionTtl + 1)] ELSE disk[s]]
    /\ pending' = [c \in DOMAIN pending |->
                     [pending[c] EXCEPT !.age = Older(@, PendingTtl + 1)]]
    /\ UNCHANGED <<current, memories, created, issued, request, task, ran, rejected,
                   erased>>

-----------------------------------------------------------------------------
Deep(r)    == Submit(r) \/ PollEnds(r) \/ PollGivesUp(r) \/ CancelTask(r)
Works(r)   == Retrieved(r) \/ Deep(r) \/ RunTool(r)
Speaks(r)  == ModelAnswers(r) \/ ModelCalls(r)
Accept(r)  == \E s \in Session :
                 Chat(r, s) \/ (\E c \in CallId : Approve(r, c, s) \/ Reject(r, c, s))

Housekeeping == \E failed \in SUBSET Session :
                   \/ Cleanup(failed)
                   \/ \E s \in Session : Delete(s, failed)
                   \/ \E torn \in SUBSET Session : Restart(torn, failed)

Next == \/ \E r \in Request : Accept(r) \/ Works(r) \/ Speaks(r) \/ TaskEnds(r)
        \/ Housekeeping \/ Tick

Spec == Init /\ [][Next]_vars

(* A handler's awaits end but for one: the calls of the retrieval and of   *)
(* the reasoning service have a timeout, a task is given up after its own, *)
(* a shell command is killed.  The model may never answer: nothing bounds  *)
(* the body of a streamed answer, nor the last attempt (ModelFallback).    *)
(* The clock goes on, the timer of the clean-up fires, and the file system *)
(* fails only at times.                                                    *)
FairSpec == /\ Spec
            /\ \A r \in Request : WF_vars(Works(r))
            /\ WF_vars(Tick) /\ WF_vars(Cleanup({}))

-----------------------------------------------------------------------------
(* No tool of a call is run twice, and none of a call that was rejected:   *)
(* decisions that arrive twice, together or after a clean-up find no entry *)
(* (the get and delete of handleApprove and handleReject before their      *)
(* first await).                                                           *)
ToolsRunOnce ==
    \A c \in CallId, k \in 1 .. NumTools :
       ran[c][k] <= 1 /\ (c \in rejected => ran[c][k] = 0)

(* What has been deleted stays deleted: no message written by a Memory     *)
(* whose file was unlinked is in a file or in a session's memory, though   *)
(* requests that hold that object are still under way and tools may still  *)
(* be approved for it ("preventing a close/delete race from recreating an  *)
(* anonymous transcript on disk", memory.ts).                              *)
Writers(text) == {text[i].by : i \in DOMAIN text}

ErasedStaysGone ==
    /\ \A s \in Session : Writers(disk[s].text) \cap erased = {}
    /\ \A m \in MemoryId : Writers(memories[m].text) \cap erased = {}

(* A result follows its call, or the result of the tool before it, in the  *)
(* transcript given to the model, and occurs once (unless the trim has cut *)
(* off the beginning): a provider refuses any other transcript.            *)
Follows(text, i) ==
    \E j \in 1 .. i - 1 : /\ text[j].call = text[i].call
                          /\ text[j].tool = text[i].tool - 1

ResultsFollowCalls ==
    \A m \in MemoryId :
        LET text == memories[m].text
        IN  Len(text) < MaxMessages =>
              \A i \in DOMAIN text : text[i].kind = "tool" =>
                  /\ Follows(text, i)
                  /\ \A j \in DOMAIN text :
                        (text[j].kind = "tool" /\ text[j].call = text[i].call
                         /\ text[j].tool = text[i].tool) => i = j

(* The file of a session this process serves is taken away only with the   *)
(* session itself, however old the file is (the active ids of              *)
(* sweepEphemeralMemory).                                                  *)
LiveFileStays ==
    [][\A s \in Session :
          (disk[s].there /\ current[s] # None /\ current'[s] = current[s])
              => disk'[s].there]_vars

(* A browser conversation nobody uses any more is gone from the disk at    *)
(* last, though its deletion failed, was never asked for, or the process   *)
(* restarted ("a failed close leaves the memory file until the idle        *)
(* sweep", 2026-07-18-conversation-isolation-privacy.md).                  *)
OrphansSwept ==
    \A s \in Ephemeral :
        []<>(~disk[s].there \/ disk[s].age = 0 \/ idle[s] = 0)

(* A request waits for nothing but the language model for ever: whatever   *)
(* becomes of a retrieval, of a reasoning task or of a tool, it comes to   *)
(* the model or is answered.                                               *)
RequestsGoOn ==
    \A r \in Request : []<>(request[r].pc \in {"idle", "model", "answer"})

=============================================================================
