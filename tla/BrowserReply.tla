---------------------------- MODULE BrowserReply ----------------------------
(***************************************************************************)
(* One browser conversation of the voice server: the WebSocket message     *)
(* loop (voice/server.py), the reply tasks it spawns, the executor threads *)
(* that synthesize speech for them, and the playback half of Session       *)
(* (voice/webrtc.py).                                                      *)
(*                                                                         *)
(* The loop handles one message at a time; a reply task runs from one      *)
(* await to the next.  A cancelled task gets its CancelledError at its     *)
(* next step, and asyncio's ready queue runs that step before any task     *)
(* created afterwards, so the code up to the first await of the unwinding  *)
(* belongs to the cancelling action.  A synthesis call already running in  *)
(* the executor cannot be cancelled.                                       *)
(*                                                                         *)
(* An operator with a suffix, as CancelStream_KeepsTask, is the operator   *)
(* named before the suffix with one mistake in it.  The specification does *)
(* not use it: put in that operator's place it shows that a property       *)
(* notices the mistake.                                                    *)
(***************************************************************************)
EXTENDS Naturals, Sequences, SequencesExt

CONSTANTS MaxReplies,   \* reply tasks one socket spawns
          MaxChunks,    \* chunks (or sentences) one reply speaks
          MaxBarges     \* barge-ins the listener starts

ASSUME BoundsAssumption ==
    /\ MaxReplies \in Nat \ {0}
    /\ MaxChunks \in Nat \ {0}
    /\ MaxBarges \in Nat

Reply   == 1 .. MaxReplies
NoReply == 0

VARIABLES
    conn,       \* the socket: "open", "closing" (the finally block), "closed"
    spawned,    \* how many reply tasks were created; the newest is Reply `spawned'
    cur,        \* Session._stream_task
    pc,         \* where each reply task awaits
    mode,       \* which coroutine of the reply is running
    left,       \* chunks the coroutine still has to speak
    job,        \* each task's executor call of enqueue_chunk
    cancelled,  \* tasks whose cancel() was called
    queue,      \* Session._audio_queue, one entry per chunk: the reply it belongs to
    gen,        \* the playback source has its generator attached
    paused,     \* Session._paused
    resume,     \* a _resume_after timer is pending
    onAir,      \* the reply whose audio was sent last, since the last clear
    gate,       \* last agent_audio_start / agent_audio_end sent: the mic is muted
    barge,      \* the listener's barge-in has no outcome yet
    barges,     \* barge-ins so far (bounded by MaxBarges)
    tool,       \* the reply that waits for a tool approval
    flow,       \* scheduler flow: "fresh" (enabled), "on", "off"
    turn,       \* _history_agent_{active,failed,parts}
    finals,     \* replies that received the terminal event of their stream
    saved       \* agent turns handed to the store: the replies whose text they hold

client == <<barge, barges, tool>>
audio  == <<queue, gen, paused, onAir>>
tasks  == <<cur, pc, mode, left, job, cancelled>>
record == <<turn, saved>>
vars   == <<conn, spawned, cur, pc, mode, left, job, cancelled, queue, gen, paused,
            resume, onAir, gate, barge, barges, tool, flow, turn, finals, saved>>

Pcs   == {"idle", "new", "ask", "stream", "speak", "synth", "drain", "tail",
          "plan", "recover", "unwind", "done"}
Modes == {"chat", "tool", "ask", "sse", "json", "greet", "plan", "apology"}
Over  == {"idle", "unwind", "done"}

Live(r) == pc[r] \notin Over

(* The await points inside `async with client.stream(...)', whose exit     *)
(* awaits before the handlers below it run.                                *)
InRequest(r) == mode[r] \in {"ask", "sse", "json"}

-----------------------------------------------------------------------------
(* The turn buffer of the history.                                         *)

TurnBuffer == [active : BOOLEAN, failed : BOOLEAN, parts : SUBSET Reply]
NoTurn    == [active |-> FALSE, failed |-> FALSE, parts |-> {}]
Begun     == [active |-> TRUE,  failed |-> FALSE, parts |-> {}]
Abandoned == [active |-> FALSE, failed |-> TRUE,  parts |-> {}]
Ensured   == IF turn.active THEN turn ELSE Begun
Appended(r) == [Ensured EXCEPT !.parts = @ \cup {r}]

(* _complete_agent_turn: nothing of a failed turn is saved; the buffer is  *)
(* emptied before the store is awaited.                                    *)
CompleteTurn(owners) ==
    /\ turn' = Abandoned
    /\ saved' = IF turn.failed THEN saved ELSE Append(saved, owners)

BeginStream_KeepsQueue   == UNCHANGED queue /\ paused' = FALSE /\ gen' = TRUE /\ onAir' = NoReply
StopPlayback_StaysPaused == queue' = <<>> /\ UNCHANGED paused /\ gen' = FALSE /\ onAir' = NoReply

(* Session.begin_stream, stop_speaking.                                    *)
BeginStream == queue' = <<>> /\ paused' = FALSE /\ gen' = TRUE /\ onAir' = NoReply
StopPlayback == queue' = <<>> /\ paused' = FALSE /\ gen' = FALSE /\ onAir' = NoReply

TypeOK ==
    /\ conn \in {"open", "closing", "closed"}
    /\ spawned \in 0 .. MaxReplies
    /\ cur \in Reply \cup {NoReply}
    /\ pc \in [Reply -> Pcs]
    /\ mode \in [Reply -> Modes]
    /\ left \in [Reply -> 0 .. MaxChunks]
    /\ job \in [Reply -> {"idle", "queued", "running"}]
    /\ cancelled \in SUBSET Reply
    /\ queue \in Seq(Reply)
    /\ onAir \in Reply \cup {NoReply}
    /\ gen \in BOOLEAN /\ paused \in BOOLEAN /\ resume \in BOOLEAN
    /\ gate \in BOOLEAN /\ barge \in BOOLEAN
    /\ barges \in 0 .. MaxBarges
    /\ tool \in Reply \cup {NoReply}
    /\ flow \in {"fresh", "on", "off"}
    /\ turn \in TurnBuffer
    /\ finals \in SUBSET Reply
    /\ saved \in Seq(SUBSET Reply)

Init ==
    /\ conn = "open" /\ spawned = 0 /\ cur = NoReply
    /\ pc = [r \in Reply |-> "idle"]
    /\ mode = [r \in Reply |-> "chat"]
    /\ left = [r \in Reply |-> 0]
    /\ job = [r \in Reply |-> "idle"]
    /\ cancelled = {} /\ queue = <<>> /\ onAir = NoReply
    /\ gen = FALSE /\ paused = FALSE /\ resume = FALSE /\ gate = FALSE
    /\ barge = FALSE /\ barges = 0 /\ tool = NoReply
    /\ flow \in {"fresh", "off"}
    /\ turn = NoTurn /\ finals = {} /\ saved = <<>>

-----------------------------------------------------------------------------
(* The message loop.                                                       *)

InFlight == cur # NoReply /\ pc[cur] # "done"

(* _spawn_agent: a request that arrives while a reply is in flight is      *)
(* dropped (a stutter here).                                               *)
SpawnAgent(m) ==
    /\ conn = "open" /\ ~InFlight /\ spawned < MaxReplies
    /\ spawned' = spawned + 1
    /\ cur' = spawned + 1
    /\ pc' = [pc EXCEPT ![spawned + 1] = "new"]
    /\ mode' = [mode EXCEPT ![spawned + 1] = m]
    /\ left' = [left EXCEPT ![spawned + 1] = MaxChunks]
    /\ UNCHANGED <<conn, job, cancelled, audio, resume, gate, barge, barges,
                   flow, record, finals>>

UserTurn     == SpawnAgent("chat") /\ UNCHANGED tool
ToolDecision == tool # NoReply /\ SpawnAgent("tool") /\ tool' = NoReply

(* Session.cancel_stream, and what the CancelledError does at once.        *)
AfterCancel(r) == IF InRequest(r) THEN "unwind" ELSE "done"
CancelTask ==
    IF InFlight
    THEN /\ pc' = [pc EXCEPT ![cur] = AfterCancel(cur)]
         /\ job' = [job EXCEPT ![cur] = IF @ = "queued" THEN "idle" ELSE @]
         /\ cancelled' = cancelled \cup {cur}
    ELSE UNCHANGED <<pc, job, cancelled>>
CancelStream == StopPlayback /\ CancelTask /\ cur' = NoReply

HardStop_KeepsMicMuted ==
    /\ conn = "open"
    /\ CancelStream
    /\ resume' = FALSE /\ turn' = Abandoned
    /\ UNCHANGED <<conn, spawned, mode, left, barges, gate, tool, flow, finals, saved>>

HardStop ==
    /\ conn = "open"
    /\ CancelStream
    /\ resume' = FALSE /\ gate' = FALSE /\ turn' = Abandoned
    /\ UNCHANGED <<conn, spawned, mode, left, barges, tool, flow, finals, saved>>

StopSpeaking  == HardStop /\ UNCHANGED barge
BargeInCommit == barge /\ HardStop /\ barge' = FALSE

BargeIn_KeepsTimer ==
    /\ conn = "open" /\ ~barge /\ barges < MaxBarges
    /\ barge' = TRUE /\ barges' = barges + 1
    /\ paused' = TRUE /\ gen' = FALSE
    /\ UNCHANGED <<conn, spawned, tasks, queue, onAir, resume, gate, tool, flow, record,
                   finals>>

BargeIn ==
    /\ conn = "open" /\ ~barge /\ barges < MaxBarges
    /\ barge' = TRUE /\ barges' = barges + 1
    /\ resume' = FALSE
    /\ paused' = TRUE /\ gen' = FALSE
    /\ UNCHANGED <<conn, spawned, tasks, queue, onAir, gate, tool, flow, record, finals>>

BargeInFalse_NoTimer ==
    /\ conn = "open" /\ barge
    /\ barge' = FALSE
    /\ UNCHANGED <<conn, spawned, tasks, audio, resume, gate, barges, tool, flow, record,
                   finals>>

BargeInFalse ==
    /\ conn = "open" /\ barge
    /\ barge' = FALSE
    /\ resume' = (resume \/ paused)
    /\ UNCHANGED <<conn, spawned, tasks, audio, gate, barges, tool, flow, record, finals>>

(* agent_audio_end resets the listener's detector, whatever it was doing.  *)
DetectorReset ==
    /\ barge /\ ~gate
    /\ barge' = FALSE
    /\ UNCHANGED <<conn, spawned, tasks, audio, resume, gate, barges, tool, flow, record, finals>>

ResumeAfter ==
    /\ resume
    /\ resume' = FALSE
    /\ IF paused /\ conn = "open"
       THEN paused' = FALSE /\ gen' = TRUE
       ELSE UNCHANGED <<paused, gen>>
    /\ UNCHANGED <<conn, spawned, tasks, queue, onAir, gate, client, flow, record, finals>>

(* The finally block: the task is cancelled and awaited, then the Session  *)
(* is closed.                                                              *)
Disconnect ==
    /\ conn = "open"
    /\ conn' = "closing"
    /\ CancelTask
    /\ turn' = Abandoned
    /\ UNCHANGED <<spawned, cur, mode, left, audio, resume, gate, client, flow, finals, saved>>

CloseSession ==
    /\ conn = "closing" /\ ~InFlight
    /\ conn' = "closed"
    /\ gen' = FALSE
    /\ UNCHANGED <<spawned, tasks, queue, paused, onAir, resume, gate, client, flow,
                   record, finals>>

-----------------------------------------------------------------------------
(* Playback and synthesis.                                                 *)

(* The pump (or the WebRTC source) takes the front of the queue.           *)
Play ==
    /\ gen /\ queue # <<>> /\ conn = "open"
    /\ onAir' = Head(queue)
    /\ queue' = Tail(queue)
    /\ UNCHANGED <<conn, spawned, tasks, gen, paused, resume, gate, client, flow,
                   record, finals>>

SynthesisStarts(r) ==
    /\ job[r] = "queued"
    /\ job' = [job EXCEPT ![r] = "running"]
    /\ UNCHANGED <<conn, spawned, cur, pc, mode, left, cancelled, audio, resume, gate,
                   client, flow, record, finals>>

(* enqueue_chunk returns in its thread, whether or not its caller waits.   *)
SynthesisReturns(r) ==
    /\ job[r] = "running"
    /\ job' = [job EXCEPT ![r] = "idle"]
    /\ queue' = Append(queue, r)
    /\ pc' = IF pc[r] # "synth" THEN pc
             ELSE [pc EXCEPT ![r] = IF mode[r] = "sse" THEN "stream" ELSE "speak"]
    /\ UNCHANGED <<conn, spawned, cur, mode, left, cancelled, gen, paused, onAir, resume,
                   gate, client, flow, record, finals>>

-----------------------------------------------------------------------------
(* The reply task.                                                         *)

Goto(r, p, m) == pc' = [pc EXCEPT ![r] = p] /\ mode' = [mode EXCEPT ![r] = m]

(* speak_text(n sentences) under an open audio gate.                       *)
BeginSpeech(r, m, n) ==
    /\ Goto(r, "speak", m)
    /\ left' = [left EXCEPT ![r] = n]
    /\ BeginStream
    /\ gate' = TRUE

(* First step of _handle_agent_request / _handle_tool_decision.            *)
StartChat(r) ==
    /\ pc[r] = "new" /\ mode[r] = "chat"
    /\ turn' = Begun
    /\ \/ /\ flow = "off"
          /\ Goto(r, "ask", "ask")
          /\ UNCHANGED <<flow, left, audio, gate>>
       \/ /\ flow = "fresh" /\ flow' = "off"      \* FlowSession.create() failed
          /\ Goto(r, "ask", "ask")
          /\ UNCHANGED <<left, audio, gate>>
       \/ /\ flow = "fresh" /\ flow' = "on"
          /\ BeginSpeech(r, "greet", 1)
       \/ /\ flow = "on"
          /\ Goto(r, "plan", "plan")
          /\ UNCHANGED <<flow, left, audio, gate>>
    /\ UNCHANGED <<conn, spawned, cur, job, cancelled, resume, client, finals, saved>>

StartTool(r) ==
    /\ pc[r] = "new" /\ mode[r] = "tool"
    /\ turn' = Ensured
    /\ Goto(r, "ask", "ask")
    /\ UNCHANGED <<conn, spawned, cur, left, job, cancelled, audio, resume, gate, client,
                   flow, finals, saved>>

(* Response headers: an event stream (_consume_sse) ...                    *)
OpenStream(r) ==
    /\ pc[r] = "ask"
    /\ Goto(r, "stream", "sse")
    /\ cur' = r                                   \* set_stream_task(current_task())
    /\ turn' = Ensured
    /\ BeginStream
    /\ gate' = TRUE
    /\ UNCHANGED <<conn, spawned, left, job, cancelled, resume, client, flow, finals, saved>>

(* ... or one JSON body (_process_api_response).                           *)
JsonFinal(r) ==
    /\ pc[r] = "ask"
    /\ finals' = finals \cup {r}
    /\ CompleteTurn(turn.parts \cup {r})
    /\ \/ \E n \in 1 .. MaxChunks : BeginSpeech(r, "json", n)
       \/ /\ Goto(r, "done", "json") /\ gate' = FALSE
          /\ UNCHANGED <<left, audio>>
    /\ UNCHANGED <<conn, spawned, cur, job, cancelled, resume, client, flow>>

JsonTool(r) ==
    /\ pc[r] = "ask"
    /\ Goto(r, "done", "json")
    /\ tool' = r
    /\ UNCHANGED <<conn, spawned, cur, left, job, cancelled, audio, resume, gate, barge,
                   barges, flow, record, finals>>

JsonError(r) ==
    /\ pc[r] = "ask"
    /\ turn' = Abandoned
    /\ BeginSpeech(r, "json", 1)
    /\ UNCHANGED <<conn, spawned, cur, job, cancelled, resume, client, flow, finals, saved>>

(* One delta of the stream that completes a chunk.                         *)
Delta(r) ==
    /\ pc[r] = "stream" /\ r \notin finals /\ left[r] > 0
    /\ turn' = Appended(r)
    /\ left' = [left EXCEPT ![r] = @ - 1]
    /\ pc' = [pc EXCEPT ![r] = "synth"]
    /\ job' = [job EXCEPT ![r] = "queued"]
    /\ UNCHANGED <<conn, spawned, cur, mode, cancelled, audio, resume, gate, client, flow,
                   finals, saved>>

Final(r) ==
    /\ pc[r] = "stream" /\ r \notin finals
    /\ finals' = finals \cup {r}
    /\ CompleteTurn(turn.parts \cup {r})
    /\ UNCHANGED <<conn, spawned, tasks, audio, resume, gate, client, flow>>

ToolPending_SavesPart(r) ==
    /\ pc[r] = "stream" /\ r \notin finals
    /\ tool' = r
    /\ gate' = FALSE
    /\ pc' = [pc EXCEPT ![r] = "done"]
    /\ saved' = Append(saved, turn.parts)
    /\ UNCHANGED <<conn, spawned, cur, mode, left, job, cancelled, audio, resume, barge,
                   barges, flow, turn, finals>>

ToolPending(r) ==
    /\ pc[r] = "stream" /\ r \notin finals
    /\ tool' = r
    /\ gate' = FALSE
    /\ pc' = [pc EXCEPT ![r] = "done"]
    /\ UNCHANGED <<conn, spawned, cur, mode, left, job, cancelled, audio, resume, barge,
                   barges, flow, record, finals>>

StreamEnds(r) ==
    /\ pc[r] = "stream"
    /\ pc' = [pc EXCEPT ![r] = "drain"]
    /\ \/ UNCHANGED turn
       \/ r \notin finals /\ turn' = Abandoned    \* an `error' event came last
    /\ UNCHANGED <<conn, spawned, cur, mode, left, job, cancelled, audio, resume, gate,
                   client, flow, finals, saved>>

(* The request, the stream or a synthesis call of it raises.               *)
RequestFails(r) ==
    /\ pc[r] \in {"ask", "stream", "plan"}
    /\ turn' = Abandoned
    /\ IF mode[r] = "sse" THEN StopPlayback ELSE UNCHANGED audio
    /\ gate' = FALSE
    /\ Goto(r, "recover", IF InRequest(r) THEN mode[r] ELSE "apology")
    /\ UNCHANGED <<conn, spawned, cur, left, job, cancelled, resume, client, flow, finals,
                   saved>>

SynthesisFails(r) ==
    /\ job[r] = "running"
    /\ job' = [job EXCEPT ![r] = "idle"]
    /\ IF pc[r] # "synth"
       THEN UNCHANGED <<pc, mode, turn, gate, audio>>
       ELSE /\ gate' = FALSE
            /\ Goto(r, IF mode[r] = "apology" THEN "done" ELSE "recover",
                    IF InRequest(r) THEN mode[r] ELSE "apology")
            /\ turn' = IF mode[r] = "apology" THEN turn ELSE Abandoned
            /\ IF mode[r] = "sse" THEN StopPlayback ELSE UNCHANGED audio
    /\ UNCHANGED <<conn, spawned, cur, left, cancelled, resume, client, flow, finals, saved>>

Apologise(r) ==
    /\ pc[r] = "recover"
    /\ turn' = Abandoned
    /\ BeginSpeech(r, "apology", 1)
    /\ UNCHANGED <<conn, spawned, cur, job, cancelled, resume, client, flow, finals, saved>>

(* speak_text: one sentence after the other, then end_stream.              *)
Speak(r) ==
    /\ pc[r] = "speak"
    /\ IF left[r] > 0
       THEN /\ pc' = [pc EXCEPT ![r] = "synth"]
            /\ job' = [job EXCEPT ![r] = "queued"]
            /\ left' = [left EXCEPT ![r] = @ - 1]
       ELSE pc' = [pc EXCEPT ![r] = "drain"] /\ UNCHANGED <<job, left>>
    /\ UNCHANGED <<conn, spawned, cur, mode, cancelled, audio, resume, gate, client, flow,
                   record, finals>>

Drained(r) ==
    /\ pc[r] = "drain"
    /\ \/ queue = <<>> /\ UNCHANGED audio
       \/ /\ queue # <<>> /\ ~paused              \* the drain deadline passed
          /\ queue' = <<>> /\ onAir' = NoReply /\ UNCHANGED <<gen, paused>>
    /\ pc' = [pc EXCEPT ![r] = "tail"]
    /\ UNCHANGED <<conn, spawned, cur, mode, left, job, cancelled, resume, gate, client,
                   flow, record, finals>>

EndStream(r) ==
    /\ pc[r] = "tail"
    /\ gen' = (gen /\ paused)
    /\ IF mode[r] = "greet"
       THEN Goto(r, "plan", "plan") /\ UNCHANGED <<gate, turn>>
       ELSE /\ Goto(r, "done", mode[r]) /\ gate' = FALSE
            /\ turn' = IF mode[r] = "sse" /\ r \notin finals THEN Abandoned ELSE turn
    /\ UNCHANGED <<conn, spawned, cur, left, job, cancelled, queue, paused, onAir, resume,
                   client, flow, finals, saved>>

(* The scheduler flow answered; a final answer ends the flow.              *)
FlowReply(r) ==
    /\ pc[r] = "plan"
    /\ flow' \in {"on", "off"}
    /\ finals' = finals \cup {r}
    /\ CompleteTurn({r})
    /\ \E n \in 1 .. MaxChunks : BeginSpeech(r, "plan", n)
    /\ UNCHANGED <<conn, spawned, cur, job, cancelled, resume, client>>

(* The rest of a cancelled task: __aexit__ awaited, then the abandon.      *)
Unwind(r) ==
    /\ pc[r] = "unwind"
    /\ pc' = [pc EXCEPT ![r] = "done"]
    /\ turn' = Abandoned
    /\ UNCHANGED <<conn, spawned, cur, mode, left, job, cancelled, audio, resume, gate,
                   client, flow, finals, saved>>

-----------------------------------------------------------------------------
Task(r) ==
    \/ StartChat(r) \/ StartTool(r) \/ OpenStream(r)
    \/ JsonFinal(r) \/ JsonTool(r) \/ JsonError(r)
    \/ Delta(r) \/ Final(r) \/ ToolPending(r) \/ StreamEnds(r)
    \/ RequestFails(r) \/ Apologise(r)
    \/ Speak(r) \/ Drained(r) \/ EndStream(r) \/ FlowReply(r) \/ Unwind(r)

Executor(r) == SynthesisStarts(r) \/ SynthesisReturns(r) \/ SynthesisFails(r)

Next ==
    \/ UserTurn \/ ToolDecision \/ StopSpeaking
    \/ BargeIn \/ BargeInCommit \/ BargeInFalse \/ DetectorReset \/ ResumeAfter
    \/ Disconnect \/ CloseSession \/ Play
    \/ \E r \in Reply : Task(r) \/ Executor(r)

Spec == Init /\ [][Next]_vars

(* The event loop and the executor run every ready step, the pump keeps    *)
(* its pace, and the listener's detector decides within confirmMs while    *)
(* the agent speaks.                                                       *)
Fairness ==
    /\ \A r \in Reply : WF_vars(Task(r)) /\ WF_vars(Executor(r))
    /\ WF_vars(Play) /\ WF_vars(ResumeAfter) /\ WF_vars(CloseSession)
    /\ WF_vars(gate /\ (BargeInCommit \/ BargeInFalse))
FairSpec == Spec /\ Fairness

-----------------------------------------------------------------------------
(* No two replies can race on the audio queue: a reply that has not ended  *)
(* and was not cancelled is the session's _stream_task, so the next        *)
(* barge-in or stop reaches it (the claim of _spawn_agent).                *)
OneLiveReply == \A r \in Reply : Live(r) => cur = r

(* The listener's mic is muted (audio_start without audio_end) only while  *)
(* a reply that can still end the audio is speaking: no path through a     *)
(* stop, an error, a tool pause or an empty answer leaves it muted.        *)
Speaking(r) == pc[r] \in {"stream", "speak", "synth", "drain", "tail", "plan"}
MicGate == gate /\ conn = "open" => cur # NoReply /\ Speaking(cur)

(* A paused session is silent, however the reply goes on underneath.       *)
PausedIsSilent == paused => ~gen

(* Fragments of a cancelled reply leave the history buffer with the        *)
(* cancellation and never come back into it.                               *)
BufferClean == turn.parts \cap cancelled = {}

(* The audio queue never holds the audio of two replies nobody cancelled.  *)
QueueSingleOwner ==
    \A i, j \in DOMAIN queue :
        queue[i] \notin cancelled /\ queue[j] \notin cancelled => queue[i] = queue[j]

(* A reply's text is saved in at most one agent turn.                      *)
SavedOnce == \A i, j \in DOMAIN saved : i # j => saved[i] \cap saved[j] = {}

(* An agent turn is saved only for a reply that reached its terminal       *)
(* event; the other fragments it holds were paused for a tool approval.    *)
SavedIsComplete == \A i \in DOMAIN saved : saved[i] \cap finals # {}

(* While the session stays paused its queued audio is kept for resume.     *)
PauseRetainsAudio ==
    [][paused /\ paused' => IsPrefix(queue, queue')]_vars

(* The timer of a false alarm does not fire into a later barge-in: while a *)
(* barge-in is undecided, what it has silenced may be thrown away by a     *)
(* stop or by a new reply, and is never taken up again.                    *)
ListenerHeard ==
    [][barge /\ barge' /\ paused /\ ~paused' => queue' = <<>> /\ onAir' = NoReply]_vars

(* What the invariants above rest on.  Only a spawned reply was cancelled, *)
(* and a cancelled reply has nothing left to do but unwind; a synthesis    *)
(* call belongs to a cancelled reply or to the current one, which waits    *)
(* for it; while the current reply speaks, whatever else is in the queue   *)
(* belongs to a cancelled reply.                                           *)
CancelledIsOver == \A r \in cancelled : r <= spawned /\ ~Live(r)
CurIsSpawned    == cur <= spawned
JobOwner ==
    \A r \in Reply : job[r] # "idle" => r \in cancelled \/ (cur = r /\ pc[r] = "synth")
QueueOwner ==
    cur # NoReply /\ pc[cur] \in {"stream", "speak", "synth"} =>
        \A i \in DOMAIN queue : queue[i] \in cancelled \cup {cur}

InductiveInv ==
    /\ TypeOK
    /\ OneLiveReply /\ MicGate /\ PausedIsSilent /\ BufferClean /\ QueueSingleOwner
    /\ CancelledIsOver /\ CurIsSpawned /\ JobOwner /\ QueueOwner

(* The mic is opened again after every reply, however it ends.             *)
MicRearms == (gate /\ conn = "open") ~> (~gate \/ conn # "open")
=============================================================================
