------------------------ MODULE BrowserReply_proofs ------------------------
(* Invariants of BrowserReply, for every number of replies, chunks and     *)
(* barge-ins.                                                              *)
EXTENDS BrowserReply, TLAPS

(* The arithmetic of the bounds: a reply number below the bound has a      *)
(* successor, a chunk count above zero a predecessor.                      *)
LEMMA Bounds ==
    /\ \A n \in 0 .. MaxReplies : n < MaxReplies => n + 1 \in Reply
    /\ \A n \in 0 .. MaxReplies : n < MaxReplies => n + 1 \in 0 .. MaxReplies
    /\ \A n \in 0 .. MaxChunks : n > 0 => n - 1 \in 0 .. MaxChunks
    /\ \A n \in 1 .. MaxChunks : n \in 0 .. MaxChunks
    /\ \A n \in 0 .. MaxBarges : n < MaxBarges => n + 1 \in 0 .. MaxBarges
    /\ 1 \in 0 .. MaxChunks /\ MaxChunks \in 0 .. MaxChunks
    /\ \A n \in 0 .. MaxReplies : NoReply <= n /\ n # n + 1
    /\ \A r \in Reply, n \in 0 .. MaxReplies : r <= n => r <= n + 1 /\ r # n + 1
  BY BoundsAssumption DEF BoundsAssumption, Reply, NoReply

(* No reply is not a reply, and no audio is a queue.                       *)
LEMMA Nothing == NoReply \notin Reply /\ <<>> \in Seq(Reply)
  BY BoundsAssumption DEF BoundsAssumption, Reply, NoReply

(* Every value the history buffer gets is a buffer.                        *)
LEMMA BufferTypes ==
    /\ Abandoned \in TurnBuffer /\ Begun \in TurnBuffer
    /\ turn \in TurnBuffer => Ensured \in TurnBuffer
    /\ turn \in TurnBuffer => \A r \in Reply : Appended(r) \in TurnBuffer
    /\ turn \in TurnBuffer => \A r \in Reply : turn.parts \cup {r} \in SUBSET Reply
    /\ \A r \in Reply : {r} \in SUBSET Reply
  BY DEF Abandoned, Begun, Ensured, Appended, TurnBuffer

(* Completing a turn saves a set of replies and leaves a buffer.           *)
LEMMA CompleteTypes ==
  ASSUME NEW o \in SUBSET Reply, CompleteTurn(o), TypeOK
  PROVE  saved' \in Seq(SUBSET Reply) /\ turn' \in TurnBuffer
  BY BufferTypes DEF CompleteTurn, TypeOK

(* Starting to speak keeps the playback state in its types.                *)
LEMMA SpeechTypes ==
  ASSUME TypeOK, NEW r \in Reply, NEW m \in Modes, NEW n \in 0 .. MaxChunks,
         BeginSpeech(r, m, n)
  PROVE  /\ pc' \in [Reply -> Pcs] /\ mode' \in [Reply -> Modes]
         /\ left' \in [Reply -> 0 .. MaxChunks] /\ queue' \in Seq(Reply)
         /\ paused' \in BOOLEAN /\ gen' \in BOOLEAN /\ gate' \in BOOLEAN
         /\ onAir' \in Reply \cup {NoReply}
  BY Nothing DEF BeginSpeech, BeginStream, Goto, TypeOK, Pcs

(* Cancelling the task keeps the task state in its types.                  *)
LEMMA CancelTypes ==
  ASSUME TypeOK, CancelTask
  PROVE  /\ pc' \in [Reply -> Pcs] /\ cancelled' \in SUBSET Reply
         /\ job' \in [Reply -> {"idle", "queued", "running"}]
  BY DEF CancelTask, AfterCancel, InFlight, TypeOK, Pcs

(* So does a task that moves on, and so does stopping the playback.        *)
LEMMA GotoTypes ==
  ASSUME TypeOK, NEW r \in Reply, NEW p \in Pcs, NEW m \in Modes, Goto(r, p, m)
  PROVE  pc' \in [Reply -> Pcs] /\ mode' \in [Reply -> Modes]
  BY DEF Goto, TypeOK

LEMMA PlaybackTypes ==
  ASSUME TypeOK, StopPlayback \/ UNCHANGED audio
  PROVE  /\ queue' \in Seq(Reply) /\ onAir' \in Reply \cup {NoReply}
         /\ paused' \in BOOLEAN /\ gen' \in BOOLEAN
  <1>1. CASE StopPlayback
        BY <1>1, Nothing DEF StopPlayback, TypeOK
  <1>2. CASE UNCHANGED audio
        BY <1>2 DEF audio, TypeOK
  <1>. QED
        BY <1>1, <1>2

(* Every step keeps the variables in their types.                          *)
LEMMA TypeStep == TypeOK /\ [Next]_vars => TypeOK'
  <1> SUFFICES ASSUME TypeOK, [Next]_vars PROVE TypeOK'
      OBVIOUS
  <1> USE Nothing, BufferTypes DEF TypeOK, client, audio, tasks, record
  <1>1. CASE UserTurn
      BY <1>1, Bounds DEF UserTurn, SpawnAgent, Pcs, Modes
  <1>2. CASE ToolDecision
      BY <1>2, Bounds DEF ToolDecision, SpawnAgent, Pcs, Modes
  <1>3. CASE BargeIn
      BY <1>3, Bounds DEF BargeIn
  <1>4. CASE BargeInFalse
    <2>1. barge' \in BOOLEAN /\ resume' \in BOOLEAN
          BY <1>4 DEF BargeInFalse
    <2>. QED
          BY <1>4, <2>1 DEF BargeInFalse
  <1>5. CASE DetectorReset
    <2>1. barge' \in BOOLEAN
          BY <1>5 DEF DetectorReset
    <2>. QED
          BY <1>5, <2>1 DEF DetectorReset
  <1>6. CASE ResumeAfter
    <2>1. paused' \in BOOLEAN /\ gen' \in BOOLEAN /\ resume' \in BOOLEAN
          BY <1>6 DEF ResumeAfter
    <2>. QED
          BY <1>6, <2>1 DEF ResumeAfter
  <1>7. CASE CloseSession
      BY <1>7 DEF CloseSession
  <1>8. CASE Play
      BY <1>8 DEF Play
  <1>9. CASE StopSpeaking
      BY <1>9, CancelTypes DEF StopSpeaking, HardStop, CancelStream, StopPlayback
  <1>10. CASE BargeInCommit
      BY <1>10, CancelTypes DEF BargeInCommit, HardStop, CancelStream, StopPlayback
  <1>11. CASE Disconnect
      BY <1>11, CancelTypes DEF Disconnect
  <1>12. ASSUME NEW r \in Reply, StartTool(r) PROVE TypeOK'
      BY <1>12 DEF StartTool, Goto, Pcs, Modes
  <1>13. ASSUME NEW r \in Reply, OpenStream(r) PROVE TypeOK'
      BY <1>13 DEF OpenStream, BeginStream, Goto, Pcs, Modes
  <1>14. ASSUME NEW r \in Reply, JsonTool(r) PROVE TypeOK'
      BY <1>14 DEF JsonTool, Goto, Pcs, Modes
  <1>15. ASSUME NEW r \in Reply, Delta(r) PROVE TypeOK'
      BY <1>15, Bounds DEF Delta, Pcs
  <1>16. ASSUME NEW r \in Reply, ToolPending(r) PROVE TypeOK'
    <2>1. "done" \in Pcs
          BY DEF Pcs
    <2>2. pc' \in [Reply -> Pcs] /\ tool' \in Reply \cup {NoReply} /\ gate' \in BOOLEAN
          BY <1>16, <2>1 DEF ToolPending
    <2>. QED
          BY <1>16, <2>2 DEF ToolPending
  <1>17. ASSUME NEW r \in Reply, StreamEnds(r) PROVE TypeOK'
      BY <1>17 DEF StreamEnds, Pcs
  <1>18. ASSUME NEW r \in Reply, RequestFails(r) PROVE TypeOK'
    <2>1. "recover" \in Pcs /\ "apology" \in Modes /\ mode[r] \in Modes
          BY DEF Modes, Pcs
    <2>2. pc' \in [Reply -> Pcs] /\ mode' \in [Reply -> Modes]
          BY <1>18, <2>1, GotoTypes DEF RequestFails
    <2>3. StopPlayback \/ UNCHANGED audio
          BY <1>18 DEF RequestFails
    <2>. QED
          BY <1>18, <2>2, <2>3, PlaybackTypes DEF RequestFails
  <1>19. ASSUME NEW r \in Reply, Drained(r) PROVE TypeOK'
    <2>1. /\ queue' \in Seq(Reply) /\ onAir' \in Reply \cup {NoReply}
          /\ UNCHANGED <<gen, paused>>
          BY <1>19 DEF Drained
    <2>2. pc' \in [Reply -> Pcs]
          BY <1>19 DEF Drained, Pcs
    <2>. QED
          BY <1>19, <2>1, <2>2 DEF Drained
  <1>20. ASSUME NEW r \in Reply, EndStream(r) PROVE TypeOK'
    <2>1. {"plan", "done"} \subseteq Pcs /\ "plan" \in Modes /\ mode[r] \in Modes
          BY DEF Pcs, Modes
    <2>2. pc' \in [Reply -> Pcs] /\ mode' \in [Reply -> Modes]
          BY <1>20, <2>1, GotoTypes DEF EndStream
    <2>3. gen' \in BOOLEAN /\ gate' \in BOOLEAN /\ turn' \in TurnBuffer
          BY <1>20 DEF EndStream
    <2>. QED
          BY <1>20, <2>2, <2>3 DEF EndStream
  <1>21. ASSUME NEW r \in Reply, Unwind(r) PROVE TypeOK'
      BY <1>21 DEF Unwind, Pcs
  <1>22. ASSUME NEW r \in Reply, SynthesisStarts(r) PROVE TypeOK'
      BY <1>22 DEF SynthesisStarts
  <1>23. ASSUME NEW r \in Reply, SynthesisReturns(r) PROVE TypeOK'
      BY <1>23 DEF SynthesisReturns, Pcs
  <1>24. ASSUME NEW r \in Reply, Speak(r) PROVE TypeOK'
    <2>1. CASE left[r] > 0
      <3>0. left[r] - 1 \in 0 .. MaxChunks
            BY <2>1, Bounds
      <3>1. left' = [left EXCEPT ![r] = left[r] - 1]
            BY <1>24, <2>1 DEF Speak
      <3>3. left' \in [Reply -> 0 .. MaxChunks]
            BY <3>0, <3>1
      <3>2. pc' \in [Reply -> Pcs] /\ job' \in [Reply -> {"idle", "queued", "running"}]
            BY <1>24, <2>1 DEF Speak, Pcs
      <3>. QED
            BY <1>24, <3>2, <3>3 DEF Speak
    <2>2. CASE ~(left[r] > 0)
      <3>1. pc' \in [Reply -> Pcs]
            BY <1>24, <2>2 DEF Speak, Pcs
      <3>2. UNCHANGED <<job, left>>
            BY <1>24, <2>2 DEF Speak
      <3>. QED
            BY <1>24, <3>1, <3>2 DEF Speak
    <2>. QED
          BY <2>1, <2>2
  <1>25. ASSUME NEW r \in Reply, SynthesisFails(r) PROVE TypeOK'
    <2>1. CASE pc[r] # "synth"
          BY <1>25, <2>1 DEF SynthesisFails
    <2>2. CASE pc[r] = "synth"
      <3>1. /\ {"done", "recover"} \subseteq Pcs
            /\ "apology" \in Modes /\ mode[r] \in Modes
            BY DEF Modes, Pcs
      <3>2. pc' \in [Reply -> Pcs] /\ mode' \in [Reply -> Modes]
            BY <1>25, <2>2, <3>1, GotoTypes DEF SynthesisFails
      <3>3. StopPlayback \/ UNCHANGED audio
            BY <1>25, <2>2 DEF SynthesisFails
      <3>4. /\ job' \in [Reply -> {"idle", "queued", "running"}]
            /\ turn' \in TurnBuffer /\ gate' \in BOOLEAN
            BY <1>25, <2>2 DEF SynthesisFails
      <3>. QED
            BY <1>25, <2>2, <3>2, <3>3, <3>4, PlaybackTypes DEF SynthesisFails
    <2>. QED
          BY <2>1, <2>2
  <1>26. ASSUME NEW r \in Reply, Final(r) PROVE TypeOK'
    <2>1. saved' \in Seq(SUBSET Reply) /\ turn' \in TurnBuffer
          BY <1>26, CompleteTypes DEF Final
    <2>. QED
          BY <1>26, <2>1 DEF Final
  <1>27. ASSUME NEW r \in Reply, JsonError(r) PROVE TypeOK'
      BY <1>27, Bounds, SpeechTypes DEF JsonError, Modes
  <1>28. ASSUME NEW r \in Reply, Apologise(r) PROVE TypeOK'
      BY <1>28, Bounds, SpeechTypes DEF Apologise, Modes
  <1>29. ASSUME NEW r \in Reply, FlowReply(r) PROVE TypeOK'
    <2>1. PICK n \in 1 .. MaxChunks : BeginSpeech(r, "plan", n)
          BY <1>29 DEF FlowReply
    <2>2. saved' \in Seq(SUBSET Reply) /\ turn' \in TurnBuffer
          BY <1>29, CompleteTypes DEF FlowReply
    <2>3. "plan" \in Modes
          BY DEF Modes
    <2>. QED
          BY <1>29, <2>1, <2>2, <2>3, Bounds, SpeechTypes DEF FlowReply
  <1>30. ASSUME NEW r \in Reply, JsonFinal(r) PROVE TypeOK'
    <2>1. saved' \in Seq(SUBSET Reply) /\ turn' \in TurnBuffer
          BY <1>30, CompleteTypes DEF JsonFinal
    <2>2. "json" \in Modes /\ "done" \in Pcs
          BY DEF Modes, Pcs
    <2>3. CASE \E n \in 1 .. MaxChunks : BeginSpeech(r, "json", n)
      <3>1. PICK n \in 1 .. MaxChunks : BeginSpeech(r, "json", n)
            BY <2>3
      <3>2. n \in 0 .. MaxChunks
            BY Bounds
      <3>3. /\ pc' \in [Reply -> Pcs] /\ mode' \in [Reply -> Modes]
            /\ left' \in [Reply -> 0 .. MaxChunks] /\ queue' \in Seq(Reply)
            /\ paused' \in BOOLEAN /\ gen' \in BOOLEAN /\ gate' \in BOOLEAN
            /\ onAir' \in Reply \cup {NoReply}
            BY <2>2, <3>1, <3>2, SpeechTypes
      <3>. QED
            BY <1>30, <2>1, <3>3 DEF JsonFinal
    <2>4. CASE Goto(r, "done", "json") /\ gate' = FALSE /\ UNCHANGED <<left, audio>>
      <3>1. pc' \in [Reply -> Pcs] /\ mode' \in [Reply -> Modes]
            BY <2>2, <2>4, GotoTypes
      <3>2. UNCHANGED <<left, queue, gen, paused, onAir>> /\ gate' \in BOOLEAN
            BY <2>4
      <3>3. finals' \in SUBSET Reply
            BY <1>30 DEF JsonFinal
      <3>4. UNCHANGED <<conn, spawned, cur, job, cancelled, resume, client, flow>>
            BY <1>30 DEF JsonFinal
      <3>. QED
            BY <2>1, <3>1, <3>2, <3>3, <3>4
    <2>. QED
          BY <1>30, <2>3, <2>4 DEF JsonFinal
  <1>31. ASSUME NEW r \in Reply, StartChat(r) PROVE TypeOK'
    <2>1. "greet" \in Modes /\ "plan" \in Modes /\ "ask" \in Modes /\ "ask" \in Pcs /\ "plan" \in Pcs
          BY DEF Modes, Pcs
    <2>2. CASE flow' = "on" /\ BeginSpeech(r, "greet", 1)
          BY <1>31, <2>1, <2>2, Bounds, SpeechTypes DEF StartChat
    <2>3. CASE Goto(r, "ask", "ask") /\ flow' \in {flow, "off"} /\ UNCHANGED <<left, audio, gate>>
          BY <1>31, <2>1, <2>3 DEF StartChat, Goto
    <2>4. CASE Goto(r, "plan", "plan") /\ UNCHANGED <<flow, left, audio, gate>>
          BY <1>31, <2>1, <2>4 DEF StartChat, Goto
    <2>. QED
          BY <1>31, <2>2, <2>3, <2>4 DEF StartChat
  <1>32. CASE UNCHANGED vars
      BY <1>32 DEF vars
  <1>. QED
      BY <1>1, <1>2, <1>3, <1>4, <1>5, <1>6, <1>7, <1>8, <1>9, <1>10,
         <1>11, <1>12, <1>13, <1>14, <1>15, <1>16, <1>17, <1>18, <1>19, <1>20,
         <1>21, <1>22, <1>23, <1>24, <1>25, <1>26, <1>27, <1>28, <1>29, <1>30,
         <1>31, <1>32 DEF Next, Task, Executor

(* The initial states are typed.                                           *)
LEMMA InitTypes == Init => TypeOK
  <1> SUFFICES ASSUME Init PROVE TypeOK
      OBVIOUS
  <1>1. turn \in TurnBuffer
        BY DEF Init, NoTurn, TurnBuffer
  <1>2. /\ pc \in [Reply -> Pcs] /\ mode \in [Reply -> Modes]
        /\ job \in [Reply -> {"idle", "queued", "running"}]
        BY DEF Init, Pcs, Modes
  <1>3. /\ spawned \in 0 .. MaxReplies /\ barges \in 0 .. MaxBarges
        /\ left \in [Reply -> 0 .. MaxChunks]
        BY BoundsAssumption DEF Init, BoundsAssumption
  <1>4. queue \in Seq(Reply) /\ saved \in Seq(SUBSET Reply)
        BY DEF Init
  <1>. QED
        BY <1>1, <1>2, <1>3, <1>4 DEF Init, TypeOK

(* TypeOK holds in every reachable state.                                  *)
THEOREM TypeCorrect == Spec => []TypeOK
  <1>. QED
        BY InitTypes, TypeStep, PTL DEF Spec

(* An appended queue holds the new element and the old ones.               *)
LEMMA AppendElements ==
  ASSUME NEW q \in Seq(Reply), NEW r \in Reply
  PROVE  \A i \in DOMAIN Append(q, r) :
            \/ Append(q, r)[i] = r
            \/ i \in DOMAIN q /\ Append(q, r)[i] = q[i]
  OBVIOUS

(* What one step does to the inductive invariant.                          *)
LEMMA InductiveStep == InductiveInv /\ [Next]_vars => InductiveInv'
  <1> SUFFICES ASSUME InductiveInv, [Next]_vars PROVE InductiveInv'
      OBVIOUS
  <1> USE DEF client, audio, tasks, record, Live, Over, InFlight, Speaking
  <1> DEFINE Parts == /\ OneLiveReply /\ MicGate /\ PausedIsSilent /\ BufferClean
                      /\ QueueSingleOwner /\ CancelledIsOver /\ CurIsSpawned
                      /\ JobOwner /\ QueueOwner
  <1> USE DEF OneLiveReply, MicGate, PausedIsSilent, BufferClean, QueueSingleOwner,
              CancelledIsOver, CurIsSpawned, JobOwner, QueueOwner
  <1>a. Parts
      BY DEF InductiveInv
  <1>b. /\ pc \in [Reply -> Pcs] /\ job \in [Reply -> {"idle", "queued", "running"}]
        /\ cur \in Reply \cup {NoReply} /\ NoReply \notin Reply
        /\ cancelled \subseteq Reply
      BY Nothing DEF InductiveInv, TypeOK
  <1>c. /\ spawned \in 0 .. MaxReplies
        /\ queue \in Seq(Reply)
        /\ turn \in TurnBuffer
      BY DEF InductiveInv, TypeOK
  <1> USE <1>a, <1>b
  <1>s. ASSUME NEW m \in Modes, SpawnAgent(m) PROVE Parts'
    <2>1. /\ spawned' = spawned + 1 /\ cur' = spawned + 1 /\ spawned + 1 \in Reply
          /\ pc'[spawned + 1] = "new"
          /\ \A q \in Reply \ {spawned + 1} : pc'[q] = pc[q]
          BY <1>s, <1>c, Bounds DEF SpawnAgent
    <2>2. /\ ~InFlight
          /\ UNCHANGED <<conn, job, cancelled, queue, gen, paused, gate, turn>>
          BY <1>s DEF SpawnAgent
    <2>3. \A r \in Reply : r <= spawned => r # spawned + 1 /\ r <= spawned + 1
          BY <1>c, Bounds
    <2>a. /\ \A q \in Reply : ~Live(q) /\ (job[q] # "idle" => q \in cancelled)
          /\ ~(gate /\ conn = "open")
          BY <2>2
    <2>4. OneLiveReply' /\ CancelledIsOver'
      <3>1. OneLiveReply'
            BY <2>1, <2>a
      <3>2. \A q \in cancelled : q \in Reply \ {spawned + 1} /\ q <= spawned + 1
            BY <2>3
      <3>3. CancelledIsOver'
            BY <2>1, <2>2, <2>a, <3>2
      <3>. QED
            BY <3>1, <3>3
    <2>5. CurIsSpawned' /\ QueueOwner' /\ QueueSingleOwner'
          BY <2>1, <2>2
    <2>6. JobOwner' /\ MicGate' /\ PausedIsSilent' /\ BufferClean'
          BY <2>2, <2>a
    <2>. QED
          BY <2>4, <2>5, <2>6
  <1>1. ASSUME UserTurn PROVE Parts'
      BY <1>s, <1>1 DEF UserTurn, Modes
  <1>2. ASSUME ToolDecision PROVE Parts'
      BY <1>s, <1>2 DEF ToolDecision, Modes
  <1>3. ASSUME BargeIn PROVE Parts'
      BY <1>3 DEF BargeIn
  <1>4. ASSUME BargeInFalse PROVE Parts'
      BY <1>4 DEF BargeInFalse
  <1>5. ASSUME DetectorReset PROVE Parts'
      BY <1>5 DEF DetectorReset
  <1>6. ASSUME ResumeAfter PROVE Parts'
      BY <1>6 DEF ResumeAfter
  <1>7. ASSUME Disconnect PROVE Parts'
      BY <1>7 DEF Disconnect, CancelTask, AfterCancel, Abandoned
  <1>8. ASSUME CloseSession PROVE Parts'
      BY <1>8 DEF CloseSession
  <1>9. ASSUME Play PROVE Parts'
    <2>1. \A i \in DOMAIN queue' : i + 1 \in DOMAIN queue /\ queue'[i] = queue[i + 1]
          BY <1>9, <1>c DEF Play
    <2>2. UNCHANGED <<conn, spawned, cur, pc, job, cancelled, gen, paused, gate, turn>>
          BY <1>9 DEF Play
    <2>3. QueueOwner'
          BY <2>1, <2>2
    <2>4. QueueSingleOwner'
          BY <2>1, <2>2
    <2>. QED
          BY <2>2, <2>3, <2>4
  <1>10. ASSUME HardStop PROVE Parts'
    <2>1. queue' = <<>> /\ paused' = FALSE /\ gate' = FALSE /\ cur' = NoReply
          BY <1>10 DEF HardStop, CancelStream, StopPlayback
    <2>2. turn'.parts = {} /\ spawned' = spawned /\ CancelTask
          BY <1>10 DEF HardStop, CancelStream, Abandoned
    <2>3. CASE InFlight
      <3>1. /\ cur \in Reply /\ cancelled' = cancelled \cup {cur}
            /\ pc'[cur] \in {"unwind", "done"}
            /\ \A q \in Reply \ {cur} : pc'[q] = pc[q]
        <4>1. /\ cur \in Reply /\ cancelled' = cancelled \cup {cur}
              /\ pc' = [pc EXCEPT ![cur] = AfterCancel(cur)]
              BY <2>2, <2>3 DEF CancelTask
        <4>2. AfterCancel(cur) \in {"unwind", "done"}
              BY DEF AfterCancel
        <4>. QED
              BY <4>1, <4>2
      <3>6. \A q \in Reply : job'[q] # "idle" => job[q] # "idle"
            BY <2>2, <2>3 DEF CancelTask
      <3>2. OneLiveReply' /\ CancelledIsOver' /\ CurIsSpawned'
        <4>1. \A q \in Reply : ~Live(q)'
              BY <2>1, <2>2, <3>1
        <4>2. \A q \in cancelled' : q <= spawned'
              BY <2>2, <3>1
        <4>3. CurIsSpawned'
              BY <1>c, <2>1, <2>2, Bounds
        <4>. QED
              BY <3>1, <4>1, <4>2, <4>3
      <3>3. JobOwner'
            BY <2>1, <2>2, <3>1, <3>6
      <3>4. QueueOwner' /\ QueueSingleOwner'
            BY <2>1, <2>2, <3>1, <3>6
      <3>5. MicGate' /\ PausedIsSilent' /\ BufferClean'
            BY <2>1, <2>2, <3>1, <3>6
      <3>. QED
            BY <3>2, <3>3, <3>4, <3>5
    <2>4. CASE ~InFlight
      <3>1. UNCHANGED <<pc, job, cancelled>>
            BY <2>2, <2>4 DEF CancelTask
      <3>2. OneLiveReply' /\ CancelledIsOver' /\ CurIsSpawned'
            BY <1>c, <2>1, <2>2, <2>4, <3>1, Bounds
      <3>3. JobOwner'
            BY <2>1, <2>2, <2>4, <3>1
      <3>4. QueueOwner' /\ QueueSingleOwner'
            BY <2>1, <2>2, <2>4, <3>1
      <3>5. MicGate' /\ PausedIsSilent' /\ BufferClean'
            BY <2>1, <2>2, <2>4, <3>1
      <3>. QED
            BY <3>2, <3>3, <3>4, <3>5
    <2>. QED
          BY <2>3, <2>4
  <1>11. ASSUME NEW r \in Reply, StartTool(r) PROVE Parts'
      BY <1>11 DEF StartTool, Goto, Ensured, Begun
  <1>12. ASSUME NEW r \in Reply, OpenStream(r) PROVE Parts'
    <2>1. turn'.parts \cap cancelled = {}
          BY <1>12 DEF OpenStream, Ensured, Begun
    <2>2. queue' = <<>> /\ paused' = FALSE
          BY <1>12 DEF OpenStream, BeginStream
    <2>3. cur = r /\ cur' = r /\ r \notin cancelled
          BY <1>12 DEF OpenStream
    <2>. QED
          BY <1>12, <2>1, <2>2, <2>3 DEF OpenStream, Goto
  <1>13. ASSUME NEW r \in Reply, JsonTool(r) PROVE Parts'
      BY <1>13 DEF JsonTool, Goto
  <1>14. ASSUME NEW r \in Reply, Delta(r) PROVE Parts'
    <2>1. /\ pc[r] = "stream" /\ pc'[r] = "synth"
          /\ \A q \in Reply \ {r} : pc'[q] = pc[q] /\ job'[q] = job[q]
          /\ UNCHANGED <<conn, spawned, cur, cancelled, queue, gen, paused, gate>>
          BY <1>14 DEF Delta
    <2>2. turn'.parts \subseteq turn.parts \cup {r}
          BY <1>14 DEF Delta, Appended, Ensured, Begun
    <2>3. OneLiveReply' /\ CancelledIsOver' /\ CurIsSpawned' /\ JobOwner'
          BY <2>1
    <2>4. QueueOwner' /\ QueueSingleOwner' /\ MicGate' /\ PausedIsSilent'
          BY <2>1
    <2>5. r \notin cancelled
          BY <2>1
    <2>6. BufferClean'
          BY <2>1, <2>2, <2>5
    <2>. QED
          BY <2>3, <2>4, <2>6
  <1>15. ASSUME NEW r \in Reply, ToolPending(r) PROVE Parts'
      BY <1>15 DEF ToolPending
  <1>16. ASSUME NEW r \in Reply, StreamEnds(r) PROVE Parts'
      BY <1>16 DEF StreamEnds, Abandoned
  <1>17. ASSUME NEW r \in Reply, RequestFails(r) PROVE Parts'
      BY <1>17 DEF RequestFails, StopPlayback, Goto, Abandoned
  <1>18. ASSUME NEW r \in Reply, Drained(r) PROVE Parts'
      BY <1>18 DEF Drained
  <1>19. ASSUME NEW r \in Reply, EndStream(r) PROVE Parts'
    <2>1. /\ \A q \in Reply \ {r} : pc'[q] = pc[q]
          /\ \/ pc'[r] = "done" /\ gate' = FALSE
             \/ pc'[r] = "plan" /\ gate' = gate
          BY <1>19 DEF EndStream, Goto
    <2>2. /\ pc[r] = "tail" /\ gen' = (gen /\ paused)
          /\ UNCHANGED <<conn, spawned, cur, job, cancelled, queue, paused>>
          BY <1>19 DEF EndStream
    <2>3. turn'.parts \cap cancelled = {}
          BY <1>19 DEF EndStream, Abandoned
    <2>4. OneLiveReply' /\ CancelledIsOver' /\ CurIsSpawned'
          BY <2>1, <2>2, <2>3
    <2>5. JobOwner'
          BY <2>1, <2>2, <2>3
    <2>6. QueueOwner' /\ QueueSingleOwner'
          BY <2>1, <2>2, <2>3
    <2>7. MicGate' /\ PausedIsSilent' /\ BufferClean'
          BY <2>1, <2>2, <2>3
    <2>. QED
          BY <2>4, <2>5, <2>6, <2>7
  <1>20. ASSUME NEW r \in Reply, Unwind(r) PROVE Parts'
      BY <1>20 DEF Unwind, Abandoned
  <1>21. ASSUME NEW r \in Reply, Speak(r) PROVE Parts'
    <2>1. /\ \A q \in Reply \ {r} : pc'[q] = pc[q]
          /\ pc[r] = "speak"
          /\ \/ pc'[r] = "synth" /\ (\A q \in Reply \ {r} : job'[q] = job[q])
             \/ pc'[r] = "drain" /\ job' = job
          BY <1>21 DEF Speak
    <2>2. UNCHANGED <<conn, spawned, cur, cancelled, queue, gen, paused, gate, turn>>
          BY <1>21 DEF Speak
    <2>3. OneLiveReply' /\ CancelledIsOver' /\ CurIsSpawned'
          BY <2>1, <2>2
    <2>4. JobOwner'
          BY <2>1, <2>2
    <2>5. QueueOwner' /\ QueueSingleOwner'
          BY <2>1, <2>2
    <2>6. MicGate' /\ PausedIsSilent' /\ BufferClean'
          BY <2>1, <2>2
    <2>. QED
          BY <2>3, <2>4, <2>5, <2>6
  <1>22. ASSUME NEW r \in Reply, Final(r) PROVE Parts'
      BY <1>22 DEF Final, CompleteTurn, Abandoned
  <1>23. ASSUME NEW r \in Reply, JsonFinal(r) PROVE Parts'
    <2>1. turn'.parts = {} /\ UNCHANGED <<conn, spawned, cur, job, cancelled>>
          BY <1>23 DEF JsonFinal, CompleteTurn, Abandoned
    <2>2. CASE \E n \in 1 .. MaxChunks : BeginSpeech(r, "json", n)
          BY <1>23, <2>1, <2>2 DEF JsonFinal, BeginSpeech, BeginStream, Goto
    <2>3. CASE Goto(r, "done", "json") /\ gate' = FALSE /\ UNCHANGED <<left, audio>>
          BY <1>23, <2>1, <2>3 DEF JsonFinal, Goto
    <2>. QED
          BY <1>23, <2>2, <2>3 DEF JsonFinal
  <1>24. ASSUME NEW r \in Reply, JsonError(r) PROVE Parts'
      BY <1>24 DEF JsonError, Abandoned, BeginSpeech, BeginStream, Goto
  <1>25. ASSUME NEW r \in Reply, Apologise(r) PROVE Parts'
      BY <1>25 DEF Apologise, Abandoned, BeginSpeech, BeginStream, Goto
  <1>26. ASSUME NEW r \in Reply, FlowReply(r) PROVE Parts'
      BY <1>26 DEF FlowReply, CompleteTurn, Abandoned, BeginSpeech, BeginStream, Goto
  <1>27. ASSUME NEW r \in Reply, StartChat(r) PROVE Parts'
    <2>1. /\ pc[r] = "new" /\ cur = r /\ turn'.parts = {}
          /\ UNCHANGED <<conn, spawned, cur, job, cancelled>>
          BY <1>27 DEF StartChat, Begun
    <2>2. CASE BeginSpeech(r, "greet", 1)
          BY <2>1, <2>2 DEF BeginSpeech, BeginStream, Goto
    <2>3. CASE Goto(r, "ask", "ask") /\ UNCHANGED <<audio, gate>>
          BY <2>1, <2>3 DEF Goto
    <2>4. CASE Goto(r, "plan", "plan") /\ UNCHANGED <<audio, gate>>
          BY <2>1, <2>4 DEF Goto
    <2>. QED
          BY <1>27, <2>2, <2>3, <2>4 DEF StartChat
  <1>28. ASSUME NEW r \in Reply, SynthesisStarts(r) PROVE Parts'
      BY <1>28 DEF SynthesisStarts
  <1>29. ASSUME NEW r \in Reply, SynthesisFails(r) PROVE Parts'
    <2>1. job' = [job EXCEPT ![r] = "idle"] /\ UNCHANGED <<conn, spawned, cur, cancelled>>
          BY <1>29 DEF SynthesisFails
    <2>2. CASE pc[r] # "synth"
          BY <1>29, <2>1, <2>2 DEF SynthesisFails
    <2>3. CASE pc[r] = "synth"
      <3>1. /\ \A q \in Reply \ {r} : pc'[q] = pc[q]
            /\ pc'[r] \in {"done", "recover"} /\ gate' = FALSE
            BY <1>29, <2>3 DEF SynthesisFails, Goto
      <3>2. turn'.parts \cap cancelled = {}
            BY <1>29, <2>3 DEF SynthesisFails, Abandoned
      <3>3. \/ UNCHANGED <<queue, gen, paused>>
            \/ queue' = <<>> /\ paused' = FALSE
            BY <1>29, <2>3 DEF SynthesisFails, StopPlayback
      <3>4. OneLiveReply' /\ CancelledIsOver' /\ CurIsSpawned'
            BY <2>1, <2>3, <3>1, <3>2, <3>3
      <3>5. JobOwner'
            BY <2>1, <2>3, <3>1, <3>2, <3>3
      <3>6. QueueOwner' /\ QueueSingleOwner'
        <4>1. CASE UNCHANGED <<queue, gen, paused>>
          <5>1. QueueSingleOwner'
                BY <2>1, <4>1
          <5>2. QueueOwner'
            <6>1. CASE cur = r
                  BY <2>1, <3>1, <6>1
            <6>2. CASE cur # r
                  BY <2>1, <3>1, <4>1, <6>2
            <6>. QED
                  BY <6>1, <6>2
          <5>. QED
                BY <5>1, <5>2
        <4>2. CASE queue' = <<>>
              BY <4>2
        <4>. QED
              BY <3>3, <4>1, <4>2
      <3>7. MicGate' /\ PausedIsSilent' /\ BufferClean'
            BY <2>1, <2>3, <3>1, <3>2, <3>3
      <3>. QED
            BY <3>4, <3>5, <3>6, <3>7
    <2>. QED
          BY <2>2, <2>3
  <1>30. ASSUME NEW r \in Reply, SynthesisReturns(r) PROVE Parts'
    <2>1. /\ queue' = Append(queue, r)
          /\ \A q \in Reply \ {r} : pc'[q] = pc[q] /\ job'[q] = job[q]
          /\ job'[r] = "idle" /\ job[r] # "idle"
          /\ UNCHANGED <<conn, spawned, cur, cancelled, gen, paused, gate, turn>>
          BY <1>30 DEF SynthesisReturns
    <2>2. pc'[r] = pc[r] \/ (pc[r] = "synth" /\ pc'[r] \in {"stream", "speak"})
          BY <1>30 DEF SynthesisReturns
    <2>3. \A i \in DOMAIN queue' : queue'[i] = r \/ (i \in DOMAIN queue /\ queue'[i] = queue[i])
      <3>1. \A i \in DOMAIN Append(queue, r) :
               \/ Append(queue, r)[i] = r
               \/ i \in DOMAIN queue /\ Append(queue, r)[i] = queue[i]
        <4>1. queue \in Seq(Reply)
              BY <1>c
        <4>. QED
              BY ONLY <4>1, r \in Reply, AppendElements
      <3>. QED
            BY <2>1, <3>1
    <2>4. OneLiveReply' /\ CancelledIsOver' /\ CurIsSpawned' /\ JobOwner'
          BY <2>1, <2>2
    <2>5. MicGate' /\ PausedIsSilent' /\ BufferClean'
          BY <2>1, <2>2
    <2>6. CASE r \in cancelled
      <3>1. \A i \in DOMAIN queue' : queue'[i] \notin cancelled =>
                i \in DOMAIN queue /\ queue'[i] = queue[i]
            BY <2>3, <2>6
      <3>2. QueueSingleOwner'
            BY <2>1, <3>1
      <3>3. \A q \in Reply : pc'[q] = pc[q]
            BY <2>1, <2>2, <2>6
      <3>4. QueueOwner'
        <4>1. SUFFICES ASSUME cur # NoReply, pc[cur] \in {"stream", "speak", "synth"},
                              NEW i \in DOMAIN queue'
                       PROVE  queue'[i] \in cancelled \cup {cur}
              BY <2>1, <3>3
        <4>2. CASE i \in DOMAIN queue /\ queue'[i] = queue[i]
              BY <4>1, <4>2
        <4>. QED
              BY <2>3, <2>6, <4>2
      <3>. QED
            BY <2>4, <2>5, <3>2, <3>4
    <2>7. CASE r \notin cancelled
      <3>1. cur = r /\ pc[r] = "synth"
            BY <2>1, <2>7
      <3>2. \A i \in DOMAIN queue : queue[i] \in cancelled \cup {r}
            BY <3>1
      <3>3. \A i \in DOMAIN queue' : queue'[i] \in cancelled \cup {r}
            BY <2>3, <3>2
      <3>4. QueueOwner' /\ QueueSingleOwner'
            BY <2>1, <3>1, <3>3
      <3>. QED
            BY <2>4, <2>5, <3>4
    <2>. QED
          BY <2>6, <2>7
  <1>31. ASSUME UNCHANGED vars PROVE Parts'
      BY <1>31 DEF vars
  <1> HIDE DEF Parts
  <1>32. Parts'
      BY <1>1, <1>2, <1>3, <1>4, <1>5, <1>6, <1>7, <1>8, <1>9, <1>10,
         <1>11, <1>12, <1>13, <1>14, <1>15, <1>16, <1>17, <1>18, <1>19, <1>20,
         <1>21, <1>22, <1>23, <1>24, <1>25, <1>26, <1>27, <1>28, <1>29, <1>30,
         <1>31
      DEF Next, Task, Executor, StopSpeaking, BargeInCommit
  <1>. QED
      BY <1>32, TypeStep DEF Parts, InductiveInv

(* The strengthened invariant holds in every reachable state.              *)
THEOREM InductiveHolds == Spec => []InductiveInv
  <1>1. ASSUME Init PROVE InductiveInv
    <2>1. TypeOK
          BY <1>1, InitTypes
    <2>2. /\ OneLiveReply /\ MicGate /\ PausedIsSilent /\ BufferClean
          /\ CancelledIsOver /\ JobOwner /\ QueueOwner
          BY <1>1 DEF Init, OneLiveReply, MicGate, PausedIsSilent, BufferClean,
                      CancelledIsOver, JobOwner, QueueOwner, Live, Over, NoTurn
    <2>3. QueueSingleOwner /\ CurIsSpawned
          BY <1>1 DEF Init, QueueSingleOwner, CurIsSpawned, NoReply
    <2>. QED
          BY <2>1, <2>2, <2>3 DEF InductiveInv
  <1>. QED
        BY <1>1, InductiveStep, PTL DEF Spec

(* No two replies race on the audio queue (OneLiveReply), whatever the     *)
(* order of messages, tool decisions, barge-ins and stops.                 *)
THEOREM NoRacingReplies == Spec => []OneLiveReply
  <1>1. InductiveInv => OneLiveReply
        BY DEF InductiveInv
  <1>. QED
        BY <1>1, InductiveHolds, PTL

(* The mic is muted only while a reply speaks that will open it again.     *)
THEOREM MicMutedOnlyBySpeech == Spec => []MicGate
  <1>1. InductiveInv => MicGate
        BY DEF InductiveInv
  <1>. QED
        BY <1>1, InductiveHolds, PTL

(* Between barge-in and its outcome nothing is played.                     *)
THEOREM BargeInSilences == Spec => []PausedIsSilent
  <1>1. InductiveInv => PausedIsSilent
        BY DEF InductiveInv
  <1>. QED
        BY <1>1, InductiveHolds, PTL

(* A cancelled reply leaves nothing in the turn buffer.                    *)
THEOREM CancelledTextDropped == Spec => []BufferClean
  <1>1. InductiveInv => BufferClean
        BY DEF InductiveInv
  <1>. QED
        BY <1>1, InductiveHolds, PTL

(* All queued audio that nobody cancelled is one reply's.                  *)
THEOREM QueueIsOneReply == Spec => []QueueSingleOwner
  <1>1. InductiveInv => QueueSingleOwner
        BY DEF InductiveInv
  <1>. QED
        BY <1>1, InductiveHolds, PTL

(* Completing a turn with the text of a reply that just finished keeps     *)
(* every saved turn complete.                                              *)
LEMMA CompleteTurnSaves ==
  ASSUME TypeOK, SavedIsComplete, NEW r \in Reply, NEW o \in SUBSET Reply, r \in o,
         finals' = finals \cup {r}, CompleteTurn(o)
  PROVE  SavedIsComplete'
  <1>1. CASE saved' = saved
        BY <1>1 DEF SavedIsComplete
  <1>2. CASE saved' = Append(saved, o)
    <2>1. saved \in Seq(SUBSET Reply)
          BY DEF TypeOK
    <2>2. \A i \in DOMAIN saved' :
             \/ saved'[i] = o
             \/ i \in DOMAIN saved /\ saved'[i] = saved[i]
          BY <1>2, <2>1
    <2>. QED
          BY <2>2 DEF SavedIsComplete
  <1>. QED
        BY <1>1, <1>2 DEF CompleteTurn

(* The store gets no agent turn of a reply whose stream was cut short.     *)
THEOREM OnlyFinishedTurnsSaved == Spec => []SavedIsComplete
  <1>1. ASSUME Init PROVE SavedIsComplete
        BY <1>1 DEF Init, SavedIsComplete
  <1>2. ASSUME SavedIsComplete, TypeOK, [Next]_vars PROVE SavedIsComplete'
    <2>1. ASSUME NEW r \in Reply, Final(r) \/ JsonFinal(r) PROVE SavedIsComplete'
      <3>1. r \in turn.parts \cup {r} /\ turn.parts \cup {r} \in SUBSET Reply
            BY BufferTypes, <1>2 DEF TypeOK
      <3>. QED
            BY <1>2, <2>1, <3>1, CompleteTurnSaves DEF Final, JsonFinal
    <2>2. ASSUME NEW r \in Reply, FlowReply(r) PROVE SavedIsComplete'
      <3>1. r \in {r} /\ {r} \in SUBSET Reply
            OBVIOUS
      <3>. QED
            BY <1>2, <2>2, <3>1, CompleteTurnSaves DEF FlowReply
    <2>3. CASE UNCHANGED <<saved, finals>>
          BY <1>2, <2>3 DEF SavedIsComplete
    <2>4. ASSUME NEW r \in Reply, Task(r),
                 ~Final(r), ~JsonFinal(r), ~FlowReply(r)
          PROVE  UNCHANGED <<saved, finals>>
          BY <2>4 DEF Task, StartChat, StartTool, OpenStream, JsonTool, JsonError,
                      Delta, ToolPending, StreamEnds, RequestFails, Apologise, Speak,
                      Drained, EndStream, Unwind, record
    <2>5. ASSUME NEW r \in Reply, Executor(r) PROVE UNCHANGED <<saved, finals>>
          BY <2>5 DEF Executor, SynthesisStarts, SynthesisReturns, SynthesisFails, record
    <2>6. ASSUME \/ UserTurn \/ ToolDecision \/ StopSpeaking
                 \/ BargeIn \/ BargeInCommit \/ BargeInFalse \/ DetectorReset
                 \/ ResumeAfter \/ Disconnect \/ CloseSession \/ Play
          PROVE  UNCHANGED <<saved, finals>>
          BY <2>6 DEF UserTurn, ToolDecision, SpawnAgent, StopSpeaking, HardStop, BargeIn,
                      BargeInCommit, BargeInFalse, DetectorReset, ResumeAfter,
                      Disconnect, CloseSession, Play, record
    <2>. QED
          BY <1>2, <2>1, <2>2, <2>3, <2>4, <2>5, <2>6 DEF Next, vars
  <1>. QED
        BY <1>1, <1>2, TypeCorrect, PTL DEF Spec

(* A queue is a prefix of itself and of what it becomes by an append.      *)
LEMMA PrefixOfAppend ==
  ASSUME NEW q \in Seq(Reply)
  PROVE  IsPrefix(q, q) /\ \A r \in Reply : IsPrefix(q, Append(q, r))
  <1>1. ASSUME NEW r \in Reply PROVE SubSeq(q, 1, Len(q)) = SubSeq(Append(q, r), 1, Len(q))
        OBVIOUS
  <1>. QED
        BY <1>1 DEF IsPrefix

(* While a session stays paused no step takes audio from its queue, so a   *)
(* false alarm resumes where the barge-in stopped.                         *)
THEOREM PausedAudioKept == Spec => PauseRetainsAudio
  <1>1. ASSUME InductiveInv, [Next]_vars, paused, paused' PROVE IsPrefix(queue, queue')
    <2> USE <1>1
    <2>1. queue \in Seq(Reply) /\ ~gen
          BY DEF InductiveInv, TypeOK, PausedIsSilent
    <2>2. ASSUME NEW r \in Reply, SynthesisReturns(r) PROVE queue' = Append(queue, r)
          BY <2>2 DEF SynthesisReturns
    <2>3. ASSUME NEW r \in Reply, Task(r) \/ SynthesisStarts(r) \/ SynthesisFails(r)
          PROVE  queue' = queue
      <3>1. ASSUME StartChat(r) \/ StartTool(r) \/ OpenStream(r) PROVE queue' = queue
            BY <3>1 DEF StartChat, StartTool, OpenStream, BeginSpeech, BeginStream, audio
      <3>2. ASSUME JsonFinal(r) \/ JsonTool(r) \/ JsonError(r) PROVE queue' = queue
            BY <3>2 DEF JsonFinal, JsonTool, JsonError, BeginSpeech, BeginStream, audio
      <3>3. ASSUME Delta(r) \/ Final(r) \/ ToolPending(r) \/ StreamEnds(r)
            PROVE  queue' = queue
            BY <3>3 DEF Delta, Final, ToolPending, StreamEnds, audio
      <3>4. ASSUME RequestFails(r) \/ Apologise(r) \/ FlowReply(r) \/ Unwind(r)
            PROVE  queue' = queue
            BY <3>4 DEF RequestFails, Apologise, FlowReply, Unwind, BeginSpeech, BeginStream,
                        StopPlayback, audio
      <3>5. ASSUME Speak(r) \/ Drained(r) \/ EndStream(r) PROVE queue' = queue
            BY <3>5 DEF Speak, Drained, EndStream, audio
      <3>6. ASSUME SynthesisStarts(r) \/ SynthesisFails(r) PROVE queue' = queue
            BY <3>6 DEF SynthesisStarts, SynthesisFails, StopPlayback, audio
      <3>. QED
            BY <2>3, <3>1, <3>2, <3>3, <3>4, <3>5, <3>6 DEF Task
    <2>4. ASSUME \/ UserTurn \/ ToolDecision \/ StopSpeaking
                 \/ BargeIn \/ BargeInCommit \/ BargeInFalse \/ DetectorReset
                 \/ ResumeAfter \/ Disconnect \/ CloseSession \/ Play
          PROVE  queue' = queue
          BY <2>1, <2>4 DEF UserTurn, ToolDecision, SpawnAgent, StopSpeaking, HardStop, BargeIn,
                      BargeInCommit, BargeInFalse, DetectorReset, ResumeAfter, CancelStream,
                      StopPlayback, Disconnect, CloseSession, Play, audio
    <2>5. queue' = queue \/ \E r \in Reply : queue' = Append(queue, r)
          BY <2>2, <2>3, <2>4 DEF Next, Executor, vars
    <2>. QED
          BY <2>1, <2>5, PrefixOfAppend
  <1>2. InductiveInv /\ [Next]_vars => [paused /\ paused' => IsPrefix(queue, queue')]_vars
        BY <1>1
  <1>. QED
        BY <1>2, InductiveHolds, PTL DEF Spec, PauseRetainsAudio

(* No timer is pending while a barge-in is undecided.                      *)
TimerWaits == barge => ~resume

LEMMA TimerStep == TimerWaits /\ [Next]_vars => TimerWaits'
  <1> SUFFICES ASSUME TimerWaits, [Next]_vars PROVE TimerWaits'
      OBVIOUS
  <1>1. ASSUME NEW r \in Reply, Task(r) PROVE UNCHANGED <<barge, resume>>
    <2>1. ASSUME StartChat(r) \/ StartTool(r) \/ OpenStream(r)
          PROVE  UNCHANGED <<barge, resume>>
          BY <2>1 DEF StartChat, StartTool, OpenStream, BeginSpeech, audio, client
    <2>2. ASSUME JsonFinal(r) \/ JsonTool(r) \/ JsonError(r) PROVE UNCHANGED <<barge, resume>>
          BY <2>2 DEF JsonFinal, JsonTool, JsonError, BeginSpeech, audio, client
    <2>3. ASSUME Delta(r) \/ Final(r) \/ ToolPending(r) \/ StreamEnds(r)
          PROVE  UNCHANGED <<barge, resume>>
          BY <2>3 DEF Delta, Final, ToolPending, StreamEnds, audio, client
    <2>4. ASSUME RequestFails(r) \/ Apologise(r) \/ FlowReply(r) \/ Unwind(r)
          PROVE  UNCHANGED <<barge, resume>>
          BY <2>4 DEF RequestFails, Apologise, FlowReply, Unwind, BeginSpeech, audio, client
    <2>5. ASSUME Speak(r) \/ Drained(r) \/ EndStream(r) PROVE UNCHANGED <<barge, resume>>
          BY <2>5 DEF Speak, Drained, EndStream, audio, client
    <2>. QED
          BY <1>1, <2>1, <2>2, <2>3, <2>4, <2>5 DEF Task
  <1>2. ASSUME NEW r \in Reply, Executor(r) PROVE UNCHANGED <<barge, resume>>
        BY <1>2 DEF Executor, SynthesisStarts, SynthesisReturns, SynthesisFails, audio, client
  <1>3. ASSUME \/ UserTurn \/ ToolDecision \/ StopSpeaking
               \/ BargeIn \/ BargeInCommit \/ BargeInFalse \/ DetectorReset
               \/ ResumeAfter \/ Disconnect \/ CloseSession \/ Play
        PROVE  TimerWaits'
        BY <1>3 DEF TimerWaits, UserTurn, ToolDecision, SpawnAgent, StopSpeaking, HardStop,
                    BargeIn, BargeInCommit, BargeInFalse, DetectorReset, ResumeAfter,
                    Disconnect, CloseSession, Play, audio, client
  <1>. QED
       BY <1>1, <1>2, <1>3 DEF TimerWaits, Next, vars, audio, client

(* The timer of a false alarm never fires into the next barge-in.          *)
THEOREM TimerDropped == Spec => ListenerHeard
  <1>1. ASSUME TypeOK, TimerWaits, [Next]_vars, barge, barge', paused, ~paused'
        PROVE  queue' = <<>> /\ onAir' = NoReply
    <2> USE <1>1
    <2>1. ASSUME NEW r \in Reply, Task(r) PROVE queue' = <<>> /\ onAir' = NoReply
      <3>1. ASSUME StartChat(r) \/ StartTool(r) \/ OpenStream(r)
            PROVE  queue' = <<>> /\ onAir' = NoReply
            BY <3>1 DEF StartChat, StartTool, OpenStream, BeginSpeech, BeginStream, audio
      <3>2. ASSUME JsonFinal(r) \/ JsonTool(r) \/ JsonError(r)
            PROVE  queue' = <<>> /\ onAir' = NoReply
            BY <3>2 DEF JsonFinal, JsonTool, JsonError, BeginSpeech, BeginStream, audio
      <3>3. ~(Delta(r) \/ Final(r) \/ ToolPending(r) \/ StreamEnds(r))
            BY DEF Delta, Final, ToolPending, StreamEnds, audio
      <3>4. ASSUME RequestFails(r) \/ Apologise(r) \/ FlowReply(r) \/ Unwind(r)
            PROVE  queue' = <<>> /\ onAir' = NoReply
            BY <3>4 DEF RequestFails, Apologise, FlowReply, Unwind, BeginSpeech, BeginStream,
                        StopPlayback, audio
      <3>5. ASSUME Speak(r) \/ Drained(r) \/ EndStream(r)
            PROVE  queue' = <<>> /\ onAir' = NoReply
            BY <3>5 DEF Speak, Drained, EndStream, audio
      <3>. QED
            BY <2>1, <3>1, <3>2, <3>3, <3>4, <3>5 DEF Task
    <2>2. ASSUME NEW r \in Reply, Executor(r) PROVE queue' = <<>> /\ onAir' = NoReply
          BY <2>2 DEF Executor, SynthesisStarts, SynthesisReturns, SynthesisFails,
                      StopPlayback, audio
    <2>3. ASSUME \/ UserTurn \/ ToolDecision \/ StopSpeaking
                 \/ BargeIn \/ BargeInCommit \/ BargeInFalse \/ DetectorReset
                 \/ ResumeAfter \/ Disconnect \/ CloseSession \/ Play
          PROVE  queue' = <<>> /\ onAir' = NoReply
          BY <2>3 DEF TimerWaits, UserTurn, ToolDecision, SpawnAgent, StopSpeaking, HardStop,
                      BargeIn, BargeInCommit, BargeInFalse, DetectorReset, ResumeAfter,
                      CancelStream, StopPlayback, Disconnect, CloseSession, Play, audio
    <2>. QED
         BY <2>1, <2>2, <2>3 DEF Next, vars, audio
  <1>2. Init => TimerWaits
        BY DEF Init, TimerWaits
  <1>3. TypeOK /\ TimerWaits /\ [Next]_vars
          => [barge /\ barge' /\ paused /\ ~paused' => queue' = <<>> /\ onAir' = NoReply]_vars
        BY <1>1
  <1>. QED
        BY <1>2, <1>3, TypeCorrect, TimerStep, PTL DEF Spec, ListenerHeard

-----------------------------------------------------------------------------
(* No text is saved in two turns.  IsSaved(r): an agent turn has text of r. *)
IsSaved(r) == \E i \in DOMAIN saved : r \in saved[i]

(* A reply that may still complete a turn: it has not been spawned, or has *)
(* not had its outcome.                                                    *)
Unsettled(r) ==
    \/ r > spawned
    \/ pc[r] \in {"new", "ask", "plan"}
    \/ mode[r] = "greet" /\ pc[r] \in {"speak", "synth", "drain", "tail"}
    \/ r \notin finals /\ (pc[r] = "stream" \/ (pc[r] = "synth" /\ mode[r] = "sse"))

(* Neither such a reply nor a fragment in the buffer is in a saved turn.   *)
Unspent ==
    /\ \A r \in turn.parts : r <= spawned /\ ~IsSaved(r)
    /\ \A r \in Reply : Unsettled(r) => ~IsSaved(r)
    /\ SavedOnce

(* Completing a turn adds its owners, and only them, to what is saved.     *)
LEMMA CompleteOnce ==
    ASSUME TypeOK, NEW o \in SUBSET Reply, CompleteTurn(o), SavedOnce,
           \A r \in o : ~IsSaved(r)
    PROVE  /\ SavedOnce'
           /\ \A r \in Reply : IsSaved(r)' => IsSaved(r) \/ r \in o
           /\ turn'.parts = {}
  <1>1. turn'.parts = {}
    BY DEF CompleteTurn, Abandoned
  <1>2. CASE saved' = saved
    BY <1>1, <1>2 DEF SavedOnce, IsSaved
  <1>3. CASE saved' = Append(saved, o)
    <2>1. /\ Len(saved) \in Nat /\ DOMAIN saved = 1 .. Len(saved)
          /\ DOMAIN saved' = 1 .. Len(saved) + 1
          /\ \A i \in 1 .. Len(saved) : saved'[i] = saved[i]
          /\ saved'[Len(saved) + 1] = o
      BY <1>3 DEF TypeOK
    <2>2. \A i \in DOMAIN saved' : i \in DOMAIN saved \/ i = Len(saved) + 1
      BY <2>1
    <2>3. \A i \in DOMAIN saved : saved'[i] = saved[i] /\ saved[i] \cap o = {}
      BY <2>1 DEF IsSaved
    <2>4. SavedOnce'
      <3>1. SUFFICES ASSUME NEW i \in DOMAIN saved', NEW j \in DOMAIN saved', i # j
                     PROVE  saved'[i] \cap saved'[j] = {}
        BY DEF SavedOnce
      <3>2. CASE i \in DOMAIN saved /\ j \in DOMAIN saved
        BY <2>3, <3>1, <3>2 DEF SavedOnce
      <3>3. CASE i \in DOMAIN saved /\ j = Len(saved) + 1
        BY <2>1, <2>3, <3>3
      <3>4. CASE j \in DOMAIN saved /\ i = Len(saved) + 1
        BY <2>1, <2>3, <3>4
      <3> QED  BY <2>2, <3>1, <3>2, <3>3, <3>4
    <2>5. ASSUME NEW r \in Reply, IsSaved(r)' PROVE IsSaved(r) \/ r \in o
      <3>1. PICK i \in DOMAIN saved' : r \in saved'[i]
        BY <2>5 DEF IsSaved
      <3> QED  BY <2>1, <2>2, <2>3, <3>1 DEF IsSaved
    <2> QED  BY <1>1, <2>4, <2>5
  <1> QED  BY <1>2, <1>3 DEF CompleteTurn

(* A reply completes its turn and has its outcome.                         *)
LEMMA SettledOnce ==
    ASSUME InductiveInv, Unspent, NEW r \in Reply, Live(r), Unsettled(r), ~Unsettled(r)',
           NEW o \in SUBSET Reply, o \subseteq turn.parts \cup {r}, CompleteTurn(o),
           UNCHANGED spawned, finals' = finals \cup {r},
           \A q \in Reply : q # r => pc'[q] = pc[q] /\ mode'[q] = mode[q]
    PROVE  Unspent'
  <1>1. \A q \in o : ~IsSaved(q)
    BY DEF Unspent
  <1>2. /\ SavedOnce' /\ turn'.parts = {}
        /\ \A q \in Reply : IsSaved(q)' => IsSaved(q) \/ q \in o
    BY <1>1, CompleteOnce DEF Unspent, InductiveInv
  <1>3. ASSUME NEW q \in Reply, Unsettled(q)' PROVE ~IsSaved(q)'
    <2>1. q # r
      BY <1>3
    <2>2. Unsettled(q)
      BY <1>3, <2>1 DEF Unsettled
    <2>3. CASE q \in o
      <3>1. q <= spawned /\ ~Live(q)
        BY <2>1, <2>3 DEF Unspent, InductiveInv, OneLiveReply
      <3>2. ~(q > spawned)
        BY <3>1 DEF InductiveInv, TypeOK, Reply
      <3> QED  BY <2>2, <3>1, <3>2 DEF Unsettled, Live, Over
    <2> QED  BY <1>2, <2>2, <2>3 DEF Unspent
  <1> QED  BY <1>2, <1>3 DEF Unspent

(* A step that saves nothing: buffered text is that of a live reply, and   *)
(* no reply comes back to an outcome it has had.                           *)
LEMMA NothingSaved ==
    ASSUME Unspent, UNCHANGED saved,
           \A r \in turn'.parts : r <= spawned' /\ (r \in turn.parts \/ (r \in Reply /\ Unsettled(r))),
           \A r \in Reply : Unsettled(r)' => Unsettled(r)
    PROVE  Unspent'
  BY DEF Unspent, IsSaved, SavedOnce

(* The coroutine of an event stream, and no other, awaits events, and it   *)
(* does not speak sentences.                                               *)
Suits(p, x) == (p = "stream" => x = "sse") /\ (p = "speak" => x # "sse")
Streams     == \A r \in Reply : Suits(pc[r], mode[r])

LEMMA StreamsStep == TypeOK /\ Streams /\ [Next]_vars => Streams'
  <1> SUFFICES ASSUME TypeOK, Streams, [Next]_vars PROVE Streams'
    OBVIOUS
  <1> USE DEF Streams, Suits
  <1>1. ASSUME NEW r \in Reply, NEW p, NEW x, Goto(r, p, x), Suits(p, x)
        PROVE  Streams'
    BY <1>1 DEF Goto, TypeOK
  <1>2. ASSUME NEW r \in Reply, NEW p, pc' = [pc EXCEPT ![r] = p], UNCHANGED mode,
               Suits(p, mode[r])
        PROVE  Streams'
    BY <1>2 DEF TypeOK
  <1>3. CASE UNCHANGED <<pc, mode>>
    BY <1>3
  <1>4. ASSUME CancelTask, UNCHANGED mode PROVE Streams'
    BY <1>4 DEF CancelTask, AfterCancel, TypeOK
  <1>5. CASE UserTurn \/ ToolDecision
    BY <1>5 DEF UserTurn, ToolDecision, SpawnAgent, TypeOK
  <1>6. CASE StopSpeaking \/ BargeInCommit \/ Disconnect
    BY <1>4, <1>6 DEF StopSpeaking, BargeInCommit, HardStop, CancelStream, Disconnect
  <1>7. CASE BargeIn \/ BargeInFalse \/ DetectorReset \/ ResumeAfter \/ CloseSession \/ Play
             \/ UNCHANGED vars
    BY <1>3, <1>7 DEF BargeIn, BargeInFalse, DetectorReset, ResumeAfter, CloseSession, Play,
                     vars, tasks
  <1>8. ASSUME NEW r \in Reply, Executor(r) PROVE Streams'
    <2>1. CASE SynthesisStarts(r)
      BY <1>3, <2>1 DEF SynthesisStarts
    <2>2. CASE SynthesisReturns(r)
      <3>1. mode' = mode /\ (pc' = pc \/ \E p : /\ pc' = [pc EXCEPT ![r] = p]
                                                /\ Suits(p, mode[r]))
        <4>1. CASE pc[r] # "synth"
          BY <2>2, <4>1 DEF SynthesisReturns
        <4>2. CASE pc[r] = "synth"
          <5> DEFINE p == IF mode[r] = "sse" THEN "stream" ELSE "speak"
          <5>1. mode' = mode /\ pc' = [pc EXCEPT ![r] = p]
            BY <2>2, <4>2 DEF SynthesisReturns
          <5>2. Suits(p, mode[r])
            OBVIOUS
          <5> HIDE DEF p
          <5> QED  BY <5>1, <5>2
        <4> QED  BY <4>1, <4>2
      <3> QED  BY <1>2, <1>3, <3>1
    <2>3. CASE SynthesisFails(r)
      <3>1. UNCHANGED <<pc, mode>> \/ \E p, x : Goto(r, p, x) /\ Suits(p, x)
        BY <2>3 DEF SynthesisFails
      <3> QED  BY <1>1, <1>3, <3>1
    <2> QED  BY <1>8, <2>1, <2>2, <2>3 DEF Executor
  <1>9. ASSUME NEW r \in Reply, Task(r) PROVE Streams'
    <2>1. CASE \/ StartChat(r) \/ StartTool(r) \/ OpenStream(r) \/ JsonFinal(r) \/ JsonTool(r)
               \/ JsonError(r) \/ RequestFails(r) \/ Apologise(r) \/ FlowReply(r)
      <3>1. \E p, x : Goto(r, p, x) /\ Suits(p, x)
        BY <2>1 DEF StartChat, StartTool, OpenStream, JsonFinal, JsonTool, JsonError,
                    RequestFails, Apologise, FlowReply, BeginSpeech
      <3> QED  BY <1>1, <3>1
    <2>2. CASE Delta(r) \/ ToolPending(r) \/ StreamEnds(r) \/ Drained(r) \/ Unwind(r)
               \/ Speak(r)
      <3>1. mode' = mode /\ \E p : pc' = [pc EXCEPT ![r] = p] /\ Suits(p, mode[r])
        BY <2>2 DEF Delta, ToolPending, StreamEnds, Drained, Unwind, Speak
      <3> QED  BY <1>2, <3>1
    <2>3. CASE Final(r)
      BY <1>3, <2>3 DEF Final, tasks
    <2>4. CASE EndStream(r)
      <3>1. \E p, x : Goto(r, p, x) /\ Suits(p, x)
        BY <2>4 DEF EndStream
      <3> QED  BY <1>1, <3>1
    <2> QED  BY <1>9, <2>1, <2>2, <2>3, <2>4 DEF Task
  <1> QED  BY <1>5, <1>6, <1>7, <1>8, <1>9 DEF Next

LEMMA UnspentInit == Init => Unspent
  BY DEF Init, Unspent, NoTurn, IsSaved, SavedOnce

LEMMA UnspentStep == InductiveInv /\ Streams /\ Unspent /\ [Next]_vars => Unspent'
  <1> SUFFICES ASSUME InductiveInv, Streams, Unspent, [Next]_vars PROVE Unspent'
    OBVIOUS
  <1> DEFINE Settles == \A r \in Reply : Unsettled(r)' => Unsettled(r)
             Buffers == \A r \in turn'.parts : r <= spawned' /\ r \in turn.parts
  <1>0. /\ TypeOK /\ \A r \in turn.parts : r <= spawned /\ r \in Reply
        /\ \A r \in Reply : Live(r) => cur = r /\ r <= spawned /\ ~(r > spawned)
        /\ turn \in TurnBuffer
    <2>1. TypeOK /\ turn \in TurnBuffer
      BY DEF InductiveInv, TypeOK
    <2>2. \A r \in turn.parts : r <= spawned /\ r \in Reply
      BY <2>1 DEF Unspent, TurnBuffer
    <2>3. ASSUME NEW r \in Reply, Live(r) PROVE cur = r /\ r <= spawned /\ ~(r > spawned)
      <3>1. cur = r /\ cur <= spawned
        BY <2>3 DEF InductiveInv, OneLiveReply, CurIsSpawned
      <3> QED  BY <2>1, <3>1 DEF TypeOK, Reply
    <2> QED  BY <2>1, <2>2, <2>3
  <1>1. ASSUME UNCHANGED <<saved, spawned>>, turn'.parts \subseteq turn.parts, Settles
        PROVE  Unspent'
    BY <1>0, <1>1, NothingSaved
  <1>2. Abandoned.parts = {} /\ Begun.parts = {} /\ Ensured.parts \subseteq turn.parts
    BY DEF Abandoned, Begun, Ensured
  <1> USE DEF Unsettled
  <1>3. ASSUME NEW m, SpawnAgent(m) PROVE Unspent'
    <2>1. spawned' = spawned + 1 /\ spawned \in Nat /\ turn' = turn /\ saved' = saved
          /\ finals' = finals
      BY <1>0, <1>3 DEF SpawnAgent, record, TypeOK
    <2>2. \A r \in Reply : r # spawned + 1 => pc'[r] = pc[r] /\ mode'[r] = mode[r]
      BY <1>0, <1>3 DEF SpawnAgent, TypeOK
    <2>3. Settles
      BY <2>1, <2>2 DEF Reply
    <2>4. \A r \in turn.parts : r <= spawned'
      BY <1>0, <2>1 DEF Reply
    <2> QED  BY <2>1, <2>3, <2>4, NothingSaved
  <1>4. CASE UserTurn \/ ToolDecision
    BY <1>3, <1>4 DEF UserTurn, ToolDecision
  <1>5. ASSUME CancelTask, UNCHANGED <<spawned, mode, finals>> PROVE Settles
    <2>1. \A r \in Reply : pc'[r] = pc[r] \/ pc'[r] \in {"unwind", "done"}
      BY <1>0, <1>5 DEF CancelTask, AfterCancel, TypeOK
    <2> QED  BY <1>5, <2>1
  <1>6. CASE StopSpeaking \/ BargeInCommit
    <2>1. CancelTask /\ UNCHANGED <<spawned, mode, finals, saved>> /\ turn' = Abandoned
      BY <1>6 DEF StopSpeaking, BargeInCommit, HardStop, CancelStream
    <2> QED  BY <1>1, <1>2, <1>5, <2>1
  <1>7. CASE Disconnect
    <2>1. CancelTask /\ UNCHANGED <<spawned, mode, finals, saved>> /\ turn' = Abandoned
      BY <1>7 DEF Disconnect
    <2> QED  BY <1>1, <1>2, <1>5, <2>1
  <1>8. CASE \/ BargeIn \/ BargeInFalse \/ DetectorReset \/ ResumeAfter \/ CloseSession \/ Play
             \/ UNCHANGED vars \/ \E r \in Reply : SynthesisStarts(r)
    <2>1. UNCHANGED <<spawned, pc, mode, finals, saved, turn>>
      BY <1>8 DEF BargeIn, BargeInFalse, DetectorReset, ResumeAfter, CloseSession, Play, vars,
                  SynthesisStarts, tasks, record
    <2> QED  BY <1>1, <2>1
  <1>9. ASSUME NEW r \in Reply,
               UNCHANGED <<spawned, saved>>, turn'.parts \subseteq turn.parts,
               finals' = finals,
               \A q \in Reply : q # r => pc'[q] = pc[q] /\ mode'[q] = mode[q],
               Unsettled(r)' => Unsettled(r)
        PROVE  Unspent'
    <2>1. Settles
      BY <1>9
    <2> QED  BY <1>1, <1>9, <2>1
  <1>10. ASSUME NEW r \in Reply, NEW p, NEW x, Goto(r, p, x)
         PROVE  /\ \A q \in Reply : q # r => pc'[q] = pc[q] /\ mode'[q] = mode[q]
                /\ pc'[r] = p /\ mode'[r] = x
    BY <1>0, <1>10 DEF Goto, TypeOK
  <1>11. ASSUME NEW r \in Reply, NEW p, pc' = [pc EXCEPT ![r] = p], UNCHANGED mode
         PROVE  /\ \A q \in Reply : q # r => pc'[q] = pc[q] /\ mode'[q] = mode[q]
                /\ pc'[r] = p /\ mode'[r] = mode[r]
    BY <1>0, <1>11 DEF TypeOK
  <1>12. ASSUME NEW r \in Reply, StartChat(r) \/ StartTool(r) \/ OpenStream(r) PROVE Unspent'
    <2>1. PICK p, x : Goto(r, p, x)
      BY <1>12 DEF StartChat, StartTool, OpenStream, BeginSpeech
    <2>2. Unsettled(r) \/ pc[r] = "new"
      BY <1>12 DEF StartChat, StartTool, OpenStream
    <2>3. /\ UNCHANGED <<spawned, saved>> /\ finals' = finals
          /\ turn' \in {Begun, Ensured}
      BY <1>12 DEF StartChat, StartTool, OpenStream
    <2> QED  BY <1>2, <1>9, <1>10, <2>1, <2>2, <2>3
  <1>13. ASSUME NEW r \in Reply, JsonFinal(r) PROVE Unspent'
    <2>1. PICK p, x : Goto(r, p, x) /\ x = "json" /\ p \in {"speak", "done"}
      BY <1>13 DEF JsonFinal, BeginSpeech
    <2>2. /\ pc[r] = "ask" /\ finals' = finals \cup {r} /\ UNCHANGED spawned
          /\ CompleteTurn(turn.parts \cup {r})
      BY <1>13 DEF JsonFinal
    <2>3. Live(r) /\ Unsettled(r)
      BY <2>2 DEF Live, Over
    <2>4. ~Unsettled(r)'
      BY <1>0, <1>10, <2>1, <2>2, <2>3
    <2>5. turn.parts \cup {r} \in SUBSET Reply
      BY <1>0
    <2> QED  BY <1>10, <2>1, <2>2, <2>3, <2>4, <2>5, SettledOnce
  <1>14. ASSUME NEW r \in Reply, FlowReply(r) PROVE Unspent'
    <2>1. PICK p, x : Goto(r, p, x) /\ x = "plan" /\ p = "speak"
      BY <1>14 DEF FlowReply, BeginSpeech
    <2>2. /\ pc[r] = "plan" /\ finals' = finals \cup {r} /\ UNCHANGED spawned
          /\ CompleteTurn({r})
      BY <1>14 DEF FlowReply
    <2>3. Live(r) /\ Unsettled(r)
      BY <2>2 DEF Live, Over
    <2>4. ~Unsettled(r)'
      BY <1>0, <1>10, <2>1, <2>2, <2>3
    <2> QED  BY <1>10, <2>1, <2>2, <2>3, <2>4, SettledOnce
  <1>15. ASSUME NEW r \in Reply, Final(r) PROVE Unspent'
    <2>1. /\ pc[r] = "stream" /\ r \notin finals /\ finals' = finals \cup {r}
          /\ UNCHANGED <<spawned, pc, mode>> /\ CompleteTurn(turn.parts \cup {r})
      BY <1>15 DEF Final, tasks
    <2>2. Live(r) /\ Unsettled(r)
      BY <2>1 DEF Live, Over
    <2>3. ~Unsettled(r)'
      BY <1>0, <2>1, <2>2
    <2>4. turn.parts \cup {r} \in SUBSET Reply
      BY <1>0
    <2> QED  BY <2>1, <2>2, <2>3, <2>4, SettledOnce
  <1>16. ASSUME NEW r \in Reply, Delta(r) PROVE Unspent'
    <2>1. /\ pc[r] = "stream" /\ r \notin finals /\ turn' = Appended(r)
          /\ UNCHANGED <<spawned, mode, finals, saved>> /\ pc' = [pc EXCEPT ![r] = "synth"]
      BY <1>16 DEF Delta
    <2>2. Live(r) /\ Unsettled(r)
      BY <2>1 DEF Live, Over
    <2>3. Settles
      BY <1>11, <2>1, <2>2
    <2>4. Appended(r).parts = Ensured.parts \cup {r}
      BY <1>0 DEF Appended, Ensured, Begun, TurnBuffer
    <2>5. \A q \in turn'.parts : q <= spawned' /\ (q \in turn.parts \/ q = r)
      BY <1>0, <1>2, <2>1, <2>2, <2>4
    <2> QED  BY <2>1, <2>2, <2>3, <2>5, NothingSaved
  <1>17. ASSUME NEW r \in Reply,
                JsonTool(r) \/ JsonError(r) \/ RequestFails(r) \/ Apologise(r)
         PROVE  Unspent'
    <2>1. PICK p, x : /\ Goto(r, p, x)
                      /\ p \in {"done", "recover"} \/ (p = "speak" /\ x # "greet")
      BY <1>17 DEF JsonTool, JsonError, RequestFails, Apologise, BeginSpeech
    <2>2. /\ UNCHANGED <<spawned, saved>> /\ finals' = finals /\ turn' \in {turn, Abandoned}
      BY <1>17 DEF JsonTool, JsonError, RequestFails, Apologise, record
    <2>3. Unsettled(r)' => Unsettled(r)
      BY <1>10, <2>1, <2>2
    <2> QED  BY <1>2, <1>9, <1>10, <2>1, <2>2, <2>3
  <1>18. ASSUME NEW r \in Reply, ToolPending(r) \/ StreamEnds(r) \/ Drained(r) \/ Unwind(r)
         PROVE  Unspent'
    <2>1. PICK p : /\ pc' = [pc EXCEPT ![r] = p] /\ UNCHANGED mode
                   /\ p \in {"drain", "tail", "done"}
                   /\ p = "drain" => pc[r] = "stream"
                   /\ p = "tail" => pc[r] = "drain"
      BY <1>18 DEF ToolPending, StreamEnds, Drained, Unwind
    <2>2. /\ UNCHANGED <<spawned, saved>> /\ finals' = finals /\ turn' \in {turn, Abandoned}
      BY <1>18 DEF ToolPending, StreamEnds, Drained, Unwind, record
    <2>3. Unsettled(r)' => Unsettled(r)
      BY <1>11, <2>1, <2>2 DEF Streams, Suits
    <2> QED  BY <1>2, <1>9, <1>11, <2>1, <2>2, <2>3
  <1>19. ASSUME NEW r \in Reply, Speak(r) PROVE Unspent'
    <2>1. PICK p : /\ pc' = [pc EXCEPT ![r] = p] /\ UNCHANGED mode
                   /\ pc[r] = "speak" /\ p \in {"drain", "synth"}
      BY <1>19 DEF Speak
    <2>2. UNCHANGED <<spawned, saved, turn>> /\ finals' = finals
      BY <1>19 DEF Speak, record
    <2>3. Unsettled(r)' => Unsettled(r)
      BY <1>11, <2>1, <2>2 DEF Streams, Suits
    <2> QED  BY <1>9, <1>11, <2>1, <2>2, <2>3
  <1>20. ASSUME NEW r \in Reply, EndStream(r) PROVE Unspent'
    <2>1. PICK p, x : /\ Goto(r, p, x) /\ pc[r] = "tail"
                      /\ \/ p = "plan" /\ mode[r] = "greet"
                         \/ p = "done"
      BY <1>20 DEF EndStream
    <2>2. /\ UNCHANGED <<spawned, saved>> /\ finals' = finals /\ turn' \in {turn, Abandoned}
      BY <1>20 DEF EndStream
    <2>3. Unsettled(r)' => Unsettled(r)
      BY <1>10, <2>1, <2>2
    <2> QED  BY <1>2, <1>9, <1>10, <2>1, <2>2, <2>3
  <1>21. ASSUME NEW r \in Reply, SynthesisReturns(r) PROVE Unspent'
    <2>1. UNCHANGED <<spawned, saved, turn, mode>> /\ finals' = finals
      BY <1>21 DEF SynthesisReturns, record
    <2>2. pc' = pc \/ \E p : /\ pc' = [pc EXCEPT ![r] = p] /\ pc[r] = "synth"
                             /\ p = IF mode[r] = "sse" THEN "stream" ELSE "speak"
      BY <1>21 DEF SynthesisReturns
    <2>3. CASE pc' = pc
      BY <1>1, <2>1, <2>3
    <2>4. ASSUME NEW p, pc' = [pc EXCEPT ![r] = p], pc[r] = "synth",
                 p = IF mode[r] = "sse" THEN "stream" ELSE "speak"
          PROVE  Unspent'
      <3>1. Unsettled(r)' => Unsettled(r)
        BY <1>11, <2>1, <2>4
      <3> QED  BY <1>9, <1>11, <2>1, <2>4, <3>1
    <2> QED  BY <2>2, <2>3, <2>4
  <1>22. ASSUME NEW r \in Reply, SynthesisFails(r) PROVE Unspent'
    <2>1. UNCHANGED <<spawned, saved>> /\ finals' = finals /\ turn' \in {turn, Abandoned}
      BY <1>22 DEF SynthesisFails
    <2>2. CASE UNCHANGED <<pc, mode>>
      BY <1>1, <1>2, <2>1, <2>2
    <2>3. ASSUME NEW p, NEW x, Goto(r, p, x), p \in {"done", "recover"} PROVE Unspent'
      <3>1. Unsettled(r)' => Unsettled(r)
        BY <1>10, <2>1, <2>3
      <3> QED  BY <1>2, <1>9, <1>10, <2>1, <2>3, <3>1
    <2>4. UNCHANGED <<pc, mode>> \/ \E p, x : Goto(r, p, x) /\ p \in {"done", "recover"}
      BY <1>22 DEF SynthesisFails
    <2> QED  BY <2>2, <2>3, <2>4
  <1> QED
    <2>1. ASSUME NEW r \in Reply, Task(r) PROVE Unspent'
      BY <1>12, <1>13, <1>14, <1>15, <1>16, <1>17, <1>18, <1>19, <1>20, <2>1 DEF Task
    <2>2. ASSUME NEW r \in Reply, Executor(r) PROVE Unspent'
      BY <1>8, <1>21, <1>22, <2>2 DEF Executor
    <2> QED  BY <1>4, <1>6, <1>7, <1>8, <2>1, <2>2 DEF Next

(* What a reply said is stored in one agent turn only: its fragments wait  *)
(* in the buffer across a tool approval, and leave it with the turn that   *)
(* is completed or abandoned (SavedOnce).                                  *)
THEOREM TextSavedOnce == Spec => []SavedOnce
  <1>1. Init => Streams
    BY DEF Init, Streams, Suits
  <1>2. Unspent => SavedOnce
    BY DEF Unspent
  <1>3. InductiveInv => TypeOK
    BY DEF InductiveInv
  <1> QED
    BY <1>1, <1>2, <1>3, InductiveHolds, StreamsStep, UnspentInit, UnspentStep, PTL DEF Spec
=============================================================================
