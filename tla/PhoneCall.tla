----------------------------- MODULE PhoneCall -----------------------------
(***************************************************************************)
(* One telephone call (class PhoneCall of voice/phone.py): caller audio    *)
(* arrives frame by frame, an utterance becomes a turn (STT, answer,       *)
(* speech), the greeting and the idle watchdog speak on their own, and the *)
(* caller may interrupt whoever speaks.                                    *)
(*                                                                         *)
(* Everything runs on one event loop, so an action is the code from one    *)
(* await to the next.  A frame of the model is a stretch of caller audio   *)
(* and what the endpointer makes of it is chosen; the detector's 800 ms    *)
(* window is not cut.                                                      *)
(*                                                                         *)
(* An operator with a suffix, as Unwind_NoFinally, is the operator named   *)
(* before the suffix with one mistake in it, see BrowserReply.             *)
(***************************************************************************)
EXTENDS Naturals, Sequences, FiniteSets, SequencesExt

CONSTANTS MaxTurns,      \* turns one call starts
          MaxFrames,     \* frames the caller sends
          MaxBuffer,     \* MAX_BUFFERED_INBOUND_FRAMES
          MaxSentences,  \* sentences of one text spoken
          NewAudio,      \* frames that make an extended utterance worth transcribing
          MaxExtensions  \* tail extensions in a row

ASSUME CallAssumption ==
    /\ MaxTurns \in Nat /\ MaxFrames \in Nat
    /\ MaxBuffer \in Nat \ {0} /\ MaxSentences \in Nat \ {0}
    /\ NewAudio \in Nat /\ MaxExtensions \in Nat

Turn     == 1 .. MaxTurns
Greeting == 0
Watchdog == MaxTurns + 1
Speaker  == 0 .. MaxTurns + 1
NoTurn   == 0
Frame    == 1 .. MaxFrames
Audio    == Seq(Frame)

VARIABLES
    closed, stage,           \* self.closed; how far close() is
    speaking, interrupted,
    cur,                     \* self._turn_task
    turns,                   \* turns started
    pc, mode,                \* where each speaking coroutine is, and on whose behalf
    left,                    \* sentences it still has to speak
    cancelled,               \* turns whose cancel() was called
    arrived,                 \* frames received
    ear,                     \* UtteranceEndpointer._frames
    barge,                   \* BargeInDetector._recent
    buffer,                  \* _inbound_buffer
    utt,                     \* what cur was started with, until it is transcribed
    extensions, primed,      \* _tail_extensions; audio behind _primed_len, _primed_text
    quiet, prompted          \* a full idle stretch passed; idle_prompted

flags  == <<closed, stage>>
voice  == <<pc, mode, left>>
hear   == <<arrived, ear, barge, buffer>>
tail   == <<extensions, primed>>
idle   == <<quiet, prompted>>
vars   == <<closed, stage, speaking, interrupted, cur, turns, pc, mode, left, cancelled,
            arrived, ear, barge, buffer, utt, extensions, primed, quiet, prompted>>

Pcs   == {"idle", "stt", "think", "open", "wait", "play", "close", "hangup", "done"}
Modes == {"say", "last", "prompt", "stream", "broken"}

Active(s) == pc[s] \in {"open", "wait", "play", "close"}
Greeted   == pc[Greeting] # "idle"
Busy      == cur # NoTurn /\ pc[cur] # "done"

TypeOK ==
    /\ closed \in BOOLEAN /\ stage \in {"live", "closing", "closed"}
    /\ speaking \in BOOLEAN /\ interrupted \in BOOLEAN
    /\ cur \in Turn \cup {NoTurn} /\ turns \in 0 .. MaxTurns
    /\ pc \in [Speaker -> Pcs] /\ mode \in [Speaker -> Modes]
    /\ left \in [Speaker -> 0 .. MaxSentences]
    /\ cancelled \subseteq Speaker
    /\ arrived \in 0 .. MaxFrames
    /\ ear \in Audio /\ barge \in Audio /\ primed \in Audio
    /\ buffer \in Audio /\ Len(buffer) <= MaxBuffer
    /\ utt \in Audio
    /\ extensions \in 0 .. MaxExtensions
    /\ quiet \in {"no", "part", "full"} /\ prompted \in BOOLEAN

Init ==
    /\ closed = FALSE /\ stage = "live" /\ speaking = FALSE /\ interrupted = FALSE
    /\ cur = NoTurn /\ turns = 0 /\ cancelled = {}
    /\ pc = [s \in Speaker |-> "idle"] /\ mode = [s \in Speaker |-> "say"]
    /\ left = [s \in Speaker |-> 0]
    /\ arrived = 0 /\ ear = <<>> /\ barge = <<>> /\ buffer = <<>>
    /\ utt = <<>>
    /\ extensions = 0 /\ primed = <<>>
    /\ quiet = "no" /\ prompted = FALSE

-----------------------------------------------------------------------------
(* Inbound audio.                                                          *)

MarkActivity == quiet' = "no" /\ prompted' = FALSE

(* What the endpointer may hold after it was fed fs and returned nothing.  *)
(* Speech begins at any frame; what ends after a single frame is dropped   *)
(* as a cough (min_speech_ms), two frames are always enough.               *)
Listening(fs) ==
    LET from(i) == {SubSeq(fs, k, Len(fs)) : k \in i .. Len(fs) + 1}
    IN  IF ear = <<>> THEN from(1)
        ELSE {ear \o fs} \cup (IF Len(ear) = 1 THEN from(2) ELSE {})
(* The utterances it may return with the last frame of fs: an utterance    *)
(* has at least a frame of speech and one that ends it.                    *)
Utterances(fs) == {u \in Listening(fs) : Len(u) > 1}

StartTurn(u) ==
    /\ turns < MaxTurns
    /\ turns' = turns + 1 /\ cur' = turns + 1
    /\ pc' = [pc EXCEPT ![turns + 1] = "stt"]
    /\ utt' = u
    /\ ear' = <<>>

(* _interrupt: the caller's speech becomes the start of the next utterance.*)
Interrupt(frames) ==
    /\ MarkActivity
    /\ interrupted' = TRUE /\ speaking' = FALSE
    /\ ear' = frames /\ barge' = <<>>

(* feed_media: while an answer is spoken only a barge-in is listened for.  *)
TalkOver ==
    /\ ~closed /\ arrived < MaxFrames /\ speaking
    /\ arrived' = arrived + 1
    /\ \/ Interrupt(Append(barge, arrived + 1))
       \/ /\ barge' = Append(barge, arrived + 1)
          /\ UNCHANGED <<idle, interrupted, speaking, ear>>
    /\ UNCHANGED <<flags, cur, turns, voice, cancelled, buffer, utt, tail>>

(* _buffer_inbound: a turn is thinking, hold the audio for ordered replay. *)
BufferInbound ==
    /\ ~closed /\ arrived < MaxFrames /\ ~speaking /\ Busy /\ ~interrupted
    /\ arrived' = arrived + 1
    /\ LET kept == IF Len(buffer) >= MaxBuffer THEN Tail(buffer) ELSE buffer
       IN  buffer' = Append(kept, arrived + 1)
    /\ UNCHANGED <<flags, speaking, interrupted, cur, turns, voice, cancelled, ear, barge,
                   utt, tail, idle>>

(* The turn that was interrupted still unwinds when the next one starts.   *)
CancelInterrupted_Forgotten == UNCHANGED <<cancelled, buffer>>
CancelInterrupted ==
    /\ cancelled' = IF Busy THEN cancelled \cup {cur} ELSE cancelled
    /\ buffer' = IF Busy THEN <<>> ELSE buffer

(* The endpointer gets the frame.  A turn that has just ended is finished  *)
(* first (TurnFinished), so a frame cannot overtake those held for it.     *)
Listen ==
    /\ ~closed /\ arrived < MaxFrames /\ ~speaking
    /\ cur = NoTurn \/ (Busy /\ interrupted)
    /\ arrived' = arrived + 1
    /\ \/ /\ ear' \in Listening(<<arrived + 1>>)
          /\ UNCHANGED <<interrupted, cur, turns, voice, cancelled, buffer, utt, idle>>
       \/ /\ Greeted
          /\ \E u \in Utterances(<<arrived + 1>>) : StartTurn(u)
          /\ MarkActivity
          /\ CancelInterrupted
          /\ interrupted' = FALSE
          /\ UNCHANGED <<mode, left>>
    /\ UNCHANGED <<flags, speaking, barge, tail>>

(* _turn_finished of a turn whose held audio is stale, and of one whose    *)
(* held audio is fed to the endpointer (_replay_inbound).                  *)
Stale_AfterInterrupt == closed \/ cur \in cancelled
Stale == closed \/ cur \in cancelled \/ interrupted

TurnDiscarded ==
    /\ cur # NoTurn /\ pc[cur] = "done" /\ Stale
    /\ cur' = NoTurn /\ buffer' = <<>>
    /\ UNCHANGED <<flags, speaking, interrupted, turns, voice, cancelled, arrived, ear, barge,
                   utt, tail, idle>>

TurnFinished ==
    /\ cur # NoTurn /\ pc[cur] = "done" /\ ~Stale
    /\ \/ /\ buffer' = <<>> /\ cur' = NoTurn
          /\ ear' \in IF buffer = <<>> THEN {ear} ELSE Listening(buffer)
          /\ UNCHANGED <<turns, pc, utt, idle>>
       \/ \E k \in DOMAIN buffer :
          /\ \E u \in Utterances(SubSeq(buffer, 1, k)) : StartTurn(u)
          /\ buffer' = SubSeq(buffer, k + 1, Len(buffer))
          /\ MarkActivity
    /\ UNCHANGED <<flags, speaking, interrupted, mode, left, cancelled, arrived, barge,
                   tail>>

-----------------------------------------------------------------------------
(* Speech.                                                                 *)

(* speak and _stream_reply up to their first await.                        *)
Speaks(s, p, m, n) ==
    /\ pc' = [pc EXCEPT ![s] = p]
    /\ mode' = [mode EXCEPT ![s] = m]
    /\ left' = [left EXCEPT ![s] = n]
    /\ speaking' = TRUE /\ barge' = <<>>

Speak(s, m, n) ==
    IF closed
    THEN /\ pc' = [pc EXCEPT ![s] = IF m = "last" THEN "hangup" ELSE "done"]
         /\ UNCHANGED <<mode, left, speaking, barge>>
    ELSE Speaks(s, "wait", m, n)

(* The task of the greeting is created with the call: it runs long before  *)
(* an utterance, or a stretch of silence, can be over.                     *)
Greet ==
    /\ pc[Greeting] = "idle"
    /\ Speak(Greeting, "say", MaxSentences)
    /\ UNCHANGED <<flags, interrupted, cur, turns, cancelled, arrived, ear, buffer, utt,
                   tail, idle>>

(* Headers of the answer arrived; _speak_sentences looks at the flags.     *)
Opened(s) ==
    /\ pc[s] = "open" /\ s \notin cancelled
    /\ \/ /\ pc' = [pc EXCEPT ![s] = IF closed \/ ~speaking THEN "close" ELSE "wait"]
          /\ UNCHANGED mode
       \/ /\ pc' = [pc EXCEPT ![s] = "close"] /\ mode' = [mode EXCEPT ![s] = "broken"]
    /\ UNCHANGED <<flags, speaking, interrupted, cur, turns, left, cancelled, hear, utt,
                   tail, idle>>

(* SentencePipeline.__anext__ returns: a sentence, the end, or the error of *)
(* the source.  A sentence that cannot be synthesized is skipped.          *)
NextSentence(s) ==
    /\ pc[s] = "wait" /\ s \notin cancelled
    /\ \/ /\ left[s] > 0
          /\ pc' = [pc EXCEPT ![s] = IF closed \/ ~speaking THEN "close" ELSE "play"]
          /\ left' = [left EXCEPT ![s] = @ - 1]
          /\ UNCHANGED mode
       \/ /\ pc' = [pc EXCEPT ![s] = "close"]
          /\ mode' \in {mode} \cup
                (IF mode[s] = "stream" THEN {[mode EXCEPT ![s] = "broken"]} ELSE {})
          /\ UNCHANGED left
    /\ UNCHANGED <<flags, speaking, interrupted, cur, turns, cancelled, hear, utt, tail,
                   idle>>

(* _play_synthesized: the flags are looked at before a frame is sent.      *)
SendFrame(s) ==
    /\ pc[s] = "play" /\ s \notin cancelled
    /\ IF closed \/ ~speaking
       THEN pc' = [pc EXCEPT ![s] = "close"]
       ELSE pc' = [pc EXCEPT ![s] = "wait"]
    /\ UNCHANGED <<flags, speaking, interrupted, cur, turns, mode, left, cancelled, hear,
                   utt, tail, idle>>

(* The finally block of speak and _stream_reply, and what follows it: an   *)
(* apology, the hangup after a last text, the watchdog's next round, or    *)
(* nothing.  A cancel that comes while aclose waits for the look-ahead is  *)
(* dropped there, and its task goes on; elsewhere it ends the task.        *)
WhatFollows(s) == CASE mode[s] = "prompt" -> "idle"
                    [] mode[s] = "last"   -> "hangup"
                    [] OTHER              -> "done"

AfterSpeech(s) == IF s \in cancelled THEN {"done", WhatFollows(s)} ELSE {WhatFollows(s)}

(* The cancel was dropped: the task is on its way to the hangup.           *)
Dropped(s) == s \in cancelled /\ pc[s] = "hangup" /\ mode[s] = "last"

(* An interruption that waits in the endpointer stays there.               *)
Heard_Forgotten == <<>>
Heard           == IF interrupted THEN ear ELSE <<>>

(* The idle clock restarts, the prompt stays given.                        *)
RestartClock_Prompt == MarkActivity
RestartClock        == quiet' = "no" /\ UNCHANGED prompted

Close(s) ==
    /\ pc[s] = "close"
    /\ RestartClock
    /\ ear' = Heard
    /\ IF mode[s] = "broken" /\ s \notin cancelled /\ ~closed
       THEN Speaks(s, "wait", "say", 1)
       ELSE /\ \E p \in AfterSpeech(s) : pc' = [pc EXCEPT ![s] = p]
            /\ mode' = IF s \in cancelled THEN mode ELSE [mode EXCEPT ![s] = "say"]
            /\ left' = [left EXCEPT ![s] = 0]
            /\ speaking' = FALSE
            /\ UNCHANGED <<barge>>
    /\ UNCHANGED <<flags, interrupted, cur, turns, cancelled, arrived, buffer, utt, tail>>

Hangup(s) ==
    /\ pc[s] = "hangup" /\ (s \notin cancelled \/ Dropped(s))
    /\ pc' = [pc EXCEPT ![s] = "done"]
    /\ closed' = TRUE
    /\ UNCHANGED <<stage, speaking, interrupted, cur, turns, mode, left, cancelled, hear, utt,
                   tail, idle>>

-----------------------------------------------------------------------------
(* A turn.                                                                 *)

(* An extended utterance with little new audio is not transcribed again.   *)
Reuses == extensions > 0 /\ Len(utt) < Len(primed) + NewAudio
Text   == IF Reuses THEN primed ELSE utt
Extensions == IF Reuses THEN MaxExtensions ELSE extensions

Fails(t) ==
    /\ Speak(t, "say", 1)
    /\ utt' = <<>>
    /\ UNCHANGED <<flags, interrupted, cur, turns, cancelled, arrived, ear, buffer, tail, idle>>

(* _run_turn up to the answer: nothing was said, the tail is incomplete    *)
(* and the endpointer goes on with the same audio, or the text is answered *)
(* by the flow or by the streaming API.                                    *)
Transcribed(t) ==
    /\ pc[t] = "stt" /\ t \notin cancelled
    /\ \/ /\ ~Reuses
          /\ extensions' = 0
          /\ pc' = [pc EXCEPT ![t] = "done"]
          /\ UNCHANGED <<ear, primed, mode, left, speaking, barge>>
       \/ /\ Extensions < MaxExtensions
          /\ extensions' = Extensions + 1
          /\ primed' = utt /\ ear' = utt
          /\ pc' = [pc EXCEPT ![t] = "done"]
          /\ UNCHANGED <<mode, left, speaking, barge>>
       \/ /\ extensions' = 0
          /\ \/ /\ pc' = [pc EXCEPT ![t] = "think"]
                /\ UNCHANGED <<mode, left, speaking, barge>>
             \/ Speaks(t, "open", "stream", MaxSentences)
          /\ UNCHANGED <<ear, primed>>
    /\ utt' = <<>>
    /\ UNCHANGED <<flags, interrupted, cur, turns, cancelled, arrived, buffer, idle>>

TranscribeFails(t) == pc[t] = "stt" /\ t \notin cancelled /\ ~Reuses /\ Fails(t)
FlowFails(t)       == pc[t] = "think" /\ t \notin cancelled /\ Fails(t)

FlowReply(t) ==
    /\ pc[t] = "think" /\ t \notin cancelled
    /\ \E m \in {"say", "last"} : Speak(t, m, MaxSentences)
    /\ UNCHANGED <<flags, interrupted, cur, turns, cancelled, arrived, ear, buffer, utt,
                   tail, idle>>

(* The CancelledError of a task; inside speech the finally block follows.  *)
Unwind_NoFinally(s) ==
    /\ s \in cancelled /\ ~Dropped(s)
    /\ pc[s] \notin {"close", "done"}
    /\ pc' = [pc EXCEPT ![s] = "done"]
    /\ UNCHANGED <<flags, speaking, interrupted, cur, turns, mode, left, cancelled, hear, utt,
                   tail, idle>>

Unwind(s) ==
    /\ s \in cancelled /\ ~Dropped(s)
    /\ pc[s] \notin {"close", "done"}
    /\ pc' = [pc EXCEPT ![s] = IF Active(s) THEN "close" ELSE "done"]
    /\ mode' = [mode EXCEPT ![s] = "say"]
    /\ UNCHANGED <<flags, speaking, interrupted, cur, turns, left, cancelled, hear, utt, tail,
                   idle>>

-----------------------------------------------------------------------------
(* The idle watchdog, and the end of the call.                             *)

(* NANO_CLAW_PHONE_IDLE_S passes without a change of last_activity.  It is *)
(* longer than the longest utterance (max_utterance_ms), so at some moment *)
(* of the stretch the caller was between utterances, or no audio came.     *)
StretchPasses ==
    /\ ~closed /\ Greeted
    /\ \/ /\ quiet = "no" /\ (ear = <<>> \/ arrived = MaxFrames)
          /\ quiet' = "part"
       \/ quiet = "part" /\ quiet' = "full"
    /\ UNCHANGED <<flags, speaking, interrupted, cur, turns, voice, cancelled, hear, utt, tail,
                   prompted>>

WatchdogStops ==
    /\ pc[Watchdog] = "idle" /\ closed
    /\ pc' = [pc EXCEPT ![Watchdog] = "done"]
    /\ UNCHANGED <<flags, speaking, interrupted, cur, turns, mode, left, cancelled, hear, utt,
                   tail, idle>>

IdleWatchdog ==
    /\ pc[Watchdog] = "idle" /\ ~closed
    /\ ~speaking /\ ~Busy /\ quiet = "full"
    /\ prompted' = TRUE
    /\ Speaks(Watchdog, "wait", IF prompted THEN "last" ELSE "prompt", 1)
    /\ UNCHANGED <<flags, interrupted, cur, turns, cancelled, arrived, ear, buffer, utt, tail,
                   quiet>>

(* The media stream stopped.  close() sets the flags and closes the        *)
(* pipelines, which cancels whoever waits for a sentence that is not ready *)
(* yet ...                                                                 *)
CloseCall ==
    /\ stage = "live" /\ stage' = "closing"
    /\ closed' = TRUE /\ speaking' = FALSE
    /\ \E late \in SUBSET {s \in Speaker : pc[s] = "wait"} : cancelled' = cancelled \cup late
    /\ UNCHANGED <<interrupted, cur, turns, voice, hear, utt, tail, idle>>

(* ... then it cancels the turn and the watchdog.                          *)
CloseTasks ==
    /\ stage = "closing" /\ stage' = "closed"
    /\ buffer' = <<>>
    /\ cancelled' = cancelled \cup {Watchdog} \cup IF Busy THEN {cur} ELSE {}
    /\ UNCHANGED <<closed, speaking, interrupted, cur, turns, voice, arrived, ear, barge, utt,
                   tail, idle>>

-----------------------------------------------------------------------------
Speech(s) ==
    Opened(s) \/ NextSentence(s) \/ SendFrame(s) \/ Close(s) \/ Hangup(s) \/ Unwind(s)
Answer(t) ==
    Transcribed(t) \/ TranscribeFails(t) \/ FlowReply(t) \/ FlowFails(t)

Next ==
    \/ TalkOver \/ BufferInbound \/ Listen \/ TurnDiscarded \/ TurnFinished
    \/ Greet \/ StretchPasses \/ IdleWatchdog \/ WatchdogStops
    \/ CloseCall \/ CloseTasks
    \/ \E s \in Speaker : Speech(s)
    \/ \E t \in Turn : Answer(t)

Spec == Init /\ [][Next]_vars

(* Tasks and callbacks run, timers fire, and every await has a timeout     *)
(* (120 s).  The line delivers its frames; the caller need not hang up.    *)
Fairness ==
    /\ \A s \in Speaker : WF_vars(Speech(s))
    /\ \A t \in Turn : WF_vars(Answer(t))
    /\ WF_vars(TurnDiscarded \/ TurnFinished) /\ WF_vars(Greet) /\ WF_vars(CloseTasks)
    /\ WF_vars(TalkOver \/ BufferInbound \/ Listen)
    /\ WF_vars(StretchPasses) /\ WF_vars(IdleWatchdog) /\ WF_vars(WatchdogStops)
FairSpec == Spec /\ Fairness

-----------------------------------------------------------------------------
InOrder(a) == \A i, j \in DOMAIN a : i < j => a[i] < a[j]

(* Caller audio reaches the endpointer in the order it arrived: a new frame *)
(* never overtakes the ones held during a turn, and held audio older than  *)
(* an interruption is not replayed behind it (comments in feed_media and   *)
(* _turn_finished).                                                        *)
AudioInOrder ==
    /\ InOrder(ear) /\ InOrder(barge)
    /\ ~interrupted => InOrder(ear \o buffer)

(* Audio is only held while there is a turn whose end will replay it.      *)
HeldForATurn == buffer # <<>> => cur # NoTurn

(* The line is deaf (speaking) only while somebody speaks who will end it. *)
NeverDeaf == speaking => \E s \in Speaker : Active(s)

(* At most one turn that nobody cancelled is under way (half-duplex).      *)
OneTurn == \A t \in Turn : pc[t] \notin {"idle", "done"} => t = cur \/ t \in cancelled

(* While an interruption waits for its turn, whoever unwinds leaves the    *)
(* endpointer alone: only newer audio can take the place of what it holds, *)
(* or the tail of an utterance that is being extended.                     *)
InterruptionKept ==
    [][interrupted /\ interrupted' /\ ear # <<>>
           => IsPrefix(ear, ear') \/ arrived' > arrived \/ extensions' > extensions]_vars

(* A call whose caller has fallen silent (MaxFrames frames is all there is) *)
(* is prompted and then hung up on, it does not stay open prompting.       *)
SilentCallEnds == <>closed
=============================================================================
