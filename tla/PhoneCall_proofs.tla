-------------------------- MODULE PhoneCall_proofs --------------------------
(***************************************************************************)
(* Proofs about PhoneCall, for calls of any length: the order of caller    *)
(* audio through buffer, replay and interruptions, one turn at a time, and *)
(* that the line is deaf only while somebody speaks.                       *)
(***************************************************************************)
EXTENDS PhoneCall, SequenceTheorems, TLAPS

LEMMA NextCases ==
    ASSUME Next
    PROVE  \/ TalkOver \/ BufferInbound \/ Listen \/ TurnDiscarded \/ TurnFinished
           \/ Greet \/ StretchPasses \/ IdleWatchdog \/ WatchdogStops
           \/ CloseCall \/ CloseTasks
           \/ \E s \in Speaker : \/ Opened(s) \/ NextSentence(s) \/ SendFrame(s)
                                 \/ Close(s) \/ Hangup(s) \/ Unwind(s)
           \/ \E t \in Turn : \/ Transcribed(t) \/ TranscribeFails(t)
                              \/ FlowReply(t) \/ FlowFails(t)
  BY DEF Next, Speech, Answer

LEMMA SpeakerIn == /\ Turn \subseteq Speaker /\ Turn \subseteq Nat \ {0}
                   /\ Greeting \in Speaker \ Turn /\ Watchdog \in Speaker \ Turn
                   /\ Greeting # Watchdog /\ NoTurn \notin Turn /\ NoTurn \in Speaker
  BY CallAssumption DEF Turn, Speaker, Greeting, Watchdog, NoTurn

-----------------------------------------------------------------------------
(* Audio.  A part of a piece of audio is a stretch of it without gaps.     *)

Part(a, b) ==
    /\ a \in Audio
    /\ \E d \in Nat : /\ d + Len(a) <= Len(b)
                      /\ \A i \in 1 .. Len(a) : a[i] = b[d + i]

LEMMA CutIsPart ==
    ASSUME NEW a \in Audio, NEW m \in Nat \ {0}, NEW n \in Nat, n <= Len(a), m <= n + 1
    PROVE  /\ Part(SubSeq(a, m, n), a)
           /\ Len(SubSeq(a, m, n)) = n - m + 1
           /\ \A i \in 1 .. n - m + 1 : SubSeq(a, m, n)[i] = a[m + i - 1]
  <1>1. \A i \in m .. n : a[i] \in Frame
    BY DEF Audio
  <1>2. /\ SubSeq(a, m, n) \in Audio
        /\ Len(SubSeq(a, m, n)) = n - m + 1
        /\ \A i \in 1 .. n - m + 1 : SubSeq(a, m, n)[i] = a[m + i - 1]
    <2>1. /\ SubSeq(a, m, n) \in Seq(Frame)
          /\ Len(SubSeq(a, m, n)) = IF m <= n THEN n - m + 1 ELSE 0
          /\ \A i \in 1 .. n - m + 1 : SubSeq(a, m, n)[i] = a[m + i - 1]
      BY <1>1, SubSeqProperties, SMT
    <2> QED  BY <2>1 DEF Audio
  <1>3. m - 1 \in Nat /\ (m - 1) + (n - m + 1) <= Len(a)
    BY DEF Audio
  <1>4. \A i \in 1 .. Len(SubSeq(a, m, n)) : SubSeq(a, m, n)[i] = a[(m - 1) + i]
    BY <1>2
  <1> QED  BY <1>2, <1>3, <1>4 DEF Part

LEMMA TailIsPart ==
    ASSUME NEW a \in Audio, a # <<>>
    PROVE  Part(Tail(a), a) /\ Len(Tail(a)) = Len(a) - 1
  <1>1. Len(a) \in Nat \ {0} /\ Tail(a) = SubSeq(a, 2, Len(a))
    BY TailIsSubSeq, EmptySeq DEF Audio
  <1>2. 2 \in Nat \ {0} /\ 2 <= Len(a) + 1 /\ Len(a) - 2 + 1 = Len(a) - 1
    BY <1>1
  <1>3. Part(SubSeq(a, 2, Len(a)), a) /\ Len(SubSeq(a, 2, Len(a))) = Len(a) - 2 + 1
    BY <1>1, <1>2, CutIsPart
  <1> QED  BY <1>1, <1>2, <1>3

(* What the endpointer holds after it was fed is a part of what it was     *)
(* fed, or follows what it held.                                           *)
LEMMA ListeningIs ==
    ASSUME ear \in Audio, NEW fs \in Audio, NEW e \in Listening(fs)
    PROVE  e \in Audio /\ (Part(e, fs) \/ e = ear \o fs)
  <1>1. Len(fs) \in Nat
    BY DEF Audio
  <1>2. ASSUME NEW k \in 1 .. Len(fs) + 1 PROVE Part(SubSeq(fs, k, Len(fs)), fs)
    BY <1>1, CutIsPart
  <1>3. CASE e = ear \o fs
    BY <1>3 DEF Audio
  <1>4. CASE e # ear \o fs
    <2>1. PICK k \in 1 .. Len(fs) + 1 : e = SubSeq(fs, k, Len(fs))
      BY <1>1, <1>4 DEF Listening
    <2> QED  BY <1>2, <2>1 DEF Part
  <1> QED  BY <1>3, <1>4

LEMMA UtterancesAre ==
    ASSUME NEW fs, NEW u \in Utterances(fs)
    PROVE  u \in Listening(fs)
  BY DEF Utterances

-----------------------------------------------------------------------------
(* Types.                                                                  *)

LEMMA NewTurn ==
    ASSUME TypeOK, turns < MaxTurns
    PROVE  turns + 1 \in Turn /\ turns + 1 \in Speaker /\ turns + 1 \in 0 .. MaxTurns
  BY CallAssumption DEF TypeOK, Turn, Speaker

LEMMA StartTurnTypes ==
    ASSUME TypeOK, NEW u \in Audio, StartTurn(u)
    PROVE  /\ turns' \in 0 .. MaxTurns /\ cur' \in Turn
           /\ pc' \in [Speaker -> Pcs] /\ utt' \in Audio /\ ear' \in Audio
  <1>1. turns + 1 \in Turn /\ turns + 1 \in Speaker /\ turns + 1 \in 0 .. MaxTurns
    BY NewTurn DEF StartTurn
  <1> QED  BY <1>1 DEF StartTurn, TypeOK, Pcs, Audio

LEMMA SpeaksTypes ==
    ASSUME TypeOK, NEW s \in Speaker, NEW p \in Pcs, NEW m \in Modes,
           NEW n \in 0 .. MaxSentences, Speaks(s, p, m, n)
    PROVE  /\ pc' \in [Speaker -> Pcs] /\ mode' \in [Speaker -> Modes]
           /\ left' \in [Speaker -> 0 .. MaxSentences]
           /\ speaking' \in BOOLEAN /\ barge' \in Audio
  BY DEF Speaks, TypeOK, Audio

LEMMA SpeakTypes ==
    ASSUME TypeOK, NEW s \in Speaker, NEW m \in Modes, NEW n \in 0 .. MaxSentences,
           Speak(s, m, n)
    PROVE  /\ pc' \in [Speaker -> Pcs] /\ mode' \in [Speaker -> Modes]
           /\ left' \in [Speaker -> 0 .. MaxSentences]
           /\ speaking' \in BOOLEAN /\ barge' \in Audio
  <1>1. CASE closed
    BY <1>1 DEF Speak, TypeOK, Pcs
  <1>2. CASE ~closed
    BY <1>2, SpeaksTypes DEF Speak, Pcs
  <1> QED  BY <1>1, <1>2

LEMMA Sentence == 1 \in 0 .. MaxSentences /\ MaxSentences \in 0 .. MaxSentences
  BY CallAssumption

LEMMA FailsTypes ==
    ASSUME TypeOK, NEW t \in Turn, Fails(t)
    PROVE  TypeOK'
  <1>1. t \in Speaker /\ "say" \in Modes
    BY SpeakerIn DEF Modes
  <1>2. /\ pc' \in [Speaker -> Pcs] /\ mode' \in [Speaker -> Modes]
        /\ left' \in [Speaker -> 0 .. MaxSentences]
        /\ speaking' \in BOOLEAN /\ barge' \in Audio
    BY <1>1, Sentence, SpeakTypes DEF Fails
  <1> QED  BY <1>2 DEF Fails, TypeOK, flags, tail, idle, Audio

(* The next frame to arrive.                                               *)
LEMMA NextFrame ==
    ASSUME TypeOK, arrived < MaxFrames
    PROVE  arrived + 1 \in Frame /\ arrived + 1 \in 0 .. MaxFrames /\ <<arrived + 1>> \in Audio
  BY CallAssumption DEF TypeOK, Frame, Audio

LEMMA SameTypes ==
    ASSUME TypeOK, UNCHANGED vars
    PROVE  TypeOK'
  BY DEF TypeOK, vars, Audio

LEMMA AudioTypes ==
    ASSUME TypeOK, TalkOver \/ BufferInbound \/ Listen \/ TurnDiscarded \/ TurnFinished
    PROVE  TypeOK'
  <1>1. CASE TalkOver
    <2>1. arrived + 1 \in Frame /\ arrived + 1 \in 0 .. MaxFrames
      BY <1>1, NextFrame DEF TalkOver
    <2>2. Append(barge, arrived + 1) \in Audio /\ <<>> \in Audio
      BY <2>1 DEF TypeOK, Audio
    <2>3. /\ interrupted' \in BOOLEAN /\ speaking' \in BOOLEAN
          /\ ear' \in Audio /\ barge' \in Audio
          /\ quiet' \in {"no", "part", "full"} /\ prompted' \in BOOLEAN
      BY <1>1, <2>2 DEF TalkOver, Interrupt, MarkActivity, TypeOK, idle
    <2> QED  BY <1>1, <2>1, <2>3 DEF TalkOver, TypeOK, flags, voice, tail, Audio
  <1>2. CASE BufferInbound
    <2> DEFINE kept == IF Len(buffer) >= MaxBuffer THEN Tail(buffer) ELSE buffer
    <2>1. arrived + 1 \in Frame /\ arrived + 1 \in 0 .. MaxFrames
      BY <1>2, NextFrame DEF BufferInbound
    <2>2. kept \in Audio /\ Len(kept) < MaxBuffer
      <3>1. CASE Len(buffer) >= MaxBuffer
        <4>1. buffer # <<>>
          BY <3>1, CallAssumption, EmptySeq DEF TypeOK
        <4> QED  BY <3>1, <4>1, TailIsPart, CallAssumption DEF TypeOK, Part, Audio
      <3>2. CASE ~(Len(buffer) >= MaxBuffer)
        BY <3>2, CallAssumption DEF TypeOK, Audio
      <3> QED  BY <3>1, <3>2
    <2>3. buffer' = Append(kept, arrived + 1)
      BY <1>2 DEF BufferInbound
    <2> HIDE DEF kept
    <2>4. buffer' \in Audio /\ Len(buffer') <= MaxBuffer
      BY <2>1, <2>2, <2>3, CallAssumption DEF Audio
    <2> QED  BY <1>2, <2>1, <2>4 DEF BufferInbound, TypeOK, flags, voice, tail, idle, Audio
  <1>3. CASE Listen
    <2>1. arrived' \in 0 .. MaxFrames /\ <<arrived + 1>> \in Audio
      BY <1>3, NextFrame DEF Listen
    <2>2. ASSUME NEW e \in Listening(<<arrived + 1>>) PROVE e \in Audio
      BY <2>1, ListeningIs DEF TypeOK
    <2>3. CASE ear' \in Listening(<<arrived + 1>>) /\
               UNCHANGED <<interrupted, cur, turns, voice, cancelled, buffer, utt, idle>>
      BY <1>3, <2>1, <2>2, <2>3 DEF Listen, TypeOK, flags, voice, tail, idle
    <2>4. CASE \E u \in Utterances(<<arrived + 1>>) : /\ StartTurn(u)
                                                     /\ MarkActivity /\ CancelInterrupted
                                                     /\ interrupted' = FALSE
                                                     /\ UNCHANGED <<mode, left>>
      <3>1. PICK u \in Audio : StartTurn(u)
        BY <2>2, <2>4, UtterancesAre
      <3>2. /\ turns' \in 0 .. MaxTurns /\ cur' \in Turn
            /\ pc' \in [Speaker -> Pcs] /\ utt' \in Audio /\ ear' \in Audio
        BY <3>1, StartTurnTypes
      <3>3. cancelled' \subseteq Speaker /\ buffer' \in Audio /\ Len(buffer') <= MaxBuffer
        BY <2>4, CallAssumption, SpeakerIn, EmptySeq DEF CancelInterrupted, TypeOK, Busy, Audio
      <3>4. quiet' \in {"no", "part", "full"} /\ prompted' \in BOOLEAN
        BY <2>4 DEF MarkActivity
      <3> QED  BY <1>3, <2>1, <2>4, <3>2, <3>3, <3>4 DEF Listen, TypeOK, flags, tail
    <2> QED  BY <1>3, <2>3, <2>4 DEF Listen
  <1>4. CASE TurnDiscarded
    BY <1>4, CallAssumption, EmptySeq
       DEF TurnDiscarded, TypeOK, flags, voice, tail, idle, Audio
  <1>5. CASE TurnFinished
    <2>1. buffer \in Audio /\ <<>> \in Audio /\ Len(<<>>) <= MaxBuffer
      BY CallAssumption, EmptySeq DEF TypeOK, Audio
    <2>2. CASE /\ buffer' = <<>> /\ cur' = NoTurn
               /\ ear' \in IF buffer = <<>> THEN {ear} ELSE Listening(buffer)
               /\ UNCHANGED <<turns, pc, utt, idle>>
      <3>1. ear' \in Audio
        BY <2>1, <2>2, ListeningIs DEF TypeOK
      <3> QED  BY <1>5, <2>1, <2>2, <3>1 DEF TurnFinished, TypeOK, flags, tail, idle
    <2>3. CASE \E k \in DOMAIN buffer :
                  /\ \E u \in Utterances(SubSeq(buffer, 1, k)) : StartTurn(u)
                  /\ buffer' = SubSeq(buffer, k + 1, Len(buffer))
                  /\ MarkActivity
      <3>1. PICK k \in DOMAIN buffer :
                  /\ \E u \in Utterances(SubSeq(buffer, 1, k)) : StartTurn(u)
                  /\ buffer' = SubSeq(buffer, k + 1, Len(buffer))
                  /\ MarkActivity
        BY <2>3
      <3>2. /\ k \in Nat \ {0} /\ k + 1 \in Nat \ {0} /\ k <= Len(buffer)
            /\ Len(buffer) \in Nat /\ k + 1 <= Len(buffer) + 1
        BY <2>1, LenProperties DEF Audio
      <3>3. SubSeq(buffer, 1, k) \in Audio
        BY <2>1, <3>2, CutIsPart DEF Part
      <3>4. buffer' \in Audio /\ Len(buffer') = Len(buffer) - (k + 1) + 1
        BY <2>1, <3>1, <3>2, CutIsPart DEF Part
      <3>5. Len(buffer') <= MaxBuffer
        BY <3>2, <3>4, CallAssumption DEF TypeOK
      <3>6. PICK u \in Audio : StartTurn(u)
        BY <3>1, <3>3, ListeningIs, UtterancesAre DEF TypeOK
      <3>7. /\ turns' \in 0 .. MaxTurns /\ cur' \in Turn
            /\ pc' \in [Speaker -> Pcs] /\ utt' \in Audio /\ ear' \in Audio
        BY <3>6, StartTurnTypes
      <3>8. quiet' \in {"no", "part", "full"} /\ prompted' \in BOOLEAN
        BY <3>1 DEF MarkActivity
      <3> QED  BY <1>5, <3>4, <3>5, <3>7, <3>8 DEF TurnFinished, TypeOK, flags, tail
    <2> QED  BY <1>5, <2>2, <2>3 DEF TurnFinished
  <1> QED  BY <1>1, <1>2, <1>3, <1>4, <1>5

(* What becomes of a speaker that has closed its pipeline.                 *)
LEMMA Afterwards ==
    ASSUME NEW s \in Speaker
    PROVE  AfterSpeech(s) \subseteq {"idle", "hangup", "done"}
  <1>1. WhatFollows(s) \in {"idle", "hangup", "done"}
    BY DEF WhatFollows
  <1> QED  BY <1>1 DEF AfterSpeech

LEMMA SpeechTypes ==
    ASSUME TypeOK, NEW s \in Speaker,
           \/ Opened(s) \/ NextSentence(s) \/ SendFrame(s) \/ Close(s) \/ Hangup(s) \/ Unwind(s)
    PROVE  TypeOK'
  <1>1. CASE Opened(s)
    <2>1. pc' \in [Speaker -> Pcs] /\ mode' \in [Speaker -> Modes]
      BY <1>1 DEF Opened, TypeOK, Pcs, Modes
    <2> QED  BY <1>1, <2>1 DEF Opened, TypeOK, flags, hear, tail, idle
  <1>2. CASE NextSentence(s)
    <2>1. pc' \in [Speaker -> Pcs] /\ mode' \in [Speaker -> Modes]
      BY <1>2 DEF NextSentence, TypeOK, Pcs, Modes
    <2>2. left' \in [Speaker -> 0 .. MaxSentences]
      BY <1>2, CallAssumption DEF NextSentence, TypeOK
    <2> QED  BY <1>2, <2>1, <2>2 DEF NextSentence, TypeOK, flags, hear, tail, idle
  <1>3. CASE SendFrame(s)
    BY <1>3 DEF SendFrame, TypeOK, Pcs, flags, hear, tail, idle
  <1>4. CASE Close(s)
    <2>1. quiet' \in {"no", "part", "full"} /\ prompted' \in BOOLEAN /\ ear' \in Audio
      BY <1>4 DEF Close, RestartClock, Heard, TypeOK, Audio
    <2>2. CASE mode[s] = "broken" /\ s \notin cancelled /\ ~closed
      <3>1. "wait" \in Pcs /\ "say" \in Modes
        BY DEF Pcs, Modes
      <3>2. Speaks(s, "wait", "say", 1)
        BY <1>4, <2>2 DEF Close
      <3>3. /\ pc' \in [Speaker -> Pcs] /\ mode' \in [Speaker -> Modes]
            /\ left' \in [Speaker -> 0 .. MaxSentences]
            /\ speaking' \in BOOLEAN /\ barge' \in Audio
        BY <3>1, <3>2, Sentence, SpeaksTypes
      <3> QED  BY <1>4, <2>1, <3>3 DEF Close, TypeOK, flags, tail
    <2>3. CASE ~(mode[s] = "broken" /\ s \notin cancelled /\ ~closed)
      <3>1. PICK p \in AfterSpeech(s) : pc' = [pc EXCEPT ![s] = p]
        BY <1>4, <2>3 DEF Close
      <3>2. /\ pc' \in [Speaker -> Pcs] /\ mode' \in [Speaker -> Modes]
            /\ left' \in [Speaker -> 0 .. MaxSentences]
            /\ speaking' \in BOOLEAN /\ barge' \in Audio
        <4>1. /\ mode' = IF s \in cancelled THEN mode ELSE [mode EXCEPT ![s] = "say"]
              /\ left' = [left EXCEPT ![s] = 0]
              /\ speaking' = FALSE /\ UNCHANGED barge
          BY <1>4, <2>3 DEF Close
        <4>2. 0 \in 0 .. MaxSentences /\ "say" \in Modes /\ p \in Pcs
          BY <3>1, Afterwards, CallAssumption DEF Modes, Pcs
        <4> QED  BY <3>1, <4>1, <4>2 DEF TypeOK, Audio
      <3> QED  BY <1>4, <2>1, <3>2 DEF Close, TypeOK, flags, tail
    <2> QED  BY <2>2, <2>3
  <1>5. CASE Hangup(s)
    BY <1>5 DEF Hangup, TypeOK, Pcs, hear, tail, idle
  <1>6. CASE Unwind(s)
    <2>1. pc' \in [Speaker -> Pcs] /\ mode' \in [Speaker -> Modes]
      BY <1>6 DEF Unwind, TypeOK, Pcs, Modes
    <2> QED  BY <1>6, <2>1 DEF Unwind, TypeOK, flags, hear, tail, idle
  <1> QED  BY <1>1, <1>2, <1>3, <1>4, <1>5, <1>6

LEMMA AnswerTypes ==
    ASSUME TypeOK, NEW t \in Turn,
           Transcribed(t) \/ TranscribeFails(t) \/ FlowReply(t) \/ FlowFails(t)
    PROVE  TypeOK'
  <1>1. t \in Speaker /\ {"say", "last", "stream"} \subseteq Modes /\ {"done", "think", "open"} \subseteq Pcs
    BY SpeakerIn DEF Modes, Pcs
  <1>2. CASE Transcribed(t)
    <2>1. utt' \in Audio /\ primed' \in Audio /\ ear' \in Audio
      BY <1>2 DEF Transcribed, TypeOK, Audio
    <2>2. extensions' \in 0 .. MaxExtensions
      BY <1>2, CallAssumption DEF Transcribed, Extensions, TypeOK
    <2>3. /\ pc' \in [Speaker -> Pcs] /\ mode' \in [Speaker -> Modes]
          /\ left' \in [Speaker -> 0 .. MaxSentences]
          /\ speaking' \in BOOLEAN /\ barge' \in Audio
      <3>1. CASE Speaks(t, "open", "stream", MaxSentences)
        BY <1>1, <3>1, Sentence, SpeaksTypes
      <3>2. CASE /\ pc' = [pc EXCEPT ![t] = "done"] \/ pc' = [pc EXCEPT ![t] = "think"]
                 /\ UNCHANGED <<mode, left, speaking, barge>>
        BY <1>1, <3>2 DEF TypeOK
      <3> QED  BY <1>2, <3>1, <3>2 DEF Transcribed
    <2> QED  BY <1>2, <2>1, <2>2, <2>3 DEF Transcribed, TypeOK, flags, idle
  <1>3. CASE TranscribeFails(t) \/ FlowFails(t)
    BY <1>3, FailsTypes DEF TranscribeFails, FlowFails
  <1>4. CASE FlowReply(t)
    <2>1. /\ pc' \in [Speaker -> Pcs] /\ mode' \in [Speaker -> Modes]
          /\ left' \in [Speaker -> 0 .. MaxSentences]
          /\ speaking' \in BOOLEAN /\ barge' \in Audio
      BY <1>1, <1>4, Sentence, SpeakTypes DEF FlowReply
    <2> QED  BY <1>4, <2>1 DEF FlowReply, TypeOK, flags, tail, idle
  <1> QED  BY <1>2, <1>3, <1>4 DEF TypeOK

LEMMA CallTypes ==
    ASSUME TypeOK,
           \/ Greet \/ StretchPasses \/ IdleWatchdog \/ WatchdogStops \/ CloseCall \/ CloseTasks
    PROVE  TypeOK'
  <1>1. {"say", "last", "prompt"} \subseteq Modes /\ {"wait", "done"} \subseteq Pcs
    BY DEF Modes, Pcs
  <1>2. CASE Greet
    <2>1. /\ pc' \in [Speaker -> Pcs] /\ mode' \in [Speaker -> Modes]
          /\ left' \in [Speaker -> 0 .. MaxSentences]
          /\ speaking' \in BOOLEAN /\ barge' \in Audio
      BY <1>1, <1>2, Sentence, SpeakerIn, SpeakTypes DEF Greet
    <2> QED  BY <1>2, <2>1 DEF Greet, TypeOK, flags, tail, idle
  <1>3. CASE StretchPasses
    BY <1>3 DEF StretchPasses, TypeOK, flags, voice, hear, tail
  <1>4. CASE IdleWatchdog
    <2>1. PICK m \in Modes : Speaks(Watchdog, "wait", m, 1)
      BY <1>1, <1>4 DEF IdleWatchdog
    <2>2. /\ pc' \in [Speaker -> Pcs] /\ mode' \in [Speaker -> Modes]
          /\ left' \in [Speaker -> 0 .. MaxSentences]
          /\ speaking' \in BOOLEAN /\ barge' \in Audio
      BY <1>1, <2>1, Sentence, SpeakerIn, SpeaksTypes
    <2> QED  BY <1>4, <2>2 DEF IdleWatchdog, TypeOK, flags, tail
  <1>5. CASE WatchdogStops
    BY <1>1, <1>5 DEF WatchdogStops, TypeOK, flags, hear, tail, idle
  <1>6. CASE CloseCall
    BY <1>6 DEF CloseCall, TypeOK, voice, hear, tail, idle
  <1>7. CASE CloseTasks
    <2>1. cancelled' \subseteq Speaker
      BY <1>7, SpeakerIn DEF CloseTasks, TypeOK, Busy
    <2>2. buffer' \in Audio /\ Len(buffer') <= MaxBuffer
      BY <1>7, CallAssumption, EmptySeq DEF CloseTasks, Audio
    <2> QED  BY <1>7, <2>1, <2>2 DEF CloseTasks, TypeOK, voice, tail, idle
  <1> QED  BY <1>2, <1>3, <1>4, <1>5, <1>6, <1>7

LEMMA TypeInit == Init => TypeOK
  <1> SUFFICES ASSUME Init PROVE TypeOK
    OBVIOUS
  <1>1. <<>> \in Audio /\ Len(<<>>) <= MaxBuffer
    BY CallAssumption, EmptySeq DEF Audio
  <1>2. /\ pc \in [Speaker -> Pcs] /\ mode \in [Speaker -> Modes]
        /\ left \in [Speaker -> 0 .. MaxSentences]
    BY CallAssumption DEF Init, Pcs, Modes
  <1>3. /\ cur \in Turn \cup {NoTurn} /\ turns \in 0 .. MaxTurns /\ cancelled \subseteq Speaker
        /\ arrived \in 0 .. MaxFrames /\ extensions \in 0 .. MaxExtensions
    BY CallAssumption DEF Init
  <1>4. /\ ear = <<>> /\ barge = <<>> /\ buffer = <<>> /\ utt = <<>> /\ primed = <<>>
        /\ closed = FALSE /\ stage = "live" /\ speaking = FALSE /\ interrupted = FALSE
        /\ quiet = "no" /\ prompted = FALSE
    BY DEF Init
  <1> QED  BY <1>1, <1>2, <1>3, <1>4 DEF TypeOK

LEMMA TypeStep == TypeOK /\ [Next]_vars => TypeOK'
  BY SameTypes, AudioTypes, SpeechTypes, AnswerTypes, CallTypes, NextCases

(* Every variable keeps its type; what is held during a turn stays within  *)
(* MAX_BUFFERED_INBOUND_FRAMES.                                            *)
THEOREM TypeCorrect == Spec => []TypeOK
  BY TypeInit, TypeStep, PTL DEF Spec

-----------------------------------------------------------------------------
(* Turns.                                                                  *)

(* Only turns that were started are under way, current or cancelled.       *)
Started ==
    /\ \A t \in Turn : pc[t] # "idle" => t <= turns
    /\ \A t \in Turn : t \in cancelled => t <= turns
    /\ cur <= turns

LEMMA SpeechMoves ==
    ASSUME TypeOK, NEW s \in Speaker,
           Opened(s) \/ NextSentence(s) \/ SendFrame(s) \/ Close(s) \/ Hangup(s)
    PROVE  /\ UNCHANGED <<cur, turns, cancelled, buffer, utt>>
           /\ pc[s] \notin {"idle", "stt", "done"}
           /\ pc'[s] # "stt"
           /\ \A t \in Speaker \ {s} : pc'[t] = pc[t]
  <1>1. CASE Opened(s)
    BY <1>1 DEF Opened, TypeOK, hear
  <1>2. CASE NextSentence(s)
    BY <1>2 DEF NextSentence, TypeOK, hear
  <1>3. CASE SendFrame(s)
    BY <1>3 DEF SendFrame, TypeOK, hear
  <1>4. CASE Close(s)
    <2>1. PICK p \in AfterSpeech(s) \cup {"wait"} : pc' = [pc EXCEPT ![s] = p]
      BY <1>4 DEF Close, Speaks
    <2>2. p \in {"idle", "hangup", "done", "wait"}
      BY <2>1, Afterwards
    <2> QED  BY <1>4, <2>1, <2>2 DEF Close, TypeOK
  <1>5. CASE Hangup(s)
    BY <1>5 DEF Hangup, TypeOK, hear
  <1> QED  BY <1>1, <1>2, <1>3, <1>4, <1>5

LEMMA AnswerMoves ==
    ASSUME TypeOK, NEW s \in Turn,
           Transcribed(s) \/ TranscribeFails(s) \/ FlowReply(s) \/ FlowFails(s)
    PROVE  /\ UNCHANGED <<cur, turns, cancelled, buffer>>
           /\ pc[s] \in {"stt", "think"} /\ s \notin cancelled
           /\ pc'[s] \in {"done", "think", "open", "wait", "hangup"}
           /\ \A t \in Speaker \ {s} : pc'[t] = pc[t]
  <1>0. s \in Speaker
    BY SpeakerIn
  <1>1. CASE Transcribed(s)
    BY <1>0, <1>1 DEF Transcribed, Speaks, TypeOK
  <1>2. CASE TranscribeFails(s) \/ FlowFails(s)
    BY <1>0, <1>2 DEF TranscribeFails, FlowFails, Fails, Speak, Speaks, TypeOK
  <1>3. CASE FlowReply(s)
    BY <1>0, <1>3 DEF FlowReply, Speak, Speaks, TypeOK
  <1> QED  BY <1>1, <1>2, <1>3

LEMMA CallMoves ==
    ASSUME TypeOK,
           \/ TalkOver \/ BufferInbound \/ Greet \/ StretchPasses \/ IdleWatchdog
           \/ WatchdogStops \/ CloseCall \/ CloseTasks
    PROVE  /\ UNCHANGED <<cur, turns, utt>>
           /\ \A t \in Turn : pc'[t] = pc[t]
           /\ cancelled \subseteq cancelled'
           /\ \A t \in cancelled' \cap Turn : t \in cancelled \/ t = cur \/ pc[t] # "idle"
  <1>1. CASE TalkOver \/ BufferInbound \/ StretchPasses
    BY <1>1 DEF TalkOver, BufferInbound, StretchPasses, voice, hear
  <1>2. CASE Greet
    BY <1>2, SpeakerIn DEF Greet, Speak, Speaks, TypeOK
  <1>3. CASE IdleWatchdog
    BY <1>3, SpeakerIn DEF IdleWatchdog, Speaks, TypeOK
  <1>4. CASE WatchdogStops
    BY <1>4, SpeakerIn DEF WatchdogStops, TypeOK, hear
  <1>5. CASE CloseCall
    BY <1>5 DEF CloseCall, voice
  <1>6. CASE CloseTasks
    BY <1>6, SpeakerIn DEF CloseTasks, voice
  <1> QED  BY <1>1, <1>2, <1>3, <1>4, <1>5, <1>6

LEMMA UnwindMoves ==
    ASSUME TypeOK, NEW s \in Speaker, Unwind(s)
    PROVE  /\ UNCHANGED <<cur, turns, cancelled, utt, buffer, ear, speaking, interrupted>>
           /\ s \in cancelled /\ pc'[s] \in {"close", "done"}
           /\ Active(s) => pc'[s] = "close"
           /\ \A t \in Speaker \ {s} : pc'[t] = pc[t]
  BY DEF Unwind, TypeOK, hear

(* A new turn takes the place of the one before it.                        *)
LEMMA StartMoves ==
    ASSUME TypeOK, NEW u, StartTurn(u)
    PROVE  /\ cur' = turns + 1 /\ turns' = turns + 1 /\ turns + 1 \in Turn
           /\ utt' = u /\ ear' = <<>>
           /\ pc'[turns + 1] = "stt"
           /\ \A t \in Speaker \ {turns + 1} : pc'[t] = pc[t]
  BY NewTurn DEF StartTurn, TypeOK

(* The steps that start a turn, and what they find.                        *)
LEMMA Hears ==
    ASSUME TypeOK, Listen
    PROVE  \/ /\ UNCHANGED <<cur, turns, pc, cancelled, interrupted, buffer, utt, speaking>>
              /\ ear' \in Listening(<<arrived + 1>>)
           \/ /\ \E u \in Utterances(<<arrived + 1>>) : StartTurn(u)
              /\ IF Busy THEN cancelled' = cancelled \cup {cur} /\ buffer' = <<>>
                         ELSE cancelled' = cancelled /\ buffer' = buffer
              /\ interrupted' = FALSE /\ UNCHANGED speaking
  BY DEF Listen, CancelInterrupted, voice

(* At most one turn that nobody cancelled.                                 *)
LEMMA TurnStep ==
    ASSUME TypeOK, Started, OneTurn, [Next]_vars
    PROVE  Started' /\ OneTurn'
  <1>0. turns \in Nat /\ cur \in Nat /\ Turn \subseteq Speaker /\ Turn \subseteq Nat
    BY CallAssumption, SpeakerIn DEF TypeOK, NoTurn
  <1>1. CASE UNCHANGED vars
    BY <1>1 DEF vars, Started, OneTurn
  <1>2. ASSUME NEW s \in Speaker,
               Opened(s) \/ NextSentence(s) \/ SendFrame(s) \/ Close(s) \/ Hangup(s)
        PROVE  Started' /\ OneTurn'
    BY <1>0, <1>2, SpeechMoves DEF Started, OneTurn
  <1>3. ASSUME NEW s \in Turn,
               Transcribed(s) \/ TranscribeFails(s) \/ FlowReply(s) \/ FlowFails(s)
        PROVE  Started' /\ OneTurn'
    BY <1>0, <1>3, AnswerMoves DEF Started, OneTurn
  <1>4. CASE \/ TalkOver \/ BufferInbound \/ Greet \/ StretchPasses \/ IdleWatchdog
             \/ WatchdogStops \/ CloseCall \/ CloseTasks
    BY <1>0, <1>4, CallMoves DEF Started, OneTurn
  <1>5. ASSUME NEW s \in Speaker, Unwind(s) PROVE Started' /\ OneTurn'
    BY <1>0, <1>5, UnwindMoves DEF Started, OneTurn
  <1>6. ASSUME NEW u, StartTurn(u), cancelled' \subseteq cancelled \cup {cur},
               cancelled \subseteq cancelled',
               cur = NoTurn \/ pc[cur] = "done" \/ cur \in cancelled'
        PROVE  Started' /\ OneTurn'
    <2>1. Started'
      BY <1>0, <1>6, StartMoves DEF Started
    <2>2. ASSUME NEW t \in Turn, pc'[t] \notin {"idle", "done"}, t # cur'
          PROVE  t \in cancelled'
      <3>1. pc[t] \notin {"idle", "done"}
        BY <1>0, <1>6, <2>2, StartMoves
      <3>2. t = cur \/ t \in cancelled
        BY <3>1 DEF OneTurn
      <3> QED  BY <1>6, <3>1, <3>2, SpeakerIn
    <2> QED  BY <2>1, <2>2 DEF OneTurn
  <1>7. CASE Listen
    <2>1. cur = NoTurn \/ Busy
      BY <1>7 DEF Listen
    <2> QED  BY <1>6, <1>7, <2>1, Hears DEF Started, OneTurn
  <1>8. CASE TurnDiscarded
    <2>1. /\ cur' = NoTurn /\ pc[cur] = "done"
          /\ turns' = turns /\ pc' = pc /\ cancelled' = cancelled
      BY <1>8 DEF TurnDiscarded, voice
    <2> QED  BY <1>0, <2>1, SpeakerIn DEF Started, OneTurn, NoTurn
  <1>9. CASE TurnFinished
    <2>1. cancelled' = cancelled /\ pc[cur] = "done"
      BY <1>9 DEF TurnFinished
    <2>2. CASE cur' = NoTurn /\ UNCHANGED <<turns, pc>>
      BY <1>0, <2>1, <2>2, SpeakerIn DEF Started, OneTurn, NoTurn
    <2>3. CASE \E u : StartTurn(u)
      BY <1>6, <2>1, <2>3
    <2> QED  BY <1>9, <2>2, <2>3 DEF TurnFinished
  <1> QED  BY <1>1, <1>2, <1>3, <1>4, <1>5, <1>7, <1>8, <1>9, NextCases

LEMMA TurnInit == Init => Started /\ OneTurn
  BY CallAssumption, SpeakerIn DEF Init, Started, OneTurn, NoTurn, Turn

LEMMA TurnsHold == Spec => [](TypeOK /\ Started /\ OneTurn)
  BY TypeInit, TypeStep, TurnInit, TurnStep, PTL DEF Spec

(* The line is half-duplex: whatever is interrupted, replayed or discarded,*)
(* at most one turn is under way that nobody has cancelled.                *)
THEOREM OneAtATime == Spec => []OneTurn
  BY TurnsHold, PTL

-----------------------------------------------------------------------------
(* Speech.                                                                 *)

LEMMA DeafStep ==
    ASSUME TypeOK, Started, NeverDeaf, [Next]_vars
    PROVE  NeverDeaf'
  <1>0. turns \in Nat /\ Turn \subseteq Speaker /\ Turn \subseteq Nat
    BY CallAssumption, SpeakerIn DEF TypeOK
  <1>1. CASE UNCHANGED vars
    BY <1>1 DEF vars, NeverDeaf, Active
  <1>2. ASSUME NEW s \in Speaker, Opened(s) \/ NextSentence(s) \/ SendFrame(s)
        PROVE  NeverDeaf'
    <2>1. speaking' = speaking /\ pc'[s] \in {"close", "wait", "play"}
      BY <1>2 DEF Opened, NextSentence, SendFrame, TypeOK
    <2>2. \A t \in Speaker : Active(t) => Active(t)'
      BY <1>2, <2>1, SpeechMoves DEF Active
    <2> QED  BY <2>1, <2>2 DEF NeverDeaf
  <1>3. ASSUME NEW s \in Speaker, Close(s) PROVE NeverDeaf'
    BY <1>3 DEF Close, Speaks, NeverDeaf, Active, TypeOK
  <1>4. ASSUME NEW s \in Speaker, Hangup(s) PROVE NeverDeaf'
    <2>1. speaking' = speaking /\ pc[s] = "hangup"
      BY <1>4 DEF Hangup
    <2>2. \A t \in Speaker : Active(t) => Active(t)'
      BY <1>4, <2>1, SpeechMoves DEF Active
    <2> QED  BY <2>1, <2>2 DEF NeverDeaf
  <1>5. ASSUME NEW s \in Speaker, Unwind(s) PROVE NeverDeaf'
    <2>1. \A t \in Speaker : Active(t) => Active(t)'
      BY <1>5, UnwindMoves DEF Active
    <2> QED  BY <1>5, <2>1, UnwindMoves DEF NeverDeaf
  <1>6. ASSUME NEW s \in Turn,
               Transcribed(s) \/ TranscribeFails(s) \/ FlowReply(s) \/ FlowFails(s)
        PROVE  NeverDeaf'
    <2>1. \A t \in Speaker : Active(t) => Active(t)'
      BY <1>6, AnswerMoves DEF Active
    <2>2. speaking' = speaking \/ pc'[s] \in {"open", "wait"}
      <3>1. s \in Speaker
        BY SpeakerIn
      <3> QED  BY <1>6, <3>1 DEF Transcribed, TranscribeFails, FlowReply, FlowFails, Fails,
                                Speak, Speaks, TypeOK
    <2> QED  BY <1>0, <2>1, <2>2 DEF NeverDeaf, Active
  <1>7. CASE TalkOver \/ BufferInbound \/ StretchPasses
    BY <1>7 DEF TalkOver, Interrupt, BufferInbound, StretchPasses, voice, NeverDeaf, Active
  <1>8. CASE Greet
    BY <1>8, SpeakerIn DEF Greet, Speak, Speaks, NeverDeaf, Active, TypeOK
  <1>9. CASE IdleWatchdog
    BY <1>9, SpeakerIn DEF IdleWatchdog, Speaks, NeverDeaf, Active, TypeOK
  <1>10. CASE WatchdogStops
    BY <1>10, SpeakerIn DEF WatchdogStops, NeverDeaf, Active, TypeOK
  <1>11. CASE CloseCall \/ CloseTasks
    BY <1>11 DEF CloseCall, CloseTasks, voice, NeverDeaf, Active
  <1>12. CASE Listen
    BY <1>12 DEF Listen, NeverDeaf
  <1>13. CASE TurnDiscarded
    BY <1>13 DEF TurnDiscarded, voice, NeverDeaf, Active
  <1>14. CASE TurnFinished
    <2>1. speaking' = speaking
      BY <1>14 DEF TurnFinished
    <2>2. CASE pc' = pc
      BY <2>1, <2>2 DEF NeverDeaf, Active
    <2>3. CASE \E u : StartTurn(u)
      <3>1. turns + 1 \in Turn /\ \A t \in Speaker \ {turns + 1} : pc'[t] = pc[t]
        BY <2>3, StartMoves
      <3>2. pc[turns + 1] = "idle"
        BY <1>0, <3>1 DEF Started
      <3>3. \A t \in Speaker : Active(t) => Active(t)'
        BY <3>1, <3>2 DEF Active
      <3> QED  BY <2>1, <3>3 DEF NeverDeaf
    <2> QED  BY <1>14, <2>2, <2>3 DEF TurnFinished
  <1> QED  BY <1>1, <1>2, <1>3, <1>4, <1>5, <1>6, <1>7, <1>8, <1>9, <1>10, <1>11, <1>12,
              <1>13, <1>14, NextCases

(* The line is deaf only while somebody speaks, who will end it: however   *)
(* turns, prompts, interruptions and failures follow each other.           *)
THEOREM DeafOnlyInSpeech == Spec => []NeverDeaf
<1>1. Init => NeverDeaf
  BY DEF Init, NeverDeaf
<1>2. TypeOK /\ Started /\ NeverDeaf /\ [Next]_vars => NeverDeaf'
  BY DeafStep
<1> QED  BY <1>1, <1>2, TurnsHold, PTL DEF Spec

-----------------------------------------------------------------------------
(* The order of audio.                                                     *)

Before(a, b) == \A i \in 1 .. Len(a), j \in 1 .. Len(b) : a[i] < b[j]
Upto(a, n)   == \A i \in 1 .. Len(a) : a[i] <= n
Heap(a, n)   == a \in Audio /\ InOrder(a) /\ Upto(a, n)

LEMMA AudioIs ==
    ASSUME NEW a \in Audio
    PROVE  Len(a) \in Nat /\ DOMAIN a = 1 .. Len(a) /\ \A i \in 1 .. Len(a) : a[i] \in Nat
  <1>1. Len(a) \in Nat /\ DOMAIN a = 1 .. Len(a) /\ \A i \in 1 .. Len(a) : a[i] \in Frame
    BY LenProperties, ElementOfSeq DEF Audio
  <1> QED  BY <1>1, CallAssumption DEF Frame

LEMMA EmptyOrder ==
    ASSUME NEW b, NEW n
    PROVE  Heap(<<>>, n) /\ Before(<<>>, b) /\ Before(b, <<>>)
  BY DEF Heap, InOrder, Upto, Before, Audio

LEMMA ConcatOrder ==
    ASSUME NEW a \in Audio, NEW b \in Audio, NEW n
    PROVE  /\ a \o b \in Audio
           /\ InOrder(a) /\ InOrder(b) /\ Before(a, b) => InOrder(a \o b)
           /\ Heap(a, n) /\ Heap(b, n) /\ Before(a, b) => Heap(a \o b, n)
           /\ \A c \in Audio : Before(a, c) /\ Before(b, c) => Before(a \o b, c)
  <1>1. /\ a \o b \in Audio /\ Len(a \o b) = Len(a) + Len(b)
        /\ \A i \in 1 .. Len(a) + Len(b) :
              (a \o b)[i] = IF i <= Len(a) THEN a[i] ELSE b[i - Len(a)]
    BY ConcatProperties DEF Audio
  <1>2. /\ Len(a) \in Nat /\ DOMAIN a = 1 .. Len(a) /\ \A i \in 1 .. Len(a) : a[i] \in Nat
        /\ Len(b) \in Nat /\ DOMAIN b = 1 .. Len(b) /\ \A i \in 1 .. Len(b) : b[i] \in Nat
        /\ DOMAIN (a \o b) = 1 .. Len(a \o b)
    BY <1>1, AudioIs
  <1>3. \A i \in 1 .. Len(a) + Len(b) :
           \/ i \in 1 .. Len(a) /\ (a \o b)[i] = a[i]
           \/ i - Len(a) \in 1 .. Len(b) /\ i > Len(a) /\ (a \o b)[i] = b[i - Len(a)]
    BY <1>1, <1>2
  <1>4. ASSUME InOrder(a), InOrder(b), Before(a, b) PROVE InOrder(a \o b)
    <2> SUFFICES ASSUME NEW i \in 1 .. Len(a) + Len(b), NEW j \in 1 .. Len(a) + Len(b), i < j
                 PROVE  (a \o b)[i] < (a \o b)[j]
      BY <1>1, <1>2 DEF InOrder
    <2>1. CASE j \in 1 .. Len(a)
      BY <1>1, <1>2, <1>4, <2>1 DEF InOrder
    <2>2. CASE i \in 1 .. Len(a) /\ j \notin 1 .. Len(a)
      BY <1>2, <1>3, <1>4, <2>2, <1>1 DEF Before
    <2>3. CASE i \notin 1 .. Len(a)
      <3>1. /\ i - Len(a) \in 1 .. Len(b) /\ (a \o b)[i] = b[i - Len(a)]
            /\ j - Len(a) \in 1 .. Len(b) /\ (a \o b)[j] = b[j - Len(a)]
            /\ i - Len(a) < j - Len(a)
        BY <1>1, <1>2, <2>3
      <3> QED  BY <1>2, <1>4, <3>1 DEF InOrder
    <2> QED  BY <1>2, <2>1, <2>2, <2>3
  <1>5. Upto(a, n) /\ Upto(b, n) => Upto(a \o b, n)
    BY <1>1, <1>3 DEF Upto
  <1>6. \A c \in Audio : Before(a, c) /\ Before(b, c) => Before(a \o b, c)
    BY <1>1, <1>3 DEF Before
  <1> QED  BY <1>1, <1>4, <1>5, <1>6 DEF Heap

LEMMA PartOrder ==
    ASSUME NEW b, NEW a, NEW n, Part(a, b), Heap(b, n)
    PROVE  /\ Heap(a, n)
           /\ \A c : Before(b, c) => Before(a, c)
           /\ \A c : Before(c, b) => Before(c, a)
  <1>1. PICK d \in Nat : d + Len(a) <= Len(b) /\ \A i \in 1 .. Len(a) : a[i] = b[d + i]
    BY DEF Part
  <1>2. /\ a \in Audio /\ Len(a) \in Nat /\ DOMAIN a = 1 .. Len(a)
        /\ Len(b) \in Nat /\ DOMAIN b = 1 .. Len(b)
    BY AudioIs DEF Part, Heap
  <1>3. \A i \in 1 .. Len(a) : d + i \in 1 .. Len(b) /\ a[i] = b[d + i]
    BY <1>1, <1>2
  <1>4. InOrder(a)
    <2> SUFFICES ASSUME NEW i \in 1 .. Len(a), NEW j \in 1 .. Len(a), i < j PROVE a[i] < a[j]
      BY <1>2 DEF InOrder
    <2>1. d + i < d + j
      OBVIOUS
    <2> QED  BY <1>2, <1>3, <2>1 DEF Heap, InOrder
  <1>5. Upto(a, n)
    BY <1>3 DEF Heap, Upto
  <1>6. \A c : (Before(b, c) => Before(a, c)) /\ (Before(c, b) => Before(c, a))
    BY <1>3 DEF Before
  <1> QED  BY <1>2, <1>4, <1>5, <1>6 DEF Heap

(* The two halves of audio that is cut.                                    *)
LEMMA CutOrder ==
    ASSUME NEW b, NEW n, Heap(b, n), NEW k \in 1 .. Len(b)
    PROVE  /\ Part(SubSeq(b, 1, k), b) /\ Part(SubSeq(b, k + 1, Len(b)), b)
           /\ Before(SubSeq(b, 1, k), SubSeq(b, k + 1, Len(b)))
  <1>1. b \in Audio /\ Len(b) \in Nat /\ DOMAIN b = 1 .. Len(b)
    BY AudioIs DEF Heap
  <1>2. /\ 1 \in Nat \ {0} /\ k \in Nat /\ k <= Len(b) /\ 1 <= k + 1
        /\ k + 1 \in Nat \ {0} /\ k + 1 <= Len(b) + 1 /\ k - 1 + 1 = k
        /\ Len(b) <= Len(b)
    BY <1>1
  <1>3. /\ Part(SubSeq(b, 1, k), b) /\ Len(SubSeq(b, 1, k)) = k - 1 + 1
        /\ \A i \in 1 .. k - 1 + 1 : SubSeq(b, 1, k)[i] = b[1 + i - 1]
    BY <1>1, <1>2, CutIsPart
  <1>4. /\ Part(SubSeq(b, k + 1, Len(b)), b)
        /\ Len(SubSeq(b, k + 1, Len(b))) = Len(b) - (k + 1) + 1
        /\ \A i \in 1 .. Len(b) - (k + 1) + 1 : SubSeq(b, k + 1, Len(b))[i] = b[(k + 1) + i - 1]
    BY <1>1, <1>2, CutIsPart
  <1>5. ASSUME NEW i \in 1 .. k, NEW j \in 1 .. Len(b) - (k + 1) + 1
        PROVE  b[1 + i - 1] < b[(k + 1) + j - 1]
    <2>1. /\ 1 + i - 1 \in 1 .. Len(b) /\ (k + 1) + j - 1 \in 1 .. Len(b)
          /\ 1 + i - 1 < (k + 1) + j - 1
      BY <1>1, <1>2
    <2> QED  BY <1>1, <2>1 DEF Heap, InOrder
  <1>6. Before(SubSeq(b, 1, k), SubSeq(b, k + 1, Len(b)))
    BY <1>2, <1>3, <1>4, <1>5 DEF Before
  <1> QED  BY <1>3, <1>4, <1>6

(* The frame that arrives comes after all others.                          *)
LEMMA NewestLast ==
    ASSUME TypeOK, arrived < MaxFrames
    PROVE  /\ Heap(<<arrived + 1>>, arrived + 1)
           /\ \A a : Heap(a, arrived) => /\ Before(a, <<arrived + 1>>)
                                         /\ Heap(Append(a, arrived + 1), arrived + 1)
                                         /\ Heap(a, arrived + 1)
  <1>1. arrived \in Nat /\ arrived + 1 \in Frame /\ arrived + 1 \in 0 .. MaxFrames
    BY NextFrame, CallAssumption DEF TypeOK
  <1>2. /\ <<arrived + 1>> \in Audio /\ InOrder(<<arrived + 1>>)
        /\ Upto(<<arrived + 1>>, arrived + 1)
        /\ Len(<<arrived + 1>>) = 1 /\ <<arrived + 1>>[1] = arrived + 1
    BY <1>1 DEF Audio, InOrder, Upto
  <1>3. ASSUME NEW a, Heap(a, arrived)
        PROVE  /\ Before(a, <<arrived + 1>>)
               /\ a \in Audio /\ InOrder(a) /\ Upto(a, arrived + 1)
               /\ Append(a, arrived + 1) \in Audio /\ InOrder(Append(a, arrived + 1))
               /\ Upto(Append(a, arrived + 1), arrived + 1)
    <2>1. /\ Len(a) \in Nat /\ DOMAIN a = 1 .. Len(a) /\ a \in Audio
          /\ \A i \in 1 .. Len(a) : a[i] \in Nat /\ a[i] <= arrived
      BY <1>3, AudioIs DEF Heap, Upto
    <2>2. Before(a, <<arrived + 1>>) /\ Upto(a, arrived + 1)
      BY <1>1, <1>2, <2>1 DEF Before, Upto
    <2>3. /\ Append(a, arrived + 1) \in Audio /\ Len(Append(a, arrived + 1)) = Len(a) + 1
          /\ \A i \in 1 .. Len(a) : Append(a, arrived + 1)[i] = a[i]
          /\ Append(a, arrived + 1)[Len(a) + 1] = arrived + 1
      BY <1>1, <2>1 DEF Audio
    <2>4. DOMAIN Append(a, arrived + 1) = 1 .. Len(a) + 1
      BY <2>3, AudioIs
    <2>5. InOrder(a)
      BY <1>3 DEF Heap
    <2>6. InOrder(Append(a, arrived + 1))
      <3> SUFFICES ASSUME NEW i \in 1 .. Len(a) + 1, NEW j \in 1 .. Len(a) + 1, i < j
                   PROVE  Append(a, arrived + 1)[i] < Append(a, arrived + 1)[j]
        BY <2>4 DEF InOrder
      <3>1. CASE j = Len(a) + 1
        BY <1>1, <2>1, <2>3, <3>1
      <3>2. CASE j # Len(a) + 1
        BY <2>1, <2>3, <2>5, <3>2 DEF InOrder
      <3> QED  BY <3>1, <3>2
    <2>7. Upto(Append(a, arrived + 1), arrived + 1)
      BY <1>1, <2>1, <2>3 DEF Upto
    <2> QED  BY <2>1, <2>2, <2>3, <2>5, <2>6, <2>7
  <1> QED  BY <1>2, <1>3 DEF Heap

LEMMA ListeningOrder ==
    ASSUME NEW n, Heap(ear, n), NEW fs, Heap(fs, n), Before(ear, fs), NEW e \in Listening(fs)
    PROVE  /\ Heap(e, n)
           /\ \A c \in Audio : Before(ear, c) /\ Before(fs, c) => Before(e, c)
  <1>1. ear \in Audio /\ fs \in Audio
    BY DEF Heap
  <1>2. Part(e, fs) \/ e = ear \o fs
    BY <1>1, ListeningIs
  <1>3. CASE Part(e, fs)
    BY <1>3, PartOrder
  <1>4. CASE e = ear \o fs
    BY <1>1, <1>4, ConcatOrder
  <1> QED  BY <1>2, <1>3, <1>4

(* Whatever is held is in order, audio is held for a turn only, and while  *)
(* no interruption has broken the line it is newer than what the           *)
(* endpointer has and than what a turn may give back to it.                *)
Ordered ==
    /\ Heap(ear, arrived) /\ Heap(barge, arrived)
    /\ Heap(utt, arrived) /\ Heap(buffer, arrived)
    /\ HeldForATurn
    /\ ~interrupted => Before(ear, buffer)
    /\ ~interrupted /\ cur # NoTurn /\ pc[cur] = "stt" => Before(utt, buffer)

(* Nothing is added anywhere.                                              *)
LEMMA NothingNew ==
    ASSUME Ordered, arrived' = arrived, interrupted' = interrupted,
           ear' \in {ear, <<>>}, barge' \in {barge, <<>>}, utt' \in {utt, <<>>},
           buffer' \in {buffer, <<>>}, cur' = cur \/ buffer' = <<>>,
           cur' \in {cur, NoTurn}, cur # NoTurn /\ pc'[cur] = "stt" => pc[cur] = "stt"
    PROVE  Ordered'
  <1>1. \A b : Heap(<<>>, arrived) /\ Before(<<>>, b) /\ Before(b, <<>>)
    BY EmptyOrder
  <1>2. Heap(ear', arrived) /\ Heap(barge', arrived) /\ Heap(utt', arrived) /\ Heap(buffer', arrived)
    BY <1>1 DEF Ordered
  <1>3. HeldForATurn'
    BY DEF Ordered, HeldForATurn
  <1>4. ~interrupted => Before(ear', buffer')
    BY <1>1 DEF Ordered
  <1>5. ~interrupted /\ cur' # NoTurn /\ pc'[cur'] = "stt" => Before(utt', buffer')
    BY <1>1 DEF Ordered
  <1> QED  BY <1>2, <1>3, <1>4, <1>5 DEF Ordered, Heap, Upto, InOrder, Before

LEMMA CallOrder ==
    ASSUME TypeOK, Ordered,
           \/ Greet \/ StretchPasses \/ IdleWatchdog \/ WatchdogStops
           \/ CloseCall \/ CloseTasks \/ TurnDiscarded
    PROVE  Ordered'
  <1>1. CASE Greet
    <2>1. barge' \in {barge, <<>>}
      BY <1>1 DEF Greet, Speak, Speaks
    <2>2. cur # NoTurn => pc'[cur] = pc[cur]
      BY <1>1, CallMoves DEF TypeOK
    <2> QED  BY <1>1, <2>1, <2>2, NothingNew DEF Greet
  <1>2. CASE StretchPasses
    BY <1>2, NothingNew DEF StretchPasses, hear, voice
  <1>3. CASE IdleWatchdog
    <2>1. cur # NoTurn => pc'[cur] = pc[cur]
      BY <1>3, CallMoves DEF TypeOK
    <2> QED  BY <1>3, <2>1, NothingNew DEF IdleWatchdog, Speaks
  <1>4. CASE WatchdogStops
    <2>1. cur # NoTurn => pc'[cur] = pc[cur]
      BY <1>4, CallMoves DEF TypeOK
    <2> QED  BY <1>4, <2>1, NothingNew DEF WatchdogStops, hear
  <1>5. CASE CloseCall
    BY <1>5, NothingNew DEF CloseCall, hear, voice
  <1>6. CASE CloseTasks
    BY <1>6, NothingNew DEF CloseTasks, voice
  <1>7. CASE TurnDiscarded
    BY <1>7, NothingNew DEF TurnDiscarded, voice
  <1> QED  BY <1>1, <1>2, <1>3, <1>4, <1>5, <1>6, <1>7

LEMMA SpeechOrder ==
    ASSUME TypeOK, Ordered, NEW s \in Speaker,
           \/ Opened(s) \/ NextSentence(s) \/ SendFrame(s) \/ Close(s) \/ Hangup(s) \/ Unwind(s)
    PROVE  Ordered'
  <1>1. cur \in Speaker
    BY SpeakerIn DEF TypeOK
  <1>2. CASE Opened(s) \/ NextSentence(s) \/ SendFrame(s) \/ Close(s) \/ Hangup(s)
    <2>1. pc'[cur] = "stt" => pc[cur] = "stt"
      BY <1>1, <1>2, SpeechMoves
    <2>2. /\ arrived' = arrived /\ interrupted' = interrupted /\ cur' = cur
          /\ utt' = utt /\ buffer' = buffer /\ ear' \in {ear, <<>>} /\ barge' \in {barge, <<>>}
      BY <1>2 DEF Opened, NextSentence, SendFrame, Close, Hangup, Heard, Speaks, hear
    <2> QED  BY <2>1, <2>2, NothingNew
  <1>3. CASE Unwind(s)
    <2>1. pc'[cur] = "stt" => pc[cur] = "stt"
      BY <1>1, <1>3, UnwindMoves
    <2> QED  BY <1>3, <2>1, NothingNew DEF Unwind, hear
  <1> QED  BY <1>2, <1>3

(* A turn that is transcribed is the current one, so that what it may give *)
(* back to the endpointer is older than what is held for it.               *)
LEMMA AnswerOrder ==
    ASSUME TypeOK, OneTurn, Ordered, NEW t \in Turn,
           Transcribed(t) \/ TranscribeFails(t) \/ FlowReply(t) \/ FlowFails(t)
    PROVE  Ordered'
  <1>1. t = cur
    BY AnswerMoves DEF OneTurn
  <1>2. cur # NoTurn => pc'[cur] # "stt"
    BY <1>1, AnswerMoves
  <1>3. CASE TranscribeFails(t) \/ FlowReply(t) \/ FlowFails(t)
    <2>1. /\ arrived' = arrived /\ interrupted' = interrupted /\ cur' = cur
          /\ utt' \in {utt, <<>>} /\ buffer' = buffer /\ ear' = ear /\ barge' \in {barge, <<>>}
      BY <1>3 DEF TranscribeFails, FlowReply, FlowFails, Fails, Speak, Speaks
    <2> QED  BY <1>2, <2>1, NothingNew
  <1>4. CASE Transcribed(t)
    <2>1. /\ arrived' = arrived /\ interrupted' = interrupted /\ cur' = cur
          /\ utt' = <<>> /\ buffer' = buffer /\ ear' \in {ear, utt} /\ barge' \in {barge, <<>>}
          /\ pc[t] = "stt"
      BY <1>4 DEF Transcribed, Speaks
    <2>2. \A b : Heap(<<>>, arrived) /\ Before(<<>>, b)
      BY EmptyOrder
    <2>3. Heap(ear', arrived) /\ Heap(barge', arrived) /\ Heap(utt', arrived) /\ Heap(buffer', arrived)
      BY <2>1, <2>2 DEF Ordered
    <2>4. ~interrupted => Before(ear', buffer')
      BY <1>1, <2>1, SpeakerIn DEF Ordered
    <2>5. HeldForATurn'
      BY <2>1 DEF Ordered, HeldForATurn
    <2> QED  BY <1>2, <2>1, <2>3, <2>4, <2>5 DEF Ordered, Heap, Upto, InOrder, Before
  <1> QED  BY <1>3, <1>4

LEMMA HearOrder ==
    ASSUME TypeOK, Ordered, TalkOver \/ BufferInbound \/ Listen
    PROVE  Ordered'
  <1>1. arrived < MaxFrames /\ arrived' = arrived + 1 /\ ~closed
    BY DEF TalkOver, BufferInbound, Listen
  <1>2. /\ Heap(<<arrived + 1>>, arrived + 1)
        /\ \A a : Heap(a, arrived) => /\ Before(a, <<arrived + 1>>)
                                      /\ Heap(Append(a, arrived + 1), arrived + 1)
                                      /\ Heap(a, arrived + 1)
    BY <1>1, NewestLast
  <1>3. \A b, n : Heap(<<>>, n) /\ Before(<<>>, b) /\ Before(b, <<>>)
    BY EmptyOrder
  <1>4. CASE TalkOver
    <2>1. /\ barge' \in {<<>>, Append(barge, arrived + 1)}
          /\ ear' \in {ear, Append(barge, arrived + 1)} /\ utt' = utt /\ buffer' = buffer
          /\ cur' = cur /\ pc' = pc /\ ((ear' = ear /\ interrupted' = interrupted) \/ interrupted')
      BY <1>4 DEF TalkOver, Interrupt, voice
    <2>2. Heap(ear', arrived + 1) /\ Heap(barge', arrived + 1) /\ Heap(utt', arrived + 1)
          /\ Heap(buffer', arrived + 1)
      BY <1>2, <1>3, <2>1 DEF Ordered
    <2>3. HeldForATurn'
      BY <2>1 DEF Ordered, HeldForATurn
    <2>4. ~interrupted' => Before(ear', buffer')
      BY <2>1 DEF Ordered
    <2>5. ~interrupted' /\ cur' # NoTurn /\ pc'[cur'] = "stt" => Before(utt', buffer')
      BY <2>1 DEF Ordered
    <2> QED  BY <1>1, <2>2, <2>3, <2>4, <2>5 DEF Ordered, Heap, Upto, InOrder, Before
  <1>5. CASE BufferInbound
    <2> DEFINE kept == IF Len(buffer) >= MaxBuffer THEN Tail(buffer) ELSE buffer
    <2>1. /\ barge' = barge /\ ear' = ear /\ utt' = utt /\ interrupted' = interrupted
          /\ cur' = cur /\ pc' = pc /\ cur # NoTurn /\ ~interrupted
          /\ buffer' = Append(kept, arrived + 1)
      BY <1>5 DEF BufferInbound, voice, Busy
    <2>2. /\ Heap(kept, arrived)
          /\ \A c : Before(c, buffer) => Before(c, kept)
      <3>1. CASE Len(buffer) >= MaxBuffer
        <4>1. buffer \in Audio /\ buffer # <<>>
          BY <3>1, CallAssumption DEF TypeOK
        <4>2. Part(Tail(buffer), buffer)
          BY <4>1, TailIsPart
        <4>3. Heap(buffer, arrived)
          BY DEF Ordered
        <4>4. /\ Heap(Tail(buffer), arrived)
              /\ \A c : Before(c, buffer) => Before(c, Tail(buffer))
          BY <4>2, <4>3, PartOrder
        <4> QED  BY <3>1, <4>4
      <3>2. CASE ~ (Len(buffer) >= MaxBuffer)
        BY <3>2 DEF Ordered
      <3> QED  BY <3>1, <3>2
    <2> HIDE DEF kept
    <2>3. /\ Heap(ear, arrived + 1) /\ Heap(barge, arrived + 1) /\ Heap(utt, arrived + 1)
          /\ Heap(Append(kept, arrived + 1), arrived + 1)
      BY <1>2, <2>2 DEF Ordered
    <2>4. ASSUME NEW c, Heap(c, arrived), Before(c, buffer)
          PROVE  Before(c, Append(kept, arrived + 1))
      <3>1. Before(c, kept) /\ Before(c, <<arrived + 1>>)
        BY <1>2, <2>2, <2>4
      <3>2. kept \in Audio /\ arrived + 1 \in Frame
        BY <1>1, <2>2, NextFrame DEF Heap
      <3>3. /\ Len(kept) \in Nat /\ Len(Append(kept, arrived + 1)) = Len(kept) + 1
            /\ \A i \in 1 .. Len(kept) : Append(kept, arrived + 1)[i] = kept[i]
            /\ Append(kept, arrived + 1)[Len(kept) + 1] = arrived + 1
        BY <3>2 DEF Audio
      <3>4. \A i \in 1 .. Len(c) : c[i] < arrived + 1
        BY <3>1 DEF Before
      <3> QED  BY <3>1, <3>3, <3>4 DEF Before
    <2>5. Before(ear, Append(kept, arrived + 1))
      BY <2>1, <2>4 DEF Ordered
    <2>6. pc[cur] = "stt" => Before(utt, Append(kept, arrived + 1))
      BY <2>1, <2>4 DEF Ordered
    <2>7. HeldForATurn'
      BY <2>1 DEF HeldForATurn
    <2> QED  BY <1>1, <2>1, <2>3, <2>5, <2>6, <2>7 DEF Ordered, Heap, Upto, InOrder, Before
  <1>6. CASE Listen
    <2>1. /\ Heap(ear, arrived + 1) /\ Heap(barge, arrived + 1) /\ Heap(utt, arrived + 1)
          /\ Heap(buffer, arrived + 1) /\ Before(ear, <<arrived + 1>>)
      BY <1>2 DEF Ordered
    <2>2. \A e \in Listening(<<arrived + 1>>) : Heap(e, arrived + 1)
      BY <1>2, <2>1, ListeningOrder
    <2>3. ~Busy => buffer = <<>>
      BY <1>6 DEF Ordered, HeldForATurn, Listen
    <2>4. ~interrupted => buffer = <<>>
      BY <1>6, <2>3 DEF Ordered, HeldForATurn, Listen
    <2>5. barge' = barge
      BY <1>6 DEF Listen
    <2>6. CASE /\ ear' \in Listening(<<arrived + 1>>)
               /\ UNCHANGED <<interrupted, cur, turns, voice, cancelled, buffer, utt, idle>>
      <3>1. Heap(ear', arrived + 1) /\ utt' = utt /\ buffer' = buffer /\ cur' = cur
            /\ interrupted' = interrupted
        BY <2>2, <2>6
      <3>2. ~interrupted' => Before(ear', buffer') /\ Before(utt', buffer')
        BY <1>3, <2>4, <3>1
      <3>3. HeldForATurn'
        BY <3>1 DEF Ordered, HeldForATurn
      <3> QED  BY <1>1, <2>1, <2>5, <3>1, <3>2, <3>3 DEF Ordered, Heap, Upto, InOrder, Before
    <2>7. CASE /\ \E u \in Utterances(<<arrived + 1>>) : StartTurn(u)
               /\ CancelInterrupted
      <3>1. ear' = <<>> /\ buffer' = <<>>
        BY <2>3, <2>7 DEF StartTurn, CancelInterrupted
      <3>2. utt' \in Utterances(<<arrived + 1>>)
        BY <2>7 DEF StartTurn
      <3>3. Heap(utt', arrived + 1)
        BY <2>2, <3>2, UtterancesAre
      <3>4. Before(ear', buffer') /\ Before(utt', buffer')
        BY <1>3, <3>1
      <3>5. HeldForATurn'
        BY <3>1 DEF HeldForATurn
      <3>6. Heap(ear', arrived + 1) /\ Heap(buffer', arrived + 1)
        BY <1>3, <3>1
      <3> QED  BY <1>1, <2>1, <2>5, <3>3, <3>4, <3>5, <3>6 DEF Ordered, Heap, Upto, InOrder, Before
    <2> QED  BY <1>6, <2>6, <2>7 DEF Listen
  <1> QED  BY <1>4, <1>5, <1>6

LEMMA FinishedOrder ==
    ASSUME TypeOK, Ordered, TurnFinished
    PROVE  Ordered'
  <1>1. ~interrupted /\ interrupted' = interrupted /\ arrived' = arrived /\ barge' = barge
    BY DEF TurnFinished, Stale
  <1>2. /\ Heap(ear, arrived) /\ Heap(barge, arrived) /\ Heap(utt, arrived)
        /\ Heap(buffer, arrived) /\ Before(ear, buffer)
    BY <1>1 DEF Ordered
  <1>3. \A b, n : Heap(<<>>, n) /\ Before(<<>>, b) /\ Before(b, <<>>)
    BY EmptyOrder
  <1>4. CASE /\ buffer' = <<>> /\ cur' = NoTurn
             /\ ear' \in IF buffer = <<>> THEN {ear} ELSE Listening(buffer)
             /\ UNCHANGED <<turns, pc, utt, idle>>
    <2>1. Heap(ear', arrived)
      BY <1>2, <1>4, ListeningOrder
    <2>2. Before(ear', buffer') /\ Heap(buffer', arrived) /\ Heap(utt', arrived)
      BY <1>2, <1>3, <1>4
    <2>3. HeldForATurn'
      BY <1>4 DEF HeldForATurn
    <2> QED  BY <1>1, <1>2, <1>4, <2>1, <2>2, <2>3 DEF Ordered, Heap, Upto, InOrder, Before
  <1>5. CASE \E k \in DOMAIN buffer :
               /\ \E u \in Utterances(SubSeq(buffer, 1, k)) : StartTurn(u)
               /\ buffer' = SubSeq(buffer, k + 1, Len(buffer))
               /\ MarkActivity
    <2>1. PICK k \in DOMAIN buffer :
               /\ \E u \in Utterances(SubSeq(buffer, 1, k)) : StartTurn(u)
               /\ buffer' = SubSeq(buffer, k + 1, Len(buffer))
               /\ MarkActivity
      BY <1>5
    <2>2. PICK u \in Utterances(SubSeq(buffer, 1, k)) : StartTurn(u)
      BY <2>1
    <2> DEFINE first == SubSeq(buffer, 1, k)
               rest  == SubSeq(buffer, k + 1, Len(buffer))
    <2>3. k \in 1 .. Len(buffer)
      BY <2>1, AudioIs DEF TypeOK
    <2>4. Part(first, buffer) /\ Part(rest, buffer) /\ Before(first, rest)
      BY <1>2, <2>3, CutOrder
    <2>5. u \in Listening(first)
      BY <2>2, UtterancesAre
    <2> HIDE DEF first, rest
    <2>6. /\ Heap(first, arrived) /\ Heap(rest, arrived)
          /\ Before(ear, first) /\ Before(ear, rest)
      BY <1>2, <2>4, PartOrder
    <2>7. Heap(u, arrived) /\ Before(u, rest)
      <3>1. rest \in Audio
        BY <2>6 DEF Heap
      <3>2. /\ Heap(u, arrived)
            /\ \A c \in Audio : Before(ear, c) /\ Before(first, c) => Before(u, c)
        BY <1>2, <2>5, <2>6, ListeningOrder
      <3> QED  BY <2>4, <2>6, <3>1, <3>2
    <2>8. ear' = <<>> /\ utt' = u /\ buffer' = rest /\ cur' \in Turn
      BY <2>1, <2>2, StartTurnTypes, <2>7 DEF StartTurn, Heap, rest
    <2>9. HeldForATurn'
      BY <2>8, SpeakerIn DEF HeldForATurn
    <2>10. Heap(ear', arrived) /\ Before(ear', buffer')
      BY <1>3, <2>8
    <2> QED  BY <1>1, <1>2, <2>6, <2>7, <2>8, <2>9, <2>10 DEF Ordered, Heap, Upto, InOrder, Before
  <1> QED  BY <1>4, <1>5 DEF TurnFinished

LEMMA OrderInit == Init => Ordered
  <1> SUFFICES ASSUME Init PROVE Ordered
    OBVIOUS
  <1>1. ear = <<>> /\ barge = <<>> /\ utt = <<>> /\ buffer = <<>>
    BY DEF Init
  <1>2. \A b, n : Heap(<<>>, n) /\ Before(<<>>, b) /\ Before(b, <<>>)
    BY EmptyOrder
  <1>3. HeldForATurn
    BY <1>1 DEF HeldForATurn
  <1> QED  BY <1>1, <1>2, <1>3 DEF Ordered

LEMMA OrderStep == TypeOK /\ OneTurn /\ Ordered /\ [Next]_vars => Ordered'
  <1> SUFFICES ASSUME TypeOK, OneTurn, Ordered, [Next]_vars PROVE Ordered'
    OBVIOUS
  <1>1. CASE Next
    BY <1>1, NextCases, HearOrder, FinishedOrder, CallOrder, SpeechOrder, AnswerOrder
  <1>2. CASE UNCHANGED vars
    BY <1>2, NothingNew DEF vars
  <1> QED  BY <1>1, <1>2

LEMMA OrderedIsOrder == Ordered => AudioInOrder
  BY ConcatOrder DEF Ordered, AudioInOrder, Heap

THEOREM OrderHolds == Spec => []Ordered
  <1> QED  BY OrderInit, OrderStep, TypeCorrect, OneAtATime, PTL DEF Spec

(* The caller is heard in the order the line delivered the audio, whatever *)
(* was held, replayed, dropped or said over an answer.                     *)
THEOREM AudioStaysInOrder == Spec => []AudioInOrder
  BY OrderHolds, OrderedIsOrder, PTL

(* The buffer always belongs to a turn whose end will empty it.            *)
THEOREM NothingHeldForNobody == Spec => []HeldForATurn
  <1>1. Ordered => HeldForATurn
    BY DEF Ordered
  <1> QED  BY <1>1, OrderHolds, PTL

-----------------------------------------------------------------------------
(* What a barge-in has put into the endpointer.                            *)

LEMMA PrefixOfItself == \A a : IsPrefix(a, a)
  BY DEF IsPrefix

LEMMA KeptStep ==
    ASSUME TypeOK, [Next]_vars, interrupted, interrupted'
    PROVE  ear' = ear \/ arrived' > arrived \/ extensions' > extensions
  <1>1. CASE UNCHANGED vars
    BY <1>1 DEF vars
  <1>2. CASE TalkOver \/ BufferInbound \/ Listen
    BY <1>2 DEF TalkOver, BufferInbound, Listen, TypeOK
  <1>3. CASE TurnDiscarded \/ TurnFinished
    BY <1>3 DEF TurnDiscarded, TurnFinished, Stale
  <1>4. CASE \/ Greet \/ StretchPasses \/ IdleWatchdog \/ WatchdogStops
             \/ CloseCall \/ CloseTasks
    BY <1>4 DEF Greet, StretchPasses, IdleWatchdog, WatchdogStops, CloseCall, CloseTasks, hear
  <1>5. ASSUME NEW s \in Speaker,
               \/ Opened(s) \/ NextSentence(s) \/ SendFrame(s)
               \/ Close(s) \/ Hangup(s) \/ Unwind(s)
        PROVE  ear' = ear
    BY <1>5 DEF Opened, NextSentence, SendFrame, Close, Hangup, Unwind, Heard, hear
  <1>6. ASSUME NEW t \in Turn, TranscribeFails(t) \/ FlowReply(t) \/ FlowFails(t)
        PROVE  ear' = ear
    BY <1>6 DEF TranscribeFails, FlowReply, FlowFails, Fails
  <1>7. ASSUME NEW t \in Turn, Transcribed(t)
        PROVE  ear' = ear \/ extensions' > extensions
    <2>1. \/ ear' = ear
          \/ extensions' = Extensions + 1 /\ Extensions < MaxExtensions
      BY <1>7 DEF Transcribed
    <2>2. extensions \in Nat /\ MaxExtensions \in Nat /\ Extensions \in {MaxExtensions, extensions}
      BY CallAssumption DEF Extensions, TypeOK
    <2>3. Extensions < MaxExtensions => Extensions = extensions
      BY <2>2
    <2> QED  BY <2>1, <2>2, <2>3
  <1> QED  BY <1>1, <1>2, <1>3, <1>4, <1>5, <1>6, <1>7, NextCases

(* A turn that unwinds after a barge-in does not throw away what the       *)
(* caller said.                                                            *)
THEOREM InterruptionsSurvive == Spec => InterruptionKept
  <1>1. TypeOK /\ [Next]_vars
        => [interrupted /\ interrupted' /\ ear # <<>>
            => IsPrefix(ear, ear') \/ arrived' > arrived \/ extensions' > extensions]_vars
    BY KeptStep, PrefixOfItself
  <1> QED  BY <1>1, TypeCorrect, PTL DEF Spec, InterruptionKept
=============================================================================
