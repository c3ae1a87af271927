-------------------------- MODULE SentencePipeline --------------------------
(***************************************************************************)
(* The synthesis look-ahead of a phone call (voice/sentence_pipeline.py)   *)
(* with its consumer, PhoneCall._speak_sentences, and the second task that *)
(* closes it, PhoneCall.close (voice/phone.py).                            *)
(*                                                                         *)
(* Both wait for the same prefetch task.  A coroutine is not interrupted   *)
(* between two awaits: nobody else moves while the consumer is at one of   *)
(* the places in Between.                                                  *)
(*                                                                         *)
(* An operator with a suffix, as Finish_KeepsLock, is the operator named   *)
(* before the suffix with one mistake in it, see BrowserReply.             *)
(***************************************************************************)
EXTENDS Naturals, Sequences

CONSTANTS Sentences,    \* sentences of the text
          MaxCancels    \* times the consumer's task is cancelled

ASSUME ConstantsAssumption ==
    /\ Sentences \in Nat \ {0}
    /\ MaxCancels \in Nat

VARIABLES
    async,      \* the source is an async generator, which can be closed
    fetched,    \* sentences taken from the source
    ended,      \* the source is exhausted, failed or closed
    task,       \* the prefetch tasks, oldest first
    text,       \* the sentence each prefetch task has fetched
    pending,    \* SentencePipeline._pending, 0 for None
    consumer,   \* where _speak_sentences is
    mine,       \* the task __anext__ awaits
    thrown,     \* the consumer's next step raises CancelledError
    closing,    \* where each aclose() is
    taken,      \* the task each aclose() awaits
    lock,       \* _close_lock: its holder and who waits for it
    closed,     \* _closed
    cancels,    \* cancellations so far (bounded by MaxCancels)
    played,     \* sentences the pipeline yielded
    skipped     \* sentences reported through on_error

tasks == <<task, text>>
src   == <<async, fetched, ended>>
close == <<closing, taken, lock, closed>>
heard == <<played, skipped>>
vars  == <<tasks, src, pending, consumer, mine, thrown, close, cancels, heard>>

Closer  == {"speaker", "hangup"}
Running == {"fetch", "synth", "cancelling"}
Between == {"next", "resume", "leave"}
NoTask  == 0

TypeOK ==
    /\ async \in BOOLEAN /\ fetched \in 0 .. Sentences /\ ended \in BOOLEAN
    /\ task \in Seq(Running \union {"item", "fail", "end", "error", "cancelled"})
    /\ text \in Seq(0 .. Sentences) /\ Len(text) = Len(task)
    /\ pending \in 0 .. Len(task)
    /\ consumer \in Between \union {"await", "play", "close", "left"}
    /\ mine \in 0 .. Len(task)
    /\ thrown \in BOOLEAN
    /\ closing \in [Closer -> {"no", "lock", "await", "done"}]
    /\ taken \in [Closer -> 0 .. Len(task)]
    /\ lock \in Seq(Closer)
    /\ closed \in BOOLEAN
    /\ cancels \in 0 .. MaxCancels
    /\ played \in Seq(1 .. Sentences) /\ skipped \in Seq(1 .. Sentences)

Init ==
    /\ async \in BOOLEAN /\ fetched = 0 /\ ended = FALSE
    /\ task = <<>> /\ text = <<>>
    /\ pending = NoTask /\ mine = NoTask
    /\ consumer = "next" /\ thrown = FALSE
    /\ closing = [x \in Closer |-> "no"]
    /\ taken = [x \in Closer |-> NoTask]
    /\ lock = <<>> /\ closed = FALSE
    /\ cancels = 0
    /\ played = <<>> /\ skipped = <<>>

(***************************************************************************)
(* The prefetch task, _fetch_and_synthesize                                *)
(***************************************************************************)
Newest == Len(task) + 1

StartTask ==
    /\ task' = Append(task, "fetch")
    /\ text' = Append(text, 0)

Done(k) == task[k] \notin Running

(* The generator of a streamed reply may raise, which also finishes it; a  *)
(* list of sentences does not.                                             *)
Fetch(k) ==
    /\ task[k] = "fetch"
    /\ \/ /\ ~ended /\ fetched < Sentences
          /\ fetched' = fetched + 1
          /\ text' = [text EXCEPT ![k] = fetched']
          /\ task' = [task EXCEPT ![k] = "synth"]
          /\ UNCHANGED ended
       \/ /\ ended \/ fetched = Sentences \/ async
          /\ ended' = TRUE
          /\ task' = [task EXCEPT ![k] = "end"]
          /\ UNCHANGED <<text, fetched>>
       \/ /\ async /\ ~ended
          /\ ended' = TRUE
          /\ task' = [task EXCEPT ![k] = "error"]
          /\ UNCHANGED <<text, fetched>>
    /\ UNCHANGED <<async, pending, consumer, mine, thrown, close, cancels, heard>>

Synthesize_Silent(k) ==
    /\ task[k] = "synth"
    /\ task' = [task EXCEPT ![k] = "item"] \/ task' = [task EXCEPT ![k] = "fail"]
    /\ UNCHANGED <<text, src, pending, consumer, mine, thrown, close, cancels, heard>>

(* A failed synthesis is reported at once and becomes a value.             *)
Synthesize(k) ==
    /\ task[k] = "synth"
    /\ \/ /\ task' = [task EXCEPT ![k] = "item"]
          /\ UNCHANGED skipped
       \/ /\ task' = [task EXCEPT ![k] = "fail"]
          /\ skipped' = Append(skipped, text[k])
    /\ UNCHANGED <<text, src, pending, consumer, mine, thrown, close, cancels, played>>

Cancelled(k) ==
    /\ task[k] = "cancelling"
    /\ task' = [task EXCEPT ![k] = "cancelled"]
    /\ UNCHANGED <<text, src, pending, consumer, mine, thrown, close, cancels, heard>>

(***************************************************************************)
(* The consumer, _speak_sentences over __anext__                           *)
(***************************************************************************)
HungUp == closing["hangup"] # "no"

AwaitNew ==
    /\ StartTask
    /\ pending' = Newest /\ mine' = Newest
    /\ consumer' = "await"

(* __anext__ awaits the look-ahead, or starts a task if there is none; to  *)
(* await a task that is done does not suspend.                             *)
NextSentence ==
    /\ consumer = "next" /\ ~closed
    /\ IF pending # NoTask
       THEN /\ mine' = pending
            /\ consumer' = IF Done(pending) THEN "resume" ELSE "await"
            /\ UNCHANGED <<tasks, pending>>
       ELSE AwaitNew
    /\ UNCHANGED <<src, thrown, close, cancels, heard>>

Resumes == consumer = "resume" \/ (consumer = "await" /\ Done(mine))

(* The speaker looks whether the call has ended or was interrupted before  *)
(* it plays the sentence.                                                  *)
Yield ==
    /\ Resumes /\ ~thrown /\ task[mine] = "item"
    /\ played' = Append(played, text[mine])
    /\ StartTask
    /\ pending' = Newest
    /\ \/ consumer' = "play" /\ ~HungUp
       \/ consumer' = "leave"
    /\ UNCHANGED <<src, mine, thrown, close, cancels, skipped>>

(* The next try does not look whether the pipeline was closed meanwhile.   *)
SkipFailed ==
    /\ Resumes /\ ~thrown /\ task[mine] = "fail"
    /\ AwaitNew
    /\ UNCHANGED <<src, thrown, close, cancels, heard>>

(* Every way out of the await clears _pending if it is still this task.    *)
(* The aclose() of __anext__ at the end of the text and the one of the     *)
(* context manager, which finds nothing left to do, are one.               *)
Stop ==
    /\ Resumes
    /\ thrown \/ task[mine] \in {"end", "error", "cancelled"}
    /\ pending' = IF pending = mine THEN NoTask ELSE pending
    /\ consumer' = "leave" /\ thrown' = FALSE
    /\ UNCHANGED <<tasks, src, mine, close, cancels, heard>>

AfterPlayback ==
    /\ consumer = "play"
    /\ \/ consumer' = "next" /\ ~HungUp
       \/ consumer' = "leave"
    /\ UNCHANGED <<tasks, src, pending, mine, thrown, close, cancels, heard>>

(* Cancelling who awaits a task cancels that task first; of a task that is *)
(* done already only the result is thrown away.                            *)
CancelTask(k) ==
    IF k # NoTask /\ ~Done(k)
    THEN task' = [task EXCEPT ![k] = "cancelling"]
    ELSE UNCHANGED task

(***************************************************************************)
(* aclose(), by the consumer's context manager and by PhoneCall.close      *)
(***************************************************************************)
Finish_KeepsLock(x, queue) ==
    /\ closing' = [closing EXCEPT ![x] = "done"]
    /\ lock' = queue
    /\ ended' = (ended \/ async)
    /\ consumer' = IF x = "speaker" THEN "left" ELSE consumer

Finish(x, queue) ==
    /\ closing' = [closing EXCEPT ![x] = "done"]
    /\ lock' = Tail(queue)
    /\ ended' = (ended \/ async)
    /\ consumer' = IF x = "speaker" THEN "left" ELSE consumer

Take_OnlyOnce(x, queue) ==
    /\ closed' = TRUE
    /\ taken' = [taken EXCEPT ![x] = IF closed THEN NoTask ELSE pending]
    /\ pending' = IF closed THEN pending ELSE NoTask
    /\ CancelTask(taken'[x])
    /\ IF taken'[x] # NoTask /\ ~Done(taken'[x])
       THEN /\ closing' = [closing EXCEPT ![x] = "await"]
            /\ lock' = queue
            /\ consumer' = IF x = "speaker" THEN "close" ELSE consumer
            /\ UNCHANGED ended
       ELSE Finish(x, queue)

(* The holder takes the pending task and waits for it, unless it is done.  *)
Take(x, queue) ==
    /\ closed' = TRUE
    /\ taken' = [taken EXCEPT ![x] = pending]
    /\ pending' = NoTask
    /\ CancelTask(pending)
    /\ IF pending # NoTask /\ ~Done(pending)
       THEN /\ closing' = [closing EXCEPT ![x] = "await"]
            /\ lock' = queue
            /\ consumer' = IF x = "speaker" THEN "close" ELSE consumer
            /\ UNCHANGED ended
       ELSE Finish(x, queue)

Wait(x) ==
    /\ closing' = [closing EXCEPT ![x] = "lock"]
    /\ lock' = Append(lock, x)
    /\ consumer' = IF x = "speaker" THEN "close" ELSE consumer
    /\ UNCHANGED <<task, ended, pending, taken, closed>>

AClose(x) ==
    /\ IF lock = <<>> THEN Take(x, <<x>>) ELSE Wait(x)
    /\ UNCHANGED <<text, async, fetched, mine, thrown, cancels, heard>>

CloseBySpeaker == consumer = "leave" /\ AClose("speaker")

CloseByHangup == ~HungUp /\ consumer # "left" /\ AClose("hangup")

Acquire(x) ==
    /\ closing[x] = "lock" /\ Head(lock) = x
    /\ Take(x, lock)
    /\ UNCHANGED <<text, async, fetched, mine, thrown, cancels, heard>>

AwaitTaken(x) ==
    /\ closing[x] = "await" /\ Done(taken[x])
    /\ Finish(x, lock)
    /\ UNCHANGED <<tasks, async, fetched, pending, mine, thrown, taken, closed, cancels, heard>>

(* The consumer's task is cancelled.  In aclose() the cancellation ends a  *)
(* wait for the lock (with two that close, who waits is the last in line), *)
(* but one that comes while aclose() awaits the task is taken for that     *)
(* task's own and lost.                                                    *)
CancelConsumer ==
    /\ cancels < MaxCancels
    /\ cancels' = cancels + 1
    /\ \/ /\ consumer = "await"
          /\ CancelTask(mine)
          /\ thrown' = TRUE
          /\ UNCHANGED <<consumer, closing, lock>>
       \/ /\ consumer = "play"
          /\ consumer' = "leave"
          /\ UNCHANGED <<task, thrown, closing, lock>>
       \/ /\ closing["speaker"] = "lock"
          /\ closing' = [closing EXCEPT !["speaker"] = "no"]
          /\ lock' = SubSeq(lock, 1, Len(lock) - 1)
          /\ consumer' = "left"
          /\ UNCHANGED <<task, thrown>>
       \/ /\ closing["speaker"] = "await"
          /\ UNCHANGED <<task, thrown, consumer, closing, lock>>
    /\ UNCHANGED <<text, src, pending, mine, taken, closed, heard>>

-----------------------------------------------------------------------------
Speaker     == \/ NextSentence \/ Yield \/ SkipFailed \/ Stop \/ AfterPlayback
               \/ CloseBySpeaker
Prefetch(k) == /\ consumer \notin Between
               /\ Fetch(k) \/ Synthesize(k) \/ Cancelled(k)
Closes(x)   == consumer \notin Between /\ (Acquire(x) \/ AwaitTaken(x))
Outside     == consumer \notin Between /\ (CloseByHangup \/ CancelConsumer)

Next == \/ Speaker
        \/ \E k \in 1 .. Len(task) : Prefetch(k)
        \/ \E x \in Closer : Closes(x)
        \/ Outside

Spec == Init /\ [][Next]_vars

(* Every task of the event loop runs on, and playing a sentence ends.      *)
FairSpec == /\ Spec
            /\ WF_vars(Speaker)
            /\ WF_vars(\E k \in 1 .. Len(task) : Prefetch(k))
            /\ \A x \in Closer : WF_vars(Closes(x))

-----------------------------------------------------------------------------
(* The listener gets the sentences in order and misses none but those      *)
(* whose synthesis failed: __anext__ with its look-ahead implements        *)
(* SentenceStream.                                                         *)
Stream == INSTANCE SentenceStream
KeepsOrder == Stream!Spec

(* Once the speaker has left and the hangup, if there was one, has closed  *)
(* the pipeline, no task is left behind, nor an open generator.            *)
NoOrphan ==
    consumer = "left" /\ (HungUp => closing["hangup"] = "done") =>
        /\ \A k \in 1 .. Len(task) : Done(k)
        /\ async => ended

(* A speaker whose call has ended leaves, and so does PhoneCall.close.     *)
EndedCallLeaves == HungUp ~> (consumer = "left" /\ closing["hangup"] = "done")
=============================================================================
