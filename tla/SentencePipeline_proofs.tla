---------------------- MODULE SentencePipeline_proofs ----------------------
(***************************************************************************)
(* Proofs about SentencePipeline, for texts of any length and any number   *)
(* of cancellations: the listener gets the sentences in order, and whoever *)
(* closes the pipeline in whatever order leaves no task behind.            *)
(***************************************************************************)
EXTENDS SentencePipeline, SequenceTheorems, TLAPS

(* At most one prefetch task runs, and the pipeline, its consumer or an    *)
(* aclose() that cancelled it still knows it.                              *)
Known ==
    \A k \in 1 .. Len(task) : ~Done(k) =>
        \/ k = pending
        \/ consumer = "await" /\ mine = k
        \/ \E x \in Closer : closing[x] = "await" /\ taken[x] = k

(* Who holds the lock of aclose(), and who waits for it.                   *)
LockShape ==
    \/ /\ lock = <<>>
       /\ closing["hangup"] \in {"no", "done"} /\ closing["speaker"] \in {"no", "done"}
    \/ /\ lock = <<"hangup">>
       /\ \/ closing["hangup"] = "await" /\ closing["speaker"] \in {"no", "done"}
          \/ closing["hangup"] = "lock" /\ closing["speaker"] = "done"
    \/ /\ lock = <<"speaker">>
       /\ \/ closing["speaker"] = "await" /\ closing["hangup"] \in {"no", "done"}
          \/ closing["speaker"] = "lock" /\ closing["hangup"] = "done"
    \/ /\ lock = <<"hangup", "speaker">>
       /\ closing["hangup"] = "await" /\ closing["speaker"] = "lock"
    \/ /\ lock = <<"speaker", "hangup">>
       /\ closing["speaker"] = "await" /\ closing["hangup"] = "lock"

(* The speaker is where its own aclose() is.                               *)
Roles ==
    /\ consumer = "close" <=> closing["speaker"] \in {"lock", "await"}
    /\ closing["speaker"] = "done" => consumer = "left"
    /\ consumer = "left" => closing["speaker"] = "done" \/ HungUp

(* Only the newest task is pending or awaited.                             *)
Awaited ==
    /\ pending \in {NoTask, Len(task)}
    /\ consumer = "resume" => mine = pending /\ mine # NoTask /\ Done(mine)
    /\ consumer = "await" => mine = Len(task) /\ mine # NoTask
    /\ consumer \in {"close", "left"} => pending = NoTask
    /\ consumer \in {"next", "play"} /\ ~closed /\ pending = NoTask => task = <<>>

(* What an aclose() waits for was cancelled.                               *)
Taken ==
    /\ \A x \in Closer : closing[x] = "await" =>
          taken[x] # NoTask /\ task[taken[x]] \in {"cancelling", "cancelled"}
    /\ closing["hangup"] = "await" =>
          /\ pending = NoTask /\ consumer \notin {"next", "resume"}
          /\ consumer = "await" => mine = taken["hangup"]

SourceClosed == \A x \in Closer : closing[x] = "done" /\ async => ended

(* The newest task has the sentence that follows those yielded or skipped. *)
Line ==
    /\ task = <<>> => fetched = Len(played) + Len(skipped)
    /\ task # <<>> =>
          LET n == Len(task) IN
          /\ task[n] \in {"fetch", "fail"} => fetched = Len(played) + Len(skipped)
          /\ task[n] \in {"synth", "item"} =>
                text[n] = Len(played) + Len(skipped) + 1 /\ fetched = text[n]

States == Running \cup {"item", "fail", "end", "error", "cancelled"}

-----------------------------------------------------------------------------
(* The list of prefetch tasks.                                             *)

LEMMA TasksAre ==
    ASSUME TypeOK
    PROVE  /\ Len(task) \in Nat /\ Len(text) = Len(task) /\ (task = <<>> <=> Len(task) = 0)
           /\ \A k \in 1 .. Len(task) : task[k] \in States /\ text[k] \in 0 .. Sentences
           /\ Len(played) \in Nat /\ Len(skipped) \in Nat
  <1>1. /\ task \in Seq(States) /\ text \in Seq(0 .. Sentences) /\ Len(text) = Len(task)
        /\ played \in Seq(1 .. Sentences) /\ skipped \in Seq(1 .. Sentences)
    BY DEF TypeOK, States
  <1>2. Len(task) \in Nat /\ \A k \in 1 .. Len(task) : task[k] \in States
    BY <1>1
  <1>3. \A k \in 1 .. Len(text) : text[k] \in 0 .. Sentences
    BY <1>1, ElementOfSeq
  <1>4. Len(played) \in Nat /\ Len(skipped) \in Nat
    BY <1>1
  <1>5. task = <<>> <=> Len(task) = 0
    BY <1>1, EmptySeq
  <1> QED  BY <1>1, <1>2, <1>3, <1>4, <1>5

(* A task that is started is the newest, and it runs.                      *)
LEMMA Starts ==
    ASSUME TypeOK, StartTask
    PROVE  /\ task' \in Seq(States) /\ text' \in Seq(0 .. Sentences)
           /\ Len(task') = Len(task) + 1 /\ Len(text') = Len(task')
           /\ \A k \in 1 .. Len(task) : task'[k] = task[k] /\ text'[k] = text[k]
           /\ task'[Len(task) + 1] = "fetch" /\ task' # <<>>
           /\ 1 .. Len(task') = 1 .. Len(task) \cup {Len(task) + 1}
  <1>1. /\ task \in Seq(States) /\ text \in Seq(0 .. Sentences) /\ Len(text) = Len(task)
        /\ Len(task) \in Nat
    BY DEF TypeOK, States
  <1>2. 0 \in 0 .. Sentences /\ "fetch" \in States
    BY ConstantsAssumption DEF States, Running
  <1>3. /\ task' = Append(task, "fetch") /\ text' = Append(text, 0)
    BY DEF StartTask
  <1>4. /\ task' \in Seq(States) /\ Len(task') = Len(task) + 1
        /\ \A k \in 1 .. Len(task) : task'[k] = task[k]
        /\ task'[Len(task) + 1] = "fetch"
    BY <1>1, <1>2, <1>3
  <1>5. /\ text' \in Seq(0 .. Sentences) /\ Len(text') = Len(text) + 1
        /\ \A k \in 1 .. Len(text) : text'[k] = text[k]
    BY <1>1, <1>2, <1>3
  <1>6. task' # <<>>
    BY <1>1, <1>4
  <1> QED  BY <1>1, <1>4, <1>5, <1>6

(* One task goes to another state.                                         *)
LEMMA Goes ==
    ASSUME TypeOK, NEW k \in 1 .. Len(task), NEW v \in States,
           task' = [task EXCEPT ![k] = v]
    PROVE  /\ task' \in Seq(States) /\ Len(task') = Len(task)
           /\ task'[k] = v /\ task # <<>> /\ task' # <<>>
           /\ \A j \in 1 .. Len(task) : j # k => task'[j] = task[j]
  <1>1. task \in Seq(States) /\ Len(task) \in Nat
    BY DEF TypeOK, States
  <1>2. task' \in Seq(States) /\ Len(task') = Len(task)
    BY <1>1
  <1> QED  BY <1>1, <1>2

(* Cancelling a task changes no other, and a task that is done not at all. *)
LEMMA Cancels ==
    ASSUME TypeOK, NEW k \in 0 .. Len(task), CancelTask(k)
    PROVE  /\ task' \in Seq(States) /\ Len(task') = Len(task) /\ (task' = <<>> <=> task = <<>>)
           /\ \A j \in 1 .. Len(task) :
                 \/ task'[j] = task[j] /\ (j # k \/ Done(j))
                 \/ j = k /\ ~Done(j) /\ task'[j] = "cancelling"
  <1>1. "cancelling" \in States /\ task \in Seq(States) /\ Len(task) \in Nat
    BY DEF States, Running, TypeOK
  <1>2. CASE k # NoTask /\ ~Done(k)
    <2>1. k \in 1 .. Len(task) /\ task' = [task EXCEPT ![k] = "cancelling"]
      BY <1>1, <1>2 DEF CancelTask, NoTask
    <2> QED  BY <1>1, <1>2, <2>1, Goes
  <1>3. CASE ~ (k # NoTask /\ ~Done(k))
    <2>1. task' = task
      BY <1>3 DEF CancelTask
    <2> QED  BY <1>1, <1>3, <2>1 DEF NoTask
  <1> QED  BY <1>2, <1>3

(* Lines of one and of two.                                                *)
LEMMA Lines ==
    ASSUME NEW S, NEW x \in S, NEW y \in S
    PROVE  /\ <<>> \in Seq(S) /\ <<x>> \in Seq(S) /\ <<x, y>> \in Seq(S)
           /\ <<x>> # <<>> /\ <<x, y>> # <<>> /\ Head(<<x>>) = x /\ Head(<<x, y>>) = x
           /\ Tail(<<x>>) = <<>> /\ Tail(<<x, y>>) = <<y>>
           /\ Append(<<x>>, y) = <<x, y>>
           /\ SubSeq(<<x>>, 1, Len(<<x>>) - 1) = <<>>
           /\ SubSeq(<<x, y>>, 1, Len(<<x, y>>) - 1) = <<x>>
  <1>1. <<>> \in Seq(S) /\ <<x>> \in Seq(S) /\ <<x, y>> \in Seq(S)
    OBVIOUS
  <1>2. <<x>> # <<>> /\ <<x, y>> # <<>> /\ Head(<<x>>) = x /\ Head(<<x, y>>) = x
    OBVIOUS
  <1>3. Tail(<<x>>) = <<>>
    OBVIOUS
  <1>4. Tail(<<x, y>>) = <<y>>
    OBVIOUS
  <1>5. SubSeq(<<x>>, 1, Len(<<x>>) - 1) = <<>>
    OBVIOUS
  <1>6. Len(<<x>>) = 1 /\ <<x>>[1] = x /\ Len(<<x, y>>) = 2 /\ <<x, y>>[1] = x /\ <<x, y>>[2] = y
    OBVIOUS
  <1>7. Append(<<x>>, y) = <<x, y>>
    <2>1. /\ Append(<<x>>, y) \in Seq(S) /\ Len(Append(<<x>>, y)) = 2
          /\ Append(<<x>>, y)[1] = x /\ Append(<<x>>, y)[2] = y
      BY <1>1, <1>6
    <2>2. \A i \in 1 .. 2 : Append(<<x>>, y)[i] = <<x, y>>[i]
      BY <1>6, <2>1
    <2> QED  BY <1>1, <1>6, <2>1, <2>2, SeqEqual
  <1>8. SubSeq(<<x, y>>, 1, Len(<<x, y>>) - 1) = <<x>>
    <2>1. /\ SubSeq(<<x, y>>, 1, 1) \in Seq(S) /\ Len(SubSeq(<<x, y>>, 1, 1)) = 1
          /\ SubSeq(<<x, y>>, 1, 1)[1] = x
      BY <1>1, <1>6
    <2>2. \A i \in 1 .. 1 : SubSeq(<<x, y>>, 1, 1)[i] = <<x>>[i]
      BY <1>6, <2>1
    <2>3. SubSeq(<<x, y>>, 1, 1) = <<x>>
      BY <1>1, <1>6, <2>1, <2>2, SeqEqual
    <2> QED  BY <1>6, <2>3
  <1> QED  BY <1>1, <1>2, <1>3, <1>4, <1>5, <1>7, <1>8

LEMMA Queues ==
    /\ "speaker" \in Closer /\ "hangup" \in Closer
    /\ \A a \in Closer, b \in Closer :
          /\ <<>> \in Seq(Closer) /\ <<a>> \in Seq(Closer) /\ <<a, b>> \in Seq(Closer)
          /\ <<a>> # <<>> /\ <<a, b>> # <<>> /\ Head(<<a>>) = a /\ Head(<<a, b>>) = a
          /\ Tail(<<a>>) = <<>> /\ Tail(<<a, b>>) = <<b>>
          /\ Append(<<a>>, b) = <<a, b>>
          /\ SubSeq(<<a>>, 1, Len(<<a>>) - 1) = <<>>
          /\ SubSeq(<<a, b>>, 1, Len(<<a, b>>) - 1) = <<a>>
  <1>1. ASSUME NEW a \in Closer, NEW b \in Closer
        PROVE  /\ <<>> \in Seq(Closer) /\ <<a>> \in Seq(Closer) /\ <<a, b>> \in Seq(Closer)
               /\ <<a>> # <<>> /\ <<a, b>> # <<>> /\ Head(<<a>>) = a /\ Head(<<a, b>>) = a
               /\ Tail(<<a>>) = <<>> /\ Tail(<<a, b>>) = <<b>>
               /\ Append(<<a>>, b) = <<a, b>>
               /\ SubSeq(<<a>>, 1, Len(<<a>>) - 1) = <<>>
               /\ SubSeq(<<a, b>>, 1, Len(<<a, b>>) - 1) = <<a>>
    BY Lines
  <1> QED  BY <1>1 DEF Closer

-----------------------------------------------------------------------------
(* The steps.                                                              *)

IInv == TypeOK /\ Known /\ LockShape /\ Roles /\ Awaited /\ Taken /\ SourceClosed /\ Line

(* Who closes and where does not change.                                   *)
LEMMA SameRoles ==
    ASSUME LockShape, closing' = closing, lock' = lock
    PROVE  LockShape' /\ (HungUp' <=> HungUp)
  BY DEF LockShape, HungUp

LEMMA SameTasks ==
    ASSUME TypeOK, Known, Taken, Line, task' = task, text' = text, closing' = closing,
           taken' = taken, fetched' = fetched, played' = played, skipped' = skipped
    PROVE  Line' /\ \A x \in Closer : closing'[x] = "await" =>
                       taken'[x] # NoTask /\ task'[taken'[x]] \in {"cancelling", "cancelled"}
  BY DEF Line, Taken

LEMMA PrefetchStep ==
    ASSUME IInv, NEW k \in 1 .. Len(task), Prefetch(k)
    PROVE  IInv'
  <1> USE DEF IInv
  <1>1. /\ pending' = pending /\ consumer' = consumer /\ mine' = mine /\ thrown' = thrown
        /\ async' = async /\ played' = played /\ cancels' = cancels
        /\ closing' = closing /\ taken' = taken /\ lock' = lock /\ closed' = closed
        /\ consumer \notin Between /\ (ended => ended')
    BY DEF Prefetch, Fetch, Synthesize, Cancelled, close, heard, src, TypeOK
  <1>2. /\ Len(task) \in Nat /\ Len(text) = Len(task) /\ task # <<>>
        /\ \A j \in 1 .. Len(task) : task[j] \in States /\ text[j] \in 0 .. Sentences
        /\ Len(played) \in Nat /\ Len(skipped) \in Nat /\ Len(task) \in 1 .. Len(task)
    BY TasksAre
  <1>3. /\ ~Done(k)
        /\ \/ k = pending
           \/ consumer = "await" /\ mine = k
           \/ \E x \in Closer : closing[x] = "await" /\ taken[x] = k
    BY DEF Prefetch, Fetch, Synthesize, Cancelled, Done, Running, Known
  <1>4. task[k] # "cancelling" => k = Len(task)
    BY <1>2, <1>3 DEF Awaited, Taken, Done, Running, NoTask
  <1>5. PICK v \in States : task' = [task EXCEPT ![k] = v]
    BY DEF Prefetch, Fetch, Synthesize, Cancelled, States, Running
  <1>6. /\ task' \in Seq(States) /\ Len(task') = Len(task) /\ task'[k] = v /\ task' # <<>>
        /\ \A j \in 1 .. Len(task) : j # k => task'[j] = task[j]
    BY <1>5, Goes
  <1>7. /\ \A w : task' = [task EXCEPT ![k] = w] => v = w
        /\ task[k] # "cancelled" /\ (task[k] = "cancelling" => v = "cancelled")
    <2>1. task \in Seq(States)
      BY DEF TypeOK, States
    <2>2. \A w : task' = [task EXCEPT ![k] = w] => v = w
      BY <1>6, <2>1
    <2> QED  BY <2>2 DEF Prefetch, Fetch, Synthesize, Cancelled
  <1>8. Known'
    BY <1>1, <1>3, <1>6 DEF Known, Done
  <1>9. LockShape' /\ Roles'
    BY <1>1, SameRoles DEF Roles
  <1>10. Awaited'
    BY <1>1, <1>2, <1>6 DEF Awaited, Between
  <1>11. Taken'
    <2>1. \A x \in Closer : taken[x] \in 0 .. Len(task)
      BY DEF TypeOK
    <2> QED  BY <1>1, <1>2, <1>6, <1>7, <2>1 DEF Taken, NoTask
  <1>12. SourceClosed'
    BY <1>1 DEF SourceClosed
  <1>13. CASE Fetch(k)
    <2>1. skipped' = skipped /\ k = Len(task) /\ task[k] = "fetch"
          /\ fetched = Len(played) + Len(skipped)
      BY <1>2, <1>4, <1>13 DEF Fetch, heard, Line
    <2>2. CASE /\ ~ended /\ fetched < Sentences
               /\ fetched' = fetched + 1
               /\ text' = [text EXCEPT ![k] = fetched']
               /\ task' = [task EXCEPT ![k] = "synth"]
      <3>1. fetched + 1 \in 0 .. Sentences /\ text \in Seq(0 .. Sentences)
        BY <2>2, ConstantsAssumption DEF TypeOK
      <3>2. /\ text' \in Seq(0 .. Sentences) /\ Len(text') = Len(text)
            /\ text'[k] = fetched + 1
        BY <1>2, <2>2, <3>1
      <3>3. task'[k] = "synth"
        BY <1>6, <2>2, <1>5
      <3>4. Line'
        BY <1>1, <1>6, <2>1, <2>2, <3>2, <3>3 DEF Line
      <3>5. TypeOK'
        <4>1. ended' = ended
          BY <1>13, <2>2, <3>3, <1>6 DEF Fetch
        <4> QED  BY <1>1, <1>2, <1>6, <2>1, <2>2, <3>1, <3>2, <4>1 DEF TypeOK, States
      <3> QED  BY <1>8, <1>9, <1>10, <1>11, <1>12, <3>4, <3>5
    <2>3. CASE ended' = TRUE /\ v \in {"end", "error"} /\ UNCHANGED <<text, fetched>>
      <3>1. Line'
        BY <1>1, <1>6, <2>1, <2>3 DEF Line
      <3>2. TypeOK'
        BY <1>1, <1>2, <1>6, <2>1, <2>3 DEF TypeOK, States
      <3> QED  BY <1>8, <1>9, <1>10, <1>11, <1>12, <3>1, <3>2
    <2> QED  BY <1>7, <1>13, <2>2, <2>3 DEF Fetch
  <1>14. CASE Synthesize(k)
    <2>1. /\ text' = text /\ fetched' = fetched /\ ended' = ended /\ task[k] = "synth"
          /\ k = Len(task) /\ text[k] = Len(played) + Len(skipped) + 1 /\ fetched = text[k]
      BY <1>2, <1>4, <1>14 DEF Synthesize, src, Line
    <2>2. CASE v = "item" /\ skipped' = skipped
      <3>1. Line'
        BY <1>1, <1>6, <2>1, <2>2 DEF Line
      <3>2. TypeOK'
        BY <1>1, <1>2, <1>6, <2>1, <2>2 DEF TypeOK, States
      <3> QED  BY <1>8, <1>9, <1>10, <1>11, <1>12, <3>1, <3>2
    <2>3. CASE v = "fail" /\ skipped' = Append(skipped, text[k])
      <3>1. text[k] \in 1 .. Sentences /\ skipped \in Seq(1 .. Sentences)
        BY <1>2, <2>1, ConstantsAssumption DEF TypeOK
      <3>2. skipped' \in Seq(1 .. Sentences) /\ Len(skipped') = Len(skipped) + 1
        BY <2>3, <3>1
      <3>3. Line'
        BY <1>1, <1>2, <1>6, <2>1, <2>3, <3>2 DEF Line
      <3>4. TypeOK'
        BY <1>1, <1>2, <1>6, <2>1, <3>2 DEF TypeOK, States
      <3> QED  BY <1>8, <1>9, <1>10, <1>11, <1>12, <3>3, <3>4
    <2> QED  BY <1>5, <1>6, <1>14, <2>2, <2>3 DEF Synthesize
  <1>15. CASE Cancelled(k)
    <2>1. /\ text' = text /\ fetched' = fetched /\ ended' = ended /\ skipped' = skipped
          /\ v = "cancelled"
      BY <1>5, <1>6, <1>15 DEF Cancelled, src, heard
    <2>2. Line'
      BY <1>1, <1>2, <1>6, <2>1 DEF Line
    <2>3. TypeOK'
      BY <1>1, <1>2, <1>6, <2>1 DEF TypeOK, States
    <2> QED  BY <1>8, <1>9, <1>10, <1>11, <1>12, <2>2, <2>3
  <1> QED  BY <1>13, <1>14, <1>15 DEF Prefetch

(* The consumer between the pipeline and the line.                         *)
LEMMA NextStep ==
    ASSUME IInv, NextSentence
    PROVE  IInv'
  <1> USE DEF IInv
  <1>1. /\ closing' = closing /\ taken' = taken /\ lock' = lock /\ closed' = closed
        /\ async' = async /\ ended' = ended /\ fetched' = fetched /\ cancels' = cancels
        /\ thrown' = thrown /\ played' = played /\ skipped' = skipped
        /\ consumer = "next" /\ ~closed
    BY DEF NextSentence, close, src, heard
  <1>2. /\ Len(task) \in Nat /\ (task = <<>> <=> Len(task) = 0)
    BY TasksAre
  <1>3. LockShape'
    BY <1>1, SameRoles
  <1>4. closing["hangup"] # "await"
    BY <1>1 DEF Taken
  <1>5. SourceClosed'
    BY <1>1 DEF SourceClosed
  <1>6. CASE pending # NoTask
    <2>1. /\ mine' = pending /\ task' = task /\ text' = text /\ pending' = pending
          /\ consumer' = IF Done(pending) THEN "resume" ELSE "await"
      BY <1>6 DEF NextSentence, tasks
    <2>2. TypeOK'
      BY <1>1, <2>1 DEF TypeOK, Between
    <2>3. Known'
      BY <1>1, <2>1 DEF Known, Done
    <2>4. Roles'
      BY <1>1, <2>1 DEF Roles, HungUp
    <2>5. Awaited'
      BY <1>6, <2>1 DEF Awaited, Done, NoTask
    <2>6. Taken'
      BY <1>1, <1>4, <2>1 DEF Taken
    <2>7. Line'
      BY <1>1, <2>1 DEF Line
    <2> QED  BY <1>3, <1>5, <2>2, <2>3, <2>4, <2>5, <2>6, <2>7
  <1>7. CASE pending = NoTask
    <2>1. /\ StartTask /\ pending' = Len(task) + 1 /\ mine' = Len(task) + 1
          /\ consumer' = "await"
      BY <1>7 DEF NextSentence, AwaitNew, Newest
    <2>2. /\ task' \in Seq(States) /\ text' \in Seq(0 .. Sentences)
          /\ Len(task') = Len(task) + 1 /\ Len(text') = Len(task')
          /\ \A k \in 1 .. Len(task) : task'[k] = task[k] /\ text'[k] = text[k]
          /\ task'[Len(task) + 1] = "fetch" /\ task' # <<>>
          /\ 1 .. Len(task') = 1 .. Len(task) \cup {Len(task) + 1}
      BY <2>1, Starts
    <2>3. task = <<>> /\ Len(task) = 0
      BY <1>1, <1>2, <1>7 DEF Awaited
    <2>4. TypeOK'
      <3>1. taken' \in [Closer -> 0 .. Len(task')]
        BY <1>1, <1>2, <2>2 DEF TypeOK
      <3> QED  BY <1>1, <1>2, <2>1, <2>2, <3>1 DEF TypeOK, States
    <2>5. Known'
      BY <2>1, <2>2, <2>3 DEF Known
    <2>6. Roles'
      BY <1>1, <2>1 DEF Roles, HungUp
    <2>7. Awaited'
      BY <1>2, <2>1, <2>2 DEF Awaited, NoTask
    <2>8. Taken'
      <3>1. \A x \in Closer : closing[x] # "await"
        BY <1>2, <2>3 DEF Taken, TypeOK, NoTask
      <3> QED  BY <1>1, <1>4, <3>1 DEF Taken
    <2>9. Line'
      BY <1>1, <2>2, <2>3 DEF Line
    <2> QED  BY <1>3, <1>5, <2>4, <2>5, <2>6, <2>7, <2>8, <2>9
  <1> QED  BY <1>6, <1>7

(* What the consumer has been waiting for is the newest task, and done;    *)
(* when that brought a result, no hangup is waiting for it.                *)
LEMMA ResumesOn ==
    ASSUME IInv, Resumes
    PROVE  /\ mine = Len(task) /\ mine \in 1 .. Len(task) /\ Done(mine) /\ mine # NoTask
           /\ consumer \in {"await", "resume"}
           /\ task[mine] \in {"item", "fail"} => closing["hangup"] # "await"
           /\ \A k \in 1 .. Len(task) : ~Done(k) =>
                 \E x \in Closer : closing[x] = "await" /\ taken[x] = k
  <1> USE DEF IInv
  <1>1. consumer \in {"await", "resume"} /\ Done(mine)
    BY DEF Resumes, Awaited
  <1>2. mine = Len(task) /\ mine # NoTask /\ Len(task) \in Nat
    BY <1>1, TasksAre DEF Awaited
  <1>3. mine \in 1 .. Len(task)
    BY <1>2 DEF NoTask
  <1>4. task[mine] \in {"item", "fail"} => closing["hangup"] # "await"
    BY <1>1 DEF Taken, Closer
  <1>5. \A k \in 1 .. Len(task) : ~Done(k) => k # pending /\ k # mine
    BY <1>1, <1>2 DEF Awaited, NoTask
  <1> QED  BY <1>1, <1>2, <1>3, <1>4, <1>5 DEF Known

(* A task is started behind one that has brought a result.                 *)
LEMMA StartsNext ==
    ASSUME IInv, Resumes, task[mine] \in {"item", "fail"}, StartTask, pending' = Newest,
           closing' = closing, taken' = taken, lock' = lock, closed' = closed,
           async' = async, ended' = ended, fetched' = fetched, cancels' = cancels,
           thrown' = thrown
    PROVE  /\ LockShape' /\ SourceClosed' /\ Known' /\ Taken'
           /\ task' \in Seq(States) /\ text' \in Seq(0 .. Sentences)
           /\ Len(task') = Len(task) + 1 /\ Len(text') = Len(task') /\ Len(task) \in Nat
           /\ taken' \in [Closer -> 0 .. Len(task')]
           /\ task'[Len(task')] = "fetch" /\ task' # <<>>
  <1> USE DEF IInv
  <1>1. /\ task' \in Seq(States) /\ text' \in Seq(0 .. Sentences)
        /\ Len(task') = Len(task) + 1 /\ Len(text') = Len(task')
        /\ \A k \in 1 .. Len(task) : task'[k] = task[k] /\ text'[k] = text[k]
        /\ task'[Len(task) + 1] = "fetch" /\ task' # <<>>
        /\ 1 .. Len(task') = 1 .. Len(task) \cup {Len(task) + 1}
    BY Starts
  <1>2. /\ closing["hangup"] # "await" /\ Len(task) \in Nat
        /\ \A k \in 1 .. Len(task) : ~Done(k) =>
              \E x \in Closer : closing[x] = "await" /\ taken[x] = k
    BY ResumesOn, TasksAre
  <1>3. taken' \in [Closer -> 0 .. Len(task')]
    BY <1>1, <1>2 DEF TypeOK
  <1>4. Known'
    BY <1>1, <1>2 DEF Known, Done, Newest
  <1>5. Taken'
    <2>1. \A x \in Closer : taken[x] \in 0 .. Len(task)
      BY DEF TypeOK
    <2> QED  BY <1>1, <1>2, <2>1 DEF Taken, NoTask
  <1>6. LockShape' /\ SourceClosed'
    BY SameRoles DEF SourceClosed
  <1> QED  BY <1>1, <1>2, <1>3, <1>4, <1>5, <1>6

LEMMA YieldStep ==
    ASSUME IInv, Yield \/ SkipFailed
    PROVE  IInv'
  <1> USE DEF IInv
  <1>1. /\ closing' = closing /\ taken' = taken /\ lock' = lock /\ closed' = closed
        /\ async' = async /\ ended' = ended /\ fetched' = fetched /\ cancels' = cancels
        /\ thrown' = thrown /\ skipped' = skipped /\ Resumes /\ StartTask /\ pending' = Newest
        /\ task[mine] \in {"item", "fail"}
    BY DEF Yield, SkipFailed, AwaitNew, close, src, heard
  <1>2. /\ LockShape' /\ SourceClosed' /\ Known' /\ Taken'
        /\ task' \in Seq(States) /\ text' \in Seq(0 .. Sentences)
        /\ Len(task') = Len(task) + 1 /\ Len(text') = Len(task') /\ Len(task) \in Nat
        /\ taken' \in [Closer -> 0 .. Len(task')]
        /\ task'[Len(task')] = "fetch" /\ task' # <<>>
    BY <1>1, StartsNext
  <1>3. /\ mine = Len(task) /\ mine \in 1 .. Len(task) /\ consumer \in {"await", "resume"}
    BY <1>1, ResumesOn
  <1>4. /\ task # <<>> /\ text[mine] \in 0 .. Sentences
        /\ Len(played) \in Nat /\ Len(skipped) \in Nat
    BY <1>3, TasksAre
  <1>5. CASE Yield
    <2>1. /\ played' = Append(played, text[mine]) /\ mine' = mine /\ consumer' \in {"play", "leave"}
          /\ task[mine] = "item"
      BY <1>5 DEF Yield
    <2>2. text[mine] = Len(played) + Len(skipped) + 1 /\ fetched = text[mine]
      BY <1>3, <1>4, <2>1 DEF Line
    <2>3. text[mine] \in 1 .. Sentences /\ played \in Seq(1 .. Sentences)
      BY <1>4, <2>2, ConstantsAssumption DEF TypeOK
    <2>4. played' \in Seq(1 .. Sentences) /\ Len(played') = Len(played) + 1
      BY <2>1, <2>3
    <2>5. TypeOK'
      BY <1>1, <1>2, <1>3, <2>1, <2>4 DEF TypeOK, States, Newest, Between
    <2>6. Roles'
      BY <1>1, <1>3, <2>1 DEF Roles, HungUp
    <2>7. Awaited'
      BY <1>1, <1>2, <2>1 DEF Awaited, Newest, NoTask
    <2>8. Line'
      BY <1>1, <1>2, <1>4, <2>2, <2>4 DEF Line
    <2> QED  BY <1>2, <2>5, <2>6, <2>7, <2>8
  <1>6. CASE SkipFailed
    <2>1. /\ played' = played /\ mine' = Newest /\ consumer' = "await" /\ task[mine] = "fail"
      BY <1>6 DEF SkipFailed, AwaitNew, heard
    <2>2. TypeOK'
      BY <1>1, <1>2, <2>1 DEF TypeOK, States, Newest
    <2>3. Roles'
      BY <1>1, <1>3, <2>1 DEF Roles, HungUp
    <2>4. Awaited'
      BY <1>1, <1>2, <2>1 DEF Awaited, Newest, NoTask
    <2>5. Line'
      BY <1>1, <1>2, <1>3, <1>4, <2>1 DEF Line
    <2> QED  BY <1>2, <2>2, <2>3, <2>4, <2>5
  <1> QED  BY <1>5, <1>6

LEMMA LeaveStep ==
    ASSUME IInv, Stop \/ AfterPlayback
    PROVE  IInv'
  <1> USE DEF IInv
  <1>1. /\ closing' = closing /\ taken' = taken /\ lock' = lock /\ closed' = closed
        /\ async' = async /\ ended' = ended /\ fetched' = fetched /\ cancels' = cancels
        /\ task' = task /\ text' = text /\ played' = played /\ skipped' = skipped
        /\ mine' = mine /\ thrown' \in BOOLEAN
    BY DEF Stop, AfterPlayback, close, src, heard, tasks, TypeOK
  <1>2. LockShape' /\ SourceClosed' /\ Line'
    BY <1>1, SameRoles DEF SourceClosed, Line
  <1>3. CASE Stop
    <2>1. /\ pending' \in {pending, NoTask} /\ consumer' = "leave" /\ Resumes
          /\ consumer \in {"await", "resume"}
          /\ \A k \in 1 .. Len(task) : ~Done(k) =>
                \E x \in Closer : closing[x] = "await" /\ taken[x] = k
      BY <1>3, ResumesOn DEF Stop
    <2>2. TypeOK'
      BY <1>1, <2>1 DEF TypeOK, NoTask, Between
    <2>3. Known'
      BY <1>1, <2>1 DEF Known, Done
    <2>4. Roles' /\ Awaited' /\ Taken'
      BY <1>1, <2>1 DEF Roles, HungUp, Awaited, Taken
    <2> QED  BY <1>2, <2>2, <2>3, <2>4
  <1>4. CASE AfterPlayback
    <2>1. /\ pending' = pending /\ consumer = "play"
          /\ consumer' = "leave" \/ (consumer' = "next" /\ ~HungUp)
      BY <1>4 DEF AfterPlayback
    <2>2. TypeOK'
      BY <1>1, <2>1 DEF TypeOK, Between
    <2>3. Known'
      BY <1>1, <2>1 DEF Known, Done
    <2>4. Roles' /\ Awaited' /\ Taken'
      BY <1>1, <2>1 DEF Roles, HungUp, Awaited, Taken
    <2> QED  BY <1>2, <2>2, <2>3, <2>4
  <1> QED  BY <1>3, <1>4

(* The two that close.  Somebody takes the pending task, as the first to   *)
(* come or as the next in line.                                            *)
LEMMA TakeStep ==
    ASSUME IInv, NEW x \in Closer, NEW queue, Take(x, queue),
           \/ lock = <<>> /\ queue = <<x>> /\ closing[x] = "no"
           \/ lock # <<>> /\ queue = lock /\ Head(lock) = x /\ closing[x] = "lock",
           x = "speaker" => consumer \in {"leave", "close"},
           x = "hangup" => consumer \notin Between,
           UNCHANGED <<text, async, fetched, mine, thrown, cancels, heard>>
    PROVE  IInv'
  <1> USE DEF IInv
  <1>1. /\ text' = text /\ async' = async /\ fetched' = fetched /\ mine' = mine
        /\ thrown' = thrown /\ cancels' = cancels /\ played' = played /\ skipped' = skipped
        /\ closed' = TRUE /\ pending' = NoTask /\ taken' = [taken EXCEPT ![x] = pending]
        /\ pending \in 0 .. Len(task) /\ CancelTask(pending)
        /\ x \in {"speaker", "hangup"}
    BY DEF Take, heard, TypeOK, Closer
  <1>2. /\ task' \in Seq(States) /\ Len(task') = Len(task) /\ (task' = <<>> <=> task = <<>>)
        /\ \A j \in 1 .. Len(task) :
              \/ task'[j] = task[j] /\ (j # pending \/ Done(j))
              \/ j = pending /\ ~Done(j) /\ task'[j] = "cancelling"
    BY <1>1, Cancels
  <1>3. /\ Len(task) \in Nat /\ (task = <<>> <=> Len(task) = 0)
        /\ \A k \in 1 .. Len(task) : task[k] \in States /\ text[k] \in 0 .. Sentences
    BY TasksAre
  <1>4. /\ taken' \in [Closer -> 0 .. Len(task')] /\ taken'[x] = pending
        /\ \A y \in Closer : y # x => taken'[y] = taken[y]
        /\ \A y \in Closer : taken[y] \in 0 .. Len(task)
    BY <1>1, <1>2 DEF TypeOK
  <1>5. Line'
    BY <1>1, <1>2, <1>3 DEF Line
  <1>6. \A y \in Closer : closing[y] \in {"no", "lock", "await", "done"}
    BY DEF TypeOK
  <1>7. closing[x] \in {"no", "lock"}
    OBVIOUS
  <1>8. x = "hangup" /\ consumer = "await" => mine = Len(task)
    BY DEF Awaited
  <1>9. CASE pending # NoTask /\ ~Done(pending)
    <2>1. /\ closing' = [closing EXCEPT ![x] = "await"] /\ lock' = queue /\ ended' = ended
          /\ consumer' = IF x = "speaker" THEN "close" ELSE consumer
      BY <1>9 DEF Take
    <2>2. /\ closing'[x] = "await" /\ \A y \in Closer : y # x => closing'[y] = closing[y]
          /\ closing' \in [Closer -> {"no", "lock", "await", "done"}]
      BY <2>1 DEF TypeOK
    <2>3. pending = Len(task) /\ pending \in 1 .. Len(task) /\ task'[pending] = "cancelling"
      BY <1>1, <1>2, <1>3, <1>9 DEF Awaited, NoTask
    <2>4. LockShape'
      BY <1>1, <2>1, <2>2 DEF LockShape, Closer
    <2>5. lock' \in Seq(Closer)
      <3>1. <<x>> \in Seq(Closer) /\ lock \in Seq(Closer)
        BY Queues DEF TypeOK
      <3> QED  BY <2>1, <3>1
    <2>6. consumer' \in Between \cup {"await", "play", "close", "left"}
      BY <2>1 DEF TypeOK
    <2>7. TypeOK'
      BY <1>1, <1>2, <1>3, <1>4, <2>1, <2>2, <2>5, <2>6 DEF TypeOK, States, NoTask
    <2>8. Known'
      BY <1>1, <1>2, <1>4, <1>7, <2>1, <2>2 DEF Known, Done
    <2>9. Roles'
      BY <1>1, <2>1, <2>2 DEF Roles, HungUp, Closer, Between
    <2>10. Awaited'
      BY <1>1, <1>2, <2>1 DEF Awaited, Between
    <2>11. Taken'
      BY <1>1, <1>2, <1>4, <1>7, <1>8, <2>1, <2>2, <2>3 DEF Taken, Closer, Between, NoTask, Running, Done
    <2>12. SourceClosed'
      BY <1>1, <2>1, <2>2 DEF SourceClosed
    <2> QED  BY <1>5, <2>4, <2>7, <2>8, <2>9, <2>10, <2>11, <2>12
  <1>10. CASE ~ (pending # NoTask /\ ~Done(pending))
    <2>1. /\ closing' = [closing EXCEPT ![x] = "done"] /\ lock' = Tail(queue)
          /\ ended' = (ended \/ async)
          /\ consumer' = IF x = "speaker" THEN "left" ELSE consumer
          /\ task' = task
      BY <1>1, <1>10 DEF Take, Finish, CancelTask
    <2>2. /\ closing'[x] = "done" /\ \A y \in Closer : y # x => closing'[y] = closing[y]
          /\ closing' \in [Closer -> {"no", "lock", "await", "done"}]
      BY <2>1 DEF TypeOK
    <2>3. queue = <<x>> /\ lock' = <<>>
      <3>1. \A a, b \in Closer : /\ Tail(<<a>>) = <<>> /\ Head(<<a>>) = a
                                 /\ Head(<<a, b>>) = a
        BY Queues
      <3>2. CASE lock = <<>>
        BY <2>1, <3>1, <3>2
      <3>3. CASE lock # <<>>
        <4>1. queue = lock /\ Head(lock) = x /\ closing[x] = "lock"
          BY <3>3
        <4>2. lock = <<x>>
          BY <1>1, <3>1, <3>3, <4>1 DEF LockShape, Closer
        <4> QED  BY <2>1, <3>1, <4>1, <4>2
      <3> QED  BY <3>2, <3>3
    <2>4. LockShape'
      BY <1>1, <2>2, <2>3 DEF LockShape, Closer
    <2>5. consumer' \in Between \cup {"await", "play", "close", "left"}
      BY <2>1 DEF TypeOK
    <2>6. TypeOK'
      BY <1>1, <1>2, <1>3, <1>4, <2>1, <2>2, <2>3, <2>5 DEF TypeOK, NoTask
    <2>7. Known'
      BY <1>1, <1>4, <1>7, <1>10, <2>1, <2>2 DEF Known, Done
    <2>8. Roles'
      BY <1>1, <2>1, <2>2 DEF Roles, HungUp, Closer, Between
    <2>9. Awaited'
      BY <1>1, <2>1 DEF Awaited, Between
    <2>10. Taken'
      BY <1>1, <1>4, <1>7, <2>1, <2>2 DEF Taken, Closer
    <2>11. SourceClosed'
      <3>1. (async => ended') /\ (ended => ended')
        BY <2>1
      <3> QED  BY <1>1, <2>2, <3>1 DEF SourceClosed
    <2> QED  BY <1>5, <2>4, <2>6, <2>7, <2>8, <2>9, <2>10, <2>11
  <1> QED  BY <1>9, <1>10

LEMMA WaitStep ==
    ASSUME IInv, NEW x \in Closer, Wait(x), lock # <<>>, closing[x] = "no",
           x = "speaker" => consumer = "leave",
           x = "hangup" => consumer \notin Between,
           UNCHANGED <<text, async, fetched, mine, thrown, cancels, heard>>
    PROVE  IInv'
  <1> USE DEF IInv
  <1>1. /\ text' = text /\ async' = async /\ fetched' = fetched /\ mine' = mine
        /\ thrown' = thrown /\ cancels' = cancels /\ played' = played /\ skipped' = skipped
        /\ task' = task /\ ended' = ended /\ pending' = pending /\ taken' = taken
        /\ closed' = closed /\ x \in {"speaker", "hangup"}
        /\ closing' = [closing EXCEPT ![x] = "lock"] /\ lock' = Append(lock, x)
        /\ consumer' = IF x = "speaker" THEN "close" ELSE consumer
    BY DEF Wait, heard, Closer
  <1>2. /\ closing'[x] = "lock" /\ \A y \in Closer : y # x => closing'[y] = closing[y]
        /\ closing' \in [Closer -> {"no", "lock", "await", "done"}]
    BY <1>1 DEF TypeOK
  <1>3. \/ x = "speaker" /\ lock = <<"hangup">> /\ closing["hangup"] = "await"
        \/ x = "hangup" /\ lock = <<"speaker">> /\ closing["speaker"] = "await"
    BY <1>1 DEF LockShape
  <1>4. \/ x = "speaker" /\ lock' = <<"hangup", "speaker">>
        \/ x = "hangup" /\ lock' = <<"speaker", "hangup">>
    <2>1. /\ Append(<<"hangup">>, "speaker") = <<"hangup", "speaker">>
          /\ Append(<<"speaker">>, "hangup") = <<"speaker", "hangup">>
      BY Queues
    <2> QED  BY <1>1, <1>3, <2>1
  <1>5. LockShape'
    BY <1>2, <1>3, <1>4 DEF LockShape, Closer
  <1>6. consumer' \in Between \cup {"await", "play", "close", "left"} /\ lock' \in Seq(Closer)
    BY <1>1 DEF TypeOK
  <1>7. TypeOK'
    BY <1>1, <1>2, <1>6 DEF TypeOK
  <1>8. Known'
    BY <1>1, <1>2 DEF Known, Done
  <1>9. Roles'
    BY <1>1, <1>2 DEF Roles, HungUp, Closer, Between
  <1>10. Awaited'
    BY <1>1, <1>3 DEF Awaited, Taken, Between
  <1>11. Taken'
    BY <1>1, <1>2 DEF Taken, Closer
  <1>12. SourceClosed' /\ Line'
    BY <1>1, <1>2 DEF SourceClosed, Line
  <1> QED  BY <1>5, <1>7, <1>8, <1>9, <1>10, <1>11, <1>12

LEMMA CloseStep ==
    ASSUME IInv, consumer \notin Between, NEW x \in Closer, AwaitTaken(x)
    PROVE  IInv'
  <1> USE DEF IInv
  <1>1. /\ text' = text /\ async' = async /\ fetched' = fetched /\ mine' = mine
        /\ thrown' = thrown /\ cancels' = cancels /\ played' = played /\ skipped' = skipped
        /\ task' = task /\ pending' = pending /\ taken' = taken /\ closed' = closed
        /\ ended' = (ended \/ async) /\ x \in {"speaker", "hangup"}
        /\ closing[x] = "await" /\ Done(taken[x])
        /\ closing' = [closing EXCEPT ![x] = "done"] /\ lock' = Tail(lock)
        /\ consumer' = IF x = "speaker" THEN "left" ELSE consumer
    BY DEF AwaitTaken, Finish, heard, tasks, Closer
  <1>2. /\ closing'[x] = "done" /\ \A y \in Closer : y # x => closing'[y] = closing[y]
        /\ closing' \in [Closer -> {"no", "lock", "await", "done"}]
    BY <1>1 DEF TypeOK
  <1>3. \/ lock = <<x>> /\ lock' = <<>>
        \/ x = "speaker" /\ lock = <<"speaker", "hangup">> /\ lock' = <<"hangup">>
        \/ x = "hangup" /\ lock = <<"hangup", "speaker">> /\ lock' = <<"speaker">>
    <2>1. \A a, b \in Closer : Tail(<<a>>) = <<>> /\ Tail(<<a, b>>) = <<b>>
      BY Queues
    <2> QED  BY <1>1, <2>1 DEF LockShape, Closer
  <1>4. LockShape'
    BY <1>1, <1>2, <1>3 DEF LockShape, Closer
  <1>5. consumer' \in Between \cup {"await", "play", "close", "left"}
    BY <1>1 DEF TypeOK
  <1>6. lock' \in Seq(Closer)
    <2>1. \A a \in Closer : <<>> \in Seq(Closer) /\ <<a>> \in Seq(Closer)
      BY Queues
    <2> QED  BY <1>3, <2>1, Queues
  <1>7. TypeOK'
    BY <1>1, <1>2, <1>5, <1>6 DEF TypeOK
  <1>8. Known'
    <2>1. SUFFICES ASSUME NEW k \in 1 .. Len(task), ~Done(k)
                   PROVE  \/ k = pending
                          \/ consumer' = "await" /\ mine = k
                          \/ \E y \in Closer : closing'[y] = "await" /\ taken[y] = k
      BY <1>1 DEF Known, Done
    <2>2. k # taken[x]
      BY <1>1, <2>1 DEF Done
    <2>3. consumer = "await" => consumer' = "await"
      BY <1>1 DEF Roles
    <2> QED  BY <1>2, <2>1, <2>2, <2>3 DEF Known
  <1>9. Roles'
    BY <1>1, <1>2 DEF Roles, HungUp, Closer, Between
  <1>10. Awaited'
    BY <1>1 DEF Awaited, Between, Roles
  <1>11. Taken'
    BY <1>1, <1>2 DEF Taken, Closer
  <1>12. SourceClosed' /\ Line'
    <2>1. (async => ended') /\ (ended => ended')
      BY <1>1
    <2> QED  BY <1>1, <1>2, <2>1 DEF SourceClosed, Line
  <1> QED  BY <1>4, <1>7, <1>8, <1>9, <1>10, <1>11, <1>12

(* A cancellation while the pipeline is closed ends the wait for the lock. *)
LEMMA CancelStep ==
    ASSUME IInv, consumer \notin Between, CancelConsumer
    PROVE  IInv'
  <1> USE DEF IInv
  <1>1. /\ text' = text /\ async' = async /\ fetched' = fetched /\ mine' = mine
        /\ played' = played /\ skipped' = skipped /\ ended' = ended
        /\ pending' = pending /\ taken' = taken /\ closed' = closed
        /\ cancels' \in 0 .. MaxCancels
    BY ConstantsAssumption DEF CancelConsumer, heard, src, TypeOK
  <1>2. CASE /\ consumer = "await" /\ CancelTask(mine) /\ thrown' = TRUE
             /\ UNCHANGED <<consumer, closing, lock>>
    <2>1. mine \in 0 .. Len(task)
      BY DEF TypeOK
    <2>2. /\ task' \in Seq(States) /\ Len(task') = Len(task) /\ (task' = <<>> <=> task = <<>>)
          /\ \A j \in 1 .. Len(task) :
                \/ task'[j] = task[j] /\ (j # mine \/ Done(j))
                \/ j = mine /\ ~Done(j) /\ task'[j] = "cancelling"
      BY <1>2, <2>1, Cancels
    <2>3. Len(task) \in Nat /\ (task = <<>> <=> Len(task) = 0)
      BY TasksAre
    <2>4. LockShape' /\ SourceClosed' /\ Roles'
      BY <1>1, <1>2, SameRoles DEF SourceClosed, Roles
    <2>5. TypeOK'
      BY <1>1, <1>2, <2>2 DEF TypeOK, States
    <2>6. Known'
      BY <1>1, <1>2, <2>2 DEF Known, Done
    <2>7. Awaited'
      BY <1>1, <1>2, <2>2 DEF Awaited
    <2>8. Taken'
      <3>1. \A y \in Closer : taken[y] \in 0 .. Len(task)
        BY DEF TypeOK
      <3> QED  BY <1>1, <1>2, <2>2, <2>3, <3>1 DEF Taken, NoTask
    <2>9. Line'
      BY <1>1, <2>2, <2>3 DEF Line
    <2> QED  BY <2>4, <2>5, <2>6, <2>7, <2>8, <2>9
  <1>3. CASE consumer = "play" /\ consumer' = "leave" /\ UNCHANGED <<task, thrown, closing, lock>>
    <2>1. LockShape' /\ SourceClosed' /\ Roles'
      BY <1>1, <1>3, SameRoles DEF SourceClosed, Roles, HungUp
    <2>2. TypeOK'
      BY <1>1, <1>3 DEF TypeOK, Between
    <2>3. Known'
      BY <1>1, <1>3 DEF Known, Done
    <2>4. Awaited' /\ Taken' /\ Line'
      BY <1>1, <1>3 DEF Awaited, Taken, Line
    <2> QED  BY <2>1, <2>2, <2>3, <2>4
  <1>4. CASE /\ closing["speaker"] = "lock"
             /\ closing' = [closing EXCEPT !["speaker"] = "no"]
             /\ lock' = SubSeq(lock, 1, Len(lock) - 1)
             /\ consumer' = "left"
             /\ UNCHANGED <<task, thrown>>
    <2>1. /\ closing'["speaker"] = "no" /\ closing'["hangup"] = closing["hangup"]
          /\ closing' \in [Closer -> {"no", "lock", "await", "done"}]
      BY <1>4 DEF TypeOK, Closer
    <2>2. consumer = "close" /\ pending = NoTask
      BY <1>4 DEF Roles, Awaited
    <2>3. \/ lock = <<"speaker">> /\ closing["hangup"] = "done"
          \/ lock = <<"hangup", "speaker">> /\ closing["hangup"] = "await"
      BY <1>4 DEF LockShape
    <2>4. \/ lock' = <<>> /\ closing["hangup"] = "done"
          \/ lock' = <<"hangup">> /\ closing["hangup"] = "await"
      <3>1. \A a, b \in Closer : /\ SubSeq(<<a>>, 1, Len(<<a>>) - 1) = <<>>
                                 /\ SubSeq(<<a, b>>, 1, Len(<<a, b>>) - 1) = <<a>>
        BY Queues
      <3>2. "speaker" \in Closer /\ "hangup" \in Closer
        BY Queues
      <3> QED  BY <1>4, <2>3, <3>1, <3>2
    <2>5. LockShape'
      BY <2>1, <2>4 DEF LockShape
    <2>6. lock' \in Seq(Closer)
      <3>1. "hangup" \in Closer
        BY DEF Closer
      <3> QED  BY <2>4, <3>1, Lines
    <2>7. TypeOK'
      BY <1>1, <1>4, <2>1, <2>6 DEF TypeOK
    <2>8. Known'
      BY <1>1, <1>4, <2>1, <2>2 DEF Known, Done, Closer
    <2>9. Roles'
      BY <1>4, <2>1, <2>4 DEF Roles, HungUp
    <2>10. Awaited' /\ Taken' /\ Line' /\ SourceClosed'
      BY <1>1, <1>4, <2>1, <2>2 DEF Awaited, Taken, Line, SourceClosed, Closer
    <2> QED  BY <2>5, <2>7, <2>8, <2>9, <2>10
  <1>5. CASE UNCHANGED <<task, thrown, consumer, closing, lock>>
    <2>1. LockShape' /\ SourceClosed' /\ Roles'
      BY <1>1, <1>5, SameRoles DEF SourceClosed, Roles
    <2>2. TypeOK'
      BY <1>1, <1>5 DEF TypeOK
    <2>3. Known'
      BY <1>1, <1>5 DEF Known, Done
    <2>4. Awaited' /\ Taken'
      BY <1>1, <1>5 DEF Awaited, Taken, Done
    <2>5. Line'
      BY <1>1, <1>5 DEF Line
    <2> QED  BY <2>1, <2>2, <2>3, <2>4, <2>5
  <1> QED  BY <1>2, <1>3, <1>4, <1>5 DEF CancelConsumer

-----------------------------------------------------------------------------
LEMMA InductiveInit == Init => IInv
  <1> SUFFICES ASSUME Init PROVE IInv
    OBVIOUS
  <1>1. /\ task = <<>> /\ text = <<>> /\ played = <<>> /\ skipped = <<>> /\ lock = <<>>
        /\ pending = NoTask /\ mine = NoTask /\ consumer = "next" /\ fetched = 0
        /\ closing = [x \in Closer |-> "no"] /\ taken = [x \in Closer |-> NoTask]
    BY DEF Init
  <1>2. /\ \A S : <<>> \in Seq(S)
        /\ Len(<<>>) = 0
    BY EmptySeq
  <1>3. TypeOK
    <2>1. taken \in [Closer -> 0 .. Len(task)] /\ closing \in [Closer -> {"no", "lock", "await", "done"}]
      BY <1>1, <1>2 DEF NoTask
    <2>2. fetched \in 0 .. Sentences /\ 0 \in 0 .. MaxCancels
      BY <1>1, ConstantsAssumption
    <2>3. /\ task \in Seq(Running \union {"item", "fail", "end", "error", "cancelled"})
          /\ text \in Seq(0 .. Sentences) /\ Len(text) = Len(task) /\ lock \in Seq(Closer)
          /\ played \in Seq(1 .. Sentences) /\ skipped \in Seq(1 .. Sentences)
          /\ pending \in 0 .. Len(task) /\ mine \in 0 .. Len(task)
      BY <1>1, <1>2 DEF NoTask
    <2> QED  BY <1>1, <2>1, <2>2, <2>3 DEF Init, TypeOK, Between
  <1>4. closing["speaker"] = "no" /\ closing["hangup"] = "no" /\ \A x \in Closer : closing[x] = "no"
    BY <1>1 DEF Closer
  <1>5. Known /\ Line
    BY <1>1, <1>2 DEF Known, Line
  <1>6. LockShape /\ Roles /\ Awaited /\ Taken /\ SourceClosed
    BY <1>1, <1>4 DEF LockShape, Roles, Awaited, Taken, SourceClosed
  <1> QED  BY <1>3, <1>5, <1>6 DEF IInv

LEMMA CloserStep ==
    ASSUME IInv, \/ CloseBySpeaker
                 \/ \E x \in Closer : Closes(x)
                 \/ Outside
    PROVE  IInv'
  <1>1. CASE CloseBySpeaker
    <2>1. consumer = "leave" /\ AClose("speaker") /\ "speaker" \in Closer /\ "speaker" # "hangup"
      BY <1>1 DEF CloseBySpeaker, Closer
    <2>2. closing["speaker"] = "no"
      BY <2>1 DEF IInv, Roles, TypeOK
    <2>3. CASE lock = <<>>
      BY <2>1, <2>2, <2>3, TakeStep DEF AClose
    <2>4. CASE lock # <<>>
      BY <2>1, <2>2, <2>4, WaitStep DEF AClose
    <2> QED  BY <2>3, <2>4
  <1>2. CASE consumer \notin Between /\ CloseByHangup
    <2>1. closing["hangup"] = "no" /\ AClose("hangup") /\ "hangup" \in Closer /\ "speaker" # "hangup"
      BY <1>2 DEF CloseByHangup, HungUp, Closer
    <2>2. CASE lock = <<>>
      BY <1>2, <2>1, <2>2, TakeStep DEF AClose
    <2>3. CASE lock # <<>>
      BY <1>2, <2>1, <2>3, WaitStep DEF AClose
    <2> QED  BY <2>2, <2>3
  <1>3. CASE consumer \notin Between /\ CancelConsumer
    BY <1>3, CancelStep
  <1>4. ASSUME NEW x \in Closer, consumer \notin Between, Acquire(x)
        PROVE  IInv'
    <2>1. /\ closing[x] = "lock" /\ Head(lock) = x /\ Take(x, lock)
          /\ UNCHANGED <<text, async, fetched, mine, thrown, cancels, heard>>
      BY <1>4 DEF Acquire
    <2>2. lock # <<>>
      BY <2>1 DEF IInv, LockShape, Closer
    <2>3. x = "speaker" => consumer \in {"leave", "close"}
      BY <2>1 DEF IInv, Roles
    <2> QED  BY <1>4, <2>1, <2>2, <2>3, TakeStep
  <1>5. ASSUME NEW x \in Closer, consumer \notin Between, AwaitTaken(x)
        PROVE  IInv'
    BY <1>5, CloseStep
  <1> QED  BY <1>1, <1>2, <1>3, <1>4, <1>5 DEF Closes, Outside

LEMMA SameState ==
    ASSUME IInv, UNCHANGED vars
    PROVE  IInv'
  <1>1. TypeOK'
    BY DEF IInv, vars, TypeOK, src, tasks, close, heard
  <1>2. Known' /\ LockShape' /\ Roles'
    BY DEF IInv, vars, src, tasks, close, heard, Known, Done, LockShape, Roles, HungUp
  <1>3. Awaited' /\ Taken'
    BY DEF IInv, vars, src, tasks, close, heard, Awaited, Done, Taken
  <1>4. SourceClosed' /\ Line'
    BY DEF IInv, vars, src, tasks, close, heard, SourceClosed, Line
  <1> QED  BY <1>1, <1>2, <1>3, <1>4 DEF IInv

LEMMA InductiveStep == IInv /\ [Next]_vars => IInv'
  <1> SUFFICES ASSUME IInv, [Next]_vars PROVE IInv'
    OBVIOUS
  <1>1. CASE Speaker
    BY <1>1, NextStep, YieldStep, LeaveStep, CloserStep DEF Speaker
  <1>2. ASSUME NEW k \in 1 .. Len(task), Prefetch(k) PROVE IInv'
    BY <1>2, PrefetchStep
  <1>3. CASE (\E x \in Closer : Closes(x)) \/ Outside
    BY <1>3, CloserStep
  <1>4. CASE UNCHANGED vars
    BY <1>4, SameState
  <1> QED  BY <1>1, <1>2, <1>3, <1>4 DEF Next

(* The inductive invariant: every unfinished task is known to somebody who *)
(* waits for it or will cancel it, and the newest has the sentence that    *)
(* follows.                                                                *)
THEOREM InductiveHolds == Spec => []IInv
  BY InductiveInit, InductiveStep, PTL DEF Spec

(* Every variable of the pipeline keeps its type.                          *)
THEOREM TypeCorrect == Spec => []TypeOK
  <1>1. IInv => TypeOK
    BY DEF IInv
  <1> QED  BY <1>1, InductiveHolds, PTL

(* However a reply ends - at its end, by an interruption, by a hangup that *)
(* closes the same pipeline, by cancellations in between - no task and no  *)
(* generator outlives it.                                                  *)
THEOREM NothingLeftBehind == Spec => []NoOrphan
  <1>1. ASSUME IInv, consumer = "left", HungUp => closing["hangup"] = "done"
        PROVE  (\A k \in 1 .. Len(task) : Done(k)) /\ (async => ended)
    <2>1. pending = NoTask /\ closing["speaker"] \notin {"await", "lock"}
      BY <1>1 DEF IInv, Awaited, Roles
    <2>2. closing["hangup"] \in {"no", "done"}
      BY <1>1 DEF HungUp
    <2>3. \A k \in 1 .. Len(task) : k # pending
      BY <2>1 DEF NoTask
    <2>4. \A k \in 1 .. Len(task) : Done(k)
      BY <1>1, <2>1, <2>2, <2>3 DEF IInv, Known, Closer
    <2>5. async => ended
      BY <1>1 DEF IInv, Roles, SourceClosed, HungUp, Closer
    <2> QED  BY <2>4, <2>5
  <1>2. IInv => NoOrphan
    BY <1>1 DEF NoOrphan
  <1> QED  BY <1>2, InductiveHolds, PTL

-----------------------------------------------------------------------------
(* The sentences.                                                          *)

LEMMA StreamStep ==
    ASSUME IInv, [Next]_vars
    PROVE  [Stream!Play \/ Stream!Skip]_<<played, skipped>>
  <1>1. CASE Yield
    <2>1. /\ played' = Append(played, text[mine]) /\ skipped' = skipped /\ Resumes
          /\ task[mine] = "item"
      BY <1>1 DEF Yield
    <2>2. mine = Len(task) /\ mine \in 1 .. Len(task)
      BY <2>1, ResumesOn
    <2>3. task # <<>>
      BY <2>2, TasksAre DEF IInv
    <2>4. text[mine] = Len(played) + Len(skipped) + 1 /\ fetched = text[mine]
      BY <2>1, <2>2, <2>3 DEF IInv, Line
    <2>5. fetched <= Sentences
      BY ConstantsAssumption DEF IInv, TypeOK
    <2> QED  BY <2>1, <2>4, <2>5 DEF Stream!Play, Stream!Following
  <1>2. ASSUME NEW k \in 1 .. Len(task), Synthesize(k)
        PROVE  Stream!Skip \/ UNCHANGED <<played, skipped>>
    <2>1. /\ played' = played /\ task[k] = "synth"
          /\ skipped' = skipped \/ skipped' = Append(skipped, text[k])
      BY <1>2 DEF Synthesize
    <2>2. k = Len(task) /\ task # <<>>
      <3>1. ~Done(k)
        BY <2>1 DEF Done, Running
      <3>2. Len(task) \in Nat /\ (task = <<>> <=> Len(task) = 0)
        BY TasksAre DEF IInv
      <3>3. k = Len(task)
        BY <2>1, <3>1, <3>2 DEF IInv, Known, Awaited, Taken, NoTask
      <3> QED  BY <3>2, <3>3
    <2>3. text[k] = Len(played) + Len(skipped) + 1 /\ fetched = text[k]
      BY <2>1, <2>2 DEF IInv, Line
    <2>4. fetched <= Sentences
      BY ConstantsAssumption DEF IInv, TypeOK
    <2> QED  BY <2>1, <2>3, <2>4 DEF Stream!Skip, Stream!Following
  <1>3. ASSUME NEW k \in 1 .. Len(task), Fetch(k) \/ Cancelled(k)
        PROVE  UNCHANGED <<played, skipped>>
    BY <1>3 DEF Fetch, Cancelled, heard
  <1>4. CASE NextSentence \/ SkipFailed \/ Stop \/ AfterPlayback \/ CloseBySpeaker
    BY <1>4 DEF NextSentence, SkipFailed, Stop, AfterPlayback, CloseBySpeaker, AClose, heard
  <1>5. CASE Outside \/ \E x \in Closer : Closes(x)
    BY <1>5 DEF Outside, CloseByHangup, CancelConsumer, Closes, Acquire, AwaitTaken, AClose, heard
  <1>6. CASE UNCHANGED vars
    BY <1>6 DEF vars, heard
  <1> QED  BY <1>1, <1>2, <1>3, <1>4, <1>5, <1>6 DEF Next, Speaker, Prefetch

(* The pipeline implements SentenceStream: for a text of any length the    *)
(* listener gets the sentences in order and misses only those that could   *)
(* not be synthesized, whatever is fetched ahead of them.                  *)
THEOREM Implements == Spec => KeepsOrder
  <1>1. Init => Stream!Init
    BY DEF Init, Stream!Init
  <1> QED  BY <1>1, StreamStep, InductiveHolds, PTL DEF Spec, KeepsOrder, Stream!Spec
=============================================================================
