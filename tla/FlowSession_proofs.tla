------------------------ MODULE FlowSession_proofs ------------------------
(***************************************************************************)
(* Proofs about FlowSession: for any number of utterances, whatever of     *)
(* their replies is cancelled, the executor's turns do not overlap; and    *)
(* for any calendar, nominations leave nothing but visits that can be made *)
(* and the budget bounds what the supervisor is asked.                     *)
(***************************************************************************)
EXTENDS FlowSession, FiniteSetTheorems, TLAPS

(* A step of some utterance, or the deadline.                              *)
LEMMA NextCases ==
    ASSUME Next
    PROVE  \/ \E c \in Caller : \/ Reply(c) \/ Acquire(c) \/ Drain(c) \/ Answered(c) \/ Cancel(c)
                                \/ ShortCircuit(c) \/ Ask(c) \/ GivesNothing(c) \/ Raises(c)
                                \/ \E n \in Nomination : Answers(c, n)
           \/ Deadline
  BY DEF Next, Task, Thread

-----------------------------------------------------------------------------
(* Types.                                                                  *)

Slots == [job : BOOLEAN, start : Starts \cup {None}, duration : Durations \cup {None}]

LEMMA SlotsType ==
    ASSUME NEW j \in BOOLEAN, NEW s \in Starts \cup {None}, NEW d \in Durations \cup {None}
    PROVE  [job |-> j, start |-> s, duration |-> d] \in Slots
  BY DEF Slots

(* A nomination that is taken is one that is allowed.                      *)
LEMMA TakenType ==
    ASSUME NEW n \in Nomination, slots \in Slots
    PROVE  Taken(n) \in Slots
  <1>1. n.start # None /\ StartTaken(n.start, n.duration) => n.start \in Starts /\ n.duration # Bad
    BY DEF StartTaken
  <1>2. DurationTaken(n.duration) => n.duration \in Durations
    BY DEF DurationTaken
  <1>3. n.duration \in Durations \cup {None, Bad}
    BY DEF Nomination
  <1> QED  BY <1>1, <1>2, <1>3 DEF Taken, Slots

(* Every variable keeps its type.                                          *)
THEOREM TypeCorrect == Spec => []TypeOK
<1>1. Init => TypeOK
  <2> SUFFICES ASSUME Init PROVE TypeOK
    OBVIOUS
  <2>1. slots \in Slots
    BY SlotsType DEF Init
  <2>2. /\ pc = [c \in Caller |-> "new"] /\ lock = Free /\ inflight = None
        /\ turn = [c \in Caller |-> "none"] /\ seen = [c \in Caller |-> 0]
        /\ asked = 0 /\ transcript = <<>> /\ failures = 0
        /\ exits = [c \in Caller |-> "none"] /\ late = FALSE
    BY DEF Init
  <2>3. /\ pc \in [Caller -> {"new", "lock", "drain", "await", "done", "cancelled"}]
        /\ turn \in [Caller -> {"none", "queued", "asking", "done", "failed"}]
        /\ seen \in [Caller -> Nat]
        /\ exits \in [Caller -> {"none", "booked", "escape", "budget"}]
    BY <2>2
  <2>4. asked \in Nat /\ transcript \in Seq(Caller) /\ failures \in 0 .. 2
    BY <2>2
  <2> QED  BY <2>1, <2>2, <2>3, <2>4 DEF TypeOK, Slots
<1>2. TypeOK /\ [Next]_vars => TypeOK'
  <2> SUFFICES ASSUME TypeOK, [Next]_vars PROVE TypeOK'
    OBVIOUS
  <2>1. CASE UNCHANGED vars
    BY <2>1 DEF vars, TypeOK
  <2>2. CASE Deadline
    BY <2>2 DEF Deadline, replies, runner, TypeOK
  <2>3. ASSUME NEW c \in Caller, Reply(c) \/ Cancel(c) PROVE TypeOK'
    BY <2>3 DEF Reply, Cancel, Goto, runner, TypeOK
  <2>4. ASSUME NEW c \in Caller, Acquire(c) PROVE TypeOK'
    BY <2>4 DEF Acquire, Launch, Goto, runner, TypeOK
  <2>5. ASSUME NEW c \in Caller, Drain(c) \/ Answered(c) PROVE TypeOK'
    BY <2>5 DEF Drain, Answered, Launch, Goto, runner, TypeOK
  <2>6. ASSUME NEW c \in Caller, ShortCircuit(c) \/ Ask(c) \/ Raises(c) PROVE TypeOK'
    <3>1. CASE ShortCircuit(c)
      BY <3>1 DEF ShortCircuit, Ends, replies, runner, TypeOK
    <3>2. CASE Ask(c)
      BY <3>2 DEF Ask, Ends, replies, runner, TypeOK
    <3>3. CASE Raises(c)
      BY <3>3 DEF Raises, Ends, replies, runner, TypeOK
    <3> QED  BY <2>6, <3>1, <3>2, <3>3
  <2>7. ASSUME NEW c \in Caller, GivesNothing(c) PROVE TypeOK'
    <3>1. failures' \in 0 .. 2
      BY <2>7 DEF GivesNothing, TypeOK
    <3>2. exits' \in [Caller -> {"none", "booked", "escape", "budget"}]
      BY <2>7 DEF GivesNothing, TypeOK
    <3> QED  BY <2>7, <3>1, <3>2 DEF GivesNothing, Ends, replies, TypeOK
  <2>8. ASSUME NEW c \in Caller, NEW n \in Nomination, Answers(c, n) PROVE TypeOK'
    <3>1. slots' \in Slots
      BY <2>8, TakenType DEF Answers, TypeOK, Slots
    <3>2. Exit(n) \in {"none", "booked"}
      BY DEF Exit
    <3> QED  BY <2>8, <3>1, <3>2 DEF Answers, Ends, replies, TypeOK, Slots
  <2> QED  BY <2>1, <2>2, <2>3, <2>4, <2>5, <2>6, <2>7, <2>8, NextCases
<1> QED  BY <1>1, <1>2, PTL DEF Spec

-----------------------------------------------------------------------------
(* Turns and replies.                                                      *)

(* A turn under way is the one inflight names, and nobody has written to   *)
(* the transcript since it was read; who is past the lock holds it, and    *)
(* waits for the turn inflight names; it has no turn before that.          *)
Serial ==
    \A c \in Caller :
       /\ turn[c] \in {"queued", "asking"} => inflight = c
       /\ turn[c] = "asking" => seen[c] = Len(transcript)
       /\ pc[c] \in {"drain", "await"} => lock = c
       /\ pc[c] = "await" => inflight = c
       /\ pc[c] = "drain" => inflight # None
       /\ pc[c] \in {"new", "lock", "drain"} => turn[c] = "none"

THEOREM SerialHolds == Spec => []Serial
<1>1. Init => Serial
  BY DEF Init, Serial
<1>2. TypeOK /\ Serial /\ [Next]_vars => Serial'
  <2> SUFFICES ASSUME TypeOK, Serial, [Next]_vars PROVE Serial'
    OBVIOUS
  <2> USE CallerAssumption
  <2>1. CASE UNCHANGED vars
    BY <2>1 DEF vars, Serial
  <2>2. CASE Deadline
    BY <2>2 DEF Deadline, replies, runner, Serial
  <2>3. ASSUME NEW c \in Caller, Reply(c) PROVE Serial'
    BY <2>3 DEF Reply, Goto, runner, Serial, TypeOK
  <2>4. ASSUME NEW c \in Caller, Acquire(c) PROVE Serial'
    BY <2>4 DEF Acquire, Launch, Goto, runner, Serial, TypeOK
  <2>5. ASSUME NEW c \in Caller, Drain(c) PROVE Serial'
    BY <2>5 DEF Drain, Over, Launch, Goto, runner, Serial, TypeOK
  <2>6. ASSUME NEW c \in Caller, Answered(c) PROVE Serial'
    BY <2>6 DEF Answered, Over, Goto, runner, Serial, TypeOK
  <2>7. ASSUME NEW c \in Caller, Cancel(c) PROVE Serial'
    BY <2>7 DEF Cancel, Over, Goto, runner, Serial, TypeOK
  <2>8. ASSUME NEW c \in Caller, ShortCircuit(c) \/ Raises(c) PROVE Serial'
    BY <2>8 DEF ShortCircuit, Raises, Ends, replies, runner, Serial, TypeOK
  <2>9. ASSUME NEW c \in Caller, Ask(c) PROVE Serial'
    BY <2>9 DEF Ask, Ends, replies, Serial, TypeOK
  <2>10. ASSUME NEW c \in Caller, GivesNothing(c) \/ \E n \in Nomination : Answers(c, n)
         PROVE  Serial'
    <3>1. turn[c] = "asking" /\ turn' = [turn EXCEPT ![c] = "done"]
          /\ UNCHANGED <<pc, lock, inflight, seen>>
      BY <2>10 DEF GivesNothing, Answers, Ends, replies
    <3>2. \A d \in Caller : turn'[d] # "asking"
      BY <3>1 DEF Serial, TypeOK
    <3> QED  BY <3>1, <3>2 DEF Serial, TypeOK
  <2> QED
    BY <2>1, <2>2, <2>3, <2>4, <2>5, <2>6, <2>7, <2>8, <2>9, <2>10, NextCases
<1> QED  BY <1>1, <1>2, TypeCorrect, PTL DEF Spec

(* A turn writes to the transcript it has read.                            *)
THEOREM Serialised == Spec => TurnsSerialised
<1>1. Serial /\ [Next]_vars =>
         [\A c \in Caller :
            turn[c] = "asking" /\ turn'[c] = "done" => Len(transcript) = seen[c]]_vars
  BY DEF Serial
<1> QED  BY <1>1, SerialHolds, PTL DEF Spec, TurnsSerialised

-----------------------------------------------------------------------------
(* Visits.                                                                 *)

(* What is taken from one nomination keeps the visit possible, and keeps   *)
(* complete what was complete.                                             *)
LEMMA TakenFits ==
    ASSUME NEW n \in Nomination, slots \in Slots,
           slots.start # None => slots.duration # None /\ Fits(slots.start, slots.duration)
    PROVE  /\ Taken(n).start # None =>
                 Taken(n).duration # None /\ Fits(Taken(n).start, Taken(n).duration)
           /\ Complete(slots) => Complete(Taken(n))
  <1> DEFINE t == Taken(n)
  <1>1. t.job = (slots.job \/ n.job = "text")
    BY DEF Taken
  <1>2. CASE n.start # None /\ StartTaken(n.start, n.duration)
    <2>1. t.start = n.start /\ n.start \in Starts /\ n.duration # Bad
      BY <1>2 DEF Taken, StartTaken
    <2>2. t.duration = Effective(n.duration)
      BY <1>2 DEF Taken, Effective
    <2>3. t.duration # None /\ Fits(t.start, t.duration)
      BY <1>2, <2>1, <2>2 DEF StartTaken
    <2> QED  BY <1>1, <2>1, <2>3, FlowAssumption DEF Complete
  <1>3. CASE n.start # None /\ ~StartTaken(n.start, n.duration)
    <2>1. t.start = slots.start /\ t.duration = slots.duration
      BY <1>3 DEF Taken
    <2> QED  BY <1>1, <2>1 DEF Complete
  <1>4. CASE n.start = None
    <2>1. t.start = slots.start
      BY <1>4 DEF Taken
    <2>2. CASE n.duration # None /\ DurationTaken(n.duration)
      <3>1. t.duration = n.duration
        BY <1>4, <2>2 DEF Taken
      <3> QED  BY <1>1, <2>1, <2>2, <3>1 DEF DurationTaken, Complete
    <2>3. CASE ~(n.duration # None /\ DurationTaken(n.duration))
      <3>1. t.duration = slots.duration
        BY <1>4, <2>3 DEF Taken
      <3> QED  BY <1>1, <2>1, <3>1 DEF Complete
    <2> QED  BY <2>2, <2>3
  <1> QED  BY <1>2, <1>3, <1>4

(* Every step but an answer leaves the slots alone and books nothing.      *)
LEMMA OthersBookNothing ==
    ASSUME TypeOK, Next, ~\E c \in Caller : \E n \in Nomination : Answers(c, n)
    PROVE  /\ slots' = slots
           /\ \A c \in Caller : exits'[c] = "booked" => exits[c] = "booked"
  <1>1. CASE Deadline
    BY <1>1 DEF Deadline, runner
  <1>2. ASSUME NEW c \in Caller,
               Reply(c) \/ Acquire(c) \/ Drain(c) \/ Answered(c) \/ Cancel(c) \/ Ask(c) \/ Raises(c)
        PROVE  slots' = slots /\ exits' = exits
    BY <1>2 DEF Reply, Acquire, Drain, Answered, Cancel, Ask, Raises, runner
  <1>3. ASSUME NEW c \in Caller, ShortCircuit(c)
        PROVE  slots' = slots /\ \A d \in Caller : exits'[d] = "booked" => exits[d] = "booked"
    BY <1>3 DEF ShortCircuit, runner, TypeOK
  <1>4. ASSUME NEW c \in Caller, GivesNothing(c)
        PROVE  slots' = slots /\ \A d \in Caller : exits'[d] = "booked" => exits[d] = "booked"
    BY <1>4 DEF GivesNothing, TypeOK
  <1> QED  BY <1>1, <1>2, <1>3, <1>4, NextCases

(* What turns leave behind is a visit that can be made.                    *)
THEOREM Visits == Spec => []VisitFits
<1>1. Init => VisitFits
  BY DEF Init, VisitFits
<1>2. TypeOK /\ VisitFits /\ [Next]_vars => VisitFits'
  <2> SUFFICES ASSUME TypeOK, VisitFits, [Next]_vars PROVE VisitFits'
    OBVIOUS
  <2>1. CASE UNCHANGED vars
    BY <2>1 DEF vars, VisitFits, Complete
  <2>2. ASSUME NEW c \in Caller, NEW n \in Nomination, Answers(c, n) PROVE VisitFits'
    <3>1. slots' = Taken(n) /\ exits' = [exits EXCEPT ![c] = Exit(n)]
      BY <2>2 DEF Answers
    <3>2. /\ Taken(n).start # None =>
                Taken(n).duration # None /\ Fits(Taken(n).start, Taken(n).duration)
          /\ Complete(slots) => Complete(Taken(n))
      BY TakenFits DEF TypeOK, Slots, VisitFits
    <3>3. ASSUME NEW d \in Caller, exits'[d] = "booked" PROVE Complete(Taken(n))
      <4>1. CASE d = c
        BY <3>1, <3>3, <4>1 DEF TypeOK, Exit
      <4>2. CASE d # c
        BY <3>1, <3>2, <3>3, <4>2 DEF TypeOK, VisitFits
      <4> QED  BY <4>1, <4>2
    <3> QED  BY <3>1, <3>2, <3>3 DEF VisitFits, Complete
  <2>3. CASE Next /\ ~\E c \in Caller : \E n \in Nomination : Answers(c, n)
    <3>1. /\ slots' = slots
          /\ \A c \in Caller : exits'[c] = "booked" => exits[c] = "booked"
      BY <2>3, OthersBookNothing
    <3> QED  BY <3>1 DEF VisitFits, Complete
  <2> QED  BY <2>1, <2>2, <2>3
<1> QED  BY <1>1, <1>2, TypeCorrect, PTL DEF Spec

-----------------------------------------------------------------------------
(* The budget.                                                             *)

Failed == {c \in Caller : turn[c] = "failed"}
Asking == \E c \in Caller : turn[c] = "asking"

LEMMA FailedFinite == IsFiniteSet(Failed) /\ Cardinality(Failed) \in Nat
  <1>1. Failed \subseteq Caller
    BY DEF Failed
  <1> QED  BY <1>1, CallerAssumption, FS_Subset, FS_CardinalityType

(* What was asked is in the transcript, was lost with a turn that raised,  *)
(* or is being asked; and that is done only while the budget has a turn.   *)
Accounted ==
    /\ Asking => Len(transcript) < MaxTurns /\ asked <= Len(transcript) + Cardinality(Failed) + 1
    /\ ~Asking => Len(transcript) <= MaxTurns /\ asked <= Len(transcript) + Cardinality(Failed)

(* A turn that goes on leaves those that failed and other turns alone.     *)
LEMMA TurnGoesOn ==
    ASSUME NEW c \in Caller, TypeOK, turn[c] # "failed", NEW how, how # "failed",
           turn' = [turn EXCEPT ![c] = how]
    PROVE  /\ Failed' = Failed
           /\ turn[c] # "asking" /\ how # "asking" => (Asking' <=> Asking)
  BY DEF Failed, Asking, TypeOK

(* At most one turn asks.                                                  *)
LEMMA OneAsks ==
    ASSUME Serial, NEW c \in Caller, turn[c] \in {"queued", "asking"},
           NEW d \in Caller, turn[d] \in {"queued", "asking"}
    PROVE  d = c
  BY DEF Serial

THEOREM AccountedHolds == Spec => []Accounted
<1>1. Init => Accounted
  <2> SUFFICES ASSUME Init PROVE Accounted
    OBVIOUS
  <2>1. asked = 0 /\ Len(transcript) = 0 /\ ~Asking
    BY DEF Init, Asking
  <2> QED  BY <2>1, FailedFinite, FlowAssumption DEF Accounted
<1>2. TypeOK /\ Serial /\ Accounted /\ [Next]_vars => Accounted'
  <2> SUFFICES ASSUME TypeOK, Serial, Accounted, [Next]_vars PROVE Accounted'
    OBVIOUS
  <2>n. /\ Len(transcript) \in Nat /\ asked \in Nat
        /\ MaxTurns \in Nat /\ Cardinality(Failed) \in Nat
    BY FailedFinite, FlowAssumption DEF TypeOK
  <2>s. ASSUME turn' = turn, transcript' = transcript, asked' = asked PROVE Accounted'
    BY <2>s DEF Accounted, Asking, Failed
  <2>t. ASSUME NEW c \in Caller, turn[c] \in {"none", "queued"}, NEW how \in {"queued", "done"},
               turn' = [turn EXCEPT ![c] = how], transcript' = transcript, asked' = asked
        PROVE  Accounted'
    <3>1. Failed' = Failed /\ (Asking' <=> Asking)
      BY <2>t, TurnGoesOn
    <3> QED  BY <2>t, <3>1 DEF Accounted
  <2>1. CASE UNCHANGED vars
    BY <2>1, <2>s DEF vars
  <2>2. CASE Deadline
    BY <2>2, <2>s DEF Deadline, runner
  <2>3. ASSUME NEW c \in Caller, Reply(c) \/ Answered(c) \/ Cancel(c) PROVE Accounted'
    BY <2>3, <2>s DEF Reply, Answered, Cancel, runner
  <2>4. ASSUME NEW c \in Caller, Acquire(c) \/ Drain(c) PROVE Accounted'
    <3>1. turn[c] = "none" /\ UNCHANGED <<transcript, asked>>
      BY <2>4 DEF Acquire, Drain, runner, Serial
    <3>2. turn' = turn \/ turn' = [turn EXCEPT ![c] = "queued"]
      BY <2>4 DEF Acquire, Drain, Launch
    <3> QED  BY <3>1, <3>2, <2>s, <2>t
  <2>5. ASSUME NEW c \in Caller, ShortCircuit(c) PROVE Accounted'
    BY <2>5, <2>t DEF ShortCircuit, Ends, runner
  <2>6. ASSUME NEW c \in Caller, Ask(c) PROVE Accounted'
    <3>1. /\ turn[c] = "queued" /\ turn' = [turn EXCEPT ![c] = "asking"]
          /\ Len(transcript) < MaxTurns /\ asked' = asked + 1 /\ transcript' = transcript
      BY <2>6 DEF Ask, Ends
    <3>2. Failed' = Failed
      BY <3>1, TurnGoesOn
    <3>3. ~Asking
      BY <3>1, OneAsks DEF Asking
    <3>4. Asking'
      BY <3>1 DEF Asking, TypeOK
    <3> QED  BY <2>n, <3>1, <3>2, <3>3, <3>4 DEF Accounted
  <2>7. ASSUME NEW c \in Caller, GivesNothing(c) \/ \E n \in Nomination : Answers(c, n)
        PROVE  Accounted'
    <3>1. /\ turn[c] = "asking" /\ turn' = [turn EXCEPT ![c] = "done"]
          /\ asked' = asked /\ transcript' = Append(transcript, c)
      BY <2>7 DEF GivesNothing, Answers, Ends
    <3>2. Failed' = Failed
      BY <3>1, TurnGoesOn
    <3>3. Asking /\ ~Asking'
      BY <3>1, OneAsks DEF Asking, TypeOK
    <3>4. Len(transcript') = Len(transcript) + 1
      BY <3>1 DEF TypeOK
    <3> QED  BY <2>n, <3>1, <3>2, <3>3, <3>4 DEF Accounted
  <2>8. ASSUME NEW c \in Caller, Raises(c) PROVE Accounted'
    <3>1. /\ turn[c] \in {"queued", "asking"} /\ turn' = [turn EXCEPT ![c] = "failed"]
          /\ asked' = asked /\ transcript' = transcript
      BY <2>8 DEF Raises, Ends, runner
    <3>2. Failed' = Failed \cup {c} /\ c \notin Failed
      BY <3>1 DEF Failed, TypeOK
    <3>3. Cardinality(Failed') = Cardinality(Failed) + 1
      BY <3>2, FailedFinite, FS_AddElement
    <3>4. CASE turn[c] = "asking"
      <4>1. Asking /\ ~Asking'
        BY <3>1, <3>4, OneAsks DEF Asking, TypeOK
      <4> QED  BY <2>n, <3>1, <3>3, <4>1 DEF Accounted
    <3>5. CASE turn[c] = "queued"
      <4>1. Asking' <=> Asking
        BY <3>1, <3>5 DEF Asking, TypeOK
      <4> QED  BY <2>n, <3>1, <3>3, <4>1 DEF Accounted
    <3> QED  BY <3>1, <3>4, <3>5
  <2> QED
    BY <2>1, <2>2, <2>3, <2>4, <2>5, <2>6, <2>7, <2>8, NextCases
<1> QED  BY <1>1, <1>2, TypeCorrect, SerialHolds, PTL DEF Spec

(* The budget bounds what the supervisor is asked.                         *)
THEOREM Budget == Spec => []BudgetHolds
<1>1. TypeOK /\ Accounted => BudgetHolds
  <2> SUFFICES ASSUME TypeOK, Accounted PROVE BudgetHolds
    OBVIOUS
  <2>1. asked <= MaxTurns + Cardinality(Failed)
    BY FailedFinite, FlowAssumption DEF Accounted, TypeOK
  <2> QED  BY <2>1 DEF BudgetHolds, Failed
<1> QED  BY <1>1, TypeCorrect, AccountedHolds, PTL

=============================================================================
