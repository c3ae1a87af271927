---------------------------- MODULE FlowSession ----------------------------
(***************************************************************************)
(* The appointment scheduler: FlowSession.reply (voice/flow_session.py)    *)
(* runs the blocking turns of a GoalRegionRunner (voice/goal_region.py) in *)
(* executor threads, one for each caller utterance.                        *)
(*                                                                         *)
(* A barge-in or a hangup cancels the task of a reply, but not its turn:   *)
(* the thread goes on changing the runner, and the next reply has to wait  *)
(* for it.  What the supervisor nominates is any combination of a job, a   *)
(* start, a duration and an exit, well formed or not; whether a booking    *)
(* may be made of what several turns have left is up to the validators.    *)
(* Times are counted in units of a calendar whose days have DayLength.     *)
(*                                                                         *)
(* An operator with a suffix, as Cancel_KeepLock, is the operator named    *)
(* before the suffix with one mistake in it, see BrowserReply.             *)
(***************************************************************************)
EXTENDS Naturals, Sequences, FiniteSets

CONSTANTS Caller,        \* utterances, each with the task of its reply
          MaxTurns,      \* max_turns
          DayLength,     \* units of a day
          Opens, Closes, \* BUSINESS_START, BUSINESS_END
          FreeWindows,   \* pairs of start and end
          Starts,        \* starts the supervisor may nominate
          Durations,     \* the durations that are allowed
          None, Bad      \* nothing nominated, nominated but malformed

ASSUME FlowAssumption ==
    /\ MaxTurns \in Nat
    /\ DayLength \in Nat \ {0} /\ Opens \in Nat /\ Closes \in Nat
    /\ FreeWindows \subseteq Nat \X Nat
    /\ Starts \subseteq Nat /\ Durations \subseteq Nat \ {0}
    /\ None # Bad /\ None \notin Nat /\ Bad \notin Nat

Free == "free"
ASSUME CallerAssumption == IsFiniteSet(Caller) /\ Free \notin Caller /\ None \notin Caller

VARIABLES
    pc,          \* where the task of each reply is
    lock,        \* who holds _turn_lock
    inflight,    \* whose turn _inflight_turn is
    turn,        \* the executor's turn of each utterance
    seen,        \* how much of the transcript that turn read
    asked,       \* turns for which the supervisor was asked
    transcript,  \* _transcript, an entry for each exchange
    failures,    \* _consecutive_provider_failures
    slots,       \* _slots
    exits,       \* what each turn decided
    late         \* has the deadline passed?

replies == <<pc, lock, inflight>>
runner  == <<asked, transcript, failures, slots>>
vars    == <<pc, lock, inflight, turn, seen, asked, transcript, failures, slots, exits, late>>

TypeOK ==
    /\ pc \in [Caller -> {"new", "lock", "drain", "await", "done", "cancelled"}]
    /\ lock \in Caller \cup {Free}
    /\ inflight \in Caller \cup {None}
    /\ turn \in [Caller -> {"none", "queued", "asking", "done", "failed"}]
    /\ seen \in [Caller -> Nat]
    /\ asked \in Nat
    /\ transcript \in Seq(Caller)
    /\ failures \in 0 .. 2
    /\ slots \in [job : BOOLEAN, start : Starts \cup {None}, duration : Durations \cup {None}]
    /\ exits \in [Caller -> {"none", "booked", "escape", "budget"}]
    /\ late \in BOOLEAN

Init ==
    /\ pc = [c \in Caller |-> "new"] /\ lock = Free /\ inflight = None
    /\ turn = [c \in Caller |-> "none"] /\ seen = [c \in Caller |-> 0]
    /\ asked = 0 /\ transcript = <<>> /\ failures = 0
    /\ slots = [job |-> FALSE, start |-> None, duration |-> None]
    /\ exits = [c \in Caller |-> "none"]
    /\ late = FALSE

-----------------------------------------------------------------------------
(* The validators.                                                         *)

(* _interval_error finds nothing: the visit lies on one day in business    *)
(* hours, and in one window; windows that touch do not make a longer one.  *)
Fits(start, duration) ==
    LET end == start + duration
    IN  /\ start \div DayLength = end \div DayLength
        /\ start % DayLength >= Opens /\ end % DayLength <= Closes
        /\ \E w \in FreeWindows : start >= w[1] /\ end <= w[2]

(* The duration that goes with a start: the one nominated with it, or else *)
(* the one agreed upon before.                                             *)
Effective(nominated) == IF nominated # None THEN nominated ELSE slots.duration

(* A start is taken with its duration or not at all.                       *)
StartTaken(start, duration) ==
    /\ start \in Starts /\ duration # Bad
    /\ Effective(duration) # None
    /\ Fits(start, Effective(duration))

(* A new duration alone has to fit the start there is.                     *)
DurationTaken_Unchecked(duration) == duration \in Durations
DurationTaken(duration) ==
    duration \in Durations /\ (slots.start # None => Fits(slots.start, duration))

(* _validate_candidates: what becomes of the slots.                        *)
Taken(n) ==
    [job      |-> slots.job \/ n.job = "text",
     start    |-> IF n.start # None /\ StartTaken(n.start, n.duration) THEN n.start ELSE slots.start,
     duration |-> IF \/ n.start # None /\ StartTaken(n.start, n.duration) /\ n.duration # None
                     \/ n.start = None /\ n.duration # None /\ DurationTaken(n.duration)
                  THEN n.duration ELSE slots.duration]

Rejected(n) ==
    \/ n.job = "bad"
    \/ n.start # None /\ ~StartTaken(n.start, n.duration)
    \/ n.start = None /\ n.duration # None /\ ~DurationTaken(n.duration)

(* _validated_exit: no booking with a nomination rejected or a slot open.  *)
Complete(s) == s.job /\ s.start # None /\ s.duration # None
Exit(n)     == IF n.exit = "booked" /\ ~Rejected(n) /\ Complete(Taken(n)) THEN "booked" ELSE "none"

Nomination == [job : {"none", "text", "bad"}, start : Starts \cup {None, Bad},
               duration : Durations \cup {None, Bad}, exit : {"none", "booked"}]

-----------------------------------------------------------------------------
(* GoalRegionRunner.turn, in its thread.                                   *)

Ends(c, how) == turn' = [turn EXCEPT ![c] = how]

(* An escape phrase, the deadline or the budget: nobody is asked.          *)
ShortCircuit(c) ==
    /\ turn[c] = "queued"
    /\ \/ exits' = [exits EXCEPT ![c] = "escape"]
       \/ /\ late \/ Len(transcript) >= MaxTurns
          /\ exits' = [exits EXCEPT ![c] = "budget"]
    /\ Ends(c, "done")
    /\ UNCHANGED <<replies, seen, runner, late>>

Ask(c) ==
    /\ turn[c] = "queued"
    /\ ~late /\ Len(transcript) < MaxTurns
    /\ Ends(c, "asking")
    /\ seen' = [seen EXCEPT ![c] = Len(transcript)]
    /\ asked' = asked + 1
    /\ UNCHANGED <<replies, transcript, failures, slots, exits, late>>

(* Neither attempt gave a payload: because the provider failed, or since   *)
(* its output could not be parsed.  Two failures in a row are an escape.   *)
GivesNothing_NotCounted(c) ==
    /\ turn[c] = "asking"
    /\ \E failed \in BOOLEAN :
          /\ failures' = IF ~failed THEN 0 ELSE IF failures < 2 THEN failures + 1 ELSE 2
          /\ exits' = [exits EXCEPT ![c] = IF failures' = 2 THEN "escape" ELSE "none"]
    /\ Ends(c, "done")
    /\ UNCHANGED <<replies, seen, asked, transcript, slots, late>>

GivesNothing(c) ==
    /\ turn[c] = "asking"
    /\ \E failed \in BOOLEAN :
          /\ failures' = IF ~failed THEN 0 ELSE IF failures < 2 THEN failures + 1 ELSE 2
          /\ exits' = [exits EXCEPT ![c] = IF failures' = 2 THEN "escape" ELSE "none"]
    /\ transcript' = Append(transcript, c)
    /\ Ends(c, "done")
    /\ UNCHANGED <<replies, seen, asked, slots, late>>

Answers(c, n) ==
    /\ turn[c] = "asking"
    /\ failures' = 0
    /\ slots' = Taken(n)
    /\ exits' = [exits EXCEPT ![c] = Exit(n)]
    /\ transcript' = Append(transcript, c)
    /\ Ends(c, "done")
    /\ UNCHANGED <<replies, seen, asked, late>>

(* The turn raises, before it has changed anything.                        *)
Raises(c) ==
    /\ turn[c] \in {"queued", "asking"}
    /\ Ends(c, "failed")
    /\ UNCHANGED <<replies, seen, runner, exits, late>>

-----------------------------------------------------------------------------
(* FlowSession.reply.                                                      *)

Goto(c, where) == pc' = [pc EXCEPT ![c] = where]
Over(c)        == turn[c] \in {"done", "failed"}

Reply(c) ==
    /\ pc[c] = "new"
    /\ Goto(c, "lock")
    /\ UNCHANGED <<lock, inflight, turn, seen, runner, exits, late>>

(* run_in_executor: the turn waits for a thread.                           *)
Launch(c) ==
    /\ turn' = [turn EXCEPT ![c] = "queued"]
    /\ inflight' = c
    /\ Goto(c, "await")

(* With the lock; a turn that somebody left behind is waited for first.    *)
Acquire_NoDrain(c) ==
    /\ pc[c] = "lock" /\ lock = Free
    /\ lock' = c
    /\ Launch(c)
    /\ UNCHANGED <<seen, runner, exits, late>>

Acquire(c) ==
    /\ pc[c] = "lock" /\ lock = Free
    /\ lock' = c
    /\ IF inflight = None THEN Launch(c) ELSE Goto(c, "drain") /\ UNCHANGED <<inflight, turn>>
    /\ UNCHANGED <<seen, runner, exits, late>>

(* _discard_orphaned_turn: what that turn decided is dropped.              *)
Drain(c) ==
    /\ pc[c] = "drain" /\ Over(inflight)
    /\ Launch(c)
    /\ UNCHANGED <<lock, seen, runner, exits, late>>

(* The turn is over: the reply says what it decided, or its error.         *)
Answered(c) ==
    /\ pc[c] = "await" /\ Over(c)
    /\ inflight' = None /\ lock' = Free
    /\ Goto(c, "done")
    /\ UNCHANGED <<turn, seen, runner, exits, late>>

(* A barge-in or a hangup: the lock is given back, the turn left behind.   *)
Cancel_KeepLock(c) ==
    /\ pc[c] \in {"lock", "drain", "await"}
    /\ Goto(c, "cancelled")
    /\ UNCHANGED <<lock, inflight, turn, seen, runner, exits, late>>

Cancel(c) ==
    /\ pc[c] \in {"lock", "drain", "await"}
    /\ lock' = IF lock = c THEN Free ELSE lock
    /\ inflight' = IF pc[c] = "drain" /\ Over(inflight) THEN None ELSE inflight
    /\ Goto(c, "cancelled")
    /\ UNCHANGED <<turn, seen, runner, exits, late>>

Deadline ==
    /\ ~late /\ late' = TRUE
    /\ UNCHANGED <<replies, turn, seen, runner, exits>>

-----------------------------------------------------------------------------
Thread(c) ==
    \/ ShortCircuit(c) \/ Ask(c) \/ GivesNothing(c) \/ Raises(c)
    \/ \E n \in Nomination : Answers(c, n)
Task(c) == Acquire(c) \/ Drain(c) \/ Answered(c)

Next == \/ \E c \in Caller : Reply(c) \/ Task(c) \/ Cancel(c) \/ Thread(c)
        \/ Deadline

Spec == Init /\ [][Next]_vars

(* The lock serves its waiters in order, so it comes to each of them (SF); *)
(* a thread's calls of the supervisor answer or time out.                  *)
FairSpec == Spec /\ \A c \in Caller : SF_vars(Task(c)) /\ WF_vars(Thread(c))

-----------------------------------------------------------------------------
(* A turn adds its exchange to the very transcript it has read: between    *)
(* the two no other turn has written, not even one whose reply was         *)
(* cancelled ("the worker keeps mutating the runner until the next         *)
(* serialized caller drains it", reply).                                   *)
TurnsSerialised ==
    [][\A c \in Caller :
          turn[c] = "asking" /\ turn'[c] = "done" => Len(transcript) = seen[c]]_vars

(* Whatever turns have agreed upon step by step, also turns nobody heard   *)
(* of, is a visit that can be made: a start has a duration, and the two    *)
(* fit; and a booking is complete ("a bad start must not leave a new       *)
(* duration paired with an older time", _validate_candidates).             *)
VisitFits ==
    /\ slots.start # None => slots.duration # None /\ Fits(slots.start, slots.duration)
    /\ (\E c \in Caller : exits[c] = "booked") => Complete(slots)

(* The supervisor is asked no more often than the budget has turns,        *)
(* replies that were cancelled and answers that failed included.           *)
BudgetHolds == asked <= MaxTurns + Cardinality({c \in Caller : turn[c] = "failed"})

(* Every reply comes to its end, though its lock was held by replies that  *)
(* were cancelled and their turns are still under way.                     *)
RepliesEnd == \A c \in Caller : pc[c] = "lock" ~> pc[c] \in {"done", "cancelled"}

=============================================================================
