--------------------------- MODULE ModelFallback ---------------------------
(***************************************************************************)
(* One call of the ProviderManager (src/providers/index.ts): the requested *)
(* model and its configured fallbacks are tried in order, either for a     *)
(* whole answer (completeWithFallback of src/providers/fallback.ts) or for *)
(* a stream of tokens (streamWithFallback).                                *)
(*                                                                         *)
(* A provider may answer, fail or hang at any moment.  An async generator  *)
(* that is inside of a next() can not be closed: its return() is queued    *)
(* behind the next(), so that whoever awaits it waits for the provider.    *)
(*                                                                         *)
(* An operator with a suffix, as GiveUp_Uncommitted, is the operator named *)
(* before the suffix with one mistake in it, see BrowserReply.             *)
(***************************************************************************)
EXTENDS ModelCall

CONSTANTS Provider,
          MaxTokens,     \* tokens of one stream
          None           \* of Own: no provider

ASSUME FallbackAssumption ==
    /\ None \notin Provider
    /\ Own \in [Model -> Provider \cup {None}]
    /\ Gateways \in Seq(Provider) /\ Unbuilt \subseteq Provider
    /\ MaxFallbacks \in Nat /\ MaxTokens \in Nat

VARIABLES
    kind,  \* "whole" for complete(), "stream" for completeStream()
    at,    \* the attempt the helper is at
    spoke  \* emittedFirst

config == <<asked, fallbacks, keyed, kind>>
vars   == <<asked, fallbacks, keyed, kind, helper, at, asks, spoke, said>>

-----------------------------------------------------------------------------
Attempt == 1 .. MaxFallbacks + 1
IsLast  == at = Len(Chain)

Init ==
    /\ asked \in Model /\ keyed \in SUBSET Provider
    /\ fallbacks \in UNION {[1 .. n -> Model] : n \in 0 .. MaxFallbacks}
    /\ kind \in {"whole", "stream"}
    /\ helper = "next" /\ at = 1
    /\ asks = [i \in Attempt |-> "none"]
    /\ spoke = FALSE /\ said = <<>>

-----------------------------------------------------------------------------
(* The helpers.                                                            *)

MoveOn == helper' = "next" /\ at' = at + 1

(* An attempt failed: an error after the first token, or of the last       *)
(* attempt, is the caller's.                                               *)
GiveUp_Uncommitted ==
    \/ IsLast /\ helper' = "failed" /\ UNCHANGED at
    \/ ~IsLast /\ MoveOn

GiveUp_BeforeLast ==
    \/ (spoke \/ at + 1 >= Len(Chain)) /\ helper' = "failed" /\ UNCHANGED at
    \/ ~(spoke \/ at + 1 >= Len(Chain)) /\ MoveOn

GiveUp ==
    \/ (spoke \/ IsLast) /\ helper' = "failed" /\ UNCHANGED at
    \/ ~(spoke \/ IsLast) /\ MoveOn

(* run(), and the first next() of a stream; or there is no such provider.  *)
Start ==
    /\ helper = "next"
    /\ spoke' = FALSE
    /\ \/ /\ Instances(Chain[at]) # {}
          /\ asks' = [asks EXCEPT ![at] = "open"]
          /\ helper' = "wait" /\ UNCHANGED at
       \/ /\ Instances(Chain[at]) # Detected(Chain[at]) \/ Detected(Chain[at]) = {}
          /\ GiveUp /\ UNCHANGED asks
    /\ UNCHANGED <<config, said>>

Over == asks' = [asks EXCEPT ![at] = "over"]

(* A token goes out to the caller, who asks for the next.                  *)
Token ==
    /\ helper = "wait" /\ kind = "stream" /\ Len(said) < MaxTokens
    /\ said' = Append(said, at)
    /\ spoke' = TRUE
    /\ UNCHANGED <<config, helper, at, asks>>

Answered ==
    /\ helper = "wait"
    /\ Over
    /\ helper' = "done"
    /\ said' = IF kind = "whole" THEN <<at>> ELSE said
    /\ UNCHANGED <<config, at, spoke>>

Throws ==
    /\ helper = "wait"
    /\ Over
    /\ GiveUp
    /\ UNCHANGED <<config, spoke, said>>

(* raceTimeout gives up on the first token, or on the answer: but never of *)
(* the last attempt.  A whole answer that comes later is dropped.          *)
TimeOut_StreamOnly ==
    /\ helper = "wait" /\ ~spoke /\ ~IsLast
    /\ kind = "stream" /\ helper' = "close" /\ UNCHANGED at
    /\ UNCHANGED <<config, asks, spoke, said>>

TimeOut ==
    /\ helper = "wait" /\ ~spoke /\ ~IsLast
    /\ \/ kind = "whole" /\ MoveOn
       \/ kind = "stream" /\ helper' = "close" /\ UNCHANGED at
    /\ UNCHANGED <<config, asks, spoke, said>>

(* The provider is heard of at last, so the generator can return.          *)
Closed ==
    /\ helper = "close"
    /\ Over
    /\ MoveOn
    /\ UNCHANGED <<config, spoke, said>>

(* Nobody waits for this answer any more.                                  *)
Dropped ==
    /\ kind = "whole"
    /\ \E i \in 1 .. at - 1 : /\ asks[i] = "open"
                              /\ asks' = [asks EXCEPT ![i] = "over"]
    /\ UNCHANGED <<config, helper, at, spoke, said>>

-----------------------------------------------------------------------------
Helper == Start \/ TimeOut
Remote == Token \/ Answered \/ Throws \/ Closed \/ Dropped
Next   == Helper \/ Remote

Spec == Init /\ [][Next]_vars

(* Calls are made and timers fire; a provider need not say anything.       *)
FairSpec == Spec /\ WF_vars(Start) /\ WF_vars(TimeOut)

-----------------------------------------------------------------------------
(* A model that hangs gives way to the next one.                           *)
GivesWay(how) ==
    \A i \in Attempt :
       (kind = how /\ helper \in {"wait", "close"} /\ at = i /\ ~IsLast /\ ~spoke)
          ~> (at > i \/ spoke \/ helper = "done")

(* It does where the whole answer is awaited ...                           *)
WholeGivesWay == GivesWay("whole")

(* ... and shall where the first token is: "if nothing arrives in time -   *)
(* ... - abandon it and try the next" (streamWithFallback).                *)
StreamGivesWay == GivesWay("stream")

=============================================================================
