--------------------------- MODULE SentenceStream ---------------------------
(***************************************************************************)
(* What a listener is promised of a text that is spoken sentence by        *)
(* sentence: the sentences come in order, each at most once, and none is   *)
(* missing between two of them but those that could not be synthesized.    *)
(***************************************************************************)
EXTENDS Naturals, Sequences

CONSTANT Sentences      \* how many sentences the text has

VARIABLES played,       \* sentences that were spoken
          skipped       \* sentences whose synthesis failed

Following == Len(played) + Len(skipped) + 1

Init == played = <<>> /\ skipped = <<>>

Play ==
    /\ Following <= Sentences
    /\ played' = Append(played, Following)
    /\ UNCHANGED skipped

Skip ==
    /\ Following <= Sentences
    /\ skipped' = Append(skipped, Following)
    /\ UNCHANGED played

Spec == Init /\ [][Play \/ Skip]_<<played, skipped>>
=============================================================================
