--------------------------- MODULE HistoryPromise ---------------------------
(***************************************************************************)
(* What the owner of a conversation history is promised, whatever sockets, *)
(* replies and requests do meanwhile: a saved conversation stays until a   *)
(* deletion names it, a deletion takes everything it names in one step,    *)
(* and nothing it named is ever written again.                             *)
(***************************************************************************)
CONSTANT Conv       \* the owner's conversations

VARIABLES rows,     \* conversations the owner can list
          erased    \* conversations some deletion has taken

Init == rows = {} /\ erased = {}

(* The first user turn of a conversation creates its row.                  *)
Save(c) ==
    /\ c \notin erased
    /\ rows' = rows \union {c}
    /\ UNCHANGED erased

Erase(S) ==
    /\ rows' = rows \ S
    /\ erased' = erased \union S

Next == \/ \E c \in Conv : Save(c)
        \/ \E S \in SUBSET Conv : Erase(S)

Spec == Init /\ [][Next]_<<rows, erased>>
=============================================================================
