--------------------------- MODULE MCFlowSession ---------------------------
(* FlowSession for TLC: two days of eight hours, business from 2 to 6; two *)
(* windows that touch, and one that goes on over midnight.                 *)
EXTENDS FlowSession

MCWindows == {<<2, 3>>, <<3, 5>>, <<5, 12>>}
MCStarts  == {2, 3, 7}
=============================================================================
