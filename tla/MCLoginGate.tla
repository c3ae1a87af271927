---------------------------- MODULE MCLoginGate ----------------------------
(* LoginGate for TLC: two logins that overlap.                             *)
EXTENDS LoginGate

=============================================================================
