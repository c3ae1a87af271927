--------------------------- MODULE MCAuthSessions ---------------------------
(* AuthSessions for TLC: one browser's request at a time, beside watchers  *)
(* and sweep, and two sockets.                                             *)
EXTENDS AuthSessions

=============================================================================
