--------------------------- MODULE MCBrowserReply ---------------------------
(* A small instance of BrowserReply for TLC.                               *)
EXTENDS BrowserReply
=============================================================================
