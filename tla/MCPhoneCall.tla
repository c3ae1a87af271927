---------------------------- MODULE MCPhoneCall ----------------------------
(* PhoneCall for TLC: a handful of frames and turns per call.              *)
EXTENDS PhoneCall
=============================================================================
