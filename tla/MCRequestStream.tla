-------------------------- MODULE MCRequestStream ---------------------------
(* Instances of RequestStream for TLC: all of its constants are numbers.   *)
EXTENDS RequestStream
=============================================================================
