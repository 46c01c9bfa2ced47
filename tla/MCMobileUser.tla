---------------------------- MODULE MCMobileUser ----------------------------
(* Model values and the sets MobileUser is checked with.                   *)
EXTENDS MobileUser, TLC

CONSTANTS s1, s2

TwoServers == {s1, s2}

=============================================================================
