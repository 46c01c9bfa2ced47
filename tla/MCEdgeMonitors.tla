--------------------------- MODULE MCEdgeMonitors ---------------------------
(* Instances of EdgeMonitors for TLC.                                      *)
EXTENDS EdgeMonitors

CONSTANTS a, b, c

ThreeServices == {a, b, c}
=============================================================================
