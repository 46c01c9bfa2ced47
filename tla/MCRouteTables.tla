--------------------------- MODULE MCRouteTables ---------------------------
(* Model values and the sets RouteTables is checked with.                  *)
EXTENDS RouteTables, TLC

CONSTANTS u1, u2, d1, d2, slow, fast

OneUser == <<u1>>
TwoUsers == <<u1, u2>>
TwoDests == {d1, d2}
TwoSpeeds == {slow, fast}
Numbers == {1, 2}
OneNumber == {1}
=============================================================================
