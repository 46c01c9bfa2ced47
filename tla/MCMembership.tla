---------------------------- MODULE MCMembership ----------------------------
(* Model values and the sets Membership is checked with.                   *)
EXTENDS Membership, TLC

CONSTANTS s1, s2, u1

TwoServers == {s1, s2}
NoUsers == {}
OneUser == {u1}
HomeFirst == [u \in Users |-> s1]
HomeNone == [u \in Users |-> NoServer]

=============================================================================
