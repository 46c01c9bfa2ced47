----------------------------- MODULE MCHandover -----------------------------
(* Instances of Handover for TLC: a street of five places with a station   *)
(* at each end and one in the middle.                                      *)
EXTENDS Handover, TLC

CONSTANTS u1, u2, left, mid, right, e1, e2

OneUser == {u1}
TwoUsers == {u1, u2}
Street == 1 .. 5
Neighbours == [p \in Street |-> {p - 1, p + 1} \cap Street]
Three == {left, mid, right}
Two == {left, right}
TwoServers == {e1, e2}
NotOnLine == {}

(* Levels: 1 is scanned and not stored, 2 and 3 are at most the threshold, *)
(* 4 and 5 above it.                                                       *)
Levels(f, g, h) == (left :> f) @@ (mid :> g) @@ (right :> h)

(* Two stations are stored everywhere, the third near its end.             *)
Wide == Levels(<<5, 4, 3, 2, 2>>, <<2, 3, 5, 3, 2>>, <<0, 0, 0, 4, 5>>)

(* Two stations; no level is the threshold itself.                         *)
Pair == (left :> <<5, 4, 2, 2, 2>>) @@ (right :> <<2, 2, 2, 4, 5>>)

(* Both are above the threshold in the middle.                             *)
BothGood == (left :> <<5, 4, 4, 2, 2>>) @@ (right :> <<2, 2, 5, 4, 5>>)

(* The station at the other end is scanned and not stored.                 *)
Faint == (left :> <<5, 4, 2, 1, 1>>) @@ (right :> <<1, 1, 2, 4, 5>>)

(* The station in the middle has no edge server of its own.                *)
OwnServers == (left :> e1) @@ (mid :> NoServer) @@ (right :> e2)

TwoOwnServers == (left :> e1) @@ (right :> e2)

AtStart == [u \in Users |-> [place |-> 2, station |-> left]]
AtMiddle == [u \in Users |-> [place |-> 3, station |-> left]]
(* The first device hears a better station than its own, which is good.    *)
GoodAndBad == [u \in Users |-> IF u = u1 THEN [place |-> 3, station |-> left]
                                         ELSE [place |-> 2, station |-> right]]
OnlyLeft == {left}
BothPlanners == {"nearest", "random"}
NearestPlanner == {"nearest"}
=============================================================================
