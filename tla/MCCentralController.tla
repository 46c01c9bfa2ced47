------------------------ MODULE MCCentralController ------------------------
(* Instances of CentralController for TLC.                                 *)
EXTENDS CentralController, TLC

CONSTANTS u1, u2, a1, a2, s1, s2, b1, b2

TwoUsers == {u1, u2}
TwoApps == {a1, a2}
TwoServers == {s1, s2}
TwoStations == {b1, b2}

(* One user of one application, who stays, and a threshold planner.        *)
Threshold ==
  [users |-> {u1}, apps |-> {a1}, stations |-> {b1, b2}, optimized |-> FALSE,
   preemptive |-> FALSE, inOrder |-> TRUE, leaving |-> FALSE, failing |-> FALSE,
   discoveries |-> 1, plans |-> 3]

(* Plans for two users.                                                    *)
Together == [Threshold EXCEPT !.users = TwoUsers, !.stations = {b1}]

(* They look for their services again.                                     *)
Again == [Together EXCEPT !.discoveries = 2, !.plans = 2]

(* A user that may leave, and notices that overtake each other.            *)
Leaves == [Threshold EXCEPT !.apps = TwoApps, !.inOrder = FALSE,
                            !.leaving = TRUE, !.plans = 2]

(* The optimizing planner: threads that interleave, and a second plan.     *)
Timed == [Threshold EXCEPT !.optimized = TRUE, !.preemptive = TRUE, !.plans = 1]
TimedTwice == [Timed EXCEPT !.preemptive = FALSE, !.plans = 2]

\* A container that may fail to start, and a user that asks again.
Fails == [Threshold EXCEPT !.failing = TRUE, !.discoveries = 2, !.plans = 2]

EverySetup == {Threshold, Together, Again, Leaves, Timed, TimedTwice, Fails}

\* For the counterexamples.
PlansAgain == {TimedTwice}
Rediscovers == {Again}
AsksForAnother == {[Threshold EXCEPT !.apps = TwoApps, !.discoveries = 2, !.plans = 1]}
LeavesAndReturns == {[Leaves EXCEPT !.apps = {a1}, !.discoveries = 2, !.plans = 0]}
=============================================================================
