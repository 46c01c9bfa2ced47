-------------------------- MODULE MCMigrateService --------------------------
(* Instances of MigrateService for TLC: two or three edge servers, one or  *)
(* two services, and the kinds of faults each run injects.                 *)
EXTENDS MigrateRefinement, TLC

CONSTANTS e1, e2, e3, s1, s2

TwoEdges == {e1, e2}
ThreeEdges == {e1, e2, e3}
OneService == {s1}
TwoServices == {s1, s2}

NoFaults == {}
Departures == {"depart"}
AllFaults == FaultKinds

(* No definition tells one edge server, or one service, from another.      *)
EdgeSymmetry == Permutations(Edges)
Symmetries == Permutations(Edges) \cup Permutations(Services)

(* Under the threshold planners nothing follows from the notices           *)
(* PRE_MIGRATED, nor from what the centre knows of the memory of services: *)
(* states that differ in them alone have the same future.                  *)
EagerView ==
  <<dockerVars, edgeVars, srcVars, net, dstVars, host, plan, orders, disturbed,
    {n \in notices : n.kind = "migrated"}>>
=============================================================================
