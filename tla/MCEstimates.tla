----------------------------- MODULE MCEstimates -----------------------------
(* The ways the centre is set up in the run of Estimates: the optimizing   *)
(* planner where nothing goes wrong, with servers that are configured with *)
(* phi and rho and with servers that are not, and a planner that asks no   *)
(* estimates where anything may go wrong, with reports that keep their     *)
(* order and with reports that overtake each other.                        *)
EXTENDS Estimates, TLC

CONSTANTS s1, s2, s3

ThreeServers == {s1, s2, s3}
Setup(optimized, given, faults) ==
  [optimized |-> optimized, rated |-> given, faults |-> faults]
EverySetup ==
  {Setup(TRUE, Servers, {}), Setup(TRUE, {}, {}),
   Setup(FALSE, {}, FaultKinds), Setup(FALSE, {}, FaultKinds \ {"overtake"})}

\* For the counterexamples.
Early == {Setup(TRUE, Servers, {"early"})}
Calm == {Setup(TRUE, Servers, {})}

Symmetry == Permutations(Servers)
=============================================================================
