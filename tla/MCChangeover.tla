---------------------------- MODULE MCChangeover ----------------------------
(* Instances of Changeover for TLC. *)
EXTENDS Changeover, TLC

CONSTANTS j1, j2, j3, j4, p1, p2

FourJobs == {j1, j2, j3, j4}
TwoProcesses == {p1, p2}

(* j2 and j4 are two steps of one product. *)
OwnProducts == j1 :> 1 @@ j2 :> 2 @@ j3 :> 3 @@ j4 :> 2
FourProcesses == j1 :> p1 @@ j2 :> p2 @@ j3 :> p1 @@ j4 :> p1
TwoStates == p1 :> 2 @@ p2 :> 2
BothWays == {<<p1, p2>>, <<p2, p1>>}

P(j) == <<j, "production">>
S(j) == <<j, "setup">>

(* No plan; two that bundle the productions of a process, and one that     *)
(* changes over and back                                                   *)
GoodPlans == {<<>>,
              <<P(j2), S(j1), P(j1), P(j4), P(j3)>>,
              <<P(j1), P(j3), S(j2), P(j2), S(j4), P(j4)>>,
              <<P(j1), S(j2), P(j2), S(j4), P(j4), P(j3)>>}

(* What the theorems about plans suppose *)
ASSUME PlansAreFull == FullPlans
ASSUME PlansAreSettled == PlansSettle
=============================================================================
