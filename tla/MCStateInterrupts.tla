-------------------------- MODULE MCStateInterrupts --------------------------
(***************************************************************************)
(* Instances of StateInterrupts.                                           *)
(***************************************************************************)
EXTENDS StateInterrupts

CONSTANTS m1, m2, changeover, b1, b2, f1, f2

Nothing == {}
OneMachine == {m1}
Machines == {m1, m2}
OneMachineStates == {m1, changeover}
Changeovers == {changeover}
TwoBreakers == {b1, b2}
OneBreaker == {b1}
TwoFailures == {f1, f2}
NoCovers == [f \in {} |-> {}]
CoversFirst == [f \in Failures |-> {m1}]

ShortOrLong == {1, 3}
Two == {2}
OftenUp == [b \in Breakers |-> {1, 2}]
(* Downtimes that cross and nest, none beginning when the other ends: the  *)
(* first lasts from 2 to 4 of every 4 units, the second from 3 to 8 of 8.  *)
StaggeredUp == [b \in Breakers |-> IF b = b1 THEN {2} ELSE {3}]
StaggeredDown == [b \in Breakers |-> IF b = b1 THEN {2} ELSE {5}]
OftenDown == [b \in Breakers |-> {1, 2}]

=============================================================================
