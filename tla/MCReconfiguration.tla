--------------------------- MODULE MCReconfiguration ---------------------------
(* Instance of Reconfiguration for TLC. *)
EXTENDS Reconfiguration, TLC

CONSTANTS drill, mill, paint, move, left, middle, right, corner

(* Drilling, a process model of milling and drilling, and painting, which  *)
(* no product needs                                                        *)
ThreeModules == {{drill}, {mill}, {paint}}
Needed == {drill, mill}
ModelLeaves == drill :> {} @@ mill :> {drill} @@ paint :> {}
Setup(o, t) == [origin |-> o, target |-> t]
Sides == Permutations({middle, right})
Changeovers == {Setup(drill, mill), Setup(paint, drill)}
NoBreakdowns == {}
ThreePositions == {left, middle, right}

Resource(id, at, ps, ports, states) ==
    [id |-> id, location |-> at, processes |-> ps, ports |-> ports, states |-> states, tag |-> 0]

(* A machine with both processes, which a dependency requires, a vehicle *)
OneMachine ==
    [resources |-> <<Resource(<<"R", 1>>, left, {drill, mill}, {<<"R", 1>>}, Changeovers),
                     Resource(<<"V", 1>>, corner, {move}, {}, {})>>,
     ports |-> {[id |-> <<"R", 1>>, location |-> left]},
     dependency |-> <<"R", 1>>, mixed |-> FALSE]
=============================================================================
