---------------------------- MODULE MCController ----------------------------
(* Instances of Controller for TLC. *)
EXTENDS Controller, TLC

CONSTANTS p1, p2, t1, t2, t3, d1

(* A worker that produces, transports and attends to other machines. *)
MixedRequests == {p1, p2, t1, t2, d1}
MixedKind == p1 :> "production" @@ p2 :> "production" @@ t1 :> "transport"
             @@ t2 :> "transport" @@ d1 :> "dependency"
MixedGroup == [r \in MixedRequests |-> MixedKind[r]]
MixedNoLots == {}

(* An AGV whose loads are all bundled. *)
LotRequests == {t1, t2, t3, p1, p2}
LotKind == [r \in LotRequests |-> "transport"]
LotGroup == t1 :> 1 @@ t2 :> 1 @@ t3 :> 1 @@ p1 :> 2 @@ p2 :> 2
LotLotted == LotRequests
=============================================================================
