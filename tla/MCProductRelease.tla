--------------------------- MODULE MCProductRelease ---------------------------
(* Instances of ProductRelease for TLC. *)
EXTENDS ProductRelease, TLC

CONSTANTS sourceA, sourceB, orders, A, B, C

TwoSources == {sourceA, sourceB}
OneOrderSource == {orders}
TypesOfTwo == sourceA :> A @@ sourceB :> B
OneOrTwo == {1, 2}

E(type, number, time) == [product |-> <<type, number>>, time |-> time]
Order(time, items) == [time |-> time, items |-> items]
Item(type, quantity) == [type |-> type, quantity |-> quantity]
NoOrders == orders :> <<>>

(* Arrivals at a timed source and an order of two share two places. *)
Shared == [sources |-> {sourceB, orders}, conwip |-> 2, schedule |-> <<>>,
           orders |-> orders :> <<Order(1, <<Item(C, 1), Item(A, 1)>>)>>]

(* The schedule of two sources and an order source; a product has an event *)
(* for each of its processes.                                              *)
Planned == [sources |-> {sourceA, sourceB, orders}, conwip |-> Unlimited,
            schedule |-> <<E(A, 4, 0), E(C, 7, 1), E(A, 4, 1), E(B, 0, 1), E(C, 7, 2), E(A, 6, 2)>>,
            orders |-> orders :> <<Order(1, <<Item(C, 1)>>)>>]

(* Orders released against a schedule and CONWIP *)
Ordered == [sources |-> {orders}, conwip |-> 1,
            schedule |-> <<E(C, 3, 0), E(C, 5, 0), E(A, 1, 1)>>,
            orders |-> orders :> <<Order(0, <<Item(C, 2)>>), Order(1, <<Item(A, 1)>>)>>]

(* A schedule of three products and CONWIP of two or three *)
Crowded(conwip) == [sources |-> {sourceA}, conwip |-> conwip, orders |-> NoOrders,
                    schedule |-> <<E(A, 1, 0), E(A, 2, 1), E(A, 1, 1), E(A, 3, 2)>>]

AllSystems == {Shared, Planned, Ordered, Crowded(2), Crowded(3)}
=============================================================================
