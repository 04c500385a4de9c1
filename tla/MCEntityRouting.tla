--------------------------- MODULE MCEntityRouting ---------------------------
(* A product that takes a carrier and a screw, one that takes a screw, one  *)
(* that takes a carrier, and one that becomes a screw; there is one carrier *)
(* and one screw in stock.                                                  *)
EXTENDS EntityRouting, TLC

CONSTANTS a, b, d, s, c1, n1

AllProducts == {a, b, d, s}
AllStock == <<c1, n1>>
AllTypes == {"unit", "screw", "carrier"}
TypesOf == a :> "unit" @@ b :> "unit" @@ d :> "unit" @@ s :> "screw"
           @@ c1 :> "carrier" @@ n1 :> "screw"
Carriers == [p \in AllProducts |-> IF p \in {a, d} THEN <<"carrier">> ELSE <<>>]
Screwed(m) == <<[machine |-> m, parts |-> <<"screw">>]>>
Plain(m) == <<[machine |-> m, parts |-> <<>>]>>
Processes == a :> Screwed("press") @@ b :> Screwed("drill") @@ d :> Plain("press")
             @@ s :> Plain("mill")
AllMachines == {"press", "drill", "mill"}
Sources == [p \in AllProducts |-> IF p = s THEN "screws in" ELSE "units in"]
Sinks == [p \in AllProducts |-> IF p = s THEN "screws out" ELSE "units out"]
Inputs == "press" :> "press in" @@ "drill" :> "drill in" @@ "mill" :> "mill in"
Outputs == "press" :> "press out" @@ "drill" :> "drill out" @@ "mill" :> "mill out"
AllStores == {"rack", "shelf", "box"}
StoreLists == "carrier" :> <<"rack", "shelf">> @@ "screw" :> <<"box">> @@ "unit" :> <<>>
Homes == c1 :> "rack" @@ n1 :> "box"
Rooms == "rack" :> 1 @@ "shelf" :> 1 @@ "box" :> 0
=============================================================================
