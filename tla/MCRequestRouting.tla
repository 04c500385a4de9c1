-------------------------- MODULE MCRequestRouting --------------------------
(* Instances of RequestRouting for TLC. *)
EXTENDS RequestRouting, TLC

CONSTANTS p1, p2, s1, s2, m, w1, w2, w3, w4, named, pooled, guide,
          i1, o1, b1, b2, c1, c2

TwoProducts == {p1, p2}
SomePasses == p1 :> 3 @@ p2 :> 1
TwoStations == {s1, s2}
AnyStation == p1 :> {s1, s2} @@ p2 :> {s1, s2}
InPorts == s1 :> {i1} @@ s2 :> {b1, b2}
OutPorts == s1 :> {o1} @@ s2 :> {b1, b2}
SourcePorts == p1 :> c1 @@ p2 :> c2

(* w1 is asked for by name at both stations, s2 takes one of the others as *)
(* well, and w3 both helps and carries.  The model of p2 needs a guide.    *)
AllWorkers == {w1, w2, w3, w4}
TwoMovers == {m, w3}
ThreeNeeds == {named, pooled, guide}
WhoCan == named :> {w1} @@ pooled :> {w3, w4} @@ guide :> {w2}
NamedOnly == {named, guide}
NeedsOfAll == s1 :> <<named>> @@ s2 :> <<named, pooled>> @@ m :> <<>>
              @@ w1 :> <<>> @@ w2 :> <<>> @@ w3 :> <<>> @@ w4 :> <<>>
GuideForTwo == p1 :> <<>> @@ p2 :> <<guide>>
Event(p, r, need) == [product |-> p, resource |-> r, need |-> need]
PlanOfOne == <<Event(p1, s2, NoOne), Event(p1, w3, pooled), Event(p1, s2, NoOne),
               Event(p1, s1, NoOne)>>
=============================================================================
