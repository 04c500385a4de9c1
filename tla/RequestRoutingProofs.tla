------------------------ MODULE RequestRoutingProofs ------------------------
(***************************************************************************)
(* Proofs about the workers in RequestRouting: work is staffed as long as  *)
(* it lasts, and no worker stays bound when it is over; and that the       *)
(* router overlooks no product.  The key of a request for a worker is the  *)
(* product and the dependency; the theorems are about systems in which     *)
(* this key tells such requests apart.                                     *)
(***************************************************************************)
EXTENDS RequestRouting, TLAPS

In(q, x) == \E i \in DOMAIN q : q[i] = x
Distinct(q) == \A i, j \in DOMAIN q : q[i] = q[j] => i = j

(* What a product needs at one time - for its process model, at a station  *)
(* and on a mover - names every dependency once.                           *)
DistinctNeeds ==
    /\ \A r \in Resources : Distinct(Needs[r])
    /\ \A p \in Products : Distinct(ModelNeeds[p])
    /\ \A s \in Stations, m \in Movers : ~\E d : In(Needs[s], d) /\ In(Needs[m], d)
    /\ \A p \in Products, r \in Stations \cup Movers :
           ~\E d : In(ModelNeeds[p], d) /\ In(Needs[r], d)

(* A transport fires no processing_finished: nobody may wait for it. *)
MoversNeedNobody == \A m \in Movers : Needs[m] = <<>>

IsNeed(k) == Kind(k) = "need"

Typed ==
    /\ pending \in Seq(Requests)
    /\ agenda \in Seq(Requests \cup {Signal, Loop})
    /\ stage \in [Requests -> Stages]
    /\ resource \in [Requests -> Resources \cup {NoOne}]
    /\ bound \in [Workers -> Requests \cup {Free}]

(* Requests are routed to resources of their kind. *)
RightResources ==
    \A k \in Requests :
        /\ Kind(k) = "step" => resource[k] \in Stations \cup {NoOne}
        /\ Kind(k) = "move" => resource[k] \in Movers \cup {NoOne}
        /\ IsNeed(k) /\ stage[k] \in {"routed", "queued", "coming", "attending"} =>
               resource[k] \in Workers

(* A pending request is in the list once; process models are never in it. *)
ListedPending ==
    /\ Distinct(pending)
    /\ \A k \in Requests : In(pending, k) => stage[k] = "pending" /\ Kind(k) # "model"

(* A product is transported for a step that waits for it. *)
MovedForStep ==
    \A p \in Products : stage[Move(p)] # "idle" => stage[Step(p)] = "carried"

(* Only steps and process models are waited for, and only when they end. *)
ScheduledEnds ==
    \A k \in Requests : In(agenda, k) =>
        \/ Kind(k) = "step" /\ stage[k] \in {"unloading", "idle"}
        \/ Kind(k) = "model" /\ stage[k] = "left"

(* Workers only help; somebody waits for each that is on its way. *)
WorkersHelp ==
    \A k \in Requests : IsNeed(k) => stage[k] \notin {"asking", "staffing", "working", "unloading"}
Expected ==
    \A n \in Requests : IsNeed(n) /\ stage[n] \in {"pending", "routed", "queued", "coming"} =>
        \E k \in Requests : ~IsNeed(k) /\ stage[k] = "staffing" /\ n \in WorkersOf(k)

AllThere == \A k \in Requests : stage[k] = "working" => Staffed(k)

(* A worker that was accepted is bound to its request. *)
BoundToRequest ==
    \A n \in Requests : IsNeed(n) /\ stage[n] \in {"coming", "attending"} => bound[resource[n]] = n

(* A bound worker has a request that waits, works or has just ended. *)
BoundForWork ==
    \A w \in Workers : bound[w] # Free =>
        \E k \in Requests :
            /\ ~IsNeed(k) /\ bound[w] \in WorkersOf(k)
            /\ stage[k] \in {"staffing", "working"} \/ In(agenda, k)

(* The inductive invariant. *)
Base == Typed /\ RightResources /\ ListedPending /\ MovedForStep /\ ScheduledEnds
IInv ==
    /\ Base /\ WorkersHelp /\ Expected /\ AllThere /\ BoundToRequest
    /\ MoversNeedNobody => BoundForWork

-----------------------------------------------------------------------------
(* What appending does to a list. *)
LEMMA Appended ==
    ASSUME NEW S, NEW q \in Seq(S), NEW x \in S
    PROVE  /\ Append(q, x) \in Seq(S)
           /\ \A y : In(Append(q, x), y) <=> In(q, y) \/ y = x
           /\ Distinct(q) /\ ~In(q, x) => Distinct(Append(q, x))
<1> DEFINE r == Append(q, x)
<1>1. r \in Seq(S) /\ Len(r) = Len(q) + 1 /\ DOMAIN r = 1 .. Len(q) + 1
      /\ r[Len(q) + 1] = x /\ \A i \in DOMAIN q : r[i] = q[i]
  OBVIOUS
<1>2. DOMAIN q = 1 .. Len(q) /\ Len(q) \in Nat OBVIOUS
<1> HIDE DEF r
<1>3. ASSUME NEW y PROVE In(r, y) <=> In(q, y) \/ y = x
  <2>1. ASSUME In(q, y) PROVE In(r, y) BY <2>1, <1>1, <1>2 DEF In
  <2>2. In(r, x) BY <1>1, <1>2 DEF In
  <2>3. ASSUME In(r, y), y # x PROVE In(q, y)
    <3>1. PICK i \in DOMAIN r : r[i] = y BY <2>3 DEF In
    <3>2. i \in DOMAIN q BY <3>1, <2>3, <1>1, <1>2
    <3> QED BY <3>1, <3>2, <1>1 DEF In
  <2> QED BY <2>1, <2>2, <2>3
<1>4. ASSUME Distinct(q), ~In(q, x) PROVE Distinct(r)
  <2> SUFFICES ASSUME NEW i \in DOMAIN r, NEW j \in DOMAIN r, r[i] = r[j] PROVE i = j
    BY DEF Distinct
  <2>1. CASE i \in DOMAIN q /\ j \in DOMAIN q BY <2>1, <1>4, <1>1 DEF Distinct
  <2>2. CASE i \in DOMAIN q /\ j \notin DOMAIN q
    <3>1. j = Len(q) + 1 BY <2>2, <1>1, <1>2
    <3>2. q[i] = x BY <3>1, <2>2, <1>1
    <3> QED BY <3>2, <2>2, <1>4 DEF In
  <2>3. CASE i \notin DOMAIN q /\ j \in DOMAIN q
    <3>1. i = Len(q) + 1 BY <2>3, <1>1, <1>2
    <3>2. q[j] = x BY <3>1, <2>3, <1>1
    <3> QED BY <3>2, <2>3, <1>4 DEF In
  <2>4. CASE i \notin DOMAIN q /\ j \notin DOMAIN q BY <2>4, <1>1, <1>2
  <2> QED BY <2>1, <2>2, <2>3, <2>4
<1> QED BY <1>1, <1>3, <1>4 DEF r

(* What appending a list does to a list. *)
LEMMA Concatenated ==
    ASSUME NEW S, NEW q \in Seq(S), NEW t \in Seq(S)
    PROVE  /\ q \o t \in Seq(S)
           /\ \A y : In(q \o t, y) <=> In(q, y) \/ In(t, y)
           /\ Distinct(q) /\ Distinct(t) /\ (\A y : ~(In(q, y) /\ In(t, y))) => Distinct(q \o t)
<1> DEFINE r == q \o t
<1>1. /\ r \in Seq(S) /\ DOMAIN r = 1 .. Len(q) + Len(t)
      /\ \A i \in 1 .. Len(q) + Len(t) : r[i] = IF i <= Len(q) THEN q[i] ELSE t[i - Len(q)]
  OBVIOUS
<1>2. /\ DOMAIN q = 1 .. Len(q) /\ Len(q) \in Nat /\ DOMAIN t = 1 .. Len(t) /\ Len(t) \in Nat
  OBVIOUS
<1> HIDE DEF r
<1>3. \A i \in DOMAIN q : i \in DOMAIN r /\ r[i] = q[i] BY <1>1, <1>2
<1>4. \A i \in DOMAIN t : i + Len(q) \in DOMAIN r /\ r[i + Len(q)] = t[i]
  <2> SUFFICES ASSUME NEW i \in DOMAIN t PROVE i + Len(q) \in DOMAIN r /\ r[i + Len(q)] = t[i]
    OBVIOUS
  <2>1. i \in 1 .. Len(t) BY <1>2
  <2>2. i + Len(q) \in 1 .. Len(q) + Len(t) /\ ~(i + Len(q) <= Len(q)) /\ i + Len(q) - Len(q) = i
    BY <2>1, <1>2
  <2> QED BY <2>2, <1>1
<1>5. \A i \in DOMAIN r : \/ i \in DOMAIN q /\ r[i] = q[i]
                          \/ i > Len(q) /\ i - Len(q) \in DOMAIN t /\ r[i] = t[i - Len(q)]
  BY <1>1, <1>2
<1>6. ASSUME NEW y PROVE In(r, y) <=> In(q, y) \/ In(t, y)
  BY <1>3, <1>4, <1>5 DEF In
<1>7. ASSUME Distinct(q), Distinct(t), \A y : ~(In(q, y) /\ In(t, y)) PROVE Distinct(r)
  <2> SUFFICES ASSUME NEW i \in DOMAIN r, NEW j \in DOMAIN r, r[i] = r[j] PROVE i = j
    BY DEF Distinct
  <2>1. CASE i \in DOMAIN q /\ r[i] = q[i] /\ j \in DOMAIN q /\ r[j] = q[j]
    BY <2>1, <1>7 DEF Distinct
  <2>2. CASE /\ i > Len(q) /\ i - Len(q) \in DOMAIN t /\ r[i] = t[i - Len(q)]
             /\ j > Len(q) /\ j - Len(q) \in DOMAIN t /\ r[j] = t[j - Len(q)]
    <3>1. i - Len(q) = j - Len(q) BY <2>2, <1>7 DEF Distinct
    <3>2. i \in Int /\ j \in Int BY <1>1
    <3> QED BY <3>1, <3>2, <1>2
  <2>3. ~(i \in DOMAIN q /\ r[i] = q[i] /\ j - Len(q) \in DOMAIN t /\ r[j] = t[j - Len(q)])
    BY <1>7 DEF In
  <2>4. ~(j \in DOMAIN q /\ r[j] = q[j] /\ i - Len(q) \in DOMAIN t /\ r[i] = t[i - Len(q)])
    BY <1>7 DEF In
  <2> QED BY <1>5, <2>1, <2>2, <2>3, <2>4
<1> QED BY <1>1, <1>6, <1>7 DEF r

(* What taking out one element does to a list. *)
LEMMA TakenOut ==
    ASSUME NEW S, NEW q \in Seq(S), NEW i \in DOMAIN q
    PROVE  LET r == SubSeq(q, 1, i - 1) \o SubSeq(q, i + 1, Len(q))
           IN  /\ r \in Seq(S)
               /\ \A y : In(r, y) => In(q, y)
               /\ Distinct(q) => Distinct(r) /\ ~In(r, q[i])
<1> DEFINE a == SubSeq(q, 1, i - 1)
           b == SubSeq(q, i + 1, Len(q))
<1>1. DOMAIN q = 1 .. Len(q) /\ Len(q) \in Nat /\ i \in 1 .. Len(q) OBVIOUS
<1>2. /\ a \in Seq(S) /\ DOMAIN a = 1 .. (i - 1) /\ \A j \in 1 .. (i - 1) : a[j] = q[j]
  BY <1>1
<1>3. /\ b \in Seq(S) /\ DOMAIN b = 1 .. (Len(q) - i)
      /\ \A j \in 1 .. (Len(q) - i) : b[j] = q[i + j]
  BY <1>1
<1> HIDE DEF a, b
<1>4. \A y : In(a, y) => \E j \in 1 .. (i - 1) : j \in DOMAIN q /\ q[j] = y
  BY <1>1, <1>2 DEF In
<1>5. \A y : In(b, y) => \E j \in (i + 1) .. Len(q) : j \in DOMAIN q /\ q[j] = y
  <2> SUFFICES ASSUME NEW y, In(b, y) PROVE \E j \in (i + 1) .. Len(q) : j \in DOMAIN q /\ q[j] = y
    OBVIOUS
  <2>1. PICK j \in DOMAIN b : b[j] = y BY DEF In
  <2>2. i + j \in (i + 1) .. Len(q) /\ i + j \in DOMAIN q /\ q[i + j] = y BY <2>1, <1>1, <1>3
  <2> QED BY <2>2
<1>6. a \o b \in Seq(S) /\ \A y : In(a \o b, y) <=> In(a, y) \/ In(b, y)
  BY <1>2, <1>3, Concatenated
<1>7. \A y : In(a \o b, y) => In(q, y) BY <1>4, <1>5, <1>6 DEF In
<1>8. ASSUME Distinct(q) PROVE Distinct(a \o b) /\ ~In(a \o b, q[i])
  <2>1. Distinct(a)
    BY <1>1, <1>2, <1>8 DEF Distinct
  <2>2. Distinct(b)
    <3> SUFFICES ASSUME NEW j \in DOMAIN b, NEW k \in DOMAIN b, b[j] = b[k] PROVE j = k
      BY DEF Distinct
    <3>1. j \in 1 .. (Len(q) - i) /\ k \in 1 .. (Len(q) - i) BY <1>3
    <3>2. i + j \in DOMAIN q /\ i + k \in DOMAIN q /\ q[i + j] = q[i + k] BY <3>1, <1>1, <1>3
    <3>3. i + j = i + k BY <3>2, <1>8 DEF Distinct
    <3> QED BY <3>1, <3>3, <1>1
  <2>3. \A y : ~(In(a, y) /\ In(b, y))
    <3> SUFFICES ASSUME NEW y, In(a, y), In(b, y) PROVE FALSE OBVIOUS
    <3>1. PICK j \in 1 .. (i - 1) : j \in DOMAIN q /\ q[j] = y BY <1>4
    <3>2. PICK k \in (i + 1) .. Len(q) : k \in DOMAIN q /\ q[k] = y BY <1>5
    <3>3. j = k BY <3>1, <3>2, <1>8 DEF Distinct
    <3> QED BY <3>1, <3>2, <3>3, <1>1
  <2>4. ~In(a, q[i]) BY <1>1, <1>4, <1>8 DEF Distinct
  <2>5. ~In(b, q[i]) BY <1>1, <1>5, <1>8 DEF Distinct
  <2> QED BY <2>1, <2>2, <2>3, <2>4, <2>5, <1>2, <1>3, <1>6, Concatenated
<1> QED BY <1>6, <1>7, <1>8 DEF a, b

(* What the first event leaves when it is over. *)
LEMMA TailOf ==
    ASSUME NEW S, NEW q \in Seq(S), q # <<>>
    PROVE  /\ Tail(q) \in Seq(S)
           /\ \A y : In(Tail(q), y) => In(q, y)
           /\ \A y : In(q, y) => In(Tail(q), y) \/ y = Head(q)
           /\ In(q, Head(q))
<1>1. /\ Len(q) \in Nat \ {0} /\ DOMAIN q = 1 .. Len(q) /\ Head(q) = q[1]
      /\ Tail(q) \in Seq(S) /\ DOMAIN Tail(q) = 1 .. (Len(q) - 1)
      /\ \A i \in 1 .. (Len(q) - 1) : Tail(q)[i] = q[i + 1]
  OBVIOUS
<1> DEFINE t == Tail(q)
<1> HIDE DEF t
<1>2. /\ DOMAIN t = 1 .. (Len(q) - 1) /\ \A i \in 1 .. (Len(q) - 1) : t[i] = q[i + 1]
  BY <1>1 DEF t
<1>3. ASSUME NEW y, In(t, y) PROVE In(q, y)
  <2>1. PICK i \in DOMAIN t : t[i] = y BY <1>3 DEF In
  <2>2. i + 1 \in DOMAIN q /\ q[i + 1] = y BY <2>1, <1>1, <1>2
  <2> QED BY <2>2 DEF In
<1>4. ASSUME NEW y, In(q, y), y # q[1] PROVE In(t, y)
  <2>1. PICK i \in DOMAIN q : q[i] = y BY <1>4 DEF In
  <2>2. i - 1 \in DOMAIN t /\ t[i - 1] = y BY <2>1, <1>1, <1>2, <1>4
  <2> QED BY <2>2 DEF In
<1>5. In(q, q[1]) BY <1>1 DEF In
<1> QED BY <1>1, <1>3, <1>4, <1>5 DEF t

-----------------------------------------------------------------------------
(* Keys of requests, and what they tell apart. *)
LEMMA Keys ==
    /\ \A p \in Products :
           /\ Model(p) \in Requests /\ Kind(Model(p)) = "model" /\ ItemOf(Model(p)) = p
           /\ Step(p) \in Requests /\ Kind(Step(p)) = "step" /\ ItemOf(Step(p)) = p
           /\ Move(p) \in Requests /\ Kind(Move(p)) = "move" /\ ItemOf(Move(p)) = p
    /\ \A p \in Products, d \in Dependencies :
           Need(p, d) \in Requests /\ Kind(Need(p, d)) = "need"
    /\ \A p, d : DependencyOf(Need(p, d)) = d /\ ItemOf(Need(p, d)) = p
    /\ \A k \in Requests :
           /\ ItemOf(k) \in Products
           /\ Kind(k) \in {"model", "step", "move", "need"}
           /\ Kind(k) = "model" => k = Model(ItemOf(k))
           /\ Kind(k) = "step" => k = Step(ItemOf(k))
           /\ Kind(k) = "move" => k = Move(ItemOf(k))
           /\ Kind(k) = "need" => DependencyOf(k) \in Dependencies
           /\ k # Signal /\ k # Loop /\ k # Free
<1>1. \A p \in Products :
           /\ Model(p) \in Requests /\ Kind(Model(p)) = "model" /\ ItemOf(Model(p)) = p
           /\ Step(p) \in Requests /\ Kind(Step(p)) = "step" /\ ItemOf(Step(p)) = p
           /\ Move(p) \in Requests /\ Kind(Move(p)) = "move" /\ ItemOf(Move(p)) = p
  BY DEF Model, Step, Move, Requests, Kind, ItemOf
<1>2. \A p \in Products, d \in Dependencies :
           Need(p, d) \in Requests /\ Kind(Need(p, d)) = "need"
  BY DEF Need, Requests, Kind
<1>3. \A p, d : DependencyOf(Need(p, d)) = d /\ ItemOf(Need(p, d)) = p
  BY DEF Need, DependencyOf, ItemOf
<1>4. ASSUME NEW k \in Requests
      PROVE  /\ ItemOf(k) \in Products
             /\ Kind(k) \in {"model", "step", "move", "need"}
             /\ Kind(k) = "model" => k = Model(ItemOf(k))
             /\ Kind(k) = "step" => k = Step(ItemOf(k))
             /\ Kind(k) = "move" => k = Move(ItemOf(k))
             /\ Kind(k) = "need" => DependencyOf(k) \in Dependencies
             /\ k # Signal /\ k # Loop /\ k # Free
  <2>1. CASE \E p \in Products : k = Model(p)
    BY <2>1 DEF Model, Step, Move, Kind, ItemOf, Signal, Loop, Free
  <2>2. CASE \E p \in Products : k = Step(p)
    BY <2>2 DEF Model, Step, Move, Kind, ItemOf, Signal, Loop, Free
  <2>3. CASE \E p \in Products : k = Move(p)
    BY <2>3 DEF Model, Step, Move, Kind, ItemOf, Signal, Loop, Free
  <2>4. CASE \E p \in Products, d \in Dependencies : k = Need(p, d)
    BY <2>4 DEF Need, Kind, ItemOf, DependencyOf, Signal, Loop, Free
  <2> QED BY <2>1, <2>2, <2>3, <2>4 DEF Requests
<1> QED BY <1>1, <1>2, <1>3, <1>4

(* The lists of needs have dependencies in them. *)
LEMMA NeedsOfOwner ==
    ASSUME RightResources, NEW k \in Requests, ~IsNeed(k)
    PROVE  /\ NeedsOf(k) \in Seq(Dependencies)
           /\ \/ Kind(k) = "model" /\ NeedsOf(k) = ModelNeeds[ItemOf(k)]
              \/ Kind(k) = "step" /\ \E s \in Stations : NeedsOf(k) = Needs[s]
              \/ Kind(k) = "move" /\ \E m \in Movers : NeedsOf(k) = Needs[m]
              \/ NeedsOf(k) = <<>>
<1>1. ItemOf(k) \in Products /\ Kind(k) \in {"model", "step", "move"}
  BY Keys DEF IsNeed
<1>2. CASE Kind(k) = "model"
  <2>1. NeedsOf(k) = ModelNeeds[ItemOf(k)] BY <1>2 DEF NeedsOf
  <2> QED BY <1>1, <1>2, <2>1, ResourcesAssumption
<1>3. CASE Kind(k) # "model" /\ resource[k] = NoOne
  <2>1. NeedsOf(k) = <<>> BY <1>3 DEF NeedsOf
  <2> QED BY <2>1
<1>4. CASE Kind(k) # "model" /\ resource[k] # NoOne
  <2>1. NeedsOf(k) = Needs[resource[k]] BY <1>4 DEF NeedsOf
  <2>2. \/ Kind(k) = "step" /\ resource[k] \in Stations
        \/ Kind(k) = "move" /\ resource[k] \in Movers
    BY <1>1, <1>4 DEF RightResources
  <2>3. resource[k] \in Resources BY <2>2 DEF Resources
  <2>4. NeedsOf(k) \in Seq(Dependencies) BY <2>1, <2>3, ResourcesAssumption
  <2> QED BY <2>1, <2>2, <2>4
<1> QED BY <1>2, <1>3, <1>4

(* A request for a worker has one owner. *)
LEMMA OneOwner ==
    ASSUME DistinctNeeds, RightResources,
           NEW k \in Requests, NEW x \in Requests, ~IsNeed(k), ~IsNeed(x),
           NEW n \in WorkersOf(k)
    PROVE  n \in Requests /\ IsNeed(n) /\ (n \in WorkersOf(x) => x = k)
<1>1. PICK i \in DOMAIN NeedsOf(k) : n = Need(ItemOf(k), NeedsOf(k)[i]) BY DEF WorkersOf
<1>2. NeedsOf(k)[i] \in Dependencies BY NeedsOfOwner
<1>3. n \in Requests /\ IsNeed(n) BY <1>1, <1>2, Keys DEF IsNeed
<1>4. ASSUME n \in WorkersOf(x) PROVE x = k
  <2>1. PICK j \in DOMAIN NeedsOf(x) : n = Need(ItemOf(x), NeedsOf(x)[j])
    BY <1>4 DEF WorkersOf
  <2>2. ItemOf(x) = ItemOf(k) /\ NeedsOf(x)[j] = NeedsOf(k)[i]
    <3>1. \A p, d : DependencyOf(Need(p, d)) = d /\ ItemOf(Need(p, d)) = p BY Keys
    <3>2. DependencyOf(n) = NeedsOf(k)[i] /\ ItemOf(n) = ItemOf(k) BY <1>1, <3>1
    <3>3. DependencyOf(n) = NeedsOf(x)[j] /\ ItemOf(n) = ItemOf(x) BY <2>1, <3>1
    <3> QED BY <3>2, <3>3
  <2> DEFINE d == NeedsOf(k)[i]
  <2>3. In(NeedsOf(k), d) /\ In(NeedsOf(x), d) BY <2>1, <2>2 DEF In
  <2>4. NeedsOf(k) # <<>> /\ NeedsOf(x) # <<>> BY <2>3 DEF In
  <2> HIDE DEF d
  <2>5. Kind(x) = Kind(k)
    <3> DEFINE Kinds(y) ==
            \/ Kind(y) = "model" /\ NeedsOf(y) = ModelNeeds[ItemOf(y)]
            \/ Kind(y) = "step" /\ \E s \in Stations : NeedsOf(y) = Needs[s]
            \/ Kind(y) = "move" /\ \E m \in Movers : NeedsOf(y) = Needs[m]
    <3>1. Kinds(k) /\ Kinds(x) BY <2>4, NeedsOfOwner
    <3>2. ItemOf(k) \in Products BY Keys
    <3> QED BY <2>2, <2>3, <3>1, <3>2 DEF DistinctNeeds
  <2> QED BY <2>2, <2>5, Keys DEF IsNeed
<1> QED BY <1>3, <1>4

(* Requests keep their workers as long as they keep their resource. *)
LEMMA SameWorkers ==
    ASSUME NEW k, resource'[k] = resource[k]
    PROVE  WorkersOf(k)' = WorkersOf(k) /\ NeedsOf(k)' = NeedsOf(k)
<1>1. NeedsOf(k)' = NeedsOf(k) BY DEF NeedsOf
<1> QED BY <1>1 DEF WorkersOf

(* What waking the loop adds to the agenda. *)
LEMMA WakesOnly ==
    ASSUME Typed, NEW q, q = <<>> \/ \E k \in Requests : q = <<k>>
    PROVE  /\ Signalled(q) \in Seq(Requests \cup {Signal, Loop})
           /\ \A x \in Requests : In(Signalled(q), x) <=> In(agenda, x) \/ q = <<x>>
<1> DEFINE S == Requests \cup {Signal, Loop}
<1>1. q \in Seq(S)
  <2>1. CASE q = <<>> BY <2>1
  <2>2. ASSUME NEW k \in Requests, q = <<k>> PROVE q \in Seq(S) BY <2>2
  <2> QED BY <2>1, <2>2
<1>2. agenda \in Seq(S) BY DEF Typed
<1>3. <<Signal>> \in Seq(S) OBVIOUS
<1>4. \A x \in Requests : (In(q, x) <=> q = <<x>>) /\ ~In(<<Signal>>, x)
  BY Keys DEF In
<1> HIDE DEF S
<1>5. agenda \o q \in Seq(S) /\ \A x : In(agenda \o q, x) <=> In(agenda, x) \/ In(q, x)
  BY <1>1, <1>2, Concatenated
<1>6. /\ agenda \o q \o <<Signal>> \in Seq(S)
      /\ \A x : In(agenda \o q \o <<Signal>>, x) <=> In(agenda \o q, x) \/ In(<<Signal>>, x)
  BY <1>3, <1>5, Concatenated
<1>7. Signalled(q) = agenda \o q \/ Signalled(q) = agenda \o q \o <<Signal>>
  BY DEF Signalled
<1> QED BY <1>4, <1>5, <1>6, <1>7 DEF S

-----------------------------------------------------------------------------
(* The invariant holds at the start. *)
LEMMA InitIInv == Init => IInv
<1> SUFFICES ASSUME Init PROVE IInv
  OBVIOUS
<1>1. /\ pending = <<>> /\ agenda = <<>> /\ stage = [k \in Requests |-> "idle"]
      /\ resource = [k \in Requests |-> NoOne] /\ bound = [w \in Workers |-> Free]
  BY DEF Init
<1>2. \A x : ~In(pending, x) /\ ~In(agenda, x) BY <1>1 DEF In
<1>3. Distinct(pending) BY <1>1 DEF Distinct
<1>4. Typed BY <1>1 DEF Typed, Stages
<1>5. RightResources BY <1>1 DEF RightResources
<1>6. ListedPending /\ ScheduledEnds BY <1>2, <1>3 DEF ListedPending, ScheduledEnds
<1>9. MovedForStep BY <1>1, Keys DEF MovedForStep
<1>7. WorkersHelp /\ Expected /\ AllThere /\ BoundToRequest
  BY <1>1 DEF WorkersHelp, Expected, AllThere, BoundToRequest
<1>8. BoundForWork BY <1>1 DEF BoundForWork
<1> QED BY <1>4, <1>5, <1>6, <1>7, <1>8, <1>9 DEF IInv, Base

(* Steps that move requests on while resources and workers stay. *)
LEMMA StagesKeepIInv ==
    ASSUME DistinctNeeds, IInv, UNCHANGED <<resource, bound>>,
           stage' \in [Requests -> Stages], pending' \in Seq(Requests),
           agenda' \in Seq(Requests \cup {Signal, Loop}),
           ListedPending', MovedForStep', ScheduledEnds',
           \A k \in Requests : In(agenda, k) => In(agenda', k),
           \A k \in Requests : IsNeed(k) =>
               \/ stage'[k] = stage[k]
               \/ <<stage[k], stage'[k]>> \in {<<"routed", "queued">>, <<"coming", "attending">>},
           \A k \in Requests : ~IsNeed(k) /\ stage'[k] # stage[k] =>
               /\ stage[k] = "staffing" => stage'[k] = "working"
               /\ stage'[k] = "working" => Staffed(k)
               /\ stage[k] = "working" /\ MoversNeedNobody => In(agenda', k) \/ WorkersOf(k) = {}
    PROVE  IInv'
<1>1. Typed' BY DEF IInv, Base, Typed
<1>2. \A k : WorkersOf(k)' = WorkersOf(k) BY SameWorkers
<1>3. RightResources' BY DEF IInv, Base, RightResources
<1>4. ASSUME NEW k \in Requests, ~IsNeed(k), NEW n \in WorkersOf(k)
      PROVE  n \in Requests /\ IsNeed(n)
  BY <1>4, OneOwner DEF IInv, Base
<1>5. WorkersHelp' BY DEF IInv, WorkersHelp
<1>6. Expected'
  <2> SUFFICES ASSUME NEW n \in Requests, IsNeed(n),
                      stage'[n] \in {"pending", "routed", "queued", "coming"}
               PROVE  \E k \in Requests : ~IsNeed(k) /\ stage'[k] = "staffing" /\ n \in WorkersOf(k)
    BY <1>2 DEF Expected
  <2>1. stage[n] \in {"pending", "routed", "queued", "coming"}
    OBVIOUS
  <2>2. PICK k \in Requests : ~IsNeed(k) /\ stage[k] = "staffing" /\ n \in WorkersOf(k)
    BY <2>1 DEF IInv, Expected
  <2>3. ~Staffed(k) BY <2>1, <2>2 DEF Staffed
  <2>4. stage'[k] = "staffing" BY <2>2, <2>3
  <2> QED BY <2>2, <2>4
<1>7. AllThere'
  <2> SUFFICES ASSUME NEW k \in Requests, stage'[k] = "working", NEW n \in WorkersOf(k)
               PROVE  stage'[n] = "attending"
    BY <1>2 DEF AllThere, Staffed
  <2>1. ~IsNeed(k) BY <1>5 DEF WorkersHelp
  <2>2. Staffed(k) BY <2>1 DEF IInv, AllThere
  <2>3. stage[n] = "attending" /\ n \in Requests /\ IsNeed(n) BY <1>4, <2>1, <2>2 DEF Staffed
  <2> QED BY <2>3
<1>8. BoundToRequest' BY DEF IInv, BoundToRequest
<1>9. ASSUME MoversNeedNobody PROVE BoundForWork'
  <2> SUFFICES ASSUME NEW w \in Workers, bound[w] # Free
               PROVE  \E k \in Requests :
                          /\ ~IsNeed(k) /\ bound[w] \in WorkersOf(k)
                          /\ stage'[k] \in {"staffing", "working"} \/ In(agenda', k)
    BY <1>2 DEF BoundForWork
  <2>1. PICK k \in Requests :
            /\ ~IsNeed(k) /\ bound[w] \in WorkersOf(k)
            /\ stage[k] \in {"staffing", "working"} \/ In(agenda, k)
    BY <1>9 DEF IInv, BoundForWork
  <2>2. stage'[k] \in {"staffing", "working"} \/ In(agenda', k)
    BY <1>9, <2>1
  <2> QED BY <2>1, <2>2
<1> QED BY <1>1, <1>3, <1>5, <1>6, <1>7, <1>8, <1>9 DEF IInv, Base

(* One request moves on; perhaps it is added to the list, perhaps the loop *)
(* is woken, perhaps the end of the request is announced.                  *)
LEMMA StageKeepsIInv ==
    ASSUME DistinctNeeds, IInv, UNCHANGED <<resource, bound>>,
           NEW k \in Requests, NEW v \in Stages, stage' = [stage EXCEPT ![k] = v],
           stage[k] # "pending", Kind(k) = "move" => stage[k] # "idle",
           Kind(k) = "step" /\ stage[k] = "carried" => stage[Move(ItemOf(k))] = "idle",
           \/ v # "pending" /\ pending' = pending
           \/ v = "pending" /\ Kind(k) # "model" /\ pending' = Append(pending, k),
           agenda' \in Seq(Requests \cup {Signal, Loop}),
           \A x \in Requests : In(agenda, x) => In(agenda', x),
           \A x \in Requests : In(agenda', x) => In(agenda, x) \/ x = k,
           In(agenda', k) => \/ Kind(k) = "step" /\ v \in {"unloading", "idle"}
                             \/ Kind(k) = "model" /\ v = "left",
           IsNeed(k) => <<stage[k], v>> \in {<<"routed", "queued">>, <<"coming", "attending">>},
           ~IsNeed(k) =>
               /\ stage[k] = "staffing" => v = "working"
               /\ v = "working" => Staffed(k)
               /\ stage[k] = "working" /\ MoversNeedNobody => In(agenda', k) \/ WorkersOf(k) = {}
    PROVE  IInv'
<1>1. Typed BY DEF IInv, Base
<1>2. stage' \in [Requests -> Stages] /\ stage'[k] = v
      /\ \A x \in Requests \ {k} : stage'[x] = stage[x]
  BY <1>1 DEF Typed
<1>3. ~In(pending, k) BY DEF IInv, Base, ListedPending
<1>4. pending \in Seq(Requests) /\ Distinct(pending) BY DEF IInv, Base, Typed, ListedPending
<1>5. pending' \in Seq(Requests) /\ ListedPending'
  <2>1. CASE v # "pending" /\ pending' = pending
    BY <1>2, <1>3, <1>4, <2>1 DEF IInv, Base, ListedPending
  <2>2. CASE v = "pending" /\ Kind(k) # "model" /\ pending' = Append(pending, k)
    <3>1. /\ pending' \in Seq(Requests) /\ Distinct(pending')
          /\ \A x : In(pending', x) <=> In(pending, x) \/ x = k
      BY <1>3, <1>4, <2>2, Appended
    <3> QED BY <1>2, <2>2, <3>1 DEF IInv, Base, ListedPending
  <2> QED BY <2>1, <2>2
<1>6. ScheduledEnds' BY <1>2 DEF IInv, Base, ScheduledEnds
<1>7. \A x \in Requests : IsNeed(x) =>
          \/ stage'[x] = stage[x]
          \/ <<stage[x], stage'[x]>> \in {<<"routed", "queued">>, <<"coming", "attending">>}
  BY <1>2
<1>8. \A x \in Requests : ~IsNeed(x) /\ stage'[x] # stage[x] =>
          /\ stage[x] = "staffing" => stage'[x] = "working"
          /\ stage'[x] = "working" => Staffed(x)
          /\ stage[x] = "working" /\ MoversNeedNobody => In(agenda', x) \/ WorkersOf(x) = {}
  BY <1>2
<1>9. MovedForStep'
  <2> SUFFICES ASSUME NEW p \in Products, stage'[Move(p)] # "idle"
               PROVE  stage'[Step(p)] = "carried"
    BY DEF MovedForStep
  <2>1. /\ Move(p) \in Requests /\ Kind(Move(p)) = "move"
        /\ Step(p) \in Requests /\ Kind(Step(p)) = "step" /\ ItemOf(Step(p)) = p
    BY Keys
  <2>2. stage[Move(p)] # "idle" BY <1>2, <2>1
  <2>3. stage[Step(p)] = "carried" BY <2>2 DEF IInv, Base, MovedForStep
  <2> QED BY <1>2, <2>1, <2>2, <2>3
<1> QED BY <1>2, <1>5, <1>6, <1>7, <1>8, <1>9, StagesKeepIInv

(* Steps of the loop's events, and between two iterations of it. *)
LEMMA EventsKeepIInv ==
    ASSUME DistinctNeeds, IInv, UNCHANGED <<pending, stage, resource, bound>>,
           agenda' \in Seq(Requests \cup {Signal, Loop}),
           \A x \in Requests : In(agenda', x) <=> In(agenda, x)
    PROVE  IInv'
<1>1. ListedPending' /\ MovedForStep' /\ ScheduledEnds'
  BY DEF IInv, Base, ListedPending, MovedForStep, ScheduledEnds
<1>2. stage' \in [Requests -> Stages] /\ pending' \in Seq(Requests) BY DEF IInv, Base, Typed
<1> QED BY <1>1, <1>2, StagesKeepIInv

-----------------------------------------------------------------------------
(* A request is routed: it leaves the list and gets a resource. *)
LEMMA RouteKeepsIInv ==
    ASSUME DistinctNeeds, IInv, Route
    PROVE  IInv'
<1>1. PICK i \in DOMAIN pending :
        LET k == pending[i] IN
        /\ Routable(i)
        /\ \E r \in Choices(k) : resource' = [resource EXCEPT ![k] = r]
        /\ stage' = [stage EXCEPT ![k] = "routed"]
        /\ pending' = SubSeq(pending, 1, i - 1) \o SubSeq(pending, i + 1, Len(pending))
  BY DEF Route
<1> DEFINE k == pending[i]
<1>2. UNCHANGED <<agenda, bound>> BY DEF Route
<1>3. Typed /\ k \in Requests BY DEF IInv, Base, Typed
<1>4. In(pending, k) BY DEF In
<1>5. stage[k] = "pending" /\ Kind(k) \in {"step", "move", "need"}
  BY <1>3, <1>4, Keys DEF IInv, Base, ListedPending
<1>6. PICK r \in Choices(k) : resource' = [resource EXCEPT ![k] = r] BY <1>1
<1>7. r \in Options(k)
  BY <1>5 DEF Choices, Planned
<1>8. /\ Kind(k) = "step" => r \in Stations
      /\ Kind(k) = "move" => r \in Movers
      /\ IsNeed(k) => r \in Workers
  <2>1. ItemOf(k) \in Products /\ (IsNeed(k) => DependencyOf(k) \in Dependencies)
    BY <1>3, Keys DEF IsNeed
  <2>2. CASE Kind(k) = "step"
    BY <1>7, <2>1, <2>2, ResourcesAssumption DEF Options, IsNeed
  <2>3. CASE Kind(k) = "move"
    BY <1>7, <2>3 DEF Options, IsNeed
  <2>4. CASE Kind(k) = "need"
    BY <1>7, <2>1, <2>4, ResourcesAssumption DEF Options, IsNeed
  <2> QED BY <1>5, <2>2, <2>3, <2>4
<1>9. r \in Resources BY <1>5, <1>8 DEF Resources, IsNeed
<1>10. /\ pending' \in Seq(Requests) /\ Distinct(pending') /\ ~In(pending', k)
       /\ \A y : In(pending', y) => In(pending, y)
  BY <1>1, TakenOut DEF IInv, Base, Typed, ListedPending
<1>11. stage' = [stage EXCEPT ![k] = "routed"] BY <1>1
<1> HIDE DEF k
<1>12. /\ stage'[k] = "routed" /\ \A x \in Requests \ {k} : stage'[x] = stage[x]
       /\ resource'[k] = r /\ \A x \in Requests \ {k} : resource'[x] = resource[x]
  BY <1>3, <1>6, <1>11 DEF Typed
<1>13. Typed' BY <1>2, <1>3, <1>6, <1>9, <1>10, <1>11 DEF Typed, Stages
<1>14. RightResources' BY <1>8, <1>12 DEF IInv, Base, RightResources
<1>15. ListedPending' BY <1>10, <1>12 DEF IInv, Base, ListedPending
<1>16. ScheduledEnds' BY <1>2, <1>5, <1>12 DEF IInv, Base, ScheduledEnds
<1>23. MovedForStep'
  <2> SUFFICES ASSUME NEW p \in Products, stage'[Move(p)] # "idle"
               PROVE  stage'[Step(p)] = "carried"
    BY DEF MovedForStep
  <2>1. Move(p) \in Requests /\ Step(p) \in Requests BY Keys
  <2>2. stage[Step(p)] = "carried" BY <1>5, <1>12, <2>1 DEF IInv, Base, MovedForStep
  <2> QED BY <1>5, <1>12, <2>1, <2>2
<1>17. WorkersHelp' BY <1>12 DEF IInv, WorkersHelp
<1>18. \A x \in Requests \ {k} : WorkersOf(x)' = WorkersOf(x) BY <1>12, SameWorkers
<1>19. Expected'
  <2> SUFFICES ASSUME NEW n \in Requests, IsNeed(n),
                      stage'[n] \in {"pending", "routed", "queued", "coming"}
               PROVE  \E x \in Requests : ~IsNeed(x) /\ stage'[x] = "staffing" /\ n \in WorkersOf(x)'
    BY DEF Expected
  <2>1. stage[n] \in {"pending", "routed", "queued", "coming"} BY <1>5, <1>12
  <2>2. PICK x \in Requests : ~IsNeed(x) /\ stage[x] = "staffing" /\ n \in WorkersOf(x)
    BY <2>1 DEF IInv, Expected
  <2>3. x # k BY <1>5, <2>2
  <2> QED BY <1>12, <1>18, <2>2, <2>3
<1>20. AllThere'
  <2> SUFFICES ASSUME NEW x \in Requests, stage'[x] = "working", NEW n \in WorkersOf(x)'
               PROVE  stage'[n] = "attending"
    BY DEF AllThere, Staffed
  <2>1. x # k /\ stage[x] = "working" BY <1>12
  <2>2. n \in WorkersOf(x) /\ ~IsNeed(x) BY <1>18, <2>1 DEF IInv, WorkersHelp
  <2>3. stage[n] = "attending" /\ n \in Requests
    BY <2>1, <2>2, OneOwner DEF IInv, Base, AllThere, Staffed
  <2> QED BY <1>5, <1>12, <2>3
<1>21. BoundToRequest'
  BY <1>2, <1>12 DEF IInv, BoundToRequest
<1>22. ASSUME MoversNeedNobody PROVE BoundForWork'
  <2> SUFFICES ASSUME NEW w \in Workers, bound[w] # Free
               PROVE  \E x \in Requests :
                          /\ ~IsNeed(x) /\ bound[w] \in WorkersOf(x)'
                          /\ stage'[x] \in {"staffing", "working"} \/ In(agenda, x)
    BY <1>2 DEF BoundForWork
  <2>1. PICK x \in Requests :
            /\ ~IsNeed(x) /\ bound[w] \in WorkersOf(x)
            /\ stage[x] \in {"staffing", "working"} \/ In(agenda, x)
    BY <1>22 DEF IInv, BoundForWork
  <2>2. x # k BY <1>5, <2>1 DEF IInv, Base, ScheduledEnds
  <2> QED BY <1>12, <1>18, <2>1, <2>2
<1> QED BY <1>13, <1>14, <1>15, <1>16, <1>17, <1>19, <1>20, <1>21, <1>22, <1>23 DEF IInv, Base

(* The steps of one request that wake the loop, or no one. *)
LEMMA WalkKeepsIInv ==
    ASSUME DistinctNeeds, IInv, UNCHANGED <<resource, bound>>,
           NEW k \in Requests, NEW v \in Stages, stage' = [stage EXCEPT ![k] = v],
           stage[k] # "pending", Kind(k) = "move" => stage[k] # "idle",
           Kind(k) = "step" /\ stage[k] = "carried" => stage[Move(ItemOf(k))] = "idle",
           \/ v # "pending" /\ pending' = pending
           \/ v = "pending" /\ Kind(k) # "model" /\ pending' = Append(pending, k),
           agenda' = agenda \/ agenda' = Signalled(<<>>),
           In(agenda, k) => Kind(k) = "step" /\ v \in {"unloading", "idle"},
           IsNeed(k) => <<stage[k], v>> \in {<<"routed", "queued">>, <<"coming", "attending">>},
           ~IsNeed(k) =>
               /\ stage[k] = "staffing" => v = "working"
               /\ v = "working" => Staffed(k)
               /\ stage[k] = "working" /\ MoversNeedNobody => WorkersOf(k) = {}
    PROVE  IInv'
<1>1. Typed BY DEF IInv, Base
<1>2. \A x \in Requests : <<>> # <<x>> OBVIOUS
<1>3. /\ agenda' \in Seq(Requests \cup {Signal, Loop})
      /\ \A x \in Requests : In(agenda', x) <=> In(agenda, x)
  <2>1. CASE agenda' = agenda BY <2>1, <1>1 DEF Typed
  <2>2. CASE agenda' = Signalled(<<>>)
    <3>1. /\ Signalled(<<>>) \in Seq(Requests \cup {Signal, Loop})
          /\ \A x \in Requests : In(Signalled(<<>>), x) <=> In(agenda, x) \/ <<>> = <<x>>
      BY <1>1, WakesOnly
    <3> QED BY <2>2, <3>1, <1>2
  <2> QED BY <2>1, <2>2
<1> QED BY <1>3, StageKeepsIInv

(* Without needs there is nobody to wait for. *)
LEMMA NobodyNeeded ==
    ASSUME NEW k, NeedsOf(k) = <<>>
    PROVE  WorkersOf(k) = {} /\ Staffed(k)
<1>1. WorkersOf(k) = {} BY DEF WorkersOf
<1> QED BY <1>1 DEF Staffed

(* The steps of a product's process model. *)
LEMMA ModelKeepsIInv ==
    ASSUME DistinctNeeds, IInv, NEW p \in Products, Enter(p) \/ Leave(p)
    PROVE  IInv'
<1> DEFINE k == Model(p)
<1>1. k \in Requests /\ Kind(k) = "model" /\ ItemOf(k) = p /\ ~IsNeed(k) BY Keys DEF IsNeed
<1>2. In(agenda, k) => stage[k] = "left" BY <1>1 DEF IInv, Base, ScheduledEnds
<1>3. NeedsOf(k) = ModelNeeds[p] BY <1>1 DEF NeedsOf
<1> HIDE DEF k
<1>4. CASE Enter(p)
  <2>1. stage[k] = "idle" /\ UNCHANGED <<pending, resource, bound>> /\ agenda' = Signalled(<<>>)
    BY <1>4 DEF Enter, k
  <2>2. CASE ModelNeeds[p] = <<>> /\ stage' = [stage EXCEPT ![k] = "working"]
    <3>1. "working" \in Stages BY DEF Stages, Active
    <3>2. Staffed(k) BY <1>3, <2>2, NobodyNeeded
    <3> QED BY <1>1, <1>2, <2>1, <2>2, <3>1, <3>2, WalkKeepsIInv
  <2>3. CASE stage' = [stage EXCEPT ![k] = "asking"]
    <3>1. "asking" \in Stages BY DEF Stages, Active
    <3> QED BY <1>1, <1>2, <2>1, <2>3, <3>1, WalkKeepsIInv
  <2> QED BY <1>4, <2>2, <2>3 DEF Enter, k
<1>5. CASE Leave(p)
  <2>1. /\ stage[k] = "working" /\ stage' = [stage EXCEPT ![k] = "left"]
        /\ UNCHANGED <<pending, resource, bound>> /\ agenda' = Signalled(<<k>>)
    BY <1>5 DEF Leave, k
  <2>2. "left" \in Stages BY DEF Stages, Active
  <2>3. /\ agenda' \in Seq(Requests \cup {Signal, Loop})
        /\ \A x \in Requests : In(agenda', x) <=> In(agenda, x) \/ <<k>> = <<x>>
    BY <1>1, <2>1, WakesOnly DEF IInv, Base
  <2>4. In(agenda', k) /\ \A x \in Requests : In(agenda', x) <=> In(agenda, x) \/ x = k
    BY <1>1, <2>3
  <2> QED BY <1>1, <2>1, <2>2, <2>3, <2>4, StageKeepsIInv
<1> QED BY <1>4, <1>5

(* A step and its transport are asked for, and come to their places. *)
LEMMA StepKeepsIInv ==
    ASSUME DistinctNeeds, IInv, NEW p \in Products,
           Ask(p) \/ FindPorts(p) \/ Arrived(p) \/ FinishWork(p) \/ Complete(p)
    PROVE  IInv'
<1> DEFINE k == Step(p)
           t == Move(p)
<1>1. /\ k \in Requests /\ Kind(k) = "step" /\ ItemOf(k) = p /\ ~IsNeed(k)
      /\ t \in Requests /\ Kind(t) = "move" /\ ~IsNeed(t)
  BY Keys DEF IsNeed
<1>2. In(agenda, k) => stage[k] \in {"unloading", "idle"} BY <1>1 DEF IInv, Base, ScheduledEnds
<1>3. stage[t] # "idle" => stage[k] = "carried" BY DEF IInv, Base, MovedForStep
<1>4. {"pending", "queued", "carried", "unloading", "idle"} \subseteq Stages BY DEF Stages, Active
<1>5. Move(ItemOf(k)) = t BY <1>1
<1> HIDE DEF k, t
<1>6. CASE Ask(p)
  <2>1. /\ stage[k] = "idle" /\ stage' = [stage EXCEPT ![k] = "pending"]
        /\ ~In(agenda, k) /\ pending' = Append(pending, k) /\ agenda' = Signalled(<<>>)
        /\ UNCHANGED <<resource, bound>>
    BY <1>6 DEF Ask, k, Scheduled, In
  <2> QED BY <1>1, <1>4, <2>1, WalkKeepsIInv
<1>7. CASE Arrived(p)
  <2>1. /\ stage[k] = "carried" /\ stage[t] = "idle" /\ stage' = [stage EXCEPT ![k] = "queued"]
        /\ UNCHANGED <<pending, agenda, resource, bound>>
    BY <1>7 DEF Arrived, k, t
  <2> QED BY <1>1, <1>2, <1>4, <1>5, <2>1, WalkKeepsIInv
<1>8. CASE Complete(p)
  <2>1. /\ stage[k] = "unloading" /\ stage' = [stage EXCEPT ![k] = "idle"]
        /\ UNCHANGED <<pending, resource, bound>> /\ agenda' = Signalled(<<>>)
    BY <1>8 DEF Complete, k
  <2> QED BY <1>1, <1>4, <2>1, WalkKeepsIInv
<1>9. CASE FinishWork(p)
  <2>1. /\ stage[k] = "working" /\ stage' = [stage EXCEPT ![k] = "unloading"]
        /\ UNCHANGED <<pending, resource, bound>> /\ agenda' = Append(agenda, k)
    BY <1>9 DEF FinishWork, k
  <2>2. /\ agenda' \in Seq(Requests \cup {Signal, Loop})
        /\ \A x : In(agenda', x) <=> In(agenda, x) \/ x = k
    <3>1. agenda \in Seq(Requests \cup {Signal, Loop}) /\ k \in Requests \cup {Signal, Loop}
      BY <1>1 DEF IInv, Base, Typed
    <3> QED BY <2>1, <3>1, Appended
  <2> QED BY <1>1, <1>4, <2>1, <2>2, StageKeepsIInv
<1>10. CASE FindPorts(p)
  <2>1. stage[k] = "routed" /\ UNCHANGED <<resource, bound>> BY <1>10 DEF FindPorts, k
  <2>2. CASE stage' = [stage EXCEPT ![k] = "queued"] /\ UNCHANGED <<pending, agenda>>
    BY <1>1, <1>2, <1>4, <2>1, <2>2, WalkKeepsIInv
  <2>3. CASE /\ stage' = [stage EXCEPT ![k] = "carried", ![t] = "pending"]
             /\ pending' = Append(pending, t) /\ agenda' = Signalled(<<>>)
    <3>1. k # t BY <1>1
    <3>2. /\ stage' \in [Requests -> Stages] /\ stage'[k] = "carried" /\ stage'[t] = "pending"
          /\ \A x \in Requests \ {k, t} : stage'[x] = stage[x]
      <4>1. stage \in [Requests -> Stages] BY DEF IInv, Base, Typed
      <4> QED BY <1>1, <1>4, <2>3, <3>1, <4>1
    <3>3. stage[t] = "idle" BY <1>3, <2>1
    <3>4. /\ agenda' \in Seq(Requests \cup {Signal, Loop})
          /\ \A x \in Requests : In(agenda', x) <=> In(agenda, x)
      <4>1. \A x \in Requests : <<>> # <<x>> OBVIOUS
      <4> QED BY <2>3, <4>1, WakesOnly DEF IInv, Base
    <3>5. ~In(pending, t) BY <1>1, <3>3 DEF IInv, Base, ListedPending
    <3>6. /\ pending' \in Seq(Requests) /\ Distinct(pending')
          /\ \A x : In(pending', x) <=> In(pending, x) \/ x = t
      BY <1>1, <2>3, <3>5, Appended DEF IInv, Base, Typed, ListedPending
    <3>7. ListedPending'
      BY <1>1, <2>1, <3>2, <3>6 DEF IInv, Base, ListedPending
    <3>8. MovedForStep'
      <4> SUFFICES ASSUME NEW q \in Products, stage'[Move(q)] # "idle"
                   PROVE  stage'[Step(q)] = "carried"
        BY DEF MovedForStep
      <4>1. CASE q = p BY <4>1, <3>2 DEF k
      <4>2. CASE q # p
        <5>1. /\ Move(q) \in Requests /\ Kind(Move(q)) = "move" /\ ItemOf(Move(q)) = q
              /\ Step(q) \in Requests /\ Kind(Step(q)) = "step" /\ ItemOf(Step(q)) = q
          BY Keys
        <5>2. ItemOf(t) = p BY Keys DEF t
        <5>3. stage'[Move(q)] = stage[Move(q)] /\ stage'[Step(q)] = stage[Step(q)]
          BY <1>1, <3>2, <4>2, <5>1, <5>2
        <5> QED BY <5>3 DEF IInv, Base, MovedForStep
      <4> QED BY <4>1, <4>2
    <3>9. ScheduledEnds' BY <1>1, <2>1, <3>2, <3>3, <3>4 DEF IInv, Base, ScheduledEnds
    <3> HIDE <2>3
    <3> QED BY <1>1, <2>1, <3>2, <3>3, <3>4, <3>6, <3>7, <3>8, <3>9, StagesKeepIInv
  <2> QED BY <1>10, <2>2, <2>3 DEF FindPorts, k, t
<1> QED BY <1>6, <1>7, <1>8, <1>9, <1>10

(* Transports and workers reach their controller, a transport ends, a      *)
(* worker is there, and what was waiting for its workers begins.           *)
LEMMA ArrivalKeepsIInv ==
    ASSUME DistinctNeeds, IInv,
           \/ \E p \in Products : Deliver(p)
           \/ \E k \in Requests : HandOver(k) \/ Attend(k) \/ Begin(k)
    PROVE  IInv'
<1>0. {"queued", "attending", "working", "idle"} \subseteq Stages BY DEF Stages, Active
<1>1. ASSUME NEW p \in Products, Deliver(p) PROVE IInv'
  <2> DEFINE k == Move(p)
  <2>1. k \in Requests /\ Kind(k) = "move" /\ ~IsNeed(k) BY Keys DEF IsNeed
  <2> HIDE DEF k
  <2>2. /\ stage[k] = "working" /\ stage' = [stage EXCEPT ![k] = "idle"]
        /\ UNCHANGED <<pending, resource, bound>> /\ agenda' = Signalled(<<>>)
    BY <1>1 DEF Deliver, k
  <2>3. ~In(agenda, k) BY <2>1 DEF IInv, Base, ScheduledEnds
  <2>4. MoversNeedNobody => WorkersOf(k) = {}
    <3>1. MoversNeedNobody => NeedsOf(k) = <<>>
      BY <2>1, NeedsOfOwner DEF MoversNeedNobody, IInv, Base
    <3> QED BY <3>1, NobodyNeeded
  <2> QED BY <1>0, <2>1, <2>2, <2>3, <2>4, WalkKeepsIInv
<1>2. ASSUME NEW k \in Requests, HandOver(k) PROVE IInv'
  <2>1. /\ stage[k] = "routed" /\ stage' = [stage EXCEPT ![k] = "queued"]
        /\ UNCHANGED <<pending, agenda, resource, bound>>
    BY <1>2 DEF HandOver
  <2>2. ~In(agenda, k) BY <2>1 DEF IInv, Base, ScheduledEnds
  <2> QED BY <1>0, <2>1, <2>2, WalkKeepsIInv
<1>3. ASSUME NEW k \in Requests, Attend(k) PROVE IInv'
  <2>1. /\ stage[k] = "coming" /\ stage' = [stage EXCEPT ![k] = "attending"]
        /\ UNCHANGED <<pending, agenda, resource, bound>>
    BY <1>3 DEF Attend
  <2>2. ~In(agenda, k) BY <2>1 DEF IInv, Base, ScheduledEnds
  <2> QED BY <1>0, <2>1, <2>2, WalkKeepsIInv
<1>4. ASSUME NEW k \in Requests, Begin(k) PROVE IInv'
  <2>1. /\ stage[k] = "staffing" /\ stage' = [stage EXCEPT ![k] = "working"] /\ Staffed(k)
        /\ UNCHANGED <<pending, agenda, resource, bound>>
    BY <1>4 DEF Begin
  <2>2. ~In(agenda, k) /\ ~IsNeed(k)
    BY <2>1 DEF IInv, Base, ScheduledEnds, WorkersHelp
  <2> QED BY <1>0, <2>1, <2>2, WalkKeepsIInv
<1> QED BY <1>1, <1>2, <1>3, <1>4

(* A controller accepts a request; a worker is bound by that, and was free. *)
LEMMA AcceptKeepsIInv ==
    ASSUME DistinctNeeds, IInv, NEW k \in Requests, Accept(k)
    PROVE  IInv'
<1>1. /\ stage[k] = "queued" /\ ~IsBound(resource[k])
      /\ UNCHANGED <<pending, agenda, resource>>
  BY DEF Accept
<1>2. ~In(agenda, k) BY <1>1 DEF IInv, Base, ScheduledEnds
<1>3. CASE ~IsNeed(k)
  <2>1. bound' = bound BY <1>3 DEF Accept, IsNeed
  <2>2. CASE NeedsOf(k) = <<>> /\ stage' = [stage EXCEPT ![k] = "working"]
    <3>1. "working" \in Stages BY DEF Stages, Active
    <3>2. Staffed(k) BY <2>2, NobodyNeeded
    <3> QED BY <1>1, <1>2, <1>3, <2>1, <2>2, <3>1, <3>2, WalkKeepsIInv
  <2>3. CASE stage' = [stage EXCEPT ![k] = "asking"]
    <3>1. "asking" \in Stages BY DEF Stages, Active
    <3> QED BY <1>1, <1>2, <1>3, <2>1, <2>3, <3>1, WalkKeepsIInv
  <2> QED BY <1>3, <2>2, <2>3 DEF Accept, IsNeed
<1>4. CASE IsNeed(k)
  <2> DEFINE w == resource[k]
  <2>1. w \in Workers BY <1>1, <1>4 DEF IInv, Base, RightResources
  <2>2. bound[w] = Free BY <1>1, <2>1 DEF IsBound
  <2>3. stage' = [stage EXCEPT ![k] = "coming"] /\ bound' = [bound EXCEPT ![w] = k]
    BY <1>4 DEF Accept, IsNeed
  <2>4. Typed BY DEF IInv, Base
  <2>5. /\ stage'[k] = "coming" /\ \A x \in Requests \ {k} : stage'[x] = stage[x]
        /\ bound'[w] = k /\ \A v \in Workers \ {w} : bound'[v] = bound[v]
    BY <2>1, <2>3, <2>4 DEF Typed
  <2>6. Typed'
    <3>1. "coming" \in Stages BY DEF Stages, Active
    <3> QED BY <1>1, <2>1, <2>3, <2>4, <3>1 DEF Typed
  <2> HIDE DEF w
  <2>7. \A x : WorkersOf(x)' = WorkersOf(x) BY <1>1, SameWorkers
  <2>8. RightResources'
    <3>1. resource[k] \in Workers BY <2>1 DEF w
    <3> QED BY <1>1, <2>5, <3>1 DEF IInv, Base, RightResources
  <2>9. ListedPending' BY <1>1, <2>5 DEF IInv, Base, ListedPending
  <2>10. MovedForStep'
    <3>1. \A p \in Products : /\ Move(p) \in Requests \ {k} /\ Step(p) \in Requests \ {k}
      BY <1>4, Keys DEF IsNeed
    <3> QED BY <2>5, <3>1 DEF IInv, Base, MovedForStep
  <2>11. ScheduledEnds' BY <1>1, <1>2, <2>5 DEF IInv, Base, ScheduledEnds
  <2>12. WorkersHelp' BY <2>5 DEF IInv, WorkersHelp
  <2>13. Expected' BY <1>1, <1>4, <2>5, <2>7 DEF IInv, Expected
  <2>14. AllThere'
    <3> SUFFICES ASSUME NEW x \in Requests, stage'[x] = "working", NEW n \in WorkersOf(x)
                 PROVE  stage'[n] = "attending"
      BY <2>7 DEF AllThere, Staffed
    <3>1. x # k /\ stage[x] = "working" /\ ~IsNeed(x) BY <2>5 DEF IInv, WorkersHelp
    <3>2. stage[n] = "attending" /\ n \in Requests
      BY <3>1, OneOwner DEF IInv, Base, AllThere, Staffed
    <3> QED BY <1>1, <2>5, <3>2
  <2>15. BoundToRequest'
    <3> SUFFICES ASSUME NEW n \in Requests, IsNeed(n), stage'[n] \in {"coming", "attending"}
                 PROVE  bound'[resource[n]] = n
      BY <1>1 DEF BoundToRequest
    <3>1. CASE n = k BY <2>5, <3>1 DEF w
    <3>2. CASE n # k
      <4>1. stage[n] \in {"coming", "attending"} BY <2>5, <3>2
      <4>2. bound[resource[n]] = n /\ resource[n] \in Workers
        BY <4>1 DEF IInv, Base, BoundToRequest, RightResources
      <4>3. n # Free BY Keys
      <4> QED BY <2>2, <2>5, <4>2, <4>3
    <3> QED BY <3>1, <3>2
  <2>16. ASSUME MoversNeedNobody PROVE BoundForWork'
    <3> SUFFICES ASSUME NEW v \in Workers, bound'[v] # Free
                 PROVE  \E x \in Requests :
                            /\ ~IsNeed(x) /\ bound'[v] \in WorkersOf(x)
                            /\ stage'[x] \in {"staffing", "working"} \/ In(agenda, x)
      BY <1>1, <2>7 DEF BoundForWork
    <3>1. CASE v = w
      <4>1. PICK x \in Requests : ~IsNeed(x) /\ stage[x] = "staffing" /\ k \in WorkersOf(x)
        BY <1>1, <1>4 DEF IInv, Expected
      <4>2. stage'[x] = "staffing" BY <1>1, <2>5, <4>1
      <4> QED BY <2>5, <3>1, <4>1, <4>2
    <3>2. CASE v # w
      <4>1. bound'[v] = bound[v] BY <2>5, <3>2
      <4>2. PICK x \in Requests :
                /\ ~IsNeed(x) /\ bound[v] \in WorkersOf(x)
                /\ stage[x] \in {"staffing", "working"} \/ In(agenda, x)
        BY <2>16, <4>1 DEF IInv, BoundForWork
      <4>3. x # k BY <1>4, <4>2
      <4> QED BY <2>5, <4>1, <4>2, <4>3
    <3> QED BY <3>1, <3>2
  <2> QED BY <2>6, <2>8, <2>9, <2>10, <2>11, <2>12, <2>13, <2>14, <2>15, <2>16 DEF IInv, Base
<1> QED BY <1>3, <1>4

(* A handler asks for its workers: none of them is asked for already. *)
LEMMA AskingKeepsIInv ==
    ASSUME DistinctNeeds, IInv, NEW k \in Requests, RequestWorkers(k)
    PROVE  IInv'
<1> DEFINE list == [i \in DOMAIN NeedsOf(k) |-> Need(ItemOf(k), NeedsOf(k)[i])]
<1>1. /\ stage[k] = "asking" /\ UNCHANGED <<resource, bound>>
      /\ stage' = [n \in Requests |-> IF n = k THEN "staffing"
                                      ELSE IF n \in WorkersOf(k) THEN "pending" ELSE stage[n]]
      /\ pending' = pending \o list
      /\ agenda' = agenda \/ agenda' = Signalled(<<>>)
  BY DEF RequestWorkers, Announced
<1>2. ~IsNeed(k) /\ ~In(agenda, k) BY <1>1 DEF IInv, Base, WorkersHelp, ScheduledEnds
<1>3. Typed /\ RightResources BY DEF IInv, Base
<1>4. \A n \in WorkersOf(k) : n \in Requests /\ IsNeed(n)
  BY <1>2, <1>3, OneOwner
<1>5. ASSUME NEW x \in Requests, ~IsNeed(x), x # k, NEW n \in WorkersOf(x)
      PROVE  n \in Requests /\ IsNeed(n) /\ n \notin WorkersOf(k)
  BY <1>2, <1>3, <1>5, OneOwner
<1>6. /\ stage'[k] = "staffing"
      /\ \A n \in WorkersOf(k) : stage'[n] = "pending"
      /\ \A x \in Requests \ {k} : x \notin WorkersOf(k) => stage'[x] = stage[x]
  BY <1>1, <1>2, <1>4
<1>7. /\ list \in Seq(Requests) /\ Distinct(list)
      /\ \A n : In(list, n) <=> n \in WorkersOf(k)
  <2> DEFINE needs == NeedsOf(k)
  <2>1. needs \in Seq(Dependencies) /\ Distinct(needs)
    <3>1. ItemOf(k) \in Products BY Keys
    <3>2. Distinct(<<>>) BY DEF Distinct
    <3>3. Stations \cup Movers \subseteq Resources BY DEF Resources
    <3> QED BY <1>2, <1>3, <3>1, <3>2, <3>3, NeedsOfOwner DEF DistinctNeeds
  <2>2. ItemOf(k) \in Products BY Keys
  <2>3. list = [i \in DOMAIN needs |-> Need(ItemOf(k), needs[i])] OBVIOUS
  <2>4. WorkersOf(k) = {Need(ItemOf(k), needs[i]) : i \in DOMAIN needs} BY DEF WorkersOf
  <2> HIDE DEF needs, list
  <2>5. DOMAIN needs = 1 .. Len(needs) /\ Len(needs) \in Nat /\ \A i \in DOMAIN needs : needs[i] \in Dependencies
    BY <2>1
  <2>6. \A i \in DOMAIN needs : Need(ItemOf(k), needs[i]) \in Requests BY <2>2, <2>5, Keys
  <2>7. list \in Seq(Requests)
    BY <2>3, <2>5, <2>6
  <2>8. \A n : In(list, n) <=> n \in WorkersOf(k) BY <2>3, <2>4 DEF In
  <2>9. Distinct(list)
    <3> SUFFICES ASSUME NEW i \in DOMAIN list, NEW j \in DOMAIN list, list[i] = list[j] PROVE i = j
      BY DEF Distinct
    <3>1. i \in DOMAIN needs /\ j \in DOMAIN needs
          /\ Need(ItemOf(k), needs[i]) = Need(ItemOf(k), needs[j])
      BY <2>3
    <3>2. needs[i] = needs[j]
      <4>1. \A p, d : DependencyOf(Need(p, d)) = d BY Keys
      <4> QED BY <3>1, <4>1
    <3> QED BY <2>1, <3>1, <3>2 DEF Distinct
  <2> QED BY <2>7, <2>8, <2>9
<1> HIDE DEF list
<1>8. \A n \in WorkersOf(k) : ~In(pending, n)
  <2> SUFFICES ASSUME NEW n \in WorkersOf(k), In(pending, n) PROVE FALSE OBVIOUS
  <2>1. stage[n] = "pending" BY <1>4 DEF IInv, Base, ListedPending
  <2>2. PICK x \in Requests : ~IsNeed(x) /\ stage[x] = "staffing" /\ n \in WorkersOf(x)
    BY <1>4, <2>1 DEF IInv, Expected
  <2>3. x # k BY <1>1, <2>2
  <2> QED BY <1>5, <2>2, <2>3
<1>9. /\ pending' \in Seq(Requests) /\ Distinct(pending')
      /\ \A y : In(pending', y) <=> In(pending, y) \/ y \in WorkersOf(k)
  BY <1>1, <1>7, <1>8, Concatenated DEF IInv, Base, Typed, ListedPending
<1>10. /\ agenda' \in Seq(Requests \cup {Signal, Loop})
       /\ \A x \in Requests : In(agenda', x) <=> In(agenda, x)
  <2>1. \A x \in Requests : <<>> # <<x>> OBVIOUS
  <2>2. CASE agenda' = agenda BY <1>3, <2>2 DEF Typed
  <2>3. CASE agenda' = Signalled(<<>>)
    <3>1. /\ Signalled(<<>>) \in Seq(Requests \cup {Signal, Loop})
          /\ \A x \in Requests : In(Signalled(<<>>), x) <=> In(agenda, x) \/ <<>> = <<x>>
      BY <1>3, WakesOnly
    <3> QED BY <2>1, <2>3, <3>1
  <2> QED BY <1>1, <2>2, <2>3
<1>11. Typed'
  <2>1. {"staffing", "pending"} \subseteq Stages BY DEF Stages, Active
  <2> QED BY <1>1, <1>3, <1>9, <1>10, <2>1 DEF Typed
<1>12. \A x : WorkersOf(x)' = WorkersOf(x) BY <1>1, SameWorkers
<1>13. \A x \in Requests : ~IsNeed(x) /\ x # k => stage'[x] = stage[x] BY <1>4, <1>6
<1>14. RightResources' BY <1>1, <1>2, <1>6 DEF IInv, Base, RightResources
<1>15. ListedPending'
  <2> SUFFICES ASSUME NEW x \in Requests, In(pending', x)
               PROVE  stage'[x] = "pending" /\ Kind(x) # "model"
    BY <1>9 DEF ListedPending
  <2>1. CASE x \in WorkersOf(k) BY <1>4, <1>6, <2>1 DEF IsNeed
  <2>2. CASE x \notin WorkersOf(k)
    <3>1. stage[x] = "pending" /\ Kind(x) # "model" BY <1>9, <2>2 DEF IInv, Base, ListedPending
    <3> QED BY <1>1, <1>6, <2>2, <3>1
  <2> QED BY <2>1, <2>2
<1>16. MovedForStep'
  <2> SUFFICES ASSUME NEW p \in Products, stage'[Move(p)] # "idle"
               PROVE  stage'[Step(p)] = "carried"
    BY DEF MovedForStep
  <2>1. /\ Move(p) \in Requests /\ ~IsNeed(Move(p)) /\ Step(p) \in Requests /\ ~IsNeed(Step(p))
    BY Keys DEF IsNeed
  <2>2. stage[Move(p)] # "idle" BY <1>1, <1>13, <2>1
  <2>3. stage[Step(p)] = "carried" BY <2>2 DEF IInv, Base, MovedForStep
  <2> QED BY <1>1, <1>13, <2>1, <2>3
<1>17. ScheduledEnds'
  <2> SUFFICES ASSUME NEW x \in Requests, In(agenda, x)
               PROVE  \/ Kind(x) = "step" /\ stage'[x] \in {"unloading", "idle"}
                      \/ Kind(x) = "model" /\ stage'[x] = "left"
    BY <1>10 DEF ScheduledEnds
  <2>1. \/ Kind(x) = "step" /\ stage[x] \in {"unloading", "idle"}
        \/ Kind(x) = "model" /\ stage[x] = "left"
    BY DEF IInv, Base, ScheduledEnds
  <2>2. x # k /\ ~IsNeed(x) BY <1>2, <2>1 DEF IsNeed
  <2> QED BY <1>13, <2>1, <2>2
<1>18. WorkersHelp' BY <1>2, <1>6 DEF IInv, WorkersHelp
<1>19. Expected'
  <2> SUFFICES ASSUME NEW n \in Requests, IsNeed(n),
                      stage'[n] \in {"pending", "routed", "queued", "coming"}
               PROVE  \E x \in Requests : ~IsNeed(x) /\ stage'[x] = "staffing" /\ n \in WorkersOf(x)
    BY <1>12 DEF Expected
  <2>1. CASE n \in WorkersOf(k) BY <1>2, <1>6, <2>1
  <2>2. CASE n \notin WorkersOf(k)
    <3>1. stage[n] \in {"pending", "routed", "queued", "coming"} BY <1>2, <1>6, <2>2
    <3>2. PICK x \in Requests : ~IsNeed(x) /\ stage[x] = "staffing" /\ n \in WorkersOf(x)
      BY <3>1 DEF IInv, Expected
    <3> QED BY <1>1, <1>13, <3>2
  <2> QED BY <2>1, <2>2
<1>20. AllThere'
  <2> SUFFICES ASSUME NEW x \in Requests, stage'[x] = "working", NEW n \in WorkersOf(x)
               PROVE  stage'[n] = "attending"
    BY <1>12 DEF AllThere, Staffed
  <2>1. x # k /\ x \notin WorkersOf(k) /\ stage[x] = "working" BY <1>6
  <2>2. ~IsNeed(x) BY <2>1 DEF IInv, WorkersHelp
  <2>3. stage[n] = "attending" BY <2>1 DEF IInv, AllThere, Staffed
  <2>4. n \in Requests /\ n \notin WorkersOf(k) /\ n # k BY <1>2, <1>5, <2>1, <2>2
  <2> QED BY <1>6, <2>3, <2>4
<1>21. BoundToRequest'
  <2> SUFFICES ASSUME NEW n \in Requests, IsNeed(n), stage'[n] \in {"coming", "attending"}
               PROVE  bound[resource[n]] = n
    BY <1>1 DEF BoundToRequest
  <2>1. stage[n] \in {"coming", "attending"} BY <1>2, <1>6
  <2> QED BY <2>1 DEF IInv, BoundToRequest
<1>22. ASSUME MoversNeedNobody PROVE BoundForWork'
  <2> SUFFICES ASSUME NEW w \in Workers, bound[w] # Free
               PROVE  \E x \in Requests :
                          /\ ~IsNeed(x) /\ bound[w] \in WorkersOf(x)
                          /\ stage'[x] \in {"staffing", "working"} \/ In(agenda', x)
    BY <1>1, <1>12 DEF BoundForWork
  <2>1. PICK x \in Requests :
            /\ ~IsNeed(x) /\ bound[w] \in WorkersOf(x)
            /\ stage[x] \in {"staffing", "working"} \/ In(agenda, x)
    BY <1>22 DEF IInv, BoundForWork
  <2>2. x # k BY <1>1, <1>2, <2>1
  <2> QED BY <1>10, <1>13, <2>1, <2>2
<1> QED BY <1>11, <1>14, <1>15, <1>16, <1>17, <1>18, <1>19, <1>20, <1>21, <1>22 DEF IInv, Base

(* The workers of a step or a model that is over are released; those of    *)
(* others stay.                                                            *)
LEMMA ReleaseKeepsIInv ==
    ASSUME DistinctNeeds, IInv, NEW k \in Requests, ReleaseWorkers(k)
    PROVE  IInv'
<1>1. /\ agenda # <<>> /\ Head(agenda) = k /\ agenda' = Tail(agenda)
      /\ bound' = [w \in Workers |-> IF bound[w] \in WorkersOf(k) THEN Free ELSE bound[w]]
      /\ stage' = [n \in Requests |-> IF n \in WorkersOf(k) THEN "idle" ELSE stage[n]]
      /\ UNCHANGED <<pending, resource>>
  BY DEF ReleaseWorkers, Released
<1>2. Typed /\ RightResources BY DEF IInv, Base
<1>3. /\ agenda' \in Seq(Requests \cup {Signal, Loop}) /\ In(agenda, k)
      /\ \A y : In(agenda', y) => In(agenda, y)
      /\ \A y : In(agenda, y) => In(agenda', y) \/ y = k
  BY <1>1, <1>2, TailOf DEF Typed
<1>4. ~IsNeed(k) /\ stage[k] \in {"unloading", "idle", "left"}
  BY <1>3 DEF IInv, Base, ScheduledEnds, IsNeed
<1>5. \A n \in WorkersOf(k) : n \in Requests /\ IsNeed(n) BY <1>2, <1>4, OneOwner
<1>6. ASSUME NEW x \in Requests, ~IsNeed(x), x # k, NEW n \in WorkersOf(x)
      PROVE  n \in Requests /\ IsNeed(n) /\ n \notin WorkersOf(k)
  BY <1>2, <1>4, <1>6, OneOwner
<1>7. /\ \A n \in WorkersOf(k) : stage'[n] = "idle"
      /\ \A x \in Requests : x \notin WorkersOf(k) => stage'[x] = stage[x]
  BY <1>1, <1>5
<1>8. \A x \in Requests : ~IsNeed(x) => stage'[x] = stage[x] BY <1>5, <1>7
<1>9. Typed'
  <2>1. "idle" \in Stages BY DEF Stages
  <2>2. stage' \in [Requests -> Stages] BY <1>1, <1>2, <2>1 DEF Typed
  <2>3. bound' \in [Workers -> Requests \cup {Free}] BY <1>1, <1>2 DEF Typed
  <2> QED BY <1>1, <1>2, <1>3, <2>2, <2>3 DEF Typed
<1>10. \A x : WorkersOf(x)' = WorkersOf(x) BY <1>1, SameWorkers
<1>11. \A n \in Requests : IsNeed(n) /\ stage'[n] # "idle" => n \notin WorkersOf(k) /\ stage'[n] = stage[n]
  BY <1>7
<1>12. RightResources' BY <1>1, <1>11 DEF IInv, Base, RightResources
<1>13. ListedPending'
  <2> SUFFICES ASSUME NEW x \in Requests, In(pending, x)
               PROVE  stage'[x] = "pending" /\ Kind(x) # "model"
    BY <1>1 DEF IInv, Base, ListedPending
  <2>1. stage[x] = "pending" /\ Kind(x) # "model" BY DEF IInv, Base, ListedPending
  <2>2. x \notin WorkersOf(k)
    <3> SUFFICES ASSUME x \in WorkersOf(k) PROVE FALSE OBVIOUS
    <3>1. PICK y \in Requests : ~IsNeed(y) /\ stage[y] = "staffing" /\ x \in WorkersOf(y)
      BY <1>5, <2>1 DEF IInv, Expected
    <3>2. y # k BY <1>4, <3>1
    <3> QED BY <1>6, <3>1, <3>2
  <2> QED BY <1>7, <2>1, <2>2
<1>14. MovedForStep'
  <2>1. \A p \in Products : /\ Move(p) \in Requests /\ ~IsNeed(Move(p))
                            /\ Step(p) \in Requests /\ ~IsNeed(Step(p))
    BY Keys DEF IsNeed
  <2> QED BY <1>8, <2>1 DEF IInv, Base, MovedForStep
<1>15. ScheduledEnds'
  <2> SUFFICES ASSUME NEW x \in Requests, In(agenda', x)
               PROVE  \/ Kind(x) = "step" /\ stage'[x] \in {"unloading", "idle"}
                      \/ Kind(x) = "model" /\ stage'[x] = "left"
    BY DEF ScheduledEnds
  <2>1. \/ Kind(x) = "step" /\ stage[x] \in {"unloading", "idle"}
        \/ Kind(x) = "model" /\ stage[x] = "left"
    BY <1>3 DEF IInv, Base, ScheduledEnds
  <2>2. ~IsNeed(x) BY <2>1 DEF IsNeed
  <2> QED BY <1>8, <2>1, <2>2
<1>16. WorkersHelp' BY <1>11 DEF IInv, WorkersHelp
<1>17. Expected'
  <2> SUFFICES ASSUME NEW n \in Requests, IsNeed(n),
                      stage'[n] \in {"pending", "routed", "queued", "coming"}
               PROVE  \E x \in Requests : ~IsNeed(x) /\ stage'[x] = "staffing" /\ n \in WorkersOf(x)
    BY <1>10 DEF Expected
  <2>1. stage[n] \in {"pending", "routed", "queued", "coming"} BY <1>11
  <2>2. PICK x \in Requests : ~IsNeed(x) /\ stage[x] = "staffing" /\ n \in WorkersOf(x)
    BY <2>1 DEF IInv, Expected
  <2> QED BY <1>8, <2>2
<1>18. AllThere'
  <2> SUFFICES ASSUME NEW x \in Requests, stage'[x] = "working", NEW n \in WorkersOf(x)
               PROVE  stage'[n] = "attending"
    BY <1>10 DEF AllThere, Staffed
  <2>1. x \notin WorkersOf(k) /\ stage[x] = "working" BY <1>7
  <2>2. ~IsNeed(x) BY <2>1 DEF IInv, WorkersHelp
  <2>3. stage[n] = "attending" BY <2>1 DEF IInv, AllThere, Staffed
  <2>4. x # k BY <1>4, <2>1
  <2> QED BY <1>6, <1>7, <2>2, <2>3, <2>4
<1>19. BoundToRequest'
  <2> SUFFICES ASSUME NEW n \in Requests, IsNeed(n), stage'[n] \in {"coming", "attending"}
               PROVE  bound'[resource[n]] = n
    BY <1>1 DEF BoundToRequest
  <2>1. n \notin WorkersOf(k) /\ stage[n] \in {"coming", "attending"} BY <1>11
  <2>2. bound[resource[n]] = n /\ resource[n] \in Workers
    BY <2>1 DEF IInv, Base, BoundToRequest, RightResources
  <2> QED BY <1>1, <2>1, <2>2
<1>20. ASSUME MoversNeedNobody PROVE BoundForWork'
  <2> SUFFICES ASSUME NEW w \in Workers, bound'[w] # Free
               PROVE  \E x \in Requests :
                          /\ ~IsNeed(x) /\ bound'[w] \in WorkersOf(x)
                          /\ stage'[x] \in {"staffing", "working"} \/ In(agenda', x)
    BY <1>10 DEF BoundForWork
  <2>1. bound'[w] = bound[w] /\ bound[w] # Free /\ bound[w] \notin WorkersOf(k) BY <1>1
  <2>2. PICK x \in Requests :
            /\ ~IsNeed(x) /\ bound[w] \in WorkersOf(x)
            /\ stage[x] \in {"staffing", "working"} \/ In(agenda, x)
    BY <1>20, <2>1 DEF IInv, BoundForWork
  <2>3. x # k BY <2>1, <2>2
  <2> QED BY <1>3, <1>8, <2>1, <2>2, <2>3
<1> QED BY <1>9, <1>12, <1>13, <1>14, <1>15, <1>16, <1>17, <1>18, <1>19, <1>20 DEF IInv, Base

-----------------------------------------------------------------------------
(* Every step keeps the invariant. *)
LEMMA NextIInv ==
    ASSUME DistinctNeeds
    PROVE  IInv /\ [Next]_vars => IInv'
<1> SUFFICES ASSUME IInv, [Next]_vars PROVE IInv'
  OBVIOUS
<1>1. agenda \in Seq(Requests \cup {Signal, Loop}) BY DEF IInv, Base, Typed
<1>2. CASE UNCHANGED vars
  BY <1>1, <1>2, EventsKeepIInv DEF vars
<1>3. CASE Router
  <2>1. ASSUME WakeLoop \/ ResumeLoop PROVE IInv'
    <3>1. /\ agenda # <<>> /\ Head(agenda) \in {Signal, Loop}
          /\ agenda' \in {Tail(agenda), Append(Tail(agenda), Loop)}
          /\ UNCHANGED <<pending, stage, resource, bound>>
      BY <2>1 DEF WakeLoop, ResumeLoop
    <3>2. /\ Tail(agenda) \in Seq(Requests \cup {Signal, Loop})
          /\ \A y : In(Tail(agenda), y) => In(agenda, y)
          /\ \A y : In(agenda, y) => In(Tail(agenda), y) \/ y = Head(agenda)
      BY <1>1, <3>1, TailOf
    <3>3. /\ Append(Tail(agenda), Loop) \in Seq(Requests \cup {Signal, Loop})
          /\ \A y : In(Append(Tail(agenda), Loop), y) <=> In(Tail(agenda), y) \/ y = Loop
      <4> DEFINE S == Requests \cup {Signal, Loop}
                 t == Tail(agenda)
      <4>1. t \in Seq(S) /\ Loop \in S BY <3>2
      <4> HIDE DEF S, t
      <4>2. Append(t, Loop) \in Seq(S) /\ \A y : In(Append(t, Loop), y) <=> In(t, y) \/ y = Loop
        BY <4>1, Appended
      <4> QED BY <4>2 DEF S, t
    <3>4. \A x \in Requests : x # Signal /\ x # Loop BY Keys
    <3>5. \A x \in Requests : In(agenda', x) <=> In(agenda, x)
      BY <3>1, <3>2, <3>3, <3>4
    <3> QED BY <3>1, <3>2, <3>3, <3>5, EventsKeepIInv
  <2>2. CASE Sleep BY <1>1, <2>2, EventsKeepIInv DEF Sleep
  <2> QED BY <1>3, <2>1, <2>2, RouteKeepsIInv DEF Router
<1>4. ASSUME NEW p \in Products,
             \/ Enter(p) \/ Ask(p) \/ FindPorts(p) \/ Arrived(p)
             \/ FinishWork(p) \/ Complete(p) \/ Deliver(p) \/ Leave(p)
      PROVE  IInv'
  BY <1>4, ModelKeepsIInv, StepKeepsIInv, ArrivalKeepsIInv
<1>5. ASSUME NEW k \in Requests,
             \/ HandOver(k) \/ Accept(k) \/ RequestWorkers(k)
             \/ Attend(k) \/ Begin(k) \/ ReleaseWorkers(k)
      PROVE  IInv'
  BY <1>5, ArrivalKeepsIInv, AcceptKeepsIInv, AskingKeepsIInv, ReleaseKeepsIInv
<1> QED BY <1>2, <1>3, <1>4, <1>5 DEF Next

(* Work is staffed from its start to its end, whatever the router chooses, *)
(* for products whose needs at one time are told apart by their keys.      *)
THEOREM WorkIsStaffed ==
    ASSUME DistinctNeeds
    PROVE  Spec => []StaffedWork
<1>1. IInv => StaffedWork
  <2> SUFFICES ASSUME IInv, NEW k \in Requests, stage[k] = "working", NEW n \in WorkersOf(k)
               PROVE  stage[n] = "attending" /\ bound[resource[n]] = n
    BY DEF StaffedWork
  <2>1. ~IsNeed(k) /\ stage[n] = "attending" BY DEF IInv, WorkersHelp, AllThere, Staffed
  <2>2. n \in Requests /\ IsNeed(n) BY <2>1, OneOwner DEF IInv, Base
  <2> QED BY <2>1, <2>2 DEF IInv, BoundToRequest
<1> QED BY InitIInv, NextIInv, <1>1, PTL DEF Spec

(* No worker stays bound when the step or the model it came for is over,   *)
(* if moreover movers need nobody: a transport would not give a worker     *)
(* back, as it fires no processing_finished.                               *)
THEOREM WorkersAreReleased ==
    ASSUME DistinctNeeds, MoversNeedNobody
    PROVE  Spec => []NoWorkerKept
<1>1. IInv => NoWorkerKept
  BY DEF IInv, BoundForWork, NoWorkerKept, In, Scheduled
<1> QED BY InitIInv, NextIInv, <1>1, PTL DEF Spec

-----------------------------------------------------------------------------
(* Somebody can do what is asked for: a station every step, a mover every  *)
(* transport, a worker what it is asked for by name.                       *)
EveryoneServable ==
    /\ \A p \in Products : Able[p] # {}
    /\ Movers # {}
    /\ \A d \in Dependencies \cap ByName : Candidates[d] # {}

Awake == routing \/ In(agenda, Signal) \/ In(agenda, Loop)
Overlooked(n) ==
    IsNeed(n) /\ (DependencyOf(n) \notin ByName \/ stage[Model(ItemOf(n))] = "staffing")
OnlyOverlooked == ~Awake => \A n \in Requests : In(pending, n) => Overlooked(n)

(* A product has a step only while its process model is at work. *)
StepInModel == \A p \in Products : stage[Step(p)] # "idle" => stage[Model(p)] = "working"

(* A list that is signalled has an event of the loop on it. *)
LEMMA SignalledWakes ==
    ASSUME Typed, NEW q, q = <<>> \/ \E k \in Requests : q = <<k>>
    PROVE  In(Signalled(q), Signal) \/ In(Signalled(q), Loop)
<1> DEFINE S == Requests \cup {Signal, Loop}
<1>1. q \in Seq(S)
  <2>1. CASE q = <<>> BY <2>1
  <2>2. ASSUME NEW k \in Requests, q = <<k>> PROVE q \in Seq(S) BY <2>2
  <2> QED BY <2>1, <2>2
<1>2. agenda \in Seq(S) BY DEF Typed
<1>3. <<Signal>> \in Seq(S) /\ In(<<Signal>>, Signal) BY DEF In
<1> HIDE DEF S
<1>4. agenda \o q \in Seq(S) /\ \A x : In(agenda \o q, x) <=> In(agenda, x) \/ In(q, x)
  BY <1>1, <1>2, Concatenated
<1>5. \A x : In(agenda \o q \o <<Signal>>, x) <=> In(agenda \o q, x) \/ In(<<Signal>>, x)
  BY <1>3, <1>4, Concatenated
<1>6. CASE Scheduled(Signal) \/ Scheduled(Loop)
  BY <1>4, <1>6 DEF Signalled, Scheduled, In
<1>7. CASE ~(Scheduled(Signal) \/ Scheduled(Loop))
  BY <1>3, <1>5, <1>7 DEF Signalled
<1> QED BY <1>6, <1>7

(* Who is pending for a model that waits is waited for by the model. *)
LEMMA ModelWaits ==
    ASSUME IInv, StepInModel, NEW p \in Products, stage[Model(p)] = "staffing",
           NEW n \in Requests, In(pending, n), IsNeed(n), ItemOf(n) = p
    PROVE  n \in WorkersOf(Model(p)) /\ stage[n] = "pending"
<1>1. stage[n] = "pending" BY DEF IInv, Base, ListedPending
<1>2. PICK k \in Requests : ~IsNeed(k) /\ stage[k] = "staffing" /\ n \in WorkersOf(k)
  BY <1>1 DEF IInv, Expected
<1>3. ItemOf(k) = p BY <1>2, Keys DEF WorkersOf
<1>4. stage[Step(p)] = "idle" BY DEF StepInModel
<1>5. stage[Move(p)] = "idle" BY <1>4 DEF IInv, Base, MovedForStep
<1>6. k = Model(p)
  <2>1. Kind(k) \in {"model", "step", "move"} BY <1>2, Keys DEF IsNeed
  <2> QED BY <1>2, <1>3, <1>4, <1>5, <2>1, Keys
<1> QED BY <1>1, <1>2, <1>6

(* A step that adds nothing to the list, leaves the loop its events and    *)
(* leaves models waiting that have somebody pending.                       *)
LEMMA StaysOverlooked ==
    ASSUME OnlyOverlooked, UNCHANGED pending, Awake => Awake',
           \A p \in Products : stage[Model(p)] = "staffing" =>
               \/ stage'[Model(p)] = "staffing"
               \/ \A n \in Requests : In(pending, n) /\ IsNeed(n) => ItemOf(n) # p
    PROVE  OnlyOverlooked'
<1> SUFFICES ASSUME ~Awake', NEW n \in Requests, In(pending, n)
             PROVE  IsNeed(n) /\ (DependencyOf(n) \notin ByName
                                  \/ stage'[Model(ItemOf(n))] = "staffing")
  BY DEF OnlyOverlooked, Overlooked
<1>1. Overlooked(n) BY DEF OnlyOverlooked
<1>2. ItemOf(n) \in Products BY Keys
<1> QED BY <1>1, <1>2 DEF Overlooked

(* The loop goes to sleep over those it has nobody for. *)
LEMMA LoopOverlooks ==
    ASSUME EveryoneServable, IInv, OnlyOverlooked, Router
    PROVE  OnlyOverlooked'
<1>1. agenda \in Seq(Requests \cup {Signal, Loop}) BY DEF IInv, Base, Typed
<1>2. CASE WakeLoop
  <2>1. agenda # <<>> /\ agenda' = Append(Tail(agenda), Loop) BY <1>2 DEF WakeLoop
  <2>2. In(agenda', Loop)
    <3> DEFINE S == Requests \cup {Signal, Loop}
               t == Tail(agenda)
    <3>1. t \in Seq(S) /\ Loop \in S BY <1>1, <2>1
    <3> HIDE DEF S, t
    <3>2. In(Append(t, Loop), Loop) BY <3>1, Appended
    <3> QED BY <2>1, <3>2 DEF t
  <2> QED BY <2>2 DEF OnlyOverlooked, Awake
<1>3. CASE ResumeLoop \/ Route BY <1>3 DEF ResumeLoop, Route, OnlyOverlooked, Awake
<1>4. CASE Sleep
  <2>1. ASSUME NEW n \in Requests, In(pending, n) PROVE Overlooked(n)
    <3>1. Options(n) = {} BY <1>4, <2>1 DEF Sleep, In
    <3>2. Kind(n) \in {"step", "move", "need"} /\ ItemOf(n) \in Products
      BY <2>1, Keys DEF IInv, Base, ListedPending
    <3>3. Kind(n) = "need"
      BY <3>1, <3>2 DEF Options, EveryoneServable
    <3>4. DependencyOf(n) \in Dependencies BY <3>3, Keys
    <3>5. Options(n) = {w \in Candidates[DependencyOf(n)] :
                           DependencyOf(n) \in ByName \/ bound[w] = Free}
      BY <3>3 DEF Options
    <3>6. DependencyOf(n) \notin ByName BY <3>1, <3>4, <3>5 DEF EveryoneServable
    <3> QED BY <3>3, <3>6 DEF Overlooked, IsNeed
  <2>2. UNCHANGED <<pending, stage>> BY <1>4 DEF Sleep
  <2> QED BY <2>1, <2>2 DEF OnlyOverlooked, Overlooked
<1> QED BY <1>2, <1>3, <1>4 DEF Router

(* Those who ask, and those who go, wake the loop. *)
LEMMA ProductsWake ==
    ASSUME IInv, OnlyOverlooked, NEW p \in Products,
           \/ Enter(p) \/ Ask(p) \/ FindPorts(p) \/ Arrived(p)
           \/ FinishWork(p) \/ Complete(p) \/ Deliver(p) \/ Leave(p)
    PROVE  OnlyOverlooked'
<1>1. agenda \in Seq(Requests \cup {Signal, Loop}) BY DEF IInv, Base, Typed
<1>2. /\ In(Signalled(<<>>), Signal) \/ In(Signalled(<<>>), Loop)
      /\ In(Signalled(<<Model(p)>>), Signal) \/ In(Signalled(<<Model(p)>>), Loop)
  BY SignalledWakes, Keys DEF IInv, Base
<1>3. ASSUME agenda' = Signalled(<<>>) \/ agenda' = Signalled(<<Model(p)>>)
      PROVE  OnlyOverlooked'
  BY <1>2, <1>3 DEF OnlyOverlooked, Awake
<1>4. stage \in [Requests -> Stages] BY DEF IInv, Base, Typed
<1>5. Step(p) \in Requests /\ \A q \in Products : Model(q) \in Requests /\ Model(q) # Step(p)
  BY Keys
<1>6. ASSUME NEW v, stage' = [stage EXCEPT ![Step(p)] = v], UNCHANGED <<pending, routing>>,
             \A x : In(agenda, x) => In(agenda', x)
      PROVE  OnlyOverlooked'
  <2>1. \A q \in Products : stage'[Model(q)] = stage[Model(q)] BY <1>4, <1>5, <1>6
  <2> QED BY <1>6, <2>1, StaysOverlooked DEF Awake
<1>7. CASE Enter(p) \/ Ask(p) \/ Complete(p) \/ Deliver(p) \/ Leave(p)
  BY <1>3, <1>7 DEF Enter, Ask, Complete, Deliver, Leave
<1>8. CASE FindPorts(p)
  <2>1. \/ agenda' = Signalled(<<>>)
        \/ stage' = [stage EXCEPT ![Step(p)] = "queued"] /\ UNCHANGED <<pending, agenda, routing>>
    BY <1>8 DEF FindPorts
  <2> QED BY <1>3, <1>6, <2>1
<1>9. CASE Arrived(p) BY <1>6, <1>9 DEF Arrived
<1>10. CASE FinishWork(p)
  <2>1. agenda' = Append(agenda, Step(p)) BY <1>10 DEF FinishWork
  <2>2. \A x : In(agenda, x) => In(agenda', x)
    <3> DEFINE S == Requests \cup {Signal, Loop}
    <3>1. agenda \in Seq(S) /\ Step(p) \in S BY <1>1, <1>5
    <3> HIDE DEF S
    <3> QED BY <2>1, <3>1, Appended
  <2> QED BY <1>6, <1>10, <2>2 DEF FinishWork
<1> QED BY <1>7, <1>8, <1>9, <1>10

(* A model that begins has nobody pending; workers that a model asks for   *)
(* are overlooked as long as it waits, others wake the loop.               *)
LEMMA HandlersOverlook ==
    ASSUME DistinctNeeds, IInv, StepInModel, OnlyOverlooked, NEW k \in Requests,
           \/ HandOver(k) \/ Accept(k) \/ RequestWorkers(k)
           \/ Attend(k) \/ Begin(k) \/ ReleaseWorkers(k)
    PROVE  OnlyOverlooked'
<1>1. agenda \in Seq(Requests \cup {Signal, Loop}) BY DEF IInv, Base, Typed
<1>2. stage \in [Requests -> Stages] BY DEF IInv, Base, Typed
<1>3. \A q \in Products : Model(q) \in Requests /\ Kind(Model(q)) = "model" /\ ItemOf(Model(q)) = q
  BY Keys
<1>4. ASSUME NEW v, stage[k] # "staffing", stage' = [stage EXCEPT ![k] = v],
             UNCHANGED <<pending, agenda, routing>>
      PROVE  OnlyOverlooked'
  <2>1. \A q \in Products : stage[Model(q)] = "staffing" => stage'[Model(q)] = "staffing"
    BY <1>2, <1>3, <1>4
  <2> QED BY <1>4, <2>1, StaysOverlooked DEF Awake
<1>5. CASE HandOver(k) BY <1>4, <1>5 DEF HandOver
<1>6. CASE Accept(k)
  <2>1. \E v : stage' = [stage EXCEPT ![k] = v] BY <1>6 DEF Accept
  <2> QED BY <1>4, <1>6, <2>1 DEF Accept
<1>7. CASE Attend(k) BY <1>4, <1>7 DEF Attend
<1>8. CASE Begin(k)
  <2>1. /\ stage[k] = "staffing" /\ Staffed(k) /\ stage' = [stage EXCEPT ![k] = "working"]
        /\ UNCHANGED <<pending, agenda, routing>>
    BY <1>8 DEF Begin
  <2>2. ASSUME NEW q \in Products, stage[Model(q)] = "staffing", stage'[Model(q)] # "staffing",
               NEW n \in Requests, In(pending, n), IsNeed(n), ItemOf(n) = q
        PROVE  FALSE
    <3>1. Model(q) = k BY <1>2, <1>3, <2>1, <2>2
    <3>2. n \in WorkersOf(k) /\ stage[n] = "pending" BY <2>2, <3>1, ModelWaits
    <3> QED BY <2>1, <3>2 DEF Staffed
  <2> QED BY <2>1, <2>2, StaysOverlooked DEF Awake
<1>9. CASE ReleaseWorkers(k)
  <2>1. /\ agenda # <<>> /\ Head(agenda) = k /\ agenda' = Tail(agenda)
        /\ stage' = [n \in Requests |-> IF n \in WorkersOf(k) THEN "idle" ELSE stage[n]]
        /\ UNCHANGED <<pending, routing>>
    BY <1>9 DEF ReleaseWorkers
  <2>2. In(agenda, k) /\ \A y : In(agenda, y) => In(agenda', y) \/ y = k
    BY <1>1, <2>1, TailOf
  <2>3. k # Signal /\ k # Loop BY Keys
  <2>4. ~IsNeed(k) BY <2>2 DEF IInv, Base, ScheduledEnds, IsNeed
  <2>5. \A n \in WorkersOf(k) : Kind(n) = "need"
    BY <2>4, OneOwner DEF IInv, Base, IsNeed
  <2>6. \A q \in Products : stage'[Model(q)] = stage[Model(q)] BY <1>3, <2>1, <2>5
  <2> QED BY <2>1, <2>2, <2>3, <2>6, StaysOverlooked DEF Awake
<1>10. CASE RequestWorkers(k)
  <2>1. /\ stage[k] = "asking" /\ UNCHANGED routing
        /\ stage' = [n \in Requests |->
                        IF n = k THEN "staffing"
                        ELSE IF n \in WorkersOf(k) THEN "pending" ELSE stage[n]]
        /\ pending' = pending
             \o [i \in DOMAIN NeedsOf(k) |-> Need(ItemOf(k), NeedsOf(k)[i])]
        /\ agenda' = Announced(k)
    BY <1>10 DEF RequestWorkers
  <2>2. ~IsNeed(k) BY <2>1 DEF IInv, WorkersHelp
  <2>3. CASE Kind(k) # "model"
    <3>1. agenda' = Signalled(<<>>) BY <2>1, <2>3 DEF Announced
    <3> QED BY <3>1, SignalledWakes DEF OnlyOverlooked, Awake, IInv, Base
  <2>4. CASE Kind(k) = "model"
    <3>1. k = Model(ItemOf(k)) /\ ItemOf(k) \in Products BY <2>4, Keys
    <3>2. agenda' = agenda BY <2>1, <2>4 DEF Announced
    <3> DEFINE list == [i \in DOMAIN NeedsOf(k) |-> Need(ItemOf(k), NeedsOf(k)[i])]
    <3>3. NeedsOf(k) \in Seq(Dependencies) BY <2>2, NeedsOfOwner DEF IInv, Base
    <3>4. list \in Seq(Requests)
      <4>1. \A i \in DOMAIN NeedsOf(k) : list[i] \in Requests BY <3>1, <3>3, Keys
      <4>2. DOMAIN NeedsOf(k) = 1 .. Len(NeedsOf(k)) /\ Len(NeedsOf(k)) \in Nat BY <3>3
      <4> QED BY <4>1, <4>2
    <3>5. \A n : In(list, n) => IsNeed(n) /\ ItemOf(n) = ItemOf(k)
      BY <3>1, <3>3, Keys DEF In, IsNeed
    <3> HIDE DEF list
    <3>6. \A n : In(pending', n) <=> In(pending, n) \/ In(list, n)
      <4>1. pending \in Seq(Requests) BY DEF IInv, Base, Typed
      <4>2. pending' = pending \o list BY <2>1 DEF list
      <4> QED BY <3>4, <4>1, <4>2, Concatenated
    <3>7. \A n \in WorkersOf(k) : Kind(n) = "need"
      BY <2>2, OneOwner DEF IInv, Base, IsNeed
    <3>8. \A q \in Products : stage[Model(q)] = "staffing" => stage'[Model(q)] = "staffing"
      BY <1>3, <2>1, <3>7
    <3>9. stage'[Model(ItemOf(k))] = "staffing" BY <2>1, <3>1
    <3>10. ASSUME ~Awake', NEW n \in Requests, In(pending', n)
           PROVE  IsNeed(n) /\ (DependencyOf(n) \notin ByName
                                \/ stage'[Model(ItemOf(n))] = "staffing")
      <4>1. CASE In(list, n) BY <3>5, <3>9, <4>1
      <4>2. CASE In(pending, n)
        <5>1. Overlooked(n) BY <2>1, <3>2, <3>10, <4>2 DEF OnlyOverlooked, Awake
        <5> QED BY <3>8, <5>1, Keys DEF Overlooked
      <4> QED BY <3>6, <3>10, <4>1, <4>2
    <3> QED BY <3>10 DEF OnlyOverlooked, Overlooked
  <2> QED BY <2>3, <2>4
<1> QED BY <1>5, <1>6, <1>7, <1>8, <1>9, <1>10

(* A step begins and ends while its model is at work. *)
LEMMA StepInModelStep ==
    ASSUME DistinctNeeds
    PROVE  IInv /\ StepInModel /\ [Next]_vars => StepInModel'
<1> SUFFICES ASSUME IInv, StepInModel, [Next]_vars PROVE StepInModel' OBVIOUS
<1>1. stage \in [Requests -> Stages] BY DEF IInv, Base, Typed
<1>2. \A q \in Products : /\ Model(q) \in Requests /\ Kind(Model(q)) = "model"
                          /\ Step(q) \in Requests /\ Kind(Step(q)) = "step"
                          /\ Move(q) \in Requests /\ Kind(Move(q)) = "move"
                          /\ ItemOf(Model(q)) = q /\ ItemOf(Step(q)) = q
  BY Keys
<1>3. ASSUME UNCHANGED stage PROVE StepInModel' BY <1>3 DEF StepInModel
<1>4. CASE UNCHANGED vars BY <1>3, <1>4 DEF vars
<1>5. CASE Router
  <2>1. CASE Route
    <3>1. PICK i \in DOMAIN pending : stage' = [stage EXCEPT ![pending[i]] = "routed"]
      BY <2>1 DEF Route
    <3>2. pending[i] \in Requests /\ In(pending, pending[i])
      BY DEF IInv, Base, Typed, In
    <3>3. stage[pending[i]] = "pending" /\ Kind(pending[i]) # "model"
      BY <3>2 DEF IInv, Base, ListedPending
    <3> QED BY <1>1, <1>2, <3>1, <3>2, <3>3 DEF StepInModel
  <2> QED BY <1>3, <1>5, <2>1 DEF Router, WakeLoop, ResumeLoop, Sleep
<1>6. ASSUME NEW p \in Products,
             \/ Enter(p) \/ Ask(p) \/ FindPorts(p) \/ Arrived(p)
             \/ FinishWork(p) \/ Complete(p) \/ Deliver(p) \/ Leave(p)
      PROVE  StepInModel'
  <2>1. CASE Enter(p) \/ Leave(p)
    BY <1>1, <1>2, <2>1 DEF StepInModel, Enter, Leave
  <2>2. CASE Ask(p) \/ Arrived(p) \/ FinishWork(p) \/ Complete(p)
    BY <1>1, <1>2, <2>2 DEF StepInModel, Ask, Arrived, FinishWork, Complete
  <2>3. CASE FindPorts(p)
    BY <1>1, <1>2, <2>3 DEF StepInModel, FindPorts
  <2>4. CASE Deliver(p) BY <1>1, <1>2, <2>4 DEF StepInModel, Deliver
  <2> QED BY <1>6, <2>1, <2>2, <2>3, <2>4
<1>7. ASSUME NEW k \in Requests,
             \/ HandOver(k) \/ Accept(k) \/ RequestWorkers(k)
             \/ Attend(k) \/ Begin(k) \/ ReleaseWorkers(k)
      PROVE  StepInModel'
  <2>1. ASSUME NEW v, stage[k] \notin {"idle", "working"}, stage' = [stage EXCEPT ![k] = v]
        PROVE  StepInModel'
    BY <1>1, <1>2, <2>1 DEF StepInModel
  <2>2. CASE HandOver(k) \/ Attend(k) \/ Begin(k)
    BY <2>1, <2>2 DEF HandOver, Attend, Begin
  <2>3. CASE Accept(k)
    <3>1. \E v : stage' = [stage EXCEPT ![k] = v] BY <2>3 DEF Accept
    <3> QED BY <2>1, <2>3, <3>1 DEF Accept
  <2>4. CASE RequestWorkers(k)
    <3>1. /\ stage[k] = "asking"
          /\ stage' = [n \in Requests |->
                          IF n = k THEN "staffing"
                          ELSE IF n \in WorkersOf(k) THEN "pending" ELSE stage[n]]
      BY <2>4 DEF RequestWorkers
    <3>2. ~IsNeed(k) BY <3>1 DEF IInv, WorkersHelp
    <3>3. \A n \in WorkersOf(k) : Kind(n) = "need" BY <3>2, OneOwner DEF IInv, Base, IsNeed
    <3> QED BY <1>2, <3>1, <3>3 DEF StepInModel
  <2>5. CASE ReleaseWorkers(k)
    <3>1. /\ agenda # <<>> /\ Head(agenda) = k
          /\ stage' = [n \in Requests |-> IF n \in WorkersOf(k) THEN "idle" ELSE stage[n]]
      BY <2>5 DEF ReleaseWorkers
    <3>2. agenda \in Seq(Requests \cup {Signal, Loop}) BY DEF IInv, Base, Typed
    <3>3. In(agenda, k) BY <3>1, <3>2, TailOf
    <3>4. ~IsNeed(k) BY <3>3 DEF IInv, Base, ScheduledEnds, IsNeed
    <3>5. \A n \in WorkersOf(k) : Kind(n) = "need" BY <3>4, OneOwner DEF IInv, Base, IsNeed
    <3> QED BY <1>2, <3>1, <3>5 DEF StepInModel
  <2> QED BY <1>7, <2>2, <2>3, <2>4, <2>5
<1> QED BY <1>4, <1>5, <1>6, <1>7 DEF Next

(* No product is overlooked: when the routing loop sleeps and nothing is   *)
(* about to wake it, only workers are asked for that nobody was free for,  *)
(* or that a process model asked for without a signal.                     *)
THEOREM ProductsAreRouted ==
    ASSUME DistinctNeeds, EveryoneServable
    PROVE  Spec => []ProductsNeverForgotten
<1> DEFINE Inv == IInv /\ StepInModel /\ OnlyOverlooked
<1>1. Init => Inv
  <2> SUFFICES ASSUME Init PROVE Inv OBVIOUS
  <2>1. IInv BY InitIInv
  <2>2. StepInModel BY Keys DEF Init, StepInModel
  <2>3. OnlyOverlooked BY DEF Init, OnlyOverlooked, In
  <2> QED BY <2>1, <2>2, <2>3
<1>2. Inv /\ [Next]_vars => Inv'
  <2> SUFFICES ASSUME Inv, [Next]_vars PROVE Inv' OBVIOUS
  <2>1. IInv' /\ StepInModel' BY NextIInv, StepInModelStep
  <2>2. OnlyOverlooked'
    <3>1. CASE UNCHANGED vars
      BY <3>1 DEF vars, OnlyOverlooked, Overlooked, Awake
    <3> QED BY <3>1, LoopOverlooks, ProductsWake, HandlersOverlook DEF Next
  <2> QED BY <2>1, <2>2
<1>3. Inv => ProductsNeverForgotten
  <2> SUFFICES ASSUME Inv, ~routing, ~Scheduled(Signal), ~Scheduled(Loop), NEW i \in DOMAIN pending
               PROVE  /\ Kind(pending[i]) = "need"
                      /\ \/ DependencyOf(pending[i]) \notin ByName
                         \/ stage[Model(ItemOf(pending[i]))] = "staffing"
    BY DEF ProductsNeverForgotten
  <2>1. ~Awake BY DEF Awake, Scheduled, In
  <2>2. pending[i] \in Requests /\ In(pending, pending[i]) BY DEF IInv, Base, Typed, In
  <2> QED BY <2>1, <2>2 DEF OnlyOverlooked, Overlooked, IsNeed
<1> QED BY <1>1, <1>2, <1>3, PTL DEF Spec
=============================================================================
