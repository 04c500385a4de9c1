------------------------ MODULE ProductReleaseProofs ------------------------
(* Proofs that CONWIP bounds the products that live, that a product is only *)
(* ever missed in the register if two had one ID, when every ID is unique,  *)
(* when simulated time stops, and that the run ends with the schedule.      *)
EXTENDS ProductRelease, FiniteSetTheorems, TLAPS

(* A product is in one place, and its number is one the counter has passed. *)
Typed ==
    /\ system \in Systems /\ counter \in Nat /\ IsFiniteSet(made)
    /\ \A p \in made : p.serial \in Nat /\ p.serial < counter
    /\ ports \subseteq made /\ shop \subseteq made /\ finished \subseteq made
OnePlace ==
    /\ ports \cap shop = {} /\ ports \cap finished = {} /\ shop \cap finished = {}

(* The register holds the live products, if IDs tell them apart. *)
RegisterIsLive == IdsUnique => register = {p.id : p \in Live}

(* A product that is not in the register has lost its ID to another one. *)
RaisesOnlyOnCollision == failed = "raised" => ~IdsUnique

(* The inductive invariant. *)
IInv == Typed /\ OnePlace /\ RegisterIsLive /\ RaisesOnlyOnCollision /\ ConwipRespected

(* The invariant holds at the start. *)
LEMMA InitIInv == Init => IInv
<1> SUFFICES ASSUME Init PROVE IInv
  OBVIOUS
<1>1. Live = {} /\ Cardinality({}) = 0 /\ IsFiniteSet({})
  BY FS_EmptySet DEF Init, Live
<1>2. Typed /\ OnePlace BY <1>1 DEF Init, Typed, OnePlace
<1>3. RegisterIsLive /\ RaisesOnlyOnCollision
  BY <1>1 DEF Init, RegisterIsLive, RaisesOnlyOnCollision
<1>4. ConwipRespected
  <2>1. system \in Systems BY DEF Init
  <2>2. system.conwip \in Nat \/ system.conwip = Unlimited BY <2>1, SystemsAssumption
  <2> QED BY <1>1, <2>2 DEF ConwipRespected
<1> QED BY <1>2, <1>3, <1>4 DEF IInv

(* The register has as many IDs as products live. *)
LEMMA LiveAsRegistered ==
    ASSUME IInv, IdsUnique
    PROVE  IsFiniteSet(Live) /\ IsFiniteSet(register) /\ Cardinality(Live) <= Cardinality(register)
<1>1. IsFiniteSet(Live)
  BY FS_Subset DEF IInv, Typed, Live
<1>2. register = {p.id : p \in Live} BY DEF IInv, RegisterIsLive
<1> DEFINE f == [p \in Live |-> p.id]
<1>3. f \in Surjection(Live, register)
  <2>1. f \in [Live -> register] BY <1>2
  <2>2. \A r \in register : \E p \in Live : f[p] = r BY <1>2
  <2> HIDE DEF f
  <2> QED BY <2>1, <2>2 DEF Surjection
<1>4. f \in Injection(Live, register)
  <2>1. f \in [Live -> register] BY <1>2
  <2>2. \A p, q \in Live : f[p] = f[q] => p = q BY DEF IdsUnique, Live
  <2> HIDE DEF f
  <2> QED BY <2>1, <2>2 DEF Injection, IsInjective
<1> HIDE DEF f
<1>5. IsFiniteSet(register) BY <1>1, <1>3, FS_Surjection
<1> QED BY <1>1, <1>4, <1>5, FS_Injection

(* A new product lives in the place CONWIP leaves. *)
LEMMA CreateKeepsIInv ==
    ASSUME IInv, Running, ~WipFull, NEW s, NEW type, NEW id, Create(s, type, id)
    PROVE  IInv'
<1> DEFINE p == [id |-> NewId(s, type, id), serial |-> counter, source |-> s]
<1>1. /\ made' = made \cup {p} /\ register' = register \cup {p.id} /\ counter' = counter + 2
      /\ ports' \in {ports, ports \cup {p}}
      /\ shop' = shop /\ finished' = finished /\ system' = system /\ failed' = failed
  BY DEF Create, outcome
<1>2. p.serial = counter OBVIOUS
<1> HIDE DEF p
<1>3. counter \in Nat /\ p \notin made
  BY <1>2 DEF IInv, Typed
<1>4. Typed'
  <2>1. IsFiniteSet(made \cup {p}) BY FS_AddElement DEF IInv, Typed
  <2>2. ASSUME NEW q \in made \cup {p} PROVE q.serial \in Nat /\ q.serial < counter + 2
    <3>1. CASE q = p BY <3>1, <1>2, <1>3
    <3>2. CASE q \in made
      <4>1. q.serial \in Nat /\ q.serial < counter BY <3>2 DEF IInv, Typed
      <4> QED BY <4>1, <1>3
    <3> QED BY <3>1, <3>2
  <2>3. counter + 2 \in Nat BY <1>3
  <2> QED BY <1>1, <2>1, <2>2, <2>3 DEF IInv, Typed
<1>5. OnePlace' BY <1>1, <1>3 DEF IInv, Typed, OnePlace
<1>6. Live' = Live \cup {p} /\ p \notin Live
  BY <1>1, <1>3 DEF Live, IInv, Typed
<1>7. IdsUnique' => IdsUnique BY <1>1 DEF IdsUnique
<1>8. RegisterIsLive'
  BY <1>1, <1>6, <1>7 DEF RegisterIsLive, IInv
<1>9. RaisesOnlyOnCollision'
  BY <1>1 DEF RaisesOnlyOnCollision, Running
<1>10. ConwipRespected'
  <2> SUFFICES ASSUME IdsUnique', system.conwip # Unlimited
               PROVE  Cardinality(Live \cup {p}) <= system.conwip
    BY <1>1, <1>6 DEF ConwipRespected
  <2>1. /\ IsFiniteSet(Live) /\ IsFiniteSet(register)
        /\ Cardinality(Live) <= Cardinality(register)
    BY <1>7, LiveAsRegistered
  <2>2. Cardinality(Live) \in Nat /\ Cardinality(register) \in Nat
    BY <2>1, FS_CardinalityType
  <2>3. Cardinality(Live \cup {p}) = Cardinality(Live) + 1
    BY <2>1, <1>6, FS_AddElement
  <2>4. system.conwip \in Nat
    BY SystemsAssumption DEF IInv, Typed
  <2>5. ~(Cardinality(register) >= system.conwip)
    BY DEF WipFull
  <2> QED BY <2>1, <2>2, <2>3, <2>4, <2>5
<1> QED BY <1>4, <1>5, <1>8, <1>9, <1>10 DEF IInv

(* A finished product leaves its place, and the register, to another. *)
LEMMA FinishKeepsIInv ==
    ASSUME IInv, NEW p \in made, Finish(p)
    PROVE  IInv'
<1>1. /\ made' = made /\ register' = register \ {p.id} /\ counter' = counter /\ ports' = ports
      /\ shop' = shop \ {p} /\ finished' = finished \cup {p} /\ system' = system
      /\ p \in shop /\ Running
  BY DEF Finish
<1>2. Typed' BY <1>1 DEF IInv, Typed
<1>3. OnePlace' BY <1>1 DEF IInv, OnePlace
<1>4. Live' = Live \ {p} /\ p \in Live /\ (IdsUnique' <=> IdsUnique)
  BY <1>1 DEF Live, IdsUnique, IInv, OnePlace
<1>5. RegisterIsLive'
  <2> SUFFICES ASSUME IdsUnique PROVE register \ {p.id} = {q.id : q \in Live \ {p}}
    BY <1>1, <1>4 DEF RegisterIsLive
  <2>1. register = {q.id : q \in Live} BY DEF IInv, RegisterIsLive
  <2>2. \A q \in Live : q.id = p.id => q = p BY DEF IdsUnique, Live
  <2> QED BY <2>1, <2>2
<1>6. RaisesOnlyOnCollision'
  <2> SUFFICES ASSUME IdsUnique PROVE failed' # "raised"
    BY <1>4 DEF RaisesOnlyOnCollision
  <2>1. p.id \in register BY <1>4 DEF IInv, RegisterIsLive
  <2>2. failed' = failed BY <2>1 DEF Finish
  <2> QED BY <1>1, <2>2 DEF Running
<1>7. ConwipRespected'
  <2> SUFFICES ASSUME IdsUnique, system.conwip # Unlimited
               PROVE  Cardinality(Live \ {p}) <= system.conwip
    BY <1>1, <1>4 DEF ConwipRespected
  <2>1. Cardinality(Live) <= system.conwip BY DEF IInv, ConwipRespected
  <2>2. IsFiniteSet(Live) BY LiveAsRegistered
  <2>3. Cardinality(Live) \in Nat BY <2>2, FS_CardinalityType
  <2>4. Cardinality(Live \ {p}) = Cardinality(Live) - 1 BY <2>2, <1>4, FS_RemoveElement
  <2>5. system.conwip \in Nat BY SystemsAssumption DEF IInv, Typed
  <2> QED BY <2>1, <2>3, <2>4, <2>5
<1> QED BY <1>2, <1>3, <1>5, <1>6, <1>7 DEF IInv

(* The steps that move a product, or none, change no ID and no life. *)
LEMMA MoveKeepsIInv ==
    ASSUME IInv, UNCHANGED <<system, counter, made, register, finished>>,
           failed' # "raised" \/ failed' = failed,
           Typed', OnePlace'
    PROVE  IInv'
<1>1. Live' = Live /\ (IdsUnique' <=> IdsUnique) BY DEF Live, IdsUnique
<1>2. RegisterIsLive' BY <1>1 DEF IInv, RegisterIsLive
<1>3. RaisesOnlyOnCollision' BY <1>1 DEF IInv, RaisesOnlyOnCollision
<1>4. ConwipRespected' BY <1>1 DEF IInv, ConwipRespected
<1> QED BY <1>2, <1>3, <1>4 DEF IInv

(* Every step keeps the invariant. *)
LEMMA NextIInv == IInv /\ [Next]_vars => IInv'
<1> SUFFICES ASSUME IInv, [Next]_vars PROVE IInv'
  OBVIOUS
<1>1. ASSUME UNCHANGED <<system, products>>, failed' # "raised" \/ failed' = failed
      PROVE  IInv'
  <2>1. Typed' /\ OnePlace' BY <1>1 DEF IInv, Typed, OnePlace, products
  <2>2. UNCHANGED <<system, counter, made, register, finished>> BY <1>1 DEF products
  <2> QED BY <1>1, <2>1, <2>2, MoveKeepsIInv
<1>2. CASE UNCHANGED vars BY <1>1, <1>2 DEF vars, outcome
<1>3. CASE Tick BY <1>1, <1>3 DEF Tick, outcome
<1>4. ASSUME NEW p \in made, Collect(p) PROVE IInv'
  <2>1. Typed' /\ OnePlace' BY <1>4 DEF Collect, IInv, Typed, OnePlace
  <2>2. UNCHANGED <<system, counter, made, register, finished, failed>>
    BY <1>4 DEF Collect, outcome
  <2> QED BY <2>1, <2>2, MoveKeepsIInv
<1>5. ASSUME NEW p \in made, Finish(p) PROVE IInv'
  BY <1>5, FinishKeepsIInv
<1>6. ASSUME NEW s \in AllSources, Turn(s) PROVE IInv'
  BY <1>1, <1>6 DEF Turn, outcome
<1>7. ASSUME NEW s \in AllSources, Lose(s) PROVE IInv'
  BY <1>1, <1>7 DEF Lose, outcome
<1>8. ASSUME NEW s \in AllSources, Hang(s) PROVE IInv'
  BY <1>1, <1>8 DEF Hang
<1>9. ASSUME NEW s \in AllSources, MakeTimed(s) PROVE IInv'
  BY <1>9, CreateKeepsIInv DEF MakeTimed, Due
<1>10. ASSUME NEW s \in AllSources, MakeNext(s) PROVE IInv'
  BY <1>10, CreateKeepsIInv DEF MakeNext, Due
<1>11. ASSUME NEW s \in AllSources, Store(s) PROVE IInv'
  <2>1. PICK p \in made \ (ports \cup shop \cup finished) : ports' = ports \cup {p}
    BY <1>11 DEF Store
  <2>2. UNCHANGED <<system, counter, made, register, shop, finished, failed>>
    BY <1>11 DEF Store, outcome
  <2>3. Typed' /\ OnePlace' BY <2>1, <2>2 DEF IInv, Typed, OnePlace
  <2> QED BY <2>2, <2>3, MoveKeepsIInv
<1>12. CASE Next
  <2>1. CASE Carry BY <2>1, <1>4, <1>5 DEF Carry
  <2>2. ASSUME NEW s \in AllSources, Loop(s) PROVE IInv'
    BY <2>2, <1>6, <1>7, <1>8, <1>9, <1>10, <1>11 DEF Loop
  <2> QED BY <1>12, <1>3, <2>1, <2>2 DEF Next
<1> QED BY <1>2, <1>12

(* However many sources release at one instant, CONWIP bounds the live     *)
(* products as long as IDs tell them apart.                                *)
THEOREM ConwipHolds == Spec => []ConwipRespected
<1>1. IInv => ConwipRespected BY DEF IInv
<1> QED BY InitIInv, NextIInv, <1>1, PTL DEF Spec

(* remove_product finds what it removes, unless two products had one ID.   *)
THEOREM RegisterMissesNone == Spec => []RaisesOnlyOnCollision
<1>1. IInv => RaisesOnlyOnCollision BY DEF IInv
<1> QED BY InitIInv, NextIInv, <1>1, PTL DEF Spec

-----------------------------------------------------------------------------
(* What a source releases, and when two products may get one ID.           *)

(* Every product type has one regular source: two that follow the schedule *)
(* of one type would both release every event of it.                       *)
OneSourcePerType == \A s, t \in Sources : TypeOf[s] = TypeOf[t] => s = t

(* No order source runs beside a schedule: a product it numbers itself may *)
(* get an ID that the schedule gives to another one.                       *)
SchedulesStandAlone == \A y \in Systems : y.schedule = <<>> \/ y.sources \subseteq Sources

(* A system with a schedule has no source that does not follow it.         *)
SchedulesPlanAll ==
    \A y \in Systems : y.schedule = <<>> \/
        \A s \in y.sources :
            /\ s \in Sources
            /\ \E i \in DOMAIN y.schedule : Type(y.schedule[i].product) = TypeOf[s]

(* The events of a source are events of the schedule, of its type. *)
LEMMA OwnEventsOfType ==
    ASSUME system \in Systems, NEW s, NEW i \in OwnEvents(s)
    PROVE  /\ schedule[i].product \in Scheduled
           /\ Type(schedule[i].product) = TypeOf[s]
           /\ schedule[i].product # NoId
  BY SystemsAssumption DEF OwnEvents, Scheduled, schedule

(* A source whose type is in the schedule follows it. *)
LEMMA FollowsItsType ==
    ASSUME NEW s \in Sources,
           NEW k \in DOMAIN schedule, Type(schedule[k].product) = TypeOf[s]
    PROVE  Follows(s)
  BY DEF Follows, OwnEvents

(* What is due at a source that follows the schedule *)
LEMMA ReleaseOwnType ==
    ASSUME system \in Systems, NEW s, Follows(s), NEW i \in DOMAIN Releases(s)
    PROVE  /\ Releases(s)[i].id \in Scheduled
           /\ Type(Releases(s)[i].id) = TypeOf[s]
           /\ Releases(s)[i].id # NoId
           /\ Releases(s)[i].type = TypeOf[s]
<1>1. s \notin OrderSources BY SourcesAssumption DEF Follows
<1>2. i \in OwnEvents(s)
      /\ Releases(s)[i] = [time |-> schedule[i].time,
                           type |-> Type(schedule[i].product),
                           id |-> schedule[i].product]
  BY <1>1 DEF Releases
<1> QED BY <1>2, OwnEventsOfType

(* Without a schedule, no order prescribes an ID. *)
LEMMA OrdersNumberThemselves ==
    ASSUME NEW s \in OrderSources, schedule = <<>>, NEW i \in DOMAIN Releases(s)
    PROVE  Releases(s)[i].id = NoId
<1>1. \A item : Prescribed(s, item) = {} BY DEF Prescribed
<1>2. i \in DOMAIN Items(s) BY DEF Releases
<1> DEFINE it == Items(s)[i]
<1>3. Releases(s)[i] = [time |-> it.time, type |-> it.type,
                        id |-> IF Prescribed(s, it) = {} THEN NoId
                               ELSE CHOOSE id \in Prescribed(s, it) : TRUE]
  BY <1>2 DEF Releases
<1> HIDE DEF it
<1> QED BY <1>1, <1>3

(* What is to be released depends on the system alone. *)
LEMMA SameReleases ==
    ASSUME UNCHANGED system, NEW s
    PROVE  /\ schedule' = schedule /\ Scheduled' = Scheduled /\ Expected' = Expected
           /\ Follows(s)' = Follows(s) /\ Timed(s)' = Timed(s)
           /\ Releases(s)' = Releases(s)
<1>1. schedule' = schedule BY DEF schedule
<1>2. Scheduled' = Scheduled BY <1>1 DEF Scheduled
<1>3. OwnEvents(s)' = OwnEvents(s) BY <1>1 DEF OwnEvents
<1>4. Items(s)' = Items(s) BY DEF Items
<1>5. \A i, o : Matched(s, i, o)' = Matched(s, i, o)
  BY <1>1 DEF Matched, Fits
<1>6. ASSUME NEW item PROVE Prescribed(s, item)' = Prescribed(s, item)
  BY <1>1 DEF Prescribed, Matched, Fits, schedule
<1>7. Releases(s)' = Releases(s) BY <1>1, <1>3, <1>4, <1>6 DEF Releases
<1> QED BY <1>1, <1>2, <1>3, <1>7 DEF Expected, Follows, Timed

(* A loop that sleeps is at the next product it has to release; products   *)
(* have the ID of the schedule or of the counter, and a source of the      *)
(* schedule releases no product twice.                                     *)
Loops ==
    /\ pc \in [AllSources -> {"turning", "asleep", "storing", "ended"}]
    /\ index = [s \in AllSources |-> index[s]]
    /\ \A s \in AllSources : pc[s] # "ended" => s \in system.sources
AtNext == \A s \in AllSources : pc[s] = "asleep" /\ ~Timed(s) => index[s] \in Open(s)

NamedBy(p) ==
    /\ p.source \in AllSources /\ p.source \in system.sources
    /\ Follows(p.source) => p.id \in Scheduled /\ Type(p.id) = TypeOf[p.source]
    /\ Timed(p.source) => p.id = <<TypeOf[p.source], p.serial>>
    /\ p.source \in OrderSources /\ schedule = <<>> => p.id[2] = p.serial
Named == \A p \in made : NamedBy(p)
Numbered == \A p, q \in made : p.serial = q.serial => p = q
ReleasedOnce ==
    \A p, q \in made : Follows(p.source) /\ p.source = q.source /\ p.id = q.id => p = q
Registered == register \subseteq {p.id : p \in made}

CInv == Loops /\ AtNext /\ Named /\ Numbered /\ ReleasedOnce /\ Registered

LEMMA InitCInv == Init => CInv
<1> SUFFICES ASSUME Init PROVE CInv
  OBVIOUS
<1>1. /\ made = {} /\ register = {} /\ index = [s \in AllSources |-> 1]
      /\ pc = [s \in AllSources |-> IF s \in system.sources THEN "turning" ELSE "ended"]
  BY DEF Init
<1>2. Loops BY <1>1 DEF Loops
<1>3. AtNext BY <1>1 DEF AtNext
<1>4. Named /\ Numbered /\ ReleasedOnce /\ Registered
  BY <1>1 DEF Named, Numbered, ReleasedOnce, Registered
<1> QED BY <1>2, <1>3, <1>4 DEF CInv

(* A new product is named by its source, and by nothing before.            *)
LEMMA CreateKeepsCInv ==
    ASSUME IInv, CInv, NEW s \in AllSources, pc[s] = "asleep",
           NEW type, NEW id, Create(s, type, id),
           \/ Timed(s) /\ type = TypeOf[s] /\ id = NoId
           \/ ~Timed(s) /\ id = Releases(s)[index[s]].id,
           index' = [t \in AllSources |-> index'[t]],
           \A t \in AllSources \ {s} : index'[t] = index[t]
    PROVE  CInv'
<1> DEFINE p == [id |-> NewId(s, type, id), serial |-> counter, source |-> s]
<1>1. /\ made' = made \cup {p} /\ register' = register \cup {p.id} /\ system' = system
      /\ pc' \in {[pc EXCEPT ![s] = "turning"], [pc EXCEPT ![s] = "storing"]}
  BY DEF Create, outcome
<1>2. p.serial = counter /\ p.source = s /\ p.id = NewId(s, type, id) OBVIOUS
<1> HIDE DEF p
<1>3. \A t : /\ Follows(t)' = Follows(t) /\ Timed(t)' = Timed(t) /\ Releases(t)' = Releases(t)
  BY <1>1, SameReleases
<1>4. schedule' = schedule /\ Scheduled' = Scheduled BY <1>1, SameReleases
<1>5. system \in Systems BY DEF IInv, Typed
<1>6. s \in system.sources BY DEF CInv, Loops
<1>7. Loops' BY <1>1, <1>6 DEF CInv, Loops
<1>8. AtNext'
  <2> SUFFICES ASSUME NEW t \in AllSources, pc'[t] = "asleep", ~Timed(t)
               PROVE  index'[t] \in Open(t)'
    BY <1>3 DEF AtNext
  <2>1. t # s /\ pc[t] = "asleep" BY <1>1 DEF CInv, Loops
  <2>2. index'[t] = index[t] /\ index[t] \in Open(t) BY <2>1 DEF CInv, AtNext
  <2>3. Released(t)' = Released(t) BY <1>1, <1>2, <2>1 DEF Released
  <2> QED BY <1>3, <2>2, <2>3 DEF Open
<1>9. Follows(s) => /\ p.id \in Scheduled /\ Type(p.id) = TypeOf[s]
                    /\ p.id \notin Released(s)
  <2> SUFFICES ASSUME Follows(s)
               PROVE  p.id \in Scheduled /\ Type(p.id) = TypeOf[s] /\ p.id \notin Released(s)
    OBVIOUS
  <2>1. ~Timed(s) BY DEF Timed
  <2>2. index[s] \in Open(s) BY <2>1 DEF CInv, AtNext
  <2>3. index[s] \in DOMAIN Releases(s) /\ Releases(s)[index[s]].id \notin Released(s)
    BY <2>2 DEF Open
  <2>4. id \in Scheduled /\ Type(id) = TypeOf[s] /\ id # NoId
    BY <1>5, <2>1, <2>3, ReleaseOwnType
  <2> QED BY <1>2, <2>1, <2>3, <2>4 DEF NewId
<1>10. NamedBy(p)
  <2>1. Timed(s) => p.id = <<TypeOf[s], p.serial>> BY <1>2 DEF NewId
  <2>2. ASSUME s \in OrderSources, schedule = <<>> PROVE p.id[2] = p.serial
    <3>1. ~Timed(s) BY <2>2, SourcesAssumption DEF Timed
    <3>2. index[s] \in DOMAIN Releases(s) BY <3>1 DEF CInv, AtNext, Open
    <3>3. id = NoId BY <2>2, <3>1, <3>2, OrdersNumberThemselves
    <3>4. p.id = <<type, counter>> BY <1>2, <3>3 DEF NewId
    <3> QED BY <1>2, <3>4
  <2> QED BY <1>2, <1>6, <1>9, <2>1, <2>2 DEF NamedBy
<1>11. Named'
  <2> SUFFICES ASSUME NEW q \in made \cup {p} PROVE NamedBy(q)'
    BY <1>1 DEF Named
  <2>1. NamedBy(q) BY <1>10 DEF CInv, Named
  <2> QED BY <1>1, <1>3, <1>4, <2>1 DEF NamedBy
<1>12. Numbered'
  <2>1. \A q \in made : q.serial # p.serial BY <1>2 DEF IInv, Typed
  <2> QED BY <1>1, <2>1 DEF CInv, Numbered
<1>13. ReleasedOnce'
  <2>1. ASSUME NEW q \in made, Follows(s), q.source = s PROVE q.id # p.id
    <3>1. q.id \in Released(s) BY <2>1 DEF Released, Follows
    <3> QED BY <1>9, <2>1, <3>1
  <2> SUFFICES ASSUME NEW q \in made \cup {p}, NEW r \in made \cup {p},
                      Follows(q.source), q.source = r.source, q.id = r.id
               PROVE  q = r
    BY <1>1, <1>3 DEF ReleasedOnce
  <2>2. CASE q \in made /\ r \in made BY <2>2 DEF CInv, ReleasedOnce
  <2>3. CASE q = p \/ r = p BY <1>2, <2>1, <2>3
  <2> QED BY <2>2, <2>3
<1>14. Registered' BY <1>1 DEF CInv, Registered
<1> QED BY <1>7, <1>8, <1>11, <1>12, <1>13, <1>14 DEF CInv

(* What makes no product keeps the names of all. *)
LEMMA MoveKeepsCInv ==
    ASSUME CInv, UNCHANGED <<system, counter, made>>, register' \subseteq register,
           Loops', AtNext'
    PROVE  CInv'
<1>1. \A t : Follows(t)' = Follows(t) /\ Timed(t)' = Timed(t) BY SameReleases
<1>2. schedule' = schedule /\ Scheduled' = Scheduled BY SameReleases
<1>3. Named'
  <2>1. ASSUME NEW q \in made PROVE NamedBy(q)'
    <3>1. NamedBy(q) BY DEF CInv, Named
    <3> QED BY <1>1, <1>2, <3>1 DEF NamedBy
  <2> QED BY <2>1 DEF Named
<1>4. Numbered' /\ ReleasedOnce' /\ Registered'
  BY <1>1 DEF CInv, Numbered, ReleasedOnce, Registered
<1> QED BY <1>3, <1>4 DEF CInv

(* A loop that neither turns nor wakes stays where it is. *)
LEMMA SleepersStay ==
    ASSUME CInv, UNCHANGED <<system, made, index>>,
           pc' \in [AllSources -> {"turning", "asleep", "storing", "ended"}],
           \A s \in AllSources : pc'[s] # pc[s] => pc'[s] # "asleep" /\ pc[s] # "ended"
    PROVE  Loops' /\ AtNext'
<1>1. Loops' BY DEF CInv, Loops
<1>2. AtNext'
  <2> SUFFICES ASSUME NEW t \in AllSources, pc'[t] = "asleep", ~Timed(t)'
               PROVE  index'[t] \in Open(t)'
    BY DEF AtNext
  <2>1. Releases(t)' = Releases(t) /\ Timed(t)' = Timed(t) BY SameReleases
  <2>2. index[t] \in Open(t) BY <2>1 DEF CInv, AtNext
  <2>3. Released(t)' = Released(t) BY DEF Released
  <2> QED BY <2>1, <2>2, <2>3 DEF Open
<1> QED BY <1>1, <1>2

(* The loop turns to the next product it may release, if there is one. *)
LEMMA TurnKeepsCInv ==
    ASSUME CInv, NEW s \in AllSources, Turn(s)
    PROVE  CInv'
<1>1. /\ pc[s] = "turning" /\ UNCHANGED <<system, made, counter, register>>
      /\ \/ pc' = [pc EXCEPT ![s] = "asleep"] /\ NextTimes(s) # {}
         \/ pc' = [pc EXCEPT ![s] = "ended"]
      /\ index' = IF Open(s) = {} THEN index
                  ELSE [index EXCEPT ![s] = CHOOSE i \in Open(s) : IsNext(s, i)]
  BY DEF Turn, products
<1>2. \A t : Releases(t)' = Releases(t) /\ Timed(t)' = Timed(t) BY <1>1, SameReleases
<1>3. \A t : Released(t)' = Released(t) BY <1>1 DEF Released
<1>4. Loops'
  <2>1. CASE Open(s) = {} BY <1>1, <2>1 DEF CInv, Loops
  <2>2. CASE Open(s) # {}
    <3> DEFINE n == CHOOSE i \in Open(s) : IsNext(s, i)
    <3>1. index' = [index EXCEPT ![s] = n] BY <1>1, <2>2
    <3> HIDE DEF n
    <3> QED BY <1>1, <3>1 DEF CInv, Loops
  <2> QED BY <2>1, <2>2
<1>5. AtNext'
  <2> SUFFICES ASSUME NEW t \in AllSources, pc'[t] = "asleep", ~Timed(t)
               PROVE  index'[t] \in Open(t)'
    BY <1>2 DEF AtNext
  <2>1. CASE t # s
    <3>1. pc[t] = "asleep" /\ index'[t] = index[t] BY <1>1, <2>1 DEF CInv, Loops
    <3>2. index[t] \in Open(t) BY <3>1 DEF CInv, AtNext
    <3> QED BY <1>2, <1>3, <3>1, <3>2 DEF Open
  <2>2. CASE t = s
    <3>1. NextTimes(s) # {} BY <1>1, <2>2 DEF CInv, Loops
    <3>2. \E k \in Open(s) : IsNext(s, k) BY <2>2, <3>1 DEF NextTimes
    <3> DEFINE n == CHOOSE i \in Open(s) : IsNext(s, i)
    <3>3. n \in Open(s) /\ IsNext(s, n) BY <3>2
    <3>4. index'[s] = n BY <1>1, <3>2 DEF CInv, Loops
    <3> HIDE DEF n
    <3>5. n <= n BY <3>3 DEF IsNext
    <3>6. n \in DOMAIN Releases(s) /\ Releases(s)[n].id \notin Released(s)
      BY <3>3 DEF Open
    <3> QED BY <1>2, <1>3, <2>2, <3>4, <3>5, <3>6 DEF Open
  <2> QED BY <2>1, <2>2
<1> QED BY <1>1, <1>4, <1>5, MoveKeepsCInv

(* Every step keeps the names. *)
LEMMA NextCInv == IInv /\ CInv /\ [Next]_vars => CInv'
<1> SUFFICES ASSUME IInv, CInv, [Next]_vars PROVE CInv'
  OBVIOUS
<1> DEFINE Phases == {"turning", "asleep", "storing", "ended"}
<1>1. pc \in [AllSources -> Phases] BY DEF CInv, Loops
<1>2. ASSUME UNCHANGED <<system, counter, made, index, pc>>, register' \subseteq register
      PROVE  CInv'
  BY <1>1, <1>2, SleepersStay, MoveKeepsCInv
<1>3. CASE UNCHANGED vars BY <1>2, <1>3 DEF vars, loops, products
<1>4. CASE Tick BY <1>2, <1>4 DEF Tick, loops, products
<1>5. ASSUME NEW p \in made, Collect(p) PROVE CInv'
  BY <1>2, <1>5 DEF Collect, loops
<1>6. ASSUME NEW p \in made, Finish(p) PROVE CInv'
  BY <1>2, <1>6 DEF Finish, loops
<1>7. ASSUME NEW s \in AllSources, Lose(s) PROVE CInv'
  <2>1. pc[s] = "asleep" /\ pc' = [pc EXCEPT ![s] = "turning"]
        /\ UNCHANGED <<system, counter, made, index, register>>
    BY <1>7 DEF Lose, Due, products
  <2> QED BY <1>1, <2>1, SleepersStay, MoveKeepsCInv
<1>8. ASSUME NEW s \in AllSources, Hang(s) PROVE CInv'
  BY <1>2, <1>8 DEF Hang, loops, products
<1>9. ASSUME NEW s \in AllSources, MakeTimed(s) PROVE CInv'
  <2>1. Timed(s) /\ pc[s] = "asleep" /\ Create(s, TypeOf[s], NoId) /\ index' = index
    BY <1>9 DEF MakeTimed, Due
  <2>2. index = [t \in AllSources |-> index[t]] BY DEF CInv, Loops
  <2> QED BY <2>1, <2>2, CreateKeepsCInv
<1>10. ASSUME NEW s \in AllSources, MakeNext(s) PROVE CInv'
  <2> DEFINE next == Releases(s)[index[s]]
  <2>1. ~Timed(s) /\ pc[s] = "asleep" /\ Create(s, next.type, next.id)
        /\ index' = [index EXCEPT ![s] = @ + 1]
    BY <1>10 DEF MakeNext, Due
  <2>2. index' = [t \in AllSources |-> index'[t]]
        /\ \A t \in AllSources \ {s} : index'[t] = index[t]
    BY <2>1 DEF CInv, Loops
  <2> QED BY <2>1, <2>2, CreateKeepsCInv
<1>11. ASSUME NEW s \in AllSources, Store(s) PROVE CInv'
  <2>1. pc[s] = "storing" /\ pc' = [pc EXCEPT ![s] = "turning"]
        /\ UNCHANGED <<system, counter, made, index, register>>
    BY <1>11 DEF Store
  <2> QED BY <1>1, <2>1, SleepersStay, MoveKeepsCInv
<1>12. ASSUME NEW s \in AllSources, Loop(s) PROVE CInv'
  BY <1>12, <1>7, <1>8, <1>9, <1>10, <1>11, TurnKeepsCInv DEF Loop
<1> QED BY <1>3, <1>4, <1>5, <1>6, <1>12 DEF Next, Carry

(* Two products have one ID only if a schedule and another source gave it. *)
LEMMA NamesAreUnique ==
    ASSUME OneSourcePerType, SchedulesStandAlone, IInv, CInv
    PROVE  IdsUnique
<1> SUFFICES ASSUME NEW p \in made, NEW q \in made, p.id = q.id PROVE p = q
  BY DEF IdsUnique
<1>1. NamedBy(p) /\ NamedBy(q) BY DEF CInv, Named
<1>2. p.serial = q.serial => p = q BY DEF CInv, Numbered
<1>3. p.source \in Sources \cup OrderSources /\ q.source \in Sources \cup OrderSources
  BY <1>1 DEF NamedBy, AllSources
<1>4. system \in Systems BY DEF IInv, Typed
<1>5. ASSUME NEW r \in {p, q}, r.source \in Sources, ~Follows(r.source)
      PROVE  r.id = <<TypeOf[r.source], r.serial>>
  BY <1>1, <1>5 DEF NamedBy, Timed
<1>6. CASE schedule = <<>>
  <2>1. \A s : ~Follows(s)
    <3> SUFFICES ASSUME NEW s, Follows(s) PROVE FALSE OBVIOUS
    <3>1. PICK i \in OwnEvents(s) : TRUE BY DEF Follows
    <3>2. schedule[i].product \in Scheduled BY <1>4, OwnEventsOfType
    <3> QED BY <1>6, <3>2 DEF Scheduled
  <2>2. ASSUME NEW r \in {p, q} PROVE r.id[2] = r.serial
    <3>1. CASE r.source \in Sources BY <1>5, <2>1, <3>1
    <3>2. CASE r.source \in OrderSources BY <1>1, <1>6, <3>2 DEF NamedBy
    <3> QED BY <1>3, <3>1, <3>2
  <2> QED BY <1>2, <2>2
<1>7. CASE schedule # <<>>
  <2>1. p.source \in Sources /\ q.source \in Sources
    BY <1>1, <1>4, <1>7 DEF SchedulesStandAlone, NamedBy, schedule
  <2>2. ASSUME NEW r \in {p, q} PROVE Type(r.id) = TypeOf[r.source]
    <3>1. CASE Follows(r.source) BY <1>1, <3>1 DEF NamedBy
    <3>2. CASE ~Follows(r.source) BY <1>5, <2>1, <3>2 DEF Type
    <3> QED BY <3>1, <3>2
  <2>3. p.source = q.source BY <2>1, <2>2 DEF OneSourcePerType
  <2>4. CASE Follows(p.source) BY <2>3, <2>4 DEF CInv, ReleasedOnce
  <2>5. CASE ~Follows(p.source)
    <3>1. p.id = <<TypeOf[p.source], p.serial>> /\ q.id = <<TypeOf[q.source], q.serial>>
      BY <1>5, <2>1, <2>3, <2>5
    <3>2. <<TypeOf[p.source], p.serial>> = <<TypeOf[q.source], q.serial>> BY <3>1
    <3>3. p.serial = q.serial BY ONLY <3>2
    <3> QED BY <1>2, <3>3
  <2> QED BY <2>4, <2>5
<1> QED BY <1>6, <1>7

(* Every product has an ID of its own, and remove_product finds it, when   *)
(* no type has two regular sources and no order source runs beside a       *)
(* schedule.                                                               *)
THEOREM IdsAreUnique ==
    ASSUME OneSourcePerType, SchedulesStandAlone
    PROVE  Spec => []EveryIdUnique
<1>1. IInv /\ CInv => EveryIdUnique
  BY NamesAreUnique DEF IInv, RaisesOnlyOnCollision, EveryIdUnique
<1> QED BY InitIInv, InitCInv, NextIInv, NextCInv, <1>1, PTL DEF Spec

-----------------------------------------------------------------------------
(* Where simulated time stops.                                             *)

(* The products the schedule names are finitely many. *)
LEMMA ScheduledFinite ==
    ASSUME system \in Systems
    PROVE  IsFiniteSet(Scheduled) /\ Expected \in Nat
<1>1. schedule \in Seq({schedule[i] : i \in DOMAIN schedule}) BY SystemsAssumption DEF schedule
<1>2. DOMAIN schedule = 1 .. Len(schedule) /\ Len(schedule) \in Nat BY <1>1
<1>3. IsFiniteSet(DOMAIN schedule) BY <1>2, FS_Interval
<1> DEFINE f == [i \in DOMAIN schedule |-> schedule[i].product]
<1>4. f \in Surjection(DOMAIN schedule, Scheduled)
  <2>1. f \in [DOMAIN schedule -> Scheduled] BY DEF Scheduled
  <2>2. \A x \in Scheduled : \E i \in DOMAIN schedule : f[i] = x BY DEF Scheduled
  <2> HIDE DEF f
  <2> QED BY <2>1, <2>2 DEF Surjection
<1> HIDE DEF f
<1>5. IsFiniteSet(Scheduled) BY <1>3, <1>4, FS_Surjection
<1> QED BY <1>5, FS_CardinalityType DEF Expected

(* Of what a schedule plans, the release that is due is not in the register *)
(* yet: where the register is full there are more products than places.     *)
LEMMA FullMeansCrowded ==
    ASSUME OneSourcePerType, IInv, CInv, NEW s \in AllSources, pc[s] = "asleep", Follows(s),
           WipFull, \A t \in system.sources : Follows(t)
    PROVE  Expected > system.conwip
<1>1. system \in Systems BY DEF IInv, Typed
<1> DEFINE n == Releases(s)[index[s]].id
<1>2. n \in Scheduled /\ Type(n) = TypeOf[s] /\ n \notin Released(s)
  <2>1. index[s] \in Open(s) BY DEF CInv, AtNext, Timed
  <2>2. index[s] \in DOMAIN Releases(s) /\ n \notin Released(s) BY <2>1 DEF Open
  <2> QED BY <1>1, <2>2, ReleaseOwnType
<1>3. s \in Sources BY DEF Follows
<1> HIDE DEF n
<1>4. ASSUME NEW r \in register PROVE r \in Scheduled /\ r # n
  <2>1. PICK p \in made : r = p.id BY <1>4 DEF CInv, Registered
  <2>2. NamedBy(p) BY DEF CInv, Named
  <2>3. Follows(p.source) /\ r \in Scheduled /\ Type(r) = TypeOf[p.source]
    BY <2>1, <2>2 DEF NamedBy
  <2>4. ASSUME r = n PROVE FALSE
    <3>1. p.source = s BY <1>2, <1>3, <2>3, <2>4 DEF OneSourcePerType, Follows
    <3>2. r \in Released(s) BY <1>3, <2>1, <3>1 DEF Released
    <3> QED BY <1>2, <2>4, <3>2
  <2> QED BY <2>3, <2>4
<1>5. IsFiniteSet(Scheduled) /\ Expected \in Nat BY <1>1, ScheduledFinite
<1>6. IsFiniteSet(Scheduled \ {n}) /\ Cardinality(Scheduled \ {n}) = Expected - 1
  BY <1>2, <1>5, FS_RemoveElement DEF Expected
<1>7. register \subseteq Scheduled \ {n} BY <1>4
<1>8. IsFiniteSet(register) /\ Cardinality(register) <= Expected - 1
  BY <1>6, <1>7, FS_Subset
<1>9. Cardinality(register) \in Nat BY <1>8, FS_CardinalityType
<1>10. Cardinality(register) >= system.conwip /\ system.conwip \in Nat
  BY <1>1, SystemsAssumption DEF WipFull
<1> QED BY <1>5, <1>8, <1>9, <1>10

(* Only Hang stops time, and afterwards nothing moves. *)
LEMMA NextHangs ==
    ASSUME OneSourcePerType, IInv, CInv, HangsOnlyWhenCrowded, [Next]_vars
    PROVE  HangsOnlyWhenCrowded'
<1> SUFFICES ASSUME failed' = "hung"
             PROVE  Expected' > system'.conwip \/ \E s \in system'.sources : ~Follows(s)'
  BY DEF HangsOnlyWhenCrowded
<1>1. ASSUME NEW s \in AllSources, Loop(s), failed' # failed PROVE Hang(s)
  BY <1>1 DEF Loop, Turn, Lose, MakeTimed, MakeNext, Create, Store, outcome
<1>2. system' = system
  BY DEF Next, vars, Tick, Carry, Collect, Finish, Loop, Turn, Lose, Hang, MakeTimed, MakeNext,
         Create, Store
<1>3. Expected' = Expected /\ \A s : Follows(s)' = Follows(s) BY <1>2, SameReleases
<1>4. CASE failed' = failed BY <1>2, <1>3, <1>4 DEF HangsOnlyWhenCrowded
<1>5. CASE failed' # failed
  <2>1. PICK s \in AllSources : Hang(s)
    BY <1>1, <1>5 DEF Next, vars, Tick, Carry, Collect, Finish, outcome
  <2>2. pc[s] = "asleep" /\ Follows(s) /\ WipFull BY <2>1 DEF Hang, Due
  <2>3. Expected > system.conwip \/ \E t \in system.sources : ~Follows(t)
    BY <2>2, FullMeansCrowded
  <2> QED BY <1>2, <1>3, <2>3
<1> QED BY <1>4, <1>5

(* Time stops only for a schedule of more products than CONWIP lets in, or *)
(* one that shares CONWIP with sources it does not plan.                   *)
THEOREM HangsNeedACrowd ==
    ASSUME OneSourcePerType
    PROVE  Spec => []HangsOnlyWhenCrowded
<1>1. Init => HangsOnlyWhenCrowded BY DEF Init, HangsOnlyWhenCrowded
<1>2. IInv /\ CInv /\ HangsOnlyWhenCrowded /\ [Next]_vars => HangsOnlyWhenCrowded'
  BY NextHangs
<1> QED BY InitIInv, InitCInv, NextIInv, NextCInv, <1>1, <1>2, PTL DEF Spec

-----------------------------------------------------------------------------
(* When the run ends.                                                      *)

(* With a schedule, what has finished is counted, and the count ends it.   *)
Counted ==
    Expected > 0 => tracked = Cardinality(finished) /\ (complete <=> tracked >= Expected)

LEMMA InitCounted == Init => Counted
<1> SUFFICES ASSUME Init, Expected > 0
             PROVE  tracked = Cardinality(finished) /\ (complete <=> tracked >= Expected)
  BY DEF Counted
<1>1. Expected \in Nat BY ScheduledFinite DEF Init
<1>2. Cardinality({}) = 0 BY FS_EmptySet
<1> QED BY <1>1, <1>2 DEF Init

(* A product that finishes is counted once. *)
LEMMA NextCounted ==
    ASSUME IInv, EveryIdUnique, Counted, [Next]_vars
    PROVE  Counted'
<1>1. CASE UNCHANGED <<system, finished, tracked, complete>>
  BY <1>1, SameReleases DEF Counted
<1>2. ASSUME NEW p \in made, Finish(p) PROVE Counted'
  <2>1. /\ finished' = finished \cup {p} /\ p \in shop /\ system' = system
        /\ Running
    BY <1>2 DEF Finish
  <2>2. p \in Live /\ p \notin finished BY <2>1 DEF Live, IInv, OnePlace
  <2>3. p.id \in register BY <2>2 DEF IInv, RegisterIsLive, EveryIdUnique
  <2>4. tracked' = (IF Expected = 0 THEN 0 ELSE tracked + 1)
        /\ complete' = (Expected > 0 /\ tracked + 1 >= Expected)
    BY <1>2, <2>3 DEF Finish
  <2>5. Expected' = Expected BY <2>1, SameReleases
  <2>6. IsFiniteSet(finished) BY FS_Subset DEF IInv, Typed
  <2>7. Cardinality(finished') = Cardinality(finished) + 1
    BY <2>1, <2>2, <2>6, FS_AddElement
  <2>8. Expected \in Nat BY ScheduledFinite DEF IInv, Typed
  <2> SUFFICES ASSUME Expected > 0
               PROVE  tracked' = Cardinality(finished') /\ (complete' <=> tracked' >= Expected)
    BY <2>5 DEF Counted
  <2>9. tracked = Cardinality(finished) BY DEF Counted
  <2>10. tracked' = tracked + 1 BY <2>4, <2>8
  <2>11. complete' <=> tracked + 1 >= Expected BY <2>4
  <2> QED BY <2>7, <2>9, <2>10, <2>11
<1>3. ASSUME NEW s \in AllSources, Loop(s)
      PROVE  UNCHANGED <<system, finished, tracked, complete>>
  BY <1>3 DEF Loop, Turn, Lose, Hang, MakeTimed, MakeNext, Create, Store, outcome, products
<1> QED
  BY <1>1, <1>2, <1>3 DEF Next, vars, Tick, Carry, Collect, products, outcome

(* Every product that is made is one the schedule names, if it plans all.  *)
LEMMA FinishedIsScheduled ==
    ASSUME SchedulesPlanAll, IInv, CInv, IdsUnique, Expected > 0
    PROVE  /\ {p.id : p \in finished} \subseteq Scheduled
           /\ IsFiniteSet({p.id : p \in finished})
           /\ Cardinality({p.id : p \in finished}) = Cardinality(finished)
<1> DEFINE ids == {p.id : p \in finished}
           f == [p \in finished |-> p.id]
<1>1. finished \subseteq made /\ IsFiniteSet(finished)
  BY FS_Subset DEF IInv, Typed
<1>2. system \in Systems BY DEF IInv, Typed
<1>3. schedule # <<>>
  <2> SUFFICES ASSUME schedule = <<>> PROVE FALSE OBVIOUS
  <2>1. Scheduled = {} BY DEF Scheduled
  <2> QED BY <2>1, FS_EmptySet DEF Expected
<1>4. ASSUME NEW p \in made PROVE p.id \in Scheduled
  <2>1. NamedBy(p) BY DEF CInv, Named
  <2>2. /\ p.source \in Sources
        /\ \E i \in DOMAIN schedule : Type(schedule[i].product) = TypeOf[p.source]
    BY <1>2, <1>3, <2>1 DEF SchedulesPlanAll, NamedBy, schedule
  <2>3. Follows(p.source) BY <1>2, <2>2, FollowsItsType
  <2> QED BY <2>1, <2>3 DEF NamedBy
<1>5. f \in Surjection(finished, ids)
  <2>1. f \in [finished -> ids] OBVIOUS
  <2>2. \A x \in ids : \E p \in finished : f[p] = x OBVIOUS
  <2> HIDE DEF f, ids
  <2> QED BY <2>1, <2>2 DEF Surjection
<1>6. f \in Injection(finished, ids)
  <2>1. f \in [finished -> ids] OBVIOUS
  <2>2. \A p, q \in finished : f[p] = f[q] => p = q BY <1>1 DEF IdsUnique
  <2> HIDE DEF f, ids
  <2> QED BY <2>1, <2>2 DEF Injection, IsInjective
<1>7. ids \subseteq Scheduled BY <1>1, <1>4
<1>8. f \in Bijection(finished, ids)
  <2> HIDE DEF f, ids
  <2> QED BY <1>5, <1>6 DEF Bijection
<1>9. IsFiniteSet(ids) /\ Cardinality(finished) = Cardinality(ids)
  <2> HIDE DEF f, ids
  <2> QED BY <1>1, <1>8, FS_Bijection DEF ExistsBijection
<1> QED BY <1>7, <1>9

(* As many products as the schedule names are the ones it names. *)
LEMMA EndsInTime ==
    ASSUME SchedulesPlanAll, IInv, CInv, IdsUnique, Counted
    PROVE  EndsWithSchedule
<1> DEFINE ids == {p.id : p \in finished}
<1> SUFFICES ASSUME Expected > 0 PROVE complete <=> Scheduled \subseteq ids
  BY DEF EndsWithSchedule
<1>1. /\ ids \subseteq Scheduled /\ IsFiniteSet(ids)
      /\ Cardinality(ids) = Cardinality(finished)
  BY FinishedIsScheduled
<1>2. complete <=> Cardinality(ids) >= Expected BY <1>1 DEF Counted
<1>3. IsFiniteSet(Scheduled) /\ Expected \in Nat /\ Expected = Cardinality(Scheduled)
  BY ScheduledFinite DEF IInv, Typed, Expected
<1>4. Cardinality(ids) \in Nat BY <1>1, FS_CardinalityType
<1> HIDE DEF ids
<1>5. ASSUME Scheduled \subseteq ids PROVE complete
  <2>1. ids = Scheduled BY <1>1, <1>5
  <2> QED BY <1>2, <1>3, <2>1
<1>6. ASSUME complete PROVE ids = Scheduled
  <2>1. Cardinality(ids) >= Cardinality(Scheduled) BY <1>2, <1>3, <1>6
  <2>2. /\ Cardinality(ids) <= Cardinality(Scheduled)
        /\ Cardinality(Scheduled) = Cardinality(ids) => Scheduled = ids
    BY <1>1, <1>3, FS_Subset
  <2> QED BY <1>3, <1>4, <2>1, <2>2
<1> QED BY <1>5, <1>6

(* The run ends when the last scheduled product has reached its sink, not  *)
(* before and not after, if the schedule plans every source.               *)
THEOREM EndsAsPlanned ==
    ASSUME OneSourcePerType, SchedulesPlanAll
    PROVE  Spec => []EndsWithSchedule
<1>1. SchedulesStandAlone BY DEF SchedulesStandAlone, SchedulesPlanAll
<1>2. Spec => []EveryIdUnique BY <1>1, IdsAreUnique
<1>3. EveryIdUnique => IdsUnique BY DEF EveryIdUnique
<1>4. IInv /\ EveryIdUnique /\ Counted /\ [Next]_vars => Counted'
  BY NextCounted
<1>5. IInv /\ CInv /\ EveryIdUnique /\ Counted => EndsWithSchedule
  BY <1>3, EndsInTime
<1> QED
  BY InitIInv, InitCInv, InitCounted, NextIInv, NextCInv, <1>2, <1>4, <1>5, PTL DEF Spec
=============================================================================
