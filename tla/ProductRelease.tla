--------------------------- MODULE ProductRelease ---------------------------
(***************************************************************************)
(* How products enter and leave a simulation: Source and OrderSource       *)
(* (simulation/source.py, order_source.py), the register of live products  *)
(* (factories/product_factory.py), Sink.register_finished_product and the  *)
(* ScheduleCompletionTracker that ends run_until_complete (runner.py).     *)
(*                                                                         *)
(* A source of products is timed, or follows the schedule if that names a  *)
(* product of its type; an order source releases the products of orders.   *)
(* All of them count live products for CONWIP in one register, by ID.      *)
(* What lies between the port of a source and the sink takes any time.     *)
(* A source that is due again at once takes a new step here, so others may *)
(* go in between: the model has more orders of events than the code.       *)
(***************************************************************************)
EXTENDS Integers, FiniteSets, Sequences, SequencesExt

CONSTANTS
    Sources,       \* the regular sources
    OrderSources,  \* the sources of orders
    TypeOf,        \* TypeOf[s]: the product type of a regular source
    PortSlots,     \* capacity of the output port of a source
    Unlimited,     \* conwip_number may be None
    NoId,          \* no ID is prescribed
    Systems,       \* the ProductionSystemData considered
    Arrivals,      \* the times between two arrivals at a timed source
    Horizon        \* bound of the model: time does not pass it

(* A system has its sources, its CONWIP number, a schedule of events       *)
(* [product, time] in the order of time, and orders[s]: the orders of s in *)
(* the order of time, each [time, items], an item [type, quantity].  The   *)
(* ID of a product is its type and a number.                               *)
ASSUME SourcesAssumption ==
    /\ IsFiniteSet(Sources \union OrderSources) /\ Sources \cap OrderSources = {}
    /\ Sources \subseteq DOMAIN TypeOf
ASSUME BoundsAssumption ==
    /\ PortSlots \in Nat \ {0} /\ Horizon \in Nat
    /\ Arrivals \subseteq Nat \ {0}
ASSUME SystemsAssumption ==
    /\ Unlimited \notin Nat
    /\ \A y \in Systems :
           /\ y.conwip \in Nat \union {Unlimited} /\ y.sources \subseteq Sources \union OrderSources
           /\ y.schedule \in Seq({y.schedule[i] : i \in DOMAIN y.schedule})
           /\ \A i \in DOMAIN y.schedule : y.schedule[i].product # NoId

VARIABLES
    system,    \* the configuration of this run
    now,       \* env.now
    pc,        \* pc[s]: create_product_loop of s is asleep, storing or ended
    wake,      \* wake[s]: the end of its timeout
    index,     \* index[s]: release_index, or the next product of the orders
    counter,   \* product_counter
    made,      \* the products made so far
    register,  \* the IDs in ProductFactory.products
    ports,     \* the products in the port of their source
    shop,      \* the products between the port and the sink
    finished,  \* finished_products
    tracked,   \* ScheduleCompletionTracker.finished
    complete,  \* completion_event.triggered
    failed     \* "no", "hung" at one instant, or "raised" in remove_product

loops == <<pc, wake, index>>
products == <<counter, made, register, ports, shop, finished>>
outcome == <<tracked, complete, failed>>
vars == <<system, now, loops, products, outcome>>

AllSources == Sources \union OrderSources
-----------------------------------------------------------------------------
(* What a source has to release *)

schedule == system.schedule
Type(id) == id[1]

(* SourceFactory._schedule_per_product: the events of its type, where they *)
(* are in the whole schedule                                               *)
OwnEvents(s) == {i \in DOMAIN schedule : Type(schedule[i].product) = TypeOf[s]}

Follows(s) == s \in Sources /\ OwnEvents(s) # {}
Timed(s) == s \in Sources /\ ~Follows(s)

(* The products of the orders in the order they are made, with their       *)
(* number within order and type *)
Items(s) ==
    FlattenSeq([o \in DOMAIN system.orders[s] |->
        LET order == system.orders[s][o] IN
        FlattenSeq([k \in DOMAIN order.items |->
            [n \in 1 .. order.items[k].quantity |->
                [order |-> o, time |-> order.time, type |-> order.items[k].type, number |-> n - 1]]])])

(* _build_schedule_product_map: an event fits an order of its time that    *)
(* has its type.  A product is matched to the first such order at its      *)
(* first event that has one, and numbered within order and type.           *)
Fits(s, i, o) ==
    /\ system.orders[s][o].time = schedule[i].time
    /\ \E k \in DOMAIN system.orders[s][o].items :
           system.orders[s][o].items[k].type = Type(schedule[i].product)

Matched(s, i, o) ==
    /\ Fits(s, i, o) /\ \A q \in 1 .. (o - 1) : ~Fits(s, i, q)
    /\ \A k \in 1 .. (i - 1) : schedule[k].product = schedule[i].product =>
           \A q \in DOMAIN system.orders[s] : ~Fits(s, k, q)

Prescribed(s, item) ==
    {schedule[i].product : i \in {k \in DOMAIN schedule :
        /\ Matched(s, k, item.order) /\ Type(schedule[k].product) = item.type
        /\ item.number = Cardinality({q \in 1 .. (k - 1) :
               Matched(s, q, item.order) /\ Type(schedule[q].product) = item.type})}}

(* The releases of a source that follows the schedule or has orders *)
Releases(s) ==
    IF s \in OrderSources
    THEN [i \in DOMAIN Items(s) |->
             LET item == Items(s)[i] IN
             [time |-> item.time, type |-> item.type,
              id |-> IF Prescribed(s, item) = {} THEN NoId
                     ELSE CHOOSE id \in Prescribed(s, item) : TRUE]]
    ELSE [i \in OwnEvents(s) |->
             LET e == schedule[i] IN
             [time |-> e.time, type |-> Type(e.product), id |-> e.product]]

(* released_product_ids; an order source does not look *)
Released(s) == {p.id : p \in {q \in made : q.source = s /\ s \in Sources}}

(* Mutant of Open: the loop returns at a product it has released before. *)
OpenMutant(s) ==
    {i \in DOMAIN Releases(s) : i >= index[s] /\
        \A k \in DOMAIN Releases(s) :
            index[s] <= k /\ k <= i => Releases(s)[k].id \notin Released(s)}

(* What is left to release; events of released products are skipped. *)
Open(s) == {i \in DOMAIN Releases(s) : i >= index[s] /\ Releases(s)[i].id \notin Released(s)}

IsNext(s, i) == i \in Open(s) /\ \A k \in Open(s) : i <= k

Later(t) == IF t > now THEN t ELSE now

(* When the source is next due *)
NextTimes(s) ==
    IF Timed(s) THEN {now + a : a \in Arrivals}
    ELSE {Later(Releases(s)[i].time) : i \in {k \in Open(s) : IsNext(s, k)}}
-----------------------------------------------------------------------------
Init ==
    /\ system \in Systems /\ now = 0
    /\ index = [s \in AllSources |-> 1]
    /\ counter = 0 /\ made = {} /\ register = {}
    /\ ports = {} /\ shop = {} /\ finished = {}
    /\ tracked = 0 /\ complete = FALSE /\ failed = "no"
    /\ pc = [s \in AllSources |-> IF s \in system.sources THEN "turning" ELSE "ended"]
    /\ wake = [s \in AllSources |-> 0]

(* run_until_complete goes on until the schedule is done *)
Running == failed = "no" /\ ~complete

(* Mutant of WipFull: a live product more than CONWIP allows. *)
WipFullMutant == system.conwip # Unlimited /\ Cardinality(register) > system.conwip

(* Mutant of WipFull: a live product less than CONWIP allows. *)
WipFullEarly == system.conwip # Unlimited /\ Cardinality(register) + 1 >= system.conwip

(* len(product_factory.products.values()) >= conwip *)
WipFull == system.conwip # Unlimited /\ Cardinality(register) >= system.conwip

HasRoom(s) == Cardinality({p \in ports : p.source = s}) < PortSlots

(* The loop turns and sleeps until the next release, or ends. *)
Turn(s) ==
    /\ Running /\ pc[s] = "turning"
    /\ \/ /\ pc' = [pc EXCEPT ![s] = "asleep"]
          /\ \E t \in NextTimes(s) : wake' = [wake EXCEPT ![s] = t]
       \/ /\ NextTimes(s) = {}
          /\ pc' = [pc EXCEPT ![s] = "ended"]
          /\ wake' = wake
    /\ index' = IF Open(s) = {} THEN index
                ELSE [index EXCEPT ![s] = CHOOSE i \in Open(s) : IsNext(s, i)]
    /\ UNCHANGED <<system, now, products, outcome>>

Due(s) == Running /\ pc[s] = "asleep" /\ wake[s] <= now

(* A timed arrival is lost while CONWIP is reached. *)
Lose(s) ==
    /\ Due(s) /\ Timed(s) /\ WipFull
    /\ pc' = [pc EXCEPT ![s] = "turning"]
    /\ UNCHANGED <<system, now, wake, index, products, outcome>>

(* A scheduled release that is due while CONWIP is reached: "continue"     *)
(* leads back here without a yield, and nothing else ever runs again.      *)
Hang(s) ==
    /\ Due(s) /\ Follows(s) /\ WipFull
    /\ failed' = "hung"
    /\ UNCHANGED <<system, now, loops, products, tracked, complete>>

(* create_product, with the prescribed ID or the next of the type; the     *)
(* product goes into the port unless that is full.                         *)
NewId(s, type, id) == IF id = NoId THEN <<type, counter>> ELSE id

Create(s, type, id) ==
    LET p == [id |-> NewId(s, type, id), serial |-> counter, source |-> s]
    IN  /\ made' = made \union {p}
        /\ register' = register \union {p.id}
        /\ counter' = counter + 2
        /\ IF HasRoom(s) THEN ports' = ports \union {p} /\ pc' = [pc EXCEPT ![s] = "turning"]
           ELSE ports' = ports /\ pc' = [pc EXCEPT ![s] = "storing"]
        /\ UNCHANGED <<system, now, wake, shop, finished, outcome>>

MakeTimed(s) ==
    /\ Due(s) /\ Timed(s) /\ ~WipFull
    /\ Create(s, TypeOf[s], NoId)
    /\ index' = index

(* An order source looks at CONWIP before every product, and polls. *)
MakeNext(s) ==
    /\ Due(s) /\ ~Timed(s) /\ ~WipFull
    /\ LET next == Releases(s)[index[s]] IN Create(s, next.type, next.id)
    /\ index' = [index EXCEPT ![s] = @ + 1]

(* The port has room again for the product its source holds. *)
Store(s) ==
    /\ Running /\ pc[s] = "storing" /\ HasRoom(s)
    /\ \E p \in made \ (ports \union shop \union finished) :
           p.source = s /\ ports' = ports \union {p}
    /\ pc' = [pc EXCEPT ![s] = "turning"]
    /\ UNCHANGED <<system, now, wake, index, counter, made, register, shop, finished, outcome>>

(* The product leaves the port on its way. *)
Collect(p) ==
    /\ Running /\ p \in ports
    /\ ports' = ports \ {p} /\ shop' = shop \union {p}
    /\ UNCHANGED <<system, now, loops, counter, made, register, finished, outcome>>

(* The products the tracker expects: distinct IDs of the schedule *)
Scheduled == {schedule[i].product : i \in DOMAIN schedule}

Expected == Cardinality(Scheduled)

(* register_finished_product removes the product by its ID, and raises if  *)
(* that is gone; then the tracker counts it.                               *)
Finish(p) ==
    /\ Running /\ p \in shop
    /\ shop' = shop \ {p} /\ finished' = finished \union {p}
    /\ register' = register \ {p.id}
    /\ IF p.id \notin register
       THEN failed' = "raised" /\ UNCHANGED <<tracked, complete>>
       ELSE /\ tracked' = IF Expected = 0 THEN 0 ELSE tracked + 1
            /\ complete' = (Expected > 0 /\ tracked + 1 >= Expected)
            /\ failed' = failed
    /\ UNCHANGED <<system, now, loops, counter, made, ports>>

(* Time passes when nothing is to be done at this instant.  The poll of an *)
(* order source is a timeout of its own.                                   *)
Tick ==
    /\ Running /\ now < Horizon
    /\ \A s \in AllSources : pc[s] # "turning" /\ (Due(s) => s \in OrderSources /\ WipFull)
    /\ now' = now + 1
    /\ UNCHANGED <<system, loops, products, outcome>>

Loop(s) == Turn(s) \/ Lose(s) \/ Hang(s) \/ MakeTimed(s) \/ MakeNext(s) \/ Store(s)
Carry == \E p \in made : Collect(p) \/ Finish(p)

Next == Tick \/ Carry \/ \E s \in AllSources : Loop(s)

(* Timeouts fire, and what is on its way arrives. *)
Fairness == WF_vars(Tick) /\ WF_vars(Carry) /\ \A s \in AllSources : WF_vars(Loop(s))

Spec == Init /\ [][Next]_vars
FairSpec == Spec /\ Fairness
-----------------------------------------------------------------------------
Live == made \ finished

IdsUnique == \A p, q \in made : p.id = q.id => p = q

TypeOK ==
    /\ system \in Systems /\ now \in 0 .. Horizon
    /\ pc \in [AllSources -> {"turning", "asleep", "storing", "ended"}]
    /\ wake \in [AllSources -> Nat] /\ index \in [AllSources -> Nat]
    /\ counter \in Nat /\ tracked \in Nat /\ complete \in BOOLEAN
    /\ failed \in {"no", "hung", "raised"}
    /\ \A p \in made : p.source \in AllSources /\ p.serial \in 0 .. (counter - 1)
    /\ ports \subseteq made /\ shop \subseteq made /\ finished \subseteq made

(* No more products live than CONWIP allows, however many sources release *)
(* at one instant, as long as the register can tell them apart.            *)
ConwipRespected ==
    IdsUnique /\ system.conwip # Unlimited => Cardinality(Live) <= system.conwip

(* Every product has an ID of its own: the log, the queues and the         *)
(* register identify it by nothing else.                                   *)
EveryIdUnique == IdsUnique /\ failed # "raised"

(* Schedule and CONWIP can coexist: simulated time never stops.  The code  *)
(* breaks this (README, section 4); HangsOnlyWhenCrowded says when.        *)
NeverHangs == failed # "hung"

(* Time only stops for a schedule of more products than CONWIP lets in, or *)
(* one that shares CONWIP with sources it does not plan: orders and timed  *)
(* sources wait for their place (each type has one regular source).        *)
HangsOnlyWhenCrowded ==
    failed = "hung" =>
        Expected > system.conwip \/ \E s \in system.sources : ~Follows(s)

(* The run ends when the last scheduled product has reached its sink, not  *)
(* before and not after.                                                   *)
EndsWithSchedule ==
    Expected > 0 => (complete <=> Scheduled \subseteq {p.id : p \in finished})

(* A schedule drains: the run ends, and then every product of the schedule *)
(* has reached its sink, unless time stops.                                *)
EveryScheduleDrains ==
    (Expected > 0) ~> \/ complete /\ Scheduled \subseteq {p.id : p \in finished}
                      \/ failed = "hung"
=============================================================================
