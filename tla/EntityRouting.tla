---------------------------- MODULE EntityRouting ----------------------------
(***************************************************************************)
(* The tools that accompany a product and the parts that are assembled     *)
(* into it: how they are requested (simulation/request_handler.py), dealt  *)
(* out of the pool of free entities by the primitive routing loop, brought *)
(* to where they are needed and given back (simulation/router.py), with    *)
(* the steps of the handlers that take and leave them and of the sink,     *)
(* which adds finished products to the pool.                               *)
(*                                                                         *)
(* Tools belong to a product (ToolDependency of the product), parts to a   *)
(* process (AssemblyDependency of a process).  Only stores have a capacity *)
(* here: PortQueue models the other queues; and any waiting request may be *)
(* chosen by an idle machine or vehicle: Controller models that choice.    *)
(***************************************************************************)
EXTENDS Integers, FiniteSets, Sequences, SequencesExt

CONSTANTS
    Products,         \* the products released during a run
    Stock,            \* the primitives, in the order of their creation
    Types,            \* types of entities
    TypeOf,           \* the type of every product and primitive
    Tools,            \* Tools[p]: the types of the tools product p requires
    Steps,            \* Steps[p]: its processes, with machine and part types
    Machines,
    Source, Sink,     \* the queues where a product enters and ends
    Input, Output,    \* the ports of a machine
    Stores,
    StoresOf,         \* StoresOf[t]: PrimitiveData.storages of type t
    Home,             \* the store a primitive is created in
    Room              \* capacity of a store

ItemsOf(list) == {list[i] : i \in DOMAIN list}

Primitives == ItemsOf(Stock)
Entities == Products \cup Primitives
Ports == {Source[p] : p \in Products} \cup {Sink[p] : p \in Products}
         \cup {Input[m] : m \in Machines} \cup {Output[m] : m \in Machines}
         \cup Stores
Vehicle == "vehicle"
Nowhere == "nowhere"
Places == Ports \cup Machines \cup {Vehicle, Nowhere}

(* A request of an entity: its product, the number of the process (0 for   *)
(* the product itself) and the number of the dependency.                   *)
DemandsOf(p, k) ==
    {<<p, k, j>> : j \in DOMAIN (IF k = 0 THEN Tools[p] ELSE Steps[p][k].parts)}
Demands == UNION {UNION {DemandsOf(p, k) : k \in 0 .. Len(Steps[p])} : p \in Products}
NoDemand == <<>>

ItemOf(d) == d[1]
IsTool(d) == d[2] = 0
TypeNeeded(d) ==
    IF IsTool(d) THEN Tools[d[1]][d[3]] ELSE Steps[d[1]][d[2]].parts[d[3]]

ASSUME EntitiesAssumption ==
    /\ IsFiniteSet(Products)
    /\ Stock \in Seq(Primitives) /\ Products \cap Primitives = {}
    /\ \A i, j \in DOMAIN Stock : Stock[i] = Stock[j] => i = j
    /\ TypeOf \in [Entities -> Types]
    /\ Tools \in [Products -> Seq(Types)]
    /\ Steps \in [Products -> Seq([machine : Machines, parts : Seq(Types)])]
ASSUME PlacesAssumption ==
    /\ Home \in [Primitives -> Stores] /\ Room \in [Stores -> Nat]
    /\ StoresOf \in [Types -> Seq(Stores)]
    /\ Ports \cap Machines = {}
    /\ {Vehicle, Nowhere} \cap (Ports \cup Machines) = {}

VARIABLES
    phase,        \* phase[p]: where product p is in its process model
    step,         \* step[p]: the number of its current process
    loc,          \* loc[e]: Entity._current_locatable
    at,           \* at[q]: Queue.items
    goal,         \* goal[e]: target of e's open transport request
    promised,     \* entities for whose return a place in a store is reserved
    pool,         \* Router.free_primitives_by_type, all types in one list
    pending,      \* RequestHandler.pending_primitive_requests
    signalled,    \* got_primitive_request.triggered
    dealing,      \* the routing loop is between two of its iterations
    serves,       \* serves[e]: the request e has been dealt to
    task,         \* task[e]: what execute_entity_routing does with e
    got,          \* requests whose completion event has fired
    busy          \* busy[m]: the products machine m works on

vars == <<phase, step, loc, at, goal, promised, pool, pending, signalled,
          dealing, serves, task, got, busy>>
products == <<phase, step, busy>>
requests == <<pool, pending, serves, task, got>>
signals == <<signalled, dealing>>
places == <<loc, at, goal, promised>>

Phases == {"new", "fitting", "moving", "kitting", "working", "made",
           "leaving", "done", "gone"}
Tasks == {"idle", "dealt", "coming", "serving", "going", "spent"}

TypeOK ==
    /\ phase \in [Products -> Phases] /\ step \in [Products -> Nat]
    /\ \A p \in Products : step[p] <= Len(Steps[p])
    /\ loc \in [Entities -> Places] /\ at \in [Ports -> SUBSET Entities]
    /\ goal \in [Entities -> Ports \cup {Nowhere}] /\ promised \subseteq Entities
    /\ pool \in Seq(Entities) /\ pending \in Seq(Demands)
    /\ signalled \in BOOLEAN /\ dealing \in BOOLEAN
    /\ serves \in [Entities -> Demands \cup {NoDemand}]
    /\ task \in [Entities -> Tasks] /\ got \subseteq Demands
    /\ busy \in [Machines -> SUBSET Products]

Init ==
    /\ phase = [p \in Products |-> "new"] /\ step = [p \in Products |-> 0]
    /\ loc = [e \in Entities |-> IF e \in Primitives THEN Home[e] ELSE Nowhere]
    /\ at = [q \in Ports |-> {e \in Primitives : Home[e] = q}]
    /\ goal = [e \in Entities |-> Nowhere] /\ promised = {}
    /\ pool = Stock /\ pending = <<>>
    /\ signalled = FALSE /\ dealing = FALSE
    /\ serves = [e \in Entities |-> NoDemand]
    /\ task = [e \in Entities |-> "idle"] /\ got = {}
    /\ busy = [m \in Machines |-> {}]

-----------------------------------------------------------------------------
Bound(e) == task[e] \in {"coming", "serving", "going", "spent"}

(* current_locatable: an entity is where the entity it is bound to is. *)
CurrentLocatable[n \in 0 .. Cardinality(Products)] ==
    IF n = 0 THEN loc
    ELSE [e \in Entities |-> IF Bound(e) THEN CurrentLocatable[n - 1][ItemOf(serves[e])]
                             ELSE loc[e]]

(* The members of depended_entities that are still bound to p.  Tools that *)
(* were given back stay in the list, but p is finished by then.            *)
DependedEntities(p) == {e \in Entities : Bound(e) /\ ItemOf(serves[e]) = p}

Machine(p) == Steps[p][step[p]].machine
Parts(p) == ItemsOf(Steps[p][step[p]].parts)

(* becomes_consumable: some assembly dependency requires the product. *)
Consumable(p) ==
    \E q \in Products : \E k \in DOMAIN Steps[q] : TypeOf[p] \in ItemsOf(Steps[q][k].parts)

(* The requests of product p, or of its current process, in list order. *)
InOrder(p, k) ==
    [j \in DOMAIN (IF k = 0 THEN Tools[p] ELSE Steps[p][k].parts) |-> <<p, k, j>>]

(* add_dependency_request for each of them, and the signal to the loop. *)
Ask(p, k) ==
    /\ pending' = pending \o InOrder(p, k)
    /\ signalled' = (signalled \/ DemandsOf(p, k) # {})

Kitted(p, k) == DemandsOf(p, k) \subseteq got

-----------------------------------------------------------------------------
(* A source puts a product into its queue; request_processing hands it to  *)
(* the process model handler, which has its tools requested and waits.     *)
Create(p) ==
    /\ ~dealing /\ phase[p] = "new"
    /\ phase' = [phase EXCEPT ![p] = "fitting"]
    /\ loc' = [loc EXCEPT ![p] = Source[p]]
    /\ at' = [at EXCEPT ![Source[p]] = @ \cup {p}]
    /\ Ask(p, 0)
    /\ UNCHANGED <<step, busy, goal, promised, dealing, pool, serves, task, got>>

(* The product goes on: to the machine of its next process, or to its sink. *)
Proceed(p) ==
    /\ ~dealing
    /\ phase[p] = "made" \/ (phase[p] = "fitting" /\ Kitted(p, 0))
    /\ IF step[p] < Len(Steps[p])
       THEN /\ step' = [step EXCEPT ![p] = @ + 1]
            /\ phase' = [phase EXCEPT ![p] = "moving"]
            /\ goal' = [goal EXCEPT ![p] = Input[Steps[p][step[p] + 1].machine]]
       ELSE /\ phase' = [phase EXCEPT ![p] = "leaving"]
            /\ goal' = [goal EXCEPT ![p] = Sink[p]]
            /\ UNCHANGED step
    /\ UNCHANGED <<busy, loc, at, promised, requests, signals>>

(* A store is full with what is listed and what is reserved. *)
Full(s) ==
    /\ Room[s] # 0
    /\ Cardinality(at[s]) + Cardinality({e \in promised : goal[e] = s}) >= Room[s]

(* A vehicle accepts a transport to a store that is not full, and reserves *)
(* the place (is_request_feasible, reserve_output_queue).                  *)
Promise(e) ==
    /\ ~dealing /\ goal[e] \in Stores /\ e \notin promised /\ loc[e] # Vehicle
    /\ ~Full(goal[e])
    /\ promised' = promised \cup {e}
    /\ UNCHANGED <<products, loc, at, goal, requests, signals>>

(* The vehicle takes the entity out of the queue it is recorded at. *)
Load(e) ==
    /\ ~dealing /\ goal[e] # Nowhere /\ (goal[e] \in Stores => e \in promised)
    /\ loc[e] \in Ports /\ e \in at[loc[e]]
    /\ at' = [at EXCEPT ![loc[e]] = @ \ {e}]
    /\ loc' = [loc EXCEPT ![e] = Vehicle]
    /\ UNCHANGED <<products, goal, promised, requests, signals>>

(* It puts the entity into the target queue, where the request completes. *)
Unload(e) ==
    /\ ~dealing /\ loc[e] = Vehicle
    /\ at' = [at EXCEPT ![goal[e]] = @ \cup {e}]
    /\ loc' = [loc EXCEPT ![e] = goal[e]]
    /\ goal' = [goal EXCEPT ![e] = Nowhere]
    /\ promised' = promised \ {e}
    /\ UNCHANGED <<products, requests, signals>>

(* get_requests_with_available_dependencies: the machine accepts a product *)
(* while the pool has an entity of every type its process assembles.       *)
PartsInPool(p) == \A t \in Parts(p) : \E e \in ItemsOf(pool) : TypeOf[e] = t

(* An idle machine starts on a product and has its parts requested. *)
Start(p) ==
    /\ ~dealing /\ phase[p] = "moving" /\ goal[p] = Nowhere
    /\ busy[Machine(p)] = {} /\ PartsInPool(p)
    /\ phase' = [phase EXCEPT ![p] = "kitting"]
    /\ busy' = [busy EXCEPT ![Machine(p)] = {p}]
    /\ Ask(p, step[p])
    /\ UNCHANGED <<step, places, dealing, pool, serves, task, got>>

(* get_entities_of_request: the product and every bound entity of a type   *)
(* the process assembles leave the input port; process_time runs.          *)
Take(p) ==
    LET parts == {e \in DependedEntities(p) : TypeOf[e] \in Parts(p)}
        taken == parts \cup {p}
    IN  /\ ~dealing /\ phase[p] = "kitting" /\ Kitted(p, step[p])
        /\ taken \subseteq at[loc[p]]
        /\ at' = [at EXCEPT ![loc[p]] = @ \ taken]
        /\ loc' = [e \in Entities |-> IF e \in taken THEN Machine(p) ELSE loc[e]]
        /\ phase' = [phase EXCEPT ![p] = "working"]
        /\ UNCHANGED <<step, busy, goal, promised, requests, signals>>

(* processing_finished fires and the product leaves at the output port. *)
Finish(p) ==
    /\ ~dealing /\ phase[p] = "working"
    /\ phase' = [phase EXCEPT ![p] = "made"]
    /\ at' = [at EXCEPT ![Output[Machine(p)]] = @ \cup {p}]
    /\ loc' = [loc EXCEPT ![p] = Output[Machine(p)]]
    /\ busy' = [busy EXCEPT ![Machine(p)] = {}]
    /\ UNCHANGED <<step, goal, promised, requests, signals>>

(* Mutant of Leave: the tools are recorded at the sink but not put there. *)
LeaveUnlisted(p) ==
    LET tools == {e \in DependedEntities(p) : TypeOf[e] \in ItemsOf(Tools[p])} IN
    /\ ~dealing /\ phase[p] = "leaving" /\ goal[p] = Nowhere
    /\ phase' = [phase EXCEPT ![p] = "done"]
    /\ loc' = [e \in Entities |-> IF e \in tools THEN loc[p] ELSE loc[e]]
    /\ UNCHANGED <<step, busy, at, goal, promised, requests, signals>>

(* The process model ends at the sink: its handler puts the product's      *)
(* tools into the sink's queue and completes the request.                  *)
Leave(p) ==
    LET tools == {e \in DependedEntities(p) : TypeOf[e] \in ItemsOf(Tools[p])} IN
    /\ ~dealing /\ phase[p] = "leaving" /\ goal[p] = Nowhere
    /\ phase' = [phase EXCEPT ![p] = "done"]
    /\ loc' = [e \in Entities |-> IF e \in tools THEN loc[p] ELSE loc[e]]
    /\ at' = [at EXCEPT ![loc[p]] = @ \cup tools]
    /\ UNCHANGED <<step, busy, goal, promised, requests, signals>>

(* Mutant of Register: the routing loop is not told. *)
RegisterSilently(p) ==
    /\ ~dealing /\ phase[p] = "done"
    /\ phase' = [phase EXCEPT ![p] = "gone"]
    /\ pool' = IF Consumable(p) THEN Append(pool, p) ELSE pool
    /\ UNCHANGED <<step, busy, places, signals, pending, serves, task, got>>

(* register_finished_product: a consumable product joins the pool. *)
Register(p) ==
    /\ ~dealing /\ phase[p] = "done"
    /\ phase' = [phase EXCEPT ![p] = "gone"]
    /\ pool' = IF Consumable(p) THEN Append(pool, p) ELSE pool
    /\ signalled' = (signalled \/ Consumable(p))
    /\ UNCHANGED <<step, busy, places, dealing, pending, serves, task, got>>

-----------------------------------------------------------------------------
(* The routing loop wakes and replaces the event it waited for. *)
Wake ==
    /\ signalled /\ ~dealing
    /\ signalled' = FALSE /\ dealing' = TRUE
    /\ UNCHANGED <<products, places, requests>>

(* get_next_primitive_request_to_route: a free entity of the type is an    *)
(* option if it is not bound and listed where it is recorded.              *)
Routable(e) == ~Bound(e) /\ (loc[e] \in Ports => e \in at[loc[e]])
Option(e, d) == TypeOf[e] = TypeNeeded(d) /\ Routable(e)
HasOption(d) == \E e \in ItemsOf(pool) : Option(e, d)

(* Mutant of Deal: the request stays pending. *)
DealTwice(e) ==
    \E i \in DOMAIN pending, k \in DOMAIN pool :
        /\ dealing /\ e = pool[k] /\ Option(e, pending[i])
        /\ pool' = RemoveAt(pool, k)
        /\ serves' = [serves EXCEPT ![e] = pending[i]]
        /\ task' = [task EXCEPT ![e] = "dealt"]
        /\ UNCHANGED <<products, places, signals, pending, got>>

(* The first request that has an option gets its first option: no routing  *)
(* heuristic applies to entities, route_request falls back to the first.   *)
Deal(e) ==
    \E i \in DOMAIN pending, k \in DOMAIN pool :
        /\ dealing /\ e = pool[k] /\ Option(e, pending[i])
        /\ \A j \in 1 .. (i - 1) : ~HasOption(pending[j])
        /\ \A l \in 1 .. (k - 1) : ~Option(pool[l], pending[i])
        /\ pending' = RemoveAt(pending, i)
        /\ pool' = RemoveAt(pool, k)
        /\ serves' = [serves EXCEPT ![e] = pending[i]]
        /\ task' = [task EXCEPT ![e] = "dealt"]
        /\ UNCHANGED <<products, places, signals, got>>

(* No request has an option: the loop waits for its event again. *)
Rest ==
    /\ dealing /\ \A i \in DOMAIN pending : ~HasOption(pending[i])
    /\ dealing' = FALSE
    /\ UNCHANGED <<products, places, requests, signalled>>

(* execute_entity_routing binds the entity and has it brought to the       *)
(* machine's input port, or to where its product waits.                    *)
Bind(e) ==
    LET p == ItemOf(serves[e]) IN
    /\ ~dealing /\ task[e] = "dealt"
    /\ task' = [task EXCEPT ![e] = "coming"]
    /\ goal' = [goal EXCEPT ![e] = IF IsTool(serves[e]) THEN loc[p] ELSE Input[Machine(p)]]
    /\ UNCHANGED <<products, loc, at, promised, signals, pool, pending, serves, got>>

(* The entity is there: the request completes. *)
Deliver(e) ==
    /\ ~dealing /\ task[e] = "coming" /\ goal[e] = Nowhere
    /\ task' = [task EXCEPT ![e] = "serving"]
    /\ got' = got \cup {serves[e]}
    /\ UNCHANGED <<products, places, signals, pool, pending, serves>>

(* dependency_release_event: processing_finished of the process, or the    *)
(* completion of the process model.                                        *)
Released(d) ==
    LET p == ItemOf(d) IN
    IF IsTool(d) THEN phase[p] \in {"done", "gone"}
    ELSE d[2] < step[p] \/ phase[p] \in {"made", "leaving", "done", "gone"}

(* A part is used up: it stays bound and the loop is told to look again. *)
Spend(e) ==
    /\ ~dealing /\ task[e] = "serving" /\ Released(serves[e])
    /\ ~IsTool(serves[e]) \/ e \in Products
    /\ task' = [task EXCEPT ![e] = "spent"]
    /\ loc' = IF IsTool(serves[e]) THEN [loc EXCEPT ![e] = Source[ItemOf(serves[e])]] ELSE loc
    /\ signalled' = TRUE
    /\ UNCHANGED <<products, at, goal, promised, dealing, pool, pending, serves, got>>

(* Mutant of AvailableStorage: only the first store is looked at. *)
FirstStorage(t, s) == s = StoresOf[t][1] /\ ~Full(s)

(* _find_available_storage_for_primitive: the first store of the type that *)
(* is not full, or the first of those with the fewest items.               *)
AvailableStorage(t, s) ==
    \E i \in DOMAIN StoresOf[t] :
        LET stores == StoresOf[t] IN
        /\ s = stores[i]
        /\ \/ ~Full(s) /\ \A j \in 1 .. (i - 1) : Full(stores[j])
           \/ /\ \A j \in DOMAIN stores : Full(stores[j])
              /\ \A j \in DOMAIN stores :
                    LET more == Cardinality(at[stores[j]]) - Cardinality(at[s]) IN
                    IF j < i THEN more > 0 ELSE more >= 0

(* A tool goes back to a store, from the queue it was brought to. *)
TakeBack(e) ==
    /\ ~dealing /\ task[e] = "serving" /\ Released(serves[e])
    /\ IsTool(serves[e]) /\ e \notin Products
    /\ \E s \in Stores : AvailableStorage(TypeOf[e], s) /\ goal' = [goal EXCEPT ![e] = s]
    /\ loc' = [loc EXCEPT ![e] = Source[ItemOf(serves[e])]]
    /\ task' = [task EXCEPT ![e] = "going"]
    /\ UNCHANGED <<products, at, promised, signals, pool, pending, serves, got>>

(* Mutant of Release: the tool joins the pool but stays bound. *)
ReleaseBound(e) ==
    /\ ~dealing /\ task[e] = "going" /\ goal[e] = Nowhere
    /\ task' = [task EXCEPT ![e] = "spent"]
    /\ pool' = Append(pool, e)
    /\ signalled' = TRUE
    /\ UNCHANGED <<products, places, dealing, pending, serves, got>>

(* Stored, it is released, which records it at its product's location, and *)
(* joins the pool.                                                         *)
Release(e) ==
    /\ ~dealing /\ task[e] = "going" /\ goal[e] = Nowhere
    /\ loc' = [loc EXCEPT ![e] = CurrentLocatable[Cardinality(Products)][ItemOf(serves[e])]]
    /\ task' = [task EXCEPT ![e] = "idle"]
    /\ serves' = [serves EXCEPT ![e] = NoDemand]
    /\ pool' = Append(pool, e)
    /\ signalled' = TRUE
    /\ UNCHANGED <<products, at, goal, promised, dealing, pending, got>>

(* The loop deals without yielding; other processes run while it waits. *)
Loop == (\E e \in Entities : Deal(e)) \/ Rest
Other ==
    \/ \E p \in Products :
          \/ Create(p) \/ Proceed(p) \/ Start(p) \/ Take(p)
          \/ Finish(p) \/ Leave(p) \/ Register(p)
    \/ \E e \in Entities :
          \/ Promise(e) \/ Load(e) \/ Unload(e)
          \/ Bind(e) \/ Deliver(e) \/ Spend(e) \/ TakeBack(e) \/ Release(e)
    \/ Wake

Next == Loop \/ Other

Spec == Init /\ [][Next]_vars

(* SimPy goes on as long as an event is scheduled. *)
FairSpec == Spec /\ WF_vars(Next)

-----------------------------------------------------------------------------
(* Whatever is in the pool can be dealt: it is unbound, it is listed in    *)
(* the queue it is recorded at, and it is there once.                      *)
PoolIsHonest ==
    /\ \A e \in ItemsOf(pool) : task[e] = "idle" /\ loc[e] \in Ports /\ e \in at[loc[e]]
    /\ \A i, j \in DOMAIN pool : pool[i] = pool[j] => i = j

(* No two entities are spent on one request. *)
OneEntityPerRequest ==
    \A e, f \in Entities : serves[e] = serves[f] /\ serves[e] # NoDemand => e = f

(* The routing loop never sleeps over a request it could satisfy. *)
NothingForgotten ==
    ~signalled /\ ~dealing => \A i \in DOMAIN pending : ~HasOption(pending[i])

(* A tool that serves a product is in the pool again some day. *)
ToolsComeBack ==
    \A e \in Primitives :
        task[e] = "serving" /\ IsTool(serves[e]) ~> task[e] = "idle"

(* Every product that is released gets its tools and parts and leaves. *)
EveryProductLeaves == \A p \in Products : phase[p] = "fitting" ~> phase[p] = "gone"
=============================================================================
