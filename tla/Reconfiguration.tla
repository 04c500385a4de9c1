--------------------------- MODULE Reconfiguration ---------------------------
(***************************************************************************)
(* What the optimisation does to configurations                            *)
(* (optimization/adapter_manipulation.py): the mutations, the crossover    *)
(* and the random configurations, with the repairs that end each of them,  *)
(* as one pair of offspring of the evolutionary algorithm meets them       *)
(* (optimization/evolutionary_algorithm.py): perhaps mated, then perhaps   *)
(* mutated one after the other, then cloned for the next generation.       *)
(*                                                                         *)
(* A configuration is its list of resources, the ports they use and one    *)
(* resource dependency.  Left out, because no property tells them apart:   *)
(* policies, capacities, costs, primitives, the sources and sinks with     *)
(* their ports, and the ID of the configuration (module SolutionCache has  *)
(* that).  Conveyors (link processes that cannot move) are not modelled.   *)
(*                                                                         *)
(* The two offspring are Python objects: crossover can leave one resource  *)
(* object in both of them, and whatever is then done to it in one is done  *)
(* in the other.  Such resources have the same tag, the others tag 0.      *)
(***************************************************************************)
EXTENDS Naturals, FiniteSets, Sequences, SequencesExt

CONSTANTS
    Positions,         \* scenario_data.options.positions
    Modules,           \* the process modules: a process, or those of a compound process
    Required,          \* the processes that products and dependencies need
    Leaves,            \* Leaves[p]: the processes inside the process model p
    TransportProcess,  \* the transport process of the vehicles
    Origin,            \* where added vehicles start, [0, 0]
    SetupStates,       \* state_data: [origin, target] of each setup state
    Breakdowns,        \* state_data: names of the default breakdown states there are
    Baseline,          \* the configuration that is optimised
    MaxMachines, MaxVehicles, MaxModules,  \* scenario_data.constraints
    MaxChanges         \* bound of the model: crossovers and mutations of a behaviour

ProductionProcesses == UNION Modules

ASSUME ReconfigurationAssumption ==
    /\ Required \subseteq ProductionProcesses
    /\ Leaves \in [ProductionProcesses -> SUBSET ProductionProcesses]
    /\ TransportProcess \notin ProductionProcesses
    /\ {MaxMachines, MaxVehicles, MaxModules, MaxChanges} \subseteq Nat

VARIABLES
    pop,        \* pop[1], pop[2]: the two offspring
    elders,     \* the pair they were cloned from
    stage,      \* how far the variation of this generation is: 0 mate, 1, 2 mutate, 3 done
    changes     \* how many there were

vars == <<pop, elders, stage, changes>>

Individuals == {1, 2}
Other(i) == 3 - i

(* get_production_resources, get_transport_resources: a machine that has   *)
(* lost its last process is in neither list.                               *)
IsMachine(r) == r.processes \cap ProductionProcesses # {}
IsVehicle(r) == TransportProcess \in r.processes
Machines(c) == SelectSeq(c.resources, IsMachine)
Vehicles(c) == SelectSeq(c.resources, IsVehicle)
Ids(c) == {r.id : r \in Range(c.resources)}

(* The configuration c with the ports no resource of it uses removed. *)
RemoveUnusedQueues(c) ==
    [c EXCEPT !.ports = {p \in @ : \E r \in Range(c.resources) : p.id \in r.ports}]

(* Mutant of HasPort: asks the resource, not the configuration *)
HasPortSomewhere(r, c) == r.ports # {}

(* A port that takes and gives products; every port modelled here does. *)
HasPort(r, c) == \E p \in c.ports : p.id \in r.ports

(* The k-th resource of c gets its default queue if it has no port. *)
AddDefaultQueue(c, k) ==
    LET r == c.resources[k]
        bare == RemoveUnusedQueues([c EXCEPT !.resources[k].ports = {}])
        queue == [id |-> r.id, location |-> r.location]
    IN  IF HasPort(r, c) \/ IsVehicle(r) THEN c
        ELSE IF ~IsMachine(r) THEN bare
        ELSE [bare EXCEPT !.ports = IF \E p \in @ : p.id = r.id THEN @ ELSE @ \cup {queue},
                          !.resources[k].ports = {r.id}]

AddDefaultQueues(c) == FoldLeft(AddDefaultQueue, c, [k \in DOMAIN c.resources |-> k])

(* add_setup_states_to_machine: the setup states of a machine are those    *)
(* from or to a process it has; its other states stay.  The machine is the *)
(* first resource with the ID.                                             *)
Setups(r) == {s \in SetupStates : {s.origin, s.target} \cap r.processes # {}}

WithSetups(c, id) ==
    LET k == SelectInSeq(c.resources, LAMBDA r : r.id = id)
    IN  [c EXCEPT !.resources[k].states = (@ \ SetupStates) \cup Setups(c.resources[k])]

(* clean_out_breakdown_states_of_resources, for one resource: with default *)
(* breakdown states the states of every resource are set to those, and a   *)
(* setup state it had is gone.                                             *)
WithBreakdowns(r) ==
    LET mine == {b \in Breakdowns : b \in {<<"BSM">>} \cup {<<"BSP", p>> : p \in r.processes}}
    IN  CASE Breakdowns \ {<<"BST">>} # {} -> [r EXCEPT !.states = mine]
          [] Breakdowns = {<<"BST">>} -> [r EXCEPT !.states = {<<"BST">>}]
          [] OTHER -> r

CleanOutBreakdownStates(c) ==
    [c EXCEPT !.resources = [k \in DOMAIN @ |-> WithBreakdowns(@[k])]]

(* Mutant of SyncResourceDependencies: repairs only with a vehicle *)
SyncWithVehicles(c) ==
    IF c.dependency \in Ids(c) \/ Vehicles(c) = <<>> THEN c
    ELSE [c EXCEPT !.dependency = Head(Vehicles(c)).id]

(* A dependency on a resource that is gone moves to the first vehicle,     *)
(* else the first machine, else the first resource.                        *)
SyncResourceDependencies(c) ==
    IF c.dependency \in Ids(c) \/ c.resources = <<>> THEN c
    ELSE [c EXCEPT !.dependency = Head(Vehicles(c) \o Machines(c) \o c.resources).id]

(* The repairs at the end of mutation, crossover and random configuration *)
Repaired(c) == SyncResourceDependencies(CleanOutBreakdownStates(AddDefaultQueues(c)))

-----------------------------------------------------------------------------
(* Reconfigurations: the configurations a random choice can lead to *)

(* Mutant of FreshId: numbers by how many there are *)
CountedId(c, kind) == <<kind, Cardinality({id \in Ids(c) : id[1] = kind}) + 1>>

(* The smallest number no resource of that kind has: allocate_sequential_id *)
FreshId(c, kind) ==
    CHOOSE id \in {<<kind, n>> : n \in 1 .. (Len(c.resources) + 1)} :
        /\ id \notin Ids(c)
        /\ \A n \in 1 .. (id[2] - 1) : <<kind, n>> \in Ids(c)

FreePositions(c) == Positions \ {r.location : r \in Range(Machines(c))}

PossibleModules == {m \in Modules : m \subseteq Required}

(* The processes of the modules ms and of the models among them that are needed *)
Expanded(ms) == ((UNION ms) \cup UNION {Leaves[p] : p \in UNION ms}) \cap Required

(* get_grouped_processes_of_machine *)
ModulesOf(r) == {m \in PossibleModules : m \cap r.processes # {}}

ModuleSets == {ms \in SUBSET PossibleModules : Cardinality(ms) \in 1 .. MaxModules}

NewMachine(c, ms, at) ==
    [id |-> FreshId(c, "opt_machine"), location |-> at, processes |-> Expanded(ms),
     ports |-> {}, states |-> {}, tag |-> 0]

MachineAdded(c) ==
    {WithSetups(AddDefaultQueues([c EXCEPT !.resources = Append(@, NewMachine(c, ms, at))]),
                FreshId(c, "opt_machine")) :
        ms \in ModuleSets, at \in FreePositions(c)}

(* A vehicle needs a free position too, although it does not take it. *)
VehicleAdded(c) ==
    {AddDefaultQueues([c EXCEPT !.resources = Append(@,
        [id |-> FreshId(c, "opt_agv"), location |-> Origin, processes |-> {TransportProcess},
         ports |-> {}, states |-> {}, tag |-> 0])]) : at \in FreePositions(c)}

(* Only a resource that no dependency requires is removed. *)
Removed(c, indices) ==
    {[c EXCEPT !.resources = RemoveAt(@, k)] :
        k \in {j \in indices : c.resources[j].id # c.dependency}}

MachineIndices(c) == {k \in DOMAIN c.resources : IsMachine(c.resources[k])}
VehicleIndices(c) == {k \in DOMAIN c.resources : IsVehicle(c.resources[k])}

WithProcesses(c, k, ps) == [c EXCEPT !.resources[k].processes = @ \cup ps]
WithoutProcesses(c, k, ps) == [c EXCEPT !.resources[k].processes = @ \ ps]

ModuleAdded(c) ==
    {WithSetups(WithProcesses(c, k, Expanded({m})), c.resources[k].id) :
        k \in MachineIndices(c), m \in PossibleModules}

ModuleRemoved(c) ==
    UNION {{WithSetups(WithoutProcesses(c, k, Expanded({m})), c.resources[k].id) :
                m \in ModulesOf(c.resources[k])} : k \in MachineIndices(c)}

ModuleMoved(c) ==
    UNION {{WithSetups(WithSetups(WithProcesses(WithoutProcesses(c, k, Expanded({m})),
                                                j, Expanded({m})),
                                  c.resources[k].id), c.resources[j].id) :
                m \in ModulesOf(c.resources[k]), j \in MachineIndices(c) \ {k}} :
            k \in MachineIndices(c)}

(* The ports of the machine stay where they are. *)
MachineMoved(c) ==
    {[c EXCEPT !.resources[k].location = at] : k \in MachineIndices(c), at \in FreePositions(c)}

(* n machines or vehicles one after the other; adding one can fail. *)
Added(c, kind) == IF kind = "machine" THEN MachineAdded(c) ELSE VehicleAdded(c)

Several(c, n, kind) ==
    LET One(cs, k) == UNION {IF Added(d, kind) = {} THEN {d} ELSE Added(d, kind) : d \in cs}
    IN  FoldLeft(One, {c}, [k \in 1 .. n |-> k])

Kept(c, resources) == SelectSeq(resources, LAMBDA r : r.id = c.dependency)

(* get_random_production_capacity, get_random_transport_capacity: all but  *)
(* a required resource are replaced by new ones.                           *)
RandomProduction(c) ==
    LET rest == [c EXCEPT !.resources = Vehicles(c) \o Kept(c, Machines(c))]
    IN  {SyncResourceDependencies(d) :
            d \in UNION {Several(rest, n, "machine") : n \in 1 .. MaxMachines}}

RandomTransport(c) ==
    LET rest == [c EXCEPT !.resources = Machines(c) \o Kept(c, Vehicles(c))]
    IN  {SyncResourceDependencies(d) :
            d \in UNION {Several(rest, n, "vehicle") : n \in 1 .. MaxVehicles}}

(* check_valid_configuration without the cost *)
Valid(c) ==
    /\ Len(Machines(c)) <= MaxMachines
    /\ Len(Vehicles(c)) \in 1 .. MaxVehicles
    /\ \A r \in Range(c.resources) : Cardinality(ModulesOf(r)) <= MaxModules
    /\ Required \subseteq UNION {r.processes : r \in Range(c.resources)}
    /\ \A k, j \in DOMAIN Machines(c) :
           k # j => Machines(c)[k].location # Machines(c)[j].location
    /\ \A r \in Range(Machines(c)) : r.location \in Positions

(* random_configuration_with_initial_solution: a random configuration, or  *)
(* the initial one without a manipulation (with some: by Mutate).          *)
InitialConfigurations ==
    {Baseline} \cup
    {c \in {Repaired(d) : d \in UNION {RandomTransport(e) : e \in RandomProduction(Baseline)}} :
        Valid(c)}

-----------------------------------------------------------------------------
Init ==
    /\ elders \in [Individuals -> InitialConfigurations]
    /\ pop = elders
    /\ stage = 0
    /\ changes = 0

(* The configuration c after the resource objects it shares with d changed there *)
Shared(c, d) ==
    LET Seen(r) == LET same == {s \in Range(d.resources) : s.tag = r.tag}
                   IN  IF r.tag = 0 \/ same = {} THEN r ELSE CHOOSE s \in same : TRUE
    IN  [c EXCEPT !.resources = [k \in DOMAIN @ |-> Seen(@[k])]]

(* mutation of individual i, by an operator that can lead to cs *)
Mutate(i, cs) ==
    /\ stage <= i /\ changes < MaxChanges
    /\ \E c \in cs :
           LET done == Repaired(c)
           IN  pop' = [pop EXCEPT ![i] = done, ![Other(i)] = Shared(@, done)]
    /\ stage' = i + 1
    /\ changes' = changes + 1
    /\ UNCHANGED elders

AddMachine(i) == Mutate(i, MachineAdded(pop[i]))
AddTransportResource(i) == Mutate(i, VehicleAdded(pop[i]))
AddProcessModule(i) == Mutate(i, ModuleAdded(pop[i]))
RemoveMachine(i) == Mutate(i, Removed(pop[i], MachineIndices(pop[i])))
RemoveTransportResource(i) == Mutate(i, Removed(pop[i], VehicleIndices(pop[i])))
RemoveProcessModule(i) == Mutate(i, ModuleRemoved(pop[i]))
MoveProcessModule(i) == Mutate(i, ModuleMoved(pop[i]))
MoveMachine(i) == Mutate(i, MachineMoved(pop[i]))

(* An operator that fails and returns False, or one that changes only a    *)
(* policy of the configuration: the repairs follow all the same.           *)
FailOrChangePolicy(i) == Mutate(i, {pop[i]})

(* Crossover: the resources the two configurations get.  Exchanging part   *)
(* of the machines overwrites the first list before its end is taken: the  *)
(* first configuration gets all machines of the second, the second the     *)
(* last of its own again, and these are the same objects.                  *)
Bare(ms) == [k \in DOMAIN ms |-> [ms[k] EXCEPT !.ports = {}]]

Exchanged(kind) ==
    LET m1 == Bare(Machines(pop[1]))  m2 == Bare(Machines(pop[2]))
        t1 == Vehicles(pop[1])        t2 == Vehicles(pop[2])
        n == IF Len(m1) <= Len(m2) THEN Len(m1) ELSE Len(m2)
        tagged == [k \in DOMAIN m2 |-> IF k > n THEN [m2[k] EXCEPT !.tag = k] ELSE m2[k]]
    IN  CASE kind = "machine" -> <<t1 \o m2, t2 \o m1>>
          [] kind = "partial_machine" -> <<t1 \o tagged, t2 \o SubSeq(m1, 1, n)
                                                            \o SubSeq(tagged, n + 1, Len(tagged))>>
          [] kind = "transport_resource" -> <<m1 \o t2, m2 \o t1>>

IsShared(r) == r.tag # 0

Crossover(kind) ==
    /\ stage = 0 /\ changes < MaxChanges
    /\ LET given == Exchanged(kind)
           Given(i) == RemoveUnusedQueues([pop[i] EXCEPT !.resources = given[i]])
           first == Repaired(Given(1))
           second == Repaired(Shared(Given(2), first))
           mixed == \/ pop[1].mixed \/ pop[2].mixed
                    \/ \E r \in Range(given[1]) : IsShared(r)
       IN  pop' = [i \in Individuals |->
                       [(IF i = 1 THEN Shared(first, second) ELSE second) EXCEPT !.mixed = mixed]]
    /\ stage' = 1
    /\ changes' = changes + 1
    /\ UNCHANGED elders

(* The next generation: any two of the old and the new individuals, cloned *)
Cloned(c) == [c EXCEPT !.resources = [k \in DOMAIN @ |-> [@[k] EXCEPT !.tag = 0]]]

Select ==
    /\ stage > 0 /\ changes < MaxChanges
    /\ \E a, b \in Range(elders) \cup Range(pop) :
           /\ elders' = <<Cloned(a), Cloned(b)>>
           /\ pop' = elders'
    /\ stage' = 0
    /\ UNCHANGED changes

Next ==
    \/ \E i \in Individuals :
           \/ AddMachine(i) \/ RemoveMachine(i) \/ MoveMachine(i)
           \/ AddTransportResource(i) \/ RemoveTransportResource(i)
           \/ AddProcessModule(i) \/ RemoveProcessModule(i) \/ MoveProcessModule(i)
           \/ FailOrChangePolicy(i)
    \/ \E kind \in {"machine", "partial_machine", "transport_resource"} : Crossover(kind)
    \/ Select

Spec == Init /\ [][Next]_vars

-----------------------------------------------------------------------------
(* Properties.  They hold between the operations.  mixed marks a pair      *)
(* whose machines were exchanged in part: two machines of one of them can  *)
(* have the same ID or stand at the same place.                            *)

(* The resource dependency of a configuration names one of its own         *)
(* resources, whatever was removed from it or exchanged: "Ensure that      *)
(* resource dependencies always reference existing resources."             *)
DependenciesResolve ==
    \A i \in Individuals :
        pop[i].resources # <<>> => \E k \in DOMAIN pop[i].resources :
                                       pop[i].resources[k].id = pop[i].dependency

(* Every machine can be reached: its port is a port of its configuration,  *)
(* also when the machine object is in both configurations.                 *)
PortsListed ==
    \A i \in Individuals : \A k \in DOMAIN pop[i].resources :
        LET r == pop[i].resources[k]
        IN  r.processes \cap ProductionProcesses # {} =>
                r.ports # {} /\ r.ports \subseteq {p.id : p \in pop[i].ports}

(* IDs are given again when their resource is gone, and configurations     *)
(* with the same IDs exchange resources; still no two resources of one     *)
(* configuration have the same ID, unless machines were mixed.             *)
IdsUnique ==
    \A i \in Individuals : ~pop[i].mixed =>
        \A k, j \in DOMAIN pop[i].resources :
            pop[i].resources[k].id = pop[i].resources[j].id => k = j

=============================================================================
