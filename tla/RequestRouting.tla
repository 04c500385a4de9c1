--------------------------- MODULE RequestRouting ---------------------------
(***************************************************************************)
(* How requests find their resources (simulation/router.py and             *)
(* request_handler.py): the routing loop and the events that wake it, the  *)
(* ports a product is taken from and brought to (interaction_handler.py),  *)
(* the transport in between, and the workers that a resource or a process  *)
(* model requires, from the request to the release                         *)
(* (process_handlers/dependency_process_handler.py).                       *)
(*                                                                         *)
(* A product asks for the same process several times, as in a chain of     *)
(* equal operations; ProcessModel has the order of different ones.  Every  *)
(* resource has one place, its queues have space, and a controller accepts *)
(* any waiting request: Controller and PortQueue model that part.          *)
(***************************************************************************)
EXTENDS Integers, FiniteSets, Sequences, Lists

CONSTANTS
    Products,
    Passes,         \* Passes[p]: how often p asks for its process
    Stations,       \* the resources that produce
    Able,           \* Able[p]: the stations whose process matches
    Inputs,         \* Inputs[s]: INPUT and INPUT_OUTPUT ports of station s
    Outputs,        \* Outputs[s]: OUTPUT and INPUT_OUTPUT ports
    Start,          \* Start[p]: the source port p is created at
    Movers,         \* resources with a transport process
    Workers,        \* resources that others depend on
    Dependencies,
    Candidates,     \* Candidates[d]: the workers that satisfy d
    ByName,         \* dependencies of type RESOURCE, the rest is PROCESS
    Needs,          \* Needs[r]: dependencies of station or mover r
    ModelNeeds,     \* ModelNeeds[p]: dependencies of p's process model
    Schedule,       \* start events by time: the resource of a product's step,
                    \* or the worker that moves to help a product with a need
    NoOne

Resources == Stations \cup Movers \cup Workers
Places == UNION {Inputs[s] \cup Outputs[s] : s \in Stations}
          \cup {Start[p] : p \in Products}

(* Requests, by their keys: the process model of a product, a step of it,  *)
(* the transport to the step, and the workers somebody needs.              *)
Model(p) == <<"model", p, NoOne>>
Step(p) == <<"step", p, NoOne>>
Move(p) == <<"move", p, NoOne>>
Need(p, d) == <<"need", p, d>>
Requests == {Model(p) : p \in Products} \cup {Step(p) : p \in Products}
            \cup {Move(p) : p \in Products}
            \cup {Need(p, d) : p \in Products, d \in Dependencies}
Kind(k) == k[1]
ItemOf(k) == k[2]
DependencyOf(k) == k[3]

(* Scheduled events that matter here, in the order of their schedule():    *)
(* got_requested or resource_got_free, the condition that resumes the loop,*)
(* and processing_finished of a step or completed of a model.              *)
Signal == <<"signal">>
Loop == <<"loop">>

Free == <<>>
Active == {"asking", "staffing", "working", "unloading", "coming", "attending"}
Stages == Active \cup {"idle", "pending", "routed", "carried", "queued", "left"}

ASSUME ResourcesAssumption ==
    /\ Stations \cap Movers = {} /\ Stations \cap Workers = {}
    /\ NoOne \notin Resources
    /\ Able \in [Products -> SUBSET Stations]
    /\ Candidates \in [Dependencies -> SUBSET Workers]
    /\ Needs \in [Resources -> Seq(Dependencies)]
    /\ ModelNeeds \in [Products -> Seq(Dependencies)]
ASSUME PlansAssumption ==
    /\ Passes \in [Products -> Nat]
    /\ Schedule \in Seq([product : Products, resource : Resources,
                         need : Dependencies \cup {NoOne}])
    /\ NoOne \notin Dependencies
    /\ \A i \in DOMAIN Schedule :
           Schedule[i].resource \in (IF Schedule[i].need = NoOne THEN Stations ELSE Workers)

VARIABLES
    pending,      \* RequestHandler.pending_resource_requests
    agenda,       \* the scheduled events named above
    routing,      \* the routing loop is between two of its iterations
    stage,        \* stage[k]: how far request k has come
    resource,     \* resource[k]: the resource k was routed to
    bound,        \* bound[w]: the request w is bound for, or Free
    at,           \* at[p]: the port p is in
    ports,        \* ports[p]: origin and target queue of p's step
    passed,       \* passed[p]: completed steps
    stationPlan,  \* schedule_routing_map
    workerPlan    \* dependency_move_routing_map

vars == <<pending, agenda, routing, stage, resource, bound, at, ports, passed,
          stationPlan, workerPlan>>
plans == <<stationPlan, workerPlan>>
products == <<at, ports, passed>>

TypeOK ==
    /\ pending \in Seq(Requests)
    /\ agenda \in Seq(Requests \cup {Signal, Loop}) /\ routing \in BOOLEAN
    /\ stage \in [Requests -> Stages]
    /\ resource \in [Requests -> Resources \cup {NoOne}]
    /\ bound \in [Workers -> Requests \cup {Free}]
    /\ at \in [Products -> Places] /\ ports \in [Products -> Places \X Places]
    /\ passed \in [Products -> Nat]
    /\ stationPlan \in [Products -> Seq(Stations)]
    /\ workerPlan \in [Products \X Dependencies -> Seq(Workers)]

(* The schedule by what it is for, in the order of time *)
PlanFor(p, need) ==
    LET events == SelectSeq(Schedule, LAMBDA e : e.product = p /\ e.need = need)
    IN  [i \in DOMAIN events |-> events[i].resource]

StationPlan == [p \in Products |-> PlanFor(p, NoOne)]
WorkerPlan == [x \in Products \X Dependencies |-> PlanFor(x[1], x[2])]

Init ==
    /\ pending = <<>> /\ agenda = <<>> /\ routing = FALSE
    /\ stage = [k \in Requests |-> "idle"]
    /\ resource = [k \in Requests |-> NoOne]
    /\ bound = [w \in Workers |-> Free]
    /\ at = Start /\ ports = [p \in Products |-> <<Start[p], Start[p]>>]
    /\ passed = [p \in Products |-> 0]
    /\ stationPlan = StationPlan /\ workerPlan = WorkerPlan

-----------------------------------------------------------------------------
(* The events of the routing loop.                                         *)

Scheduled(e) == \E i \in DOMAIN agenda : agenda[i] = e

(* An event succeeds unless it is triggered; the loop replaces it when it  *)
(* resumes, one event after it was woken.                                  *)
Signalled(events) ==
    IF Scheduled(Signal) \/ Scheduled(Loop) THEN agenda \o events
    ELSE agenda \o events \o <<Signal>>

WakeLoop ==
    /\ ~routing /\ agenda # <<>> /\ Head(agenda) = Signal
    /\ agenda' = Append(Tail(agenda), Loop)
    /\ UNCHANGED <<pending, routing, stage, resource, bound, products, plans>>

ResumeLoop ==
    /\ ~routing /\ agenda # <<>> /\ Head(agenda) = Loop
    /\ agenda' = Tail(agenda) /\ routing' = TRUE
    /\ UNCHANGED <<pending, stage, resource, bound, products, plans>>

(* get_next_resource_request_to_route: all resources count as free, except *)
(* bound ones for a dependency of type PROCESS.                            *)
Options(k) ==
    CASE Kind(k) = "step" -> Able[ItemOf(k)]
      [] Kind(k) = "move" -> Movers
      [] Kind(k) = "need" ->
           {w \in Candidates[DependencyOf(k)] :
                DependencyOf(k) \in ByName \/ bound[w] = Free}

Routable(i) ==
    /\ Options(pending[i]) # {}
    /\ \A j \in 1 .. i - 1 : Options(pending[j]) = {}

(* The heuristic built from a schedule: the planned resource, or what the  *)
(* fallback picks when that one is no option.                              *)
Planned(plan, options) ==
    IF plan # <<>> /\ Head(plan) \in options THEN {Head(plan)} ELSE options
Consumed(plan, options) ==
    IF plan # <<>> /\ Head(plan) \in options THEN Tail(plan) ELSE plan

(* A transport may go to any mover: a heuristic built from a schedule      *)
(* prefers the mover that is planned, which is one of these.               *)
Choices(k) ==
    CASE Kind(k) = "step" -> Planned(stationPlan[ItemOf(k)], Options(k))
      [] Kind(k) = "move" -> Options(k)
      [] Kind(k) = "need" ->
           Planned(workerPlan[<<ItemOf(k), DependencyOf(k)>>], Options(k))

Route ==
    /\ routing
    /\ \E i \in DOMAIN pending :
         LET k == pending[i] IN
         /\ Routable(i)
         /\ \E r \in Choices(k) : resource' = [resource EXCEPT ![k] = r]
         /\ stage' = [stage EXCEPT ![k] = "routed"]
         /\ pending' = SubSeq(pending, 1, i - 1)
                       \o SubSeq(pending, i + 1, Len(pending))
         /\ stationPlan' =
              IF Kind(k) # "step" THEN stationPlan
              ELSE [stationPlan EXCEPT ![ItemOf(k)] = Consumed(@, Options(k))]
         /\ workerPlan' =
              IF Kind(k) # "need" THEN workerPlan
              ELSE [workerPlan EXCEPT ![<<ItemOf(k), DependencyOf(k)>>] =
                        Consumed(@, Options(k))]
    /\ UNCHANGED <<agenda, routing, bound, products>>

Sleep ==
    /\ routing /\ \A i \in DOMAIN pending : Options(pending[i]) = {}
    /\ routing' = FALSE
    /\ UNCHANGED <<pending, agenda, stage, resource, bound, products, plans>>

-----------------------------------------------------------------------------
(* The process model of a product and its steps.                           *)

NeedsOf(k) ==
    IF Kind(k) = "model" THEN ModelNeeds[ItemOf(k)]
    ELSE IF resource[k] = NoOne THEN <<>>
    ELSE Needs[resource[k]]
WorkersOf(k) == {Need(ItemOf(k), NeedsOf(k)[i]) : i \in DOMAIN NeedsOf(k)}

(* request_processing; the handler opens the model's dependencies. *)
Enter(p) ==
    /\ ~routing /\ stage[Model(p)] = "idle"
    /\ stage' = [stage EXCEPT ![Model(p)] =
                    IF ModelNeeds[p] = <<>> THEN "working" ELSE "asking"]
    /\ agenda' = Signalled(<<>>)
    /\ UNCHANGED <<pending, routing, resource, bound, products, plans>>

(* request_process_step.  The product was resumed by completed of its last *)
(* step, which fired after processing_finished.                            *)
Ask(p) ==
    /\ ~routing /\ stage[Model(p)] = "working" /\ stage[Step(p)] = "idle"
    /\ passed[p] < Passes[p] /\ ~Scheduled(Step(p))
    /\ stage' = [stage EXCEPT ![Step(p)] = "pending"]
    /\ pending' = Append(pending, Step(p)) /\ agenda' = Signalled(<<>>)
    /\ UNCHANGED <<routing, resource, bound, products, plans>>

(* Dedicated outputs first, then another port than the origin, then any.   *)
TargetPorts(s, origin) ==
    LET dedicated == Outputs[s] \ Inputs[s]
        others == Outputs[s] \ {origin} IN
    IF dedicated # {} THEN dedicated
    ELSE IF others # {} THEN others ELSE Outputs[s]

InPlace(p, origin) == at[p] = origin

(* execute_resource_routing of a step: the ports are drawn, and a product  *)
(* that stands elsewhere is brought to the origin port first.              *)
FindPorts(p) ==
    /\ ~routing /\ stage[Step(p)] = "routed"
    /\ \E origin \in Inputs[resource[Step(p)]] :
         /\ \E target \in TargetPorts(resource[Step(p)], origin) :
              ports' = [ports EXCEPT ![p] = <<origin, target>>]
         /\ IF InPlace(p, origin)
            THEN /\ stage' = [stage EXCEPT ![Step(p)] = "queued"]
                 /\ UNCHANGED <<pending, agenda>>
            ELSE /\ stage' = [stage EXCEPT ![Step(p)] = "carried",
                                           ![Move(p)] = "pending"]
                 /\ pending' = Append(pending, Move(p))
                 /\ agenda' = Signalled(<<>>)
    /\ UNCHANGED <<routing, resource, bound, at, passed, plans>>

(* transport_to_target has fired. *)
Arrived(p) ==
    /\ ~routing /\ stage[Step(p)] = "carried" /\ stage[Move(p)] = "idle"
    /\ stage' = [stage EXCEPT ![Step(p)] = "queued"]
    /\ UNCHANGED <<pending, agenda, routing, resource, bound, products, plans>>

(* execute_resource_routing of a transport or a worker. *)
HandOver(k) ==
    /\ ~routing /\ stage[k] = "routed" /\ Kind(k) \in {"move", "need"}
    /\ stage' = [stage EXCEPT ![k] = "queued"]
    /\ UNCHANGED <<pending, agenda, routing, resource, bound, products, plans>>

-----------------------------------------------------------------------------
(* Controllers and handlers.                                               *)

Occupied(r) == \E k \in Requests : resource[k] = r /\ stage[k] \in Active
IsBound(r) == r \in Workers /\ bound[r] # Free

(* The control loop accepts a request, and a worker is bound by that; the  *)
(* handler begins and asks for what its resource depends on.  A worker of   *)
(* these cells depends on nobody, so its handler asks for nothing.          *)
Accept(k) ==
    /\ ~routing /\ stage[k] = "queued"
    /\ ~Occupied(resource[k]) /\ ~IsBound(resource[k])
    /\ IF Kind(k) = "need"
       THEN /\ stage' = [stage EXCEPT ![k] = "coming"]
            /\ bound' = [bound EXCEPT ![resource[k]] = k]
       ELSE /\ stage' = [stage EXCEPT ![k] =
                            IF NeedsOf(k) = <<>> THEN "working" ELSE "asking"]
            /\ bound' = bound
    /\ UNCHANGED <<pending, agenda, routing, resource, products, plans>>

(* Mutant of Announced: no handler of dependencies wakes the loop. *)
AnnouncedMutant(k) == agenda

(* _handle_process_model_dependencies adds its requests and fires nothing  *)
(* for a worker.                                                           *)
Announced(k) == IF Kind(k) = "model" THEN agenda ELSE Signalled(<<>>)

(* get_dependencies: all requests at once, in the order of the list.       *)
RequestWorkers(k) ==
    /\ ~routing /\ stage[k] = "asking"
    /\ stage' = [n \in Requests |->
                    IF n = k THEN "staffing"
                    ELSE IF n \in WorkersOf(k) THEN "pending" ELSE stage[n]]
    /\ pending' = pending
         \o [i \in DOMAIN NeedsOf(k) |-> Need(ItemOf(k), NeedsOf(k)[i])]
    /\ agenda' = Announced(k)
    /\ UNCHANGED <<routing, resource, bound, products, plans>>

(* The worker has come to the interaction node: completed fires. *)
Attend(k) ==
    /\ ~routing /\ stage[k] = "coming"
    /\ stage' = [stage EXCEPT ![k] = "attending"]
    /\ UNCHANGED <<pending, agenda, routing, resource, bound, products, plans>>

(* Mutant of Staffed: the first completion is enough. *)
StaffedByAny(k) == \E n \in WorkersOf(k) : stage[n] = "attending"

(* Every completion event is waited for. *)
Staffed(k) == \A n \in WorkersOf(k) : stage[n] = "attending"

Begin(k) ==
    /\ ~routing /\ stage[k] = "staffing" /\ Staffed(k)
    /\ stage' = [stage EXCEPT ![k] = "working"]
    /\ UNCHANGED <<pending, agenda, routing, resource, bound, products, plans>>

(* The process time is over: processing_finished fires before the product  *)
(* is unloaded.                                                            *)
FinishWork(p) ==
    /\ ~routing /\ stage[Step(p)] = "working"
    /\ stage' = [stage EXCEPT ![Step(p)] = "unloading"]
    /\ agenda' = Append(agenda, Step(p))
    /\ UNCHANGED <<pending, routing, resource, bound, products, plans>>

(* Mutant of Released: the worker's controller is not told that it is free. *)
ReleasedMutant(k) == bound

Released(k) ==
    [w \in Workers |-> IF bound[w] \in WorkersOf(k) THEN Free ELSE bound[w]]

(* release_from_dependant of every worker that waits for the event. *)
ReleaseWorkers(k) ==
    /\ ~routing /\ agenda # <<>> /\ Head(agenda) = k
    /\ agenda' = Tail(agenda) /\ bound' = Released(k)
    /\ stage' = [n \in Requests |->
                    IF n \in WorkersOf(k) THEN "idle" ELSE stage[n]]
    /\ UNCHANGED <<pending, routing, resource, products, plans>>

(* The product is in the output port: mark_finished_process and            *)
(* mark_finished_request.                                                  *)
Complete(p) ==
    /\ ~routing /\ stage[Step(p)] = "unloading"
    /\ stage' = [stage EXCEPT ![Step(p)] = "idle"]
    /\ at' = [at EXCEPT ![p] = ports[p][2]]
    /\ passed' = [passed EXCEPT ![p] = @ + 1]
    /\ agenda' = Signalled(<<>>)
    /\ UNCHANGED <<pending, routing, resource, bound, ports, plans>>

(* A transport ends; it fires no processing_finished. *)
Deliver(p) ==
    /\ ~routing /\ stage[Move(p)] = "working"
    /\ stage' = [stage EXCEPT ![Move(p)] = "idle"]
    /\ at' = [at EXCEPT ![p] = ports[p][1]] /\ agenda' = Signalled(<<>>)
    /\ UNCHANGED <<pending, routing, resource, bound, ports, passed, plans>>

(* The model is finished: completed releases its workers. *)
Leave(p) ==
    /\ ~routing /\ stage[Model(p)] = "working" /\ stage[Step(p)] = "idle"
    /\ passed[p] = Passes[p] /\ ~Scheduled(Step(p))
    /\ stage' = [stage EXCEPT ![Model(p)] = "left"]
    /\ agenda' = Signalled(<<Model(p)>>)
    /\ UNCHANGED <<pending, routing, resource, bound, products, plans>>

Router == WakeLoop \/ ResumeLoop \/ Route \/ Sleep
Next ==
    \/ Router
    \/ \E p \in Products : \/ Enter(p) \/ Ask(p) \/ FindPorts(p) \/ Arrived(p)
                           \/ FinishWork(p) \/ Complete(p) \/ Deliver(p)
                           \/ Leave(p)
    \/ \E k \in Requests : \/ HandOver(k) \/ Accept(k) \/ RequestWorkers(k)
                           \/ Attend(k) \/ Begin(k) \/ ReleaseWorkers(k)

Spec == Init /\ [][Next]_vars
(* SimPy runs on as long as an event is scheduled. *)
FairSpec == Spec /\ WF_vars(Next)

-----------------------------------------------------------------------------
(* A request for a worker of a process, or of a process model, may be        *)
(* overlooked; a product's never: whenever the loop sleeps and nothing is    *)
(* about to wake it, no step, no transport and no request of a worker by     *)
(* name for a step is pending.                                               *)
ProductsNeverForgotten ==
    ~routing /\ ~Scheduled(Signal) /\ ~Scheduled(Loop) =>
        \A i \in DOMAIN pending :
            /\ Kind(pending[i]) = "need"
            /\ \/ DependencyOf(pending[i]) \notin ByName
               \/ stage[Model(ItemOf(pending[i]))] = "staffing"

(* Between its start and the end of its process time every piece of work   *)
(* has all its workers, each bound to it and to nothing else.              *)
StaffedWork ==
    \A k \in Requests : stage[k] = "working" =>
        \A n \in WorkersOf(k) : stage[n] = "attending" /\ bound[resource[n]] = n

(* A worker stays bound only as long as the request it came for waits or   *)
(* works: nothing keeps it when the step or the model is over.             *)
NoWorkerKept ==
    \A w \in Workers : bound[w] # Free =>
        \E k \in Requests :
            /\ bound[w] \in WorkersOf(k)
            /\ stage[k] \in {"staffing", "working"} \/ Scheduled(k)

(* A worker that was requested by name is not sent for a process as well,  *)
(* as request_handler.py:537 has it.  The code breaks this where a worker  *)
(* that is named is also in a pool (README, section 4).                    *)
NamedWorkersKept ==
    \A k, n \in Requests :
        /\ Kind(k) = "need" /\ Kind(n) = "need" /\ k # n
        /\ DependencyOf(k) \in ByName /\ DependencyOf(n) \notin ByName
        /\ stage[k] \in {"routed", "queued", "coming", "attending"}
        /\ stage[n] \in {"routed", "queued", "coming", "attending"}
        => resource[k] # resource[n]

(* Every product leaves, unless it waits for a worker of its process model. *)
EveryProductLeaves ==
    \A p \in Products : ModelNeeds[p] = <<>> => <>(stage[Model(p)] = "left")
=============================================================================
