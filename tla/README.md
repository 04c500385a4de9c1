# Formal models of the prodsys simulation core

prodsys is a discrete-event simulator of production systems. It runs on SimPy: every activity is a Python
generator that sleeps on events, and the kernel resumes one generator at a time. The behaviours that are hard to
test are therefore not data races but *orders*: which generator runs first at one instant, which event object a
generator waits for after somebody has replaced it, what a counter that was read before a `yield` is worth after
it, and what happens to the other parts of the system when one of several steps fails.

This directory holds TLA+ modules of that core, the TLC configurations that check them on small instances, and
TLAPS proofs of their main properties for every instance. Paths below are relative to `prodsys/simulation/` unless
they start with another directory.

## 1. Inventory

### Parts, their state and their operations

| part | code | state | operations |
|---|---|---|---|
| Port queue, store | `port.py`, `standby_logging.py` | items, `_pending_put`, the events `on_space` and `on_item` | `reserve`, `put`, `get`, `get_and_reserve_return` |
| Controller of a resource | `control.py`, `lot_handler.py` | list of requests, `num_running_processes`, `reserved_requests_count`, `Resource.full`, `Resource.bound`, the event `state_changed` | `request`, the control loop, `mark_started_process`, `mark_finished_process`, `reserve_output_queue`, lots |
| Process handlers | `process_handlers/*.py` | one generator per accepted request | set up, claim, load, run a state, unload, complete |
| States of a resource | `state.py`, `resources.py` | per state `done_in`, `start`, `interrupted`, `active`; per resource the event `active` and the flags of the downtimes | `process_state`, `interrupt_process`, `activate`, `deactivate` |
| Process models | `process_models.py`, `process_handlers/system_process_model_process_handler.py` | marking of a precedence graph, lists of open failures, the product's verdict | ask for the next process, mark, note a failure, strike one off |
| Router, request handler | `router.py`, `request_handler.py`, `interaction_handler.py` | pending and routed requests, the events `got_requested`, `resource_got_free`, `got_primitive_request` | three routing loops, one generator per routed request, completion |
| Tools, carriers, parts | `dependency.py`, `entities/primitive.py` | `bound`, `_current_locatable`, pools of free entities, `depended_entities` of a product | request, bring, bind, use, return |
| Setup of a resource | `resources.py`, `process_handlers/setup_process_handler.py` | `current_setup`, `reserved_setup`, `pending_setup` | `setup`, `reserve_setup`, capacity under a setup |
| Release and completion | `source.py`, `order_source.py`, `sink.py`, `schedule_completion.py` | released products, CONWIP count, expected and finished counts | create, release, finish, complete the schedule |
| Optimisation | `optimization/adapter_manipulation.py`, `tabu_search.py`, `optimizer.py`, `util.py`, `evolutionary_algorithm.py` | two configurations that may share objects, IDs given so far, scores by ID and by hash | mutate, cross over, draw at random, repair; name, score, choose |
| Configuration and evaluation | `prodsys/models`, `factories`, `express`, `analytics`, `util`, `control` | none during the run | build the objects, read the log |

### How they interact

A source creates a product, puts it into its output queue and starts a generator that asks the *router* for the
product's process model. The *process model* handler asks the router for one process at a time. The router picks
resource and process, has the product transported to the resource's port if necessary, and hands the request to
the resource's *controller*. The controller's loop sleeps on `state_changed`; when woken it starts at most one
request, after reserving capacity (and, for a transport, slots of the target *queue*), and spawns a *handler*. The
handler takes the product from the origin queue, runs a *state* of the resource, puts the product into the target
queue, gives the capacity back and tells the router, which fires the request's completion event and wakes every
controller. Tools and parts are brought by requests of their own before the handler starts. Breakdowns, shifts and
maintenance are further generators that interrupt the states of their resource.

Shared state without a lock: the queue's reservation counter (handlers of several resources), the capacity
counters and the flag `full` (loop and handlers), the events that are replaced after they fire, the verdict on a
process (all products of a lot), the lists of a product's depended entities.

### What is hard in it

`PROJECT.json` lists the hazards at their lines. In short:

- *events that are replaced*: a generator that read the old event, or asks too late, is never woken (queues,
  controller, states);
- *read, wait, use*: fullness, free capacity, setup and location are read when a request is accepted and used
  after a transport or a changeover;
- *claims that must pair up*: reservations of slots and capacity, binding of workers and tools, over handlers
  that sleep in between;
- *several causes for one effect*: downtimes and process breakdowns overlap on one state, failures share a
  rework, products share a lot;
- *loops that go back to sleep*: each must leave nothing behind that it could still start, and each must sleep at
  all: a `continue` before the `yield` stops simulated time;
- *names that stand for objects*: IDs of products, of workers' requests and of configurations are reused or shared
  while somebody still goes by them.

## 2. Modules

| module | models | extends or uses |
|---|---|---|
| `PortQueue` | a queue or store with its callers | |
| `Controller` | one resource's controller, the handlers' claims, lots, one target queue | `Lists` |
| `StateInterrupts` | the states of one resource with its downtimes and process breakdowns | |
| `Recipe` | abstract specification: what following a process model promises | |
| `ProcessModel` | the generator that follows a precedence graph, with reworks and lots | instance of `Recipe` |
| `EntityRouting` | tools of products and parts of processes: pool, routing loop, transports, return | |
| `Changeover` | the setups of one resource, with and without a schedule, and the scheduled part of its controller | |
| `ProductRelease` | sources, order sources, CONWIP, IDs, sinks and the end of a scheduled run | |
| `RequestRouting` | the router's loop for resources, ports, transports and workers, over several stations | `Lists` |
| `Reconfiguration` | what the optimiser does to configurations: mutation, crossover, repair | |
| `SolutionCache` | the tabu search with its names and scores of configurations | |
| `MC...` | instances for TLC | the module of the name |
| `...Proofs` | theorems and proofs | the module of the name, TLAPS, library theorems |
| `Lists` | removing a set of elements from a list | |

One rule for granularity holds everywhere: a step is what a generator does between two `yield`s, with everything
that SimPy runs inside it (a handler's prefix up to its first wait, an interrupt that is raised). Within an instant
the modules allow *every* order of the generators that are due, where SimPy has one fixed order (priority, then
first in, first out). What is proved or checked therefore holds for SimPy's order too; a counterexample was
compared with SimPy's order before it was written down as a finding.

### PortQueue

`items` is `Queue.items`, `pending` is `_pending_put`. `putter[i]` and `getter[i]` say where the one caller that
brings or fetches item `i` is: `asleep` on an event, `woken` by it and not resumed yet. The events themselves need
no variable, because a notification wakes exactly those who sleep at that moment. `PutConsumes`, `PutFree`,
`PutSleeps`, `PutResumes` are the branches of `put`; `Get`, `GetSleeps` the loop of `get` and
`get_and_reserve_return`; `Reserve` is a controller's check of `is_full` together with `reserve`, which run without
a `yield` in between. `Reservers`, `Plain` and `Returning` are the three ways the handlers call a queue.
`OwnCount = FALSE` is a store whose callers look at a `StorePort`, which copies the capacity and never sees an item.

### Controller

`requests`, `triggered` (of `state_changed`), `full`, `running`, `reserved` and `bound` are the fields of the
controller and its resource. `stage[r]` follows a request from the list through its handler; `need`, `blocked` and
`lot` are what its handler holds. `Wake...` are the four ways one turn of the loop can go: nothing to start; the
selected request lacks a lot and moves to the end of the list; a request, with its lot, is taken off the list,
claims capacity, target slots or the binding, and its handler runs to its first wait; or the lot exceeds the target
and `reserve_output_queue` raises in the middle. `Start` and `Finish` are `mark_started_process` and the end of the
handler up to `mark_finished_process`. `NeighbourTakes` and `NeighbourCompletes` are the resource behind the target
queue: the slot is free some time before the router triggers this controller.

### StateInterrupts

`phase[s]` is the point `process_state` is at; `doneIn`, `spent` and `early` are `done_in`, `now - start` and
`start == 0`, which the code also uses as "never started". The waits name the *event objects* they are for: the resource's
(`awaitsUp`), the state's own (`awaitsActive`), the runs a changeover waits for (`awaitsRuns`), or one that was
replaced before it fired (`stuck`). `BeginDown` and `EndDown` are the downtimes of the whole resource, `FailureDue`,
`BeginFailure` and `EndFailure` those of one process. `Inactive` are the states that a process breakdown finds down
when it is due, and waits for before it takes them down itself, so that breakdowns of one process take turns. `Tick`
lets one unit of time pass when nothing of the instant is left (`Pending`). `planned` and `worked` are observers and
are read by no action.

### ProcessModel and Recipe

`phase[p]` is where the product's generator is; `marked`, `blocking` and `nonblocking` are the marking and the two
lists of rework mappings; `current` and `failed` are `current_process` and `last_process_failed`. `Route` is the
router's choice among what was asked for, `Execute` a production by a resource for one product or a lot.
`spoilt` and `executed` are observers: what really happened, next to what the product was told.
`Recipe` says what this is for: `Make` a node when its predecessors are made and nothing urgent is open, `Repair`,
`Leave` finished and repaired. The refinement maps the marking to the finished nodes and the two lists to the open
defects.

### EntityRouting

A demand `<<p, k, j>>` is the j-th entity that product `p` needs for its process `k`, or for itself (`k = 0`: a tool).
`pool` and `pending` are `Router.free_primitives_by_type` (all types in one list) and
`RequestHandler.pending_primitive_requests`; `signalled` is `got_primitive_request.triggered`, and `dealing` holds
while the routing loop is awake, when nothing else runs. `task[e]` is where `execute_entity_routing` is with an
entity: `Deal`, `Bind`, `Deliver`, then `Spend` for a part, `TakeBack` and `Release` for a tool. `at[q]` is
`Queue.items` and `loc[e]` is `_current_locatable`: the code keeps them apart, and so does the module, because the
end of a product (`Leave`) lists its tools at the sink while they stand where they were brought. `CurrentLocatable`
follows the binding, as the property of the code does. `PartsInPool` is the controller's check before it accepts a
product (`Start`); it reserves nothing. `Promise` is the acceptance of a transport to a store that is not full,
`Load` and `Unload` are the transport handler.

### Changeover

`current`, `reserved` and `pending` are the three setup fields of a resource, `running` and `held` its counters, and
`requests`, `triggered` and `delayed` the control loop, which may also sleep on a timeout until the planned start of
a changeover. A request is a job and its kind; `stage[r]` follows it through `Resource.setup` (`trivial`, `joining`,
`clearing`, `changing`, `working`) and through production. `awaits[r]` is the list of processes a setup collected
before it slept, which does not grow when others start. `WakeInVain`, `WakeAndInject`, `WakeAndCreate`,
`WakeAndDelay`, `WakeWithoutRoom` and `WakeAndStart` are the ways of one turn of the loop. The times of the plan are
abstracted to `due`, how many of its events have come. `ConsistentPlan` is what a recorded schedule looks like.
`AllFinished` is the one place where time matters otherwise: a changeover that is over is finished at that instant,
while processing takes time, so no production ends in between.

### ProductRelease

`pc[s]` and `wake[s]` are the generator of a source, `register` is the dictionary of the product factory, of which
CONWIP counts the entries, `made`, `ports`, `shop` and `finished` say where the products are. `OwnEvents` is the
division of the schedule among the sources, `Items`, `Matched` and `Prescribed` the match of orders with it.
`Hang` is the `continue` that goes back to the top of the loop without a `yield`: after it nothing runs any more.

### RequestRouting

A request is its key: the process model of a product, a step, the transport to it, or a worker that somebody needs.
`pending` is the list the routing loop goes through, `agenda` the events of SimPy that matter here in their order:
the signal that wakes the loop, its resumption one event later, and the ends that release workers. Everybody who
signals while the loop is about to resume relies on its looking at the whole list. `Options` and `Choices` are the
filter and the heuristic, `FindPorts` draws the ports, `Accept` binds a worker, `ReleaseWorkers` gives it back.

### Reconfiguration and SolutionCache

`Reconfiguration` has two configurations that may share objects (`tag`), because a crossover moves the same resource
object into both. A mutation is the set of configurations it may lead to; `Repaired` are the repairs that end each
of them. `SolutionCache` keeps the two dictionaries of the optimizer, by hash and by ID, and the search's own three
configurations; what a simulation returns is a function of the point.

## 3. Runs

| run | instance | shows |
|---|---|---|
| `MCPortQueue_mixed` | 5 items, 2 slots, all kinds of callers, symmetric | capacity, no lost wake-up and no leaked reservation in every order |
| `MCController_mixed` | 2 places; 2 productions, 2 transports to 1 slot, 1 dependency | counters, flags, binding, slots and wake-ups agree; every request is served |
| `MCController_lots` | 4 places, 5 loads of 2 routes, lots of two and more, LIFO | parallel transports share their route; the loop sleeps over a load it could take only for an incomplete lot; the loop that ends in `reserve_output_queue` is reached |
| `MCStateInterrupts_vehicle` | 2 transports, 2 downtimes that cross and nest | active exactly when up, no work while down, every run ends |
| `MCStateInterrupts_breakdowns` | 1 process, a changeover, 2 breakdowns of the process and 1 of the resource, in every overlap | no awaited event is replaced or fired twice unless two breakdowns begin at one instant; a broken down process and the changeovers stand still, unless the breakdown meets a state that is still interrupted; no production is cut short, also none begun at time zero, and changeovers take exactly their time |
| `MCProcessModel_rework` | 2 products, a diamond of 4 processes, 2 reworks, lots of 2 | the recipe is implemented, products leave finished, everyone leaves |
| `MCEntityRouting_pool` | 4 products, 1 carrier that two need, 1 screw in stock and 1 in the making that two need, 3 machines, 3 stores | what is free can be dealt, one entity per demand, no demand overlooked, the carrier comes back, everyone leaves |
| `MCChangeover_plans` | 4 productions of 2 processes with 2 states each on 3 places; no plan, two that bundle and one that changes over and back | changeovers are alone, lock the resource, the plan is followed and not early, the loop never spins, every production is done |
| `MCProductRelease_runs` | 5 systems of timed, scheduled and order sources under CONWIP of 1 to 3 or none | CONWIP; time stops only where schedule and CONWIP contradict; a scheduled run ends, with all its products at their sinks |
| `MCRequestRouting_cell` | 2 products, 2 stations, 2 movers, 4 workers: named, pooled and of a process model; a schedule for one product | no request of a product overlooked, work staffed, nobody kept, everyone leaves |
| `MCReconfiguration_pair` | 2 offspring, 3 places, 3 modules, 3 changes, operators that fail | dependencies and ports resolve, IDs unique unless machines were mixed |
| `MCSolutionCache_tabu` | 4 configurations, 2 neighbours, 3 steps | *finding*: the score of the best configuration is overwritten |

**Bounds.** Most bounds are constants of an instance. The others: `MaxLot` in `ProcessModel` limits a lot to two
products, the smallest lot with different verdicts. `HistoryLength` is twice the number of nodes: each node once and
each repaired once, so no run of the first instance outgrows it. `Horizon` in `ProductRelease` ends time after the
last event of every schedule and order of the instance, two units of time for every timed arrival. `MaxChanges` in
`Reconfiguration` lets a crossover follow two mutations, a mutation follow a crossover, and both follow a selection.
In `StateInterrupts` times are small numbers; the first instance has two downtimes with periods 4 and 8 whose overlaps
go through crossing and nesting, and no state constraint: time is kept relative (timers count down), so the state
space is finite. The instance with two breakdowns of one process and one of the resource lets each last one or two
units of time and return after as many, in any sequence, so that each pair overlaps, nests and meets at one instant.
`PortQueue` has more callers than slots and every kind of caller at least once, two of the interchangeable ones.
`Controller` has more requests than capacity and a target with fewer slots than transports.

`EntityRouting` has the fewest entities for which two products wait for one tool and two machines accept a product
for one part; both happen in the run, as does a return to the second store because the first still lists the
carrier. Queues other than stores are unbounded in it and vehicles and machines may take their requests in any
order. `Changeover` has two steps of one product, so that a product arrives late because of its own first step, and
a process with fewer states than the resource has places, so that a changeover lowers the capacity below a `full`
that was written before, and a production can wait for a state with the resource claimed.
`RequestRouting` has a worker that is named at both stations, one that both helps and carries, and a station with
two INPUT_OUTPUT ports, where a product may already stand in the port it is to be taken from.

**Fairness.** A generator whose event has fired is resumed: weak fairness of each part of the loop and of each
handler (`Controller`, `Changeover`), of the system and of each run of a state (`StateInterrupts`), of generator,
router and resources for each product (`ProcessModel`), of each source, of the clock and of what carries products to
the sink (`ProductRelease`). In `EntityRouting` every behaviour is finite, and in `RequestRouting` every cycle would
have to contain a step of a product: it is enough that some step is taken as long as one is possible, as SimPy goes on
while an event is scheduled. `EveryRequestServed` also assumes that the neighbour keeps emptying the target queue,
`EveryJobProduced` that the products of the plan arrive. Nothing forces a state to be started, and
`StateInterrupts` promises no end to a changeover, which new productions can outrun.

**Deadlock** is checked for `PortQueue` and `StateInterrupts`, except where two breakdowns of one process may end the
simulation by an exception (section 4). The others may stop: when every request is served
or every product has left, when an exception has ended the control loop (`crashed`) or the simulation (`raised`),
when time has stopped (`hung`), at `Horizon`, after `MaxChanges` or at the end of a search. `NothingForgotten`,
`ProductsNeverForgotten` and the liveness properties say that the simulated parts stop nowhere else.

## 4. Findings and observations

One finding has a run, `MCSolutionCache_tabu`. `optimization/util.py:91` gives up the ID of the configuration it
renames, of which the search mutates a copy, although the original still has it. After the first move of a tabu search
every neighbour has the ID of the current configuration; the scores are kept by ID, so the entry of the best
configuration is overwritten by that of a neighbour, and the search compares its candidates with a score the best does
not have (`BestScoreIsOwn`). Simulated annealing and the evolutionary algorithm name their configurations in the same
way.

The modules also define statements that the code does *not* satisfy; no run checks them, each says so where it is
defined, and a theorem or a weaker property says how far they hold.

- `PortQueue!ReservationHonoured`. `port.py:81`: a `put` consumes any outstanding reservation, so a production
  handler, which reserves nothing, takes the slot that a transport holds; the transport then sleeps with its load at
  a full queue. `ReservationsHonouredIfAllReserve` proves that this is the only cause.
- `ProcessModel!LeavesRepaired`. `process_handlers/production_process_handler.py:222`: the verdict of the last process
  state of a lot is written to all its products.
- `ProductRelease!NeverHangs`. `source.py:116-117`: a scheduled release that is due while CONWIP is reached goes back
  to the top of the loop without a `yield`, and time stops. `HangsOnlyWhenCrowded` says for which systems.
- `RequestRouting!NamedWorkersKept`. The comment at `request_handler.py:537` says that bound resources are left out for
  requests by process; a worker is bound at acceptance only, so a named and a pooled request routed before that may
  be sent to the same one.
- `Changeover!ChangeoverAlone`. Without a schedule, a production that was accepted on the old setup may start while a
  changeover runs (`resources.py:206-211`, `551`). `PlannedChangeoverAlone` holds with one.

Further observations from reading and from instances that were tried:

- Controller: the comment at `control.py:868` says of a request without a complete lot "move to end and try next
  request", but the `continue` goes back to the wait for `state_changed`, so it puts the loop to sleep over one that
  could start: `NothingForgotten` is false with lots. `SleepsForLotsOnly` and `LoopSleepsForLotsOnly` say that this is
  the only reason; `NobodyIsForgotten` proves that nobody is overlooked where lots need nobody.
- Controller: `control.py:604-615` looks for parts in the pool and
  reserves none, so two machines accept a product for one screw, and one is held until another screw arrives.
- States: two process breakdowns that share a state replace an event that the first has replaced already, so who
  waited for it is never woken, and the second end fires an event that has fired, which raises. Breakdowns of one
  process avoid it by waiting for each other (`state.py:735-737`), unless both are due at one instant: each has then
  looked before the other acts. Breakdowns of different processes share the setup states of the resource, and wait only
  for what is down when they fall due. `EventsSurvive` and `NoEventIsLost` say when nothing is lost.
- States: `state.py:645-646` says that in non-scheduled intervals all operations are blocked. `resources.py:533` skips
  a state that is interrupted already: one that waits for the end of a process breakdown when the shift ends is left
  alone, waits for an event of the resource that has fired, and works in the non-scheduled time once the process is
  repaired. A breakdown of the resource is skipped in the same way, and so is a breakdown of a process that meets a
  state which still has to resume from the one before. `OneDowntimeStopsWork` proves that one downtime alone stops all
  work, `BreakdownsStop` that process breakdowns do, beside any downtimes, when they find nothing interrupted, and
  `FailuresStopWork` that they always do when they are apart and alone.
- Process models: `process_models.py:275` books an executed process on the first node that requires its capability,
  so a second node with that capability is asked for again for ever; a cycle (`:262`) ends the model as if finished.
- Tools: `router.py:469` releases a tool after it was stored and records it at its product; its entry in the store
  stays when the next transport takes it. With one store of one place `ToolsComeBack` is false. A tool released
  when its product is already built into another one is recorded where nobody lists it: the theorems about the pool
  need products that carry tools and are no parts (`ToolsGoHome`).
- Changeovers: `Resource.unreserve_setup` of one handler erases the reservation of another (`resources.py:585`). A
  schedule that lists productions but not their changeovers makes the loop spin (`control.py:735`). A partial setup
  matrix under a schedule leaves a production waiting for a setup nobody starts. A planned changeover that turns out
  to be unnecessary is never consumed. With three places and a process of three states, its only production and the
  changeover to the next process may be accepted while the changeover before them still returns: its end clears the
  `pending_setup` lock of the next one (`setup_process_handler.py:257-259`), which may be requested a second time
  (`control.py:482`), and the loop turns on the spot. `ChangeoversLock` and `LoopMovesOn` hold for the plans that
  leave no room for that (`PlansSettle`).
- Release: a product of a source outside the schedule counts for the end of a scheduled run
  (`schedule_completion.py:150`, against its docstring). Two sources of one type both follow the schedule. IDs drawn
  for orders that the schedule matches only in part can collide with scheduled ones; `RegisterMissesNone` proves that
  only a collision makes `remove_product` raise.
- Workers: the key of a worker's request is item and dependency (`request_handler.py:90-102`), the same for a process
  model, a resource and a mover: `WorkIsStaffed` needs them to be different. A worker that a transport requires is
  never released, as a transport fires no `processing_finished`. Nothing wakes the routing loop when a worker is
  released (`dependency_process_handler.py:152`) or needed by a process model (`router.py:854-876`): the latter request
  waits for the next event of another part.
- Optimisation: the partial crossover (`adapter_manipulation.py:351-356`) overwrites the first list of machines before
  its tail is taken, so the tail objects end up in both offspring and IDs may coincide; validation on assignment is
  off. `clean_out_breakdown_states_of_resources` replaces all states, so setup states are lost. Adding a vehicle
  needs a free machine position. A machine that lost its last process is in neither list of resources. Moving a
  machine leaves its port behind.

## 5. Proofs

TLAPS checks these for every value of the constants that satisfies the named assumptions.

- **PortQueueProofs.** `TypeCorrect`, `CapacityRespected`, `NoWakeupIsLost`, `ReservationsDoNotLeak`. None of these is
  inductive alone: `IInv` is their conjunction with the fact that exactly the items whose caller is "in" are in the
  queue (`PlaceMatches`): without it an insertion need not add an item, nor a reservation have one to wait for.
  `CapacityRespected` is stated for queues whose callers see their true fullness (`OwnCount`): for a `StorePort` it is
  false.
- **ControllerProofs.** Types (no counter goes below zero), capacity, freshness of `full`, one dependant, target
  slots, nothing leaks. The invariant says that each counter is the sum of what the active handlers hold, and that a
  lot never exceeds the free capacity (`FillFits`). `LoopSleepsForLotsOnly` adds that
  a queued request is listed (`QueuedListed`), and once (`ListedOnce`), so that what a lot can be formed of is a number
  of queued requests (`Companions`) and no order of the list completes it. Each action that makes a request startable
  triggers the loop or is followed by one that does, except the one that finds a lot incomplete. `NobodyIsForgotten`
  follows for lots that need nobody (`LotsNeedNobody`). `TransportsShareRoute` is for resources that
  only transport or serve, which do one thing at a time (`BusyWithOne`): a resource that also produced would not be
  full.
- **StateInterruptsProofs.** `Account` relates the remaining time, the time spent and the time worked to the
  process time; with types it is inductive and gives that work is never skipped and, except for production,
  never repeated (`NothingSkipped`). `ActiveWhenUp`; `OneDowntimeStopsWork` for one downtime and no process
  breakdown, along the invariant that everything alive and interrupted waits for the event of that downtime.
  `NoEventIsLost` allows any downtimes beside process breakdowns that are of one process or share no state
  (`SameOrApart`), as long as no two of those that share one are about to begin together (`NoClash`, a premise of
  `EventsSurvive`). It needs that a state's event has fired unless its process is broken down (`ActiveUnlessFailing`),
  that none lasts or is about to begin while another one holds a state of it (`Turns`), and that a breakdown waits for
  states of its own process (`Waited`). `BreakdownsStop`
  has the same hypotheses and one more premise, that no breakdown begins while a state of it is still interrupted
  (`NoneInterrupted`): then all that is alive of a broken down process waits for the event of its state
  (`StandStill`), and no downtime sets it going. `FailuresStopWork` needs no premise where there is no downtime and
  no two breakdowns share a state (`DisjointFailures`): what is interrupted resumes before the next breakdown.
- **ProcessModelProofs.** Types, and `ImplementsRecipe`: under `Acyclic` and `OneNodeEach` every step is a step of
  `Recipe` or a stutter. The invariant adds that what was routed was possible (`Current`), that a generator leaves its
  loop only when nothing was possible (`NothingPossible`), and that each list holds only failures of its kind that
  some rework answers (`Mappings`). That an acyclic graph with unmarked nodes has an enabled one uses the least rank.
  `NobodyLeavesEarly` counts: there is a bijection between the reworks a product has been through and the failures
  struck off its lists (`Paired`, `Settled`), and at the end the lists are empty, so the numbers of reworks and of
  failures are equal (`FS_Bijection`). The invariant (`HInv`) ties the history to the marking, lists each failure
  once, and says that reworks succeed (`ReworkAssumption`: `prodsys/models/processes_data.py:285` has no failure
  rate). From it also follows that the history never reaches `HistoryLength`: the bound of that observer hides
  nothing.
- **EntityRoutingProofs.** `NoEntityTwice`: a request is never served by two entities. Alone it is not inductive: it
  needs that a demand on the list is served by nobody (`PendingOrServed`) and that a demand is neither listed nor
  served before it is asked for (`AskedFirst`), which with `OnItsWay` says that each is asked for once. `TypeCorrect`,
  `PoolStaysHonest` and `NobodyForgotten` follow from one invariant (`Accounted`): who is in the pool is idle, at rest
  where it is recorded and listed there, and in the pool once (`Free`); who is not idle serves a request of its type
  (`Served`); a product that nobody carries or builds in is where its own steps left it (`InProgress`); the tools of a
  product that has ended stay listed at its sink until they rest again (`ToolsKept`); and the loop has nobody to deal
  while nothing is signalled (`NoneToDeal`).
- **ProductReleaseProofs.** `ConwipHolds`: as long as IDs tell products apart, the register holds exactly the IDs of
  the live products (`RegisterIsLive`), hence as many, and a source creates one only below the limit, in the same
  step. `RegisterMissesNone` from the same invariant and that a product is in one place (`OnePlace`). The other three
  use what a source has released so far (`CInv`): each product has the ID of its event or its own number (`Named`,
  `Numbered`), and no event of a schedule is released twice (`ReleasedOnce`). `IdsAreUnique` holds where a type has
  one regular source (`OneSourcePerType`) and no order source runs beside a schedule (`SchedulesStandAlone`);
  `HangsNeedACrowd` needs the first only; `EndsAsPlanned` needs that the schedule plans every source
  (`SchedulesPlanAll`), and counts the products made against the events of the schedule (`Counted`). `IdsAreUnique`
  and `EndsAsPlanned` have no invariant in a run: TLC sees a product released twice, or a run that ends too early, as
  a schedule that does not drain. Section 4 says what the code does to other systems.
- **RequestRoutingProofs.** `WorkIsStaffed` and `WorkersAreReleased` under `DistinctNeeds`, and the second under
  `MoversNeedNobody`; both hypotheses are about keys and events of the code (section 4), and the instance of TLC
  satisfies them. The invariant: a worker's request that is on its way is one of those a waiting owner asked for
  (`Expected`), and has only that owner (`OneOwner`); an accepted worker is bound to its request (`BoundToRequest`);
  a release is scheduled only for what has ended (`ScheduledEnds`), so it can neither touch a request in the list nor
  the workers of a step that has begun again. `ProductsAreRouted` adds that a sleeping loop left only requests for
  workers in the list (`OnlyOverlooked`), which needs that a product asks for a step only inside its process model
  (`StepInModel`), and that somebody can do what is asked for (`EveryoneServable`): the code's filter leaves a
  request for which no resource exists in the list for ever.
- **ChangeoverProofs.** `TypeCorrect`: the two counters cover the claims of the handlers (`Claims`), so none falls
  below zero. `NeverEarly` holds for every plan: a changeover that was accepted was due (`AcceptedDue`), and it stays
  due. The others are for full plans (`FullPlans`: every production is in the plan, and where the process changes
  there is a changeover the resource can do). Their invariant says how far the plan is: `Turn(n)` has the first `n`
  events begun, the next one perhaps on its way to begin, and everything behind it queued at most (`InTurn`), the
  setup the one the plan has there (`SetUpTo`), a changeover alone (`Alone`), arrivals in order (`Ordered`) and the
  states of each process sufficient (`Room`). `PlanFollowed` and `PlannedAlone` read off it, and so does
  `ProductionsProceed`: a handler finds the setup it needs when it starts, so it never waits for the changeover of
  another handler, which the module leaves out in part (`Proceeds`). `ChangeoversLock` and `LoopMovesOn` add that the
  changeover a production was put back for has been requested under its name (`Adopted`), that a changeover which is
  over but not finished waits for nothing and is finished before the productions after it (`Late`), and that none is
  accepted meanwhile (`Apart`), so that the resource stays locked (`Locked`). That none is accepted is a count: the
  one that is over and the productions after it fill the states of the process, which is what `PlansSettle` asks of
  the plans (section 4). `MCChangeover` asserts both hypotheses of its plans.

**Hypotheses.** Each names what the code does not prevent and what section 4 shows to go wrong without it; the
instance of the corresponding run satisfies it, except where said above.

**Only model-checked:** what must happen eventually (`EveryRequestServed`, `EveryRunEnds`, `EveryProductLeaves`,
`EveryJobProduced`, `EveryScheduleDrains`, `ToolsComeBack`), because fairness and ENABLED are out of the prover's reach;
and the safety properties of `Reconfiguration` (`DependenciesResolve`, `PortsListed`, `IdsUnique`): its repairs and
crossovers fold over lists of machines, so a proof would be an induction over data. Every
other invariant that a passing run checks is a theorem.

## 6. Not modelled, and limits

- One controller, one resource, one target queue at a time in `Controller`; `RequestRouting` has several stations, with
  one place each and unbounded queues. A cycle of resources that wait for each other through full INPUT_OUTPUT ports
  needs both together.
- `Changeover` has one capacity for all setups and no lots under a setup; `strict_schedule_timing` is not modelled, nor
  a changeover that is requested again while it is accepted, which only plans outside `PlansSettle` allow.
- The workers of `RequestRouting` depend on nobody themselves (`dependency_process_handler.py:78`), and a transport goes
  to any mover, where a schedule names one (`router.py:757`).
- `EntityRouting` has tools of products and parts of processes, each with one machine. Tools of processes and of
  transports, parts of products, lots and dependencies `per_lot` are not in it. A process with a tool of its own cannot be
  unloaded (`production_process_handler.py:117` assigns a property without setter). Products that are parts
  carry no tools: a tool released when its product is already built in elsewhere is recorded where it is not listed.
- A product with two steps that need parts of one type waits for the part it has used up (`depended_entities` is never
  cleared); `Take` does the same, and the instances have no such product.
- `ChargingState` (battery) and the standby states, which are logging only, are not in `StateInterrupts`.
- Graphs are acyclic with positive durations; sampled times are members of small sets.
- Of the optimiser: conveyors, which policy is chosen, primitives, the capacity-based and the mathematical
  optimisation, simulated annealing, the hash of a configuration and the saving of results.
- Disassembly and process models executed on one resource, moving processes on a breakdown, route finding.
- Data models, factories, layout, analytics and the learning environments: most of the repository's lines. They run
  before or after the simulation or call it as a whole, keep no state over time that a step reads, and are numeric or
  textual. `PROJECT.json` lists each part with its reason.

## 7. What comes next

1. **Cell**: two resources with INPUT_OUTPUT ports and a transporter, composed of instances of `PortQueue` and a
   controller, for circular waits.
2. Tools of processes and parts of products in `EntityRouting`; process models executed on one resource.
3. Conveyors and primitives in `Reconfiguration`.
4. Theorems: `DependenciesResolve` of `Reconfiguration`, with its repairs stated by what they leave; unique IDs for
   orders that a schedule matches in full.
