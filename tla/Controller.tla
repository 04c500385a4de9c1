----------------------------- MODULE Controller -----------------------------
(***************************************************************************)
(* The controller of one resource (prodsys/simulation/control.py) with the *)
(* life cycle of the handlers it spawns, the lots it forms                 *)
(* (simulation/lot_handler.py) and the queue its transports deliver to.    *)
(*                                                                         *)
(* The control loop sleeps on the event state_changed.  Once the event has *)
(* been triggered the loop wakes, replaces the event, starts at most one   *)
(* request, and triggers the event itself if more work may be startable.   *)
(* SimPy resumes one callback at a time and a new handler runs up to its   *)
(* first wait before the loop resumes, so a wake-up of the loop and the    *)
(* prefix of the handler it spawns are one step.  The resource has one     *)
(* setup: Changeover models changeovers.                                   *)
(***************************************************************************)
EXTENDS Integers, FiniteSets, Sequences, SequencesExt, Lists

CONSTANTS
    Requests,     \* the requests made of this resource during a run
    Kind,         \* the request type of each of them
    Group,        \* requests of one group can share a lot (_request_matches)
    Lotted,       \* requests with a lot dependency
    MinLot,       \* effective minimal lot size
    MaxLot,       \* max_lot_size
    Capacity,     \* capacity of the resource
    TargetSize,   \* capacity of the queue the transports deliver to
    Policy        \* the control policy's order: "FIFO" or "LIFO"

Kinds == {"production", "transport", "dependency"}

ASSUME RequestsAssumption == IsFiniteSet(Requests) /\ Kind \in [Requests -> Kinds]
ASSUME CapacityAssumption == Capacity \in Nat \ {0} /\ TargetSize \in Nat \ {0}
ASSUME LotAssumption ==
    /\ Lotted \subseteq {r \in Requests : Kind[r] # "dependency"}
    /\ MinLot \in Nat \ {0} /\ MaxLot \in Nat /\ MinLot <= MaxLot
    /\ MinLot <= Capacity
ASSUME PolicyAssumption == Policy \in {"FIFO", "LIFO"}

VARIABLES
    requests,     \* Controller.requests, in list order
    triggered,    \* state_changed.triggered
    full,         \* Resource.full, written by update_full only
    running,      \* num_running_processes
    reserved,     \* reserved_requests_count
    bound,        \* Resource.bound
    stage,        \* stage[r]: where request r or the lot that carries it is
    need,         \* need[r]: capacity_required once r has been started
    blocked,      \* blocked[r]: capacity the handler of transport r blocks
    lot,          \* lot[r]: the other requests whose entities r's lot carries
    filled,       \* items in the target queue
    promised,     \* slots of the target queue reserved by transports
    owed,         \* the neighbour has taken an item and not completed yet
    crashed       \* an exception has left the control loop

vars == <<requests, triggered, full, running, reserved, bound, stage, need,
          blocked, lot, filled, promised, owed, crashed>>

target == <<filled, promised, owed>>

Stages == {"new", "queued", "accepted", "running", "carried", "done"}

TypeOK ==
    /\ requests \in Seq(Requests)
    /\ triggered \in BOOLEAN /\ full \in BOOLEAN /\ bound \in BOOLEAN
    /\ running \in Nat /\ reserved \in Nat
    /\ stage \in [Requests -> Stages]
    /\ need \in [Requests -> Nat] /\ blocked \in [Requests -> Nat]
    /\ lot \in [Requests -> SUBSET Requests]
    /\ filled \in Nat /\ promised \in Nat
    /\ owed \in BOOLEAN /\ crashed \in BOOLEAN

Init ==
    /\ requests = <<>>
    /\ triggered = FALSE /\ full = FALSE /\ bound = FALSE
    /\ running = 0 /\ reserved = 0
    /\ stage = [r \in Requests |-> "new"]
    /\ need = [r \in Requests |-> 0] /\ blocked = [r \in Requests |-> 0]
    /\ lot = [r \in Requests |-> {}]
    /\ filled = 0 /\ promised = 0
    /\ owed = FALSE /\ crashed = FALSE

-----------------------------------------------------------------------------
(* Mutant of FreeCapacity: accepted work is not counted until it runs. *)
FreeCapacityMutant == Capacity - running

(* get_free_capacity of a resource with one setup *)
FreeCapacity == Capacity - (running + reserved)

(* update_full *)
IsFull(free) == free <= 0

TargetSpace == TargetSize - filled - promised

(* is_request_feasible: a transport waits while its target is full; a      *)
(* production's item is in the origin queue whenever it is requested.      *)
Feasible(r) == Kind[r] = "transport" => TargetSpace > 0

Ordered == IF Policy = "LIFO" THEN Reverse(requests) ELSE requests

(* get_feasible_request: the first feasible request in the policy's order *)
Selected(r) ==
    \E i \in DOMAIN Ordered :
        /\ Ordered[i] = r
        /\ Feasible(r)
        /\ \A j \in 1 .. (i - 1) : ~Feasible(Ordered[j])

(* The other queued requests that can join r's lot, in the policy's order. *)
LotCandidates(r) ==
    Without(Ordered, {x \in Requests :
                         x = r \/ Kind[x] # Kind[r] \/ Group[x] # Group[r]})

(* is_lot_feasible *)
LotFeasible(r) ==
    r \in Lotted =>
        /\ FreeCapacity >= MinLot
        /\ Kind[r] = "transport" => TargetSpace >= MinLot
        /\ Len(LotCandidates(r)) >= MinLot - 1

(* _get_requests_to_fill_lot: capacity limits the lot first; the space in  *)
(* the target queue is only looked at when capacity does not.              *)
LotRoom(r) ==
    IF FreeCapacity < MaxLot THEN FreeCapacity
    ELSE IF Kind[r] = "transport" /\ TargetSpace < MaxLot THEN TargetSpace
    ELSE MaxLot

Fill(r) ==
    LET candidates == LotCandidates(r)
        n == IF Len(candidates) < LotRoom(r) - 1
             THEN Len(candidates) ELSE LotRoom(r) - 1
    IN  IF r \in Lotted THEN {candidates[i] : i \in 1 .. n} ELSE {}

(* The loop wakes, may start something, and r is what it selects. *)
Ready(r) == triggered /\ ~full /\ ~bound /\ Selected(r)

ToEnd(r) == Append(Without(requests, {r}), r)

WithoutLot(r, carried) == Without(requests, {r} \union carried)

(* Mutant of Blocks: the transport handler blocks nothing. *)
BlocksMutant(r, free) == 0

(* block_other_transports: a transport claims what is left as well. *)
Blocks(r, free) == IF Kind[r] = "transport" THEN free ELSE 0

(* Mutant of Slots: the target queue is not reserved. *)
SlotsMutant(r, size) == 0

(* reserve_output_queue: one slot per entity of a transport *)
Slots(r, size) == IF Kind[r] = "transport" THEN size ELSE 0

(* put_entities_of_request: what transport r puts into the target queue *)
Load(r) == IF Kind[r] = "transport" THEN need[r] ELSE 0

Binds(r) == Kind[r] = "dependency"

(* Mutant of MayStartMore: the loop does not trigger itself. *)
MayStartMoreMutant(free, left) == FALSE

MayStartMore(free, left) == free > 0 /\ left # <<>>

-----------------------------------------------------------------------------
(* request(): the router hands a request to the controller. *)
Request(r) ==
    /\ stage[r] = "new"
    /\ stage' = [stage EXCEPT ![r] = "queued"]
    /\ requests' = Append(requests, r)
    /\ triggered' = TRUE
    /\ UNCHANGED <<full, running, reserved, bound, need, blocked, lot, target, crashed>>

(* The loop wakes and goes back to sleep: the resource is full or bound,   *)
(* or nothing it could start is queued.                                    *)
WakeInVain ==
    /\ triggered
    /\ full \/ bound \/ \A r \in Requests : ~Selected(r)
    /\ triggered' = FALSE
    /\ UNCHANGED <<requests, full, running, reserved, bound, stage, need, blocked,
                   lot, target, crashed>>

(* The selected request needs a lot that cannot be formed yet: it moves to *)
(* the end of the list and the loop goes back to sleep.                    *)
WakeForIncompleteLot(r) ==
    /\ Ready(r)
    /\ ~LotFeasible(r)
    /\ requests' = ToEnd(r)
    /\ triggered' = FALSE
    /\ UNCHANGED <<full, running, reserved, bound, stage, need, blocked, lot, target,
                   crashed>>

(* The loop starts r: it takes r and the requests of its lot off the list, *)
(* reserves the target slots of a transport and the capacity, binds the    *)
(* resource for a dependency, and triggers itself if work may be left.     *)
(* The handler of a transport then blocks the remaining capacity.          *)
WakeAndStart(r) ==
    LET carried == Fill(r)
        size == Cardinality(carried) + 1
        left == WithoutLot(r, carried)
        block == Blocks(r, FreeCapacity - size)
    IN  /\ Ready(r)
        /\ LotFeasible(r)
        /\ Kind[r] = "transport" => size <= TargetSpace
        /\ requests' = left
        /\ stage' = [x \in Requests |-> IF x = r THEN "accepted"
                                        ELSE IF x \in carried THEN "carried"
                                        ELSE stage[x]]
        /\ need' = [need EXCEPT ![r] = size]
        /\ lot' = [lot EXCEPT ![r] = carried]
        /\ reserved' = reserved + size + block
        /\ blocked' = [blocked EXCEPT ![r] = block]
        /\ full' = IsFull(FreeCapacity - size - block)
        /\ bound' = Binds(r)
        /\ triggered' = MayStartMore(FreeCapacity - size, left)
        /\ promised' = promised + Slots(r, size)
        /\ UNCHANGED <<running, filled, owed, crashed>>

(* The lot is larger than the space in the target queue: after some slots  *)
(* were reserved, reserve_output_queue raises and the control loop ends.   *)
WakeAndRaise(r) ==
    LET carried == Fill(r) IN
    /\ Ready(r)
    /\ LotFeasible(r)
    /\ Kind[r] = "transport" /\ Cardinality(carried) + 1 > TargetSpace
    /\ requests' = WithoutLot(r, carried)
    /\ promised' = promised + TargetSpace
    /\ triggered' = FALSE
    /\ crashed' = TRUE
    /\ UNCHANGED <<full, running, reserved, bound, stage, need, blocked, lot, filled, owed>>

(* The handler has its dependencies and the resource: mark_started_process. *)
Start(r) ==
    /\ stage[r] = "accepted"
    /\ stage' = [stage EXCEPT ![r] = "running"]
    /\ reserved' = reserved - need[r]
    /\ running' = running + need[r]
    /\ UNCHANGED <<requests, triggered, full, bound, need, blocked, lot, target, crashed>>

(* Mutants of Finish: the blocked capacity is never freed, and the claim   *)
(* of the request is given back a second time.                             *)
FinishBlocked(r) ==
    /\ stage[r] = "running"
    /\ stage' = [x \in Requests |-> IF x = r \/ x \in lot[r] THEN "done" ELSE stage[x]]
    /\ running' = running - need[r]
    /\ reserved' = reserved - 0
    /\ blocked' = [blocked EXCEPT ![r] = 0]
    /\ full' = IsFull(FreeCapacity + need[r] + blocked[r])
    /\ bound' = (bound /\ ~Binds(r))
    /\ triggered' = TRUE
    /\ filled' = filled + Load(r)
    /\ promised' = promised - Slots(r, need[r])
    /\ UNCHANGED <<requests, need, lot, owed, crashed>>

(* The handler is done: a transport has put its load into the target queue *)
(* and unblocks the capacity, a dependency releases the resource, and      *)
(* mark_finished_process frees the capacity and triggers the loop.         *)
Finish(r) ==
    /\ stage[r] = "running"
    /\ stage' = [x \in Requests |-> IF x = r \/ x \in lot[r] THEN "done" ELSE stage[x]]
    /\ running' = running - need[r]
    /\ reserved' = reserved - blocked[r]
    /\ blocked' = [blocked EXCEPT ![r] = 0]
    /\ full' = IsFull(FreeCapacity + need[r] + blocked[r])
    /\ bound' = (bound /\ ~Binds(r))
    /\ triggered' = TRUE
    /\ filled' = filled + Load(r)
    /\ promised' = promised - Slots(r, need[r])
    /\ UNCHANGED <<requests, need, lot, owed, crashed>>

(* The resource behind the target queue takes an item: space is free, and  *)
(* no event of this controller is triggered ...                            *)
NeighbourTakes ==
    /\ filled > 0 /\ ~owed
    /\ filled' = filled - 1
    /\ owed' = TRUE
    /\ UNCHANGED <<requests, triggered, full, running, reserved, bound, stage, need,
                   blocked, lot, promised, crashed>>

(* Mutant of NeighbourCompletes: the router triggers nobody. *)
NeighbourCompletesMutant ==
    /\ owed
    /\ owed' = FALSE
    /\ UNCHANGED <<requests, triggered, full, running, reserved, bound, stage, need,
                   blocked, lot, filled, promised, crashed>>

(* ... until its handler completes and the router triggers all resources   *)
(* (mark_finished_request, trigger_resources).                             *)
NeighbourCompletes ==
    /\ owed
    /\ owed' = FALSE
    /\ triggered' = TRUE
    /\ UNCHANGED <<requests, full, running, reserved, bound, stage, need, blocked, lot,
                   filled, promised, crashed>>

-----------------------------------------------------------------------------
Wake ==
    \/ WakeInVain
    \/ \E r \in Requests : WakeForIncompleteLot(r) \/ WakeAndStart(r) \/ WakeAndRaise(r)

Handler(r) == Start(r) \/ Finish(r)

Next ==
    /\ ~crashed
    /\ \/ Wake
       \/ NeighbourTakes
       \/ NeighbourCompletes
       \/ \E r \in Requests : Request(r) \/ Handler(r)

(* The kernel runs every scheduled event and the neighbour goes on working; *)
(* nothing forces a further request to be made.                            *)
Fairness ==
    /\ WF_vars(~crashed /\ Wake)
    /\ \A r \in Requests : WF_vars(~crashed /\ Handler(r))
    /\ WF_vars(~crashed /\ NeighbourTakes) /\ WF_vars(~crashed /\ NeighbourCompletes)

Spec == Init /\ [][Next]_vars
FairSpec == Spec /\ Fairness

-----------------------------------------------------------------------------
Active == {r \in Requests : stage[r] \in {"accepted", "running"}}

(* Reserved and running capacity never exceed the resource's capacity,     *)
(* whatever mixture of lots, transports that block the rest and            *)
(* dependencies is active (the ValueErrors of reserve_resource_capacity    *)
(* and unreserve_resource_capacity are never raised).                      *)
CapacityRespected == running + reserved <= Capacity

(* No leak: when no handler is active, no capacity is held, the resource   *)
(* is not bound, and full is not left set.                                 *)
IdleMeansFree ==
    Active = {} => running = 0 /\ reserved = 0 /\ ~bound /\ ~full

(* full is a cache of the free capacity: whenever the loop reads it, it    *)
(* agrees with the live value.                                             *)
FullIsFresh == full <=> FreeCapacity <= 0

(* A resource is bound exactly while it serves a dependant, and it serves  *)
(* one at a time: a worker is never promised to two machines.              *)
OneDependantAtATime ==
    LET serving == {r \in Active : Kind[r] = "dependency"} IN
    /\ bound <=> serving # {}
    /\ \A r, x \in serving : r = x

(* Transports that run on the resource at the same time share their route *)
(* ("multiple transport states exist, that can run in parallel but only    *)
(* with the same target and end location", simulation/state.py:428).       *)
ParallelTransportsShareRoute ==
    \A r, x \in Active :
        Kind[r] = "transport" /\ Kind[x] = "transport" => Group[r] = Group[x]

(* A transport that was accepted finds room in its target queue when it    *)
(* arrives: items and reservations never exceed the queue's capacity.      *)
TargetNotOverrun == filled + promised <= TargetSize

(* The loop sleeps, the resource has capacity and no completion elsewhere  *)
(* is due to trigger it.                                                   *)
Quiet == ~triggered /\ ~crashed /\ ~full /\ ~bound /\ ~owed

(* No request is forgotten: the loop never sleeps over a request it could  *)
(* start while the resource has capacity and no completion elsewhere is    *)
(* due to trigger it.                                                      *)
NothingForgotten ==
    Quiet => ~\E r \in Requests : stage[r] = "queued" /\ Feasible(r) /\ LotFeasible(r)

(* With lots that is false: a request whose lot is incomplete puts the     *)
(* loop to sleep ("move to end and try next request" says control.py:868). *)
(* It is the only reason: whenever the loop sleeps over requests whose     *)
(* target has space, the lot of one of them is incomplete.                 *)
SleepsForLotsOnly ==
    Quiet /\ (\E r \in Requests : stage[r] = "queued" /\ Feasible(r)) =>
        \E r \in Requests : stage[r] = "queued" /\ Feasible(r) /\ ~LotFeasible(r)

(* Every request that was made is eventually served, in a lot or alone. *)
EveryRequestServed ==
    \A r \in Requests : stage[r] = "queued" ~> stage[r] = "done"
=============================================================================
