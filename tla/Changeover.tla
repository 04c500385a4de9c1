----------------------------- MODULE Changeover -----------------------------
(***************************************************************************)
(* Changeovers of one resource: Resource.setup (simulation/resources.py),  *)
(* the part of the control loop that follows a schedule                    *)
(* (simulation/control.py), the SetupProcessHandler and the way of the     *)
(* ProductionProcessHandler through a setup.                               *)
(*                                                                         *)
(* Without a schedule every production sets the resource up for itself.    *)
(* With one, changeovers are requests of their own: injected when they are *)
(* next in the plan, or created when a production needs one, and a         *)
(* production only starts on the setup of its process.  The times of the   *)
(* plan are abstracted to how many of its events are due.                  *)
(*                                                                         *)
(* SimPy runs a new process up to its first wait before anything else, so  *)
(* a wake-up of the loop and the prefix of the handler it spawns are one   *)
(* step; so are mark_started_process and the start of the production state *)
(* if one is free.                                                         *)
(***************************************************************************)
EXTENDS Integers, FiniteSets, Sequences, SequencesExt

CONSTANTS
    Jobs,         \* the productions requested of this resource during a run
    Product,      \* the product of each of them
    Process,      \* the process of each of them
    Processes,    \* the processes of the resource
    NoProcess,    \* current_setup and reserved_setup may be None
    Slots,        \* Slots[p]: the number of production states of process p
    Capacity,     \* capacity of the resource
    Changeovers,  \* <<origin_setup, target_setup>> of each SetupState
    Plans         \* the resource schedules considered; <<>> for none

Kinds == {"production", "setup"}
Requests == Jobs \X Kinds

(* A plan as a run records it: every event once, a changeover followed by  *)
(* its production and leading from the process the plan has before it.     *)
(* The first setup of a resource takes no time and is not recorded.        *)
ConsistentPlan(q) ==
    /\ \A i, k \in DOMAIN q : q[i] = q[k] => i = k
    /\ \A i \in DOMAIN q : q[i][2] = "setup" =>
           /\ i \in 2 .. (Len(q) - 1)
           /\ q[i + 1] = <<q[i][1], "production">>
           /\ Process[q[i - 1][1]] # Process[q[i][1]]

ASSUME JobsAssumption ==
    /\ IsFiniteSet(Jobs)
    /\ Process \in [Jobs -> Processes] /\ NoProcess \notin Processes
    /\ Jobs \subseteq DOMAIN Product
ASSUME CapacityAssumption ==
    /\ Capacity \in Nat \ {0}
    /\ Slots \in [Processes -> 1 .. Capacity]
ASSUME PlansAssumption ==
    /\ Changeovers \subseteq Processes \X Processes
    /\ Plans \subseteq Seq(Requests)
    /\ \A q \in Plans : ConsistentPlan(q)

VARIABLES
    plan,         \* Controller.resource_schedule, an event is its request
    due,          \* how many events of the plan have reached their time
    requests,     \* Controller.requests, in list order
    triggered,    \* state_changed.triggered
    delayed,      \* the event of the plan whose time the loop waits for, or 0
    completed,    \* completed_schedule_indices
    injected,     \* jobs with _setup_injected
    named,        \* jobs whose changeover request knows its product
    full,         \* Resource.full, written by update_full only
    running,      \* num_running_processes
    held,         \* reserved_requests_count
    current,      \* current_setup
    reserved,     \* reserved_setup
    pending,      \* pending_setup
    stage,        \* stage[r]: where request r or its handler is
    awaits        \* awaits[r]: the handlers whose state process r waits for

loop == <<requests, triggered, delayed>>
schedule == <<plan, due, completed>>
links == <<injected, named>>
counts == <<full, running, held>>
setups == <<current, reserved, pending>>
vars == <<loop, schedule, links, counts, setups, stage, awaits>>

(* Stages of a handler: accepted until it has its dependencies, then in    *)
(* Resource.setup: trivial (the first setup of the resource), joining,     *)
(* clearing, changing and working; ready when setup returns.               *)
Stages == {"new", "queued", "accepted", "trivial", "joining", "clearing", "changing",
           "working", "ready", "started", "processing", "unloading", "done"}

MaybeProcess == Processes \union {NoProcess}

TypeOK ==
    /\ plan \in Plans /\ due \in Nat /\ completed \subseteq DOMAIN plan
    /\ requests \in Seq(Requests)
    /\ triggered \in BOOLEAN /\ delayed \in Nat
    /\ injected \subseteq Jobs /\ named \subseteq Jobs
    /\ full \in BOOLEAN /\ running \in Nat /\ held \in Nat
    /\ current \in MaybeProcess /\ reserved \in MaybeProcess /\ pending \in BOOLEAN
    /\ stage \in [Requests -> Stages]
    /\ awaits \in [Requests -> SUBSET Requests]

Init ==
    /\ plan \in Plans /\ due = 0 /\ completed = {}
    /\ requests = <<>> /\ triggered = FALSE /\ delayed = 0
    /\ injected = {} /\ named = {}
    /\ full = FALSE /\ running = 0 /\ held = 0
    /\ current = NoProcess /\ reserved = NoProcess /\ pending = FALSE
    /\ stage = [r \in Requests |-> "new"]
    /\ awaits = [r \in Requests |-> {}]

-----------------------------------------------------------------------------
Planned == plan # <<>>
Production(j) == <<j, "production">>
Setup(j) == <<j, "setup">>
IsSetup(r) == r[2] = "setup"
Target(r) == Process[r[1]]
Queued == {r \in Requests : stage[r] = "queued"}

(* _current_setup_process_id, and what setup compares with *)
SetupNow == IF reserved # NoProcess THEN reserved ELSE current

(* in_setup *)
InSetup == reserved # NoProcess \/ pending

(* capacity_current_setup *)
CapacityOf(setup) == IF setup = NoProcess THEN Capacity ELSE Slots[setup]

(* get_free_capacity *)
FreeCapacity == CapacityOf(SetupNow) - (running + held)

MatchesSetup(r) == ~IsSetup(r) /\ SetupNow # NoProcess /\ Target(r) = SetupNow

NeedsChangeover(r) ==
    SetupNow # NoProcess /\ (IsSetup(r) \/ Target(r) # SetupNow)

(* The events of the plan that are not consumed, and the next of them *)
OpenEvents == DOMAIN plan \ completed
IsNext(i) == i \in OpenEvents /\ \A k \in OpenEvents : i <= k

KnowsProduct(r) == IsSetup(r) => r[1] \in named

(* Mutant of OutOfTurn: any request may run ahead of the plan. *)
OutOfTurnMutant(r) == FALSE

(* _schedule_next_event_blocks_request *)
OutOfTurn(r) ==
    /\ KnowsProduct(r)
    /\ \E i \in OpenEvents : IsNext(i) /\ Product[plan[i][1]] # Product[r[1]]

(* The event of r in the plan *)
IsEventOf(i, r) == i \in DOMAIN plan /\ plan[i] = r

(* _changeover_cutoff_index: c is the last changeover of r's product       *)
(* before r's event, or that event.                                        *)
IsCutoff(c, r) ==
    \E i \in DOMAIN plan :
        LET earlier == {k \in 1 .. (i - 1) :
                           IsSetup(plan[k]) /\ Product[plan[k][1]] = Product[r[1]]}
        IN  /\ plan[i] = r
            /\ IF IsSetup(r) \/ earlier = {} THEN c = i
               ELSE c \in earlier /\ \A k \in earlier : k <= c

(* _schedule_prefix_blocks_changeover *)
PrefixBlocks(r) ==
    \E c \in DOMAIN plan : IsCutoff(c, r) /\
        \E i \in OpenEvents :
            i < c /\ ~IsSetup(plan[i]) /\ Target(plan[i]) = SetupNow

(* changeover_blocked, for a request that needs a changeover *)
Blocked(r) ==
    \/ \E x \in Queued \ {r} : MatchesSetup(x) /\ ~OutOfTurn(x)
    \/ PrefixBlocks(r)
    \/ OutOfTurn(r)

(* get_feasible_request: work for the current setup goes first.  Its       *)
(* product is in the origin queue whenever a production is requested.      *)
Eligible(r) ==
    /\ r \in Queued
    /\ Planned => ~OutOfTurn(r)
    /\ Planned /\ ~MatchesSetup(r) =>
           /\ ~\E x \in Queued : MatchesSetup(x) /\ ~OutOfTurn(x)
           /\ ~(NeedsChangeover(r) /\ Blocked(r))

(* Mutant of Rank: changeovers are not looked up in the plan. *)
RankMutant(r) == {i \in OpenEvents : plan[i] = r /\ ~IsSetup(r)}

(* scheduled_control_policy: requests with an open event of the plan go    *)
(* first, in the order of the plan, unless the head of the list has none.  *)
Rank(r) == {i \in OpenEvents : plan[i] = r /\ KnowsProduct(r)}

InListBefore(r, x) ==
    \E i, k \in DOMAIN requests : i < k /\ requests[i] = r /\ requests[k] = x

Precedes(r, x) ==
    IF Rank(requests[1]) = {} \/ (Rank(r) = {} /\ Rank(x) = {}) THEN InListBefore(r, x)
    ELSE Rank(r) # {} /\ \A i \in Rank(r), k \in Rank(x) : i < k

Selected(r) == Eligible(r) /\ \A x \in Requests \ {r} : Eligible(x) => Precedes(r, x)

(* The changeover of the plan that comes next, if its request can be made  *)
(* (_maybe_inject_scheduled_setup, _create_scheduled_setup_request): it is *)
(* not queued and leads from the setup of the resource to another one.     *)
(* Only the list is looked at: a changeover that is accepted and has not   *)
(* begun could be asked for again; the two would be one request here.      *)
(* LockedUntilOver says that the loop does not get here meanwhile.         *)
Origin(i) == Target(plan[i - 1])

CanInject(i) ==
    /\ IsNext(i) /\ IsSetup(plan[i])
    /\ plan[i] \notin Queued
    /\ SetupNow # NoProcess =>
           SetupNow # Target(plan[i]) /\ SetupNow = Origin(i)

(* _maybe_create_setup_request: r needs a SetupState and has not asked. *)
NeedsSetupRequest(r) ==
    /\ Planned /\ ~IsSetup(r) /\ r[1] \notin injected
    /\ <<SetupNow, Target(r)>> \in Changeovers /\ SetupNow # Target(r)

(* The loop puts an injected production that does not match back and looks *)
(* at the list again at once.                                              *)
PutBack(r) == ~IsSetup(r) /\ r[1] \in injected /\ ~MatchesSetup(r)

(* Mutant of TooEarly: the planned start is only looked at for requests    *)
(* that a production has adopted.                                          *)
TooEarlyMutant(r) ==
    IsSetup(r) /\ r[1] \in injected /\ \E i \in DOMAIN plan : IsEventOf(i, r) /\ due < i

(* A changeover waits for its planned start. *)
TooEarly(r) == IsSetup(r) /\ \E i \in DOMAIN plan : IsEventOf(i, r) /\ due < i

Ready == triggered /\ delayed = 0 /\ ~full /\ ~InSetup
NothingToInject == ~\E i \in DOMAIN plan : CanInject(i)

(* requests.remove: a request is in the list once. *)
Position(r) == CHOOSE i \in DOMAIN requests : requests[i] = r
AllBut(r) == RemoveAt(requests, Position(r))
ToEnd(r) == Append(AllBut(r), r)
-----------------------------------------------------------------------------
(* Controller.request for a production whose product has arrived.  A       *)
(* product asks for its next process when the last one is done.            *)
Request(j) ==
    /\ stage[Production(j)] = "new"
    /\ \A k \in Jobs \ {j} : Product[k] = Product[j] =>
           stage[Production(k)] \in {"new", "done"}
    /\ \A i, k \in DOMAIN plan :
           /\ i < k /\ plan[k] = Production(j) /\ ~IsSetup(plan[i])
           /\ Product[plan[i][1]] = Product[j]
           => stage[plan[i]] = "done"
    /\ stage' = [stage EXCEPT ![Production(j)] = "queued"]
    /\ requests' = Append(requests, Production(j))
    /\ triggered' = TRUE
    /\ UNCHANGED <<delayed, schedule, links, counts, setups, awaits>>

(* The next event of the plan reaches its time. *)
PlanAdvances ==
    /\ due < Len(plan)
    /\ due' = due + 1
    /\ UNCHANGED <<plan, completed, loop, links, counts, setups, stage, awaits>>

(* The loop wakes and goes back to sleep: the resource is full or locked,  *)
(* or there is nothing it may start.                                       *)
WakeInVain ==
    /\ triggered /\ delayed = 0
    /\ \/ full \/ InSetup
       \/ NothingToInject /\ ~\E r \in Requests : Selected(r)
       \/ \E r \in Requests :
              NothingToInject /\ Selected(r) /\ NeedsSetupRequest(r) /\ Blocked(Setup(r[1]))
    /\ triggered' = FALSE
    /\ UNCHANGED <<requests, delayed, schedule, links, counts, setups, stage, awaits>>

(* The next changeover of the plan is queued before its product arrives.   *)
(* The product may exist already; if it waits here, it does.               *)
WakeAndInject(i) ==
    LET j == plan[i][1] IN
    /\ Ready /\ CanInject(i)
    /\ requests' = Append(requests, plan[i])
    /\ stage' = [stage EXCEPT ![plan[i]] = "queued"]
    /\ \/ named' = named \union {j}
       \/ stage[Production(j)] = "new" /\ named' = named
    /\ triggered' = TRUE
    /\ UNCHANGED <<delayed, schedule, injected, counts, setups, awaits>>

(* The selected production needs a changeover: its request is created, or  *)
(* the one that is queued adopts the production, which goes to the end.    *)
WakeAndCreate(r) ==
    LET s == Setup(r[1])
        list == IF s \in Queued THEN AllBut(r) ELSE Append(AllBut(r), s)
    IN  /\ Ready /\ NothingToInject /\ Selected(r) /\ NeedsSetupRequest(r)
        /\ ~Blocked(s)
        /\ requests' = Append(list, r)
        /\ stage' = [stage EXCEPT ![s] = "queued"]
        /\ injected' = injected \union {r[1]}
        /\ named' = named \union {r[1]}
        /\ triggered' = TRUE
        /\ UNCHANGED <<delayed, schedule, counts, setups, awaits>>

Startable(r) == Ready /\ NothingToInject /\ Selected(r) /\ ~NeedsSetupRequest(r) /\ ~PutBack(r)

(* The selected changeover is too early: the loop sleeps until it is due,  *)
(* whatever happens meanwhile.                                             *)
WakeAndDelay(r) ==
    /\ Startable(r) /\ TooEarly(r)
    /\ triggered' = FALSE
    /\ \E i \in DOMAIN plan : IsEventOf(i, r) /\ delayed' = i
    /\ UNCHANGED <<requests, schedule, links, counts, setups, stage, awaits>>

(* The planned start has come; the loop looks at everything again. *)
DelayOver ==
    /\ delayed > 0 /\ delayed <= due
    /\ delayed' = 0
    /\ triggered' = TRUE
    /\ UNCHANGED <<requests, schedule, links, counts, setups, stage, awaits>>

(* full is stale: a changeover has lowered the capacity since. *)
WakeWithoutRoom(r) ==
    /\ Startable(r) /\ ~TooEarly(r) /\ FreeCapacity < 1
    /\ requests' = ToEnd(r)
    /\ triggered' = FALSE
    /\ UNCHANGED <<delayed, schedule, links, counts, setups, stage, awaits>>

(* Mutant of Locks: the loop does not lock the resource. *)
LocksMutant(r) == pending

(* mark_pending_setup *)
Locks(r) == pending \/ IsSetup(r)

(* The loop starts r.  *)
WakeAndStart(r) ==
    LET list == AllBut(r)
        isFull == FreeCapacity - 1 <= 0
    IN  /\ Startable(r) /\ ~TooEarly(r) /\ FreeCapacity >= 1
        /\ requests' = list
        /\ stage' = [stage EXCEPT ![r] = "accepted"]
        /\ held' = held + 1
        /\ pending' = Locks(r)
        /\ full' = isFull
        /\ triggered' = (~isFull /\ ~IsSetup(r) /\ list # <<>>)
        /\ UNCHANGED <<delayed, schedule, links, running, current, reserved, awaits>>

-----------------------------------------------------------------------------
(* get_free_of_setups: the SetupStates whose process is alive *)
RunningSetups == {r \in Requests : stage[r] \in {"changing", "working"}}

Processing == {r \in Requests : stage[r] = "processing"}

(* Mutant of RunningStates: the changeover does not look for productions. *)
RunningStatesMutant == {}

(* SetupState.process_state: the production states that are alive *)
RunningStates == Processing

(* unreserve_setup *)
Unreserved == NoProcess

(* Mutant of Consumed: a changeover does not use up its event. *)
ConsumedMutant(r) == {i \in DOMAIN plan : IsEventOf(i, r) /\ ~IsSetup(r)}

(* _mark_schedule_index_started *)
Consumed(r) == {i \in DOMAIN plan : IsEventOf(i, r)}

(* should_allow_opportunistic_setup *)
MayChangeItself(j) ==
    \/ ~Planned \/ ~NeedsChangeover(Production(j))
    \/ Changeovers = {}

(* The handler of a production has its dependencies and sets the resource  *)
(* up, or waits for the setup of its process if it may not do so itself.   *)
(* The handler of a changeover has seen a free worker and is counted.      *)
(* Who waits replaces state_changed; under full plans nobody waits, as     *)
(* NobodyWaits of ChangeoverProofs says.                                   *)
Proceeds(r) == IsSetup(r) \/ MayChangeItself(r[1])

(* Skips setup: an injected production on the setup of its process *)
SkipsSetup(r) == ~IsSetup(r) /\ r[1] \in injected /\ MatchesSetup(r)

EnterSetup(r) ==
    /\ stage[r] = "accepted" /\ Proceeds(r)
    /\ IF IsSetup(r)
       THEN /\ running' = running + 1 /\ held' = held - 1
            /\ completed' = completed \union Consumed(r)
       ELSE UNCHANGED <<running, held, completed>>
    /\ UNCHANGED <<full, plan, due, links, loop, current>>

(* The first setup is free: nothing has been set up before. *)
SetUpFirst(r) ==
    /\ EnterSetup(r)
    /\ current = NoProcess
    /\ stage' = [stage EXCEPT ![r] = "trivial"]
    /\ UNCHANGED <<reserved, pending, awaits>>

(* No changeover: the setup is there, or no SetupState leads to it. *)
JoinSetup(r) ==
    /\ EnterSetup(r)
    /\ current # NoProcess /\ ~SkipsSetup(r)
    /\ SetupNow = Target(r) \/ <<SetupNow, Target(r)>> \notin Changeovers
    /\ stage' = [stage EXCEPT ![r] = "joining"]
    /\ awaits' = [awaits EXCEPT ![r] = RunningSetups]
    /\ UNCHANGED <<reserved, pending>>

SkipSetup(r) ==
    /\ EnterSetup(r)
    /\ current # NoProcess /\ SkipsSetup(r)
    /\ stage' = [stage EXCEPT ![r] = "ready"]
    /\ UNCHANGED <<reserved, pending, awaits>>

(* reserve_setup, then the wait for the changeovers that are running *)
BeginChangeover(r) ==
    /\ EnterSetup(r)
    /\ current # NoProcess /\ SetupNow # Target(r)
    /\ <<SetupNow, Target(r)>> \in Changeovers
    /\ stage' = [stage EXCEPT ![r] = "clearing"]
    /\ awaits' = [awaits EXCEPT ![r] = RunningSetups]
    /\ reserved' = Target(r) /\ pending' = FALSE

FirstSetupOver(r) ==
    /\ stage[r] = "trivial"
    /\ stage' = [stage EXCEPT ![r] = "ready"]
    /\ current' = Target(r)
    /\ UNCHANGED <<reserved, pending, counts, schedule, links, loop, awaits>>

JoinOver(r) ==
    /\ stage[r] = "joining" /\ awaits[r] = {}
    /\ stage' = [stage EXCEPT ![r] = "ready"]
    /\ UNCHANGED <<setups, counts, schedule, links, loop, awaits>>

(* The SetupState starts and waits for the production that is running. *)
ClearOver(r) ==
    /\ stage[r] = "clearing" /\ awaits[r] = {}
    /\ stage' = [stage EXCEPT ![r] = "changing"]
    /\ awaits' = [awaits EXCEPT ![r] = RunningStates]
    /\ UNCHANGED <<setups, counts, schedule, links, loop>>

WorkOnSetup(r) ==
    /\ stage[r] = "changing" /\ awaits[r] = {}
    /\ stage' = [stage EXCEPT ![r] = "working"]
    /\ UNCHANGED <<setups, counts, schedule, links, loop, awaits>>

(* The changeover is done; setup waits once more for others. *)
EndChangeover(r) ==
    /\ stage[r] = "working"
    /\ stage' = [stage EXCEPT ![r] = "joining"]
    /\ awaits' = [x \in Requests |-> IF x = r THEN RunningSetups \ {r}
                                     ELSE awaits[x] \ {r}]
    /\ current' = Target(r)
    /\ reserved' = Unreserved /\ pending' = FALSE
    /\ UNCHANGED <<counts, schedule, links, loop>>

(* A production has a unit of the resource and its product, and begins if  *)
(* a state of its process is free.                                         *)
Occupied == {r \in Requests : stage[r] \in {"started", "processing"}}
FreeState(p) == Cardinality({r \in Processing : Target(r) = p}) < Slots[p]

StartProduction(r) ==
    /\ stage[r] = "ready" /\ ~IsSetup(r)
    /\ Cardinality(Occupied) < Capacity
    /\ stage' = [stage EXCEPT ![r] = IF FreeState(Target(r)) THEN "processing" ELSE "started"]
    /\ running' = running + 1 /\ held' = held - 1
    /\ completed' = completed \union Consumed(r)
    /\ UNCHANGED <<full, setups, plan, due, links, loop, awaits>>

(* wait_for_free_process: looked at again when the controller is triggered, *)
(* at the latest when the production that has the state finishes; here as  *)
(* soon as a state is free                                                 *)
GetState(r) ==
    /\ stage[r] = "started" /\ FreeState(Target(r))
    /\ stage' = [stage EXCEPT ![r] = "processing"]
    /\ UNCHANGED <<setups, counts, schedule, links, loop, awaits>>

(* Processing takes time: a changeover that is over, and waits for no       *)
(* other, is finished at the instant it ended.                             *)
AllFinished ==
    ~\E x \in Requests : IsSetup(x) /\ stage[x] \in {"joining", "ready"} /\ awaits[x] = {}

EndProduction(r) ==
    /\ stage[r] = "processing" /\ AllFinished
    /\ stage' = [stage EXCEPT ![r] = "unloading"]
    /\ awaits' = [x \in Requests |-> awaits[x] \ {r}]
    /\ UNCHANGED <<setups, counts, schedule, links, loop>>

(* clear_pending_setup at the end of a changeover request *)
Unlocked(r) == pending /\ ~IsSetup(r)

(* The product is in its target queue, or setup has returned to the        *)
(* SetupProcessHandler: mark_finished_process.                             *)
Finish(r) ==
    /\ stage[r] = (IF IsSetup(r) THEN "ready" ELSE "unloading")
    /\ stage' = [stage EXCEPT ![r] = "done"]
    /\ pending' = Unlocked(r)
    /\ running' = running - 1
    /\ full' = (FreeCapacity + 1 <= 0)
    /\ triggered' = TRUE
    /\ UNCHANGED <<requests, delayed, held, current, reserved, schedule, links, awaits>>

-----------------------------------------------------------------------------
Wake ==
    \/ WakeInVain \/ DelayOver
    \/ \E i \in DOMAIN plan : WakeAndInject(i)
    \/ \E r \in Requests :
           WakeAndCreate(r) \/ WakeAndDelay(r) \/ WakeWithoutRoom(r) \/ WakeAndStart(r)

Handler(r) ==
    \/ SetUpFirst(r) \/ JoinSetup(r) \/ SkipSetup(r) \/ BeginChangeover(r)
    \/ FirstSetupOver(r) \/ JoinOver(r) \/ ClearOver(r) \/ WorkOnSetup(r) \/ EndChangeover(r)
    \/ StartProduction(r) \/ GetState(r) \/ EndProduction(r) \/ Finish(r)

Next ==
    \/ Wake \/ PlanAdvances
    \/ \E j \in Jobs : Request(j)
    \/ \E r \in Requests : Handler(r)

(* SimPy runs whatever is scheduled, time reaches every planned start, and *)
(* the products of the plan arrive.                                        *)
Fairness ==
    /\ WF_vars(Wake) /\ WF_vars(PlanAdvances)
    /\ \A j \in Jobs : WF_vars(Request(j))
    /\ \A r \in Requests : WF_vars(Handler(r))

Spec == Init /\ [][Next]_vars
FairSpec == Spec /\ Fairness
-----------------------------------------------------------------------------
(* A plan that is complete: it has every production, and where it goes on  *)
(* with another process it has a changeover the resource can do.           *)
FullPlans ==
    \A q \in Plans : q # <<>> =>
        /\ \A j \in Jobs : \E i \in DOMAIN q : q[i] = Production(j)
        /\ \A i \in DOMAIN q : i > 1 =>
              IF IsSetup(q[i]) THEN <<Target(q[i - 1]), Target(q[i])>> \in Changeovers
              ELSE Target(q[i]) = Target(q[i - 1])

(* The changeover m that has not returned yet and the productions after it *)
(* leave no place for the next changeover i.                               *)
PlansSettle ==
    \A q \in Plans : \A m, i \in DOMAIN q :
        m < i /\ IsSetup(q[m]) /\ IsSetup(q[i]) =>
            Slots[Target(q[i - 1])] <= 1 + Cardinality({k \in m .. i : ~IsSetup(q[k])})

-----------------------------------------------------------------------------
(* A changeover has the resource to itself: while a SetupState works, the  *)
(* resource is reserved for it, no production is processed and no other    *)
(* changeover works.  Without a schedule the code breaks this (README,     *)
(* section 4).                                                             *)
ChangeoverAlone ==
    \A r \in Requests : stage[r] = "working" =>
        /\ reserved = Target(r)
        /\ Processing = {} /\ \A x \in RunningSetups : x = r

(* Under a schedule changeovers are alone, and what is processed was set   *)
(* up for: the current setup is its process until it ends.                 *)
PlannedChangeoverAlone ==
    Planned => ChangeoverAlone /\ \A r \in Processing : current = Target(r)

(* The resource follows its schedule: productions and changeovers begin in *)
(* the planned order and none is left out, in whatever order the products  *)
(* arrive and however long their handlers wait for workers.                *)
FollowsPlan == \A i \in completed : 1 .. i \subseteq completed

(* No planned changeover begins before its planned start. *)
NoEarlyChangeover == \A i \in completed : IsSetup(plan[i]) => i <= due

(* The loop never turns on the spot: it does not select a production whose *)
(* changeover was requested and put it back, which triggers the loop again *)
(* at the same instant ("prefer the pending SETUP next iteration").        *)
LoopNeverSpins ==
    ~\E r \in Requests :
        Ready /\ NothingToInject /\ Selected(r) /\ ~NeedsSetupRequest(r) /\ PutBack(r)

(* "Lock the resource for the whole changeover": from its acceptance until *)
(* the new setup is there the loop starts nothing beside a changeover, so  *)
(* that no production takes its worker and none is put back for it.  The   *)
(* handler of an earlier changeover may still have to clear the lock.      *)
LockedUntilOver ==
    Planned => \A r \in Requests :
        IsSetup(r) /\ stage[r] \in {"accepted", "clearing", "changing", "working"} => InSetup

(* Every production that was requested is done in the end. *)
EveryJobProduced ==
    \A j \in Jobs : stage[Production(j)] = "queued" ~> stage[Production(j)] = "done"
=============================================================================
