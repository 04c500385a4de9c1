--------------------------- MODULE StateInterrupts ---------------------------
(***************************************************************************)
(* The states of one resource (prodsys/simulation/state.py): production,   *)
(* transport and setup states work; breakdown, maintenance and shift       *)
(* states (Downtimes) take the whole resource down, process breakdown      *)
(* states (Failures) the states of one process and all the setup states.   *)
(*                                                                         *)
(* Both interrupt what is running and replace an event that the            *)
(* interrupted states wait for: resource.active or the state's own active. *)
(* A wait is on the event that was there when the wait began.  SimPy       *)
(* delivers an interrupt before any other event of the instant, so an      *)
(* interrupt is part of the step that raises it; a wait that is over is    *)
(* resumed by a later step of the same instant, and time passes when       *)
(* nothing of the instant is left.  Timers count down to the next event.   *)
(***************************************************************************)
EXTENDS Integers, FiniteSets

CONSTANTS
    States,       \* the production, transport and setup states
    Production,   \* the ProductionStates among them
    Setups,       \* the SetupStates among them
    Downtimes,    \* BreakDownStates, MaintenanceStates, NonScheduledStates
    Failures,     \* ProcessBreakDownStates
    Covers,       \* Covers[f]: the production states of the process of f
    Work,         \* possible process times
    UpTime,       \* UpTime[d]: possible times between two downtimes of d
    DownTime      \* DownTime[d]: possible durations of a downtime of d

Breakers == Downtimes \union Failures
Times == Nat \ {0}

ASSUME StatesAssumption ==
    /\ Production \subseteq States /\ Setups \subseteq States
    /\ Production \intersect Setups = {}
ASSUME BreakersAssumption ==
    /\ Downtimes \intersect Failures = {}
    /\ Covers \in [Failures -> SUBSET (States \ Setups)]
ASSUME TimesAssumption ==
    /\ Work \subseteq Times
    /\ UpTime \in [Breakers -> SUBSET Times]
    /\ DownTime \in [Breakers -> SUBSET Times]

VARIABLES
    phase,        \* where process_state of each state is
    interrupted,  \* State.interrupted
    doneIn,       \* State.done_in: the remaining time
    spent,        \* env.now - State.start of the work under way
    early,        \* State.start is 0: the work under way began at time zero
    awaitsUp,     \* waits for the resource.active event
    awaitsActive, \* waits for its own active event
    awaitsRuns,   \* the runs a setup waits for
    stuck,        \* waits for an event that was replaced before it fired
    active,       \* active[s]: the current active event of s has fired
    up,           \* the current resource.active event has fired
    failing,      \* failing[f]: where process_state of a failure is
    failAwaits,   \* the states whose active events failure f waits for
    down,         \* the downtimes with their active_... flag set
    timer,        \* time until the next timeout of each downtime and failure
    clock,        \* 0 at time zero, 1 afterwards
    crashed,      \* a RuntimeError has ended the simulation
    planned,      \* the process time of the last run of each state
    worked        \* the time that run has spent working

waits == <<awaitsUp, awaitsActive, awaitsRuns, stuck>>
runs == <<phase, interrupted, doneIn, spent, early, planned, worked>>
causes == <<active, up, failing, failAwaits, down, timer>>
vars == <<runs, waits, causes, clock, crashed>>

Phases == {"idle", "waiting", "clearing", "working", "halted"}

TypeOK ==
    /\ phase \in [States -> Phases]
    /\ interrupted \in [States -> BOOLEAN]
    /\ doneIn \in [States -> Nat] /\ spent \in [States -> Nat]
    /\ early \in [States -> BOOLEAN]
    /\ awaitsUp \in SUBSET States /\ awaitsActive \in SUBSET States
    /\ awaitsRuns \in [States -> SUBSET States]
    /\ stuck \in SUBSET (States \union Failures)
    /\ active \in [States -> BOOLEAN] /\ up \in BOOLEAN
    /\ failing \in [Failures -> {"off", "due", "on"}]
    /\ failAwaits \in [Failures -> SUBSET States]
    /\ down \in SUBSET Downtimes
    /\ timer \in [Breakers -> Nat]
    /\ clock \in {0, 1} /\ crashed \in BOOLEAN
    /\ planned \in [States -> Nat] /\ worked \in [States -> Nat]

(* start_states *)
Init ==
    /\ phase = [s \in States |-> "idle"]
    /\ interrupted = [s \in States |-> FALSE]
    /\ doneIn = [s \in States |-> 0] /\ spent = [s \in States |-> 0]
    /\ early = [s \in States |-> TRUE]
    /\ awaitsUp = {} /\ awaitsActive = {} /\ stuck = {}
    /\ awaitsRuns = [s \in States |-> {}]
    /\ active = [s \in States |-> TRUE] /\ up = TRUE
    /\ failing = [f \in Failures |-> "off"]
    /\ failAwaits = [f \in Failures |-> {}]
    /\ down = {}
    /\ timer \in [Breakers -> UNION {UpTime[b] : b \in Breakers}]
    /\ \A b \in Breakers : timer[b] \in UpTime[b]
    /\ clock = 0 /\ crashed = FALSE
    /\ planned = [s \in States |-> 0] /\ worked = [s \in States |-> 0]

-----------------------------------------------------------------------------
Alive == {s \in States : phase[s] # "idle"}

(* The states S begin a wait AllOf([active, resource.active]), given the   *)
(* current events; they leave whatever they waited for.                    *)
Await(S, isUp, isActive) ==
    /\ awaitsUp' = IF isUp THEN awaitsUp \ S ELSE awaitsUp \union S
    /\ awaitsActive' = (awaitsActive \ S) \union {s \in S : ~isActive[s]}

(* A wait is over: the events it is for have all fired. *)
WaitOver(s) ==
    s \notin awaitsUp /\ s \notin awaitsActive /\ awaitsRuns[s] = {} /\ s \notin stuck

(* process_state is called for a product, a route or a changeover. *)
Start(s) ==
    /\ ~crashed /\ phase[s] = "idle"
    /\ \E t \in Work :
        /\ doneIn' = [doneIn EXCEPT ![s] = t]
        /\ planned' = [planned EXCEPT ![s] = t]
    /\ worked' = [worked EXCEPT ![s] = 0]
    /\ phase' = [phase EXCEPT ![s] = "waiting"]
    /\ Await({s}, up, active)
    /\ UNCHANGED <<interrupted, spent, early, awaitsRuns, stuck, causes, clock, crashed>>

(* log_start_state and the timeout that follows it *)
BeginWork(s) ==
    /\ phase' = [phase EXCEPT ![s] = "working"]
    /\ spent' = [spent EXCEPT ![s] = 0]
    /\ early' = [early EXCEPT ![s] = clock = 0]

(* The first loop of process_state waits again after an interrupt. *)
WaitsAgain(s) == phase[s] = "waiting" /\ interrupted[s]

WaitAgain(s) ==
    /\ ~crashed /\ WaitsAgain(s) /\ WaitOver(s)
    /\ interrupted' = [interrupted EXCEPT ![s] = FALSE]
    /\ Await({s}, up, active)
    /\ UNCHANGED <<phase, doneIn, spent, early, planned, worked, awaitsRuns, stuck,
                   causes, clock, crashed>>

(* A setup waits for the production states that are running at this time. *)
WaitForRuns(s) ==
    /\ ~crashed /\ s \in Setups /\ phase[s] = "waiting" /\ ~WaitsAgain(s) /\ WaitOver(s)
    /\ phase' = [phase EXCEPT ![s] = "clearing"]
    /\ awaitsRuns' = [awaitsRuns EXCEPT ![s] = Alive \ Setups]
    /\ UNCHANGED <<interrupted, doneIn, spent, early, planned, worked, awaitsUp,
                   awaitsActive, stuck, causes, clock, crashed>>

(* The waits before the work are over. *)
FirstWork(s) ==
    /\ ~crashed /\ WaitOver(s)
    /\ \/ s \notin Setups /\ phase[s] = "waiting" /\ ~WaitsAgain(s)
       \/ phase[s] = "clearing"
    /\ BeginWork(s)
    /\ UNCHANGED <<interrupted, doneIn, planned, worked, waits, causes, clock, crashed>>

(* Work that was interrupted goes on. *)
WorkOn(s) ==
    /\ ~crashed /\ phase[s] = "halted" /\ WaitOver(s)
    /\ BeginWork(s)
    /\ interrupted' = [interrupted EXCEPT ![s] = FALSE]
    /\ UNCHANGED <<doneIn, planned, worked, waits, causes, clock, crashed>>

(* The timeout of the work fires. *)
Finish(s) ==
    /\ ~crashed /\ phase[s] = "working" /\ spent[s] = doneIn[s]
    /\ phase' = [phase EXCEPT ![s] = "idle"]
    /\ doneIn' = [doneIn EXCEPT ![s] = 0]
    /\ spent' = [spent EXCEPT ![s] = 0]
    /\ awaitsRuns' = [x \in States |-> awaitsRuns[x] \ {s}]
    /\ UNCHANGED <<interrupted, early, planned, worked, awaitsUp, awaitsActive, stuck,
                   causes, clock, crashed>>

-----------------------------------------------------------------------------
(* Mutant of Remaining: a production begun at time zero counts as done. *)
RemainingEarly(s) == IF s \in Production /\ early[s] THEN 0 ELSE doneIn[s] - spent[s]

(* update_done_in: the one of ProductionState keeps done_in if start is 0. *)
Remaining(s) ==
    IF s \in Production /\ early[s] THEN doneIn[s] ELSE doneIn[s] - spent[s]

(* Mutant of Interruptible: setups are not interrupted. *)
InterruptibleMutant(S) == {s \in (S \intersect Alive) \ Setups : ~interrupted[s]}

(* Mutant of Interruptible: only what waits is interrupted. *)
InterruptibleWaiting(S) == {s \in S \intersect Alive : phase[s] = "waiting"}

(* The states of S that an interruption reaches. *)
Interruptible(S) == {s \in S \intersect Alive : ~interrupted[s]}

(* interrupt_process for the states H, and what each does with it: it      *)
(* waits for the events that are current now.                              *)
Interrupt(H, isUp, isActive) ==
    /\ interrupted' = [s \in States |-> interrupted[s] \/ s \in H]
    /\ phase' = [s \in States |->
           IF s \notin H THEN phase[s]
           ELSE IF phase[s] = "working" THEN "halted" ELSE "waiting"]
    /\ doneIn' = [s \in States |->
           IF s \in H /\ phase[s] = "working" THEN Remaining(s) ELSE doneIn[s]]
    /\ spent' = [s \in States |-> IF s \in H THEN 0 ELSE spent[s]]
    /\ Await(H, isUp, isActive)
    /\ awaitsRuns' = [s \in States |-> IF s \in H THEN {} ELSE awaitsRuns[s]]
    /\ UNCHANGED <<early, planned, worked>>

(* A downtime begins: interrupt_states replaces a fired active event. *)
BeginDown(d) ==
    /\ ~crashed /\ d \notin down /\ timer[d] = 0
    /\ down' = down \union {d}
    /\ up' = FALSE
    /\ Interrupt(Interruptible(States), FALSE, active)
    /\ stuck' = stuck \ Interruptible(States)
    /\ \E t \in DownTime[d] : timer' = [timer EXCEPT ![d] = t]
    /\ UNCHANGED <<active, failing, failAwaits, clock, crashed>>

(* Mutant of StillDown: activate does not look at the other downtimes. *)
StillDownMutant(d) == {}

(* Mutant of StillDown: the downtime that ends still has its flag set. *)
StillDownItself(d) == down

(* The downtimes that keep Resource.activate from succeeding the event. *)
StillDown(d) == down \ {d}

(* A downtime ends.  Succeeding an event twice is an error of SimPy. *)
EndDown(d) ==
    /\ ~crashed /\ d \in down /\ timer[d] = 0
    /\ down' = down \ {d}
    /\ \E t \in UpTime[d] : timer' = [timer EXCEPT ![d] = t]
    /\ IF StillDown(d) = {}
       THEN up' = TRUE /\ awaitsUp' = {} /\ crashed' = up
       ELSE UNCHANGED <<up, awaitsUp, crashed>>
    /\ UNCHANGED <<runs, awaitsActive, awaitsRuns, stuck, active, failing, failAwaits, clock>>

(* Mutant of Inactive: a failure waits for none of its states. *)
InactiveMutant(f) == {}

(* The states of its process whose active events a failure has to wait for. *)
Inactive(f) == {s \in Covers[f] : ~active[s]}

(* wait_for_breakdown of a failure is over; it waits for its states. *)
FailureDue(f) ==
    /\ ~crashed /\ failing[f] = "off" /\ timer[f] = 0
    /\ failing' = [failing EXCEPT ![f] = "due"]
    /\ failAwaits' = [failAwaits EXCEPT ![f] = Inactive(f)]
    /\ UNCHANGED <<runs, waits, active, up, down, timer, clock, crashed>>

(* The states a failure deactivates and activates again. *)
Affected(f) == Covers[f] \union Setups

(* The active events after a failure has deactivated its states. *)
Deactivated(f) == [s \in States |-> active[s] /\ s \notin Affected(f)]

(* A failure begins.  Whoever waits for an event that deactivate replaces  *)
(* before it has fired waits for ever, unless it is interrupted.           *)
BeginFailure(f) ==
    LET hit == Interruptible(Affected(f))
        replaced == {s \in Affected(f) : ~active[s]}
    IN  /\ ~crashed /\ failing[f] = "due" /\ failAwaits[f] = {} /\ f \notin stuck
        /\ failing' = [failing EXCEPT ![f] = "on"]
        /\ active' = Deactivated(f)
        /\ stuck' = ((stuck \union (replaced \intersect awaitsActive)) \ hit)
                          \union {g \in Failures : failAwaits[g] \intersect replaced # {}}
        /\ Interrupt(hit, up, Deactivated(f))
        /\ \E t \in DownTime[f] : timer' = [timer EXCEPT ![f] = t]
        /\ UNCHANGED <<failAwaits, up, down, clock, crashed>>

(* A failure ends.  activate raises if the event has fired already. *)
EndFailure(f) ==
    /\ ~crashed /\ failing[f] = "on" /\ timer[f] = 0
    /\ failing' = [failing EXCEPT ![f] = "off"]
    /\ crashed' = (\E s \in Affected(f) : active[s])
    /\ active' = [s \in States |-> active[s] \/ s \in Affected(f)]
    /\ awaitsActive' = awaitsActive \ Affected(f)
    /\ failAwaits' = [g \in Failures |-> failAwaits[g] \ Affected(f)]
    /\ \E t \in UpTime[f] : timer' = [timer EXCEPT ![f] = t]
    /\ UNCHANGED <<runs, awaitsUp, awaitsRuns, stuck, up, down, clock>>

(* Something is left to do at this instant. *)
Pending ==
    \/ \E s \in Alive : phase[s] # "working" /\ WaitOver(s)
    \/ \E s \in Alive : phase[s] = "working" /\ spent[s] = doneIn[s]
    \/ \E d \in Downtimes : timer[d] = 0
    \/ \E f \in Failures : timer[f] = 0 /\ failing[f] # "due"
    \/ \E f \in Failures : failing[f] = "due" /\ failAwaits[f] = {} /\ f \notin stuck

(* Time passes: one unit, for every timeout. *)
Tick ==
    /\ ~crashed /\ ~Pending
    /\ clock' = 1
    /\ timer' = [b \in Breakers |-> IF timer[b] = 0 THEN 0 ELSE timer[b] - 1]
    /\ spent' = [s \in States |-> IF phase[s] = "working" THEN spent[s] + 1 ELSE spent[s]]
    /\ worked' = [s \in States |-> IF phase[s] = "working" THEN worked[s] + 1 ELSE worked[s]]
    /\ UNCHANGED <<phase, interrupted, doneIn, early, planned, waits, active, up, failing,
                   failAwaits, down, crashed>>

Run(s) == WaitAgain(s) \/ WaitForRuns(s) \/ FirstWork(s) \/ WorkOn(s) \/ Finish(s)

System ==
    \/ \E s \in States : Run(s)
    \/ \E d \in Downtimes : BeginDown(d) \/ EndDown(d)
    \/ \E f \in Failures : FailureDue(f) \/ BeginFailure(f) \/ EndFailure(f)
    \/ Tick

Next == System \/ \E s \in States : Start(s)

(* The event queue of SimPy never stops while something is scheduled; a    *)
(* wait that is over is resumed.  Nothing forces new work to be started.   *)
Spec == Init /\ [][Next]_vars /\ WF_vars(System) /\ \A s \in States : WF_vars(Run(s))

-----------------------------------------------------------------------------
(* The resource's active event is pending exactly while some downtime      *)
(* lasts, however the downtimes overlap: no downtime ends another one's,   *)
(* and Resource.activate never succeeds the event twice.                   *)
ActiveIffUp == up <=> down = {}

(* Nothing works while the resource is down.  BreakDownState and           *)
(* NonScheduledState say so; it holds for a resource with one downtime.    *)
NoWorkWhileDown == down # {} => \A s \in States : phase[s] # "working"

(* No production of a process works while that process is broken down, and *)
(* no changeover does.  It holds while no two interruptions meet.          *)
NoWorkWhileFailing ==
    \A f \in Failures : failing[f] = "on" =>
        \A s \in Affected(f) : phase[s] # "working"

(* However often a run is interrupted, it has worked for its process time  *)
(* when it ends: no less, and, except for production, no more.  Production *)
(* that began at time zero forgets what it has done when it is interrupted.*)
WorkIsConserved ==
    \A s \in States : phase[s] = "idle" =>
        /\ worked[s] >= planned[s]
        /\ s \notin Production => worked[s] = planned[s]

(* Activating a state never hits an event that has fired already, and no   *)
(* wait is left on an event that nobody will fire.                         *)
NoLostEvents == ~crashed /\ stuck = {}

(* A failure whose time has come and that waits for nothing any more. *)
Ready(f) == failing[f] = "due" /\ failAwaits[f] = {}

(* No two failures that share a state are about to begin together. *)
NoClash ==
    \A f, g \in Failures :
        f # g /\ Ready(f) /\ Ready(g) => Affected(f) \intersect Affected(g) = {}

(* Breakdowns of one process take turns: one that falls due while another  *)
(* lasts waits for it, so that no active event is replaced before it has   *)
(* fired or fired twice, whatever downtimes run beside them.  Two that     *)
(* come at the same instant find the events fired and both begin.          *)
EventsSurvive == []NoClash => []NoLostEvents

(* No state is still interrupted when a failure of it is about to begin. *)
NoneInterrupted ==
    \A f \in Failures : Ready(f) => \A s \in Affected(f) : ~interrupted[s]

(* A broken down process stands still, and so do the changeovers: work     *)
(* under way stops, work that begins waits, and no downtime that begins or *)
(* ends meanwhile sets it going.  interrupt_process passes over a state    *)
(* that is interrupted already, so no breakdown may find one.              *)
BreakdownsStopWork == [](NoClash /\ NoneInterrupted) => []NoWorkWhileFailing

(* A run that has begun ends, however often it is interrupted.  Nothing    *)
(* here keeps production from being started while a setup waits, so a      *)
(* setup is not promised to end.                                           *)
EveryRunEnds == \A s \in States \ Setups : phase[s] # "idle" ~> phase[s] = "idle"

=============================================================================
