------------------------ MODULE StateInterruptsProofs ------------------------
(***************************************************************************)
(* Proofs about StateInterrupts: the account of the work done, that no     *)
(* event is lost, and what one downtime without process breakdowns, and    *)
(* process breakdowns without downtimes, guarantee.                        *)
(***************************************************************************)
EXTENDS StateInterrupts, TLAPS

(* What a state has worked and what it still has to do make up its process *)
(* time; only production that began at time zero can be given more to do.  *)
Account ==
    \A s \in States :
        /\ spent[s] <= doneIn[s]
        /\ phase[s] # "working" => spent[s] = 0
        /\ phase[s] = "idle" => doneIn[s] = 0
        /\ worked[s] + doneIn[s] >= planned[s] + spent[s]
        /\ s \notin Production => worked[s] + doneIn[s] = planned[s] + spent[s]

LEMMA TypeStep == ASSUME TypeOK, Account, [Next]_vars PROVE TypeOK'
<1> USE StatesAssumption, BreakersAssumption, TimesAssumption DEF TypeOK, Phases, Times, Breakers
<1>1. CASE UNCHANGED vars BY <1>1 DEF vars, runs, waits, causes
<1>2. ASSUME NEW s \in States, Start(s) PROVE TypeOK'
  BY <1>2 DEF Start, Await, causes
<1>3. ASSUME NEW s \in States, WaitAgain(s) PROVE TypeOK'
  BY <1>3 DEF WaitAgain, Await, causes
<1>4. ASSUME NEW s \in States, WaitForRuns(s) PROVE TypeOK'
  BY <1>4 DEF WaitForRuns, Alive, causes
<1>5. ASSUME NEW s \in States, FirstWork(s) PROVE TypeOK'
  BY <1>5 DEF FirstWork, BeginWork, causes, waits
<1>6. ASSUME NEW s \in States, WorkOn(s) PROVE TypeOK'
  BY <1>6 DEF WorkOn, BeginWork, causes, waits
<1>7. ASSUME NEW s \in States, Finish(s) PROVE TypeOK'
  BY <1>7 DEF Finish, causes
<1>8. \A s \in States : Remaining(s) \in Nat
  BY DEF Account, Remaining
<1>9. ASSUME NEW d \in Downtimes, BeginDown(d) PROVE TypeOK'
  BY <1>8, <1>9 DEF BeginDown, Interrupt, Interruptible, Alive, Await
<1>10. ASSUME NEW d \in Downtimes, EndDown(d) PROVE TypeOK'
  BY <1>10 DEF EndDown, runs
<1>11. ASSUME NEW f \in Failures, FailureDue(f) PROVE TypeOK'
  BY <1>11 DEF FailureDue, Inactive, runs, waits
<1>12. ASSUME NEW f \in Failures, BeginFailure(f) PROVE TypeOK'
  BY <1>8, <1>12 DEF BeginFailure, Interrupt, Interruptible, Alive, Await, Deactivated, Affected
<1>13. ASSUME NEW f \in Failures, EndFailure(f) PROVE TypeOK'
  BY <1>13 DEF EndFailure, runs, Affected
<1>14. CASE Tick
  BY <1>14 DEF Tick, waits
<1> QED BY <1>1, <1>2, <1>3, <1>4, <1>5, <1>6, <1>7, <1>9, <1>10, <1>11, <1>12, <1>13, <1>14
        DEF Next, System, Run

LEMMA AccountStep == ASSUME TypeOK, Account, [Next]_vars PROVE Account'
<1> USE StatesAssumption, TimesAssumption DEF TypeOK, Phases, Times
<1>1. CASE UNCHANGED vars BY <1>1 DEF vars, runs, Account
<1>2. ASSUME NEW s \in States, Start(s) PROVE Account'
  BY <1>2 DEF Start, Account
<1>3. ASSUME NEW s \in States, WaitAgain(s) PROVE Account'
  BY <1>3 DEF WaitAgain, Account
<1>4. ASSUME NEW s \in States, WaitForRuns(s) PROVE Account'
  BY <1>4 DEF WaitForRuns, Account
<1>5. ASSUME NEW s \in States, FirstWork(s) PROVE Account'
  BY <1>5 DEF FirstWork, BeginWork, Account
<1>6. ASSUME NEW s \in States, WorkOn(s) PROVE Account'
  BY <1>6 DEF WorkOn, BeginWork, Account
<1>7. ASSUME NEW s \in States, Finish(s) PROVE Account'
  BY <1>7 DEF Finish, Account
<1>8. ASSUME NEW H \in SUBSET Alive, NEW isUp, NEW isActive, Interrupt(H, isUp, isActive)
      PROVE Account'
  <2> SUFFICES ASSUME NEW s \in States
               PROVE  /\ spent'[s] <= doneIn'[s]
                      /\ phase'[s] # "working" => spent'[s] = 0
                      /\ phase'[s] = "idle" => doneIn'[s] = 0
                      /\ worked'[s] + doneIn'[s] >= planned'[s] + spent'[s]
                      /\ s \notin Production => worked'[s] + doneIn'[s] = planned'[s] + spent'[s]
    BY DEF Account
  <2>1. UNCHANGED <<worked, planned>> BY <1>8 DEF Interrupt
  <2>2. CASE s \notin H
    <3>1. /\ phase'[s] = phase[s] /\ doneIn'[s] = doneIn[s] /\ spent'[s] = spent[s]
      BY <1>8, <2>2 DEF Interrupt
    <3> QED BY <2>1, <3>1 DEF Account
  <2>3. CASE s \in H /\ phase[s] # "working"
    <3>1. /\ phase'[s] = "waiting" /\ doneIn'[s] = doneIn[s] /\ spent'[s] = 0 /\ spent[s] = 0
      BY <1>8, <2>3 DEF Interrupt, Account
    <3> QED BY <2>1, <3>1 DEF Account
  <2>4. CASE s \in H /\ phase[s] = "working"
    <3>1. phase'[s] = "halted" /\ doneIn'[s] = Remaining(s) /\ spent'[s] = 0
      BY <1>8, <2>4 DEF Interrupt
    <3>2. /\ Remaining(s) \in {doneIn[s], doneIn[s] - spent[s]}
          /\ s \notin Production => Remaining(s) = doneIn[s] - spent[s]
      BY DEF Remaining
    <3> QED BY <2>1, <3>1, <3>2 DEF Account
  <2> QED BY <2>2, <2>3, <2>4
<1>9. ASSUME NEW d \in Downtimes, BeginDown(d) PROVE Account'
  BY <1>8, <1>9 DEF BeginDown, Interruptible
<1>10. ASSUME NEW f \in Failures, BeginFailure(f) PROVE Account'
  BY <1>8, <1>10 DEF BeginFailure, Interruptible
<1>11. CASE UNCHANGED runs
  BY <1>11 DEF runs, Account
<1>12. ASSUME NEW d \in Downtimes, EndDown(d) PROVE Account'
  BY <1>11, <1>12 DEF EndDown
<1>13. ASSUME NEW f \in Failures, FailureDue(f) \/ EndFailure(f) PROVE Account'
  BY <1>11, <1>13 DEF FailureDue, EndFailure
<1>14. CASE Tick
  <2> SUFFICES ASSUME NEW s \in States
               PROVE  /\ spent'[s] <= doneIn'[s]
                      /\ phase'[s] # "working" => spent'[s] = 0
                      /\ phase'[s] = "idle" => doneIn'[s] = 0
                      /\ worked'[s] + doneIn'[s] >= planned'[s] + spent'[s]
                      /\ s \notin Production => worked'[s] + doneIn'[s] = planned'[s] + spent'[s]
    BY DEF Account
  <2>1. phase' = phase /\ doneIn' = doneIn /\ planned' = planned BY <1>14 DEF Tick
  <2>2. CASE phase[s] = "working"
    <3>1. s \in Alive BY <2>2 DEF Alive
    <3>2. spent[s] # doneIn[s] BY <1>14, <2>2, <3>1 DEF Tick, Pending
    <3>3. spent'[s] = spent[s] + 1 /\ worked'[s] = worked[s] + 1 BY <1>14, <2>2 DEF Tick
    <3>4. /\ spent[s] <= doneIn[s] /\ worked[s] + doneIn[s] >= planned[s] + spent[s]
          /\ s \notin Production => worked[s] + doneIn[s] = planned[s] + spent[s]
      BY DEF Account
    <3>5. spent[s] \in Nat /\ doneIn[s] \in Nat /\ worked[s] \in Nat /\ planned[s] \in Nat
      OBVIOUS
    <3>6. spent[s] + 1 <= doneIn[s] BY <3>2, <3>4, <3>5
    <3> QED BY <2>1, <2>2, <3>3, <3>4, <3>5, <3>6
  <2>3. CASE phase[s] # "working"
    <3>1. spent'[s] = spent[s] /\ worked'[s] = worked[s] BY <1>14, <2>3 DEF Tick
    <3> QED BY <2>1, <3>1 DEF Account
  <2> QED BY <2>2, <2>3
<1> QED BY <1>1, <1>2, <1>3, <1>4, <1>5, <1>6, <1>7, <1>9, <1>10, <1>12, <1>13, <1>14
        DEF Next, System, Run

LEMMA InitEstablishes == Init => TypeOK /\ Account
<1> SUFFICES ASSUME Init PROVE TypeOK /\ Account
  OBVIOUS
<1> USE DEF Init
<1>1. \A b \in Breakers : UpTime[b] \subseteq Nat
  BY TimesAssumption DEF Times
<1>2. timer \in [Breakers -> Nat] BY <1>1
<1>3. phase \in [States -> Phases] BY DEF Phases
<1>4. /\ failing \in [Failures -> {"off", "due", "on"}]
      /\ failAwaits \in [Failures -> SUBSET States]
      /\ awaitsRuns \in [States -> SUBSET States]
  OBVIOUS
<1>5. TypeOK BY <1>2, <1>3, <1>4 DEF TypeOK
<1>6. Account BY DEF Account
<1> QED BY <1>5, <1>6

LEMMA AccountKept == Spec => [](TypeOK /\ Account)
<1>1. Init => TypeOK /\ Account BY InitEstablishes
<1>2. TypeOK /\ Account /\ [Next]_vars => (TypeOK /\ Account)'
  BY TypeStep, AccountStep
<1> QED BY <1>1, <1>2, PTL DEF Spec

(* The variables keep their types: in particular no remaining time is ever *)
(* below zero, although update_done_in subtracts.                          *)
THEOREM TypeCorrect == Spec => []TypeOK
<1> QED BY AccountKept, PTL

(* However a run is interrupted, by any downtimes and breakdowns, it works *)
(* at least for its process time, and transports and changeovers work for  *)
(* no more than that.                                                      *)
THEOREM NothingSkipped == Spec => []WorkIsConserved
<1>1. TypeOK /\ Account => WorkIsConserved
  BY DEF TypeOK, Account, WorkIsConserved
<1> QED BY <1>1, AccountKept, PTL

-----------------------------------------------------------------------------
LEMMA UpStep == ASSUME TypeOK, ActiveIffUp, [Next]_vars PROVE ActiveIffUp'
<1> USE DEF TypeOK, ActiveIffUp
<1>1. ASSUME NEW d \in Downtimes, BeginDown(d) PROVE ActiveIffUp'
  BY <1>1 DEF BeginDown
<1>2. ASSUME NEW d \in Downtimes, EndDown(d) PROVE ActiveIffUp'
  BY <1>2 DEF EndDown, StillDown
<1>3. CASE UNCHANGED <<up, down>>
  BY <1>3
<1>4. ASSUME NEW s \in States, Run(s) \/ Start(s) PROVE UNCHANGED <<up, down>>
  BY <1>4 DEF Run, Start, WaitAgain, WaitForRuns, FirstWork, WorkOn, Finish, causes
<1>5. ASSUME NEW f \in Failures, FailureDue(f) \/ BeginFailure(f) \/ EndFailure(f)
      PROVE UNCHANGED <<up, down>>
  BY <1>5 DEF FailureDue, BeginFailure, EndFailure
<1>6. Tick \/ UNCHANGED vars => UNCHANGED <<up, down>>
  BY DEF Tick, vars, causes
<1> QED BY <1>1, <1>2, <1>3, <1>4, <1>5, <1>6 DEF Next, System

(* Overlapping downtimes of any number: the resource is active exactly     *)
(* when none of them lasts.                                                *)
THEOREM ActiveWhenUp == Spec => []ActiveIffUp
<1>1. Init => ActiveIffUp BY DEF Init, ActiveIffUp
<1>2. TypeOK /\ ActiveIffUp /\ [Next]_vars => ActiveIffUp' BY UpStep
<1> QED BY <1>1, <1>2, TypeCorrect, PTL DEF Spec

-----------------------------------------------------------------------------
(* One downtime and no process breakdown: what waits, waits for the event  *)
(* that is current, and a state that is still flagged interrupted although *)
(* the resource is up resumes before time passes, hence before the next    *)
(* downtime can begin.                                                     *)
OneDowntime ==
    /\ awaitsActive = {} /\ stuck = {} /\ \A s \in States : active[s]
    /\ ActiveIffUp
    /\ \A s \in States : phase[s] # "clearing" => awaitsRuns[s] = {}
    /\ \A s \in States : interrupted[s] => phase[s] \in {"waiting", "halted"}
    /\ up => awaitsUp = {}
    /\ ~up => \A s \in Alive : s \in awaitsUp /\ phase[s] \in {"waiting", "halted"}
    /\ up => \A s \in States : interrupted[s] => \A d \in Downtimes : timer[d] > 0

LEMMA OneDowntimeStep ==
    ASSUME Failures = {}, \A d, e \in Downtimes : d = e,
           TypeOK, OneDowntime, [Next]_vars
    PROVE  OneDowntime'
<1> USE TimesAssumption DEF TypeOK, Phases, Times, OneDowntime, Breakers, ActiveIffUp, Alive
<1>1. CASE UNCHANGED vars BY <1>1 DEF vars, runs, waits, causes
<1>2. ASSUME NEW s \in States, Start(s) PROVE OneDowntime'
  <2>1. /\ phase' = [phase EXCEPT ![s] = "waiting"] /\ phase[s] = "idle"
        /\ UNCHANGED <<interrupted, awaitsRuns, stuck, active, up, down, timer>>
        /\ Await({s}, up, active)
    BY <1>2 DEF Start, causes
  <2>2. awaitsActive' = {} BY <2>1 DEF Await
  <2>3. (up => awaitsUp' = {}) /\ (~up => awaitsUp' = awaitsUp \union {s})
    BY <2>1 DEF Await
  <2> QED BY <2>1, <2>2, <2>3
<1>3. ASSUME NEW s \in States, WaitAgain(s) PROVE OneDowntime'
  BY <1>3 DEF WaitAgain, WaitsAgain, WaitOver, Await, causes
<1>4. ASSUME NEW s \in States, WaitForRuns(s) PROVE OneDowntime'
  BY <1>4 DEF WaitForRuns, WaitsAgain, WaitOver, causes
<1>5. ASSUME NEW s \in States, FirstWork(s) PROVE OneDowntime'
  BY <1>5 DEF FirstWork, BeginWork, WaitsAgain, WaitOver, causes, waits
<1>6. ASSUME NEW s \in States, WorkOn(s) PROVE OneDowntime'
  BY <1>6 DEF WorkOn, BeginWork, WaitOver, causes, waits
<1>7. ASSUME NEW s \in States, Finish(s) PROVE OneDowntime'
  BY <1>7 DEF Finish, causes
<1>8. ASSUME NEW d \in Downtimes, BeginDown(d) PROVE OneDowntime'
  BY <1>8 DEF BeginDown, Interrupt, Interruptible, Await
<1>9. ASSUME NEW d \in Downtimes, EndDown(d) PROVE OneDowntime'
  BY <1>9 DEF EndDown, StillDown, runs
<1>10. CASE Tick
  BY <1>10 DEF Tick, Pending, WaitOver, waits
<1> QED BY <1>1, <1>2, <1>3, <1>4, <1>5, <1>6, <1>7, <1>8, <1>9, <1>10
        DEF Next, System, Run

(* A resource with one downtime and no process breakdowns never works      *)
(* while it is down.  With more of them it may: a state that is interrupted *)
(* already is skipped by the next interruption.                            *)
THEOREM OneDowntimeStopsWork ==
    ASSUME Failures = {}, \A d, e \in Downtimes : d = e
    PROVE  Spec => []NoWorkWhileDown
<1>1. Init => OneDowntime
  BY DEF Init, OneDowntime, ActiveIffUp
<1>2. TypeOK /\ OneDowntime /\ [Next]_vars => OneDowntime'
  BY OneDowntimeStep
<1>3. OneDowntime => NoWorkWhileDown
  BY DEF OneDowntime, NoWorkWhileDown, ActiveIffUp, Alive
<1> QED BY <1>1, <1>2, <1>3, TypeCorrect, PTL DEF Spec

-----------------------------------------------------------------------------
(* Two process breakdowns are of one process, or they share no state; a    *)
(* resource with changeovers has breakdowns of one process only.           *)
SameOrApart ==
    \A f, g \in Failures : f # g =>
        \/ Affected(f) \intersect Affected(g) = {}
        \/ Covers[f] = Covers[g] /\ Covers[f] # {}

(* A state's active event has fired unless its process is broken down. *)
ActiveUnlessFailing ==
    \A s \in States : active[s] <=> ~\E f \in Failures : failing[f] = "on" /\ s \in Affected(f)

(* While a failure lasts, none that shares a state with it lasts too or is *)
(* about to begin.                                                         *)
Turns ==
    \A f, g \in Failures : f # g /\ failing[f] = "on" /\ (failing[g] = "on" \/ Ready(g)) =>
        Affected(f) \intersect Affected(g) = {}

(* A failure waits for states of its own process. *)
Waited == \A f \in Failures : failAwaits[f] \subseteq Covers[f]

TakeTurns == ActiveUnlessFailing /\ Turns /\ Waited /\ NoLostEvents

LEMMA TurnsStep ==
    ASSUME SameOrApart, NoClash, TypeOK, ActiveIffUp, TakeTurns, [Next]_vars
    PROVE  TakeTurns'
<1> USE StatesAssumption, BreakersAssumption
    DEF TypeOK, TakeTurns, ActiveUnlessFailing, Turns, Waited, NoLostEvents
<1>1. CASE UNCHANGED <<active, failing, failAwaits, stuck, crashed>>
  BY <1>1 DEF Affected, Ready
<1>2. ASSUME NEW s \in States, Start(s) \/ Run(s)
      PROVE  UNCHANGED <<active, failing, failAwaits, stuck, crashed>>
  BY <1>2 DEF Run, Start, WaitAgain, WaitForRuns, FirstWork, WorkOn, Finish, causes, waits
<1>3. ASSUME NEW d \in Downtimes, BeginDown(d) PROVE TakeTurns'
  BY <1>3 DEF BeginDown, Affected, Ready
<1>4. ASSUME NEW d \in Downtimes, EndDown(d) PROVE TakeTurns'
  BY <1>4 DEF EndDown, Affected, ActiveIffUp, Ready
<1>5. ASSUME NEW f \in Failures, FailureDue(f) PROVE TakeTurns'
  <2>1. /\ failing[f] = "off" /\ failing' = [failing EXCEPT ![f] = "due"]
        /\ failAwaits' = [failAwaits EXCEPT ![f] = Inactive(f)]
        /\ UNCHANGED <<active, stuck, crashed>>
    BY <1>5 DEF FailureDue, waits
  <2>2. ActiveUnlessFailing'
    BY <2>1 DEF Affected
  <2>3. ASSUME NEW g \in Failures, g # f, failing[g] = "on", Inactive(f) = {}
        PROVE  Affected(f) \intersect Affected(g) = {}
    <3>1. \A s \in Affected(g) : s \in States /\ ~active[s] BY <2>3 DEF Affected
    <3>2. ~(Covers[f] = Covers[g] /\ Covers[f] # {})
      BY <3>1, <2>3 DEF Affected, Inactive
    <3> QED BY <3>2, <2>3 DEF SameOrApart
  <2>4. Turns'
    <3> SUFFICES ASSUME NEW g \in Failures, NEW h \in Failures, g # h, failing'[g] = "on",
                        failing'[h] = "on" \/ Ready(h)'
                 PROVE  Affected(g) \intersect Affected(h) = {}
      BY DEF Affected, Turns
    <3>1. g # f /\ failing[g] = "on" BY <2>1
    <3>2. CASE h = f BY <2>1, <2>3, <3>1, <3>2 DEF Ready
    <3>3. CASE h # f BY <2>1, <3>1, <3>3 DEF Ready
    <3> QED BY <3>2, <3>3
  <2>5. Waited' BY <2>1 DEF Inactive
  <2> QED BY <2>1, <2>2, <2>4, <2>5
<1>6. ASSUME NEW f \in Failures, BeginFailure(f) PROVE TakeTurns'
  <2>1. Ready(f) BY <1>6 DEF BeginFailure, Ready
  <2>2. \A s \in Affected(f) : s \in States /\ active[s]
    BY <2>1 DEF Affected, Ready
  <2>3. {s \in Affected(f) : ~active[s]} = {} BY <2>2
  <2>4. stuck' = {} /\ crashed' = crashed /\ failAwaits' = failAwaits
    BY <1>6, <2>3 DEF BeginFailure
  <2>5. /\ failing' = [failing EXCEPT ![f] = "on"]
        /\ active' = [s \in States |-> active[s] /\ s \notin Affected(f)]
    BY <1>6 DEF BeginFailure, Deactivated
  <2>6. ActiveUnlessFailing'
    <3> SUFFICES ASSUME NEW s \in States
                 PROVE  active'[s] <=> ~\E g \in Failures : failing'[g] = "on" /\ s \in Affected(g)
      BY DEF Affected
    <3> QED BY <2>5
  <2>7. Turns'
    <3> SUFFICES ASSUME NEW g \in Failures, NEW h \in Failures, g # h, failing'[g] = "on",
                        failing'[h] = "on" \/ Ready(h)'
                 PROVE  Affected(g) \intersect Affected(h) = {}
      BY DEF Affected, Turns
    <3>1. CASE g = f
      <4>1. failing[h] = "on" \/ Ready(h) BY <2>4, <2>5, <3>1 DEF Ready
      <4> QED BY <4>1, <3>1, <2>1 DEF NoClash
    <3>2. CASE h = f
      <4>1. failing[g] = "on" BY <2>5, <3>2
      <4> QED BY <4>1, <3>2, <2>1
    <3>3. CASE g # f /\ h # f BY <2>4, <2>5, <3>3 DEF Ready
    <3> QED BY <3>1, <3>2, <3>3
  <2> QED BY <2>4, <2>6, <2>7
<1>7. ASSUME NEW f \in Failures, EndFailure(f) PROVE TakeTurns'
  <2>1. failing[f] = "on" BY <1>7 DEF EndFailure
  <2>2. \A s \in Affected(f) : s \in States /\ ~active[s]
    BY <2>1 DEF Affected
  <2>3. stuck' = {} /\ ~crashed'
    BY <1>7, <2>2 DEF EndFailure
  <2>4. /\ failing' = [failing EXCEPT ![f] = "off"]
        /\ active' = [s \in States |-> active[s] \/ s \in Affected(f)]
        /\ failAwaits' = [g \in Failures |-> failAwaits[g] \ Affected(f)]
    BY <1>7 DEF EndFailure
  <2>5. ActiveUnlessFailing'
    <3> SUFFICES ASSUME NEW s \in States
                 PROVE  active'[s] <=> ~\E g \in Failures : failing'[g] = "on" /\ s \in Affected(g)
      BY DEF Affected
    <3>1. CASE s \in Affected(f)
      <4>1. \A g \in Failures \ {f} : s \in Affected(g) => failing[g] # "on"
        BY <2>1, <3>1
      <4> QED BY <2>4, <3>1, <4>1
    <3>2. CASE s \notin Affected(f) BY <2>4, <3>2
    <3> QED BY <3>1, <3>2
  <2>6. Turns'
    <3> SUFFICES ASSUME NEW g \in Failures, NEW h \in Failures, g # h, failing'[g] = "on",
                        failing'[h] = "on" \/ Ready(h)'
                 PROVE  Affected(g) \intersect Affected(h) = {}
      BY DEF Affected, Turns
    <3>1. failing[g] = "on" /\ g # f BY <2>4
    <3>2. CASE h = f BY <2>1, <3>1, <3>2
    <3>3. CASE h # f /\ (failing[h] = "on" \/ Ready(h)) BY <3>1, <3>3
    <3>4. CASE h # f /\ failing[h] = "due" /\ failAwaits[h] # {}
      <4>1. failAwaits'[h] = {} BY <2>4, <3>4 DEF Ready
      <4>2. failAwaits[h] \subseteq Affected(f) BY <4>1, <2>4
      <4>3. CASE Affected(h) \intersect Affected(f) # {}
        <5>1. Affected(h) = Affected(f) BY <3>4, <4>3 DEF SameOrApart, Affected
        <5> QED BY <5>1, <3>1, <2>1
      <4>4. CASE Affected(h) \intersect Affected(f) = {}
        <5>1. failAwaits[h] \subseteq Covers[h]
          OBVIOUS
        <5> QED BY <5>1, <4>2, <4>4, <3>4 DEF Affected
      <4> QED BY <4>3, <4>4
    <3>5. h # f => failing'[h] = failing[h] BY <2>4
    <3> QED BY <3>2, <3>3, <3>4, <3>5 DEF Ready
  <2>7. Waited' BY <2>4
  <2> QED BY <2>3, <2>5, <2>6, <2>7
<1>8. Tick \/ UNCHANGED vars => UNCHANGED <<active, failing, failAwaits, stuck, crashed>>
  BY DEF Tick, vars, causes, waits
<1> QED BY <1>1, <1>2, <1>3, <1>4, <1>5, <1>6, <1>7, <1>8 DEF Next, System

(* Breakdowns of one process, or of processes that share no state, and any *)
(* downtimes: as long as no two of them begin together, no active event is *)
(* succeeded twice and no wait is left on an event that was replaced.      *)
THEOREM NoEventIsLost ==
    ASSUME SameOrApart
    PROVE  Spec => EventsSurvive
<1>1. Init => TakeTurns
  BY DEF Init, TakeTurns, ActiveUnlessFailing, Turns, Waited, NoLostEvents
<1>2. TypeOK /\ ActiveIffUp /\ NoClash /\ TakeTurns /\ [Next]_vars => TakeTurns'
  BY TurnsStep
<1>3. TakeTurns => NoLostEvents BY DEF TakeTurns
<1> QED BY <1>1, <1>2, <1>3, TypeCorrect, ActiveWhenUp, PTL DEF Spec, EventsSurvive

-----------------------------------------------------------------------------
(* What is alive of a process that is broken down waits for the event of   *)
(* its state: the breakdown has interrupted all of it.                     *)
StandStill ==
    \A f \in Failures : failing[f] = "on" =>
        \A s \in Affected(f) \intersect Alive :
            s \in awaitsActive /\ phase[s] \in {"waiting", "halted"}

LEMMA StandStillStep ==
    ASSUME NoneInterrupted, TypeOK, TakeTurns, StandStill, [Next]_vars
    PROVE  StandStill'
<1> USE StatesAssumption, BreakersAssumption
    DEF TypeOK, Phases, StandStill, Alive, TakeTurns
<1>1. CASE UNCHANGED vars BY <1>1 DEF vars, runs, waits, causes, Affected
<1>2. ASSUME NEW s \in States, Start(s) PROVE StandStill'
  BY <1>2 DEF Start, Await, causes, Affected, ActiveUnlessFailing
<1>3. ASSUME NEW s \in States, WaitAgain(s) PROVE StandStill'
  BY <1>3 DEF WaitAgain, WaitsAgain, WaitOver, Await, causes, Affected
<1>4. ASSUME NEW s \in States, WaitForRuns(s) PROVE StandStill'
  BY <1>4 DEF WaitForRuns, WaitsAgain, WaitOver, causes, Affected
<1>5. ASSUME NEW s \in States, FirstWork(s) PROVE StandStill'
  BY <1>5 DEF FirstWork, BeginWork, WaitsAgain, WaitOver, causes, waits, Affected
<1>6. ASSUME NEW s \in States, WorkOn(s) PROVE StandStill'
  BY <1>6 DEF WorkOn, BeginWork, WaitOver, causes, waits, Affected
<1>7. ASSUME NEW s \in States, Finish(s) PROVE StandStill'
  BY <1>7 DEF Finish, causes, Affected
<1>8. ASSUME NEW d \in Downtimes, BeginDown(d) PROVE StandStill'
  BY <1>8 DEF BeginDown, Interrupt, Interruptible, Await, Affected, ActiveUnlessFailing
<1>9. ASSUME NEW d \in Downtimes, EndDown(d) PROVE StandStill'
  BY <1>9 DEF EndDown, runs, Affected
<1>10. ASSUME NEW f \in Failures, FailureDue(f) PROVE StandStill'
  BY <1>10 DEF FailureDue, runs, waits, Affected
<1>11. ASSUME NEW f \in Failures, BeginFailure(f) PROVE StandStill'
  BY <1>11 DEF BeginFailure, Interrupt, Interruptible, Await, Deactivated, Affected,
               NoneInterrupted, Ready, Turns
<1>12. ASSUME NEW f \in Failures, EndFailure(f) PROVE StandStill'
  BY <1>12 DEF EndFailure, runs, Affected, Turns
<1>13. CASE Tick
  BY <1>13 DEF Tick, waits, Affected
<1> QED BY <1>1, <1>2, <1>3, <1>4, <1>5, <1>6, <1>7, <1>8, <1>9, <1>10, <1>11, <1>12, <1>13
        DEF Next, System, Run

(* While a process is broken down nothing of it is produced and nothing is *)
(* changed over, beside any downtimes and breakdowns of one process or     *)
(* apart, as long as no breakdown begins together with another one that    *)
(* shares a state or while a state of it is still interrupted.             *)
THEOREM BreakdownsStop ==
    ASSUME SameOrApart
    PROVE  Spec => BreakdownsStopWork
<1>1. Init => TakeTurns /\ StandStill
  BY StatesAssumption, BreakersAssumption
  DEF Init, TakeTurns, ActiveUnlessFailing, Turns, Waited, NoLostEvents, StandStill, Alive, Affected
<1>2. TypeOK /\ ActiveIffUp /\ NoClash /\ NoneInterrupted /\ TakeTurns /\ StandStill /\ [Next]_vars
      => (TakeTurns /\ StandStill)'
  BY TurnsStep, StandStillStep
<1>3. TypeOK /\ StandStill => NoWorkWhileFailing
  BY StatesAssumption, BreakersAssumption
  DEF TypeOK, StandStill, NoWorkWhileFailing, Alive, Affected
<1> QED BY <1>1, <1>2, <1>3, TypeCorrect, ActiveWhenUp, PTL DEF Spec, BreakdownsStopWork

-----------------------------------------------------------------------------
(* No state is deactivated by two process breakdowns. *)
DisjointFailures ==
    \A f, g \in Failures : f # g => Affected(f) \intersect Affected(g) = {}

(* Process breakdowns alone: what is alive of a process that is broken     *)
(* down waits for the event of its state, and a state that is still        *)
(* flagged interrupted although its process is back resumes before time    *)
(* passes, hence before that process can break down again.                 *)
ProcessDown ==
    /\ up /\ awaitsUp = {}
    /\ \A s \in States : phase[s] # "clearing" => awaitsRuns[s] = {}
    /\ \A s \in States : interrupted[s] => phase[s] \in {"waiting", "halted"}
    /\ \A f \in Failures : failing[f] = "on" =>
           \A s \in Affected(f) \intersect Alive :
               s \in awaitsActive /\ phase[s] \in {"waiting", "halted"}
    /\ \A s \in awaitsActive : ~active[s]
    /\ \A f \in Failures : \A s \in Affected(f) :
           interrupted[s] /\ failing[f] # "on" => failing[f] = "off" /\ timer[f] > 0

LEMMA ProcessDownStep ==
    ASSUME Downtimes = {}, DisjointFailures,
           TypeOK, TakeTurns, ProcessDown, [Next]_vars
    PROVE  ProcessDown'
<1> USE StatesAssumption, BreakersAssumption, TimesAssumption
    DEF TypeOK, Phases, Times, ProcessDown, Breakers, Alive, TakeTurns
<1>1. CASE UNCHANGED vars BY <1>1 DEF vars, runs, waits, causes, Affected
<1>2. ASSUME NEW s \in States, Start(s) PROVE ProcessDown'
  BY <1>2 DEF Start, Await, causes, Affected, ActiveUnlessFailing
<1>3. ASSUME NEW s \in States, WaitAgain(s) PROVE ProcessDown'
  BY <1>3 DEF WaitAgain, WaitsAgain, WaitOver, Await, causes, Affected
<1>4. ASSUME NEW s \in States, WaitForRuns(s) PROVE ProcessDown'
  BY <1>4 DEF WaitForRuns, WaitsAgain, WaitOver, causes, Affected
<1>5. ASSUME NEW s \in States, FirstWork(s) PROVE ProcessDown'
  BY <1>5 DEF FirstWork, BeginWork, WaitsAgain, WaitOver, causes, waits, Affected
<1>6. ASSUME NEW s \in States, WorkOn(s) PROVE ProcessDown'
  BY <1>6 DEF WorkOn, BeginWork, WaitOver, causes, waits, Affected
<1>7. ASSUME NEW s \in States, Finish(s) PROVE ProcessDown'
  BY <1>7 DEF Finish, causes, Affected
<1>8. ASSUME NEW f \in Failures, FailureDue(f) PROVE ProcessDown'
  BY <1>8 DEF FailureDue, runs, waits, Affected
<1>9. ASSUME NEW f \in Failures, BeginFailure(f) PROVE ProcessDown'
  BY <1>9 DEF BeginFailure, Interrupt, Interruptible, Await, Deactivated, Affected, DisjointFailures
<1>10. ASSUME NEW f \in Failures, EndFailure(f) PROVE ProcessDown'
  BY <1>10 DEF EndFailure, runs, Affected, DisjointFailures
<1>11. CASE Tick
  <2>1. /\ UNCHANGED <<phase, interrupted, awaitsUp, awaitsActive, awaitsRuns, stuck,
                       active, up, failing>>
        /\ timer' = [b \in Breakers |-> IF timer[b] = 0 THEN 0 ELSE timer[b] - 1]
        /\ ~Pending
    BY <1>11 DEF Tick, waits
  <2>2. ASSUME NEW f \in Failures, NEW s \in Affected(f), interrupted[s], failing[f] # "on"
        PROVE  FALSE
    <3>1. s \in States /\ active[s]
      BY <2>2 DEF Affected, DisjointFailures, ActiveUnlessFailing
    <3>2. phase[s] \in {"waiting", "halted"} BY <2>2, <3>1
    <3>3. WaitOver(s) BY <3>1, <3>2 DEF WaitOver, NoLostEvents
    <3> QED BY <2>1, <3>1, <3>2, <3>3 DEF Pending
  <2> QED BY <2>1, <2>2 DEF Affected
<1> QED BY <1>1, <1>2, <1>3, <1>4, <1>5, <1>6, <1>7, <1>8, <1>9, <1>10, <1>11
        DEF Next, System, Run

(* While a process is broken down nothing of it is produced and nothing is *)
(* changed over, however often and in whatever order runs begin, are       *)
(* interrupted and resumed, for a resource without other downtimes and     *)
(* breakdowns that share no state.                                         *)
THEOREM FailuresStopWork ==
    ASSUME Downtimes = {}, DisjointFailures
    PROVE  Spec => []NoWorkWhileFailing
<1>1. Init => TakeTurns /\ ProcessDown
  BY StatesAssumption, BreakersAssumption
  DEF Init, TakeTurns, ActiveUnlessFailing, Turns, Waited, NoLostEvents, ProcessDown, Alive, Affected
<1>2. SameOrApart /\ NoClash
  BY DEF DisjointFailures, SameOrApart, NoClash
<1>3. TypeOK /\ ActiveIffUp /\ TakeTurns /\ ProcessDown /\ [Next]_vars => (TakeTurns /\ ProcessDown)'
  BY <1>2, TurnsStep, ProcessDownStep
<1>4. TypeOK /\ ProcessDown => NoWorkWhileFailing
  BY StatesAssumption, BreakersAssumption
  DEF TypeOK, ProcessDown, NoWorkWhileFailing, Alive, Affected
<1> QED BY <1>1, <1>3, <1>4, TypeCorrect, ActiveWhenUp, PTL DEF Spec
=============================================================================
