---------------------------- MODULE ProcessModel ----------------------------
(* Following a process model: the generator that takes a product through the *)
(* nodes of its precedence graph, one request to the router at a time, with  *)
(* the reworks its failed processes call for                                 *)
(* (process_handlers/system_process_model_process_handler.py,                *)
(* process_models.py), and the resources that execute the processes, for one *)
(* product or for a lot of them (process_handlers/production_process_handler *)
(* .py).                                                                     *)
(*                                                                           *)
(* Products share no marking (create_instance), but the products of one lot  *)
(* share the verdict on its execution, and an exception in one generator     *)
(* ends the simulation for all. The lists processes_needing_rework and       *)
(* executed_production_processes are written and never read; executed keeps  *)
(* the second one with what the execution really did.                        *)
EXTENDS Integers, Sequences, FiniteSets

CONSTANTS
    Products, Processes,
    NodeCount,      \* the graph's nodes are 1 .. NodeCount, in the order of its list
    Before,         \* [Nodes -> SUBSET Nodes]: the predecessors of a node
    ProcessOf,      \* [Nodes -> Processes]: what executes a node; several nodes
                    \* share one where they require the same capability
    Reworks,        \* [Processes -> SUBSET Processes]: the reworks for a process
    Blocking,       \* the reworks that hold the product up
    CanFail,        \* the processes with a failure rate
    MaxLot          \* the most products executed together

None == "none"          \* a product before its first request
Nodes == 1 .. NodeCount
Defined(r) == \E q \in Processes : r \in Reworks[q]     \* r is a ReworkProcess

ASSUME GraphAssumption ==
    /\ NodeCount \in Nat
    /\ Before \in [Nodes -> SUBSET Nodes]
    /\ ProcessOf \in [Nodes -> Processes]
    /\ None \notin Processes
ASSUME ReworkAssumption ==
    /\ Reworks \in [Processes -> SUBSET Processes]
    /\ \A n \in Nodes : ~Defined(ProcessOf[n])
    /\ \A q \in CanFail : ~Defined(q)      \* a ReworkProcess has no failure rate

VARIABLES
    phase,          \* [Products -> the point its generator is at]
    current,        \* [Products -> its current_process]
    failed,         \* [Products -> its last_process_failed]
    spoilt,         \* [Products -> whether its last execution really failed]
    marked,         \* [Products -> the marked nodes]
    blocking,       \* [Products -> Seq(Processes)]: failed processes, in the order
    nonblocking,    \*   their rework mappings were appended to each of the lists
    executed,       \* [Products -> what was executed on it, oldest first]
    raised          \* an exception has ended the simulation

vars == <<phase, current, failed, spoilt, marked, blocking, nonblocking, executed, raised>>

Phases == {"new", "asking", "routed", "returned", "through", "left"}
Execution == [process : Processes, failed : BOOLEAN, told : BOOLEAN]

TypeOK == /\ phase \in [Products -> Phases]
          /\ current \in [Products -> Processes \cup {None}]
          /\ failed \in [Products -> BOOLEAN]
          /\ spoilt \in [Products -> BOOLEAN]
          /\ marked \in [Products -> SUBSET Nodes]
          /\ blocking \in [Products -> Seq(Processes)]
          /\ nonblocking \in [Products -> Seq(Processes)]
          /\ executed \in [Products -> Seq(Execution)]
          /\ raised \in BOOLEAN

Init == /\ phase = [p \in Products |-> "new"]
        /\ current = [p \in Products |-> None]
        /\ failed = [p \in Products |-> FALSE]
        /\ spoilt = [p \in Products |-> FALSE]
        /\ marked = [p \in Products |-> {}]
        /\ blocking = [p \in Products |-> <<>>]
        /\ nonblocking = [p \in Products |-> <<>>]
        /\ executed = [p \in Products |-> <<>>]
        /\ raised = FALSE

-----------------------------------------------------------------------------
(* The graph.                                                              *)

Enabled(marks) == {n \in Nodes \ marks : Before[n] \subseteq marks}

(* The node an executed process is booked on: the first one that requires  *)
(* its capability, marked or not.                                          *)
Booked(q) == CHOOSE n \in Nodes : /\ ProcessOf[n] = q
                                  /\ \A m \in Nodes : ProcessOf[m] = q => n <= m

Asked(failures) == UNION {Reworks[failures[i]] : i \in DOMAIN failures}

(* Mutant of NextPossible: the loop does not look at the rework mappings. *)
NextOfGraphAlone(marks, block, nonblock) == {ProcessOf[n] : n \in Enabled(marks)}
(* Mutant of NextPossible: blocking failures wait for the graph like the others. *)
NextWithoutWaiting(marks, block, nonblock) ==
    IF Enabled(marks) # {} THEN {ProcessOf[n] : n \in Enabled(marks)}
    ELSE Asked(block \o nonblock)
(* What the generator asks the router for next; nothing ends its loop.     *)
NextPossible(marks, block, nonblock) ==
    IF block # <<>> THEN Asked(block)
    ELSE IF Enabled(marks) # {} THEN {ProcessOf[n] : n \in Enabled(marks)}
    ELSE Asked(nonblock)

(* Python's list.pop(index) of the first failure the rework r answers.      *)
FirstAnswered(failures, r) ==
    CHOOSE i \in DOMAIN failures :
        r \in Reworks[failures[i]] /\ \A j \in 1 .. i - 1 : r \notin Reworks[failures[j]]

Answered(failures, r) ==
    LET i == FirstAnswered(failures, r)
    IN  [j \in 1 .. Len(failures) - 1 |-> IF j < i THEN failures[j] ELSE failures[j + 1]]

-----------------------------------------------------------------------------
(* The generator enters its loop, or goes round it: with nothing possible   *)
(* it leaves the loop.                                                      *)
Ask(p, marks, block, nonblock) ==
    phase' = [phase EXCEPT ![p] = IF NextPossible(marks, block, nonblock) = {}
                                  THEN "through" ELSE "asking"]

Enter(p) == /\ phase[p] = "new"
            /\ Ask(p, marked[p], blocking[p], nonblocking[p])
            /\ UNCHANGED <<current, failed, spoilt, marked, blocking, nonblocking,
                           executed, raised>>

(* The router allocates one of the possible processes.                     *)
Route(p) == /\ phase[p] = "asking"
            /\ \E q \in NextPossible(marked[p], blocking[p], nonblocking[p]) :
                   current' = [current EXCEPT ![p] = q]
            /\ phase' = [phase EXCEPT ![p] = "routed"]
            /\ UNCHANGED <<failed, spoilt, marked, blocking, nonblocking, executed, raised>>

(* One process state after the other ends, and each one's verdict is        *)
(* written to every product of the lot: the last one's stays.               *)
Verdict(lot, outcome, last) == [p \in lot |-> outcome[last]]

Execute(lot, q) ==
    /\ lot # {} /\ Cardinality(lot) <= MaxLot
    /\ \A p \in lot : phase[p] = "routed" /\ current[p] = q
    /\ \E outcome \in [lot -> IF q \in CanFail THEN BOOLEAN ELSE {FALSE}], last \in lot :
           /\ failed' = [p \in Products |->
                             IF p \in lot THEN Verdict(lot, outcome, last)[p] ELSE failed[p]]
           /\ spoilt' = [p \in Products |-> IF p \in lot THEN outcome[p] ELSE spoilt[p]]
    /\ phase' = [p \in Products |-> IF p \in lot THEN "returned" ELSE phase[p]]
    /\ UNCHANGED <<current, marked, blocking, nonblocking, executed, raised>>

(* The history is kept up to HistoryLength executions: more than a graph    *)
(* with every node executed and reworked once can need.                     *)
HistoryLength == 2 * NodeCount
Record(p) == executed' = [executed EXCEPT ![p] =
    IF Len(@) = HistoryLength THEN @
    ELSE Append(@, [process |-> current[p], failed |-> spoilt[p], told |-> failed[p]])]

-----------------------------------------------------------------------------
(* The generator resumes with its process executed: it notes a failure, or  *)
(* the failure a rework has answered, marks the node and goes on.           *)

HoldsUp(q) == Reworks[q] \cap Blocking # {}

(* Mutant of Marked: the node is not marked. *)
MarkedNot(marks, q) == marks
Marked(marks, q) == marks \cup {Booked(q)}

Produced(p) ==
    LET q == current[p]
        block == IF failed[p] /\ HoldsUp(q) THEN Append(blocking[p], q) ELSE blocking[p]
        nonblock == IF failed[p] /\ ~HoldsUp(q) THEN Append(nonblocking[p], q)
                    ELSE nonblocking[p]
    IN  /\ phase[p] = "returned"
        /\ ~Defined(q)
        /\ failed[p] => Reworks[q] # {}
        /\ marked' = [marked EXCEPT ![p] = Marked(@, q)]
        /\ blocking' = [blocking EXCEPT ![p] = block]
        /\ nonblocking' = [nonblocking EXCEPT ![p] = nonblock]
        /\ Record(p)
        /\ failed' = [failed EXCEPT ![p] = FALSE]
        /\ Ask(p, Marked(marked[p], q), block, nonblock)
        /\ UNCHANGED <<current, spoilt, raised>>

Reworked(p) ==
    LET r == current[p]
        urgent == \E i \in DOMAIN blocking[p] : r \in Reworks[blocking[p][i]]
        block == IF urgent THEN Answered(blocking[p], r) ELSE blocking[p]
        nonblock == IF urgent THEN nonblocking[p] ELSE Answered(nonblocking[p], r)
    IN  /\ phase[p] = "returned"
        /\ Defined(r)
        /\ blocking' = [blocking EXCEPT ![p] = block]
        /\ nonblocking' = [nonblocking EXCEPT ![p] = nonblock]
        /\ Record(p)
        /\ failed' = [failed EXCEPT ![p] = FALSE]
        /\ Ask(p, marked[p], block, nonblock)
        /\ UNCHANGED <<current, spoilt, marked, raised>>

(* A failure that no rework answers: get_rework_compatible raises.          *)
Raise(p) == /\ phase[p] = "returned"
            /\ failed[p]
            /\ ~Defined(current[p])
            /\ Reworks[current[p]] = {}
            /\ raised' = TRUE
            /\ UNCHANGED <<phase, current, failed, spoilt, marked, blocking, nonblocking,
                           executed>>

(* Out of the loop: the product is brought to the target and handed back.   *)
Leave(p) == /\ phase[p] = "through"
            /\ phase' = [phase EXCEPT ![p] = "left"]
            /\ UNCHANGED <<current, failed, spoilt, marked, blocking, nonblocking,
                           executed, raised>>

Generator(p) == Enter(p) \/ Produced(p) \/ Reworked(p) \/ Raise(p) \/ Leave(p)
Resources(p) == \E lot \in SUBSET Products : p \in lot /\ Execute(lot, current[p])

Next == /\ ~raised
        /\ \E p \in Products : Generator(p) \/ Route(p) \/ Resources(p)

Spec == Init /\ [][Next]_vars

(* simpy resumes a generator whose event has fired; the router and the      *)
(* resources serve what is asked of them.                                   *)
FairSpec == /\ Spec
            /\ \A p \in Products : /\ WF_vars(~raised /\ Generator(p))
                                   /\ WF_vars(~raised /\ Route(p))
                                   /\ WF_vars(~raised /\ Resources(p))
-----------------------------------------------------------------------------
(* Properties.                                                             *)

Reworkings(log) == {i \in DOMAIN log : Defined(log[i].process)}

(* Each of the due failures is answered by a rework of its own, executed    *)
(* later and before the execution at index upto.                            *)
Repaired(log, due, upto) ==
    LET answers == {i \in Reworkings(log) : i < upto}
    IN  \E f \in [due -> answers] :
            /\ \A i \in due : f[i] > i /\ log[f[i]].process \in Reworks[log[i].process]
            /\ \A i, j \in due : f[i] = f[j] => i = j

NeedsBlockingRework(q) == Reworks[q] \cap Blocking # {}
Told(log) == {i \in DOMAIN log : log[i].told}

(* A product leaves with every node executed once, every failure it was     *)
(* told of repaired, and not one rework more than it had failures.          *)
LeavesFinished ==
    \A p \in Products : phase[p] \in {"through", "left"} =>
        LET log == executed[p]
        IN  /\ \A n \in Nodes :
                   Cardinality({i \in DOMAIN log : log[i].process = ProcessOf[n]}) = 1
            /\ Repaired(log, Told(log), Len(log) + 1)
            /\ Cardinality(Reworkings(log)) = Cardinality(Told(log))

(* last_process_failed tracks "if the last executed process failed"         *)
(* (entities/product.py): no product leaves with a failed process that no   *)
(* rework has repaired. The code breaks this in lots (README, section 4).   *)
LeavesRepaired ==
    \A p \in Products : phase[p] = "left" =>
        LET log == executed[p]
        IN  Repaired(log, {i \in DOMAIN log : log[i].failed}, Len(log) + 1)

(* Every product gets through its process model, unless an exception ends   *)
(* the simulation. update_marking "saves that the process has been          *)
(* executed" (process_models.py): the loop never asks for it again.         *)
EveryProductLeaves == \A p \in Products : <>(phase[p] = "left" \/ raised)

(* The marks and the rework mappings carry out the recipe.                  *)
FailedNodes(failures) == {n \in Nodes : \E i \in DOMAIN failures : failures[i] = ProcessOf[n]}
OpenDefects == [p \in Products |-> FailedNodes(blocking[p]) \cup FailedNodes(nonblocking[p])]
UrgentNodes == {n \in Nodes : NeedsBlockingRework(ProcessOf[n])}
Gone == {p \in Products : phase[p] = "left"}

R == INSTANCE Recipe WITH Urgent <- UrgentNodes, finished <- marked,
                          defects <- OpenDefects, left <- Gone

(* What the recipe is carried out under: the adjacency has no cycle, and no *)
(* two nodes are executed by the same process.                              *)
Acyclic == \E rank \in [Nodes -> Nat] :
               \A n \in Nodes : \A m \in Before[n] : rank[m] < rank[n]
OneNodeEach == \A m, n \in Nodes : ProcessOf[m] = ProcessOf[n] => m = n

(* Every run of the generators is a run of the recipe: what they ask for,   *)
(* mark, note and strike off never departs from it.                         *)
FollowsRecipe == R!Spec
=============================================================================
