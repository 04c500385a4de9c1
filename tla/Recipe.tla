-------------------------------- MODULE Recipe --------------------------------
(* What following a process model promises, whatever carries it out: every   *)
(* product goes through every node once and after the nodes before it, a     *)
(* failure that must be repaired at once is repaired before the next node,   *)
(* and the product leaves finished and repaired.                             *)
EXTENDS Integers

CONSTANTS Products, Nodes,
          Before,     \* [Nodes -> SUBSET Nodes]: the nodes a node waits for
          Urgent      \* the nodes whose failure is repaired before anything else

VARIABLES finished,   \* [Products -> SUBSET Nodes]
          defects,    \* [Products -> SUBSET Nodes]: failed and not yet repaired
          left        \* the products that have left

vars == <<finished, defects, left>>

TypeOK == /\ finished \in [Products -> SUBSET Nodes]
          /\ defects \in [Products -> SUBSET Nodes]
          /\ left \in SUBSET Products

Init == /\ finished = [p \in Products |-> {}]
        /\ defects = [p \in Products |-> {}]
        /\ left = {}

(* A node is made once its predecessors are and nothing urgent is open; it  *)
(* may fail.                                                                *)
Make(p, n) == /\ n \in Nodes \ finished[p]
              /\ Before[n] \subseteq finished[p]
              /\ defects[p] \cap Urgent = {}
              /\ finished' = [finished EXCEPT ![p] = @ \cup {n}]
              /\ \E failed \in SUBSET {n} :
                     defects' = [defects EXCEPT ![p] = @ \cup failed]
              /\ UNCHANGED left

(* One failure is repaired: an urgent one, or any once the nodes are done. *)
Repair(p, n) == /\ n \in defects[p]
                /\ \/ n \in Urgent
                   \/ finished[p] = Nodes /\ defects[p] \cap Urgent = {}
                /\ defects' = [defects EXCEPT ![p] = @ \ {n}]
                /\ UNCHANGED <<finished, left>>

Leave(p) == /\ p \notin left
            /\ finished[p] = Nodes
            /\ defects[p] = {}
            /\ left' = left \cup {p}
            /\ UNCHANGED <<finished, defects>>

Next == \E p \in Products : Leave(p) \/ \E n \in Nodes : Make(p, n) \/ Repair(p, n)

Spec == Init /\ [][Next]_vars
=============================================================================
