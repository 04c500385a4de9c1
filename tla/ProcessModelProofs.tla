------------------------- MODULE ProcessModelProofs -------------------------
(* Proofs about ProcessModel: its types, and, for every acyclic graph whose  *)
(* nodes are executed by different processes, that it implements Recipe and  *)
(* that a product leaves with everything executed and repaired.              *)
EXTENDS ProcessModel, FiniteSetTheorems, WellFoundedInduction, TLAPS

(* Every non-empty set of natural numbers has a least element: the initial *)
(* segments 0 .. x are finite sets, and strict inclusion is well-founded   *)
(* on finite sets.                                                         *)
LEMMA LeastNatural ==
    ASSUME NEW T, T \subseteq Nat, T # {}
    PROVE  \E x \in T : \A y \in T : x <= y
<1> DEFINE F == {0 .. x : x \in T}
<1>1. IsWellFoundedOn(StrictSubsetOrdering(Nat), FiniteSubsetsOf(Nat))
  BY FS_StrictSubsetOrderingWellFounded
<1>2. F \subseteq FiniteSubsetsOf(Nat) /\ F # {}
  <2>1. ASSUME NEW x \in T PROVE 0 .. x \in FiniteSubsetsOf(Nat)
    BY FS_Interval DEF FiniteSubsetsOf
  <2> QED BY <2>1
<1>3. \E m \in F : \A y \in F : <<y, m>> \notin StrictSubsetOrdering(Nat)
  <2> HIDE DEF F
  <2> QED BY <1>1, <1>2, WFMin
<1>4. PICK x \in T : \A y \in T : <<0 .. y, 0 .. x>> \notin StrictSubsetOrdering(Nat)
  BY <1>3
<1>5. ASSUME NEW y \in T, y < x PROVE FALSE
  <2>1. 0 .. y \subseteq 0 .. x /\ 0 .. y # 0 .. x
    <3>1. x \in 0 .. x /\ x \notin 0 .. y BY <1>5
    <3> QED BY <3>1, <1>5
  <2>2. 0 .. y \in SUBSET Nat /\ 0 .. x \in SUBSET Nat OBVIOUS
  <2> HIDE <1>5
  <2> QED BY <2>1, <2>2, <1>4 DEF StrictSubsetOrdering
<1> QED BY <1>5

Within(new, old) == \A j \in DOMAIN new : \E k \in DOMAIN old : new[j] = old[k]
KeepsBut(new, old, q) == \A k \in DOMAIN old : old[k] = q \/ \E j \in DOMAIN new : new[j] = old[k]

(* A list of failures keeps its type when one that a rework answers goes,   *)
(* and loses nothing else.                                                  *)
LEMMA AnsweredProperties ==
    ASSUME NEW list \in Seq(Processes), NEW r,
           \E i \in DOMAIN list : r \in Reworks[list[i]]
    PROVE  /\ Answered(list, r) \in Seq(Processes)
           /\ Within(Answered(list, r), list)
           /\ \E i \in DOMAIN list : KeepsBut(Answered(list, r), list, list[i])
<1> DEFINE hits == {i \in DOMAIN list : r \in Reworks[list[i]]}
           i == FirstAnswered(list, r)
<1>1. hits \subseteq Nat /\ hits # {} OBVIOUS
<1>2. PICK x \in hits : \A y \in hits : x <= y BY <1>1, LeastNatural
<1>3. i \in DOMAIN list /\ r \in Reworks[list[i]]
  <2>1. r \in Reworks[list[x]] /\ \A j \in 1 .. x - 1 : r \notin Reworks[list[j]]
    BY <1>2
  <2> QED BY <1>2, <2>1 DEF FirstAnswered
<1> HIDE DEF i
<1>4. Answered(list, r) =
          [j \in 1 .. Len(list) - 1 |-> IF j < i THEN list[j] ELSE list[j + 1]]
  BY DEF Answered, i
<1>5. Len(list) \in Nat /\ i \in 1 .. Len(list) BY <1>3
<1>6. Answered(list, r) \in Seq(Processes)
  BY <1>4, <1>5
<1>7. ASSUME NEW k \in DOMAIN list, k # i
      PROVE  \E j \in DOMAIN Answered(list, r) : Answered(list, r)[j] = list[k]
  <2>1. CASE k < i BY <1>4, <1>5, <2>1
  <2>2. CASE k > i
    <3>1. k - 1 \in 1 .. Len(list) - 1 /\ ~(k - 1 < i) /\ (k - 1) + 1 = k BY <1>5, <2>2
    <3> QED BY <1>4, <3>1
  <2> QED BY <1>5, <1>7, <2>1, <2>2
<1>8. ASSUME NEW j \in DOMAIN Answered(list, r)
      PROVE  \E k \in DOMAIN list : Answered(list, r)[j] = list[k]
  <2>1. j \in 1 .. Len(list) - 1 BY <1>4
  <2>2. j \in DOMAIN list /\ j + 1 \in DOMAIN list BY <2>1, <1>5
  <2> QED BY <1>4, <2>1, <2>2
<1>9. Within(Answered(list, r), list) BY <1>8 DEF Within
<1>10. KeepsBut(Answered(list, r), list, list[i]) BY <1>7 DEF KeepsBut
<1> QED BY <1>3, <1>6, <1>9, <1>10

LEMMA NextPossibleAreProcesses ==
    ASSUME NEW marks \in SUBSET Nodes, NEW block \in Seq(Processes),
           NEW nonblock \in Seq(Processes)
    PROVE  NextPossible(marks, block, nonblock) \subseteq Processes
<1> USE GraphAssumption, ReworkAssumption
<1>1. Asked(block) \subseteq Processes /\ Asked(nonblock) \subseteq Processes BY DEF Asked
<1>2. {ProcessOf[n] : n \in Enabled(marks)} \subseteq Processes BY DEF Enabled
<1> QED BY <1>1, <1>2 DEF NextPossible

(* What the router is asked for answers to where the product stands.        *)
Current ==
    \A p \in Products : phase[p] \in {"routed", "returned"} =>
        current[p] \in NextPossible(marked[p], blocking[p], nonblocking[p])

(* A generator out of its loop had nothing left to ask for.                 *)
NothingPossible ==
    \A p \in Products : phase[p] \in {"through", "left"} =>
        NextPossible(marked[p], blocking[p], nonblocking[p]) = {}

(* Each list holds failures of its kind, which some rework answers.         *)
Mappings ==
    \A p \in Products :
        /\ \A i \in DOMAIN blocking[p] : Reworks[blocking[p][i]] \cap Blocking # {}
        /\ \A i \in DOMAIN nonblocking[p] :
               /\ Reworks[nonblocking[p][i]] # {}
               /\ Reworks[nonblocking[p][i]] \cap Blocking = {}

IInv == TypeOK /\ Current /\ NothingPossible /\ Mappings

(* Only a failure with a rework that blocks is in the blocking list, so the *)
(* answered failure of a rework is in the list the generator looks at.      *)
LEMMA ReworkAnswers ==
    ASSUME IInv, NEW p \in Products, phase[p] = "returned", Defined(current[p])
    PROVE  LET r == current[p]
           IN  \/ /\ \E i \in DOMAIN blocking[p] : r \in Reworks[blocking[p][i]]
                  /\ blocking[p] # <<>>
               \/ /\ \E i \in DOMAIN nonblocking[p] : r \in Reworks[nonblocking[p][i]]
                  /\ blocking[p] = <<>>
                  /\ Enabled(marked[p]) = {}
<1> DEFINE r == current[p]
<1>1. r \in NextPossible(marked[p], blocking[p], nonblocking[p]) BY DEF IInv, Current
<1>2. r \notin {ProcessOf[n] : n \in Enabled(marked[p])}
  BY ReworkAssumption DEF Enabled
<1>3. CASE blocking[p] # <<>>
  <2>1. r \in Asked(blocking[p]) BY <1>1, <1>3 DEF NextPossible
  <2> QED BY <1>3, <2>1 DEF Asked
<1>4. CASE blocking[p] = <<>>
  <2>1. Enabled(marked[p]) = {} /\ r \in Asked(nonblocking[p])
    BY <1>1, <1>2, <1>4 DEF NextPossible
  <2> QED BY <1>4, <2>1 DEF Asked
<1> QED BY <1>3, <1>4

(* A process that is no rework was asked for by an enabled node, and while  *)
(* no blocking rework was open.                                             *)
LEMMA ProducedIsEnabled ==
    ASSUME IInv, NEW p \in Products, phase[p] = "returned", ~Defined(current[p])
    PROVE  /\ blocking[p] = <<>>
           /\ \E n \in Enabled(marked[p]) : current[p] = ProcessOf[n]
<1> DEFINE q == current[p]
<1>1. q \in NextPossible(marked[p], blocking[p], nonblocking[p]) BY DEF IInv, Current
<1>2. \A list \in Seq(Processes) : q \notin Asked(list)
  BY DEF Asked, Defined
<1>3. blocking[p] \in Seq(Processes) /\ nonblocking[p] \in Seq(Processes)
  BY DEF IInv, TypeOK
<1>4. q \notin Asked(blocking[p]) /\ q \notin Asked(nonblocking[p]) BY <1>2, <1>3
<1> QED BY <1>1, <1>4 DEF NextPossible

LEMMA BookedOnNode ==
    ASSUME NEW n \in Nodes
    PROVE  Booked(ProcessOf[n]) \in Nodes /\ ProcessOf[Booked(ProcessOf[n])] = ProcessOf[n]
<1> DEFINE same == {m \in Nodes : ProcessOf[m] = ProcessOf[n]}
<1>1. same \subseteq Nat /\ same # {} BY GraphAssumption DEF Nodes
<1>2. PICK x \in same : \A y \in same : x <= y BY <1>1, LeastNatural
<1> QED BY <1>2 DEF Booked

(* A rework strikes one failure off one list: a blocking one, or any other  *)
(* once the graph is done and no blocking one is open.                      *)
LEMMA ReworkedLists ==
    ASSUME IInv, NEW p \in Products, Reworked(p)
    PROVE  \E block \in Seq(Processes), nonblock \in Seq(Processes), q \in Processes :
               /\ blocking' = [blocking EXCEPT ![p] = block]
               /\ nonblocking' = [nonblocking EXCEPT ![p] = nonblock]
               /\ Ask(p, marked[p], block, nonblock)
               /\ Within(block, blocking[p]) /\ Within(nonblock, nonblocking[p])
               /\ KeepsBut(block, blocking[p], q) /\ KeepsBut(nonblock, nonblocking[p], q)
               /\ \/ \E i \in DOMAIN blocking[p] : q = blocking[p][i]
                  \/ /\ \E i \in DOMAIN nonblocking[p] : q = nonblocking[p][i]
                     /\ blocking[p] = <<>>
                     /\ Enabled(marked[p]) = {}
<1> DEFINE r == current[p]
           urgent == \E i \in DOMAIN blocking[p] : r \in Reworks[blocking[p][i]]
           first == Answered(blocking[p], r)
           second == Answered(nonblocking[p], r)
<1>1. blocking[p] \in Seq(Processes) /\ nonblocking[p] \in Seq(Processes)
  BY DEF IInv, TypeOK
<1>2. /\ phase[p] = "returned" /\ Defined(r)
      /\ blocking' = [blocking EXCEPT ![p] = IF urgent THEN first ELSE blocking[p]]
      /\ nonblocking' = [nonblocking EXCEPT ![p] = IF urgent THEN nonblocking[p] ELSE second]
      /\ Ask(p, marked[p], IF urgent THEN first ELSE blocking[p],
                           IF urgent THEN nonblocking[p] ELSE second)
  BY DEF Reworked
<1>3. CASE urgent
  <2>1. /\ first \in Seq(Processes) /\ Within(first, blocking[p])
        /\ \E i \in DOMAIN blocking[p] : KeepsBut(first, blocking[p], blocking[p][i])
    BY <1>1, <1>3, AnsweredProperties
  <2>2. Within(nonblocking[p], nonblocking[p])
        /\ \A q : KeepsBut(nonblocking[p], nonblocking[p], q)
    BY DEF Within, KeepsBut
  <2>3. \A i \in DOMAIN blocking[p] : blocking[p][i] \in Processes BY <1>1
  <2> HIDE DEF r, first, second
  <2> QED BY <1>1, <1>2, <1>3, <2>1, <2>2, <2>3
<1>4. CASE ~urgent
  <2>1. /\ \E i \in DOMAIN nonblocking[p] : r \in Reworks[nonblocking[p][i]]
        /\ blocking[p] = <<>> /\ Enabled(marked[p]) = {}
    BY <1>2, <1>4, ReworkAnswers
  <2>2. /\ second \in Seq(Processes) /\ Within(second, nonblocking[p])
        /\ \E i \in DOMAIN nonblocking[p] : KeepsBut(second, nonblocking[p], nonblocking[p][i])
    BY <1>1, <2>1, AnsweredProperties
  <2>3. Within(blocking[p], blocking[p]) /\ \A q : KeepsBut(blocking[p], blocking[p], q)
    BY DEF Within, KeepsBut
  <2>4. \A i \in DOMAIN nonblocking[p] : nonblocking[p][i] \in Processes BY <1>1
  <2> HIDE DEF r, first, second
  <2> QED BY <1>1, <1>2, <1>4, <2>1, <2>2, <2>3, <2>4
<1> QED BY <1>3, <1>4

LEMMA TypeStep == ASSUME IInv, [Next]_vars PROVE TypeOK'
<1> USE GraphAssumption, ReworkAssumption DEF IInv, TypeOK, Phases
<1>1. CASE UNCHANGED vars BY <1>1 DEF vars
<1>2. ASSUME NEW p \in Products, Enter(p) PROVE TypeOK'
  BY <1>2 DEF Enter, Ask
<1>3. ASSUME NEW p \in Products, Route(p) PROVE TypeOK'
  BY <1>3, NextPossibleAreProcesses DEF Route
<1>4. ASSUME NEW p \in Products, Resources(p) PROVE TypeOK'
  <2>1. PICK lot \in SUBSET Products : Execute(lot, current[p]) BY <1>4 DEF Resources
  <2>2. PICK outcome \in [lot -> IF current[p] \in CanFail THEN BOOLEAN ELSE {FALSE}], last \in lot :
           /\ failed' = [x \in Products |->
                             IF x \in lot THEN Verdict(lot, outcome, last)[x] ELSE failed[x]]
           /\ spoilt' = [x \in Products |-> IF x \in lot THEN outcome[x] ELSE spoilt[x]]
    BY <2>1 DEF Execute
  <2>3. \A x \in lot : outcome[x] \in BOOLEAN /\ Verdict(lot, outcome, last)[x] \in BOOLEAN
    BY <2>2 DEF Verdict
  <2> QED BY <2>1, <2>2, <2>3 DEF Execute
<1>5. ASSUME NEW p \in Products, current[p] \in Processes, Record(p)
      PROVE  executed' \in [Products -> Seq(Execution)]
  <2> DEFINE e == [process |-> current[p], failed |-> spoilt[p], told |-> failed[p]]
  <2>1. e \in Execution BY <1>5 DEF Execution
  <2>2. Append(executed[p], e) \in Seq(Execution) BY <2>1
  <2> QED BY <1>5, <2>2 DEF Record
<1>6. ASSUME NEW p \in Products, Produced(p) PROVE TypeOK'
  <2>1. PICK n \in Nodes : current[p] = ProcessOf[n]
    BY <1>6, ProducedIsEnabled DEF Produced, Enabled
  <2>2. Marked(marked[p], current[p]) \in SUBSET Nodes
    BY <2>1, BookedOnNode DEF Marked
  <2>3. current[p] \in Processes BY <2>1
  <2> QED BY <1>5, <1>6, <2>2, <2>3 DEF Produced, Ask
<1>7. ASSUME NEW p \in Products, Reworked(p) PROVE TypeOK'
  <2>1. current[p] \in Processes
    BY <1>7, NextPossibleAreProcesses DEF Reworked, Current
  <2>2. /\ blocking' \in [Products -> Seq(Processes)]
        /\ nonblocking' \in [Products -> Seq(Processes)]
        /\ phase' \in [Products -> Phases]
    <3>1. PICK block \in Seq(Processes), nonblock \in Seq(Processes) :
               /\ blocking' = [blocking EXCEPT ![p] = block]
               /\ nonblocking' = [nonblocking EXCEPT ![p] = nonblock]
               /\ Ask(p, marked[p], block, nonblock)
      BY <1>7, ReworkedLists
    <3>2. blocking' \in [Products -> Seq(Processes)] BY <3>1
    <3>3. nonblocking' \in [Products -> Seq(Processes)] BY <3>1
    <3>4. phase' \in [Products -> Phases] BY <3>1 DEF Ask
    <3> QED BY <3>2, <3>3, <3>4
  <2> QED BY <1>5, <1>7, <2>1, <2>2 DEF Reworked
<1>8. ASSUME NEW p \in Products, Raise(p) PROVE TypeOK'
  BY <1>8 DEF Raise
<1>9. ASSUME NEW p \in Products, Leave(p) PROVE TypeOK'
  BY <1>9 DEF Leave
<1> QED BY <1>1, <1>2, <1>3, <1>4, <1>6, <1>7, <1>8, <1>9 DEF Next, Generator

(* Going round the loop: the product is through exactly if nothing is left. *)
LEMMA AskStep ==
    ASSUME IInv, NEW p \in Products, NEW block, NEW nonblock, NEW marks,
           Ask(p, marks, block, nonblock)
    PROVE  /\ phase'[p] \in {"asking", "through"}
           /\ phase'[p] = "through" => NextPossible(marks, block, nonblock) = {}
           /\ \A x \in Products \ {p} : phase'[x] = phase[x]
BY DEF IInv, TypeOK, Ask

LEMMA CurrentStep == ASSUME IInv, [Next]_vars PROVE Current' /\ NothingPossible'
<1> USE DEF IInv, TypeOK, Current, NothingPossible
<1>1. CASE UNCHANGED vars BY <1>1 DEF vars
<1>2. ASSUME NEW p \in Products, Enter(p) PROVE Current' /\ NothingPossible'
  BY <1>2, AskStep DEF Enter
<1>3. ASSUME NEW p \in Products, Route(p) PROVE Current' /\ NothingPossible'
  BY <1>3 DEF Route
<1>4. ASSUME NEW p \in Products, Resources(p) PROVE Current' /\ NothingPossible'
  <2>1. PICK lot \in SUBSET Products : Execute(lot, current[p]) BY <1>4 DEF Resources
  <2> QED BY <2>1 DEF Execute
<1>5. ASSUME NEW p \in Products, Produced(p) PROVE Current' /\ NothingPossible'
  <2>1. PICK block, nonblock :
            /\ marked' = [marked EXCEPT ![p] = Marked(@, current[p])]
            /\ blocking' = [blocking EXCEPT ![p] = block]
            /\ nonblocking' = [nonblocking EXCEPT ![p] = nonblock]
            /\ Ask(p, Marked(marked[p], current[p]), block, nonblock)
            /\ UNCHANGED current
    BY <1>5 DEF Produced
  <2>2. /\ marked'[p] = Marked(marked[p], current[p])
        /\ blocking'[p] = block
        /\ nonblocking'[p] = nonblock
    BY <2>1
  <2>3. \A x \in Products \ {p} : /\ marked'[x] = marked[x] /\ current'[x] = current[x]
                                   /\ blocking'[x] = blocking[x]
                                   /\ nonblocking'[x] = nonblocking[x]
                                   /\ phase'[x] = phase[x]
    BY <2>1, AskStep
  <2>4. /\ phase'[p] \in {"asking", "through"}
        /\ phase'[p] = "through" => NextPossible(marked'[p], blocking'[p], nonblocking'[p]) = {}
    BY <2>1, <2>2, AskStep
  <2> QED BY <2>3, <2>4
<1>6. ASSUME NEW p \in Products, Reworked(p) PROVE Current' /\ NothingPossible'
  <2>1. PICK block, nonblock :
            /\ blocking' = [blocking EXCEPT ![p] = block]
            /\ nonblocking' = [nonblocking EXCEPT ![p] = nonblock]
            /\ Ask(p, marked[p], block, nonblock)
            /\ UNCHANGED <<current, marked>>
    BY <1>6, ReworkedLists DEF Reworked
  <2> QED BY <2>1, AskStep
<1>7. ASSUME NEW p \in Products, Raise(p) PROVE Current' /\ NothingPossible'
  BY <1>7 DEF Raise
<1>8. ASSUME NEW p \in Products, Leave(p) PROVE Current' /\ NothingPossible'
  BY <1>8 DEF Leave
<1> QED BY <1>1, <1>2, <1>3, <1>4, <1>5, <1>6, <1>7, <1>8 DEF Next, Generator

LEMMA MappingsStep == ASSUME IInv, [Next]_vars PROVE Mappings'
<1> DEFINE Good(block, nonblock) ==
               /\ \A i \in DOMAIN block : Reworks[block[i]] \cap Blocking # {}
               /\ \A i \in DOMAIN nonblock : /\ Reworks[nonblock[i]] # {}
                                            /\ Reworks[nonblock[i]] \cap Blocking = {}
<1>1. CASE UNCHANGED <<blocking, nonblocking>> BY <1>1 DEF IInv, Mappings
<1>2. ASSUME NEW p \in Products, NEW block, NEW nonblock, Good(block, nonblock),
             blocking' = [blocking EXCEPT ![p] = block],
             nonblocking' = [nonblocking EXCEPT ![p] = nonblock]
      PROVE  Mappings'
  BY <1>2 DEF IInv, TypeOK, Mappings
<1>3. ASSUME NEW p \in Products, Produced(p) PROVE Mappings'
  <2> DEFINE q == current[p]
             block == IF failed[p] /\ HoldsUp(q) THEN Append(blocking[p], q) ELSE blocking[p]
             nonblock == IF failed[p] /\ ~HoldsUp(q) THEN Append(nonblocking[p], q)
                         ELSE nonblocking[p]
  <2>1. /\ blocking' = [blocking EXCEPT ![p] = block]
        /\ nonblocking' = [nonblocking EXCEPT ![p] = nonblock]
        /\ failed[p] => Reworks[q] # {}
    BY <1>3 DEF Produced
  <2>2. Good(blocking[p], nonblocking[p]) BY DEF IInv, Mappings
  <2>3. blocking[p] \in Seq(Processes) /\ nonblocking[p] \in Seq(Processes)
    BY DEF IInv, TypeOK
  <2>4. ASSUME NEW i \in DOMAIN block PROVE Reworks[block[i]] \cap Blocking # {}
    BY <2>2, <2>3, <2>4 DEF HoldsUp
  <2>5. ASSUME NEW i \in DOMAIN nonblock
        PROVE  Reworks[nonblock[i]] # {} /\ Reworks[nonblock[i]] \cap Blocking = {}
    <3>1. CASE failed[p] /\ ~HoldsUp(q) /\ i = Len(nonblocking[p]) + 1
      <4>1. nonblock[i] = q BY <2>3, <3>1
      <4> QED BY <2>1, <3>1, <4>1 DEF HoldsUp
    <3>2. CASE ~(failed[p] /\ ~HoldsUp(q)) \/ i # Len(nonblocking[p]) + 1
      <4>1. i \in DOMAIN nonblocking[p] /\ nonblock[i] = nonblocking[p][i]
        BY <2>3, <2>5, <3>2
      <4> QED BY <2>2, <4>1
    <3> QED BY <3>1, <3>2
  <2>6. Good(block, nonblock) BY <2>4, <2>5
  <2> HIDE DEF block, nonblock, Good
  <2> QED BY <1>2, <2>1, <2>6
<1>4. ASSUME NEW p \in Products, Reworked(p) PROVE Mappings'
  <2>1. PICK block, nonblock :
               /\ blocking' = [blocking EXCEPT ![p] = block]
               /\ nonblocking' = [nonblocking EXCEPT ![p] = nonblock]
               /\ Within(block, blocking[p]) /\ Within(nonblock, nonblocking[p])
    BY <1>4, ReworkedLists
  <2>2. Good(block, nonblock) BY <2>1 DEF IInv, Mappings, Within
  <2> QED BY <1>2, <2>1, <2>2
<1>5. ASSUME NEW p \in Products, Resources(p) PROVE Mappings'
  BY <1>1, <1>5 DEF Resources, Execute
<1> QED BY <1>1, <1>3, <1>4, <1>5 DEF Next, Generator, Enter, Route, Raise, Leave, vars

LEMMA IInvHolds == Spec => []IInv
<1>1. Init => IInv
  <2> SUFFICES ASSUME Init PROVE IInv OBVIOUS
  <2>1. <<>> \in Seq(Processes) /\ <<>> \in Seq(Execution) OBVIOUS
  <2>2. TypeOK BY <2>1 DEF Init, TypeOK, Phases
  <2>3. Current /\ NothingPossible /\ Mappings
    BY DEF Init, Current, NothingPossible, Mappings
  <2> QED BY <2>2, <2>3 DEF IInv
<1>2. IInv /\ [Next]_vars => IInv'
  BY TypeStep, CurrentStep, MappingsStep DEF IInv
<1> QED BY <1>1, <1>2, PTL DEF Spec

(* The state of every generator keeps its type, and nothing undefined is    *)
(* booked: whatever the graph, the failures and the lots.                   *)
THEOREM TypeCorrect == Spec => []TypeOK
<1>1. IInv => TypeOK BY DEF IInv
<1> QED BY <1>1, IInvHolds, PTL

-----------------------------------------------------------------------------
(* The refinement.                                                          *)

(* In an acyclic graph something is enabled until every node is marked: of  *)
(* the unmarked nodes, one of least rank waits for none of the others.      *)
LEMMA SomethingEnabled ==
    ASSUME Acyclic, NEW marks \in SUBSET Nodes, Enabled(marks) = {}
    PROVE  marks = Nodes
<1> SUFFICES ASSUME Nodes \ marks # {} PROVE FALSE OBVIOUS
<1>1. PICK rank \in [Nodes -> Nat] :
          \A n \in Nodes : \A m \in Before[n] : rank[m] < rank[n]
  BY DEF Acyclic
<1> DEFINE ranks == {rank[n] : n \in Nodes \ marks}
<1>2. ranks \subseteq Nat /\ ranks # {} BY <1>1
<1>3. PICK x \in ranks : \A y \in ranks : x <= y BY <1>2, LeastNatural
<1>4. PICK n \in Nodes \ marks : x = rank[n] BY <1>3
<1>5. ASSUME NEW m \in Before[n] PROVE m \in marks
  <2>1. m \in Nodes BY GraphAssumption
  <2>2. rank[m] < rank[n] /\ rank[m] \in Nat /\ rank[n] \in Nat BY <1>1, <2>1
  <2>3. m \notin marks => rank[m] \in ranks BY <2>1
  <2>4. m \notin marks => rank[n] <= rank[m] BY <1>3, <1>4, <2>3
  <2> QED BY <2>2, <2>4
<1> QED BY <1>4, <1>5 DEF Enabled

LEMMA NothingPossibleMeansDone ==
    ASSUME IInv, Acyclic, NEW p \in Products,
           NextPossible(marked[p], blocking[p], nonblocking[p]) = {}
    PROVE  marked[p] = Nodes /\ blocking[p] = <<>> /\ nonblocking[p] = <<>>
<1>1. /\ blocking[p] \in Seq(Processes) /\ nonblocking[p] \in Seq(Processes)
      /\ marked[p] \in SUBSET Nodes
  BY DEF IInv, TypeOK
<1>2. blocking[p] = <<>>
  <2> SUFFICES ASSUME blocking[p] # <<>> PROVE FALSE OBVIOUS
  <2>1. 1 \in DOMAIN blocking[p] BY <1>1
  <2>2. Reworks[blocking[p][1]] # {} BY <2>1 DEF IInv, Mappings
  <2>3. Asked(blocking[p]) # {} BY <2>1, <2>2 DEF Asked
  <2> QED BY <2>3 DEF NextPossible
<1>3. Enabled(marked[p]) = {} /\ Asked(nonblocking[p]) = {}
  BY <1>2 DEF NextPossible
<1>4. nonblocking[p] = <<>>
  <2> SUFFICES ASSUME nonblocking[p] # <<>> PROVE FALSE OBVIOUS
  <2>1. 1 \in DOMAIN nonblocking[p] BY <1>1
  <2>2. Reworks[nonblocking[p][1]] # {} BY <2>1 DEF IInv, Mappings
  <2> QED BY <1>3, <2>1, <2>2 DEF Asked
<1> QED BY <1>1, <1>2, <1>3, <1>4, SomethingEnabled

(* An enabled node is made, and its failure joins the open defects.         *)
LEMMA ProducedMakes ==
    ASSUME IInv, OneNodeEach, NEW p \in Products, Produced(p)
    PROVE  \E n \in Nodes : R!Make(p, n)
<1>1. PICK n \in Enabled(marked[p]) : current[p] = ProcessOf[n]
  BY ProducedIsEnabled DEF Produced
<1>2. n \in Nodes \ marked[p] /\ Before[n] \subseteq marked[p] BY <1>1 DEF Enabled
<1>3. Booked(current[p]) = n BY <1>1, <1>2, BookedOnNode DEF OneNodeEach
<1>4. marked' = [marked EXCEPT ![p] = @ \cup {n}] BY <1>3 DEF Produced, Marked
<1>5. blocking[p] = <<>> BY ProducedIsEnabled DEF Produced
<1>6. OpenDefects[p] \cap UrgentNodes = {}
  <2>1. FailedNodes(blocking[p]) = {} BY <1>5 DEF FailedNodes
  <2>2. \A m \in FailedNodes(nonblocking[p]) : Reworks[ProcessOf[m]] \cap Blocking = {}
    BY DEF FailedNodes, IInv, Mappings
  <2> QED BY <2>1, <2>2 DEF OpenDefects, UrgentNodes, NeedsBlockingRework
<1>7. \E new \in SUBSET {n} : OpenDefects' = [OpenDefects EXCEPT ![p] = @ \cup new]
  <2> DEFINE block == IF failed[p] /\ HoldsUp(current[p])
                      THEN Append(blocking[p], current[p]) ELSE blocking[p]
             nonblock == IF failed[p] /\ ~HoldsUp(current[p])
                         THEN Append(nonblocking[p], current[p]) ELSE nonblocking[p]
             new == IF failed[p] THEN {n} ELSE {}
  <2>1. /\ blocking' = [blocking EXCEPT ![p] = block]
        /\ nonblocking' = [nonblocking EXCEPT ![p] = nonblock]
    BY DEF Produced
  <2>2. /\ blocking \in [Products -> Seq(Processes)]
        /\ nonblocking \in [Products -> Seq(Processes)]
    BY DEF IInv, TypeOK
  <2>3. \A m \in Nodes : ProcessOf[m] = current[p] => m = n
    BY <1>1, <1>2 DEF OneNodeEach
  <2>4. ASSUME NEW list \in Seq(Processes)
        PROVE  FailedNodes(Append(list, current[p])) = FailedNodes(list) \cup {n}
    <3>1. ASSUME NEW m \in FailedNodes(list) PROVE m \in FailedNodes(Append(list, current[p]))
      BY <3>1 DEF FailedNodes
    <3>2. n \in FailedNodes(Append(list, current[p]))
      <4>1. Append(list, current[p])[Len(list) + 1] = ProcessOf[n] BY <1>1
      <4>2. Len(list) + 1 \in DOMAIN Append(list, current[p]) OBVIOUS
      <4> QED BY <1>2, <4>1, <4>2 DEF FailedNodes
    <3>3. ASSUME NEW m \in FailedNodes(Append(list, current[p])) PROVE m \in FailedNodes(list) \cup {n}
      BY <2>3, <3>3 DEF FailedNodes
    <3> QED BY <3>1, <3>2, <3>3
  <2>5. FailedNodes(block) \cup FailedNodes(nonblock) = OpenDefects[p] \cup new
    BY <2>2, <2>4 DEF OpenDefects
  <2> HIDE DEF block, nonblock, new
  <2>6. \A x \in Products : OpenDefects'[x] = IF x = p THEN OpenDefects[x] \cup new ELSE OpenDefects[x]
    BY <2>1, <2>2, <2>5 DEF OpenDefects
  <2>7. OpenDefects' = [OpenDefects EXCEPT ![p] = @ \cup new]
    BY <2>6 DEF OpenDefects
  <2> QED BY <2>7 DEF new
<1>8. UNCHANGED Gone
  BY AskStep DEF Gone, Produced
<1> QED BY <1>2, <1>4, <1>6, <1>7, <1>8 DEF R!Make

(* A rework repairs a defect the recipe lets it repair; it may be open     *)
(* still where the list noted it twice.                                    *)
LEMMA ReworkedRepairs ==
    ASSUME IInv, Acyclic, OneNodeEach, NEW p \in Products, Reworked(p)
    PROVE  (\E n \in Nodes : R!Repair(p, n)) \/ UNCHANGED R!vars
<1>1. PICK block \in Seq(Processes), nonblock \in Seq(Processes), q \in Processes :
               /\ blocking' = [blocking EXCEPT ![p] = block]
               /\ nonblocking' = [nonblocking EXCEPT ![p] = nonblock]
               /\ Ask(p, marked[p], block, nonblock)
               /\ Within(block, blocking[p]) /\ Within(nonblock, nonblocking[p])
               /\ KeepsBut(block, blocking[p], q) /\ KeepsBut(nonblock, nonblocking[p], q)
               /\ \/ \E i \in DOMAIN blocking[p] : q = blocking[p][i]
                  \/ /\ \E i \in DOMAIN nonblocking[p] : q = nonblocking[p][i]
                     /\ blocking[p] = <<>>
                     /\ Enabled(marked[p]) = {}
  BY ReworkedLists
<1> DEFINE still == FailedNodes(block) \cup FailedNodes(nonblock)
<1>2. still \subseteq OpenDefects[p]
  BY <1>1 DEF OpenDefects, FailedNodes, Within
<1>3. \A m \in OpenDefects[p] : ProcessOf[m] # q => m \in still
  BY <1>1 DEF OpenDefects, FailedNodes, KeepsBut
<1>4. OpenDefects' = [OpenDefects EXCEPT ![p] = still]
  <2>1. \A x \in Products : OpenDefects'[x] = IF x = p THEN still ELSE OpenDefects[x]
    BY <1>1 DEF OpenDefects, IInv, TypeOK
  <2> QED BY <2>1 DEF OpenDefects
<1>5. UNCHANGED marked BY DEF Reworked
<1>6. UNCHANGED Gone
  BY <1>1, AskStep DEF Gone, Reworked
<1>7. CASE still = OpenDefects[p]
  BY <1>4, <1>5, <1>6, <1>7 DEF R!vars, OpenDefects
<1>8. CASE still # OpenDefects[p]
  <2>1. PICK n \in OpenDefects[p] : n \notin still BY <1>2, <1>8
  <2>2. n \in Nodes /\ ProcessOf[n] = q BY <1>3, <2>1 DEF OpenDefects, FailedNodes
  <2>3. still = OpenDefects[p] \ {n}
    <3>1. \A m \in OpenDefects[p] : m \in Nodes BY DEF OpenDefects, FailedNodes
    <3>2. \A m \in OpenDefects[p] : m # n => m \in still
      BY <1>3, <2>2, <3>1 DEF OneNodeEach
    <3> QED BY <1>2, <2>1, <3>2
  <2>4. CASE \E i \in DOMAIN blocking[p] : q = blocking[p][i]
    <3>1. n \in UrgentNodes
      BY <2>2, <2>4 DEF UrgentNodes, NeedsBlockingRework, IInv, Mappings
    <3> QED BY <1>4, <1>5, <1>6, <2>1, <2>2, <2>3, <3>1 DEF R!Repair
  <2>5. CASE blocking[p] = <<>> /\ Enabled(marked[p]) = {}
    <3>1. marked[p] = Nodes BY <2>5, SomethingEnabled DEF IInv, TypeOK
    <3>2. FailedNodes(blocking[p]) = {} BY <2>5 DEF FailedNodes
    <3>3. \A m \in FailedNodes(nonblocking[p]) : Reworks[ProcessOf[m]] \cap Blocking = {}
      BY DEF FailedNodes, IInv, Mappings
    <3>4. OpenDefects[p] \cap UrgentNodes = {}
      BY <3>2, <3>3 DEF OpenDefects, UrgentNodes, NeedsBlockingRework
    <3> QED BY <1>4, <1>5, <1>6, <2>1, <2>2, <2>3, <3>1, <3>4 DEF R!Repair
  <2> QED BY <1>1, <2>4, <2>5
<1> QED BY <1>7, <1>8

LEMMA LeaveLeaves ==
    ASSUME IInv, Acyclic, NEW p \in Products, Leave(p)
    PROVE  R!Leave(p)
<1>1. NextPossible(marked[p], blocking[p], nonblocking[p]) = {}
  BY DEF Leave, IInv, NothingPossible
<1>2. marked[p] = Nodes /\ blocking[p] = <<>> /\ nonblocking[p] = <<>>
  BY <1>1, NothingPossibleMeansDone
<1>3. OpenDefects[p] = {} BY <1>2 DEF OpenDefects, FailedNodes
<1>4. p \notin Gone /\ Gone' = Gone \cup {p}
  BY DEF Gone, Leave, IInv, TypeOK
<1>5. UNCHANGED <<marked, OpenDefects>> BY DEF Leave, OpenDefects
<1> QED BY <1>2, <1>3, <1>4, <1>5 DEF R!Leave

LEMMA RecipeStep ==
    ASSUME IInv, Acyclic, OneNodeEach, [Next]_vars
    PROVE  [R!Next]_(R!vars)
<1>1. CASE UNCHANGED <<marked, blocking, nonblocking, Gone>>
  BY <1>1 DEF R!vars, OpenDefects
<1>2. ASSUME NEW p \in Products, Enter(p) PROVE [R!Next]_(R!vars)
  <2>1. UNCHANGED Gone BY <1>2, AskStep DEF Enter, Gone
  <2> QED BY <1>1, <1>2, <2>1 DEF Enter
<1>3. ASSUME NEW p \in Products, Route(p) PROVE [R!Next]_(R!vars)
  <2>1. UNCHANGED Gone BY <1>3 DEF Route, Gone, IInv, TypeOK
  <2> QED BY <1>1, <1>3, <2>1 DEF Route
<1>4. ASSUME NEW p \in Products, Resources(p) PROVE [R!Next]_(R!vars)
  <2>1. UNCHANGED Gone BY <1>4 DEF Resources, Execute, Gone, IInv, TypeOK
  <2> QED BY <1>1, <1>4, <2>1 DEF Resources, Execute
<1>5. ASSUME NEW p \in Products, Raise(p) PROVE [R!Next]_(R!vars)
  BY <1>1, <1>5 DEF Raise, Gone
<1>6. ASSUME NEW p \in Products, Produced(p) PROVE [R!Next]_(R!vars)
  BY <1>6, ProducedMakes DEF R!Next
<1>7. ASSUME NEW p \in Products, Reworked(p) PROVE [R!Next]_(R!vars)
  BY <1>7, ReworkedRepairs DEF R!Next
<1>8. ASSUME NEW p \in Products, Leave(p) PROVE [R!Next]_(R!vars)
  BY <1>8, LeaveLeaves DEF R!Next
<1>9. CASE UNCHANGED vars BY <1>1, <1>9 DEF vars, Gone
<1> QED BY <1>2, <1>3, <1>4, <1>5, <1>6, <1>7, <1>8, <1>9 DEF Next, Generator

(* Following a process model implements the recipe, whatever the order the  *)
(* router picks, the failures, the lots and the reworks on offer: for every *)
(* acyclic graph whose nodes are executed by different processes.           *)
THEOREM ImplementsRecipe ==
    ASSUME Acyclic, OneNodeEach
    PROVE  Spec => FollowsRecipe
<1>1. Init => R!Init
  BY DEF Init, R!Init, OpenDefects, FailedNodes, Gone
<1>2. IInv /\ [Next]_vars => [R!Next]_(R!vars) BY RecipeStep
<1> QED BY <1>1, <1>2, IInvHolds, PTL DEF Spec, FollowsRecipe, R!Spec

-----------------------------------------------------------------------------
(* What a product has been through when it leaves.                          *)

Distinct(list) == \A i, j \in DOMAIN list : list[i] = list[j] => i = j
Values(list) == {list[i] : i \in DOMAIN list}
Listed(p) == Values(blocking[p]) \cup Values(nonblocking[p])

(* The log has every marked node once, and no other; reworks do not fail.   *)
LogsMarks(log, marks) ==
    /\ \A i \in DOMAIN log :
           Defined(log[i].process) \/ \E n \in marks : log[i].process = ProcessOf[n]
    /\ \A n \in marks : \E i \in DOMAIN log : log[i].process = ProcessOf[n]
    /\ \A i, j \in DOMAIN log :
           ~Defined(log[i].process) /\ log[i].process = log[j].process => i = j
    /\ \A i \in Told(log) : ~Defined(log[i].process)

(* Every failure the lists hold is one the log tells of.                    *)
Noted(log, listed) == \A q \in listed : \E i \in Told(log) : log[i].process = q

(* Every other failure is paired with the rework that answered it, and no   *)
(* rework was executed without one.                                         *)
Settled(log, listed) == {i \in Told(log) : log[i].process \notin listed}
Answer(f, log, listed) ==
    /\ f \in Bijection(Settled(log, listed), Reworkings(log))
    /\ \A i \in Settled(log, listed) : f[i] > i /\ log[f[i]].process \in Reworks[log[i].process]
Paired(log, listed) == \E f : Answer(f, log, listed)

History(p) ==
    /\ LogsMarks(executed[p], marked[p])
    /\ Distinct(blocking[p]) /\ Distinct(nonblocking[p])
    /\ Noted(executed[p], Listed(p)) /\ Paired(executed[p], Listed(p))
Histories == \A p \in Products : History(p)

(* Only a process with a failure rate fails, and a rework has none.         *)
ReworksSucceed ==
    \A p \in Products : phase[p] = "returned" /\ failed[p] => ~Defined(current[p])

HInv == Histories /\ ReworksSucceed

(* A list that names no failure twice loses the answered one.               *)
LEMMA AnsweredStrikes ==
    ASSUME NEW list \in Seq(Processes), NEW r, Distinct(list),
           \E i \in DOMAIN list : r \in Reworks[list[i]]
    PROVE  \E q \in Values(list) :
               /\ r \in Reworks[q]
               /\ Values(Answered(list, r)) = Values(list) \ {q}
               /\ Distinct(Answered(list, r))
<1> DEFINE hits == {i \in DOMAIN list : r \in Reworks[list[i]]}
           i == FirstAnswered(list, r)
<1>1. hits \subseteq Nat /\ hits # {} OBVIOUS
<1>2. PICK x \in hits : \A y \in hits : x <= y BY <1>1, LeastNatural
<1>3. i \in DOMAIN list /\ r \in Reworks[list[i]]
  <2>1. r \in Reworks[list[x]] /\ \A j \in 1 .. x - 1 : r \notin Reworks[list[j]]
    BY <1>2
  <2> QED BY <1>2, <2>1 DEF FirstAnswered
<1> DEFINE new == Answered(list, r)
<1>4. new = [j \in 1 .. Len(list) - 1 |-> IF j < i THEN list[j] ELSE list[j + 1]]
  BY DEF Answered
<1> HIDE DEF i, new
<1>5. Len(list) \in Nat /\ i \in 1 .. Len(list) /\ DOMAIN list = 1 .. Len(list) BY <1>3
<1>6. DOMAIN new = 1 .. Len(list) - 1 BY <1>4
<1>7. ASSUME NEW j \in DOMAIN new
      PROVE  \/ j < i /\ new[j] = list[j]
             \/ j + 1 > i /\ ~(j < i) /\ new[j] = list[j + 1]
  BY <1>4, <1>5, <1>6
<1>8. \A j \in DOMAIN new : j \in DOMAIN list /\ j + 1 \in DOMAIN list
  BY <1>5, <1>6
<1>9. Distinct(new)
  <2> SUFFICES ASSUME NEW j \in DOMAIN new, NEW k \in DOMAIN new, new[j] = new[k] PROVE j = k
    BY DEF Distinct
  <2>1. j \in Nat /\ k \in Nat BY <1>5, <1>6
  <2>2. \A a, b \in DOMAIN list : list[a] = list[b] => a = b BY DEF Distinct
  <2> QED BY <1>5, <1>7, <1>8, <2>1, <2>2
<1>10. ASSUME NEW j \in DOMAIN new PROVE new[j] \in Values(list) \ {list[i]}
  <2>1. j \in Nat BY <1>5, <1>6
  <2>2. \A a, b \in DOMAIN list : list[a] = list[b] => a = b BY DEF Distinct
  <2> QED BY <1>3, <1>5, <1>7, <1>8, <2>1, <2>2 DEF Values
<1>11. ASSUME NEW k \in DOMAIN list, k # i PROVE list[k] \in Values(new)
  <2>1. CASE k < i
    <3>1. k \in DOMAIN new /\ new[k] = list[k] BY <1>4, <1>5, <1>6, <2>1
    <3> QED BY <3>1 DEF Values
  <2>2. CASE k > i
    <3>1. k - 1 \in 1 .. Len(list) - 1 /\ ~(k - 1 < i) /\ (k - 1) + 1 = k BY <1>5, <2>2
    <3>2. new[k - 1] = list[k] BY <1>4, <3>1
    <3> QED BY <1>6, <3>1, <3>2 DEF Values
  <2> QED BY <1>5, <1>11, <2>1, <2>2
<1>12. Values(new) = Values(list) \ {list[i]} BY <1>10, <1>11 DEF Values
<1>13. list[i] \in Values(list) BY <1>3 DEF Values
<1> QED BY <1>3, <1>9, <1>12, <1>13 DEF new

(* Adding an execution to a log.                                            *)
LEMMA LongerLog ==
    ASSUME NEW log \in Seq(Execution), NEW e \in Execution
    PROVE  LET new == Append(log, e)
           IN  /\ new \in Seq(Execution) /\ Len(log) \in Nat
               /\ DOMAIN log = 1 .. Len(log) /\ DOMAIN new = DOMAIN log \cup {Len(log) + 1}
               /\ Len(log) + 1 \notin DOMAIN log /\ \A i \in DOMAIN log : i < Len(log) + 1
               /\ \A i \in DOMAIN log : new[i] = log[i]
               /\ new[Len(log) + 1] = e
               /\ Reworkings(new) = Reworkings(log) \cup
                      (IF Defined(e.process) THEN {Len(log) + 1} ELSE {})
               /\ Told(new) = Told(log) \cup (IF e.told THEN {Len(log) + 1} ELSE {})
<1> DEFINE new == Append(log, e)
<1>1. /\ new \in Seq(Execution) /\ Len(log) \in Nat
      /\ DOMAIN log = 1 .. Len(log) /\ DOMAIN new = 1 .. Len(log) + 1
      /\ \A i \in DOMAIN log : new[i] = log[i]
      /\ new[Len(log) + 1] = e
  OBVIOUS
<1> HIDE DEF new
<1>2. /\ DOMAIN new = DOMAIN log \cup {Len(log) + 1} /\ Len(log) + 1 \notin DOMAIN log
      /\ \A i \in DOMAIN log : i < Len(log) + 1
  BY <1>1
<1>3. Reworkings(new) = Reworkings(log) \cup (IF Defined(e.process) THEN {Len(log) + 1} ELSE {})
  BY <1>1, <1>2 DEF Reworkings
<1>4. Told(new) = Told(log) \cup (IF e.told THEN {Len(log) + 1} ELSE {})
  BY <1>1, <1>2 DEF Told
<1> QED BY <1>1, <1>2, <1>3, <1>4 DEF new

(* A node that is made is logged, and its failure noted, for the first time. *)
LEMMA MadeIsLogged ==
    ASSUME OneNodeEach, NEW log \in Seq(Execution), NEW marks \in SUBSET Nodes, NEW listed,
           LogsMarks(log, marks), Noted(log, listed), Paired(log, listed),
           NEW n \in Nodes \ marks, NEW e \in Execution, e.process = ProcessOf[n]
    PROVE  LET new == Append(log, e)
               now == listed \cup (IF e.told THEN {e.process} ELSE {})
           IN  /\ LogsMarks(new, marks \cup {n}) /\ Noted(new, now) /\ Paired(new, now)
               /\ e.process \notin listed
<1> DEFINE new == Append(log, e)
           l == Len(log) + 1
           now == listed \cup (IF e.told THEN {e.process} ELSE {})
<1>1. /\ DOMAIN new = DOMAIN log \cup {l}
      /\ l \notin DOMAIN log /\ \A i \in DOMAIN log : i < l
      /\ \A i \in DOMAIN log : new[i] = log[i]
      /\ new[l] = e
      /\ Reworkings(new) = Reworkings(log) \cup (IF Defined(e.process) THEN {l} ELSE {})
      /\ Told(new) = Told(log) \cup (IF e.told THEN {l} ELSE {})
  BY LongerLog
<1>2. ~Defined(e.process) BY ReworkAssumption
<1>3. ASSUME NEW i \in DOMAIN log PROVE log[i].process # e.process
  <2>1. CASE Defined(log[i].process) BY <1>2, <2>1
  <2>2. CASE \E m \in marks : log[i].process = ProcessOf[m] BY <2>2 DEF OneNodeEach
  <2> QED BY <2>1, <2>2 DEF LogsMarks
<1> HIDE DEF new, l
<1>4. LogsMarks(new, marks \cup {n})
  <2>1. ASSUME NEW i \in DOMAIN new
        PROVE  Defined(new[i].process) \/ \E m \in marks \cup {n} : new[i].process = ProcessOf[m]
    <3>1. CASE i = l BY <1>1, <3>1
    <3>2. CASE i \in DOMAIN log BY <1>1, <3>2 DEF LogsMarks
    <3> QED BY <1>1, <3>1, <3>2
  <2>2. ASSUME NEW m \in marks \cup {n} PROVE \E i \in DOMAIN new : new[i].process = ProcessOf[m]
    <3>1. CASE m = n BY <1>1, <3>1
    <3>2. CASE m \in marks
      <4>1. PICK i \in DOMAIN log : log[i].process = ProcessOf[m] BY <3>2 DEF LogsMarks
      <4> QED BY <1>1, <4>1
    <3> QED BY <3>1, <3>2
  <2>3. ASSUME NEW i \in DOMAIN new, NEW j \in DOMAIN new,
               ~Defined(new[i].process), new[i].process = new[j].process
        PROVE  i = j
    <3>1. CASE i \in DOMAIN log /\ j \in DOMAIN log BY <1>1, <2>3, <3>1 DEF LogsMarks
    <3>2. CASE i = l \/ j = l BY <1>1, <1>3, <2>3, <3>2
    <3> QED BY <1>1, <3>1, <3>2
  <2>4. ASSUME NEW i \in Told(new) PROVE ~Defined(new[i].process)
    <3>1. CASE i = l BY <1>1, <1>2, <3>1
    <3>2. CASE i \in Told(log) BY <1>1, <3>2 DEF LogsMarks, Told
    <3> QED BY <1>1, <3>1, <3>2
  <2> QED BY <2>1, <2>2, <2>3, <2>4 DEF LogsMarks
<1>5. e.process \notin listed
  BY <1>3 DEF Noted, Told
<1>6. Noted(new, now)
  <2>1. ASSUME NEW q \in listed PROVE \E i \in Told(new) : new[i].process = q
    <3>1. PICK i \in Told(log) : log[i].process = q BY DEF Noted
    <3> QED BY <1>1, <3>1 DEF Told
  <2>2. e.told => l \in Told(new) /\ new[l].process = e.process BY <1>1
  <2> QED BY <2>1, <2>2 DEF Noted
<1>7. Settled(new, now) = Settled(log, listed)
  <2>1. ASSUME NEW i \in Told(log)
        PROVE  new[i] = log[i] /\ (log[i].process \in now <=> log[i].process \in listed)
    BY <1>1, <1>3 DEF Told
  <2>2. e.told => e.process \in now OBVIOUS
  <2> HIDE DEF now
  <2> QED BY <1>1, <2>1, <2>2 DEF Settled
<1>8. Paired(new, now)
  <2>1. PICK f : Answer(f, log, listed) BY DEF Paired
  <2>2. Reworkings(new) = Reworkings(log) BY <1>1, <1>2
  <2>3. ASSUME NEW i \in Settled(log, listed)
        PROVE  f[i] > i /\ new[f[i]].process \in Reworks[new[i].process]
    <3>1. i \in DOMAIN log /\ f[i] \in DOMAIN log
      BY <2>1 DEF Answer, Settled, Told, Reworkings, Bijection, Injection
    <3>2. f[i] > i /\ log[f[i]].process \in Reworks[log[i].process] BY <2>1 DEF Answer
    <3> QED BY <1>1, <3>1, <3>2
  <2>4. Answer(f, new, now)
    BY <1>7, <2>1, <2>2, <2>3 DEF Answer
  <2> QED BY <2>4 DEF Paired
<1> QED BY <1>4, <1>5, <1>6, <1>8 DEF new

(* A rework is logged, and answers a failure that was open.                 *)
LEMMA ReworkIsLogged ==
    ASSUME NEW log \in Seq(Execution), NEW marks, NEW listed,
           LogsMarks(log, marks), Noted(log, listed), Paired(log, listed),
           NEW e \in Execution, Defined(e.process), ~e.told,
           NEW q \in listed, e.process \in Reworks[q]
    PROVE  LET new == Append(log, e)
           IN  /\ LogsMarks(new, marks) /\ Noted(new, listed \ {q}) /\ Paired(new, listed \ {q})
<1> DEFINE new == Append(log, e)
           l == Len(log) + 1
           now == listed \ {q}
<1>1. /\ DOMAIN new = DOMAIN log \cup {l}
      /\ l \notin DOMAIN log /\ \A i \in DOMAIN log : i < l
      /\ \A i \in DOMAIN log : new[i] = log[i]
      /\ new[l] = e
      /\ Reworkings(new) = Reworkings(log) \cup {l}
      /\ Told(new) = Told(log)
  <2>1. (IF Defined(e.process) THEN {l} ELSE {}) = {l} OBVIOUS
  <2>2. Told(log) \cup (IF e.told THEN {l} ELSE {}) = Told(log) OBVIOUS
  <2>3. /\ DOMAIN new = DOMAIN log \cup {l}
        /\ l \notin DOMAIN log /\ \A i \in DOMAIN log : i < l
        /\ \A i \in DOMAIN log : new[i] = log[i]
        /\ new[l] = e
        /\ Reworkings(new) = Reworkings(log) \cup (IF Defined(e.process) THEN {l} ELSE {})
        /\ Told(new) = Told(log) \cup (IF e.told THEN {l} ELSE {})
    BY LongerLog
  <2> HIDE DEF new, l
  <2> QED BY <2>1, <2>2, <2>3
<1>2. PICK k \in Told(log) : log[k].process = q BY DEF Noted
<1>3. k \in DOMAIN log /\ ~Defined(q) BY <1>2 DEF LogsMarks, Told
<1>4. \A i \in DOMAIN log : log[i].process = q => i = k BY <1>2, <1>3 DEF LogsMarks
<1> HIDE DEF new, l
<1>5. LogsMarks(new, marks)
  <2>1. ASSUME NEW i \in DOMAIN new
        PROVE  Defined(new[i].process) \/ \E m \in marks : new[i].process = ProcessOf[m]
    BY <1>1 DEF LogsMarks
  <2>2. ASSUME NEW m \in marks PROVE \E i \in DOMAIN new : new[i].process = ProcessOf[m]
    <3>1. PICK i \in DOMAIN log : log[i].process = ProcessOf[m] BY DEF LogsMarks
    <3> QED BY <1>1, <3>1
  <2>3. ASSUME NEW i \in DOMAIN new, NEW j \in DOMAIN new,
               ~Defined(new[i].process), new[i].process = new[j].process
        PROVE  i = j
    BY <1>1, <2>3 DEF LogsMarks
  <2>4. ASSUME NEW i \in Told(new) PROVE ~Defined(new[i].process)
    BY <1>1 DEF LogsMarks, Told
  <2> QED BY <2>1, <2>2, <2>3, <2>4 DEF LogsMarks
<1>6. Noted(new, now)
  <2>1. ASSUME NEW x \in listed PROVE \E i \in Told(new) : new[i].process = x
    <3>1. PICK i \in Told(log) : log[i].process = x BY DEF Noted
    <3> QED BY <1>1, <3>1 DEF Told
  <2> QED BY <2>1 DEF Noted
<1>7. Settled(new, now) = Settled(log, listed) \cup {k} /\ k \notin Settled(log, listed)
  <2>1. ASSUME NEW i \in Told(log)
        PROVE  new[i] = log[i] /\ (log[i].process \in now <=> log[i].process \in listed /\ i # k)
    BY <1>1, <1>2, <1>4 DEF Told
  <2> HIDE DEF now
  <2> QED BY <1>1, <1>2, <2>1 DEF Settled
<1>8. Paired(new, now)
  <2> DEFINE S == Settled(log, listed)
             R0 == Reworkings(log)
  <2>1. PICK f : Answer(f, log, listed) BY DEF Paired
  <2> DEFINE g == [i \in S \cup {k} |-> IF i = k THEN l ELSE f[i]]
  <2>2. /\ f \in [S -> R0] /\ \A i, j \in S : f[i] = f[j] => i = j
        /\ \A y \in R0 : \E i \in S : f[i] = y
    BY <2>1 DEF Answer, Bijection, Injection, Surjection, IsInjective
  <2>3. l \notin R0 /\ R0 \subseteq DOMAIN log /\ S \subseteq DOMAIN log
    BY <1>1 DEF Reworkings, Settled, Told
  <2>4. k \notin S BY <1>7
  <2>5. \A i \in S : f[i] > i /\ log[f[i]].process \in Reworks[log[i].process]
    BY <2>1 DEF Answer
  <2> HIDE DEF S, R0
  <2>6. g \in [S \cup {k} -> R0 \cup {l}] BY <2>2
  <2>7. \A i, j \in S \cup {k} : g[i] = g[j] => i = j BY <2>2, <2>3, <2>4
  <2>8. \A y \in R0 \cup {l} : \E i \in S \cup {k} : g[i] = y
    <3>1. g[k] = l OBVIOUS
    <3>2. ASSUME NEW y \in R0 PROVE \E i \in S \cup {k} : g[i] = y
      <4>1. PICK i \in S : f[i] = y BY <2>2
      <4>2. g[i] = y BY <2>4, <4>1
      <4> QED BY <4>2
    <3> HIDE DEF g
    <3> QED BY <3>1, <3>2
  <2>9. ASSUME NEW i \in S \cup {k}
        PROVE  g[i] > i /\ new[g[i]].process \in Reworks[new[i].process]
    <3>1. CASE i = k
      <4>1. g[i] = l /\ new[i] = log[k] BY <1>1, <1>3, <3>1
      <4>2. l > k BY <1>1, <1>3
      <4> QED BY <1>1, <1>2, <3>1, <4>1, <4>2
    <3>2. CASE i # k
      <4>1. i \in S /\ g[i] = f[i] BY <3>2
      <4>2. f[i] \in DOMAIN log /\ i \in DOMAIN log BY <2>2, <2>3, <4>1
      <4> QED BY <1>1, <2>5, <4>1, <4>2
    <3> QED BY <3>1, <3>2
  <2> HIDE DEF g
  <2>10. g \in Bijection(S \cup {k}, R0 \cup {l})
    BY <2>6, <2>7, <2>8 DEF Bijection, Injection, Surjection, IsInjective
  <2>11. Answer(g, new, now)
    BY <1>1, <1>7, <2>9, <2>10 DEF Answer, S, R0
  <2> QED BY <2>11 DEF Paired
<1> QED BY <1>5, <1>6, <1>8 DEF new

(* A log is never as long as its bound: it has a node once and at most one  *)
(* rework for it, while a node is not made or a failure is open.            *)
LEMMA LogHasRoom ==
    ASSUME NEW log \in Seq(Execution), NEW marks \in SUBSET Nodes, NEW listed,
           LogsMarks(log, marks), Noted(log, listed), Paired(log, listed),
           marks # Nodes \/ listed # {}
    PROVE  Len(log) # HistoryLength
<1> DEFINE R0 == Reworkings(log)
           P == DOMAIN log \ R0
           S == Settled(log, listed)
<1>1. NodeCount \in Nat BY GraphAssumption
<1>2. Len(log) \in Nat /\ DOMAIN log = 1 .. Len(log) OBVIOUS
<1>3. IsFiniteSet(DOMAIN log) /\ Cardinality(DOMAIN log) = Len(log)
  <2>1. /\ IsFiniteSet(1 .. Len(log))
        /\ Cardinality(1 .. Len(log)) = IF 1 > Len(log) THEN 0 ELSE Len(log) - 1 + 1
    BY <1>2, FS_Interval
  <2> QED BY <1>2, <2>1
<1>4. IsFiniteSet(Nodes) /\ Cardinality(Nodes) = NodeCount
  <2>1. /\ IsFiniteSet(1 .. NodeCount)
        /\ Cardinality(1 .. NodeCount) = IF 1 > NodeCount THEN 0 ELSE NodeCount - 1 + 1
    BY <1>1, FS_Interval
  <2> QED BY <1>1, <2>1 DEF Nodes
<1>5. R0 \subseteq DOMAIN log /\ S \subseteq P
  BY DEF Reworkings, Settled, Told, LogsMarks
<1>6. listed # {} => S # P
  <2> SUFFICES ASSUME NEW q \in listed PROVE S # P OBVIOUS
  <2>1. PICK i \in Told(log) : log[i].process = q BY DEF Noted
  <2>2. i \in P /\ i \notin S BY <2>1 DEF LogsMarks, Reworkings, Settled, Told
  <2> QED BY <2>2
<1>7. \E f : f \in Bijection(S, R0) BY DEF Paired, Answer
<1> DEFINE h == [i \in P |-> CHOOSE n \in marks : log[i].process = ProcessOf[n]]
<1>8. h \in Injection(P, marks)
  <2>1. ASSUME NEW i \in P PROVE h[i] \in marks /\ log[i].process = ProcessOf[h[i]]
    <3>1. \E n \in marks : log[i].process = ProcessOf[n] BY DEF LogsMarks, Reworkings
    <3> QED BY <3>1
  <2>2. h \in [P -> marks] BY <2>1
  <2>3. ASSUME NEW i \in P, NEW j \in P, h[i] = h[j] PROVE i = j
    <3>1. log[i].process = log[j].process BY <2>1, <2>3
    <3> QED BY <3>1 DEF LogsMarks, Reworkings
  <2> HIDE DEF h, P
  <2> QED BY <2>2, <2>3 DEF Injection, IsInjective
<1> HIDE DEF h, S, R0
<1>9. IsFiniteSet(R0) /\ Cardinality(R0) \in Nat
  BY <1>3, <1>5, FS_Subset, FS_CardinalityType
<1>10. IsFiniteSet(P) /\ Cardinality(P) \in Nat /\ Cardinality(P) = Len(log) - Cardinality(R0)
  <2>1. DOMAIN log \cap R0 = R0 BY <1>5
  <2>2. IsFiniteSet(P) /\ Cardinality(P) = Cardinality(DOMAIN log) - Cardinality(DOMAIN log \cap R0)
    BY <1>3, FS_Difference
  <2> QED BY <1>3, <2>1, <2>2, FS_CardinalityType
<1> HIDE DEF P
<1>11. IsFiniteSet(marks) /\ Cardinality(marks) \in Nat /\ Cardinality(marks) <= NodeCount
       /\ (marks # Nodes => Cardinality(marks) # NodeCount)
  BY <1>4, FS_Subset, FS_CardinalityType
<1>12. Cardinality(P) <= Cardinality(marks)
  BY <1>8, <1>11, FS_Injection
<1>13. IsFiniteSet(S) /\ Cardinality(S) \in Nat /\ Cardinality(S) <= Cardinality(P)
       /\ (S # P => Cardinality(S) # Cardinality(P))
  BY <1>5, <1>10, FS_Subset, FS_CardinalityType
<1>14. Cardinality(R0) = Cardinality(S)
  BY <1>7, <1>13, FS_Bijection DEF ExistsBijection
<1>15. marks # Nodes \/ S # P BY <1>6
<1>16. Len(log) = Cardinality(P) + Cardinality(S) BY <1>2, <1>9, <1>10, <1>14
<1>17. Cardinality(P) < NodeCount \/ Cardinality(S) < Cardinality(P)
  BY <1>1, <1>10, <1>11, <1>12, <1>13, <1>15
<1>18. Len(log) < 2 * NodeCount BY <1>1, <1>10, <1>11, <1>12, <1>13, <1>16, <1>17
<1>19. Len(log) \in Nat BY <1>2
<1> QED BY <1>1, <1>18, <1>19 DEF HistoryLength

(* A step that logs nothing leaves the histories alone.                     *)
LEMMA SilentStep ==
    ASSUME HInv, UNCHANGED <<marked, blocking, nonblocking, executed>>
    PROVE  Histories'
<1> SUFFICES ASSUME NEW x \in Products PROVE History(x)'
  BY DEF Histories
<1>1. Listed(x)' = Listed(x) BY DEF Listed
<1> QED BY <1>1 DEF HInv, Histories, History

(* One product's history goes on, the others' stay.                         *)
LEMMA OneHistory ==
    ASSUME IInv, HInv, NEW p \in Products, NEW marks, NEW block, NEW nonblock, NEW log,
           marked' = [marked EXCEPT ![p] = marks], blocking' = [blocking EXCEPT ![p] = block],
           nonblocking' = [nonblocking EXCEPT ![p] = nonblock],
           executed' = [executed EXCEPT ![p] = log],
           LogsMarks(log, marks), Distinct(block), Distinct(nonblock),
           Noted(log, Values(block) \cup Values(nonblock)),
           Paired(log, Values(block) \cup Values(nonblock))
    PROVE  Histories'
<1> SUFFICES ASSUME NEW x \in Products PROVE History(x)'
  BY DEF Histories
<1>1. CASE x = p
  <2>1. /\ marked'[p] = marks /\ blocking'[p] = block /\ nonblocking'[p] = nonblock
        /\ executed'[p] = log
    BY DEF IInv, TypeOK
  <2>2. Listed(p)' = Values(block) \cup Values(nonblock) BY <2>1 DEF Listed, Values
  <2> QED BY <1>1, <2>1, <2>2 DEF History
<1>2. CASE x # p
  <2>1. /\ marked'[x] = marked[x] /\ blocking'[x] = blocking[x]
        /\ nonblocking'[x] = nonblocking[x] /\ executed'[x] = executed[x]
    BY <1>2 DEF IInv, TypeOK
  <2>2. Listed(x)' = Listed(x) BY <2>1 DEF Listed, Values
  <2>3. History(x) BY DEF HInv, Histories
  <2> QED BY <2>1, <2>2, <2>3 DEF History
<1> QED BY <1>1, <1>2

LEMMA AppendNew ==
    ASSUME NEW list \in Seq(Processes), NEW q \in Processes, Distinct(list), q \notin Values(list)
    PROVE  Distinct(Append(list, q)) /\ Values(Append(list, q)) = Values(list) \cup {q}
<1> DEFINE new == Append(list, q)
           l == Len(list) + 1
<1>1. /\ DOMAIN new = DOMAIN list \cup {l} /\ l \notin DOMAIN list
      /\ \A i \in DOMAIN list : new[i] = list[i]
      /\ new[l] = q
  OBVIOUS
<1> HIDE DEF new, l
<1>2. Distinct(new) BY <1>1 DEF Distinct, Values
<1>3. Values(new) = Values(list) \cup {q} BY <1>1 DEF Values
<1> QED BY <1>2, <1>3 DEF new

(* A node is made for the first time; its failure joins one of the lists.   *)
LEMMA ProducedHistory ==
    ASSUME OneNodeEach, IInv, HInv, NEW p \in Products, Produced(p)
    PROVE  Histories'
<1> DEFINE q == current[p]
           block == IF failed[p] /\ HoldsUp(q) THEN Append(blocking[p], q) ELSE blocking[p]
           nonblock == IF failed[p] /\ ~HoldsUp(q) THEN Append(nonblocking[p], q)
                       ELSE nonblocking[p]
           log == executed[p]
           e == [process |-> current[p], failed |-> spoilt[p], told |-> failed[p]]
           now == Listed(p) \cup (IF e.told THEN {e.process} ELSE {})
<1>1. PICK n \in Enabled(marked[p]) : q = ProcessOf[n]
  BY ProducedIsEnabled DEF Produced
<1>2. n \in Nodes \ marked[p] BY <1>1 DEF Enabled
<1>3. Booked(q) = n BY <1>1, <1>2, BookedOnNode DEF OneNodeEach
<1>4. q \in Processes BY <1>1, <1>2, GraphAssumption
<1>5. /\ marked' = [marked EXCEPT ![p] = marked[p] \cup {n}]
      /\ blocking' = [blocking EXCEPT ![p] = block]
      /\ nonblocking' = [nonblocking EXCEPT ![p] = nonblock]
      /\ executed' = [executed EXCEPT ![p] = IF Len(log) = HistoryLength THEN log ELSE Append(log, e)]
  BY <1>3 DEF Produced, Marked, Record
<1>6. /\ log \in Seq(Execution) /\ marked[p] \in SUBSET Nodes /\ failed[p] \in BOOLEAN
      /\ blocking[p] \in Seq(Processes) /\ nonblocking[p] \in Seq(Processes)
      /\ e \in Execution /\ e.process = q /\ e.told = failed[p]
  BY <1>4 DEF IInv, TypeOK, Execution
<1> HIDE DEF log, e, now
<1>7. /\ LogsMarks(log, marked[p]) /\ Distinct(blocking[p]) /\ Distinct(nonblocking[p])
      /\ Noted(log, Listed(p)) /\ Paired(log, Listed(p))
  BY DEF HInv, Histories, History, log
<1>8. Len(log) # HistoryLength BY <1>2, <1>6, <1>7, LogHasRoom
<1>9. /\ LogsMarks(Append(log, e), marked[p] \cup {n})
      /\ Noted(Append(log, e), now) /\ Paired(Append(log, e), now)
      /\ q \notin Listed(p)
  BY <1>1, <1>2, <1>6, <1>7, MadeIsLogged DEF now
<1>10. q \notin Values(blocking[p]) /\ q \notin Values(nonblocking[p]) BY <1>9 DEF Listed
<1>11. Distinct(block) /\ Distinct(nonblock)
  BY <1>4, <1>6, <1>7, <1>10, AppendNew
<1>12. Values(block) \cup Values(nonblock) = now
  <2>1. CASE failed[p] /\ HoldsUp(q)
    BY <1>4, <1>6, <1>7, <1>10, <2>1, AppendNew DEF now, Listed
  <2>2. CASE failed[p] /\ ~HoldsUp(q)
    BY <1>4, <1>6, <1>7, <1>10, <2>2, AppendNew DEF now, Listed
  <2>3. CASE ~failed[p] BY <1>6, <2>3 DEF now, Listed
  <2> QED BY <2>1, <2>2, <2>3
<1> HIDE DEF block, nonblock
<1>13. executed' = [executed EXCEPT ![p] = Append(log, e)] BY <1>5, <1>8
<1> QED BY <1>5, <1>9, <1>11, <1>12, <1>13, OneHistory

(* A rework strikes one failure off the lists, and is paired with it.       *)
LEMMA ReworkedHistory ==
    ASSUME IInv, HInv, NEW p \in Products, Reworked(p)
    PROVE  Histories'
<1> DEFINE r == current[p]
           urgent == \E i \in DOMAIN blocking[p] : r \in Reworks[blocking[p][i]]
           block == IF urgent THEN Answered(blocking[p], r) ELSE blocking[p]
           nonblock == IF urgent THEN nonblocking[p] ELSE Answered(nonblocking[p], r)
           log == executed[p]
           e == [process |-> current[p], failed |-> spoilt[p], told |-> failed[p]]
<1>1. /\ phase[p] = "returned" /\ Defined(r) /\ marked' = [marked EXCEPT ![p] = marked[p]]
      /\ blocking' = [blocking EXCEPT ![p] = block]
      /\ nonblocking' = [nonblocking EXCEPT ![p] = nonblock]
      /\ executed' = [executed EXCEPT ![p] = IF Len(log) = HistoryLength THEN log ELSE Append(log, e)]
  BY DEF Reworked, Record, IInv, TypeOK
<1>2. /\ log \in Seq(Execution) /\ marked[p] \in SUBSET Nodes /\ failed[p] \in BOOLEAN
      /\ blocking[p] \in Seq(Processes) /\ nonblocking[p] \in Seq(Processes)
  BY DEF IInv, TypeOK
<1>3. r \in Processes BY <1>1, <1>2, NextPossibleAreProcesses DEF IInv, Current
<1>4. e \in Execution /\ e.process = r /\ ~e.told
  BY <1>1, <1>3 DEF IInv, TypeOK, Execution, HInv, ReworksSucceed
<1> HIDE DEF log, e
<1>5. /\ LogsMarks(log, marked[p]) /\ Distinct(blocking[p]) /\ Distinct(nonblocking[p])
      /\ Noted(log, Listed(p)) /\ Paired(log, Listed(p))
  BY DEF HInv, Histories, History, log
<1>6. \A q \in Values(blocking[p]) : q \notin Values(nonblocking[p])
  BY DEF IInv, Mappings, Values
<1>7. \E q \in Listed(p) :
          /\ r \in Reworks[q] /\ Values(block) \cup Values(nonblock) = Listed(p) \ {q}
          /\ Distinct(block) /\ Distinct(nonblock)
  <2>1. CASE urgent
    <3>1. PICK q \in Values(blocking[p]) :
              /\ r \in Reworks[q]
              /\ Values(Answered(blocking[p], r)) = Values(blocking[p]) \ {q}
              /\ Distinct(Answered(blocking[p], r))
      BY <1>2, <1>5, <2>1, AnsweredStrikes
    <3>2. block = Answered(blocking[p], r) /\ nonblock = nonblocking[p] BY <2>1
    <3> HIDE DEF block, nonblock
    <3> QED BY <1>5, <1>6, <3>1, <3>2 DEF Listed
  <2>2. CASE ~urgent
    <3>1. \E i \in DOMAIN nonblocking[p] : r \in Reworks[nonblocking[p][i]]
      BY <1>1, <2>2, ReworkAnswers
    <3>2. PICK q \in Values(nonblocking[p]) :
              /\ r \in Reworks[q]
              /\ Values(Answered(nonblocking[p], r)) = Values(nonblocking[p]) \ {q}
              /\ Distinct(Answered(nonblocking[p], r))
      BY <1>2, <1>5, <3>1, AnsweredStrikes
    <3>3. block = blocking[p] /\ nonblock = Answered(nonblocking[p], r) BY <2>2
    <3> HIDE DEF block, nonblock
    <3> QED BY <1>5, <1>6, <3>2, <3>3 DEF Listed
  <2> QED BY <2>1, <2>2
<1>8. PICK q \in Listed(p) :
          /\ r \in Reworks[q] /\ Values(block) \cup Values(nonblock) = Listed(p) \ {q}
          /\ Distinct(block) /\ Distinct(nonblock)
  BY <1>7
<1>9. Len(log) # HistoryLength BY <1>2, <1>5, <1>8, LogHasRoom
<1>10. /\ LogsMarks(Append(log, e), marked[p])
       /\ Noted(Append(log, e), Listed(p) \ {q}) /\ Paired(Append(log, e), Listed(p) \ {q})
  <2> HIDE DEF r
  <2> QED BY <1>1, <1>2, <1>4, <1>5, <1>8, ReworkIsLogged
<1> HIDE DEF block, nonblock
<1>11. executed' = [executed EXCEPT ![p] = Append(log, e)] BY <1>1, <1>9
<1> QED BY <1>1, <1>8, <1>10, <1>11, OneHistory

(* Every step keeps the histories, and what can fail.                       *)
LEMMA NextHInv == ASSUME OneNodeEach, IInv, HInv, [Next]_vars PROVE HInv'
<1> USE DEF ReworksSucceed
<1>1. ASSUME UNCHANGED <<phase, current, failed>> PROVE ReworksSucceed'
  BY <1>1 DEF HInv
<1>2. ASSUME NEW p \in Products, NEW block, NEW nonblock, NEW marks, Ask(p, marks, block, nonblock),
             \A x \in Products \ {p} : failed'[x] = failed[x], UNCHANGED current
      PROVE  ReworksSucceed'
  BY <1>2, AskStep DEF HInv
<1>3. CASE UNCHANGED vars BY <1>1, <1>3, SilentStep DEF HInv, vars
<1>4. ASSUME NEW p \in Products, Enter(p) PROVE HInv'
  <2>1. ReworksSucceed' BY <1>2, <1>4 DEF Enter
  <2> QED BY <1>4, <2>1, SilentStep DEF Enter, HInv
<1>5. ASSUME NEW p \in Products, Route(p) PROVE HInv'
  <2>1. ReworksSucceed' BY <1>5 DEF Route, HInv, IInv, TypeOK
  <2> QED BY <1>5, <2>1, SilentStep DEF Route, HInv
<1>6. ASSUME NEW p \in Products, Resources(p) PROVE HInv'
  <2>1. PICK lot \in SUBSET Products : Execute(lot, current[p]) BY <1>6 DEF Resources
  <2>2. PICK outcome \in [lot -> IF current[p] \in CanFail THEN BOOLEAN ELSE {FALSE}], last \in lot :
           failed' = [x \in Products |->
                          IF x \in lot THEN Verdict(lot, outcome, last)[x] ELSE failed[x]]
    BY <2>1 DEF Execute
  <2>3. /\ \A x \in lot : current[x] = current[p]
        /\ phase' = [x \in Products |-> IF x \in lot THEN "returned" ELSE phase[x]]
        /\ UNCHANGED <<current, marked, blocking, nonblocking, executed>>
    BY <2>1 DEF Execute
  <2>4. \A x \in lot : failed'[x] => current[p] \in CanFail
    <3>1. current[p] \notin CanFail => outcome[last] = FALSE BY <2>2
    <3> QED BY <2>2, <3>1 DEF Verdict
  <2>5. ReworksSucceed' BY <2>2, <2>3, <2>4, ReworkAssumption DEF HInv
  <2> QED BY <2>3, <2>5, SilentStep DEF HInv
<1>7. ASSUME NEW p \in Products, Raise(p) PROVE HInv'
  BY <1>1, <1>7, SilentStep DEF Raise, HInv
<1>8. ASSUME NEW p \in Products, Leave(p) PROVE HInv'
  <2>1. ReworksSucceed' BY <1>8 DEF Leave, HInv, IInv, TypeOK
  <2> QED BY <1>8, <2>1, SilentStep DEF Leave, HInv
<1>9. ASSUME NEW p \in Products, Produced(p) \/ Reworked(p) PROVE ReworksSucceed'
  <2>1. \A x \in Products \ {p} : failed'[x] = failed[x]
    BY <1>9 DEF Produced, Reworked, IInv, TypeOK
  <2>2. UNCHANGED current /\ \E marks, block, nonblock : Ask(p, marks, block, nonblock)
    BY <1>9 DEF Produced, Reworked
  <2> QED BY <1>2, <2>1, <2>2
<1>10. ASSUME NEW p \in Products, Produced(p) PROVE HInv'
  BY <1>9, <1>10, ProducedHistory DEF HInv
<1>11. ASSUME NEW p \in Products, Reworked(p) PROVE HInv'
  BY <1>9, <1>11, ReworkedHistory DEF HInv
<1> QED BY <1>3, <1>4, <1>5, <1>6, <1>7, <1>8, <1>10, <1>11 DEF Next, Generator

LEMMA InitHInv == Init => HInv
<1> SUFFICES ASSUME Init PROVE HInv OBVIOUS
<1>1. ReworksSucceed BY DEF Init, ReworksSucceed
<1>2. ASSUME NEW p \in Products PROVE History(p)
  <2>1. executed[p] = <<>> /\ marked[p] = {} /\ blocking[p] = <<>> /\ nonblocking[p] = <<>>
    BY DEF Init
  <2>2. Told(<<>>) = {} /\ Reworkings(<<>>) = {} /\ Listed(p) = {}
    BY <2>1 DEF Told, Reworkings, Listed, Values
  <2>3. Settled(<<>>, {}) = {} BY <2>2 DEF Settled
  <2> DEFINE f == [i \in {} |-> i]
  <2>4. f \in Bijection({}, {})
    BY DEF Bijection, Injection, Surjection, IsInjective
  <2>5. Answer(f, <<>>, {}) BY <2>2, <2>3, <2>4 DEF Answer
  <2>6. Paired(<<>>, {}) BY <2>5 DEF Paired
  <2> QED BY <2>1, <2>2, <2>6 DEF History, LogsMarks, Distinct, Noted
<1> QED BY <1>1, <1>2 DEF HInv, Histories

(* Out of its loop, a product has every node behind it and no failure open. *)
LEMMA ThroughIsFinished ==
    ASSUME Acyclic, IInv, HInv
    PROVE  LeavesFinished
<1> SUFFICES ASSUME NEW p \in Products, phase[p] \in {"through", "left"}
             PROVE  LET log == executed[p]
                    IN  /\ \A n \in Nodes :
                              Cardinality({i \in DOMAIN log : log[i].process = ProcessOf[n]}) = 1
                        /\ Repaired(log, Told(log), Len(log) + 1)
                        /\ Cardinality(Reworkings(log)) = Cardinality(Told(log))
  BY DEF LeavesFinished
<1> DEFINE log == executed[p]
<1>1. log \in Seq(Execution) BY DEF IInv, TypeOK
<1>2. marked[p] = Nodes /\ blocking[p] = <<>> /\ nonblocking[p] = <<>>
  BY NothingPossibleMeansDone DEF IInv, NothingPossible
<1>3. Listed(p) = {} BY <1>2 DEF Listed, Values
<1>4. LogsMarks(log, Nodes) /\ Paired(log, {})
  BY <1>2, <1>3 DEF HInv, Histories, History
<1> HIDE DEF log
<1>5. ASSUME NEW n \in Nodes
      PROVE  Cardinality({i \in DOMAIN log : log[i].process = ProcessOf[n]}) = 1
  <2>1. PICK i \in DOMAIN log : log[i].process = ProcessOf[n] BY <1>4 DEF LogsMarks
  <2>2. ~Defined(ProcessOf[n]) BY ReworkAssumption
  <2>3. {j \in DOMAIN log : log[j].process = ProcessOf[n]} = {i}
    BY <1>4, <2>1, <2>2 DEF LogsMarks
  <2> QED BY <2>3, FS_Singleton
<1>6. Settled(log, {}) = Told(log) BY DEF Settled
<1>7. PICK f : /\ f \in Bijection(Told(log), Reworkings(log))
               /\ \A i \in Told(log) : f[i] > i /\ log[f[i]].process \in Reworks[log[i].process]
  BY <1>4, <1>6 DEF Paired, Answer
<1>8. /\ f \in [Told(log) -> Reworkings(log)]
      /\ \A i, j \in Told(log) : f[i] = f[j] => i = j
  BY <1>7 DEF Bijection, Injection, IsInjective
<1>9. Repaired(log, Told(log), Len(log) + 1)
  <2>1. {i \in Reworkings(log) : i < Len(log) + 1} = Reworkings(log)
    BY <1>1 DEF Reworkings
  <2> QED BY <1>7, <1>8, <2>1 DEF Repaired
<1>10. IsFiniteSet(Told(log))
  <2>1. Len(log) \in Nat /\ DOMAIN log = 1 .. Len(log) BY <1>1
  <2>2. IsFiniteSet(DOMAIN log) BY <2>1, FS_Interval
  <2>3. Told(log) \subseteq DOMAIN log BY DEF Told
  <2> QED BY <2>2, <2>3, FS_Subset
<1>11. Cardinality(Reworkings(log)) = Cardinality(Told(log))
  BY <1>7, <1>10, FS_Bijection DEF ExistsBijection
<1> QED BY <1>5, <1>9, <1>11 DEF log

(* A product leaves with every node executed once, every failure it was     *)
(* told of repaired by a rework of its own, and not one rework more: for    *)
(* every acyclic graph whose nodes are executed by different processes.     *)
THEOREM NobodyLeavesEarly ==
    ASSUME Acyclic, OneNodeEach
    PROVE  Spec => []LeavesFinished
<1>1. HInv /\ IInv /\ [Next]_vars => HInv' BY NextHInv
<1>2. HInv /\ IInv => LeavesFinished BY ThroughIsFinished
<1> QED BY InitHInv, <1>1, <1>2, IInvHolds, PTL DEF Spec
=============================================================================
