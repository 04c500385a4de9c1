--------------------------- MODULE ControllerProofs ---------------------------
(***************************************************************************)
(* Proofs about Controller.  The inductive invariant IInv says what each   *)
(* counter stands for: the capacity reserved, the capacity running and the *)
(* slots promised are exactly what the active handlers hold.  Without it   *)
(* the counters could go below zero or be left over when nothing is active.*)
(***************************************************************************)
EXTENDS Controller, FiniteSetTheorems, WellFoundedInduction, SequenceTheorems, TLAPS

-----------------------------------------------------------------------------
(* Every non-empty set of natural numbers has a least element: the initial *)
(* segments 0 .. x are finite sets, and strict inclusion is well-founded   *)
(* on finite sets.                                                         *)
LEMMA LeastNatural ==
    ASSUME NEW T, T \subseteq Nat, T # {}
    PROVE  \E x \in T : \A y \in T : x <= y
<1> DEFINE F == {0 .. x : x \in T}
<1>1. IsWellFoundedOn(StrictSubsetOrdering(Nat), FiniteSubsetsOf(Nat))
  BY FS_StrictSubsetOrderingWellFounded
<1>2. F \subseteq FiniteSubsetsOf(Nat) /\ F # {}
  <2>1. ASSUME NEW x \in T PROVE 0 .. x \in FiniteSubsetsOf(Nat)
    BY FS_Interval DEF FiniteSubsetsOf
  <2> QED BY <2>1
<1>3. \E m \in F : \A y \in F : <<y, m>> \notin StrictSubsetOrdering(Nat)
  <2> HIDE DEF F
  <2> QED BY <1>1, <1>2, WFMin
<1>4. PICK x \in T : \A y \in T : <<0 .. y, 0 .. x>> \notin StrictSubsetOrdering(Nat)
  BY <1>3
<1>5. ASSUME NEW y \in T, y < x PROVE FALSE
  <2>1. 0 .. y \subseteq 0 .. x /\ 0 .. y # 0 .. x
    <3>1. x \in 0 .. x /\ x \notin 0 .. y BY <1>5
    <3> QED BY <3>1, <1>5
  <2>2. 0 .. y \in SUBSET Nat /\ 0 .. x \in SUBSET Nat OBVIOUS
  <2> HIDE <1>5
  <2> QED BY <2>1, <2>2, <1>4 DEF StrictSubsetOrdering
<1> QED BY <1>5

(* Induction up to n, for a property given as the set of its numbers. *)
LEMMA IntervalInduction ==
    ASSUME NEW n \in Nat, NEW S, 0 \in S, \A i \in 0 .. (n - 1) : i \in S => i + 1 \in S
    PROVE  \A i \in 0 .. n : i \in S
<1> DEFINE B == {i \in 0 .. n : i \notin S}
<1> SUFFICES ASSUME B # {} PROVE FALSE
  OBVIOUS
<1>1. B \subseteq Nat OBVIOUS
<1>2. PICK x \in B : \A y \in B : x <= y
  <2> HIDE DEF B
  <2> QED BY <1>1, LeastNatural
<1>3. x - 1 \in 0 .. (n - 1) BY <1>2
<1>4. x - 1 \in S BY <1>2, <1>3
<1> QED BY <1>2, <1>3, <1>4

(* One step of the recursion that defines Without. *)
Step(s, S, g, i) ==
    IF i = 0 THEN <<>>
    ELSE IF s[i] \in S THEN g[i - 1]
    ELSE Append(g[i - 1], s[i])

(* The recursion has a solution on every initial segment. *)
LEMMA KeptExists ==
    ASSUME NEW s, NEW S, NEW n \in Nat
    PROVE  \E g : g = [i \in 0 .. n |-> Step(s, S, g, i)]
<1> DEFINE Good == {m \in 0 .. n : \E g : g = [i \in 0 .. m |-> Step(s, S, g, i)]}
<1>1. 0 \in Good
  <2> DEFINE g == [i \in 0 .. 0 |-> <<>>]
  <2>1. g = [i \in 0 .. 0 |-> Step(s, S, g, i)]
    BY DEF Step
  <2> QED BY <2>1
<1>2. ASSUME NEW m \in 0 .. (n - 1), m \in Good PROVE m + 1 \in Good
  <2>1. PICK g : g = [i \in 0 .. m |-> Step(s, S, g, i)] BY <1>2
  <2> DEFINE h == [i \in 0 .. (m + 1) |-> IF i <= m THEN g[i] ELSE Step(s, S, g, i)]
  <2>2. ASSUME NEW i \in 0 .. (m + 1) PROVE h[i] = Step(s, S, h, i)
    <3>1. CASE i = 0
      <4>1. g[0] = Step(s, S, g, 0) BY <2>1
      <4> QED BY <4>1, <3>1 DEF Step
    <3>2. CASE i # 0
      <4>1. i - 1 \in 0 .. m /\ h[i - 1] = g[i - 1] BY <3>2
      <4>2. Step(s, S, h, i) = Step(s, S, g, i) BY <4>1 DEF Step
      <4>3. i <= m => g[i] = Step(s, S, g, i)
        <5>1. i <= m => i \in 0 .. m OBVIOUS
        <5> QED BY <5>1, <2>1
      <4> QED BY <4>2, <4>3
    <3> QED BY <3>1, <3>2
  <2>3. h = [i \in 0 .. (m + 1) |-> Step(s, S, h, i)]
    <3> HIDE DEF h
    <3>1. h = [i \in 0 .. (m + 1) |-> h[i]] BY DEF h
    <3> QED BY <3>1, <2>2
  <2>4. m + 1 \in 0 .. n OBVIOUS
  <2> HIDE DEF h
  <2> QED BY <2>3, <2>4
<1>3. n \in Good
  <2> HIDE DEF Good
  <2> QED BY <1>1, <1>2, IntervalInduction
<1> QED BY <1>3

(* No element is in the list twice. *)
Distinct(s) == \A i, j \in DOMAIN s : s[i] = s[j] => i = j

(* What Without returns: elements of the list that are not in the set, and *)
(* every such element, and none more often than the list has it.           *)
LEMMA WithoutProperties ==
    ASSUME NEW T, NEW s \in Seq(T), NEW S
    PROVE  /\ Without(s, S) \in Seq(T)
           /\ \A j \in DOMAIN s :
                  s[j] \notin S => \E i \in DOMAIN Without(s, S) : Without(s, S)[i] = s[j]
           /\ \A i \in DOMAIN Without(s, S) :
                  Without(s, S)[i] \notin S
                  /\ \E j \in DOMAIN s : s[j] = Without(s, S)[i]
           /\ Distinct(s) => Distinct(Without(s, S))
<1> DEFINE g == CHOOSE g : g = [i \in 0 .. Len(s) |-> Step(s, S, g, i)]
<1>1. Len(s) \in Nat OBVIOUS
<1>2. g = [i \in 0 .. Len(s) |-> Step(s, S, g, i)]
  <2>1. \E h : h = [i \in 0 .. Len(s) |-> Step(s, S, h, i)] BY <1>1, KeptExists
  <2> QED BY <2>1
<1>3. Without(s, S) = g[Len(s)] BY DEF Without, Step
<1> HIDE DEF g
<1> DEFINE Ok(k) == /\ g[k] \in Seq(T)
                    /\ \A i \in DOMAIN g[k] :
                         g[k][i] \notin S /\ \E j \in 1 .. k : s[j] = g[k][i]
                    /\ \A j \in 1 .. k :
                         s[j] \notin S => \E i \in DOMAIN g[k] : g[k][i] = s[j]
                    /\ Distinct(s) => Distinct(g[k])
           Good == {k \in 0 .. Len(s) : Ok(k)}
<1>4. 0 \in Good
  <2>1. 0 \in 0 .. Len(s) BY <1>1
  <2>2. g[0] = <<>> BY <2>1, <1>2 DEF Step
  <2>3. g[0] \in Seq(T) BY <2>2
  <2>4. DOMAIN g[0] = {} BY <2>2
  <2>5. Distinct(g[0]) BY <2>4 DEF Distinct
  <2> QED BY <2>1, <2>3, <2>4, <2>5
<1>5. ASSUME NEW k \in 0 .. (Len(s) - 1), k \in Good PROVE k + 1 \in Good
  <2>1. k + 1 \in 0 .. Len(s) /\ k + 1 \in DOMAIN s BY <1>1
  <2>2. g[k + 1] = IF s[k + 1] \in S THEN g[k] ELSE Append(g[k], s[k + 1])
    <3>1. k + 1 # 0 /\ (k + 1) - 1 = k BY <1>1
    <3>2. g[k + 1] = Step(s, S, g, k + 1) BY <1>2, <2>1
    <3> QED BY <3>1, <3>2 DEF Step
  <2>3. s[k + 1] \in T BY <2>1
  <2>4. CASE s[k + 1] \in S
    <3>1. g[k + 1] = g[k] BY <2>4, <2>2
    <3>2. \A j \in 1 .. (k + 1) : s[j] \notin S => j \in 1 .. k BY <2>4
    <3>3. \A j \in 1 .. k : j \in 1 .. (k + 1) OBVIOUS
    <3>4. Ok(k) BY <1>5
    <3>5. \A i \in DOMAIN g[k] :
             g[k][i] \notin S /\ \E j \in 1 .. (k + 1) : s[j] = g[k][i]
      BY <3>3, <3>4
    <3>6. \A j \in 1 .. (k + 1) :
             s[j] \notin S => \E i \in DOMAIN g[k] : g[k][i] = s[j]
      BY <3>2, <3>4
    <3>7. Ok(k + 1) BY <3>1, <3>4, <3>5, <3>6
    <3> QED BY <3>7, <2>1
  <2>5. CASE s[k + 1] \notin S
    <3>1. g[k + 1] = Append(g[k], s[k + 1]) BY <2>2, <2>5
    <3>2. g[k + 1] \in Seq(T) BY <3>1, <2>3, <1>5
    <3>3. DOMAIN g[k + 1] = 1 .. (Len(g[k]) + 1) BY <3>1, <1>5, <2>3
    <3>4. g[k + 1][Len(g[k]) + 1] = s[k + 1] BY <3>1, <1>5, <2>3
    <3>5. \A i \in DOMAIN g[k] : i \in DOMAIN g[k + 1] /\ g[k + 1][i] = g[k][i]
      BY <3>1, <1>5, <2>3
    <3>6. ASSUME NEW i \in DOMAIN g[k + 1]
          PROVE  g[k + 1][i] \notin S /\ \E j \in 1 .. (k + 1) : s[j] = g[k + 1][i]
      <4>1. CASE i = Len(g[k]) + 1 BY <4>1, <3>4, <2>5
      <4>2. CASE i # Len(g[k]) + 1
        <5>1. i \in DOMAIN g[k] BY <4>2, <3>3, <1>5
        <5> QED BY <5>1, <3>5, <1>5
      <4> QED BY <4>1, <4>2
    <3>7. ASSUME NEW j \in 1 .. (k + 1), s[j] \notin S
          PROVE  \E i \in DOMAIN g[k + 1] : g[k + 1][i] = s[j]
      <4>1. CASE j = k + 1
        <5>1. Len(g[k]) + 1 \in DOMAIN g[k + 1] BY <3>3, <1>5
        <5> QED BY <5>1, <4>1, <3>4
      <4>2. CASE j # k + 1
        <5>1. j \in 1 .. k BY <4>2
        <5>2. PICK i \in DOMAIN g[k] : g[k][i] = s[j] BY <5>1, <3>7, <1>5
        <5> QED BY <5>2, <3>5
      <4> QED BY <4>1, <4>2
    <3>8. ASSUME Distinct(s), NEW i \in DOMAIN g[k + 1], NEW j \in DOMAIN g[k + 1],
                 g[k + 1][i] = g[k + 1][j], i < j
          PROVE  FALSE
      <4>1. i \in DOMAIN g[k] /\ g[k + 1][i] = g[k][i] BY <3>3, <3>5, <3>8, <1>5
      <4>2. CASE j \in DOMAIN g[k]
        <5>1. g[k][i] = g[k][j] BY <3>5, <3>8, <4>1, <4>2
        <5> QED BY <1>5, <3>8, <4>1, <4>2, <5>1 DEF Distinct
      <4>3. CASE j \notin DOMAIN g[k]
        <5>1. j = Len(g[k]) + 1 BY <3>3, <4>3, <1>5
        <5>2. PICK m \in 1 .. k : s[m] = g[k][i] BY <4>1, <1>5
        <5>3. s[m] = s[k + 1] BY <3>4, <3>8, <4>1, <5>1, <5>2
        <5>4. m \in DOMAIN s /\ m # k + 1 BY <1>1
        <5> QED BY <2>1, <3>8, <5>3, <5>4 DEF Distinct
      <4> QED BY <4>2, <4>3
    <3>9. Distinct(s) => Distinct(g[k + 1])
      <4> SUFFICES ASSUME Distinct(s), NEW i \in DOMAIN g[k + 1], NEW j \in DOMAIN g[k + 1],
                          g[k + 1][i] = g[k + 1][j]
                   PROVE  i = j
        BY DEF Distinct
      <4>1. i \in Nat /\ j \in Nat BY <3>3, <1>5
      <4>2. ~(i < j) /\ ~(j < i) BY <3>8
      <4> QED BY <4>1, <4>2
    <3> QED BY <3>2, <3>6, <3>7, <3>9, <2>1
  <2> QED BY <2>4, <2>5
<1>6. Len(s) \in Good
  <2>1. \A k \in 0 .. (Len(s) - 1) : k \in Good => k + 1 \in Good BY <1>5
  <2> HIDE DEF Good
  <2>2. \A k \in 0 .. Len(s) : k \in Good BY <1>1, <1>4, <2>1, IntervalInduction
  <2> QED BY <1>1, <2>2
<1>7. Ok(Len(s)) BY <1>6
<1>8. DOMAIN s = 1 .. Len(s) OBVIOUS
<1> QED BY <1>3, <1>7, <1>8

(* An element that is not taken out is still there. *)
LEMMA WithoutKeeps ==
    ASSUME NEW T, NEW s \in Seq(T), NEW S
    PROVE  \A j \in DOMAIN s :
              s[j] \notin S => \E i \in DOMAIN Without(s, S) : Without(s, S)[i] = s[j]
<1>1. /\ Without(s, S) \in Seq(T)
      /\ \A j \in DOMAIN s :
             s[j] \notin S => \E i \in DOMAIN Without(s, S) : Without(s, S)[i] = s[j]
      /\ \A i \in DOMAIN Without(s, S) :
             Without(s, S)[i] \notin S
             /\ \E j \in DOMAIN s : s[j] = Without(s, S)[i]
      /\ Distinct(s) => Distinct(Without(s, S))
  BY WithoutProperties
<1> QED BY <1>1

-----------------------------------------------------------------------------
(* The units that the owners in R hold, f[r] of them by r: a counter that   *)
(* is the sum of all f[r] is the number of these pairs.                     *)
Units(R, f) == UNION {{r} \X (1 .. f[r]) : r \in R}

(* One owner's units are as many as it holds. *)
LEMMA OwnUnits ==
    ASSUME NEW r, NEW n \in Nat
    PROVE  IsFiniteSet({r} \X (1 .. n)) /\ Cardinality({r} \X (1 .. n)) = n
<1>1. IsFiniteSet({r}) /\ Cardinality({r}) = 1 BY FS_Singleton
<1>2. IsFiniteSet(1 .. n) /\ Cardinality(1 .. n) = n
  <2>1. IsFiniteSet(1 .. n) /\ Cardinality(1 .. n) = IF 1 > n THEN 0 ELSE n - 1 + 1
    BY FS_Interval
  <2> QED BY <2>1
<1>3. IsFiniteSet({r} \X (1 .. n))
      /\ Cardinality({r} \X (1 .. n)) = Cardinality({r}) * Cardinality(1 .. n)
  BY <1>1, <1>2, FS_Product
<1> QED BY <1>1, <1>2, <1>3

(* When one owner's holding changes, the number of units changes by as much. *)
LEMMA UnitsChange ==
    ASSUME NEW R, NEW f \in [R -> Nat], NEW g \in [R -> Nat], NEW r \in R,
           \A x \in R \ {r} : g[x] = f[x],
           IsFiniteSet(Units(R, f))
    PROVE  /\ IsFiniteSet(Units(R, g))
           /\ Cardinality(Units(R, g)) = Cardinality(Units(R, f)) - f[r] + g[r]
           /\ Cardinality(Units(R, g)) \in Nat
<1> DEFINE Old == {r} \X (1 .. f[r])
           New == {r} \X (1 .. g[r])
           Rest == Units(R, f) \ Old
<1>1. IsFiniteSet(Old) /\ Cardinality(Old) = f[r] BY OwnUnits
<1>2. IsFiniteSet(New) /\ Cardinality(New) = g[r] BY OwnUnits
<1>3. Units(R, f) \cap Old = Old BY DEF Units
<1>4. IsFiniteSet(Rest)
      /\ Cardinality(Rest) = Cardinality(Units(R, f)) - Cardinality(Units(R, f) \cap Old)
  BY FS_Difference
<1>5. Rest \cap New = {} BY DEF Units
<1>6. Units(R, g) = Rest \cup New BY DEF Units
<1>7. IsFiniteSet(Rest \cup New)
      /\ Cardinality(Rest \cup New)
           = Cardinality(Rest) + Cardinality(New) - Cardinality(Rest \cap New)
  <2> HIDE DEF Rest, New
  <2> QED BY <1>2, <1>4, FS_Union
<1>8. Cardinality(Rest \cap New) = 0 BY <1>5, FS_EmptySet
<1>9. Cardinality(Units(R, f)) \in Nat /\ Cardinality(Units(R, g)) \in Nat
  BY <1>6, <1>7, FS_CardinalityType
<1> HIDE DEF Old, New, Rest
<1>10. Cardinality(Units(R, f) \cap Old) = f[r] BY <1>1, <1>3
<1>11. Cardinality(Rest) = Cardinality(Units(R, f)) - f[r] BY <1>4, <1>10
<1>12. Cardinality(Units(R, g)) = Cardinality(Rest) + Cardinality(New) - 0
  BY <1>6, <1>7, <1>8
<1>13. f[r] \in Nat /\ g[r] \in Nat OBVIOUS
<1>14. Cardinality(Units(R, g)) = Cardinality(Units(R, f)) - f[r] + g[r]
  BY <1>2, <1>9, <1>11, <1>12, <1>13
<1> QED BY <1>6, <1>7, <1>9, <1>14

(* When nobody holds anything there are no units. *)
LEMMA NoUnits ==
    ASSUME NEW R, NEW f \in [R -> Nat], \A r \in R : f[r] = 0
    PROVE  IsFiniteSet(Units(R, f)) /\ Cardinality(Units(R, f)) = 0
<1>1. Units(R, f) = {} BY DEF Units
<1> QED BY <1>1, FS_EmptySet

-----------------------------------------------------------------------------
(* What the handler of r holds of each counter. *)
HoldsReserved == [r \in Requests |-> IF stage[r] = "accepted" THEN need[r] + blocked[r]
                                     ELSE IF stage[r] = "running" THEN blocked[r] ELSE 0]
HoldsRunning == [r \in Requests |-> IF stage[r] = "running" THEN need[r] ELSE 0]
HoldsSlots == [r \in Requests |-> IF r \in Active THEN Slots(r, need[r]) ELSE 0]

Counts(counter, f) ==
    IsFiniteSet(Units(Requests, f)) /\ counter = Cardinality(Units(Requests, f))

(* The requests in the list are queued. *)
ListedQueued == \A i \in DOMAIN requests : stage[requests[i]] = "queued"

(* The requests in the lot of an active request are carried, and done when *)
(* it is done; none of them is active or in the list.                      *)
LotsCarried == \A r \in Active : \A x \in lot[r] : stage[x] \in {"carried", "done"}

IInv ==
    /\ TypeOK
    /\ ListedQueued
    /\ LotsCarried
    /\ Counts(reserved, HoldsReserved)
    /\ Counts(running, HoldsRunning)
    /\ ~crashed => Counts(promised, HoldsSlots)
    /\ CapacityRespected
    /\ FullIsFresh
    /\ OneDependantAtATime
    /\ TargetNotOverrun

USE RequestsAssumption, CapacityAssumption, LotAssumption, PolicyAssumption

-----------------------------------------------------------------------------
(* The policy's order holds requests of the list. *)
LEMMA OrderedFromList ==
    ASSUME TypeOK
    PROVE  /\ Ordered \in Seq(Requests)
           /\ \A i \in DOMAIN Ordered : \E j \in DOMAIN requests : requests[j] = Ordered[i]
<1>1. requests \in Seq(Requests) BY DEF TypeOK
<1>2. CASE Policy # "LIFO" BY <1>1, <1>2 DEF Ordered
<1>3. CASE Policy = "LIFO"
  <2>1. Ordered = [i \in 1 .. Len(requests) |-> requests[Len(requests) - i + 1]]
    BY <1>3 DEF Ordered, Reverse
  <2>2. \A i \in 1 .. Len(requests) : Len(requests) - i + 1 \in 1 .. Len(requests)
    BY <1>1
  <2>3. DOMAIN requests = 1 .. Len(requests) /\ Len(requests) \in Nat BY <1>1
  <2>4. \A i \in 1 .. Len(requests) : requests[Len(requests) - i + 1] \in Requests
    BY <1>1, <2>2, <2>3
  <2>5. Ordered \in Seq(Requests) BY <2>1, <2>3, <2>4, IsASeq
  <2> QED BY <2>1, <2>2, <2>3, <2>5
<1> QED BY <1>2, <1>3

(* A request that is selected is queued. *)
LEMMA SelectedQueued ==
    ASSUME TypeOK, ListedQueued, NEW r \in Requests, Selected(r)
    PROVE  stage[r] = "queued"
<1>1. PICK i \in DOMAIN Ordered : Ordered[i] = r BY DEF Selected
<1>2. PICK j \in DOMAIN requests : requests[j] = Ordered[i] BY <1>1, OrderedFromList
<1> QED BY <1>1, <1>2 DEF ListedQueued

(* The requests a lot is filled with are other queued requests, and with r *)
(* they fit into the free capacity.                                        *)
LEMMA FillFits ==
    ASSUME TypeOK, ListedQueued, NEW r \in Requests, Selected(r), FreeCapacity > 0
    PROVE  /\ Fill(r) \subseteq Requests \ {r}
           /\ \A x \in Fill(r) : stage[x] = "queued"
           /\ Cardinality(Fill(r)) \in Nat
           /\ Cardinality(Fill(r)) + 1 <= FreeCapacity
<1>1. CASE r \notin Lotted
  <2>1. Fill(r) = {} BY <1>1 DEF Fill
  <2>2. Cardinality(Fill(r)) = 0 BY <2>1, FS_EmptySet
  <2>3. FreeCapacity \in Int BY DEF FreeCapacity, TypeOK
  <2> QED BY <2>1, <2>2, <2>3
<1>2. CASE r \in Lotted
  <2> DEFINE Out == {x \in Requests : x = r \/ Kind[x] # Kind[r] \/ Group[x] # Group[r]}
             c == LotCandidates(r)
             n == IF Len(c) < LotRoom(r) - 1 THEN Len(c) ELSE LotRoom(r) - 1
  <2>1. c = Without(Ordered, Out) BY DEF LotCandidates
  <2>2. Ordered \in Seq(Requests)
        /\ \A i \in DOMAIN Ordered : \E j \in DOMAIN requests : requests[j] = Ordered[i]
    BY OrderedFromList
  <2>3. /\ c \in Seq(Requests)
        /\ \A i \in DOMAIN c : c[i] \notin Out /\ \E j \in DOMAIN Ordered : Ordered[j] = c[i]
    <3> HIDE DEF c, Out
    <3> QED BY <2>1, <2>2, WithoutProperties
  <2>4. \A i \in DOMAIN c : c[i] \in Requests \ {r} /\ stage[c[i]] = "queued"
    <3>1. r \in Out OBVIOUS
    <3> HIDE DEF c, Out
    <3> TAKE i \in DOMAIN c
    <3>2. c[i] \in Requests BY <2>3
    <3>3. c[i] # r BY <2>3, <3>1
    <3>4. PICK j \in DOMAIN Ordered : Ordered[j] = c[i] BY <2>3
    <3>5. PICK k \in DOMAIN requests : requests[k] = Ordered[j] BY <2>2
    <3> QED BY <3>2, <3>3, <3>4, <3>5 DEF ListedQueued
  <2>5. LotRoom(r) \in Nat \ {0} /\ LotRoom(r) <= FreeCapacity
    <3>1. FreeCapacity \in Int /\ TargetSpace \in Int
      BY DEF FreeCapacity, TargetSpace, TypeOK
    <3>2. Kind[r] = "transport" => TargetSpace > 0 BY DEF Selected, Feasible
    <3>3. MaxLot \in Nat \ {0} OBVIOUS
    <3> QED BY <3>1, <3>2, <3>3 DEF LotRoom
  <2>6. Len(c) \in Nat /\ DOMAIN c = 1 .. Len(c)
    <3> HIDE DEF c
    <3> QED BY <2>3
  <2>7. n \in Nat /\ n <= LotRoom(r) - 1 /\ n <= Len(c) BY <2>5, <2>6
  <2>8. Fill(r) = {c[i] : i \in 1 .. n} BY <1>2 DEF Fill
  <2> HIDE DEF c, n
  <2> DEFINE f == [i \in 1 .. n |-> c[i]]
  <2>9. f \in Surjection(1 .. n, Fill(r)) BY <2>8 DEF Surjection
  <2>10. ExistsSurjection(1 .. n, Fill(r)) BY <2>9 DEF ExistsSurjection
  <2>11. Cardinality(Fill(r)) <= n BY <2>7, <2>10, FS_SurjCardinalityBound
  <2>12. \A i \in 1 .. n : i \in DOMAIN c BY <2>6, <2>7
  <2>13. \A x \in Fill(r) : x \in Requests \ {r} /\ stage[x] = "queued"
    BY <2>4, <2>8, <2>12
  <2>14. IsFiniteSet(Fill(r)) BY <2>13, FS_Subset
  <2>15. Cardinality(Fill(r)) \in Nat BY <2>14, FS_CardinalityType
  <2>16. FreeCapacity \in Int BY DEF FreeCapacity, TypeOK
  <2> QED BY <2>5, <2>7, <2>11, <2>13, <2>15, <2>16
<1> QED BY <1>1, <1>2

(* The list without some requests is a list of queued requests. *)
LEMMA WithoutListed ==
    ASSUME TypeOK, ListedQueued, NEW S
    PROVE  /\ Without(requests, S) \in Seq(Requests)
           /\ \A i \in DOMAIN Without(requests, S) :
                 /\ Without(requests, S)[i] \notin S
                 /\ stage[Without(requests, S)[i]] = "queued"
<1>1. requests \in Seq(Requests) BY DEF TypeOK
<1>2. /\ Without(requests, S) \in Seq(Requests)
      /\ \A i \in DOMAIN Without(requests, S) :
            /\ Without(requests, S)[i] \notin S
            /\ \E j \in DOMAIN requests : requests[j] = Without(requests, S)[i]
  BY <1>1, WithoutProperties
<1> QED BY <1>2 DEF ListedQueued

(* A counter that one request's holding changes goes on counting the units. *)
LEMMA CountsChange ==
    ASSUME NEW f \in [Requests -> Nat], NEW g \in [Requests -> Nat], NEW r \in Requests,
           \A x \in Requests \ {r} : g[x] = f[x],
           NEW c, Counts(c, f)
    PROVE  Counts(c - f[r] + g[r], g) /\ c - f[r] + g[r] \in Nat
<1>1. /\ IsFiniteSet(Units(Requests, g))
      /\ Cardinality(Units(Requests, g))
           = Cardinality(Units(Requests, f)) - f[r] + g[r]
      /\ Cardinality(Units(Requests, g)) \in Nat
  BY UnitsChange DEF Counts
<1> QED BY <1>1 DEF Counts

LEMMA HoldsTypes ==
    ASSUME TypeOK
    PROVE  /\ HoldsReserved \in [Requests -> Nat]
           /\ HoldsRunning \in [Requests -> Nat]
           /\ HoldsSlots \in [Requests -> Nat]
<1>1. \A r \in Requests : need[r] \in Nat /\ blocked[r] \in Nat /\ need[r] + blocked[r] \in Nat
  BY DEF TypeOK
<1>2. \A r \in Requests : Slots(r, need[r]) \in Nat BY <1>1 DEF Slots
<1> QED BY <1>1, <1>2 DEF HoldsReserved, HoldsRunning, HoldsSlots

-----------------------------------------------------------------------------
LEMMA InitEstablishes == Init => IInv
<1> SUFFICES ASSUME Init PROVE IInv
  OBVIOUS
<1> USE DEF Init
<1>1. TypeOK
  <2>1. requests \in Seq(Requests) BY EmptySeq
  <2>2. stage \in [Requests -> Stages] BY DEF Stages
  <2>3. lot \in [Requests -> SUBSET Requests] OBVIOUS
  <2> QED BY <2>1, <2>2, <2>3 DEF TypeOK
<1>2. Active = {} BY DEF Active
<1>3. ListedQueued /\ LotsCarried BY <1>2 DEF ListedQueued, LotsCarried
<1>4. /\ \A r \in Requests : HoldsReserved[r] = 0
      /\ \A r \in Requests : HoldsRunning[r] = 0
      /\ \A r \in Requests : HoldsSlots[r] = 0
  BY <1>2 DEF HoldsReserved, HoldsRunning, HoldsSlots
<1>5. Counts(reserved, HoldsReserved)
  BY <1>1, <1>4, HoldsTypes, NoUnits DEF Counts
<1>6. Counts(running, HoldsRunning)
  BY <1>1, <1>4, HoldsTypes, NoUnits DEF Counts
<1>7. Counts(promised, HoldsSlots)
  BY <1>1, <1>4, HoldsTypes, NoUnits DEF Counts
<1>8. CapacityRespected /\ FullIsFresh /\ TargetNotOverrun
  BY DEF CapacityRespected, FullIsFresh, TargetNotOverrun, FreeCapacity
<1>9. OneDependantAtATime BY <1>2 DEF OneDependantAtATime
<1> QED BY <1>1, <1>3, <1>5, <1>6, <1>7, <1>8, <1>9 DEF IInv

(* Steps that leave the handlers and the counters alone. *)
LEMMA QuietStep ==
    ASSUME IInv, TypeOK', ListedQueued', LotsCarried',
           UNCHANGED <<full, running, reserved, bound, need, blocked>>,
           \A r \in Requests : stage[r] \in {"accepted", "running"}
                             \/ stage'[r] \in {"accepted", "running"} => stage'[r] = stage[r],
           crashed' \/ (promised' = promised /\ crashed' = crashed),
           filled' + promised' <= TargetSize
    PROVE  IInv'
<1> USE DEF IInv
<1>1. Active' = Active BY DEF Active
<1>2. HoldsReserved' = HoldsReserved BY DEF HoldsReserved
<1>3. HoldsRunning' = HoldsRunning BY DEF HoldsRunning
<1>4. HoldsSlots' = HoldsSlots BY <1>1 DEF HoldsSlots, Slots
<1>5. Counts(reserved, HoldsReserved)' /\ Counts(running, HoldsRunning)'
  BY <1>2, <1>3 DEF Counts
<1>6. (~crashed => Counts(promised, HoldsSlots))' BY <1>4 DEF Counts
<1>7. CapacityRespected' /\ FullIsFresh'
  BY DEF CapacityRespected, FullIsFresh, FreeCapacity
<1>8. OneDependantAtATime' BY <1>1 DEF OneDependantAtATime
<1>9. TargetNotOverrun' BY DEF TargetNotOverrun
<1> QED BY <1>5, <1>6, <1>7, <1>8, <1>9

LEMMA RequestPreserves ==
    ASSUME IInv, NEW r \in Requests, Request(r)
    PROVE  IInv'
<1> USE DEF Request
<1>1. requests \in Seq(Requests) BY DEF IInv, TypeOK
<1>2. TypeOK'
  BY <1>1 DEF IInv, TypeOK, Stages, target
<1>3. ListedQueued'
  <2> SUFFICES ASSUME NEW i \in DOMAIN requests' PROVE stage'[requests'[i]] = "queued"
    BY DEF ListedQueued
  <2>1. CASE i \in DOMAIN requests
    <3>1. requests'[i] = requests[i] /\ requests[i] \in Requests BY <1>1, <2>1
    <3>2. stage[requests[i]] = "queued" BY <2>1 DEF IInv, ListedQueued
    <3> QED BY <3>1, <3>2 DEF IInv, TypeOK
  <2>2. CASE i \notin DOMAIN requests
    <3>1. requests'[i] = r BY <1>1, <2>2
    <3> QED BY <3>1 DEF IInv, TypeOK
  <2> QED BY <2>1, <2>2
<1>4. \A x \in Requests : stage'[x] = IF x = r THEN "queued" ELSE stage[x]
  BY DEF IInv, TypeOK
<1>5. Active' = Active BY <1>4 DEF Active
<1>6. LotsCarried'
  <2>1. \A y \in Active : \A x \in lot[y] : x \in Requests
    BY DEF IInv, TypeOK, Active
  <2> QED BY <1>4, <1>5, <2>1 DEF IInv, LotsCarried
<1> QED BY <1>2, <1>3, <1>4, <1>6, QuietStep DEF IInv, TargetNotOverrun, target

LEMMA WakeInVainPreserves ==
    ASSUME IInv, WakeInVain
    PROVE  IInv'
<1> USE DEF WakeInVain
<1>1. TypeOK' BY DEF IInv, TypeOK, target
<1>2. ListedQueued' BY DEF IInv, ListedQueued
<1>3. LotsCarried' BY DEF IInv, LotsCarried, Active
<1> QED BY <1>1, <1>2, <1>3, QuietStep DEF IInv, TargetNotOverrun, target

LEMMA IncompleteLotPreserves ==
    ASSUME IInv, NEW r \in Requests, WakeForIncompleteLot(r)
    PROVE  IInv'
<1> USE DEF WakeForIncompleteLot
<1>1. stage[r] = "queued" BY SelectedQueued DEF IInv, Ready
<1> DEFINE rest == Without(requests, {r})
<1>2. rest \in Seq(Requests) /\ \A i \in DOMAIN rest : stage[rest[i]] = "queued"
  BY WithoutListed DEF IInv
<1>3. requests' = Append(rest, r) BY DEF ToEnd
<1> HIDE DEF rest
<1>4. TypeOK'
  <2>1. requests' \in Seq(Requests) BY <1>2, <1>3
  <2>2. /\ triggered' = FALSE /\ crashed' = crashed
        /\ UNCHANGED <<full, running, reserved, bound, stage, need, blocked, lot,
                       filled, promised, owed>>
    BY DEF target
  <2> HIDE DEF WakeForIncompleteLot
  <2> QED BY <2>1, <2>2 DEF IInv, TypeOK
<1>5. ListedQueued'
  <2> SUFFICES ASSUME NEW i \in DOMAIN requests' PROVE stage[requests'[i]] = "queued"
    BY DEF ListedQueued, target
  <2>1. CASE i \in DOMAIN rest BY <1>2, <1>3, <2>1
  <2>2. CASE i \notin DOMAIN rest
    <3>1. requests'[i] = r BY <1>2, <1>3, <2>2
    <3> QED BY <1>1, <3>1
  <2> QED BY <2>1, <2>2
<1>6. LotsCarried' BY DEF IInv, LotsCarried, Active
<1> QED BY <1>4, <1>5, <1>6, QuietStep DEF IInv, TargetNotOverrun, target

LEMMA RaisePreserves ==
    ASSUME IInv, NEW r \in Requests, WakeAndRaise(r)
    PROVE  IInv'
<1> USE DEF WakeAndRaise
<1> DEFINE rest == Without(requests, {r} \union Fill(r))
<1>1. rest \in Seq(Requests) /\ \A i \in DOMAIN rest : stage[rest[i]] = "queued"
  BY WithoutListed DEF IInv
<1>2. requests' = rest BY DEF WithoutLot
<1> HIDE DEF rest
<1>3. TargetSpace \in Nat /\ promised + TargetSpace = TargetSize - filled
  BY DEF IInv, TypeOK, TargetNotOverrun, TargetSpace
<1>4. TypeOK'
  <2>1. requests' \in Seq(Requests) BY <1>1, <1>2
  <2>2. promised' \in Nat BY <1>3 DEF IInv, TypeOK
  <2>3. /\ triggered' = FALSE /\ crashed' = TRUE
        /\ UNCHANGED <<full, running, reserved, bound, stage, need, blocked, lot,
                       filled, owed>>
    OBVIOUS
  <2> HIDE DEF WakeAndRaise
  <2> QED BY <2>1, <2>2, <2>3 DEF IInv, TypeOK
<1>5. ListedQueued' BY <1>1, <1>2 DEF ListedQueued
<1>6. LotsCarried' BY DEF IInv, LotsCarried, Active
<1>7. filled' + promised' <= TargetSize BY <1>3 DEF IInv, TypeOK
<1> QED BY <1>4, <1>5, <1>6, <1>7, QuietStep

LEMMA StartRequestPreserves ==
    ASSUME IInv, NEW r \in Requests, WakeAndStart(r), ~crashed
    PROVE  IInv'
<1> DEFINE carried == Fill(r)
           size == Cardinality(carried) + 1
           block == Blocks(r, FreeCapacity - size)
           rest == Without(requests, {r} \union carried)
<1>1. /\ Selected(r) /\ ~full /\ ~bound
      /\ Kind[r] = "transport" => size <= TargetSpace
      /\ requests' = rest
      /\ stage' = [x \in Requests |-> IF x = r THEN "accepted"
                                      ELSE IF x \in carried THEN "carried"
                                      ELSE stage[x]]
      /\ need' = [need EXCEPT ![r] = size]
      /\ lot' = [lot EXCEPT ![r] = carried]
      /\ reserved' = reserved + size + block
      /\ blocked' = [blocked EXCEPT ![r] = block]
      /\ full' = (FreeCapacity - size - block <= 0)
      /\ bound' = Binds(r)
      /\ triggered' \in BOOLEAN
      /\ promised' = promised + Slots(r, size)
      /\ running' = running /\ filled' = filled /\ owed' = owed /\ crashed' = crashed
  BY DEF WakeAndStart, Ready, WithoutLot, IsFull, MayStartMore
<1>2. FreeCapacity \in Int /\ FreeCapacity > 0 /\ TargetSpace \in Int
  BY <1>1 DEF IInv, FullIsFresh, FreeCapacity, TargetSpace, TypeOK
<1>3. stage[r] = "queued" BY <1>1, SelectedQueued DEF IInv
<1>4. /\ carried \subseteq Requests \ {r}
      /\ \A x \in carried : stage[x] = "queued"
      /\ size \in Nat \ {0} /\ size <= FreeCapacity
  BY <1>1, <1>2, FillFits DEF IInv
<1>5. rest \in Seq(Requests)
      /\ \A i \in DOMAIN rest : rest[i] \notin {r} \union carried /\ stage[rest[i]] = "queued"
  BY WithoutListed DEF IInv
<1> HIDE DEF carried, size, rest
<1>6. block \in Nat /\ size + block <= FreeCapacity
  BY <1>2, <1>4 DEF Blocks
<1> HIDE DEF block
<1>7. Slots(r, size) \in Nat /\ (Kind[r] = "transport" => Slots(r, size) <= TargetSpace)
      /\ (Kind[r] # "transport" => Slots(r, size) = 0)
  BY <1>1, <1>4 DEF Slots
<1>8. /\ \A x \in Requests : stage'[x] = IF x = r THEN "accepted"
                                        ELSE IF x \in carried THEN "carried" ELSE stage[x]
      /\ \A x \in Requests : need'[x] = IF x = r THEN size ELSE need[x]
      /\ \A x \in Requests : blocked'[x] = IF x = r THEN block ELSE blocked[x]
      /\ \A x \in Requests : lot'[x] = IF x = r THEN carried ELSE lot[x]
  BY <1>1 DEF IInv, TypeOK
<1>9. TypeOK'
  <2>1. reserved' \in Nat /\ promised' \in Nat
    BY <1>1, <1>4, <1>6, <1>7 DEF IInv, TypeOK
  <2>2. stage' \in [Requests -> Stages] BY <1>1 DEF IInv, TypeOK, Stages
  <2>3. need' \in [Requests -> Nat] /\ blocked' \in [Requests -> Nat]
    BY <1>1, <1>4, <1>6 DEF IInv, TypeOK
  <2>4. lot' \in [Requests -> SUBSET Requests] BY <1>1, <1>4 DEF IInv, TypeOK
  <2>5. full' \in BOOLEAN /\ bound' \in BOOLEAN BY <1>1 DEF Binds
  <2> QED BY <1>1, <1>5, <2>1, <2>2, <2>3, <2>4, <2>5 DEF IInv, TypeOK
<1>10. Active' = Active \union {r} /\ r \notin Active
  BY <1>3, <1>4, <1>8 DEF Active
<1>11. ListedQueued' BY <1>1, <1>5, <1>8 DEF ListedQueued
<1>12. LotsCarried'
  <2> SUFFICES ASSUME NEW y \in Active', NEW x \in lot'[y]
               PROVE  stage'[x] \in {"carried", "done"}
    BY DEF LotsCarried
  <2>1. CASE y = r BY <2>1, <1>4, <1>8
  <2>2. CASE y # r
    <3>1. y \in Active /\ x \in lot[y] BY <1>8, <1>10, <2>2 DEF Active
    <3>2. stage[x] \in {"carried", "done"} BY <3>1 DEF IInv, LotsCarried
    <3>3. x \in Requests BY <3>1 DEF IInv, TypeOK, Active
    <3> QED BY <1>3, <1>4, <1>8, <3>2, <3>3
  <2> QED BY <2>1, <2>2
<1>13. /\ HoldsReserved \in [Requests -> Nat] /\ HoldsReserved' \in [Requests -> Nat]
       /\ HoldsRunning \in [Requests -> Nat] /\ HoldsRunning' \in [Requests -> Nat]
       /\ HoldsSlots \in [Requests -> Nat] /\ HoldsSlots' \in [Requests -> Nat]
  <2>1. \A x \in Requests : need'[x] \in Nat /\ blocked'[x] \in Nat
                            /\ need'[x] + blocked'[x] \in Nat
    BY <1>9 DEF TypeOK
  <2>2. \A x \in Requests : Slots(x, need'[x]) \in Nat BY <2>1 DEF Slots
  <2>3. /\ HoldsReserved' \in [Requests -> Nat] /\ HoldsRunning' \in [Requests -> Nat]
        /\ HoldsSlots' \in [Requests -> Nat]
    BY <2>1, <2>2 DEF HoldsReserved, HoldsRunning, HoldsSlots
  <2> QED BY <2>3, HoldsTypes DEF IInv
<1>14. Counts(reserved, HoldsReserved)'
  <2>1. HoldsReserved[r] = 0 /\ HoldsReserved'[r] = size + block
    BY <1>3, <1>8 DEF HoldsReserved
  <2>2. \A x \in Requests \ {r} : HoldsReserved'[x] = HoldsReserved[x]
    BY <1>4, <1>8 DEF HoldsReserved
  <2>3. Counts(reserved - HoldsReserved[r] + HoldsReserved'[r], HoldsReserved')
    BY <1>13, <2>2, CountsChange DEF IInv
  <2>4. reserved' = reserved - HoldsReserved[r] + HoldsReserved'[r]
    BY <1>1, <1>4, <1>6, <2>1 DEF IInv, TypeOK
  <2> QED BY <2>3, <2>4 DEF Counts
<1>15. Counts(running, HoldsRunning)'
  <2>1. HoldsRunning' = HoldsRunning BY <1>3, <1>4, <1>8 DEF HoldsRunning
  <2> QED BY <1>1, <2>1 DEF IInv, Counts
<1>16. Counts(promised, HoldsSlots)'
  <2>1. HoldsSlots[r] = 0 /\ HoldsSlots'[r] = Slots(r, size)
    BY <1>8, <1>10 DEF HoldsSlots, Slots
  <2>2. \A x \in Requests \ {r} : HoldsSlots'[x] = HoldsSlots[x]
    BY <1>8, <1>10 DEF HoldsSlots, Slots
  <2>3. Counts(promised - HoldsSlots[r] + HoldsSlots'[r], HoldsSlots')
    BY <1>13, <2>2, CountsChange DEF IInv
  <2>4. promised' = promised - HoldsSlots[r] + HoldsSlots'[r]
    BY <1>1, <1>7, <2>1 DEF IInv, TypeOK
  <2> QED BY <2>3, <2>4 DEF Counts
<1>17. CapacityRespected' /\ FullIsFresh'
  <2>1. FreeCapacity' = FreeCapacity - size - block
    BY <1>1, <1>4, <1>6 DEF IInv, TypeOK, FreeCapacity
  <2>2. FreeCapacity - size - block >= 0 BY <1>2, <1>4, <1>6
  <2>3. CapacityRespected'
    <3>1. running' \in Int /\ reserved' \in Int BY <1>9 DEF TypeOK
    <3>2. Capacity - (running' + reserved') >= 0 BY <2>1, <2>2 DEF FreeCapacity
    <3>3. Capacity \in Int OBVIOUS
    <3>4. running' + reserved' \in Int /\ Capacity - (running' + reserved') \in Int
      BY <3>1, <3>3
    <3>5. running' + reserved' <= Capacity BY <3>2, <3>3, <3>4
    <3> QED BY <3>5 DEF CapacityRespected
  <2>4. full' <=> FreeCapacity - size - block <= 0 BY <1>1
  <2>5. FullIsFresh' BY <2>1, <2>4 DEF FullIsFresh
  <2> QED BY <2>3, <2>5
<1>18. OneDependantAtATime'
  <2>1. {x \in Active : Kind[x] = "dependency"} = {}
    BY <1>1 DEF IInv, OneDependantAtATime
  <2>2. {x \in Active' : Kind[x] = "dependency"}
          = IF Kind[r] = "dependency" THEN {r} ELSE {}
    BY <1>10, <2>1
  <2> QED BY <1>1, <2>2 DEF OneDependantAtATime, Binds
<1>19. TargetNotOverrun'
  <2>1. Slots(r, size) <= TargetSize - filled - promised
    BY <1>7 DEF IInv, TypeOK, TargetNotOverrun, TargetSpace
  <2> QED BY <1>1, <1>7, <2>1 DEF IInv, TypeOK, TargetNotOverrun
<1> QED BY <1>9, <1>11, <1>12, <1>14, <1>15, <1>16, <1>17, <1>18, <1>19 DEF IInv

LEMMA StartPreserves ==
    ASSUME IInv, NEW r \in Requests, Start(r), ~crashed
    PROVE  IInv'
<1> USE DEF Start, target
<1>1. need[r] \in Nat /\ blocked[r] \in Nat /\ need[r] + blocked[r] \in Nat
  BY DEF IInv, TypeOK
<1>2. \A x \in Requests : stage'[x] = IF x = r THEN "running" ELSE stage[x]
  BY DEF IInv, TypeOK
<1>3. Active' = Active BY <1>2 DEF Active
<1>4. HoldsReserved \in [Requests -> Nat] /\ HoldsRunning \in [Requests -> Nat]
  BY HoldsTypes DEF IInv
<1>5. HoldsReserved' \in [Requests -> Nat] /\ HoldsRunning' \in [Requests -> Nat]
  <2>1. \A x \in Requests : need[x] \in Nat /\ blocked[x] \in Nat
                            /\ need[x] + blocked[x] \in Nat
    BY DEF IInv, TypeOK
  <2> QED BY <2>1 DEF HoldsReserved, HoldsRunning
<1>6. Counts(reserved, HoldsReserved)' /\ reserved' \in Nat
  <2>1. HoldsReserved[r] = need[r] + blocked[r] /\ HoldsReserved'[r] = blocked[r]
    BY <1>2 DEF HoldsReserved
  <2>2. \A x \in Requests \ {r} : HoldsReserved'[x] = HoldsReserved[x]
    BY <1>2 DEF HoldsReserved
  <2>3. /\ Counts(reserved - HoldsReserved[r] + HoldsReserved'[r], HoldsReserved')
        /\ reserved - HoldsReserved[r] + HoldsReserved'[r] \in Nat
    BY <1>4, <1>5, <2>2, CountsChange DEF IInv
  <2>4. reserved' = reserved - HoldsReserved[r] + HoldsReserved'[r]
    BY <1>1, <2>1 DEF IInv, TypeOK
  <2> QED BY <2>3, <2>4 DEF Counts
<1>7. Counts(running, HoldsRunning)' /\ running' \in Nat
  <2>1. HoldsRunning[r] = 0 /\ HoldsRunning'[r] = need[r]
    BY <1>2 DEF HoldsRunning
  <2>2. \A x \in Requests \ {r} : HoldsRunning'[x] = HoldsRunning[x]
    BY <1>2 DEF HoldsRunning
  <2>3. /\ Counts(running - HoldsRunning[r] + HoldsRunning'[r], HoldsRunning')
        /\ running - HoldsRunning[r] + HoldsRunning'[r] \in Nat
    BY <1>4, <1>5, <2>2, CountsChange DEF IInv
  <2>4. running' = running - HoldsRunning[r] + HoldsRunning'[r]
    BY <1>1, <2>1 DEF IInv, TypeOK
  <2> QED BY <2>3, <2>4 DEF Counts
<1>8. TypeOK' BY <1>6, <1>7 DEF IInv, TypeOK, Stages
<1>9. ListedQueued'
  <2>1. \A i \in DOMAIN requests : requests[i] \in Requests BY DEF IInv, TypeOK
  <2> QED BY <1>2, <2>1 DEF IInv, ListedQueued
<1>10. LotsCarried'
  <2>1. \A y \in Active : \A x \in lot[y] : x \in Requests
    BY DEF IInv, TypeOK, Active
  <2> QED BY <1>2, <1>3, <2>1 DEF IInv, LotsCarried
<1>11. (~crashed => Counts(promised, HoldsSlots))'
  <2>1. HoldsSlots' = HoldsSlots BY <1>3 DEF HoldsSlots, Slots
  <2> QED BY <2>1 DEF IInv, Counts
<1>12. CapacityRespected' /\ FullIsFresh'
  <2>1. running' + reserved' = running + reserved BY <1>1 DEF IInv, TypeOK
  <2>2. FreeCapacity' = FreeCapacity BY <2>1 DEF FreeCapacity, IInv, TypeOK
  <2> QED BY <2>1, <2>2 DEF IInv, CapacityRespected, FullIsFresh
<1>13. OneDependantAtATime' /\ TargetNotOverrun'
  BY <1>3 DEF IInv, OneDependantAtATime, TargetNotOverrun
<1> QED BY <1>6, <1>7, <1>8, <1>9, <1>10, <1>11, <1>12, <1>13 DEF IInv

LEMMA FinishPreserves ==
    ASSUME IInv, NEW r \in Requests, Finish(r), ~crashed
    PROVE  IInv'
<1> USE DEF Finish
<1>1. need[r] \in Nat /\ blocked[r] \in Nat /\ need[r] + blocked[r] \in Nat
      /\ Slots(r, need[r]) \in Nat /\ Load(r) = Slots(r, need[r])
  BY DEF IInv, TypeOK, Slots, Load
<1>2. r \in Active BY DEF Active
<1>3. \A x \in lot[r] : x \in Requests /\ stage[x] \in {"carried", "done"}
  BY <1>2 DEF IInv, TypeOK, LotsCarried
<1>4. \A x \in Requests : stage'[x] = IF x = r \/ x \in lot[r] THEN "done" ELSE stage[x]
  OBVIOUS
<1>5. \A x \in Requests : blocked'[x] = IF x = r THEN 0 ELSE blocked[x]
  BY DEF IInv, TypeOK
<1>6. Active' = Active \ {r} BY <1>3, <1>4 DEF Active
<1>7. /\ HoldsReserved \in [Requests -> Nat] /\ HoldsRunning \in [Requests -> Nat]
      /\ HoldsSlots \in [Requests -> Nat]
  BY HoldsTypes DEF IInv
<1>8. /\ HoldsReserved' \in [Requests -> Nat] /\ HoldsRunning' \in [Requests -> Nat]
      /\ HoldsSlots' \in [Requests -> Nat]
  <2>1. need' = need OBVIOUS
  <2>2. \A x \in Requests : need'[x] \in Nat /\ blocked'[x] \in Nat
                            /\ need'[x] + blocked'[x] \in Nat
    BY <1>5, <2>1 DEF IInv, TypeOK
  <2>3. \A x \in Requests : Slots(x, need'[x]) \in Nat BY <2>2 DEF Slots
  <2> HIDE DEF Finish
  <2> QED BY <2>2, <2>3 DEF HoldsReserved, HoldsRunning, HoldsSlots
<1>9. Counts(reserved, HoldsReserved)' /\ reserved' \in Nat
  <2>1. HoldsReserved[r] = blocked[r] /\ HoldsReserved'[r] = 0
    BY <1>4 DEF HoldsReserved
  <2>2. \A x \in Requests \ {r} : HoldsReserved'[x] = HoldsReserved[x]
    BY <1>3, <1>4, <1>5 DEF HoldsReserved
  <2>3. /\ Counts(reserved - HoldsReserved[r] + HoldsReserved'[r], HoldsReserved')
        /\ reserved - HoldsReserved[r] + HoldsReserved'[r] \in Nat
    BY <1>7, <1>8, <2>2, CountsChange DEF IInv
  <2>4. reserved' = reserved - HoldsReserved[r] + HoldsReserved'[r]
    BY <1>1, <2>1 DEF IInv, TypeOK
  <2> QED BY <2>3, <2>4 DEF Counts
<1>10. Counts(running, HoldsRunning)' /\ running' \in Nat
  <2>1. HoldsRunning[r] = need[r] /\ HoldsRunning'[r] = 0
    BY <1>4 DEF HoldsRunning
  <2>2. \A x \in Requests \ {r} : HoldsRunning'[x] = HoldsRunning[x]
    BY <1>3, <1>4 DEF HoldsRunning
  <2>3. /\ Counts(running - HoldsRunning[r] + HoldsRunning'[r], HoldsRunning')
        /\ running - HoldsRunning[r] + HoldsRunning'[r] \in Nat
    BY <1>7, <1>8, <2>2, CountsChange DEF IInv
  <2>4. running' = running - HoldsRunning[r] + HoldsRunning'[r]
    BY <1>1, <2>1 DEF IInv, TypeOK
  <2> QED BY <2>3, <2>4 DEF Counts
<1>11. Counts(promised, HoldsSlots)' /\ promised' \in Nat
  <2>1. HoldsSlots[r] = Slots(r, need[r]) /\ HoldsSlots'[r] = 0
    BY <1>2, <1>6 DEF HoldsSlots
  <2>2. \A x \in Requests \ {r} : HoldsSlots'[x] = HoldsSlots[x]
    BY <1>6 DEF HoldsSlots, Slots
  <2>3. /\ Counts(promised - HoldsSlots[r] + HoldsSlots'[r], HoldsSlots')
        /\ promised - HoldsSlots[r] + HoldsSlots'[r] \in Nat
    BY <1>7, <1>8, <2>2, CountsChange DEF IInv
  <2>4. promised' = promised - HoldsSlots[r] + HoldsSlots'[r]
    BY <1>1, <2>1 DEF IInv, TypeOK
  <2> QED BY <2>3, <2>4 DEF Counts
<1>12. TypeOK'
  <2>1. stage' \in [Requests -> Stages] BY DEF IInv, TypeOK, Stages
  <2>2. blocked' \in [Requests -> Nat] BY DEF IInv, TypeOK
  <2>3. filled' \in Nat BY <1>1 DEF IInv, TypeOK
  <2>4. full' \in BOOLEAN /\ bound' \in BOOLEAN BY DEF IInv, TypeOK, IsFull
  <2> QED BY <1>9, <1>10, <1>11, <2>1, <2>2, <2>3, <2>4 DEF IInv, TypeOK
<1>13. ListedQueued'
  <2>1. \A i \in DOMAIN requests : requests[i] \in Requests BY DEF IInv, TypeOK
  <2> QED BY <1>3, <1>4, <2>1 DEF IInv, ListedQueued
<1>14. LotsCarried'
  <2>1. \A y \in Active : \A x \in lot[y] : x \in Requests
    BY DEF IInv, TypeOK, Active
  <2> QED BY <1>4, <1>6, <2>1 DEF IInv, LotsCarried
<1>15. CapacityRespected' /\ FullIsFresh'
  <2>1. running' = running - need[r] /\ reserved' = reserved - blocked[r] OBVIOUS
  <2>2. running \in Int /\ reserved \in Int /\ running + reserved <= Capacity
    BY DEF IInv, TypeOK, CapacityRespected
  <2>3. FreeCapacity' = FreeCapacity + need[r] + blocked[r] /\ CapacityRespected'
    <3> HIDE DEF Finish
    <3> QED BY <1>1, <2>1, <2>2 DEF FreeCapacity, CapacityRespected
  <2>4. full' <=> FreeCapacity + need[r] + blocked[r] <= 0 BY DEF IsFull
  <2>5. FullIsFresh' BY <2>3, <2>4 DEF FullIsFresh
  <2> QED BY <2>3, <2>5
<1>16. OneDependantAtATime'
  <2>1. CASE Kind[r] = "dependency"
    <3>1. {x \in Active : Kind[x] = "dependency"} = {r}
      BY <1>2, <2>1 DEF IInv, OneDependantAtATime
    <3>2. {x \in Active' : Kind[x] = "dependency"} = {} BY <1>6, <3>1
    <3>3. ~bound' BY <2>1 DEF Binds
    <3> QED BY <3>2, <3>3 DEF OneDependantAtATime
  <2>2. CASE Kind[r] # "dependency"
    <3>1. {x \in Active' : Kind[x] = "dependency"} = {x \in Active : Kind[x] = "dependency"}
      BY <1>6, <2>2
    <3>2. bound' = bound BY <2>2 DEF Binds, IInv, TypeOK
    <3> QED BY <3>1, <3>2 DEF IInv, OneDependantAtATime
  <2> QED BY <2>1, <2>2
<1>17. TargetNotOverrun'
  <2>1. filled' = filled + Slots(r, need[r]) /\ promised' = promised - Slots(r, need[r])
    BY <1>1
  <2>2. filled \in Int /\ promised \in Int /\ filled + promised <= TargetSize
    BY DEF IInv, TypeOK, TargetNotOverrun
  <2> HIDE DEF Finish
  <2> QED BY <1>1, <2>1, <2>2 DEF TargetNotOverrun
<1> QED BY <1>9, <1>10, <1>11, <1>12, <1>13, <1>14, <1>15, <1>16, <1>17 DEF IInv

LEMMA NeighbourPreserves ==
    ASSUME IInv, NeighbourTakes \/ NeighbourCompletes
    PROVE  IInv'
<1>1. /\ requests' = requests /\ stage' = stage /\ lot' = lot /\ crashed' = crashed
      /\ UNCHANGED <<full, running, reserved, bound, need, blocked, promised>>
  BY DEF NeighbourTakes, NeighbourCompletes
<1>2. filled' \in Nat /\ filled' <= filled /\ owed' \in BOOLEAN /\ triggered' \in BOOLEAN
  <2>1. filled \in Nat /\ triggered \in BOOLEAN BY DEF IInv, TypeOK
  <2>2. CASE NeighbourTakes
    <3>1. /\ filled > 0 /\ filled' = filled - 1
          /\ owed' = TRUE /\ triggered' = triggered
      BY <2>2 DEF NeighbourTakes
    <3>2. filled' \in Nat /\ filled' <= filled BY <2>1, <3>1
    <3> QED BY <2>1, <3>1, <3>2
  <2>3. CASE NeighbourCompletes
    <3>1. filled' = filled /\ owed' = FALSE /\ triggered' = TRUE
      BY <2>3 DEF NeighbourCompletes
    <3>2. filled' \in Nat /\ filled' <= filled BY <2>1, <3>1
    <3> QED BY <3>1, <3>2
  <2> QED BY <2>2, <2>3
<1>3. TypeOK' BY <1>1, <1>2 DEF IInv, TypeOK
<1>4. ListedQueued' BY <1>1 DEF IInv, ListedQueued
<1>5. LotsCarried' BY <1>1 DEF IInv, LotsCarried, Active
<1>6. filled' + promised' <= TargetSize
  <2>1. filled \in Nat /\ promised \in Nat /\ filled + promised <= TargetSize
    BY DEF IInv, TypeOK, TargetNotOverrun
  <2>2. promised' = promised BY <1>1
  <2>3. filled' \in Nat /\ filled' <= filled BY <1>2
  <2>4. filled' = filled \/ filled' = filled - 1
    BY DEF NeighbourTakes, NeighbourCompletes
  <2>5. filled' + promised' <= filled + promised BY <2>1, <2>2, <2>4
  <2>6. filled' + promised' \in Int /\ filled + promised \in Int /\ TargetSize \in Int
    BY <2>1, <2>2, <2>3
  <2> QED BY <2>1, <2>5, <2>6
<1> QED BY <1>1, <1>3, <1>4, <1>5, <1>6, QuietStep

LEMMA NextPreserves == IInv /\ [Next]_vars => IInv'
<1> SUFFICES ASSUME IInv, [Next]_vars PROVE IInv'
  OBVIOUS
<1>1. CASE UNCHANGED vars
  <2>1. TypeOK' BY <1>1 DEF IInv, TypeOK, vars
  <2>2. ListedQueued' /\ LotsCarried'
    BY <1>1 DEF IInv, ListedQueued, LotsCarried, Active, vars
  <2> QED BY <1>1, <2>1, <2>2, QuietStep DEF IInv, TargetNotOverrun, vars
<1>2. CASE Next
  <2>1. ~crashed BY <1>2 DEF Next
  <2>2. CASE Wake
    <3>1. CASE WakeInVain BY <3>1, WakeInVainPreserves
    <3>2. CASE \E r \in Requests : WakeForIncompleteLot(r)
      BY <3>2, IncompleteLotPreserves
    <3>3. CASE \E r \in Requests : WakeAndStart(r)
      BY <3>3, <2>1, StartRequestPreserves
    <3>4. CASE \E r \in Requests : WakeAndRaise(r)
      BY <3>4, RaisePreserves
    <3> QED BY <2>2, <3>1, <3>2, <3>3, <3>4 DEF Wake
  <2>3. CASE NeighbourTakes \/ NeighbourCompletes
    BY <2>3, NeighbourPreserves
  <2>4. CASE \E r \in Requests : Request(r)
    BY <2>4, RequestPreserves
  <2>5. CASE \E r \in Requests : Handler(r)
    <3>1. PICK r \in Requests : Start(r) \/ Finish(r) BY <2>5 DEF Handler
    <3> QED BY <2>1, <3>1, StartPreserves, FinishPreserves
  <2> QED BY <1>2, <2>2, <2>3, <2>4, <2>5 DEF Next
<1> QED BY <1>1, <1>2

LEMMA Invariance == Spec => []IInv
<1>1. Init => IInv BY InitEstablishes
<1>2. IInv /\ [Next]_vars => IInv' BY NextPreserves
<1> QED BY <1>1, <1>2, PTL DEF Spec

-----------------------------------------------------------------------------
(* The controller's fields keep their types; in particular no counter goes *)
(* below zero, so unreserve_resource_capacity never raises.                *)
THEOREM TypeCorrect == Spec => []TypeOK
<1>1. IInv => TypeOK BY DEF IInv
<1> QED BY <1>1, Invariance, PTL

(* Reserved and running capacity stay within the resource's capacity. *)
THEOREM CapacityIsRespected == Spec => []CapacityRespected
<1>1. IInv => CapacityRespected BY DEF IInv
<1> QED BY <1>1, Invariance, PTL

(* The cached flag full agrees with the free capacity. *)
THEOREM FullStaysFresh == Spec => []FullIsFresh
<1>1. IInv => FullIsFresh BY DEF IInv
<1> QED BY <1>1, Invariance, PTL

(* A resource serves at most one dependant and is bound exactly then. *)
THEOREM OneDependant == Spec => []OneDependantAtATime
<1>1. IInv => OneDependantAtATime BY DEF IInv
<1> QED BY <1>1, Invariance, PTL

(* Items and promised slots fit into the target queue. *)
THEOREM TargetIsNotOverrun == Spec => []TargetNotOverrun
<1>1. IInv => TargetNotOverrun BY DEF IInv
<1> QED BY <1>1, Invariance, PTL

(* Nothing is left reserved, running or bound when no handler is active. *)
THEOREM NothingLeaks == Spec => []IdleMeansFree
<1>1. IInv => IdleMeansFree
  <2> SUFFICES ASSUME IInv, Active = {}
               PROVE  running = 0 /\ reserved = 0 /\ ~bound /\ ~full
    BY DEF IdleMeansFree
  <2>1. \A r \in Requests : stage[r] \notin {"accepted", "running"} BY DEF Active
  <2>2. \A r \in Requests : HoldsReserved[r] = 0 BY <2>1 DEF HoldsReserved
  <2>3. \A r \in Requests : HoldsRunning[r] = 0 BY <2>1 DEF HoldsRunning
  <2>4. HoldsReserved \in [Requests -> Nat] /\ HoldsRunning \in [Requests -> Nat]
    BY HoldsTypes DEF IInv
  <2>5. reserved = 0 BY <2>2, <2>4, NoUnits DEF IInv, Counts
  <2>6. running = 0 BY <2>3, <2>4, NoUnits DEF IInv, Counts
  <2>7. ~bound BY DEF IInv, OneDependantAtATime
  <2>8. FreeCapacity > 0 BY <2>5, <2>6 DEF FreeCapacity
  <2>9. ~full BY <2>8 DEF IInv, FullIsFresh, FreeCapacity, TypeOK
  <2> QED BY <2>5, <2>6, <2>7, <2>9
<1> QED BY <1>1, Invariance, PTL

-----------------------------------------------------------------------------
(* What the loop can start: a request that is queued is in the list until  *)
(* an exception ends the loop, and if a feasible one is in the list some   *)
(* request is selected.                                                    *)
QueuedListed ==
    ~crashed => \A r \in Requests :
        stage[r] = "queued" => \E i \in DOMAIN requests : requests[i] = r

(* Nobody is in the list twice. *)
ListedOnce == Distinct(requests)

LEMMA OrderedHasAll ==
    ASSUME TypeOK, NEW i \in DOMAIN requests
    PROVE  \E j \in DOMAIN Ordered : Ordered[j] = requests[i]
<1>1. requests \in Seq(Requests) BY DEF TypeOK
<1>2. CASE Policy # "LIFO" BY <1>2 DEF Ordered
<1>3. CASE Policy = "LIFO"
  <2>1. Ordered = [k \in 1 .. Len(requests) |-> requests[Len(requests) - k + 1]]
    BY <1>3 DEF Ordered, Reverse
  <2> DEFINE j == Len(requests) - i + 1
  <2>2. i \in 1 .. Len(requests) /\ Len(requests) \in Nat BY <1>1
  <2>3. j \in 1 .. Len(requests) /\ Len(requests) - j + 1 = i BY <2>2
  <2> QED BY <2>1, <2>3
<1> QED BY <1>2, <1>3

LEMMA SomeSelected ==
    ASSUME TypeOK, NEW i \in DOMAIN requests, Feasible(requests[i])
    PROVE  \E r \in Requests : Selected(r)
<1> DEFINE F == {k \in DOMAIN Ordered : Feasible(Ordered[k])}
<1>1. Ordered \in Seq(Requests) BY OrderedFromList
<1>2. DOMAIN Ordered = 1 .. Len(Ordered) /\ Len(Ordered) \in Nat BY <1>1
<1>3. F \subseteq Nat /\ F # {} BY <1>2, OrderedHasAll
<1>4. PICK k \in F : \A j \in F : k <= j
  <2> HIDE DEF F
  <2> QED BY <1>3, LeastNatural
<1>5. k \in DOMAIN Ordered /\ Feasible(Ordered[k]) /\ Ordered[k] \in Requests
  BY <1>1, <1>4
<1>6. ASSUME NEW j \in 1 .. (k - 1) PROVE ~Feasible(Ordered[j])
  <2>1. j \in DOMAIN Ordered /\ j < k BY <1>2, <1>5
  <2> QED BY <1>2, <1>4, <2>1
<1>7. Selected(Ordered[k]) BY <1>5, <1>6 DEF Selected
<1> QED BY <1>5, <1>7

(* Only the requests that are taken out leave the list. *)
LEMMA OthersStay ==
    ASSUME TypeOK, NEW S, NEW j \in DOMAIN requests, requests[j] \notin S
    PROVE  \E i \in DOMAIN Without(requests, S) : Without(requests, S)[i] = requests[j]
<1>1. requests \in Seq(Requests) BY DEF TypeOK
<1> QED BY <1>1, WithoutKeeps

LEMMA QueuedListedStep ==
    ASSUME IInv, QueuedListed, Next
    PROVE  QueuedListed'
<1>1. ~crashed BY DEF Next
<1>2. requests \in Seq(Requests) /\ stage \in [Requests -> Stages]
      /\ lot \in [Requests -> SUBSET Requests]
  BY DEF IInv, TypeOK
<1>3. \A r \in Requests : stage[r] = "queued" => \E i \in DOMAIN requests : requests[i] = r
  BY <1>1 DEF QueuedListed
<1>4. CASE requests' = requests
           /\ \A r \in Requests : stage'[r] = "queued" => stage[r] = "queued"
  BY <1>3, <1>4 DEF QueuedListed
<1>5. ASSUME NEW r \in Requests, Request(r) PROVE QueuedListed'
  <2> SUFFICES ASSUME NEW x \in Requests, stage'[x] = "queued"
               PROVE  \E i \in DOMAIN requests' : requests'[i] = x
    BY DEF QueuedListed
  <2>1. requests' = Append(requests, r) BY <1>5 DEF Request
  <2>2. CASE x = r
    <3>1. Len(requests) + 1 \in DOMAIN requests' /\ requests'[Len(requests) + 1] = r
      BY <1>2, <2>1
    <3> QED BY <2>2, <3>1
  <2>3. CASE x # r
    <3>1. stage[x] = "queued" BY <1>2, <1>5, <2>3 DEF Request
    <3>2. PICK i \in DOMAIN requests : requests[i] = x BY <1>3, <3>1
    <3>3. i \in DOMAIN requests' /\ requests'[i] = requests[i] BY <1>2, <2>1
    <3> QED BY <3>2, <3>3
  <2> QED BY <2>2, <2>3
<1>6. ASSUME NEW r \in Requests, WakeForIncompleteLot(r) PROVE QueuedListed'
  <2> DEFINE rest == Without(requests, {r})
  <2>1. /\ rest \in Seq(Requests)
        /\ \A j \in DOMAIN requests :
              requests[j] # r => \E i \in DOMAIN rest : rest[i] = requests[j]
    <3>1. rest \in Seq(Requests) BY WithoutListed DEF IInv
    <3>2. ASSUME NEW j \in DOMAIN requests, requests[j] # r
          PROVE  \E i \in DOMAIN rest : rest[i] = requests[j]
      <4>1. requests[j] \notin {r} BY <3>2
      <4> QED BY <4>1, OthersStay DEF IInv
    <3> QED BY <3>1, <3>2
  <2>2. requests' = Append(rest, r) /\ stage' = stage
    BY <1>6 DEF WakeForIncompleteLot, ToEnd
  <2> HIDE DEF rest
  <2> SUFFICES ASSUME NEW x \in Requests, stage[x] = "queued"
               PROVE  \E i \in DOMAIN requests' : requests'[i] = x
    BY <2>2 DEF QueuedListed
  <2>3. CASE x = r
    <3>1. Len(rest) + 1 \in DOMAIN requests' /\ requests'[Len(rest) + 1] = r
      BY <2>1, <2>2
    <3> QED BY <2>3, <3>1
  <2>4. CASE x # r
    <3>1. PICK j \in DOMAIN requests : requests[j] = x BY <1>3
    <3>2. PICK i \in DOMAIN rest : rest[i] = x BY <2>1, <2>4, <3>1
    <3>3. i \in DOMAIN requests' /\ requests'[i] = rest[i] BY <2>1, <2>2
    <3> QED BY <3>2, <3>3
  <2> QED BY <2>3, <2>4
<1>7. ASSUME NEW r \in Requests, WakeAndStart(r) PROVE QueuedListed'
  <2> DEFINE S == {r} \union Fill(r)
             rest == Without(requests, S)
  <2>1. \A j \in DOMAIN requests :
           requests[j] \notin S => \E i \in DOMAIN rest : rest[i] = requests[j]
    <3> HIDE DEF S
    <3> QED BY OthersStay, Zenon DEF IInv
  <2>2. requests' = rest BY <1>7 DEF WakeAndStart, WithoutLot
  <2>3. stage' = [x \in Requests |-> IF x = r THEN "accepted"
                                     ELSE IF x \in Fill(r) THEN "carried" ELSE stage[x]]
    BY <1>7 DEF WakeAndStart
  <2>4. \A x \in Requests : stage'[x] = "queued" => x \notin S /\ stage[x] = "queued"
    BY <2>3
  <2> HIDE DEF S, rest
  <2>5. \A x \in Requests :
           stage'[x] = "queued" => \E i \in DOMAIN requests' : requests'[i] = x
    BY <1>3, <2>1, <2>2, <2>4
  <2> QED BY <2>5 DEF QueuedListed
<1>8. ASSUME NEW r \in Requests, WakeAndRaise(r) PROVE QueuedListed'
  BY <1>8 DEF WakeAndRaise, QueuedListed
<1>9. ASSUME NEW r \in Requests, Handler(r)
      PROVE  requests' = requests
             /\ \A x \in Requests : stage'[x] = "queued" => stage[x] = "queued"
  BY <1>2, <1>9 DEF Handler, Start, Finish
<1>10. WakeInVain \/ NeighbourTakes \/ NeighbourCompletes
       => requests' = requests /\ stage' = stage
  BY DEF WakeInVain, NeighbourTakes, NeighbourCompletes
<1> QED BY <1>4, <1>5, <1>6, <1>7, <1>8, <1>9, <1>10 DEF Next, Wake

LEMMA ListedOnceStep ==
    ASSUME IInv, ListedOnce, Next
    PROVE  ListedOnce'
<1>1. requests \in Seq(Requests) /\ ListedQueued BY DEF IInv, TypeOK
<1>2. ASSUME NEW s \in Seq(Requests), Distinct(s), NEW r \in Requests,
             \A i \in DOMAIN s : s[i] # r
      PROVE  Distinct(Append(s, r))
  <2>1. /\ DOMAIN Append(s, r) = 1 .. (Len(s) + 1) /\ Len(s) \in Nat
        /\ DOMAIN s = 1 .. Len(s)
        /\ Append(s, r)[Len(s) + 1] = r
        /\ \A i \in DOMAIN s : Append(s, r)[i] = s[i]
    OBVIOUS
  <2>2. ASSUME NEW i \in DOMAIN Append(s, r), NEW j \in DOMAIN Append(s, r),
               Append(s, r)[i] = Append(s, r)[j]
        PROVE  i = j
    <3>1. \A k \in DOMAIN Append(s, r) : k \in DOMAIN s \/ k = Len(s) + 1 BY <2>1
    <3>2. CASE i \in DOMAIN s /\ j \in DOMAIN s BY <1>2, <2>1, <2>2, <3>2 DEF Distinct
    <3> QED BY <1>2, <2>1, <2>2, <3>1, <3>2
  <2> QED BY <2>2 DEF Distinct
<1>3. ASSUME NEW S PROVE Distinct(Without(requests, S))
  BY <1>1, WithoutProperties, Zenon DEF ListedOnce
<1>4. ASSUME NEW r \in Requests, Request(r) PROVE ListedOnce'
  <2>1. requests' = Append(requests, r) /\ stage[r] = "new" BY <1>4 DEF Request
  <2>2. \A i \in DOMAIN requests : requests[i] # r BY <1>1, <2>1 DEF ListedQueued
  <2> QED BY <1>1, <1>2, <2>1, <2>2 DEF ListedOnce
<1>5. ASSUME NEW r \in Requests, WakeForIncompleteLot(r) PROVE ListedOnce'
  <2> DEFINE rest == Without(requests, {r})
  <2>1. requests' = Append(rest, r) BY <1>5 DEF WakeForIncompleteLot, ToEnd
  <2>2. rest \in Seq(Requests) /\ \A i \in DOMAIN rest : rest[i] \notin {r}
    BY WithoutListed DEF IInv
  <2>3. Distinct(rest) BY <1>3
  <2> HIDE DEF rest
  <2>4. Distinct(Append(rest, r)) BY <1>2, <2>2, <2>3
  <2> QED BY <2>1, <2>4 DEF ListedOnce
<1>6. ASSUME NEW r \in Requests, WakeAndStart(r) \/ WakeAndRaise(r) PROVE ListedOnce'
  <2>1. requests' = Without(requests, {r} \union Fill(r))
    BY <1>6 DEF WakeAndStart, WakeAndRaise, WithoutLot
  <2> QED BY <1>3, <2>1 DEF ListedOnce
<1>7. CASE UNCHANGED requests BY <1>7 DEF ListedOnce
<1>8. ASSUME NEW r \in Requests, Handler(r) PROVE UNCHANGED requests
  BY <1>8 DEF Handler, Start, Finish
<1>9. WakeInVain \/ NeighbourTakes \/ NeighbourCompletes => UNCHANGED requests
  BY DEF WakeInVain, NeighbourTakes, NeighbourCompletes
<1> QED BY <1>4, <1>5, <1>6, <1>7, <1>8, <1>9 DEF Next, Wake

(* The queued requests that could be in a lot with r *)
Companions(r) ==
    {x \in Requests : stage[x] = "queued" /\ x # r /\ Kind[x] = Kind[r] /\ Group[x] = Group[r]}

(* The list has every one of them once. *)
LEMMA CandidatesCounted ==
    ASSUME IInv, QueuedListed, ListedOnce, ~crashed, NEW r \in Requests
    PROVE  Len(LotCandidates(r)) = Cardinality(Companions(r)) /\ Len(LotCandidates(r)) \in Nat
<1> DEFINE Out == {x \in Requests : x = r \/ Kind[x] # Kind[r] \/ Group[x] # Group[r]}
           c == LotCandidates(r)
<1>1. c = Without(Ordered, Out) BY DEF LotCandidates
<1>2. TypeOK /\ ListedQueued /\ requests \in Seq(Requests) BY DEF IInv, TypeOK
<1>3. /\ Ordered \in Seq(Requests)
      /\ \A i \in DOMAIN Ordered : \E j \in DOMAIN requests : requests[j] = Ordered[i]
  BY <1>2, OrderedFromList
<1>4. Distinct(Ordered)
  <2>1. CASE Policy # "LIFO" BY <2>1 DEF Ordered, ListedOnce
  <2>2. CASE Policy = "LIFO"
    <3>1. Ordered = [k \in 1 .. Len(requests) |-> requests[Len(requests) - k + 1]]
      BY <2>2 DEF Ordered, Reverse
    <3>2. Len(requests) \in Nat /\ DOMAIN requests = 1 .. Len(requests) BY <1>2
    <3> SUFFICES ASSUME NEW i \in DOMAIN Ordered, NEW j \in DOMAIN Ordered,
                        Ordered[i] = Ordered[j]
                 PROVE  i = j
      BY DEF Distinct
    <3>3. i \in 1 .. Len(requests) /\ j \in 1 .. Len(requests) BY <3>1
    <3>4. /\ Len(requests) - i + 1 \in DOMAIN requests
          /\ Len(requests) - j + 1 \in DOMAIN requests
          /\ requests[Len(requests) - i + 1] = requests[Len(requests) - j + 1]
      BY <3>1, <3>2, <3>3
    <3>5. Len(requests) - i + 1 = Len(requests) - j + 1 BY <3>4 DEF ListedOnce, Distinct
    <3> QED BY <3>2, <3>3, <3>5
  <2> QED BY <2>1, <2>2
<1>5. /\ c \in Seq(Requests)
      /\ \A j \in DOMAIN Ordered : Ordered[j] \notin Out => \E i \in DOMAIN c : c[i] = Ordered[j]
      /\ \A i \in DOMAIN c : c[i] \notin Out /\ \E j \in DOMAIN Ordered : Ordered[j] = c[i]
      /\ Distinct(c)
  <2> HIDE DEF Out, c
  <2> QED BY <1>1, <1>3, <1>4, WithoutProperties
<1> HIDE DEF c
<1>6. \A i \in DOMAIN c : c[i] \in Companions(r)
  <2> TAKE i \in DOMAIN c
  <2>1. c[i] \in Requests /\ c[i] \notin Out BY <1>5
  <2>2. PICK j \in DOMAIN Ordered : Ordered[j] = c[i] BY <1>5
  <2>3. PICK k \in DOMAIN requests : requests[k] = c[i] BY <1>3, <2>2
  <2> QED BY <1>2, <2>1, <2>3 DEF ListedQueued, Companions
<1>7. \A x \in Companions(r) : \E i \in DOMAIN c : c[i] = x
  <2> TAKE x \in Companions(r)
  <2>1. PICK k \in DOMAIN requests : requests[k] = x BY DEF QueuedListed, Companions
  <2>2. PICK j \in DOMAIN Ordered : Ordered[j] = x BY <1>2, <2>1, OrderedHasAll
  <2>3. x \notin Out BY DEF Companions
  <2> QED BY <1>5, <2>2, <2>3
<1>8. DOMAIN c = 1 .. Len(c) /\ Len(c) \in Nat BY <1>5
<1>9. c \in Bijection(1 .. Len(c), Companions(r))
  <2>1. c \in [1 .. Len(c) -> Companions(r)] BY <1>5, <1>6, <1>8
  <2> QED BY <1>5, <1>7, <1>8, <2>1 DEF Distinct, Bijection, Injection, Surjection, IsInjective
<1>10. ExistsBijection(1 .. Len(c), Companions(r)) BY <1>9 DEF ExistsBijection
<1>11. IsFiniteSet(1 .. Len(c)) /\ Cardinality(1 .. Len(c)) = Len(c)
  BY <1>8, FS_Interval
<1>12. Cardinality(Companions(r)) = Len(c) BY <1>10, <1>11, FS_Bijection
<1> QED BY <1>8, <1>12 DEF c

CountsCompanions ==
    \A r \in Requests : Len(LotCandidates(r)) = Cardinality(Companions(r))

LEMMA CandidatesThen ==
    (IInv /\ QueuedListed /\ ListedOnce /\ ~crashed)' => CountsCompanions'
<1>1. IInv /\ QueuedListed /\ ListedOnce /\ ~crashed => CountsCompanions
  BY CandidatesCounted DEF CountsCompanions
<1> QED BY <1>1, PTL

(* What an incomplete lot lacks does not come by a step that leaves the    *)
(* capacity, the target and the queued requests alone.                     *)
LEMMA StaysIncomplete ==
    ASSUME IInv, QueuedListed, ListedOnce, ~crashed, (IInv /\ QueuedListed /\ ListedOnce /\ ~crashed)',
           FreeCapacity' = FreeCapacity, TargetSpace' = TargetSpace, stage' = stage,
           NEW r \in Requests
    PROVE  LotFeasible(r)' <=> LotFeasible(r)
<1>1. Companions(r)' = Companions(r) BY DEF Companions
<1>2. Len(LotCandidates(r))' = Cardinality(Companions(r))'
  BY CandidatesThen DEF CountsCompanions
<1>3. Len(LotCandidates(r)) = Cardinality(Companions(r)) BY CandidatesCounted
<1> QED BY <1>1, <1>2, <1>3 DEF LotFeasible

LEMMA SleepStep ==
    ASSUME IInv, QueuedListed, ListedOnce, SleepsForLotsOnly, Next, IInv'
    PROVE  SleepsForLotsOnly'
<1>1. ~crashed BY DEF Next
<1>2. QueuedListed' /\ ListedOnce' BY QueuedListedStep, ListedOnceStep
<1> USE DEF SleepsForLotsOnly, Quiet
<1>3. CASE WakeInVain
  <2> SUFFICES ASSUME ~full, ~bound, NEW r \in Requests, stage[r] = "queued", Feasible(r)
               PROVE  FALSE
    BY <1>3 DEF WakeInVain, Feasible, TargetSpace, target
  <2>1. PICK i \in DOMAIN requests : requests[i] = r BY <1>1 DEF QueuedListed
  <2>2. \E x \in Requests : Selected(x) BY <2>1, SomeSelected DEF IInv
  <2> QED BY <1>3, <2>2 DEF WakeInVain
<1>4. ASSUME NEW r \in Requests, WakeForIncompleteLot(r) PROVE SleepsForLotsOnly'
  <2>1. /\ FreeCapacity' = FreeCapacity /\ TargetSpace' = TargetSpace /\ stage' = stage
        /\ ~crashed' /\ ~LotFeasible(r) /\ Selected(r)
    BY <1>1, <1>4 DEF WakeForIncompleteLot, Ready, FreeCapacity, TargetSpace, target
  <2>2. ~LotFeasible(r)' BY <1>1, <1>2, <2>1, StaysIncomplete
  <2>3. stage[r] = "queued" BY <2>1, SelectedQueued DEF IInv
  <2>4. Feasible(r)' BY <2>1 DEF Selected, Feasible
  <2> QED BY <2>1, <2>2, <2>3, <2>4
<1>5. ASSUME NEW r \in Requests, WakeAndStart(r) PROVE SleepsForLotsOnly'
  <2> DEFINE size == Cardinality(Fill(r)) + 1
             block == Blocks(r, FreeCapacity - size)
             rest == WithoutLot(r, Fill(r))
  <2> SUFFICES ASSUME ~triggered', ~full', NEW x \in Requests, stage'[x] = "queued"
               PROVE  FALSE
    OBVIOUS
  <2>1. ~(FreeCapacity - size - block <= 0) /\ ~(FreeCapacity - size > 0 /\ rest # <<>>)
        /\ requests' = rest
    BY <1>5 DEF WakeAndStart, MayStartMore, IsFull
  <2>2. /\ Cardinality(Fill(r)) \in Nat /\ size <= FreeCapacity
        /\ FreeCapacity \in Int
    <3>1. FreeCapacity \in Int /\ FreeCapacity > 0 /\ Selected(r)
      BY <1>5 DEF WakeAndStart, Ready, IInv, FullIsFresh, FreeCapacity, TypeOK
    <3> QED BY <3>1, FillFits DEF IInv
  <2>3. block \in Nat BY <2>2 DEF Blocks
  <2>4. rest = <<>>
    <3> HIDE DEF size, block, rest
    <3>1. size \in Nat BY <2>2 DEF size
    <3> QED BY <2>1, <2>2, <2>3, <3>1
  <2>5. ~crashed' BY <1>1, <1>5 DEF WakeAndStart
  <2>6. \E i \in DOMAIN requests' : requests'[i] = x BY <1>2, <2>5 DEF QueuedListed
  <2>7. DOMAIN requests' = {} BY <2>1, <2>4
  <2> QED BY <2>6, <2>7
<1>6. ASSUME NEW r \in Requests, WakeAndRaise(r) PROVE SleepsForLotsOnly'
  BY <1>6 DEF WakeAndRaise
<1>7. ASSUME NEW r \in Requests, Start(r) PROVE SleepsForLotsOnly'
  <2>1. FreeCapacity' = FreeCapacity
    <3>1. running \in Int /\ reserved \in Int /\ need[r] \in Int BY DEF IInv, TypeOK
    <3>2. running' = running + need[r] /\ reserved' = reserved - need[r] BY <1>7 DEF Start
    <3>3. running' + reserved' = running + reserved BY <3>1, <3>2
    <3> QED BY <3>3 DEF FreeCapacity
  <2>2. /\ UNCHANGED <<triggered, full, bound, owed, crashed, requests>>
        /\ TargetSpace' = TargetSpace
        /\ stage' = [stage EXCEPT ![r] = "running"] /\ stage[r] = "accepted"
    BY <1>7 DEF Start, TargetSpace, target
  <2>3. \A x \in Requests : stage'[x] = "queued" <=> stage[x] = "queued"
    BY <2>2 DEF IInv, TypeOK
  <2>4. \A x \in Requests : (Feasible(x)' <=> Feasible(x)) /\ (LotFeasible(x)' <=> LotFeasible(x))
    BY <2>1, <2>2 DEF Feasible, LotFeasible, LotCandidates, Ordered
  <2> QED BY <2>2, <2>3, <2>4
<1>8. ASSUME NEW r \in Requests, Finish(r) \/ Request(r) PROVE SleepsForLotsOnly'
  BY <1>8 DEF Finish, Request
<1>9. NeighbourTakes \/ NeighbourCompletes => SleepsForLotsOnly'
  BY DEF NeighbourTakes, NeighbourCompletes
<1> QED BY <1>3, <1>4, <1>5, <1>6, <1>7, <1>8, <1>9 DEF Next, Wake, Handler

(* Whatever lots are formed: when the loop sleeps over requests it could   *)
(* start but for their lots, one of them lacks its lot.                    *)
THEOREM LoopSleepsForLotsOnly == Spec => []SleepsForLotsOnly
<1>1. Init => QueuedListed /\ ListedOnce /\ SleepsForLotsOnly
  BY DEF Init, QueuedListed, ListedOnce, Distinct, SleepsForLotsOnly
<1>2. IInv /\ IInv' /\ QueuedListed /\ ListedOnce /\ SleepsForLotsOnly /\ [Next]_vars
      => (QueuedListed /\ ListedOnce /\ SleepsForLotsOnly)'
  <2>1. ASSUME QueuedListed, ListedOnce, SleepsForLotsOnly, UNCHANGED vars
        PROVE  (QueuedListed /\ ListedOnce /\ SleepsForLotsOnly)'
    <3>1. QueuedListed' /\ ListedOnce' BY <2>1 DEF vars, QueuedListed, ListedOnce
    <3>2. Quiet' <=> Quiet BY <2>1 DEF vars, target, Quiet
    <3>3. \A r \in Requests : (Feasible(r)' <=> Feasible(r)) /\ (LotFeasible(r)' <=> LotFeasible(r))
      BY <2>1 DEF vars, target, Feasible, TargetSpace, LotFeasible, FreeCapacity, LotCandidates, Ordered
    <3>4. stage' = stage BY <2>1 DEF vars
    <3>5. SleepsForLotsOnly' BY <2>1, <3>2, <3>3, <3>4 DEF SleepsForLotsOnly
    <3> QED BY <3>1, <3>5
  <2> QED BY <2>1, QueuedListedStep, ListedOnceStep, SleepStep
<1> QED BY <1>1, <1>2, Invariance, PTL DEF Spec

(* No lot has to wait for other loads. *)
LotsNeedNobody == Lotted = {} \/ MinLot = 1

(* A controller whose lots need nobody never sleeps over a request that it *)
(* could start: every event that makes one startable triggers it, or is    *)
(* followed by one that does.                                              *)
THEOREM NobodyIsForgotten ==
    ASSUME LotsNeedNobody
    PROVE  Spec => []NothingForgotten
<1>1. IInv /\ SleepsForLotsOnly => NothingForgotten
  <2> SUFFICES ASSUME IInv, SleepsForLotsOnly, Quiet,
                      NEW x \in Requests, stage[x] = "queued", Feasible(x)
               PROVE  FALSE
    BY DEF NothingForgotten
  <2>1. PICK r \in Requests : stage[r] = "queued" /\ Feasible(r) /\ ~LotFeasible(r)
    BY DEF SleepsForLotsOnly
  <2>2. FreeCapacity \in Int /\ FreeCapacity > 0
    BY DEF Quiet, IInv, FullIsFresh, FreeCapacity, TypeOK
  <2>3. Kind[r] = "transport" => TargetSpace >= 1
    BY <2>1 DEF Feasible, TargetSpace, IInv, TypeOK
  <2>4. Len(LotCandidates(r)) \in Nat
    <3>1. Ordered \in Seq(Requests) BY OrderedFromList DEF IInv
    <3>2. LotCandidates(r) \in Seq(Requests) BY <3>1, WithoutProperties DEF LotCandidates
    <3> QED BY <3>2
  <2> QED BY <2>1, <2>2, <2>3, <2>4 DEF LotsNeedNobody, LotFeasible
<1> QED BY <1>1, LoopSleepsForLotsOnly, Invariance, PTL

-----------------------------------------------------------------------------
(* A resource that does not produce does one thing at a time: a transport  *)
(* fills it and a dependant binds it.                                      *)
NoProduction == \A r \in Requests : Kind[r] # "production"

BusyWithOne ==
    /\ \A r, x \in Active : r = x
    /\ Active # {} => full \/ bound

LEMMA BusyStep ==
    ASSUME NoProduction, IInv, BusyWithOne, [Next]_vars
    PROVE  BusyWithOne'
<1> USE DEF BusyWithOne
<1>1. CASE UNCHANGED <<stage, full, bound>>
  BY <1>1 DEF Active
<1>2. ASSUME NEW r \in Requests, Request(r) PROVE BusyWithOne'
  <2>1. Active' = Active BY <1>2 DEF Request, Active, IInv, TypeOK
  <2> QED BY <1>2, <2>1 DEF Request
<1>3. ASSUME NEW r \in Requests, WakeAndStart(r) PROVE BusyWithOne'
  <2>1. Active = {} BY <1>3 DEF WakeAndStart, Ready
  <2>2. \A x \in Active' : x = r
    BY <1>3, <2>1 DEF WakeAndStart, Active
  <2>3. CASE Kind[r] = "dependency" BY <1>3, <2>2, <2>3 DEF WakeAndStart, Binds
  <2>4. CASE Kind[r] # "dependency"
    <3> DEFINE size == Cardinality(Fill(r)) + 1
    <3>1. Kind[r] = "transport" BY <2>4 DEF NoProduction, Kinds
    <3>2. FreeCapacity \in Int /\ FreeCapacity > 0 /\ Selected(r)
      BY <1>3 DEF WakeAndStart, Ready, IInv, FullIsFresh, FreeCapacity, TypeOK
    <3>3. size \in Nat BY <3>2, FillFits DEF IInv
    <3>4. full' = (FreeCapacity - size - (FreeCapacity - size) <= 0)
      BY <1>3, <3>1 DEF WakeAndStart, Blocks, IsFull
    <3>5. FreeCapacity - size - (FreeCapacity - size) <= 0
      <4> HIDE DEF size
      <4> QED BY <3>2, <3>3
    <3> QED BY <2>2, <3>4, <3>5
  <2> QED BY <2>3, <2>4
<1>4. ASSUME NEW r \in Requests, Start(r) PROVE BusyWithOne'
  <2>1. Active' = Active BY <1>4 DEF Start, Active, IInv, TypeOK
  <2> QED BY <1>4, <2>1 DEF Start
<1>5. ASSUME NEW r \in Requests, Finish(r) PROVE BusyWithOne'
  <2>1. r \in Active BY <1>5 DEF Finish, Active
  <2>2. Active' \subseteq Active \ {r}
    BY <1>5 DEF Finish, Active, IInv, TypeOK
  <2> QED BY <2>1, <2>2
<1>6. WakeInVain \/ NeighbourTakes \/ NeighbourCompletes \/ UNCHANGED vars
      => UNCHANGED <<stage, full, bound>>
  BY DEF WakeInVain, NeighbourTakes, NeighbourCompletes, vars
<1>7. ASSUME NEW r \in Requests, WakeForIncompleteLot(r) \/ WakeAndRaise(r)
      PROVE  UNCHANGED <<stage, full, bound>>
  BY <1>7 DEF WakeForIncompleteLot, WakeAndRaise
<1> QED BY <1>1, <1>2, <1>3, <1>4, <1>5, <1>6, <1>7 DEF Next, Wake, Handler

(* The transports a resource runs at one time have the same route, with    *)
(* lots of any size and on any capacity, if it does not also produce: the  *)
(* first takes its lot along and blocks the rest.                          *)
THEOREM TransportsShareRoute ==
    ASSUME NoProduction
    PROVE  Spec => []ParallelTransportsShareRoute
<1>1. Init => BusyWithOne BY DEF Init, BusyWithOne, Active
<1>2. IInv /\ BusyWithOne /\ [Next]_vars => BusyWithOne' BY BusyStep
<1>3. BusyWithOne => ParallelTransportsShareRoute
  BY DEF BusyWithOne, ParallelTransportsShareRoute
<1> QED BY <1>1, <1>2, <1>3, Invariance, PTL DEF Spec
=============================================================================
