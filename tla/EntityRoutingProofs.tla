------------------------- MODULE EntityRoutingProofs -------------------------
(* Proofs that no two entities are ever spent on one request and, where    *)
(* tools go home, that the pool is honest and no request is forgotten.     *)
EXTENDS EntityRouting, FiniteSetTheorems, WellFoundedInduction, TLAPS

(* Every non-empty set of natural numbers has a least element: the initial *)
(* segments 0 .. x are finite sets, and strict inclusion is well-founded   *)
(* on finite sets.                                                         *)
LEMMA LeastNatural ==
    ASSUME NEW T, T \subseteq Nat, T # {}
    PROVE  \E x \in T : \A y \in T : x <= y
<1> DEFINE F == {0 .. x : x \in T}
<1>1. IsWellFoundedOn(StrictSubsetOrdering(Nat), FiniteSubsetsOf(Nat))
  BY FS_StrictSubsetOrderingWellFounded
<1>2. F \subseteq FiniteSubsetsOf(Nat) /\ F # {}
  <2>1. ASSUME NEW x \in T PROVE 0 .. x \in FiniteSubsetsOf(Nat)
    BY FS_Interval DEF FiniteSubsetsOf
  <2> QED BY <2>1
<1>3. \E m \in F : \A y \in F : <<y, m>> \notin StrictSubsetOrdering(Nat)
  <2> HIDE DEF F
  <2> QED BY <1>1, <1>2, WFMin
<1>4. PICK x \in T : \A y \in T : <<0 .. y, 0 .. x>> \notin StrictSubsetOrdering(Nat)
  BY <1>3
<1>5. ASSUME NEW y \in T, y < x PROVE FALSE
  <2>1. 0 .. y \subseteq 0 .. x /\ 0 .. y # 0 .. x
    <3>1. x \in 0 .. x /\ x \notin 0 .. y BY <1>5
    <3> QED BY <3>1, <1>5
  <2>2. 0 .. y \in SUBSET Nat /\ 0 .. x \in SUBSET Nat OBVIOUS
  <2> HIDE <1>5
  <2> QED BY <2>1, <2>2, <1>4 DEF StrictSubsetOrdering
<1> QED BY <1>5

(* Induction up to n, for a property given as the set of its numbers. *)
LEMMA IntervalInduction ==
    ASSUME NEW n \in Nat, NEW S, 0 \in S, \A i \in 0 .. (n - 1) : i \in S => i + 1 \in S
    PROVE  \A i \in 0 .. n : i \in S
<1> DEFINE B == {i \in 0 .. n : i \notin S}
<1> SUFFICES ASSUME B # {} PROVE FALSE
  OBVIOUS
<1>1. B \subseteq Nat OBVIOUS
<1>2. PICK x \in B : \A y \in B : x <= y
  <2> HIDE DEF B
  <2> QED BY <1>1, LeastNatural
<1>3. x - 1 \in 0 .. (n - 1) BY <1>2
<1>4. x - 1 \in S BY <1>2, <1>3
<1> QED BY <1>2, <1>3, <1>4

(* What is left of a list when the entry at one place is taken out *)
LEMMA RemoveAtLeaves ==
    ASSUME NEW T, NEW s \in Seq(T), NEW i \in DOMAIN s
    PROVE  /\ RemoveAt(s, i) \in Seq(T)
           /\ DOMAIN s = 1 .. Len(s) /\ Len(s) \in Nat
           /\ DOMAIN RemoveAt(s, i) = 1 .. (Len(s) - 1)
           /\ \A j \in DOMAIN RemoveAt(s, i) :
                 RemoveAt(s, i)[j] = IF j < i THEN s[j] ELSE s[j + 1]
<1> DEFINE u == SubSeq(s, 1, i - 1)
           v == SubSeq(s, i + 1, Len(s))
<1>1. i \in 1 .. Len(s) /\ Len(s) \in Nat /\ DOMAIN s = 1 .. Len(s) OBVIOUS
<1>2. u \in Seq(T) /\ Len(u) = i - 1 /\ \A j \in 1 .. (i - 1) : u[j] = s[j] BY <1>1
<1>3. v \in Seq(T) /\ Len(v) = Len(s) - i /\ \A j \in 1 .. (Len(s) - i) : v[j] = s[i + j]
  BY <1>1
<1>4. RemoveAt(s, i) = u \o v BY DEF RemoveAt
<1> HIDE DEF u, v
<1>5. u \o v \in Seq(T) /\ Len(u \o v) = Len(s) - 1
  <2>1. u \in Seq(T) /\ v \in Seq(T) BY <1>2, <1>3
  <2>2. Len(u) = i - 1 /\ Len(v) = Len(s) - i BY <1>2, <1>3
  <2>3. u \o v \in Seq(T) /\ Len(u \o v) = Len(u) + Len(v) BY <2>1
  <2> QED BY <1>1, <2>2, <2>3
<1>6. DOMAIN (u \o v) = 1 .. (Len(s) - 1) BY <1>5
<1>7. ASSUME NEW j \in 1 .. (Len(s) - 1)
      PROVE  (u \o v)[j] = IF j < i THEN s[j] ELSE s[j + 1]
  <2>1. CASE j < i
    <3>1. j \in 1 .. (i - 1) BY <1>1, <2>1
    <3>2. (u \o v)[j] = u[j] BY <1>2, <1>3, <3>1
    <3> QED BY <1>2, <2>1, <3>1, <3>2
  <2>2. CASE ~(j < i)
    <3> DEFINE k == j - i + 1
    <3>1. k \in 1 .. (Len(s) - i) /\ j = Len(u) + k /\ i + k = j + 1
      <4>1. Len(u) = i - 1 BY <1>2
      <4> QED BY <4>1, <1>1, <2>2
    <3>2. k \in 1 .. Len(v)
      <4>1. Len(v) = Len(s) - i BY <1>3
      <4> QED BY <4>1, <3>1
    <3> HIDE DEF k
    <3>3. u \in Seq(T) /\ v \in Seq(T) BY <1>2, <1>3
    <3>4. (u \o v)[Len(u) + k] = v[k] BY <3>2, <3>3
    <3>5. v[k] = s[i + k] BY <1>3, <3>1
    <3> QED BY <2>2, <3>1, <3>4, <3>5
  <2> QED BY <2>1, <2>2
<1>8. \A j \in DOMAIN (u \o v) : (u \o v)[j] = IF j < i THEN s[j] ELSE s[j + 1]
  BY <1>6, <1>7
<1> QED BY <1>1, <1>4, <1>5, <1>6, <1>8

(* If the list names nobody twice, who is taken out is gone. *)
LEMMA RemoveAtDistinct ==
    ASSUME NEW T, NEW s \in Seq(T), NEW i \in DOMAIN s,
           \A k, j \in DOMAIN s : s[k] = s[j] => k = j
    PROVE  /\ RemoveAt(s, i) \in Seq(T)
           /\ \A j \in DOMAIN RemoveAt(s, i) :
                 RemoveAt(s, i)[j] # s[i] /\ \E k \in DOMAIN s : s[k] = RemoveAt(s, i)[j]
           /\ \A k, j \in DOMAIN RemoveAt(s, i) : RemoveAt(s, i)[k] = RemoveAt(s, i)[j] => k = j
<1> DEFINE rest == RemoveAt(s, i)
<1>1. /\ rest \in Seq(T)
      /\ DOMAIN s = 1 .. Len(s) /\ DOMAIN rest = 1 .. (Len(s) - 1) /\ Len(s) \in Nat
      /\ \A j \in DOMAIN rest : rest[j] = IF j < i THEN s[j] ELSE s[j + 1]
  BY RemoveAtLeaves
<1> HIDE DEF rest
<1>2. \A j \in DOMAIN rest : j \in DOMAIN s /\ j + 1 \in DOMAIN s BY <1>1
<1>3. \A j \in DOMAIN rest : rest[j] # s[i] /\ \E k \in DOMAIN s : s[k] = rest[j]
  BY <1>1, <1>2
<1>4. \A k, j \in DOMAIN rest : rest[k] = rest[j] => k = j BY <1>1, <1>2
<1> QED BY <1>1, <1>3, <1>4 DEF rest

(* Demands that have been handed to the request handler. *)
Asked(d) ==
    \/ d[2] = 0 /\ phase[d[1]] # "new"
    \/ 0 < d[2] /\ d[2] < step[d[1]]
    \/ 0 < d[2] /\ d[2] = step[d[1]] /\ phase[d[1]] \notin {"new", "fitting", "moving"}

Typed ==
    /\ phase \in [Products -> Phases] /\ step \in [Products -> Nat]
    /\ pending \in Seq(Demands)
    /\ serves \in [Entities -> Demands \cup {NoDemand}]

(* A product on its way has a process to go to. *)
OnItsWay ==
    \A p \in Products : step[p] <= Len(Steps[p]) /\ (phase[p] = "moving" => 0 < step[p])

(* A demand is pending, or served by one entity, or neither; and neither,  *)
(* as long as it has not been asked for.                                   *)
PendingOrServed ==
    \A e \in Entities : \A i \in DOMAIN pending : serves[e] # pending[i]
AskedFirst ==
    \A d \in Demands : Asked(d)
        \/ ((\A i \in DOMAIN pending : pending[i] # d) /\ (\A e \in Entities : serves[e] # d))

(* No demand is in the list twice. *)
AskedOnce == \A i, j \in DOMAIN pending : pending[i] = pending[j] => i = j

(* The inductive invariant. *)
IInv ==
    Typed /\ OnItsWay /\ PendingOrServed /\ AskedFirst /\ AskedOnce /\ OneEntityPerRequest

(* What a demand is made of, and which are demands. *)
LEMMA DemandShape ==
    /\ \A d \in Demands : d[1] \in Products /\ d[2] \in Nat /\ d # NoDemand
    /\ \A p \in Products : \A k \in 0 .. Len(Steps[p]) : DemandsOf(p, k) \subseteq Demands
    /\ \A p, k : \A d \in DemandsOf(p, k) : d[1] = p /\ d[2] = k
<1>1. \A p, k : \A d \in DemandsOf(p, k) : d[1] = p /\ d[2] = k /\ d # NoDemand
  BY DEF DemandsOf, NoDemand
<1>2. \A p \in Products : \A k \in 0 .. Len(Steps[p]) : DemandsOf(p, k) \subseteq Demands
  BY DEF Demands
<1>3. ASSUME NEW d \in Demands PROVE d[1] \in Products /\ d[2] \in Nat /\ d # NoDemand
  <2>1. PICK p \in Products : \E k \in 0 .. Len(Steps[p]) : d \in DemandsOf(p, k)
    BY DEF Demands
  <2>2. PICK k \in 0 .. Len(Steps[p]) : d \in DemandsOf(p, k) BY <2>1
  <2> QED BY <1>1, <2>2
<1> QED BY <1>1, <1>2, <1>3

(* Asking appends the demands of one process, or of the product, in order. *)
LEMMA AskAppends ==
    ASSUME NEW p \in Products, NEW k \in 0 .. Len(Steps[p]),
           pending \in Seq(Demands), Ask(p, k)
    PROVE  /\ pending' \in Seq(Demands)
           /\ \A i \in DOMAIN pending' :
                 pending'[i] \in DemandsOf(p, k) \/ \E j \in DOMAIN pending : pending'[i] = pending[j]
           /\ AskedOnce /\ (\A i \in DOMAIN pending : pending[i] \notin DemandsOf(p, k))
                 => AskedOnce'
<1> DEFINE list == IF k = 0 THEN Tools[p] ELSE Steps[p][k].parts
<1>1. list \in Seq(Types)
  <2>1. CASE k = 0 BY <2>1, EntitiesAssumption
  <2>2. CASE k # 0
    <3> DEFINE Process == [machine : Machines, parts : Seq(Types)]
    <3>1. Steps[p] \in Seq(Process) BY EntitiesAssumption
    <3>2. Len(Steps[p]) \in Nat /\ DOMAIN Steps[p] = 1 .. Len(Steps[p]) BY <3>1
    <3>3. k \in DOMAIN Steps[p] BY <2>2, <3>2
    <3>4. Steps[p][k] \in Process
      <4> HIDE DEF Process
      <4> QED BY <3>1, <3>3
    <3>5. Steps[p][k].parts \in Seq(Types) BY <3>4
    <3> QED BY <2>2, <3>5
  <2> QED BY <2>1, <2>2
<1>2. DemandsOf(p, k) = {<<p, k, j>> : j \in DOMAIN list} BY DEF DemandsOf
<1>3. InOrder(p, k) = [j \in DOMAIN list |-> <<p, k, j>>] BY DEF InOrder
<1> HIDE DEF list
<1>4. DOMAIN list = 1 .. Len(list) /\ Len(list) \in Nat BY <1>1
<1>5. \A j \in DOMAIN list : InOrder(p, k)[j] \in DemandsOf(p, k) BY <1>2, <1>3
<1>6. InOrder(p, k) \in Seq(DemandsOf(p, k))
  BY <1>3, <1>4, <1>5
<1>7. DemandsOf(p, k) \subseteq Demands BY DemandShape
<1>8. InOrder(p, k) \in Seq(Demands) BY <1>6, <1>7
<1>9. pending' = pending \o InOrder(p, k) BY DEF Ask
<1>10. pending' \in Seq(Demands) BY <1>8, <1>9
<1>11. ASSUME NEW i \in DOMAIN pending'
       PROVE  pending'[i] \in DemandsOf(p, k) \/ \E j \in DOMAIN pending : pending'[i] = pending[j]
  <2>1. CASE i <= Len(pending) BY <1>8, <1>9, <1>10, <2>1
  <2>2. CASE ~(i <= Len(pending))
    <3>1. i - Len(pending) \in DOMAIN InOrder(p, k)
          /\ pending'[i] = InOrder(p, k)[i - Len(pending)]
      BY <1>8, <1>9, <1>10, <2>2
    <3> QED BY <1>6, <3>1
  <2> QED BY <2>1, <2>2
<1>12. ASSUME AskedOnce, \A i \in DOMAIN pending : pending[i] \notin DemandsOf(p, k),
              NEW i \in DOMAIN pending', NEW j \in DOMAIN pending', pending'[i] = pending'[j]
       PROVE  i = j
  <2> DEFINE new == InOrder(p, k)
  <2>1. new \in Seq(Demands) /\ pending' = pending \o new BY <1>8, <1>9
  <2>2. \A l \in DOMAIN new : new[l] \in DemandsOf(p, k) BY <1>6
  <2>3. \A l, m \in DOMAIN new : new[l] = new[m] => l = m BY <1>3
  <2> HIDE DEF new
  <2>4. \A l \in DOMAIN pending' :
           /\ l \in Nat
           /\ \/ l \in DOMAIN pending /\ pending'[l] = pending[l]
              \/ l > Len(pending) /\ l - Len(pending) \in DOMAIN new
                 /\ pending'[l] = new[l - Len(pending)]
    BY <2>1
  <2>5. CASE i \in DOMAIN pending /\ j \in DOMAIN pending BY <1>12, <2>1, <2>5 DEF AskedOnce
  <2>6. CASE i \in DOMAIN pending /\ j \notin DOMAIN pending BY <1>12, <2>1, <2>2, <2>4, <2>6
  <2>7. CASE i \notin DOMAIN pending /\ j \in DOMAIN pending BY <1>12, <2>1, <2>2, <2>4, <2>7
  <2>8. CASE i \notin DOMAIN pending /\ j \notin DOMAIN pending
    <3>1. i - Len(pending) = j - Len(pending) BY <1>12, <2>3, <2>4, <2>8
    <3>2. i \in Nat /\ j \in Nat /\ Len(pending) \in Nat BY <2>4
    <3> QED BY <3>1, <3>2
  <2> QED BY <2>5, <2>6, <2>7, <2>8
<1> QED BY <1>10, <1>11, <1>12 DEF AskedOnce

(* A step that asks for nothing and deals nothing. *)
LEMMA QuietStep ==
    ASSUME IInv, UNCHANGED <<pending, serves>>,
           phase' \in [Products -> Phases], step' \in [Products -> Nat], OnItsWay',
           \A d \in Demands : Asked(d) => Asked(d)'
    PROVE  IInv'
  BY DEF IInv, Typed, PendingOrServed, AskedFirst, AskedOnce, OneEntityPerRequest

(* A step that asks for what nobody has asked for yet. *)
LEMMA AskingStep ==
    ASSUME IInv, NEW p \in Products, NEW k \in 0 .. Len(Steps[p]), Ask(p, k),
           UNCHANGED serves,
           phase' \in [Products -> Phases], step' \in [Products -> Nat], OnItsWay',
           \A d \in Demands : Asked(d) => Asked(d)',
           \A d \in DemandsOf(p, k) : ~Asked(d) /\ Asked(d)'
    PROVE  IInv'
<1>1. /\ pending' \in Seq(Demands)
      /\ \A i \in DOMAIN pending' :
            pending'[i] \in DemandsOf(p, k) \/ \E j \in DOMAIN pending : pending'[i] = pending[j]
  BY AskAppends DEF IInv, Typed
<1>2. DemandsOf(p, k) \subseteq Demands BY DemandShape
<1>6. AskedOnce'
  <2>1. \A i \in DOMAIN pending : pending[i] \notin DemandsOf(p, k)
    BY <1>2 DEF IInv, Typed, AskedFirst
  <2> QED BY <2>1, AskAppends DEF IInv, Typed
<1>3. \A d \in DemandsOf(p, k) : \A e \in Entities : serves[e] # d
  BY <1>2 DEF IInv, AskedFirst
<1>4. PendingOrServed' BY <1>1, <1>3 DEF IInv, PendingOrServed
<1>5. AskedFirst' BY <1>1 DEF IInv, AskedFirst
<1> QED BY <1>1, <1>4, <1>5, <1>6 DEF IInv, Typed, OneEntityPerRequest

(* Dealing takes a demand off the list and gives it to one entity. *)
LEMMA DealKeeps ==
    ASSUME IInv, NEW e \in Entities, Deal(e)
    PROVE  IInv'
<1>1. PICK i \in DOMAIN pending :
         /\ pending' = RemoveAt(pending, i)
         /\ serves' = [serves EXCEPT ![e] = pending[i]]
  BY DEF Deal
<1>2. UNCHANGED <<phase, step>> BY DEF Deal, products
<1> DEFINE d == pending[i]
<1>3. pending \in Seq(Demands) /\ d \in Demands BY DEF IInv, Typed
<1>4. /\ pending' \in Seq(Demands) /\ AskedOnce'
      /\ \A j \in DOMAIN pending' : pending'[j] # d /\ \E l \in DOMAIN pending : pending[l] = pending'[j]
  <2>1. /\ pending' \in Seq(Demands)
        /\ \A j \in DOMAIN pending' :
              pending'[j] # pending[i] /\ \E l \in DOMAIN pending : pending[l] = pending'[j]
        /\ \A l, j \in DOMAIN pending' : pending'[l] = pending'[j] => l = j
    <3>1. \A l, j \in DOMAIN pending : pending[l] = pending[j] => l = j BY DEF IInv, AskedOnce
    <3> QED BY <1>1, <1>3, <3>1, RemoveAtDistinct
  <2> QED BY <2>1 DEF AskedOnce
<1>5. \A f \in Entities : serves[f] # d BY DEF IInv, PendingOrServed
<1>6. \A f \in Entities : serves'[f] = IF f = e THEN d ELSE serves[f]
  BY <1>1 DEF IInv, Typed
<1>7. Asked(d) BY <1>3 DEF IInv, AskedFirst
<1>8. \A x : Asked(x)' <=> Asked(x) BY <1>2 DEF Asked
<1>9. Typed'
  <2>1. serves' \in [Entities -> Demands \cup {NoDemand}] BY <1>1, <1>3 DEF IInv, Typed
  <2> QED BY <1>2, <1>4, <2>1 DEF IInv, Typed
<1> HIDE DEF d
<1>10. PendingOrServed' BY <1>4, <1>6 DEF IInv, PendingOrServed
<1>11. AskedFirst' BY <1>4, <1>6, <1>7, <1>8 DEF IInv, AskedFirst
<1>12. OneEntityPerRequest' BY <1>5, <1>6 DEF IInv, OneEntityPerRequest
<1>13. OnItsWay' BY <1>2 DEF IInv, OnItsWay
<1> QED BY <1>4, <1>9, <1>10, <1>11, <1>12, <1>13 DEF IInv

(* Releasing an entity leaves its demand to nobody. *)
LEMMA ReleaseKeeps ==
    ASSUME IInv, NEW e \in Entities, Release(e)
    PROVE  IInv'
<1>1. serves' = [serves EXCEPT ![e] = NoDemand] /\ UNCHANGED <<phase, step, pending>>
  BY DEF Release, products
<1>2. \A f \in Entities : serves'[f] = IF f = e THEN NoDemand ELSE serves[f]
  BY <1>1 DEF IInv, Typed
<1>3. \A x : Asked(x)' <=> Asked(x) BY <1>1 DEF Asked
<1>4. \A d \in Demands : d # NoDemand BY DemandShape
<1>5. \A i \in DOMAIN pending : pending[i] # NoDemand BY <1>4 DEF IInv, Typed
<1>6. Typed' BY <1>1 DEF IInv, Typed
<1>7. PendingOrServed' BY <1>1, <1>2, <1>5 DEF IInv, PendingOrServed
<1>8. AskedFirst' BY <1>1, <1>2, <1>3, <1>4 DEF IInv, AskedFirst
<1>9. OneEntityPerRequest' BY <1>2 DEF IInv, OneEntityPerRequest
<1>10. OnItsWay' BY <1>1 DEF IInv, OnItsWay
<1>11. AskedOnce' BY <1>1 DEF IInv, AskedOnce
<1> QED BY <1>6, <1>7, <1>8, <1>9, <1>10, <1>11 DEF IInv

(* A product that only changes its phase, after it has asked for all that  *)
(* its place in the process model calls for.                               *)
Later(p, from, to) ==
    /\ phase[p] = from /\ phase' = [phase EXCEPT ![p] = to] /\ UNCHANGED step

(* Such a change keeps the invariant. *)
LEMMA PhaseChange ==
    ASSUME IInv, NEW p \in Products, NEW from, NEW to \in Phases \ {"new", "fitting", "moving"},
           Later(p, from, to), UNCHANGED <<pending, serves>>
    PROVE  IInv'
<1>1. phase' \in [Products -> Phases] /\ step' \in [Products -> Nat]
  BY DEF IInv, Typed, Later
<1>2. \A q \in Products : phase'[q] = IF q = p THEN to ELSE phase[q]
  BY DEF IInv, Typed, Later
<1>3. UNCHANGED step BY DEF Later
<1>4. OnItsWay' BY <1>2, <1>3 DEF IInv, OnItsWay
<1>5. \A d \in Demands : Asked(d) => Asked(d)'
  BY <1>2, <1>3, DemandShape DEF Asked
<1> QED BY <1>1, <1>4, <1>5, QuietStep

(* A product asks for its tools once, when it is new. *)
LEMMA CreateKeeps == ASSUME IInv, NEW p \in Products, Create(p) PROVE IInv'
<1>1. phase[p] = "new" /\ phase' = [phase EXCEPT ![p] = "fitting"] /\ Ask(p, 0)
      /\ UNCHANGED <<step, serves>>
  BY DEF Create
<1>2. phase' \in [Products -> Phases] BY <1>1 DEF IInv, Typed, Phases
<1>3. \A q \in Products : phase'[q] = IF q = p THEN "fitting" ELSE phase[q]
  BY <1>1 DEF IInv, Typed
<1>4. OnItsWay' BY <1>1, <1>3 DEF IInv, OnItsWay
<1>5. \A d \in Demands : Asked(d) => Asked(d)'
  BY <1>1, <1>3, DemandShape DEF Asked
<1>6. \A d \in DemandsOf(p, 0) : ~Asked(d) /\ Asked(d)'
  BY <1>1, <1>3, DemandShape DEF Asked
<1>7. 0 \in 0 .. Len(Steps[p]) /\ step' \in [Products -> Nat]
  <2>1. Steps[p] \in Seq([machine : Machines, parts : Seq(Types)]) BY EntitiesAssumption
  <2> QED BY <1>1, <2>1 DEF IInv, Typed
<1> QED BY <1>1, <1>2, <1>4, <1>5, <1>6, <1>7, AskingStep

(* It asks for the parts of a process once, when a machine starts on it. *)
LEMMA StartKeeps == ASSUME IInv, NEW p \in Products, Start(p) PROVE IInv'
<1>1. phase[p] = "moving" /\ phase' = [phase EXCEPT ![p] = "kitting"] /\ Ask(p, step[p])
      /\ UNCHANGED <<step, serves>>
  BY DEF Start
<1>2. phase' \in [Products -> Phases] /\ step' \in [Products -> Nat] BY <1>1 DEF IInv, Typed, Phases
<1>3. \A q \in Products : phase'[q] = IF q = p THEN "kitting" ELSE phase[q]
  BY <1>1 DEF IInv, Typed
<1>4. OnItsWay' BY <1>1, <1>3 DEF IInv, OnItsWay
<1>5. \A d \in Demands : Asked(d) => Asked(d)'
  BY <1>1, <1>3, DemandShape DEF Asked
<1>6. step[p] \in 0 .. Len(Steps[p]) /\ 0 < step[p]
  <2>1. Steps[p] \in Seq([machine : Machines, parts : Seq(Types)]) BY EntitiesAssumption
  <2> QED BY <1>1, <2>1 DEF IInv, Typed, OnItsWay
<1>7. \A d \in DemandsOf(p, step[p]) : ~Asked(d) /\ Asked(d)'
  BY <1>1, <1>3, <1>6, DemandShape DEF Asked
<1> QED BY <1>1, <1>2, <1>4, <1>5, <1>6, <1>7, AskingStep

(* Going on to the next process asks for nothing yet. *)
LEMMA ProceedKeeps == ASSUME IInv, NEW p \in Products, Proceed(p) PROVE IInv'
<1>1. phase[p] \in {"made", "fitting"} /\ UNCHANGED <<pending, serves>>
  BY DEF Proceed, requests
<1>2. CASE step[p] < Len(Steps[p])
  <2>1. step' = [step EXCEPT ![p] = @ + 1] /\ phase' = [phase EXCEPT ![p] = "moving"]
    BY <1>2 DEF Proceed
  <2>2. phase' \in [Products -> Phases] /\ step' \in [Products -> Nat]
    BY <2>1 DEF IInv, Typed, Phases
  <2>3. \A q \in Products : /\ phase'[q] = IF q = p THEN "moving" ELSE phase[q]
                            /\ step'[q] = IF q = p THEN step[q] + 1 ELSE step[q]
    BY <2>1 DEF IInv, Typed
  <2>4. step[p] \in Nat /\ Len(Steps[p]) \in Nat
    BY EntitiesAssumption DEF IInv, Typed
  <2>5. OnItsWay' BY <1>2, <2>3, <2>4 DEF IInv, OnItsWay
  <2>6. \A d \in Demands : Asked(d) => Asked(d)'
    BY <2>3, <2>4, DemandShape DEF Asked
  <2> QED BY <1>1, <2>2, <2>5, <2>6, QuietStep
<1>3. CASE ~(step[p] < Len(Steps[p]))
  <2>1. Later(p, phase[p], "leaving") BY <1>3 DEF Proceed, Later
  <2> QED BY <1>1, <2>1, PhaseChange DEF Phases
<1> QED BY <1>2, <1>3

(* Nothing is asked for in the beginning. *)
LEMMA Initially == Init => IInv
<1> SUFFICES ASSUME Init PROVE IInv OBVIOUS
<1>1. pending = <<>> /\ pending \in Seq(Demands) BY DEF Init
<1>2. \A e \in Entities : serves[e] = NoDemand BY DEF Init
<1>3. Typed BY <1>1 DEF Init, Typed, Phases
<1>4. OnItsWay BY EntitiesAssumption DEF Init, OnItsWay
<1>5. PendingOrServed BY <1>1 DEF PendingOrServed
<1>6. AskedFirst BY <1>1, <1>2, DemandShape DEF AskedFirst
<1>7. OneEntityPerRequest BY <1>2 DEF OneEntityPerRequest
<1>8. AskedOnce BY <1>1 DEF AskedOnce
<1> QED BY <1>3, <1>4, <1>5, <1>6, <1>7, <1>8 DEF IInv

(* Every step keeps the invariant. *)
LEMMA Inductive == IInv /\ [Next]_vars => IInv'
<1> SUFFICES ASSUME IInv, [Next]_vars PROVE IInv' OBVIOUS
<1>1. ASSUME UNCHANGED <<phase, step, pending, serves>> PROVE IInv'
  BY <1>1 DEF IInv, Typed, OnItsWay, PendingOrServed, AskedFirst, Asked, AskedOnce,
              OneEntityPerRequest
<1>2. CASE UNCHANGED vars BY <1>1, <1>2 DEF vars
<1>3. CASE \E e \in Entities : Deal(e) BY <1>3, DealKeeps
<1>4. CASE Rest BY <1>1, <1>4 DEF Rest, products, requests
<1>5. CASE Wake BY <1>1, <1>5 DEF Wake, products, requests
<1>6. ASSUME NEW p \in Products,
             Create(p) \/ Proceed(p) \/ Start(p) \/ Take(p) \/ Finish(p) \/ Leave(p) \/ Register(p)
      PROVE  IInv'
  <2>1. CASE Create(p) BY <2>1, CreateKeeps
  <2>2. CASE Proceed(p) BY <2>2, ProceedKeeps
  <2>3. CASE Start(p) BY <2>3, StartKeeps
  <2>4. CASE Take(p)
    <3>1. Later(p, "kitting", "working") /\ UNCHANGED <<pending, serves>>
      BY <2>4 DEF Take, Later, requests
    <3> QED BY <3>1, PhaseChange DEF Phases
  <2>5. CASE Finish(p)
    <3>1. Later(p, "working", "made") /\ UNCHANGED <<pending, serves>>
      BY <2>5 DEF Finish, Later, requests
    <3> QED BY <3>1, PhaseChange DEF Phases
  <2>6. CASE Leave(p)
    <3>1. Later(p, "leaving", "done") /\ UNCHANGED <<pending, serves>>
      BY <2>6 DEF Leave, Later, requests
    <3> QED BY <3>1, PhaseChange DEF Phases
  <2>7. CASE Register(p)
    <3>1. Later(p, "done", "gone") /\ UNCHANGED <<pending, serves>>
      BY <2>7 DEF Register, Later
    <3> QED BY <3>1, PhaseChange DEF Phases
  <2> QED BY <1>6, <2>1, <2>2, <2>3, <2>4, <2>5, <2>6, <2>7
<1>7. ASSUME NEW e \in Entities,
             \/ Promise(e) \/ Load(e) \/ Unload(e)
             \/ Bind(e) \/ Deliver(e) \/ Spend(e) \/ TakeBack(e) \/ Release(e)
      PROVE  IInv'
  <2>1. CASE Promise(e) BY <1>1, <2>1 DEF Promise, products, requests
  <2>2. CASE Load(e) BY <1>1, <2>2 DEF Load, products, requests
  <2>3. CASE Unload(e) BY <1>1, <2>3 DEF Unload, products, requests
  <2>4. CASE Bind(e) BY <1>1, <2>4 DEF Bind, products
  <2>5. CASE Deliver(e) BY <1>1, <2>5 DEF Deliver, products
  <2>6. CASE Spend(e) BY <1>1, <2>6 DEF Spend, products
  <2>7. CASE TakeBack(e) BY <1>1, <2>7 DEF TakeBack, products
  <2>8. CASE Release(e) BY <2>8, ReleaseKeeps
  <2> QED BY <1>7, <2>1, <2>2, <2>3, <2>4, <2>5, <2>6, <2>7, <2>8
<1> QED BY <1>2, <1>3, <1>4, <1>5, <1>6, <1>7 DEF Next, Loop, Other

(* Whatever is made of what, however many products and entities there are  *)
(* and in whatever order they come: a request never gets two entities.     *)
THEOREM NoEntityTwice == Spec => []OneEntityPerRequest
<1>1. IInv => OneEntityPerRequest BY DEF IInv
<1> QED BY <1>1, Initially, Inductive, PTL DEF Spec

-----------------------------------------------------------------------------
(* A product that carries tools is not a part of others, and leaves by     *)
(* another queue than it came by: its tools are found where it ended.      *)
ToolsGoHome ==
    \A p \in Products : Tools[p] # <<>> => ~Consumable(p) /\ Source[p] # Sink[p]

(* An entity, and a product that has ended, where nobody moves it. *)
Resting(e) == goal[e] = Nowhere /\ loc[e] \in Ports /\ e \in at[loc[e]]
AtSink(p) == goal[p] = Nowhere /\ loc[p] = Sink[p] /\ p \in at[Sink[p]]

(* Who is dealt serves a request of its type; a request that is complete   *)
(* was asked for and is served; a product that went on has all its tools.  *)
Served ==
    /\ \A e \in Entities :
          /\ task[e] = "idle" <=> serves[e] = NoDemand
          /\ serves[e] # NoDemand => TypeOf[e] = TypeNeeded(serves[e])
          /\ serves[e] \in got => task[e] \in {"serving", "going", "spent"}
          /\ task[e] = "going" =>
                e \notin Products /\ IsTool(serves[e]) /\ Released(serves[e])
    /\ \A d \in got : Asked(d) /\ \A i \in DOMAIN pending : pending[i] # d
    /\ \A p \in Products : phase[p] \notin {"new", "fitting"} => DemandsOf(p, 0) \subseteq got

(* The free entities: unbound, at rest and there once; a product among     *)
(* them is finished.                                                       *)
Free ==
    /\ \A i \in DOMAIN pool :
          /\ task[pool[i]] = "idle" /\ Resting(pool[i])
          /\ pool[i] \in Products => phase[pool[i]] = "gone" /\ Consumable(pool[i])
    /\ \A i, j \in DOMAIN pool : pool[i] = pool[j] => i = j

(* Where a product is that is not anybody's tool or part. *)
InProgress ==
    \A p \in Products :
        /\ phase[p] # "gone" \/ ~Consumable(p) => task[p] = "idle"
        /\ phase[p] \in {"new", "fitting"} => goal[p] = Nowhere
        /\ phase[p] = "fitting" => loc[p] = Source[p]
        /\ phase[p] = "leaving" => goal[p] = Sink[p] \/ AtSink(p)
        /\ phase[p] \in {"done", "gone"} /\ task[p] = "idle" => AtSink(p)
        /\ phase[p] \in {"moving", "kitting", "working"} => 0 < step[p]

(* The tools of a product that has ended stay listed at its sink, though   *)
(* the vehicle takes them out of its source.                               *)
ToolsKept ==
    \A e \in Entities :
        /\ loc[e] = Vehicle => goal[e] # Nowhere
        /\ task[e] = "serving" => goal[e] = Nowhere
        /\ task[e] = "going" /\ goal[e] # Nowhere =>
              loc[e] \in {Source[ItemOf(serves[e])], Vehicle}
        /\ task[e] \in {"serving", "going"} /\ IsTool(serves[e]) /\ Released(serves[e]) =>
              e \in at[Sink[ItemOf(serves[e])]]

(* A loop that sleeps has nobody for any request. *)
NoneToDeal ==
    ~signalled /\ ~dealing =>
        \A i \in DOMAIN pending, k \in DOMAIN pool : TypeOf[pool[k]] # TypeNeeded(pending[i])

(* What is inductive besides, where tools go home. *)
Accounted == TypeOK /\ Served /\ Free /\ InProgress /\ ToolsKept /\ NoneToDeal

(* The places there are. *)
LEMMA PlacesKnown ==
    /\ \A p \in Products : Source[p] \in Ports /\ Sink[p] \in Ports
    /\ \A m \in Machines : /\ Input[m] \in Ports /\ Output[m] \in Ports
                           /\ m \in Places /\ m \notin Ports /\ m # Vehicle
    /\ Stores \subseteq Ports /\ Ports \subseteq Places
    /\ Vehicle \in Places \ Ports /\ Nowhere \in Places \ Ports /\ Vehicle # Nowhere
BY PlacesAssumption DEF Ports, Places, Vehicle, Nowhere

(* A product that has begun a process has a machine. *)
LEMMA MachineKnown ==
    ASSUME TypeOK, NEW p \in Products, 0 < step[p]
    PROVE  Machine(p) \in Machines
<1> DEFINE Process == [machine : Machines, parts : Seq(Types)]
<1>1. Steps[p] \in Seq(Process) BY EntitiesAssumption
<1>2. step[p] \in Nat /\ step[p] <= Len(Steps[p]) /\ 0 < step[p] BY DEF TypeOK
<1>3. step[p] \in DOMAIN Steps[p]
  <2> HIDE DEF Process
  <2> QED BY <1>1, <1>2
<1>4. Steps[p][step[p]] \in Process
  <2> HIDE DEF Process
  <2> QED BY <1>1, <1>3
<1> QED BY <1>4 DEF Machine

(* The demand of a tool belongs to its product, which has tools. *)
LEMMA ToolDemand ==
    ASSUME NEW d \in Demands, IsTool(d)
    PROVE  /\ ItemOf(d) \in Products /\ d \in DemandsOf(ItemOf(d), 0)
           /\ Tools[ItemOf(d)] # <<>> /\ TypeNeeded(d) \in ItemsOf(Tools[ItemOf(d)])
<1>1. PICK p \in Products : \E k \in 0 .. Len(Steps[p]) : d \in DemandsOf(p, k)
  BY DEF Demands
<1>2. PICK k \in 0 .. Len(Steps[p]) : d \in DemandsOf(p, k) BY <1>1
<1>3. d[1] = p /\ d[2] = k BY <1>2, DemandShape
<1>4. k = 0 BY <1>3 DEF IsTool
<1>5. PICK j \in DOMAIN Tools[p] : d = <<p, 0, j>> BY <1>2, <1>4 DEF DemandsOf
<1>6. d[3] = j BY <1>5
<1>7. Tools[p] \in Seq(Types) BY EntitiesAssumption
<1>8. Tools[p] # <<>> BY <1>7
<1>9. TypeNeeded(d) = Tools[p][j] BY <1>3, <1>4, <1>6 DEF TypeNeeded, IsTool
<1> QED BY <1>2, <1>3, <1>4, <1>8, <1>9 DEF ItemOf, ItemsOf

(* One step of the recursion that defines where an entity is. *)
Where(f, n) ==
    IF n = 0 THEN loc
    ELSE [e \in Entities |-> IF Bound(e) THEN f[n - 1][ItemOf(serves[e])] ELSE loc[e]]

(* The recursion has a solution on every initial segment. *)
LEMMA WhereExists ==
    ASSUME NEW n \in Nat
    PROVE  \E f : f = [i \in 0 .. n |-> Where(f, i)]
<1> DEFINE Good == {m \in 0 .. n : \E f : f = [i \in 0 .. m |-> Where(f, i)]}
<1>1. 0 \in Good
  <2> DEFINE f == [i \in 0 .. 0 |-> loc]
  <2>1. f = [i \in 0 .. 0 |-> Where(f, i)] BY DEF Where
  <2> QED BY <2>1
<1>2. ASSUME NEW m \in 0 .. (n - 1), m \in Good PROVE m + 1 \in Good
  <2>1. PICK f : f = [i \in 0 .. m |-> Where(f, i)] BY <1>2
  <2> DEFINE h == [i \in 0 .. (m + 1) |-> IF i <= m THEN f[i] ELSE Where(f, i)]
  <2>2. ASSUME NEW i \in 0 .. (m + 1) PROVE h[i] = Where(h, i)
    <3>1. CASE i = 0
      <4>1. f[0] = Where(f, 0) BY <2>1
      <4> QED BY <4>1, <3>1 DEF Where
    <3>2. CASE i # 0
      <4>1. i - 1 \in 0 .. m /\ h[i - 1] = f[i - 1] BY <3>2
      <4>2. Where(h, i) = Where(f, i)
        <5> HIDE DEF h
        <5> QED BY <4>1 DEF Where
      <4>3. i <= m => f[i] = Where(f, i)
        <5>1. i <= m => i \in 0 .. m OBVIOUS
        <5> QED BY <5>1, <2>1
      <4> QED BY <4>2, <4>3
    <3> QED BY <3>1, <3>2
  <2>3. h = [i \in 0 .. (m + 1) |-> Where(h, i)]
    <3> HIDE DEF h
    <3>1. h = [i \in 0 .. (m + 1) |-> h[i]] BY DEF h
    <3> QED BY <3>1, <2>2
  <2>4. m + 1 \in 0 .. n OBVIOUS
  <2> HIDE DEF h
  <2> QED BY <2>3, <2>4
<1>3. n \in Good
  <2> HIDE DEF Good
  <2> QED BY <1>1, <1>2, IntervalInduction
<1> QED BY <1>3

(* The location of an unbound entity is its own. *)
LEMMA OwnLocation ==
    ASSUME NEW e \in Entities, ~Bound(e)
    PROVE  CurrentLocatable[Cardinality(Products)][e] = loc[e]
<1> DEFINE N == Cardinality(Products)
<1>1. N \in Nat BY EntitiesAssumption, FS_CardinalityType
<1>2. \E f : f = [i \in 0 .. N |-> Where(f, i)]
  <2> HIDE DEF N
  <2> QED BY <1>1, WhereExists
<1>3. CurrentLocatable = [i \in 0 .. N |-> Where(CurrentLocatable, i)]
  BY <1>2 DEF CurrentLocatable, Where
<1>4. CurrentLocatable[N] = Where(CurrentLocatable, N)
  <2> HIDE DEF N
  <2> QED BY <1>1, <1>3
<1> QED BY <1>4 DEF Where

(* Rest of the loop, and its awakening, touch nothing but the signals. *)
LEMMA SignalsHonest ==
    ASSUME Accounted, Wake \/ Rest
    PROVE  Accounted'
<1>1. UNCHANGED <<products, places, requests>> BY DEF Wake, Rest
<1>2. signalled' \in BOOLEAN /\ dealing' \in BOOLEAN
  BY DEF Wake, Rest, Accounted, TypeOK
<1>3. TypeOK' BY <1>1, <1>2 DEF Accounted, TypeOK, products, places, requests
<1>4. Served'
  BY <1>1 DEF Accounted, Served, Asked, Released, products, places, requests
<1>5. Free' BY <1>1 DEF Accounted, Free, Resting, products, places, requests
<1>6. InProgress' BY <1>1 DEF Accounted, InProgress, AtSink, products, places, requests
<1>7. ToolsKept' BY <1>1 DEF Accounted, ToolsKept, Released, products, places, requests
<1>8. NoneToDeal'
  <2>1. CASE Wake BY <2>1 DEF NoneToDeal, Wake
  <2>2. CASE Rest
    <3>1. \A i \in DOMAIN pending : \A e \in ItemsOf(pool) : ~Option(e, pending[i])
      BY <2>2 DEF Rest, HasOption
    <3>2. \A k \in DOMAIN pool : pool[k] \in ItemsOf(pool) BY DEF ItemsOf
    <3>3. \A k \in DOMAIN pool : Routable(pool[k])
      BY DEF Accounted, Free, Resting, Routable, Bound
    <3>4. \A i \in DOMAIN pending, k \in DOMAIN pool : TypeOf[pool[k]] # TypeNeeded(pending[i])
      BY <3>1, <3>2, <3>3 DEF Option
    <3> QED BY <1>1, <3>4 DEF NoneToDeal, requests
  <2> QED BY <2>1, <2>2
<1> QED BY <1>3, <1>4, <1>5, <1>6, <1>7, <1>8 DEF Accounted

(* Requests that are added are unknown to those who have been dealt. *)
LEMMA AskedStep ==
    ASSUME IInv, Accounted, NEW p \in Products, NEW k \in 0 .. Len(Steps[p]), Ask(p, k),
           UNCHANGED <<pool, dealing, serves, task, got, step>>,
           NEW from, NEW to \in Phases \ {"done", "gone"},
           Later(p, from, to), from \notin {"done", "gone", "made", "leaving"},
           k = 0 => to = "fitting", k # 0 => from \notin {"new", "fitting"},
           \A d \in Demands : Asked(d) => Asked(d)',
           \A d \in DemandsOf(p, k) : ~Asked(d)
    PROVE  pending' \in Seq(Demands) /\ signalled' \in BOOLEAN /\ Served' /\ NoneToDeal'
<1>1. /\ pending' \in Seq(Demands)
      /\ \A i \in DOMAIN pending' :
            pending'[i] \in DemandsOf(p, k) \/ \E j \in DOMAIN pending : pending'[i] = pending[j]
  BY AskAppends DEF IInv, Typed
<1>2. signalled' \in BOOLEAN BY DEF Ask, Accounted, TypeOK
<1>3. \A q \in Products : phase'[q] = IF q = p THEN to ELSE phase[q]
  BY DEF Later, Accounted, TypeOK
<1>4. phase[p] = from BY DEF Later
<1>5. \A d \in Demands : Released(d) => Released(d)'
  BY <1>3, <1>4, DemandShape DEF Released, ItemOf
<1>6. Served'
  <2>1. \A e \in Entities :
          /\ task'[e] = "idle" <=> serves'[e] = NoDemand
          /\ serves'[e] # NoDemand => TypeOf[e] = TypeNeeded(serves'[e])
          /\ serves'[e] \in got' => task'[e] \in {"serving", "going", "spent"}
          /\ task'[e] = "going" =>
                e \notin Products /\ IsTool(serves'[e]) /\ Released(serves[e])'
    BY <1>5 DEF Accounted, Served, TypeOK
  <2>2. \A d \in got' : Asked(d)' /\ \A i \in DOMAIN pending' : pending'[i] # d
    BY <1>1 DEF Accounted, Served, TypeOK
  <2>3. \A q \in Products : phase'[q] \notin {"new", "fitting"} => DemandsOf(q, 0) \subseteq got'
    BY <1>3, <1>4 DEF Accounted, Served
  <2> QED BY <2>1, <2>2, <2>3 DEF Served
<1>7. NoneToDeal'
  <2>1. CASE DemandsOf(p, k) = {}
    <3>1. signalled' = signalled BY <2>1 DEF Ask, Accounted, TypeOK
    <3>2. \A i \in DOMAIN pending' : \E j \in DOMAIN pending : pending'[i] = pending[j]
      BY <1>1, <2>1
    <3> QED BY <3>1, <3>2 DEF Accounted, NoneToDeal
  <2>2. CASE DemandsOf(p, k) # {} BY <2>2 DEF Ask, NoneToDeal
  <2> QED BY <2>1, <2>2
<1> QED BY <1>1, <1>2, <1>6, <1>7

(* A product enters by its source. *)
LEMMA CreateHonest ==
    ASSUME IInv, Accounted, NEW p \in Products, Create(p)
    PROVE  Accounted'
<1>1. /\ phase[p] = "new" /\ phase' = [phase EXCEPT ![p] = "fitting"] /\ Ask(p, 0)
      /\ loc' = [loc EXCEPT ![p] = Source[p]]
      /\ at' = [at EXCEPT ![Source[p]] = @ \cup {p}]
      /\ UNCHANGED <<step, busy, goal, promised, dealing, pool, serves, task, got>>
  BY DEF Create
<1>2. p \in Entities /\ Source[p] \in Ports /\ Source[p] \in Places /\ Source[p] # Vehicle
  BY PlacesKnown DEF Entities
<1>3. \A q \in Products : phase'[q] = IF q = p THEN "fitting" ELSE phase[q]
  BY <1>1 DEF Accounted, TypeOK
<1>4. \A e \in Entities : loc'[e] = IF e = p THEN Source[p] ELSE loc[e]
  BY <1>1 DEF Accounted, TypeOK
<1>5. \A q \in Ports : at[q] \subseteq at'[q]
  BY <1>1, <1>2 DEF Accounted, TypeOK
<1>6. \A d \in Demands : Asked(d) => Asked(d)'
  BY <1>1, <1>3, DemandShape DEF Asked
<1>7. \A d \in DemandsOf(p, 0) : ~Asked(d)
  BY <1>1, DemandShape DEF Asked
<1>8. 0 \in 0 .. Len(Steps[p])
  <2>1. Steps[p] \in Seq([machine : Machines, parts : Seq(Types)]) BY EntitiesAssumption
  <2> QED BY <2>1
<1>9. Later(p, "new", "fitting") BY <1>1 DEF Later
<1>10. pending' \in Seq(Demands) /\ signalled' \in BOOLEAN /\ Served' /\ NoneToDeal'
  BY <1>1, <1>6, <1>7, <1>8, <1>9, AskedStep DEF Phases
<1>11. TypeOK'
  <2>1. phase' \in [Products -> Phases] BY <1>1 DEF Accounted, TypeOK, Phases
  <2>2. loc' \in [Entities -> Places] BY <1>1, <1>2 DEF Accounted, TypeOK
  <2>3. at' \in [Ports -> SUBSET Entities] BY <1>1, <1>2 DEF Accounted, TypeOK
  <2> QED BY <1>1, <1>10, <2>1, <2>2, <2>3 DEF Accounted, TypeOK
<1>12. Free'
  BY <1>1, <1>3, <1>4, <1>5 DEF Accounted, Free, Resting, TypeOK
<1>13. InProgress'
  BY <1>1, <1>2, <1>3, <1>4, <1>5, PlacesKnown DEF Accounted, InProgress, AtSink, Entities
<1>14. ToolsKept'
  <2>1. task[p] = "idle" BY <1>1 DEF Accounted, InProgress
  <2>2. \A d : Released(d)' => Released(d)
    BY <1>1, <1>3 DEF Released, ItemOf
  <2> QED BY <1>1, <1>2, <1>4, <1>5, <2>1, <2>2, PlacesKnown DEF Accounted, ToolsKept
<1> QED BY <1>10, <1>11, <1>12, <1>13, <1>14 DEF Accounted

(* A product that goes on takes nothing back from those who serve it. *)
LEMMA ProductServed ==
    ASSUME IInv, Accounted, NEW p \in Products, UNCHANGED <<pending, serves, task, got>>,
           \A q \in Products \ {p} : phase'[q] = phase[q],
           phase[p] \in {"done", "gone"} => phase'[p] \in {"done", "gone"},
           \A d \in Demands : Asked(d) => Asked(d)',
           phase'[p] # "fitting" => DemandsOf(p, 0) \subseteq got
    PROVE  Served'
<1>1. \A d \in Demands : IsTool(d) /\ Released(d) => Released(d)'
  <2>1. ASSUME NEW d \in Demands, IsTool(d), Released(d) PROVE Released(d)'
    <3>1. d[1] \in Products BY DemandShape
    <3> QED BY <2>1, <3>1 DEF Released, ItemOf, IsTool
  <2> QED BY <2>1
<1>2. \A e \in Entities :
          /\ task'[e] = "idle" <=> serves'[e] = NoDemand
          /\ serves'[e] # NoDemand => TypeOf[e] = TypeNeeded(serves'[e])
          /\ serves'[e] \in got' => task'[e] \in {"serving", "going", "spent"}
          /\ task'[e] = "going" =>
                e \notin Products /\ IsTool(serves'[e]) /\ Released(serves[e])'
  BY <1>1 DEF Accounted, Served, TypeOK
<1>3. \A d \in got' : Asked(d)' /\ \A i \in DOMAIN pending' : pending'[i] # d
  BY DEF Accounted, Served, TypeOK
<1>4. \A q \in Products : phase'[q] \notin {"new", "fitting"} => DemandsOf(q, 0) \subseteq got'
  BY DEF Accounted, Served
<1> QED BY <1>2, <1>3, <1>4 DEF Served

(* A product goes on to its next machine, or to its sink. *)
LEMMA ProceedHonest ==
    ASSUME IInv, Accounted, NEW p \in Products, Proceed(p)
    PROVE  Accounted'
<1>1. /\ UNCHANGED <<busy, loc, at, promised, pool, pending, serves, task, got,
                     signalled, dealing>>
      /\ phase[p] \in {"made", "fitting"}
      /\ phase[p] = "fitting" => DemandsOf(p, 0) \subseteq got
  BY DEF Proceed, requests, signals, Kitted
<1>2. step[p] \in Nat /\ Len(Steps[p]) \in Nat /\ step[p] <= Len(Steps[p])
  BY EntitiesAssumption DEF Accounted, TypeOK
<1>3. PICK to \in {"moving", "leaving"}, n \in {step[p], step[p] + 1}, t \in Ports :
         /\ phase' = [phase EXCEPT ![p] = to] /\ step' = [step EXCEPT ![p] = n]
         /\ goal' = [goal EXCEPT ![p] = t]
         /\ n <= Len(Steps[p]) /\ (to = "moving" => n = step[p] + 1)
         /\ to = "leaving" => t = Sink[p]
  <2>1. CASE step[p] < Len(Steps[p])
    <3>1. /\ step' = [step EXCEPT ![p] = step[p] + 1]
          /\ phase' = [phase EXCEPT ![p] = "moving"]
          /\ goal' = [goal EXCEPT ![p] = Input[Steps[p][step[p] + 1].machine]]
      BY <2>1 DEF Proceed
    <3>2. Steps[p][step[p] + 1].machine \in Machines
      <4> DEFINE Process == [machine : Machines, parts : Seq(Types)]
      <4>1. Steps[p] \in Seq(Process) BY EntitiesAssumption
      <4>2. Steps[p][step[p] + 1] \in Process
        <5> HIDE DEF Process
        <5> QED BY <4>1, <1>2, <2>1
      <4> QED BY <4>2
    <3>3. Input[Steps[p][step[p] + 1].machine] \in Ports BY <3>2, PlacesKnown
    <3>4. step[p] + 1 <= Len(Steps[p]) BY <1>2, <2>1
    <3> QED BY <3>1, <3>3, <3>4
  <2>2. CASE ~(step[p] < Len(Steps[p]))
    <3>1. /\ UNCHANGED step /\ phase' = [phase EXCEPT ![p] = "leaving"]
          /\ goal' = [goal EXCEPT ![p] = Sink[p]]
      BY <2>2 DEF Proceed
    <3>2. step' = [step EXCEPT ![p] = step[p]] BY <3>1 DEF Accounted, TypeOK
    <3>3. Sink[p] \in Ports BY PlacesKnown
    <3> QED BY <3>1, <3>2, <3>3, <1>2
  <2> QED BY <2>1, <2>2
<1>4. p \in Entities BY DEF Entities
<1>5. \A q \in Products : /\ phase'[q] = IF q = p THEN to ELSE phase[q]
                          /\ step'[q] = IF q = p THEN n ELSE step[q]
  BY <1>3 DEF Accounted, TypeOK
<1>6. \A e \in Entities : goal'[e] = IF e = p THEN t ELSE goal[e]
  BY <1>3 DEF Accounted, TypeOK
<1>7. \A d \in Demands : Asked(d) => Asked(d)'
  BY <1>1, <1>2, <1>3, <1>5, DemandShape DEF Asked
<1>8. DemandsOf(p, 0) \subseteq got BY <1>1 DEF Accounted, Served
<1>9. Served'
  BY <1>1, <1>3, <1>5, <1>7, <1>8, ProductServed
<1>10. TypeOK'
  <2>1. phase' \in [Products -> Phases] /\ step' \in [Products -> Nat]
    BY <1>2, <1>3 DEF Accounted, TypeOK, Phases
  <2>2. \A q \in Products : step'[q] <= Len(Steps[q]) BY <1>3, <1>5 DEF Accounted, TypeOK
  <2>3. goal' \in [Entities -> Ports \cup {Nowhere}] BY <1>3 DEF Accounted, TypeOK
  <2> QED BY <1>1, <2>1, <2>2, <2>3 DEF Accounted, TypeOK
<1>11. Free' BY <1>1, <1>4, <1>5, <1>6 DEF Accounted, Free, Resting, TypeOK
<1>12. InProgress'
  BY <1>1, <1>2, <1>3, <1>4, <1>5, <1>6 DEF Accounted, InProgress, AtSink
<1>13. task[p] = "idle" /\ serves[p] = NoDemand
  BY <1>1, <1>4 DEF Accounted, InProgress, Served
<1>14. ASSUME NEW e \in Entities, task[e] \in {"serving", "going"}, IsTool(serves[e]),
              Released(serves[e])'
       PROVE  Released(serves[e])
  <2>1. serves[e] \in Demands /\ serves[e][1] \in Products
    BY <1>14, DemandShape DEF Accounted, Served, TypeOK
  <2> QED BY <1>1, <1>3, <1>5, <1>14, <2>1 DEF Released, ItemOf, IsTool
<1>15. ToolsKept'
  BY <1>1, <1>3, <1>6, <1>13, <1>14, PlacesKnown DEF Accounted, ToolsKept
<1>16. NoneToDeal' BY <1>1 DEF Accounted, NoneToDeal
<1> QED BY <1>9, <1>10, <1>11, <1>12, <1>15, <1>16 DEF Accounted

(* A machine starts on a product. *)
LEMMA StartHonest ==
    ASSUME IInv, Accounted, NEW p \in Products, Start(p)
    PROVE  Accounted'
<1>1. /\ phase[p] = "moving" /\ phase' = [phase EXCEPT ![p] = "kitting"]
      /\ Ask(p, step[p]) /\ busy' = [busy EXCEPT ![Machine(p)] = {p}]
      /\ UNCHANGED <<step, loc, at, goal, promised, dealing, pool, serves, task, got>>
  BY DEF Start, places
<1>2. \A q \in Products : phase'[q] = IF q = p THEN "kitting" ELSE phase[q]
  BY <1>1 DEF Accounted, TypeOK
<1>3. \A d \in Demands : Asked(d) => Asked(d)'
  BY <1>1, <1>2, DemandShape DEF Asked
<1>4. step[p] \in 0 .. Len(Steps[p]) /\ 0 < step[p]
  <2>1. Steps[p] \in Seq([machine : Machines, parts : Seq(Types)]) BY EntitiesAssumption
  <2> QED BY <1>1, <2>1 DEF Accounted, TypeOK, InProgress
<1>5. \A d \in DemandsOf(p, step[p]) : ~Asked(d)
  BY <1>1, <1>4, DemandShape DEF Asked
<1>6. Later(p, "moving", "kitting") BY <1>1 DEF Later
<1>7. pending' \in Seq(Demands) /\ signalled' \in BOOLEAN /\ Served' /\ NoneToDeal'
  BY <1>1, <1>3, <1>4, <1>5, <1>6, AskedStep DEF Phases
<1>8. TypeOK'
  <2>1. phase' \in [Products -> Phases] BY <1>1 DEF Accounted, TypeOK, Phases
  <2>2. busy' \in [Machines -> SUBSET Products] BY <1>1 DEF Accounted, TypeOK
  <2> QED BY <1>1, <1>7, <2>1, <2>2 DEF Accounted, TypeOK
<1>9. Free' BY <1>1, <1>2 DEF Accounted, Free, Resting
<1>10. InProgress' BY <1>1, <1>2 DEF Accounted, InProgress, AtSink
<1>11. ASSUME NEW e \in Entities, task[e] \in {"serving", "going"}, IsTool(serves[e]),
              Released(serves[e])'
       PROVE  Released(serves[e])
  <2>1. serves[e] \in Demands /\ serves[e][1] \in Products
    BY <1>11, DemandShape DEF Accounted, Served, TypeOK
  <2> QED BY <1>1, <1>2, <1>11, <2>1 DEF Released, ItemOf, IsTool
<1>12. ToolsKept' BY <1>1, <1>11 DEF Accounted, ToolsKept
<1> QED BY <1>7, <1>8, <1>9, <1>10, <1>12 DEF Accounted

(* A tool's product has ended only if it ends in this step. *)
LEMMA NotYetReleased ==
    ASSUME IInv, Accounted, NEW p \in Products, NEW to \in Phases \ {"done", "gone"},
           phase' = [phase EXCEPT ![p] = to], serves' = serves,
           NEW e \in Entities, serves[e] # NoDemand, IsTool(serves[e]), Released(serves[e])'
    PROVE  Released(serves[e]) /\ ItemOf(serves[e]) # p
<1>1. serves[e] \in Demands /\ serves[e][1] \in Products
  BY DemandShape DEF Accounted, TypeOK
<1>2. \A q \in Products : phase'[q] = IF q = p THEN to ELSE phase[q]
  BY DEF Accounted, TypeOK
<1> QED BY <1>1, <1>2 DEF Released, ItemOf, IsTool

(* A machine takes a product and its parts; nobody free is among them. *)
LEMMA TakeHonest ==
    ASSUME IInv, Accounted, NEW p \in Products, Take(p)
    PROVE  Accounted'
<1> DEFINE taken == {e \in DependedEntities(p) : TypeOf[e] \in Parts(p)} \cup {p}
<1>1. /\ phase[p] = "kitting" /\ phase' = [phase EXCEPT ![p] = "working"]
      /\ at' = [at EXCEPT ![loc[p]] = @ \ taken]
      /\ loc' = [e \in Entities |-> IF e \in taken THEN Machine(p) ELSE loc[e]]
      /\ UNCHANGED <<step, busy, goal, promised, pool, pending, serves, task, got,
                     signalled, dealing>>
  BY DEF Take, requests, signals
<1>2. p \in Entities /\ 0 < step[p] BY <1>1 DEF Entities, Accounted, InProgress
<1>3. Machine(p) \in Machines /\ Machine(p) \in Places /\ Machine(p) # Vehicle
  BY <1>2, MachineKnown, PlacesKnown DEF Accounted
<1>4. \A e \in Entities : e \in taken => e = p \/ (Bound(e) /\ ItemOf(serves[e]) = p)
  BY DEF DependedEntities
<1> HIDE DEF taken
<1>5. \A q \in Products : phase'[q] = IF q = p THEN "working" ELSE phase[q]
  BY <1>1 DEF Accounted, TypeOK
<1>6. \A q \in Ports : \A e \in Entities : e \in at[q] /\ e \notin taken => e \in at'[q]
  BY <1>1 DEF Accounted, TypeOK
<1>7. \A e \in Entities : loc'[e] = IF e \in taken THEN Machine(p) ELSE loc[e] BY <1>1
<1>8. \A d \in Demands : Asked(d) => Asked(d)'
  BY <1>1, <1>5, DemandShape DEF Asked
<1>9. DemandsOf(p, 0) \subseteq got BY <1>1 DEF Accounted, Served
<1>10. Served' BY <1>1, <1>5, <1>8, <1>9, ProductServed
<1>11. TypeOK'
  <2>1. phase' \in [Products -> Phases] BY <1>1 DEF Accounted, TypeOK, Phases
  <2>2. loc' \in [Entities -> Places] BY <1>1, <1>3 DEF Accounted, TypeOK
  <2>3. at' \in [Ports -> SUBSET Entities] BY <1>1 DEF Accounted, TypeOK
  <2> QED BY <1>1, <2>1, <2>2, <2>3 DEF Accounted, TypeOK
<1>12. \A e \in Entities : task[e] = "idle" /\ e # p => e \notin taken
  BY <1>4 DEF Bound
<1>13. Free'
  <2>1. \A i \in DOMAIN pool : pool[i] \in Entities /\ pool[i] # p
    BY <1>1 DEF Accounted, TypeOK, Free
  <2> QED BY <1>1, <1>5, <1>6, <1>7, <1>12, <2>1 DEF Accounted, Free, Resting
<1>14. InProgress'
  <2>1. ASSUME NEW q \in Products, q # p, task[q] = "idle"
        PROVE  loc'[q] = loc[q] /\ (AtSink(q) => AtSink(q)')
    BY <1>1, <1>6, <1>7, <1>12, <2>1, PlacesKnown DEF AtSink, Entities
  <2> QED BY <1>1, <1>2, <1>5, <2>1 DEF Accounted, InProgress
<1>15. ToolsKept'
  <2>1. ASSUME NEW e \in Entities, serves[e] # NoDemand, IsTool(serves[e]), Released(serves[e])',
               task[e] # "idle"
        PROVE  Released(serves[e]) /\ e \notin taken /\ ItemOf(serves[e]) \in Products
    <3>1. Released(serves[e]) /\ ItemOf(serves[e]) # p
      BY <1>1, <2>1, NotYetReleased DEF Phases
    <3>2. task[p] = "idle" BY <1>1 DEF Accounted, InProgress
    <3>3. ItemOf(serves[e]) \in Products
      BY <2>1, DemandShape DEF Accounted, TypeOK, ItemOf
    <3> QED BY <1>4, <2>1, <3>1, <3>2, <3>3
  <2>2. ASSUME NEW e \in Entities, task[e] = "going"
        PROVE  serves[e] # NoDemand /\ IsTool(serves[e]) /\ Released(serves[e])
    BY <2>2 DEF Accounted, Served
  <2>3. \A e \in Entities : task[e] = "going" => e \notin taken
    <3>1. ASSUME NEW e \in Entities, task[e] = "going", e \in taken PROVE FALSE
      <4>1. ItemOf(serves[e]) = p
        BY <1>1, <1>4, <3>1 DEF Accounted, InProgress
      <4> QED BY <1>1, <2>2, <3>1, <4>1 DEF Released
    <3> QED BY <3>1
  <2>4. \A e \in Entities : task[e] = "serving" => serves[e] # NoDemand
    BY DEF Accounted, Served
  <2>5. ASSUME NEW e \in Entities
        PROVE  /\ loc'[e] = Vehicle => goal'[e] # Nowhere
               /\ task'[e] = "serving" => goal'[e] = Nowhere
               /\ task'[e] = "going" /\ goal'[e] # Nowhere =>
                     loc'[e] \in {Source[ItemOf(serves'[e])], Vehicle}
    BY <1>1, <1>3, <1>7, <2>3 DEF Accounted, ToolsKept
  <2>6. ASSUME NEW e \in Entities, task'[e] \in {"serving", "going"}, IsTool(serves'[e]),
               Released(serves[e])'
        PROVE  e \in at'[Sink[ItemOf(serves'[e])]]
    BY <1>1, <1>6, <2>1, <2>2, <2>4, <2>6, PlacesKnown DEF Accounted, ToolsKept
  <2> QED BY <2>5, <2>6 DEF ToolsKept
<1>16. NoneToDeal' BY <1>1 DEF Accounted, NoneToDeal
<1> QED BY <1>10, <1>11, <1>13, <1>14, <1>15, <1>16 DEF Accounted

(* The machine is done; the product leaves at its output port. *)
LEMMA FinishHonest ==
    ASSUME IInv, Accounted, NEW p \in Products, Finish(p)
    PROVE  Accounted'
<1> DEFINE out == Output[Machine(p)]
<1>1. /\ phase[p] = "working" /\ phase' = [phase EXCEPT ![p] = "made"]
      /\ at' = [at EXCEPT ![out] = @ \cup {p}] /\ loc' = [loc EXCEPT ![p] = out]
      /\ busy' = [busy EXCEPT ![Machine(p)] = {}]
      /\ UNCHANGED <<step, goal, promised, pool, pending, serves, task, got,
                     signalled, dealing>>
  BY DEF Finish, requests, signals
<1>2. p \in Entities /\ 0 < step[p] BY <1>1 DEF Entities, Accounted, InProgress
<1>3. out \in Ports /\ out \in Places /\ out # Vehicle
  BY <1>2, MachineKnown, PlacesKnown DEF Accounted
<1> HIDE DEF out
<1>4. \A q \in Products : phase'[q] = IF q = p THEN "made" ELSE phase[q]
  BY <1>1 DEF Accounted, TypeOK
<1>5. \A e \in Entities : loc'[e] = IF e = p THEN out ELSE loc[e]
  BY <1>1 DEF Accounted, TypeOK
<1>6. \A q \in Ports : at[q] \subseteq at'[q] BY <1>1 DEF Accounted, TypeOK
<1>7. \A d \in Demands : Asked(d) => Asked(d)'
  BY <1>1, <1>4, DemandShape DEF Asked
<1>8. DemandsOf(p, 0) \subseteq got BY <1>1 DEF Accounted, Served
<1>9. Served' BY <1>1, <1>4, <1>7, <1>8, ProductServed
<1>10. TypeOK'
  <2>1. phase' \in [Products -> Phases] BY <1>1 DEF Accounted, TypeOK, Phases
  <2>2. loc' \in [Entities -> Places] BY <1>1, <1>3 DEF Accounted, TypeOK
  <2>3. at' \in [Ports -> SUBSET Entities] BY <1>1, <1>2 DEF Accounted, TypeOK
  <2>4. busy' \in [Machines -> SUBSET Products] BY <1>1 DEF Accounted, TypeOK
  <2> QED BY <1>1, <2>1, <2>2, <2>3, <2>4 DEF Accounted, TypeOK
<1>11. Free' BY <1>1, <1>4, <1>5, <1>6 DEF Accounted, Free, Resting, TypeOK
<1>12. InProgress'
  BY <1>1, <1>2, <1>4, <1>5, <1>6, PlacesKnown DEF Accounted, InProgress, AtSink, Entities
<1>13. task[p] = "idle" BY <1>1 DEF Accounted, InProgress
<1>14. ASSUME NEW e \in Entities, task[e] \in {"serving", "going"}, IsTool(serves[e]),
              Released(serves[e])'
       PROVE  Released(serves[e]) /\ ItemOf(serves[e]) \in Products
  <2>1. serves[e] # NoDemand BY <1>14 DEF Accounted, Served
  <2>2. ItemOf(serves[e]) \in Products BY <2>1, DemandShape DEF Accounted, TypeOK, ItemOf
  <2> QED BY <1>1, <1>14, <2>1, <2>2, NotYetReleased DEF Phases
<1>15. ToolsKept'
  BY <1>1, <1>2, <1>3, <1>5, <1>6, <1>13, <1>14, PlacesKnown DEF Accounted, ToolsKept
<1>16. NoneToDeal' BY <1>1 DEF Accounted, NoneToDeal
<1> QED BY <1>9, <1>10, <1>11, <1>12, <1>15, <1>16 DEF Accounted

(* The tools of a product that leaves are put into the queue of its sink. *)
LEMMA LeaveHonest ==
    ASSUME IInv, Accounted, NEW p \in Products, Leave(p)
    PROVE  Accounted'
<1> DEFINE tools == {e \in DependedEntities(p) : TypeOf[e] \in ItemsOf(Tools[p])}
<1>1. /\ phase[p] = "leaving" /\ goal[p] = Nowhere
      /\ phase' = [phase EXCEPT ![p] = "done"]
      /\ loc' = [e \in Entities |-> IF e \in tools THEN loc[p] ELSE loc[e]]
      /\ at' = [at EXCEPT ![loc[p]] = @ \cup tools]
      /\ UNCHANGED <<step, busy, goal, promised, pool, pending, serves, task, got,
                     signalled, dealing>>
  BY DEF Leave, requests, signals
<1>2. p \in Entities /\ task[p] = "idle" /\ AtSink(p) /\ loc[p] \in Ports /\ loc[p] \in Places
      /\ loc[p] # Vehicle
  BY <1>1, PlacesKnown DEF Entities, Accounted, InProgress, AtSink
<1>3. \A e \in Entities :
         e \in tools <=> Bound(e) /\ ItemOf(serves[e]) = p /\ TypeOf[e] \in ItemsOf(Tools[p])
  BY DEF DependedEntities
<1>4. tools \subseteq Entities BY DEF DependedEntities
<1> HIDE DEF tools
<1>5. \A q \in Products : phase'[q] = IF q = p THEN "done" ELSE phase[q]
  BY <1>1 DEF Accounted, TypeOK
<1>6. \A e \in Entities : loc'[e] = IF e \in tools THEN loc[p] ELSE loc[e] BY <1>1
<1>7. /\ \A q \in Ports : at[q] \subseteq at'[q]
      /\ tools \subseteq at'[Sink[p]]
  BY <1>1, <1>2, PlacesKnown DEF Accounted, TypeOK, AtSink
<1>8. \A d \in Demands : Asked(d) => Asked(d)'
  BY <1>1, <1>5, DemandShape DEF Asked
<1>9. DemandsOf(p, 0) \subseteq got BY <1>1 DEF Accounted, Served
<1>10. Served' BY <1>1, <1>5, <1>8, <1>9, ProductServed
<1>11. TypeOK'
  <2>1. phase' \in [Products -> Phases] BY <1>1 DEF Accounted, TypeOK, Phases
  <2>2. loc' \in [Entities -> Places] BY <1>1, <1>2 DEF Accounted, TypeOK
  <2>3. at' \in [Ports -> SUBSET Entities] BY <1>1, <1>4 DEF Accounted, TypeOK
  <2> QED BY <1>1, <2>1, <2>2, <2>3 DEF Accounted, TypeOK
<1>12. \A e \in Entities : task[e] = "idle" => e \notin tools
  BY <1>3 DEF Bound
<1>13. Free'
  <2>1. \A i \in DOMAIN pool : pool[i] \in Entities /\ pool[i] # p
    BY <1>1 DEF Accounted, TypeOK, Free
  <2> QED BY <1>1, <1>5, <1>6, <1>7, <1>12, <2>1 DEF Accounted, Free, Resting
<1>14. InProgress'
  <2>1. ASSUME NEW q \in Products, task[q] = "idle"
        PROVE  loc'[q] = loc[q] /\ (AtSink(q) => AtSink(q)')
    BY <1>1, <1>6, <1>7, <1>12, <2>1, PlacesKnown DEF AtSink, Entities
  <2> QED BY <1>1, <1>2, <1>5, <2>1 DEF Accounted, InProgress
<1>15. ToolsKept'
  <2>1. ASSUME NEW e \in Entities, task[e] = "going"
        PROVE  e \notin tools
    <3>1. serves[e] # NoDemand /\ IsTool(serves[e]) /\ Released(serves[e])
      BY <2>1 DEF Accounted, Served
    <3>2. phase[ItemOf(serves[e])] \in {"done", "gone"} BY <3>1 DEF Released
    <3> QED BY <1>1, <1>3, <3>2
  <2>2. ASSUME NEW e \in Entities
        PROVE  /\ loc'[e] = Vehicle => goal'[e] # Nowhere
               /\ task'[e] = "serving" => goal'[e] = Nowhere
               /\ task'[e] = "going" /\ goal'[e] # Nowhere =>
                     loc'[e] \in {Source[ItemOf(serves'[e])], Vehicle}
    BY <1>1, <1>2, <1>6, <2>1 DEF Accounted, ToolsKept
  <2>3. ASSUME NEW e \in Entities, task[e] \in {"serving", "going"}, IsTool(serves[e]),
               Released(serves[e])'
        PROVE  e \in at'[Sink[ItemOf(serves[e])]]
    <3>1. serves[e] \in Demands BY <2>3 DEF Accounted, Served, TypeOK
    <3>2. /\ ItemOf(serves[e]) \in Products
          /\ TypeNeeded(serves[e]) \in ItemsOf(Tools[ItemOf(serves[e])])
      BY <2>3, <3>1, ToolDemand
    <3>3. CASE ItemOf(serves[e]) = p
      <4>1. Bound(e) /\ TypeOf[e] = TypeNeeded(serves[e])
        BY <2>3 DEF Accounted, Served, Bound
      <4> QED BY <1>3, <1>7, <3>2, <3>3, <4>1
    <3>4. CASE ItemOf(serves[e]) # p
      <4>1. Released(serves[e]) BY <1>1, <1>5, <2>3, <3>2, <3>4 DEF Released
      <4> QED BY <1>7, <2>3, <3>2, <4>1, PlacesKnown DEF Accounted, ToolsKept
    <3> QED BY <3>3, <3>4
  <2> QED BY <1>1, <2>2, <2>3 DEF ToolsKept
<1>16. NoneToDeal' BY <1>1 DEF Accounted, NoneToDeal
<1> QED BY <1>10, <1>11, <1>13, <1>14, <1>15, <1>16 DEF Accounted

(* A finished product that others may use joins the pool. *)
LEMMA RegisterHonest ==
    ASSUME IInv, Accounted, NEW p \in Products, Register(p)
    PROVE  Accounted'
<1>1. /\ phase[p] = "done" /\ phase' = [phase EXCEPT ![p] = "gone"]
      /\ pool' = IF Consumable(p) THEN Append(pool, p) ELSE pool
      /\ signalled' = (signalled \/ Consumable(p))
      /\ UNCHANGED <<step, busy, loc, at, goal, promised, dealing, pending, serves, task, got>>
  BY DEF Register, places
<1>2. p \in Entities /\ task[p] = "idle" /\ AtSink(p)
  BY <1>1 DEF Entities, Accounted, InProgress
<1>3. \A q \in Products : phase'[q] = IF q = p THEN "gone" ELSE phase[q]
  BY <1>1 DEF Accounted, TypeOK
<1>4. pool \in Seq(Entities) BY DEF Accounted, TypeOK
<1>5. /\ pool' \in Seq(Entities)
      /\ \A i \in DOMAIN pool' :
            \/ i \in DOMAIN pool /\ pool'[i] = pool[i]
            \/ i = Len(pool) + 1 /\ pool'[i] = p /\ Consumable(p)
  BY <1>1, <1>2, <1>4
<1>6. \A d \in Demands : Asked(d) => Asked(d)'
  BY <1>1, <1>3, DemandShape DEF Asked
<1>7. DemandsOf(p, 0) \subseteq got BY <1>1 DEF Accounted, Served
<1>8. Served' BY <1>1, <1>3, <1>6, <1>7, ProductServed
<1>9. TypeOK'
  <2>1. phase' \in [Products -> Phases] BY <1>1 DEF Accounted, TypeOK, Phases
  <2>2. signalled' \in BOOLEAN BY <1>1 DEF Accounted, TypeOK, Consumable
  <2> QED BY <1>1, <1>5, <2>1, <2>2 DEF Accounted, TypeOK
<1>10. \A i \in DOMAIN pool : pool[i] # p BY <1>1, <1>2, <1>4 DEF Accounted, Free
<1>11. Free'
  <2>1. ASSUME NEW i \in DOMAIN pool'
        PROVE  /\ task'[pool'[i]] = "idle" /\ Resting(pool[i])'
               /\ pool'[i] \in Products =>
                     phase'[pool'[i]] = "gone" /\ Consumable(pool'[i])
    <3>1. CASE i \in DOMAIN pool /\ pool'[i] = pool[i]
      BY <1>1, <1>3, <3>1 DEF Accounted, Free, Resting
    <3>2. CASE pool'[i] = p /\ Consumable(p)
      BY <1>1, <1>2, <1>3, <3>2, PlacesKnown DEF Resting, AtSink
    <3> QED BY <1>5, <3>1, <3>2
  <2>2. \A i, j \in DOMAIN pool' : pool'[i] = pool'[j] => i = j
    BY <1>5, <1>10 DEF Accounted, Free
  <2> QED BY <2>1, <2>2 DEF Free, Consumable
<1>12. InProgress' BY <1>1, <1>2, <1>3 DEF Accounted, InProgress, AtSink, Consumable
<1>13. ToolsKept'
  <2>1. ASSUME NEW e \in Entities, task[e] \in {"serving", "going"}, IsTool(serves[e]),
               Released(serves[e])'
        PROVE  Released(serves[e])
    <3>1. ItemOf(serves[e]) \in Products
      BY <2>1, DemandShape DEF Accounted, Served, TypeOK, ItemOf
    <3> QED BY <1>1, <1>3, <2>1, <3>1 DEF Released
  <2> QED BY <1>1, <2>1 DEF Accounted, ToolsKept
<1>14. NoneToDeal'
  <2>1. CASE Consumable(p) BY <1>1, <2>1 DEF NoneToDeal
  <2>2. CASE ~Consumable(p)
    <3>1. pool' = pool /\ signalled' = signalled BY <1>1, <2>2 DEF Accounted, TypeOK
    <3> QED BY <1>1, <3>1 DEF Accounted, NoneToDeal
  <2> QED BY <2>1, <2>2
<1> QED BY <1>8, <1>9, <1>11, <1>12, <1>13, <1>14 DEF Accounted

(* A step of the vehicles, which change nobody's task. *)
LEMMA MovedServed ==
    ASSUME Accounted, UNCHANGED <<phase, step, pending, serves, task, got>>
    PROVE  Served'
BY DEF Accounted, Served, Asked, Released

(* A vehicle takes an entity away, never from the sink of its product. *)
LEMMA LoadHonest ==
    ASSUME IInv, Accounted, ToolsGoHome, NEW e \in Entities, Promise(e) \/ Load(e)
    PROVE  Accounted'
<1>1. CASE Promise(e)
  <2>1. /\ promised' = promised \cup {e}
        /\ UNCHANGED <<products, loc, at, goal, requests, signals>>
    BY <1>1 DEF Promise
  <2>2. TypeOK' BY <2>1 DEF Accounted, TypeOK, products, requests, signals
  <2>3. Served' BY <2>1, MovedServed DEF products, requests
  <2>4. Free' BY <2>1 DEF Accounted, Free, Resting, products, requests
  <2>5. InProgress' BY <2>1 DEF Accounted, InProgress, AtSink, products, requests
  <2>6. ToolsKept' BY <2>1 DEF Accounted, ToolsKept, Released, products, requests
  <2>7. NoneToDeal' BY <2>1 DEF Accounted, NoneToDeal, requests, signals
  <2> QED BY <2>2, <2>3, <2>4, <2>5, <2>6, <2>7 DEF Accounted
<1>2. CASE Load(e)
  <2>1. /\ goal[e] # Nowhere /\ loc[e] \in Ports
        /\ at' = [at EXCEPT ![loc[e]] = @ \ {e}]
        /\ loc' = [loc EXCEPT ![e] = Vehicle]
        /\ UNCHANGED <<phase, step, busy, goal, promised, pool, pending, serves, task, got,
                       signalled, dealing>>
    BY <1>2 DEF Load, products, requests, signals
  <2>2. \A x \in Entities : loc'[x] = IF x = e THEN Vehicle ELSE loc[x]
    BY <2>1 DEF Accounted, TypeOK
  <2>3. \A q \in Ports : \A x \in Entities :
           x \in at[q] /\ (x # e \/ q # loc[e]) => x \in at'[q]
    BY <2>1 DEF Accounted, TypeOK
  <2>4. TypeOK'
    <3>1. loc' \in [Entities -> Places] BY <2>1, PlacesKnown DEF Accounted, TypeOK
    <3>2. at' \in [Ports -> SUBSET Entities] BY <2>1 DEF Accounted, TypeOK
    <3> QED BY <2>1, <3>1, <3>2 DEF Accounted, TypeOK
  <2>5. Served' BY <2>1, MovedServed
  <2>6. Free'
    <3>1. \A i \in DOMAIN pool : pool[i] \in Entities /\ pool[i] # e
      BY <2>1 DEF Accounted, TypeOK, Free, Resting
    <3> QED BY <2>1, <2>2, <2>3, <3>1 DEF Accounted, Free, Resting
  <2>7. InProgress'
    <3>1. ASSUME NEW q \in Products, q # e
          PROVE  loc'[q] = loc[q] /\ (AtSink(q) => AtSink(q)')
      BY <2>1, <2>2, <2>3, <3>1, PlacesKnown DEF AtSink, Entities
    <3> QED BY <2>1, <3>1 DEF Accounted, InProgress, AtSink
  <2>8. ToolsKept'
    <3>1. ASSUME NEW x \in Entities, task[x] \in {"serving", "going"}, IsTool(serves[x]),
                 Released(serves[x])
          PROVE  x \in at'[Sink[ItemOf(serves[x])]]
      <4>1. serves[x] \in Demands BY <3>1 DEF Accounted, Served, TypeOK
      <4>2. ItemOf(serves[x]) \in Products /\ Tools[ItemOf(serves[x])] # <<>>
        BY <3>1, <4>1, ToolDemand
      <4>3. x \in at[Sink[ItemOf(serves[x])]] /\ Sink[ItemOf(serves[x])] \in Ports
        BY <3>1, <4>2, PlacesKnown DEF Accounted, ToolsKept
      <4>4. CASE x # e BY <2>3, <4>3, <4>4
      <4>5. CASE x = e
        <5>1. loc[e] = Source[ItemOf(serves[e])]
          BY <2>1, <3>1, <4>5, PlacesKnown DEF Accounted, ToolsKept
        <5> QED BY <2>3, <4>2, <4>3, <4>5, <5>1 DEF ToolsGoHome
      <4> QED BY <4>4, <4>5
    <3>2. \A d : Released(d)' <=> Released(d) BY <2>1 DEF Released
    <3> QED BY <2>1, <2>2, <3>1, <3>2 DEF Accounted, ToolsKept
  <2>9. NoneToDeal' BY <2>1 DEF Accounted, NoneToDeal
  <2> QED BY <2>4, <2>5, <2>6, <2>7, <2>8, <2>9 DEF Accounted
<1> QED BY <1>1, <1>2

(* It puts the entity where it is to go. *)
LEMMA UnloadHonest ==
    ASSUME Accounted, NEW e \in Entities, Unload(e)
    PROVE  Accounted'
<1>1. /\ loc[e] = Vehicle
      /\ at' = [at EXCEPT ![goal[e]] = @ \cup {e}]
      /\ loc' = [loc EXCEPT ![e] = goal[e]] /\ goal' = [goal EXCEPT ![e] = Nowhere]
      /\ promised' = promised \ {e}
      /\ UNCHANGED <<phase, step, busy, pool, pending, serves, task, got, signalled, dealing>>
  BY DEF Unload, products, requests, signals
<1>2. goal[e] \in Ports BY <1>1 DEF Accounted, TypeOK, ToolsKept
<1>3. \A x \in Entities : /\ loc'[x] = IF x = e THEN goal[e] ELSE loc[x]
                          /\ goal'[x] = IF x = e THEN Nowhere ELSE goal[x]
  BY <1>1 DEF Accounted, TypeOK
<1>4. e \in at'[goal[e]] /\ \A q \in Ports : at[q] \subseteq at'[q]
  BY <1>1, <1>2 DEF Accounted, TypeOK
<1>5. TypeOK'
  <2>1. loc' \in [Entities -> Places] BY <1>1, <1>2, PlacesKnown DEF Accounted, TypeOK
  <2>2. at' \in [Ports -> SUBSET Entities] BY <1>1 DEF Accounted, TypeOK
  <2>3. goal' \in [Entities -> Ports \cup {Nowhere}] BY <1>1 DEF Accounted, TypeOK
  <2>4. promised' \subseteq Entities BY <1>1 DEF Accounted, TypeOK
  <2> QED BY <1>1, <2>1, <2>2, <2>3, <2>4 DEF Accounted, TypeOK
<1>6. Served' BY <1>1, MovedServed
<1>7. Free'
  <2>1. \A i \in DOMAIN pool : pool[i] \in Entities /\ pool[i] # e
    BY <1>1, PlacesKnown DEF Accounted, TypeOK, Free, Resting
  <2> QED BY <1>1, <1>3, <1>4, <2>1 DEF Accounted, Free, Resting
<1>8. InProgress'
  <2>1. ASSUME NEW q \in Products, q # e
        PROVE  loc'[q] = loc[q] /\ goal'[q] = goal[q] /\ (AtSink(q) => AtSink(q)')
    BY <1>1, <1>3, <1>4, <2>1, PlacesKnown DEF AtSink, Entities
  <2>2. e \in Products => ~AtSink(e) BY <1>1, PlacesKnown DEF AtSink
  <2>3. e \in Products /\ goal[e] = Sink[e] => AtSink(e)' BY <1>1, <1>3, <1>4 DEF AtSink
  <2> QED BY <1>1, <1>2, <1>3, <2>1, <2>2, <2>3, PlacesKnown DEF Accounted, InProgress
<1>9. ToolsKept'
  <2>1. \A d : Released(d)' <=> Released(d) BY <1>1 DEF Released
  <2>2. \A x \in Entities : task[x] \in {"serving", "going"} /\ IsTool(serves[x]) =>
           ItemOf(serves[x]) \in Products
    BY DemandShape DEF Accounted, Served, TypeOK, ItemOf
  <2> QED BY <1>1, <1>2, <1>3, <1>4, <2>1, <2>2, PlacesKnown DEF Accounted, ToolsKept
<1>10. NoneToDeal' BY <1>1 DEF Accounted, NoneToDeal
<1> QED BY <1>5, <1>6, <1>7, <1>8, <1>9, <1>10 DEF Accounted

(* Who is dealt leaves the pool and serves a request nobody serves yet. *)
LEMMA DealHonest ==
    ASSUME IInv, Accounted, NEW e \in Entities, Deal(e)
    PROVE  Accounted'
<1>1. PICK i \in DOMAIN pending, k \in DOMAIN pool :
         /\ dealing /\ e = pool[k] /\ Option(e, pending[i])
         /\ pending' = RemoveAt(pending, i)
         /\ pool' = RemoveAt(pool, k)
         /\ serves' = [serves EXCEPT ![e] = pending[i]]
         /\ task' = [task EXCEPT ![e] = "dealt"]
         /\ UNCHANGED <<phase, step, busy, loc, at, goal, promised, signalled, dealing, got>>
  BY DEF Deal, products, places, signals
<1> DEFINE d == pending[i]
<1>2. pending \in Seq(Demands) /\ pool \in Seq(Entities) /\ d \in Demands /\ d # NoDemand
      /\ TypeOf[e] = TypeNeeded(d)
  BY <1>1, DemandShape DEF Accounted, TypeOK, Option
<1>3. d \notin got BY DEF Accounted, Served
<1>4. \A x \in Entities : /\ serves'[x] = IF x = e THEN d ELSE serves[x]
                          /\ task'[x] = IF x = e THEN "dealt" ELSE task[x]
  BY <1>1 DEF Accounted, TypeOK
<1>5. task' \in [Entities -> Tasks] /\ serves' \in [Entities -> Demands \cup {NoDemand}]
  BY <1>1, <1>2 DEF Accounted, TypeOK, Tasks
<1>6. e = pool[k] /\ task[e] = "idle" /\ (e \in Products => phase[e] = "gone" /\ Consumable(e))
  BY <1>1 DEF Accounted, Free
<1>7. \A l, j \in DOMAIN pool : pool[l] = pool[j] => l = j BY DEF Accounted, Free
<1>8. /\ pending' \in Seq(Demands)
      /\ \A j \in DOMAIN pending' : \E l \in DOMAIN pending : pending[l] = pending'[j]
  <2>1. \A l, j \in DOMAIN pending : pending[l] = pending[j] => l = j BY DEF IInv, AskedOnce
  <2> QED BY <1>1, <1>2, <2>1, RemoveAtDistinct
<1>9. /\ pool' \in Seq(Entities)
      /\ \A j \in DOMAIN pool' : pool'[j] # e /\ \E l \in DOMAIN pool : pool[l] = pool'[j]
      /\ \A l, j \in DOMAIN pool' : pool'[l] = pool'[j] => l = j
  BY <1>1, <1>2, <1>7, RemoveAtDistinct
<1> HIDE DEF d
<1>10. TypeOK' BY <1>1, <1>5, <1>8, <1>9 DEF Accounted, TypeOK
<1>11. Served'
  <2>1. ASSUME NEW x \in Entities
        PROVE  /\ task'[x] = "idle" <=> serves'[x] = NoDemand
               /\ serves'[x] # NoDemand => TypeOf[x] = TypeNeeded(serves'[x])
               /\ serves'[x] \in got' => task'[x] \in {"serving", "going", "spent"}
               /\ task'[x] = "going" =>
                     x \notin Products /\ IsTool(serves'[x]) /\ Released(serves'[x])
    BY <1>1, <1>2, <1>3, <1>4 DEF Accounted, Served
  <2>2. \A x : Released(x)' <=> Released(x) BY <1>1 DEF Released
  <2>3. \A x : Asked(x)' <=> Asked(x) BY <1>1 DEF Asked
  <2>4. \A x \in got' : Asked(x)' /\ \A j \in DOMAIN pending' : pending'[j] # x
    <3>1. \A x \in got : Asked(x) /\ \A j \in DOMAIN pending : pending[j] # x
      BY DEF Accounted, Served
    <3>2. ASSUME NEW x \in got, NEW j \in DOMAIN pending' PROVE pending'[j] # x
      <4>1. PICK l \in DOMAIN pending : pending[l] = pending'[j] BY <1>8
      <4> QED BY <3>1, <4>1
    <3> QED BY <1>1, <2>3, <3>1, <3>2
  <2>5. \A q \in Products : phase'[q] \notin {"new", "fitting"} => DemandsOf(q, 0) \subseteq got'
    BY <1>1 DEF Accounted, Served
  <2>6. \A x \in Entities : task'[x] = "going" =>
           x \notin Products /\ IsTool(serves'[x]) /\ Released(serves[x])'
    BY <1>4, <2>2 DEF Accounted, Served
  <2> QED BY <2>1, <2>4, <2>5, <2>6 DEF Served
<1>12. Free'
  <2>1. ASSUME NEW j \in DOMAIN pool'
        PROVE  /\ task'[pool'[j]] = "idle" /\ Resting(pool[j])'
               /\ pool'[j] \in Products => phase'[pool'[j]] = "gone" /\ Consumable(pool'[j])
    <3>1. PICK l \in DOMAIN pool : pool[l] = pool'[j] BY <1>9
    <3>2. pool[l] \in Entities /\ pool[l] # e BY <1>2, <1>9, <3>1
    <3> QED BY <1>1, <1>4, <3>1, <3>2 DEF Accounted, Free, Resting
  <2> QED BY <1>9, <2>1 DEF Free, Consumable
<1>13. InProgress'
  BY <1>1, <1>4, <1>6 DEF Accounted, InProgress, AtSink, Entities
<1>14. ToolsKept'
  <2>1. \A x : Released(x)' <=> Released(x) BY <1>1 DEF Released
  <2> QED BY <1>1, <1>4, <2>1 DEF Accounted, ToolsKept
<1>15. NoneToDeal' BY <1>1 DEF NoneToDeal
<1> QED BY <1>10, <1>11, <1>12, <1>13, <1>14, <1>15 DEF Accounted

(* The tools of a product are asked for and complete while it is fitted. *)
LEMMA FittedFirst ==
    ASSUME IInv, Accounted, NEW e \in Entities, task[e] \in {"dealt", "coming"}
    PROVE  /\ serves[e] \in Demands \ got /\ ItemOf(serves[e]) \in Products
           /\ Asked(serves[e])
           /\ IsTool(serves[e]) => phase[ItemOf(serves[e])] = "fitting"
<1>1. serves[e] \in Demands BY DEF Accounted, Served, TypeOK
<1>2. serves[e] \notin got BY DEF Accounted, Served
<1>3. Asked(serves[e]) BY <1>1 DEF IInv, AskedFirst
<1>4. ItemOf(serves[e]) \in Products BY <1>1, DemandShape DEF ItemOf
<1>5. ASSUME IsTool(serves[e]) PROVE phase[ItemOf(serves[e])] = "fitting"
  <2>1. serves[e] \in DemandsOf(ItemOf(serves[e]), 0) BY <1>1, <1>5, ToolDemand
  <2>2. phase[ItemOf(serves[e])] \in {"new", "fitting"}
    BY <1>2, <1>4, <2>1 DEF Accounted, Served
  <2> QED BY <1>3, <1>5, <2>2 DEF Asked, IsTool, ItemOf
<1> QED BY <1>1, <1>2, <1>3, <1>4, <1>5

(* What binding, bringing and giving back an entity leaves alone. *)
LEMMA EntityStep ==
    ASSUME Accounted, NEW e \in Entities, task[e] # "idle",
           UNCHANGED <<phase, step, at, pool>>,
           \A x \in Entities \ {e} :
              task'[x] = task[x] /\ loc'[x] = loc[x] /\ goal'[x] = goal[x],
           task'[e] # "idle"
    PROVE  Free' /\ InProgress'
<1>1. \A i \in DOMAIN pool : pool[i] \in Entities \ {e}
  BY DEF Accounted, TypeOK, Free
<1>2. Free' BY <1>1 DEF Accounted, Free, Resting
<1>3. e \in Products => phase[e] = "gone" /\ Consumable(e)
  BY DEF Accounted, InProgress, TypeOK
<1>4. InProgress' BY <1>3 DEF Accounted, InProgress, AtSink, Entities
<1> QED BY <1>2, <1>4

(* The entity is bound and on its way. *)
LEMMA BindHonest ==
    ASSUME IInv, Accounted, NEW e \in Entities, Bind(e)
    PROVE  Accounted'
<1> DEFINE p == ItemOf(serves[e])
           t == IF IsTool(serves[e]) THEN loc[p] ELSE Input[Machine(p)]
<1>1. /\ task[e] = "dealt" /\ task' = [task EXCEPT ![e] = "coming"]
      /\ goal' = [goal EXCEPT ![e] = t]
      /\ UNCHANGED <<phase, step, busy, loc, at, promised, signalled, dealing, pool, pending,
                     serves, got>>
  BY DEF Bind, products, signals
<1>2. t \in Ports
  <2>1. /\ p \in Products /\ Asked(serves[e]) /\ serves[e] \in Demands
        /\ IsTool(serves[e]) => phase[p] = "fitting"
    BY <1>1, FittedFirst
  <2>2. CASE IsTool(serves[e])
    BY <2>1, <2>2, PlacesKnown DEF Accounted, InProgress
  <2>3. CASE ~IsTool(serves[e])
    <3>1. serves[e][2] \in Nat /\ step[p] \in Nat
      BY <2>1, DemandShape DEF Accounted, TypeOK
    <3>2. 0 < step[p] BY <2>1, <2>3, <3>1 DEF Asked, IsTool, ItemOf
    <3>3. Machine(p) \in Machines BY <2>1, <3>2, MachineKnown DEF Accounted
    <3> QED BY <2>3, <3>3, PlacesKnown
  <2> QED BY <2>2, <2>3
<1> HIDE DEF t
<1>3. \A x \in Entities : /\ task'[x] = IF x = e THEN "coming" ELSE task[x]
                          /\ goal'[x] = IF x = e THEN t ELSE goal[x]
  BY <1>1 DEF Accounted, TypeOK
<1>4. TypeOK'
  <2>1. goal' \in [Entities -> Ports \cup {Nowhere}] BY <1>1, <1>2 DEF Accounted, TypeOK
  <2>2. task' \in [Entities -> Tasks] BY <1>1 DEF Accounted, TypeOK, Tasks
  <2> QED BY <1>1, <2>1, <2>2 DEF Accounted, TypeOK
<1>5. Free' /\ InProgress' BY <1>1, <1>3, EntityStep
<1>6. (\A x : Released(x)' <=> Released(x)) /\ (\A x : Asked(x)' <=> Asked(x))
  BY <1>1 DEF Released, Asked
<1>7. Served' BY <1>1, <1>3, <1>6 DEF Accounted, Served
<1>8. ToolsKept' BY <1>1, <1>2, <1>3, <1>6, PlacesKnown DEF Accounted, ToolsKept
<1>9. NoneToDeal' BY <1>1 DEF Accounted, NoneToDeal
<1> QED BY <1>4, <1>5, <1>7, <1>8, <1>9 DEF Accounted

(* It is there: its request, and nobody else's, completes. *)
LEMMA DeliverHonest ==
    ASSUME IInv, Accounted, NEW e \in Entities, Deliver(e)
    PROVE  Accounted'
<1>1. /\ task[e] = "coming" /\ goal[e] = Nowhere
      /\ task' = [task EXCEPT ![e] = "serving"] /\ got' = got \cup {serves[e]}
      /\ UNCHANGED <<phase, step, busy, loc, at, goal, promised, signalled, dealing, pool,
                     pending, serves>>
  BY DEF Deliver, products, places, signals
<1>2. /\ serves[e] \in Demands /\ Asked(serves[e]) /\ serves[e] # NoDemand
      /\ IsTool(serves[e]) => phase[ItemOf(serves[e])] = "fitting"
  BY <1>1, FittedFirst, DemandShape
<1>3. \A x \in Entities : task'[x] = IF x = e THEN "serving" ELSE task[x]
  BY <1>1 DEF Accounted, TypeOK
<1>4. TypeOK'
  <2>1. task' \in [Entities -> Tasks] BY <1>1 DEF Accounted, TypeOK, Tasks
  <2> QED BY <1>1, <1>2, <2>1 DEF Accounted, TypeOK
<1>5. Free' /\ InProgress' BY <1>1, <1>3, EntityStep
<1>6. (\A x : Released(x)' <=> Released(x)) /\ (\A x : Asked(x)' <=> Asked(x))
  BY <1>1 DEF Released, Asked
<1>7. Served'
  <2>1. \A x \in Entities : serves[x] = serves[e] => x = e
    BY <1>2 DEF IInv, OneEntityPerRequest
  <2>2. \A i \in DOMAIN pending : pending[i] # serves[e] BY DEF IInv, PendingOrServed
  <2> QED BY <1>1, <1>2, <1>3, <1>6, <2>1, <2>2 DEF Accounted, Served
<1>8. ToolsKept'
  <2>1. IsTool(serves[e]) => ~Released(serves[e]) BY <1>2 DEF Released
  <2> QED BY <1>1, <1>3, <1>6, <2>1 DEF Accounted, ToolsKept
<1>9. NoneToDeal' BY <1>1 DEF Accounted, NoneToDeal
<1> QED BY <1>4, <1>5, <1>7, <1>8, <1>9 DEF Accounted

(* A part is used up. *)
LEMMA SpendHonest ==
    ASSUME IInv, Accounted, NEW e \in Entities, Spend(e)
    PROVE  Accounted'
<1> DEFINE home == IF IsTool(serves[e]) THEN Source[ItemOf(serves[e])] ELSE loc[e]
<1>1. /\ task[e] = "serving" /\ task' = [task EXCEPT ![e] = "spent"]
      /\ loc' = IF IsTool(serves[e]) THEN [loc EXCEPT ![e] = Source[ItemOf(serves[e])]] ELSE loc
      /\ signalled' = TRUE
      /\ UNCHANGED <<phase, step, busy, at, goal, promised, dealing, pool, pending, serves, got>>
  BY DEF Spend, products
<1>2. ItemOf(serves[e]) \in Products
  BY <1>1, DemandShape DEF Accounted, Served, TypeOK, ItemOf
<1>3. \A x \in Entities : /\ task'[x] = IF x = e THEN "spent" ELSE task[x]
                          /\ loc'[x] = IF x = e THEN home ELSE loc[x]
  BY <1>1 DEF Accounted, TypeOK
<1>4. home \in Places /\ (home = Vehicle => loc[e] = Vehicle)
  BY <1>2, PlacesKnown DEF Accounted, TypeOK
<1> HIDE DEF home
<1>5. TypeOK'
  <2>1. task' \in [Entities -> Tasks] BY <1>1 DEF Accounted, TypeOK, Tasks
  <2>2. loc' \in [Entities -> Places]
    BY <1>1, <1>2, PlacesKnown DEF Accounted, TypeOK
  <2> QED BY <1>1, <2>1, <2>2 DEF Accounted, TypeOK
<1>6. Free' /\ InProgress' BY <1>1, <1>3, EntityStep
<1>7. (\A x : Released(x)' <=> Released(x)) /\ (\A x : Asked(x)' <=> Asked(x))
  BY <1>1 DEF Released, Asked
<1>8. Served' BY <1>1, <1>3, <1>7 DEF Accounted, Served
<1>9. ToolsKept' BY <1>1, <1>3, <1>4, <1>7 DEF Accounted, ToolsKept
<1>10. NoneToDeal' BY <1>1 DEF NoneToDeal
<1> QED BY <1>5, <1>6, <1>8, <1>9, <1>10 DEF Accounted

(* A tool is sent to a store. *)
LEMMA TakeBackHonest ==
    ASSUME IInv, Accounted, NEW e \in Entities, TakeBack(e)
    PROVE  Accounted'
<1>1. PICK s \in Stores :
      /\ task[e] = "serving" /\ task' = [task EXCEPT ![e] = "going"]
      /\ Released(serves[e]) /\ IsTool(serves[e]) /\ e \notin Products
      /\ loc' = [loc EXCEPT ![e] = Source[ItemOf(serves[e])]]
      /\ goal' = [goal EXCEPT ![e] = s]
      /\ UNCHANGED <<phase, step, busy, at, promised, signalled, dealing, pool, pending, serves,
                     got>>
  BY DEF TakeBack, products, signals
<1>2. ItemOf(serves[e]) \in Products
  BY <1>1, DemandShape DEF Accounted, Served, TypeOK, ItemOf
<1>3. \A x \in Entities : /\ task'[x] = IF x = e THEN "going" ELSE task[x]
                          /\ goal'[x] = IF x = e THEN s ELSE goal[x]
                          /\ loc'[x] = IF x = e THEN Source[ItemOf(serves[e])] ELSE loc[x]
  BY <1>1 DEF Accounted, TypeOK
<1>4. s \in Ports /\ s # Nowhere BY PlacesKnown
<1>5. TypeOK'
  <2>1. task' \in [Entities -> Tasks] BY <1>1 DEF Accounted, TypeOK, Tasks
  <2>2. loc' \in [Entities -> Places]
    BY <1>1, <1>2, PlacesKnown DEF Accounted, TypeOK
  <2>3. goal' \in [Entities -> Ports \cup {Nowhere}] BY <1>1, <1>4 DEF Accounted, TypeOK
  <2> QED BY <1>1, <2>1, <2>2, <2>3 DEF Accounted, TypeOK
<1>6. Free' /\ InProgress' BY <1>1, <1>3, EntityStep
<1>7. (\A x : Released(x)' <=> Released(x)) /\ (\A x : Asked(x)' <=> Asked(x))
  BY <1>1 DEF Released, Asked
<1>8. Served' BY <1>1, <1>3, <1>7 DEF Accounted, Served
<1>9. ToolsKept'
  BY <1>1, <1>2, <1>3, <1>4, <1>7, PlacesKnown DEF Accounted, ToolsKept
<1>10. NoneToDeal' BY <1>1 DEF Accounted, NoneToDeal
<1> QED BY <1>5, <1>6, <1>8, <1>9, <1>10 DEF Accounted

(* Stored, it is free again, recorded at its product's sink. *)
LEMMA ReleaseHonest ==
    ASSUME IInv, Accounted, ToolsGoHome, NEW e \in Entities, Release(e)
    PROVE  Accounted'
<1> DEFINE p == ItemOf(serves[e])
<1>1. /\ task[e] = "going" /\ goal[e] = Nowhere
      /\ loc' = [loc EXCEPT ![e] = CurrentLocatable[Cardinality(Products)][p]]
      /\ task' = [task EXCEPT ![e] = "idle"]
      /\ serves' = [serves EXCEPT ![e] = NoDemand]
      /\ pool' = Append(pool, e) /\ signalled' = TRUE
      /\ UNCHANGED <<phase, step, busy, at, goal, promised, dealing, pending, got>>
  BY DEF Release, products
<1>2. e \notin Products /\ IsTool(serves[e]) /\ Released(serves[e]) /\ serves[e] \in Demands
  BY <1>1 DEF Accounted, Served, TypeOK
<1>3. p \in Products /\ ~Consumable(p) BY <1>2, ToolDemand DEF ToolsGoHome
<1>4. task[p] = "idle" /\ p \in Entities /\ AtSink(p) /\ e \in at[Sink[p]]
  BY <1>1, <1>2, <1>3 DEF Accounted, InProgress, ToolsKept, Released, Entities
<1>5. loc' = [loc EXCEPT ![e] = Sink[p]]
  BY <1>1, <1>4, OwnLocation DEF Bound, AtSink
<1>6. Sink[p] \in Ports /\ Sink[p] \in Places /\ Sink[p] # Vehicle BY <1>3, PlacesKnown
<1> HIDE DEF p
<1>7. \A x \in Entities : /\ task'[x] = IF x = e THEN "idle" ELSE task[x]
                          /\ serves'[x] = IF x = e THEN NoDemand ELSE serves[x]
                          /\ loc'[x] = IF x = e THEN Sink[p] ELSE loc[x]
  BY <1>1, <1>5 DEF Accounted, TypeOK
<1>8. pool \in Seq(Entities) BY DEF Accounted, TypeOK
<1>9. /\ pool' \in Seq(Entities)
      /\ \A i \in DOMAIN pool' :
            \/ i \in DOMAIN pool /\ pool'[i] = pool[i]
            \/ i = Len(pool) + 1 /\ pool'[i] = e
  BY <1>1, <1>8
<1>10. \A i \in DOMAIN pool : pool[i] \in Entities /\ pool[i] # e
  BY <1>1, <1>8 DEF Accounted, Free
<1>11. TypeOK'
  <2>1. task' \in [Entities -> Tasks] BY <1>1 DEF Accounted, TypeOK, Tasks
  <2>2. loc' \in [Entities -> Places] BY <1>5, <1>6 DEF Accounted, TypeOK
  <2>3. serves' \in [Entities -> Demands \cup {NoDemand}] BY <1>1 DEF Accounted, TypeOK
  <2> QED BY <1>1, <1>9, <2>1, <2>2, <2>3 DEF Accounted, TypeOK
<1>12. (\A x : Released(x)' <=> Released(x)) /\ (\A x : Asked(x)' <=> Asked(x))
  BY <1>1 DEF Released, Asked
<1>13. Served'
  <2>1. NoDemand \notin got BY DemandShape DEF Accounted, TypeOK
  <2> QED BY <1>1, <1>7, <1>12, <2>1 DEF Accounted, Served
<1>14. Free'
  <2>1. ASSUME NEW i \in DOMAIN pool'
        PROVE  /\ task'[pool'[i]] = "idle" /\ Resting(pool[i])'
               /\ pool'[i] \in Products => phase'[pool'[i]] = "gone" /\ Consumable(pool'[i])
    <3>1. CASE i \in DOMAIN pool /\ pool'[i] = pool[i]
      BY <1>1, <1>7, <1>10, <3>1 DEF Accounted, Free, Resting
    <3>2. CASE pool'[i] = e
      BY <1>1, <1>2, <1>4, <1>6, <1>7, <3>2 DEF Resting
    <3> QED BY <1>9, <3>1, <3>2
  <2>2. \A i, j \in DOMAIN pool' : pool'[i] = pool'[j] => i = j
    BY <1>9, <1>10 DEF Accounted, Free
  <2> QED BY <2>1, <2>2 DEF Free, Consumable
<1>15. InProgress' BY <1>1, <1>2, <1>7 DEF Accounted, InProgress, AtSink, Entities
<1>16. ToolsKept' BY <1>1, <1>6, <1>7, <1>12 DEF Accounted, ToolsKept
<1>17. NoneToDeal' BY <1>1 DEF NoneToDeal
<1> QED BY <1>11, <1>13, <1>14, <1>15, <1>16, <1>17 DEF Accounted

(* In the beginning the stock is free in its stores. *)
LEMMA AccountedFirst == Init => Accounted
<1> SUFFICES ASSUME Init PROVE Accounted OBVIOUS
<1>1. Primitives \subseteq Entities /\ Products \subseteq Entities
      /\ Products \cap Primitives = {} /\ Stock \in Seq(Primitives)
      /\ \A i \in DOMAIN Stock : Stock[i] \in Primitives
  BY EntitiesAssumption DEF Entities, Primitives, ItemsOf
<1>2. \A e \in Primitives : Home[e] \in Ports /\ Home[e] \in Places /\ Home[e] # Vehicle
  BY PlacesAssumption, PlacesKnown
<1>3. TypeOK
  <2>1. pool \in Seq(Entities) BY <1>1 DEF Init
  <2>2. pending \in Seq(Demands) BY DEF Init
  <2>3. loc \in [Entities -> Places] BY <1>2, PlacesKnown DEF Init
  <2>4. at \in [Ports -> SUBSET Entities] BY <1>1 DEF Init
  <2>5. \A p \in Products : step[p] <= Len(Steps[p])
    BY EntitiesAssumption DEF Init
  <2> QED BY <2>1, <2>2, <2>3, <2>4, <2>5 DEF Init, TypeOK, Phases, Tasks
<1>4. Served BY DEF Init, Served
<1>5. Free
  <2>1. \A i, j \in DOMAIN Stock : Stock[i] = Stock[j] => i = j BY EntitiesAssumption
  <2>2. \A e \in Primitives : e \in Entities /\ loc[e] = Home[e] /\ e \in at[Home[e]]
    BY <1>1, <1>2 DEF Init
  <2>3. \A e \in Primitives : e \notin Products /\ task[e] = "idle" /\ goal[e] = Nowhere
    BY <1>1 DEF Init
  <2>4. pool = Stock BY DEF Init
  <2> QED BY <1>1, <1>2, <2>1, <2>2, <2>3, <2>4 DEF Free, Resting
<1>6. InProgress BY <1>1 DEF Init, InProgress
<1>7. ToolsKept BY <1>2, PlacesKnown DEF Init, ToolsKept
<1>8. NoneToDeal BY DEF Init, NoneToDeal
<1> QED BY <1>3, <1>4, <1>5, <1>6, <1>7, <1>8 DEF Accounted

(* Every step keeps account. *)
LEMMA AccountedStep ==
    ASSUME ToolsGoHome
    PROVE  IInv /\ Accounted /\ [Next]_vars => Accounted'
<1> SUFFICES ASSUME IInv, Accounted, [Next]_vars PROVE Accounted' OBVIOUS
<1>1. CASE UNCHANGED vars
  <2>1. TypeOK' BY <1>1 DEF vars, Accounted, TypeOK
  <2>2. Served' BY <1>1, MovedServed DEF vars
  <2>3. Free' /\ InProgress' BY <1>1 DEF vars, Accounted, Free, InProgress, Resting, AtSink
  <2>4. ToolsKept' /\ NoneToDeal'
    BY <1>1 DEF vars, Accounted, ToolsKept, NoneToDeal, Released
  <2> QED BY <2>1, <2>2, <2>3, <2>4 DEF Accounted
<1>2. CASE \E e \in Entities : Deal(e) BY <1>2, DealHonest
<1>3. CASE Rest \/ Wake BY <1>3, SignalsHonest
<1>4. ASSUME NEW p \in Products,
             Create(p) \/ Proceed(p) \/ Start(p) \/ Take(p) \/ Finish(p) \/ Leave(p) \/ Register(p)
      PROVE  Accounted'
  BY <1>4, CreateHonest, ProceedHonest, StartHonest, TakeHonest, FinishHonest, LeaveHonest,
     RegisterHonest
<1>5. ASSUME NEW e \in Entities,
             \/ Promise(e) \/ Load(e) \/ Unload(e)
             \/ Bind(e) \/ Deliver(e) \/ Spend(e) \/ TakeBack(e) \/ Release(e)
      PROVE  Accounted'
  BY <1>5, LoadHonest, UnloadHonest, BindHonest, DeliverHonest, SpendHonest, TakeBackHonest,
     ReleaseHonest
<1> QED BY <1>1, <1>2, <1>3, <1>4, <1>5 DEF Next, Loop, Other

(* So the whole invariant holds throughout, if tools go home. *)
LEMMA AlwaysAccounted ==
    ASSUME ToolsGoHome
    PROVE  Spec => [](IInv /\ Accounted)
<1>1. IInv /\ Accounted /\ [Next]_vars => (IInv /\ Accounted)'
  BY Inductive, AccountedStep
<1> QED BY <1>1, Initially, AccountedFirst, PTL DEF Spec

(* Tools and parts stay in the places there are and the queues list        *)
(* entities, wherever requests, transports and releases take them.         *)
THEOREM TypeCorrect ==
    ASSUME ToolsGoHome
    PROVE  Spec => []TypeOK
<1>1. Accounted => TypeOK BY DEF Accounted
<1> QED BY <1>1, AlwaysAccounted, PTL

(* The pool never names an entity that is in use, elsewhere or listed      *)
(* twice, if no product that carries tools is itself a part of another.    *)
THEOREM PoolStaysHonest ==
    ASSUME ToolsGoHome
    PROVE  Spec => []PoolIsHonest
<1>1. Accounted => PoolIsHonest
  <2> SUFFICES ASSUME Accounted PROVE PoolIsHonest OBVIOUS
  <2>1. \A e \in ItemsOf(pool) : \E i \in DOMAIN pool : e = pool[i] BY DEF ItemsOf
  <2> QED BY <2>1 DEF Accounted, Free, Resting, PoolIsHonest
<1> QED BY <1>1, AlwaysAccounted, PTL

(* The routing loop wakes for whoever joins the pool and for whoever asks: *)
(* it never waits while the pool has an entity for a pending request.      *)
THEOREM NobodyForgotten ==
    ASSUME ToolsGoHome
    PROVE  Spec => []NothingForgotten
<1>1. Accounted => NothingForgotten
  <2> SUFFICES ASSUME Accounted PROVE NothingForgotten OBVIOUS
  <2>1. \A e \in ItemsOf(pool) : \E i \in DOMAIN pool : e = pool[i] BY DEF ItemsOf
  <2> QED BY <2>1 DEF Accounted, NoneToDeal, NothingForgotten, HasOption, Option
<1> QED BY <1>1, AlwaysAccounted, PTL
=============================================================================
