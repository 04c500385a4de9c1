--------------------------- MODULE PortQueueProofs ---------------------------
(* Proofs about PortQueue for every set of items, every capacity and every  *)
(* mixture of reserving, returning and plain callers.                       *)
EXTENDS PortQueue, FiniteSetTheorems, TLAPS

(* The item whose caller is "in" is in the queue, and no other is. *)
PlaceMatches == \A i \in Items : putter[i] = "in" <=> i \in items

IInv ==
    /\ TypeOK
    /\ PlaceMatches
    /\ OwnCount => WithinCapacity
    /\ NoLostWakeup
    /\ ReservationsBacked

-----------------------------------------------------------------------------
(* Finite sets, stated once for the sets of this module. *)
LEMMA ItemsFinite ==
    ASSUME TypeOK
    PROVE  /\ IsFiniteSet(items) /\ Cardinality(items) \in Nat
           /\ IsFiniteSet(HoldsReservation) /\ Cardinality(HoldsReservation) \in Nat
<1>1. items \in SUBSET Items /\ HoldsReservation \in SUBSET Items
  BY DEF TypeOK, HoldsReservation
<1>2. IsFiniteSet(items) /\ IsFiniteSet(HoldsReservation)
  BY <1>1, ItemsAssumption, FS_Subset
<1> QED
  BY <1>2, FS_CardinalityType

(* What an insertion does to the count of items. *)
LEMMA InsertCounts ==
    ASSUME TypeOK, PlaceMatches, NEW i \in Items, putter[i] # "in", Insert(i)
    PROVE  Cardinality(items') = Cardinality(items) + 1
<1>1. i \notin items
  BY DEF PlaceMatches
<1> QED
  BY <1>1, ItemsFinite, FS_AddElement DEF Insert

(* What a removal does to the count of items and of reservations. *)
LEMMA PopCounts ==
    ASSUME TypeOK, PlaceMatches, NEW i \in items, Pop(i)
    PROVE  /\ Cardinality(items') = Cardinality(items) - 1
           /\ HoldsReservation' = IF i \in Returning
                                  THEN HoldsReservation \union {i}
                                  ELSE HoldsReservation
           /\ i \notin HoldsReservation
<1>0. i \in Items /\ putter[i] = "in"
  BY DEF TypeOK, PlaceMatches
<1>1. Cardinality(items') = Cardinality(items) - 1
  BY ItemsFinite, FS_RemoveElement DEF Pop
<1>2. i \notin HoldsReservation
  BY <1>0 DEF HoldsReservation
<1>3. \A j \in Items : putter'[j] = "reserved"
          <=> putter[j] = "reserved" \/ (j = i /\ i \in Returning)
  BY <1>0 DEF TypeOK, Pop, WakePutters, PutterStates
<1>4. HoldsReservation' = {j \in Items : putter'[j] = "reserved"}
  BY DEF HoldsReservation
<1> QED
  BY <1>0, <1>1, <1>2, <1>3, <1>4 DEF HoldsReservation

(* A put by i ends its reservation and nobody else's. *)
LEMMA PutEndsReservation ==
    ASSUME TypeOK, NEW i \in Items, NEW v \in PutterStates \ {"reserved"},
           putter' = [putter EXCEPT ![i] = v]
    PROVE  HoldsReservation' = HoldsReservation \ {i}
<1>1. \A j \in Items : putter'[j] = "reserved" <=> putter[j] = "reserved" /\ j # i
  BY DEF TypeOK, PutterStates
<1>2. HoldsReservation' = {j \in Items : putter'[j] = "reserved"}
  BY DEF HoldsReservation
<1> QED
  BY <1>1, <1>2 DEF HoldsReservation

-----------------------------------------------------------------------------
LEMMA InitIInv == Init => IInv
<1> SUFFICES ASSUME Init PROVE IInv
  OBVIOUS
<1>1. TypeOK
  BY DEF Init, TypeOK, PutterStates, GetterStates
<1>2. Cardinality(items) = 0
  BY FS_EmptySet DEF Init
<1>3. Cardinality(HoldsReservation) \in Nat
  BY <1>1, ItemsFinite
<1> QED
  BY <1>1, <1>2, <1>3, CapacityAssumption
  DEF Init, IInv, PlaceMatches, WithinCapacity, NoLostWakeup, ReservationsBacked,
      Bounded

LEMMA TypeStep == TypeOK /\ [Next]_vars => TypeOK'
<1> SUFFICES ASSUME TypeOK, [Next]_vars PROVE TypeOK'
  OBVIOUS
<1> USE DEF TypeOK, PutterStates, GetterStates
<1>1. CASE UNCHANGED vars
  BY <1>1 DEF vars
<1>2. ASSUME NEW i \in Items, Reserve(i) PROVE TypeOK'
  BY <1>2 DEF Reserve
<1>3. ASSUME NEW i \in Items, PutStep(i) PROVE TypeOK'
  <2>1. CASE PutConsumes(i)
    BY <2>1 DEF PutConsumes, Insert, WakeGetters
  <2>2. CASE PutFree(i)
    BY <2>2 DEF PutFree, Insert, WakeGetters
  <2>3. CASE PutSleeps(i)
    BY <2>3 DEF PutSleeps
  <2>4. CASE PutResumes(i)
    BY <2>4 DEF PutResumes, Insert, WakeGetters
  <2> QED
    BY <1>3, <2>1, <2>2, <2>3, <2>4 DEF PutStep
<1>4. ASSUME NEW i \in Items, GetStep(i) PROVE TypeOK'
  <2>1. CASE Get(i)
    BY <2>1 DEF Get, Pop, WakePutters
  <2>2. CASE GetSleeps(i)
    BY <2>2 DEF GetSleeps
  <2> QED
    BY <1>4, <2>1, <2>2 DEF GetStep
<1> QED
  BY <1>1, <1>2, <1>3, <1>4 DEF Next

-----------------------------------------------------------------------------
(* One lemma per kind of step, each for all parts of the invariant. *)
LEMMA ReserveStep ==
    ASSUME IInv, NEW i \in Items, Reserve(i), TypeOK'
    PROVE  IInv'
<1> USE DEF IInv
<1>1. /\ items' = items /\ pending' = pending + 1 /\ getter' = getter
      /\ putter' = [putter EXCEPT ![i] = "reserved"] /\ putter[i] = "away"
      /\ pending \in Nat /\ Capacity \in Nat
  BY CapacityAssumption DEF Reserve, TypeOK
<1>2. PlaceMatches'
  BY <1>1 DEF PlaceMatches, TypeOK
<1>3. OwnCount => WithinCapacity'
  BY <1>1, ItemsFinite DEF Reserve, WithinCapacity, SeenFull, IsFull, Bounded
<1>4. NoLostWakeup'
  BY <1>1, ItemsFinite DEF NoLostWakeup, IsFull, Bounded, TypeOK
<1>5. HoldsReservation' = HoldsReservation \union {i} /\ i \notin HoldsReservation
  <2>1. \A j \in Items : putter'[j] = "reserved" <=> putter[j] = "reserved" \/ j = i
    BY <1>1 DEF TypeOK
  <2>2. HoldsReservation' = {j \in Items : putter'[j] = "reserved"}
    BY DEF HoldsReservation
  <2> QED
    BY <1>1, <2>1, <2>2 DEF HoldsReservation
<1>6. Cardinality(HoldsReservation') = Cardinality(HoldsReservation) + 1
  BY <1>5, ItemsFinite, FS_AddElement
<1>7. ReservationsBacked'
  BY <1>1, <1>6, ItemsFinite DEF ReservationsBacked
<1> QED
  BY <1>2, <1>3, <1>4, <1>7

(* An insertion, with or without a reservation to consume. *)
LEMMA InsertStep ==
    ASSUME IInv, NEW i \in Items, Insert(i), TypeOK', putter[i] # "in",
           \/ pending > 0 /\ pending' = pending - 1
           \/ pending' = pending /\ ~IsFull /\ (putter[i] = "reserved" => pending = 0)
    PROVE  IInv'
<1> USE DEF IInv
<1>0. pending \in Nat /\ Capacity \in Nat
  BY CapacityAssumption DEF TypeOK
<1>1. Cardinality(items') = Cardinality(items) + 1 /\ Cardinality(items) \in Nat
  BY InsertCounts, ItemsFinite
<1>2. PlaceMatches'
  BY DEF PlaceMatches, TypeOK, Insert
<1>3. OwnCount => WithinCapacity'
  BY <1>0, <1>1 DEF WithinCapacity, IsFull, Bounded
<1>4. NoLostWakeup'
  <2>1. ASSUME NEW j \in Items, putter'[j] = "asleep" PROVE IsFull'
    <3>1. putter[j] = "asleep"
      BY <2>1 DEF Insert, TypeOK
    <3>2. IsFull
      BY <3>1 DEF NoLostWakeup
    <3> QED
      BY <3>2, <1>0, <1>1 DEF IsFull, Bounded
  <2>2. ASSUME NEW j \in Items, getter'[j] = "asleep" PROVE FALSE
    BY <2>2 DEF Insert, WakeGetters
  <2> QED
    BY <2>1, <2>2 DEF NoLostWakeup
<1>5. HoldsReservation' = HoldsReservation \ {i}
  BY PutEndsReservation DEF Insert, PutterStates
<1>6. Cardinality(HoldsReservation') \in Nat
  BY <1>5, ItemsFinite, FS_RemoveElement, FS_CardinalityType
<1>7. ReservationsBacked'
  <2>1. CASE putter[i] = "reserved"
    <3>1. i \in HoldsReservation
      BY <2>1 DEF HoldsReservation
    <3>2. Cardinality(HoldsReservation') = Cardinality(HoldsReservation) - 1
      BY <3>1, <1>5, ItemsFinite, FS_RemoveElement
    <3> QED
      BY <2>1, <3>2, <1>0, <1>6, ItemsFinite DEF ReservationsBacked
  <2>2. CASE putter[i] # "reserved"
    <3>1. HoldsReservation' = HoldsReservation
      BY <2>2, <1>5 DEF HoldsReservation
    <3> QED
      BY <3>1, <1>0, ItemsFinite DEF ReservationsBacked
  <2> QED
    BY <2>1, <2>2
<1> QED
  BY <1>2, <1>3, <1>4, <1>7

(* A putter finds the queue full, or is woken and finds it full again. *)
LEMMA SleepStep ==
    ASSUME IInv, NEW i \in Items, TypeOK', putter[i] # "in", IsFull,
           putter[i] = "reserved" => pending = 0,
           putter' = [putter EXCEPT ![i] = "asleep"],
           UNCHANGED <<items, pending, getter>>
    PROVE  IInv'
<1> USE DEF IInv
<1>1. PlaceMatches'
  BY DEF PlaceMatches, TypeOK
<1>2. OwnCount => WithinCapacity'
  BY DEF WithinCapacity
<1>3. NoLostWakeup'
  BY DEF NoLostWakeup, IsFull
<1>4. HoldsReservation' = HoldsReservation \ {i}
  BY PutEndsReservation DEF PutterStates
<1>5. ReservationsBacked'
  <2>1. CASE i \in HoldsReservation
    <3>1. pending' = 0
      BY <2>1 DEF HoldsReservation
    <3>2. Cardinality(HoldsReservation') \in Nat
      BY <1>4, ItemsFinite, FS_RemoveElement, FS_CardinalityType
    <3> QED
      BY <3>1, <3>2 DEF ReservationsBacked
  <2>2. CASE i \notin HoldsReservation
    BY <2>2, <1>4 DEF ReservationsBacked
  <2> QED
    BY <2>1, <2>2
<1> QED
  BY <1>1, <1>2, <1>3, <1>5

LEMMA PutIInv == ASSUME IInv, NEW i \in Items, PutStep(i), TypeOK' PROVE IInv'
<1>1. CASE PutConsumes(i)
  BY <1>1, InsertStep DEF PutConsumes
<1>2. CASE PutFree(i)
  BY <1>2, InsertStep DEF PutFree
<1>3. CASE PutSleeps(i)
  BY <1>3, SleepStep DEF PutSleeps
<1>4. CASE PutResumes(i)
  <2>1. CASE IsFull
    BY <1>4, <2>1, SleepStep DEF PutResumes
  <2>2. CASE ~IsFull
    BY <1>4, <2>2, InsertStep DEF PutResumes
  <2> QED
    BY <2>1, <2>2
<1> QED
  BY <1>1, <1>2, <1>3, <1>4 DEF PutStep

LEMMA PopStep ==
    ASSUME IInv, NEW i \in items, Pop(i), TypeOK' PROVE IInv'
<1> USE DEF IInv
<1>0. i \in Items /\ pending \in Nat /\ Capacity \in Nat /\ putter[i] = "in"
  BY CapacityAssumption DEF TypeOK, PlaceMatches
<1>1. Cardinality(items') = Cardinality(items) - 1 /\ Cardinality(items) \in Nat
      /\ Cardinality(items') \in Nat
  <2>1. Cardinality(items') = Cardinality(items) - 1 /\ Cardinality(items) \in Nat
    BY PopCounts, ItemsFinite
  <2>2. IsFiniteSet(items')
    BY ItemsFinite, FS_RemoveElement DEF Pop
  <2> QED
    BY <2>1, <2>2, FS_CardinalityType
<1>2. PlaceMatches'
  BY <1>0 DEF PlaceMatches, TypeOK, Pop, WakePutters, PutterStates
<1>3. OwnCount => WithinCapacity'
  BY <1>0, <1>1 DEF WithinCapacity, Bounded, Pop
<1>4. NoLostWakeup'
  <2>1. ASSUME NEW j \in Items, putter'[j] = "asleep" PROVE FALSE
    <3>1. ~Bounded /\ putter[j] = "asleep"
      BY <2>1, <1>0 DEF Pop, WakePutters, TypeOK
    <3> QED
      BY <3>1 DEF NoLostWakeup, IsFull
  <2>2. ASSUME NEW j \in Items, getter'[j] = "asleep" PROVE j \notin items'
    BY <2>2 DEF Pop, TypeOK, NoLostWakeup
  <2> QED
    BY <2>1, <2>2 DEF NoLostWakeup
<1>5. ReservationsBacked'
  <2>1. CASE i \in Returning
    <3>1. HoldsReservation' = HoldsReservation \union {i} /\ i \notin HoldsReservation
      BY <2>1, PopCounts
    <3>2. Cardinality(HoldsReservation') = Cardinality(HoldsReservation) + 1
      BY <3>1, ItemsFinite, FS_AddElement
    <3>3. pending' = pending + 1 /\ pending <= Cardinality(HoldsReservation)
      BY <2>1 DEF Pop, ReservationsBacked
    <3> QED
      BY <1>0, <3>2, <3>3, ItemsFinite DEF ReservationsBacked
  <2>2. CASE i \notin Returning
    BY <2>2, PopCounts DEF ReservationsBacked, Pop
  <2> QED
    BY <2>1, <2>2
<1> QED
  BY <1>2, <1>3, <1>4, <1>5

LEMMA GetIInv == ASSUME IInv, NEW i \in Items, GetStep(i), TypeOK' PROVE IInv'
<1>1. CASE Get(i)
  BY <1>1, PopStep DEF Get
<1>2. CASE GetSleeps(i)
  <2>1. /\ UNCHANGED <<items, pending, putter>> /\ i \notin items
        /\ getter' = [getter EXCEPT ![i] = "asleep"]
    BY <1>2 DEF GetSleeps
  <2>2. (PlaceMatches /\ (OwnCount => WithinCapacity) /\ ReservationsBacked)'
    BY <2>1 DEF IInv, PlaceMatches, WithinCapacity, ReservationsBacked, HoldsReservation
  <2>3. NoLostWakeup'
    BY <2>1 DEF IInv, NoLostWakeup, IsFull, TypeOK
  <2> QED
    BY <2>2, <2>3 DEF IInv
<1> QED
  BY <1>1, <1>2 DEF GetStep

LEMMA NextIInv == IInv /\ [Next]_vars => IInv'
<1> SUFFICES ASSUME IInv, [Next]_vars PROVE IInv'
  OBVIOUS
<1>1. TypeOK'
  BY TypeStep DEF IInv
<1>2. CASE UNCHANGED vars
  BY <1>2 DEF vars, IInv, TypeOK, PlaceMatches, WithinCapacity, NoLostWakeup,
              ReservationsBacked, HoldsReservation, IsFull
<1>3. CASE Next
  <2>1. PICK i \in Items : Reserve(i) \/ PutStep(i) \/ GetStep(i)
    BY <1>3 DEF Next
  <2> QED
    BY <2>1, <1>1, ReserveStep, PutIInv, GetIInv
<1> QED
  BY <1>2, <1>3

-----------------------------------------------------------------------------
(* The queue's fields and its callers stay in their types. *)
THEOREM TypeCorrect == Spec => []TypeOK
<1>1. Init => TypeOK
  BY InitIInv DEF IInv
<1> QED
  BY <1>1, TypeStep, PTL DEF Spec

LEMMA Inductive == Spec => []IInv
  BY InitIInv, NextIInv, PTL DEF Spec

(* Items and outstanding reservations never exceed a bounded queue's       *)
(* capacity, provided that fullness is judged on the queue itself (not on  *)
(* a StorePort's own empty one).                                           *)
THEOREM CapacityRespected ==
    ASSUME OwnCount
    PROVE  Spec => []WithinCapacity
<1>1. IInv => WithinCapacity
  BY DEF IInv
<1> QED
  BY <1>1, Inductive, PTL

(* Nobody sleeps on on_space or on_item while the condition he waits for   *)
(* already holds.                                                          *)
THEOREM NoWakeupIsLost == Spec => []NoLostWakeup
<1>1. IInv => NoLostWakeup
  BY DEF IInv
<1> QED
  BY <1>1, Inductive, PTL

(* No reservation outlives the callers that could use it. *)
THEOREM ReservationsDoNotLeak == Spec => []ReservationsBacked
<1>1. IInv => ReservationsBacked
  BY DEF IInv
<1> QED
  BY <1>1, Inductive, PTL

-----------------------------------------------------------------------------
(* With reserving callers only, the counter and the promises agree. *)
Agreement ==
    /\ pending = Cardinality(HoldsReservation)
    /\ \A i \in Items : putter[i] \notin {"asleep", "woken"}

LEMMA ReservedPutConsumes ==
    ASSUME IInv, Agreement, Plain = {}, NEW i \in Items, PutStep(i)
    PROVE  PutConsumes(i) /\ i \in HoldsReservation
<1>1. putter[i] = "reserved"
  BY DEF PutStep, PutConsumes, PutFree, PutSleeps, PutResumes, Agreement
<1>2. i \in HoldsReservation
  BY <1>1 DEF HoldsReservation
<1>3. pending # 0
  BY <1>2, ItemsFinite, FS_EmptySet DEF IInv, Agreement
<1> QED
  BY <1>1, <1>2, <1>3 DEF PutStep, PutFree, PutSleeps, PutResumes

LEMMA AgreementStep ==
    ASSUME Plain = {}, IInv, Agreement, [Next]_vars
    PROVE  Agreement'
<1> USE DEF IInv
<1>1. CASE UNCHANGED vars
  BY <1>1 DEF vars, Agreement, HoldsReservation
<1>2. ASSUME NEW i \in Items, Reserve(i) PROVE Agreement'
  <2>1. \A j \in Items : putter'[j] = "reserved" <=> putter[j] = "reserved" \/ j = i
    BY <1>2 DEF TypeOK, Reserve
  <2>2. HoldsReservation' = HoldsReservation \union {i} /\ i \notin HoldsReservation
    <3>1. HoldsReservation' = {j \in Items : putter'[j] = "reserved"}
      BY DEF HoldsReservation
    <3> QED
      BY <1>2, <2>1, <3>1 DEF HoldsReservation, Reserve
  <2>3. Cardinality(HoldsReservation') = Cardinality(HoldsReservation) + 1
    BY <2>2, ItemsFinite, FS_AddElement
  <2> QED
    BY <1>2, <2>3, ItemsFinite DEF Agreement, Reserve, TypeOK
<1>3. ASSUME NEW i \in Items, PutStep(i) PROVE Agreement'
  <2>1. PutConsumes(i) /\ i \in HoldsReservation
    BY <1>3, ReservedPutConsumes
  <2>2. HoldsReservation' = HoldsReservation \ {i}
    BY <2>1, PutEndsReservation DEF PutConsumes, Insert, PutterStates
  <2>3. Cardinality(HoldsReservation') = Cardinality(HoldsReservation) - 1
    BY <2>1, <2>2, ItemsFinite, FS_RemoveElement
  <2> QED
    BY <2>1, <2>3, ItemsFinite DEF Agreement, PutConsumes, Insert, TypeOK
<1>4. ASSUME NEW i \in Items, Get(i) PROVE Agreement'
  <2>1. i \in items /\ Pop(i)
    BY <1>4 DEF Get
  <2>2. \A j \in Items : putter'[j] \notin {"asleep", "woken"}
    BY <2>1 DEF Pop, WakePutters, Agreement, TypeOK
  <2>3. CASE i \in Returning
    <3>1. Cardinality(HoldsReservation') = Cardinality(HoldsReservation) + 1
      BY <2>1, <2>3, PopCounts, ItemsFinite, FS_AddElement
    <3> QED
      BY <2>1, <2>2, <2>3, <3>1 DEF Agreement, Pop
  <2>4. CASE i \notin Returning
    BY <2>1, <2>2, <2>4, PopCounts DEF Agreement, Pop
  <2> QED
    BY <2>3, <2>4
<1>5. ASSUME NEW i \in Items, GetSleeps(i) PROVE Agreement'
  BY <1>5 DEF GetSleeps, Agreement, HoldsReservation
<1> QED
  BY <1>1, <1>2, <1>3, <1>4, <1>5 DEF Next, GetStep

(* Where every caller reserves before it puts, put() on a reserved slot    *)
(* inserts at once: the guarantee the docstring gives.  A queue that       *)
(* production handlers or sources also put into does not give it.          *)
THEOREM ReservationsHonouredIfAllReserve ==
    ASSUME Plain = {}
    PROVE  Spec => ReservationHonoured
<1>1. Init => Agreement
  <2>1. ASSUME Init PROVE HoldsReservation = {}
    BY <2>1 DEF Init, HoldsReservation
  <2> QED
    BY <2>1, FS_EmptySet DEF Init, Agreement
<1>2. IInv /\ Agreement /\ [Next]_vars => Agreement'
  BY AgreementStep
<1>3. IInv /\ Agreement /\ [Next]_vars
        => [\A i \in Items :
              putter[i] = "reserved" => putter'[i] \in {"reserved", "in"}]_vars
  <2> SUFFICES ASSUME IInv, Agreement, Next, NEW i \in Items, putter[i] = "reserved"
               PROVE  putter'[i] \in {"reserved", "in"}
    BY DEF vars
  <2>1. PICK j \in Items : Reserve(j) \/ PutStep(j) \/ GetStep(j)
    BY DEF Next
  <2>2. CASE Reserve(j)
    BY <2>2 DEF Reserve, IInv, TypeOK
  <2>3. CASE PutStep(j)
    BY <2>3, ReservedPutConsumes DEF PutConsumes, Insert, IInv, TypeOK
  <2>4. CASE GetStep(j)
    <3>1. CASE Get(j)
      <4>1. putter[j] = "in"
        BY <3>1 DEF Get, IInv, PlaceMatches
      <4> QED
        BY <3>1, <4>1 DEF Get, Pop, WakePutters, IInv, TypeOK
    <3>2. CASE GetSleeps(j)
      BY <3>2 DEF GetSleeps
    <3> QED
      BY <2>4, <3>1, <3>2 DEF GetStep
  <2> QED
    BY <2>1, <2>2, <2>3, <2>4
<1> QED
  BY <1>1, <1>2, <1>3, Inductive, PTL DEF Spec, ReservationHonoured
=============================================================================
