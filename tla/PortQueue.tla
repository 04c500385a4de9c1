------------------------------ MODULE PortQueue ------------------------------
(***************************************************************************)
(* The queue behind every port of a resource, source, sink or store        *)
(* (prodsys/simulation/port.py).  A queue keeps its items, a counter of    *)
(* slots that were reserved and not filled yet, and two condition events:  *)
(* a caller of put() sleeps on on_space, a caller of get() on on_item.     *)
(* Notifying an event wakes everyone who sleeps on it at that moment; the  *)
(* callers re-check their condition when the kernel resumes them, and any  *)
(* other process may run in between.                                       *)
(*                                                                         *)
(* Each item has at most one caller bringing it (the handler that moves    *)
(* it) and at most one caller fetching it.                                 *)
(***************************************************************************)
EXTENDS Integers, FiniteSets

CONSTANTS
    Items,       \* the items that move in and out of the queue
    Capacity,    \* data.capacity: 0 means unbounded
    Reservers,   \* items brought by a caller that reserves first (transports)
    Returning,   \* items fetched with get_and_reserve_return
    Plain,       \* items brought by a caller that just puts (production, sources)
    OwnCount     \* TRUE: a Queue; FALSE: the queue is a Store whose callers look
                 \* at the fullness of a StorePort, which has items of its own

ASSUME CapacityAssumption == Capacity \in Nat
ASSUME ItemsAssumption == IsFiniteSet(Items)
ASSUME CallersAssumption ==
    Reservers \subseteq Items /\ Returning \subseteq Items /\ Plain \subseteq Items
ASSUME OwnCountAssumption == OwnCount \in BOOLEAN

VARIABLES
    items,       \* the items in the queue
    pending,     \* _pending_put: reserved slots not yet filled
    putter,      \* putter[i]: where the caller that brings i is
    getter       \* getter[i]: where the caller that fetches i is

vars == <<items, pending, putter, getter>>

PutterStates == {"away", "reserved", "asleep", "woken", "in"}
GetterStates == {"none", "asleep", "woken"}

TypeOK ==
    /\ items \subseteq Items
    /\ pending \in Nat
    /\ putter \in [Items -> PutterStates]
    /\ getter \in [Items -> GetterStates]

Init ==
    /\ items = {}
    /\ pending = 0
    /\ putter = [i \in Items |-> "away"]
    /\ getter = [i \in Items |-> "none"]

-----------------------------------------------------------------------------
Bounded == Capacity > 0

(* Mutant of IsFull: reserved slots are not counted. *)
IsFullMutant == Bounded /\ Capacity - Cardinality(items) <= 0

(* _is_full: reserved slots count as taken. *)
IsFull == Bounded /\ Capacity - pending - Cardinality(items) <= 0

(* What the caller of is_full sees: a StorePort inherits is_full from Queue *)
(* and evaluates it on its own items and reservations, which stay empty,   *)
(* because get, put and reserve go to the store.                           *)
SeenFull == OwnCount /\ IsFull

(* _notify("on_item") and _notify("on_space"): everyone asleep is woken. *)
WakeGetters == [i \in Items |-> IF getter[i] = "asleep" THEN "woken" ELSE getter[i]]

(* Mutant of WakePutters: get() forgets to notify on_space. *)
WakePuttersMutant(p) == p

WakePutters(p) ==
    [i \in Items |-> IF Bounded /\ p[i] = "asleep" THEN "woken" ELSE p[i]]

Insert(i) ==
    /\ items' = items \union {i}
    /\ putter' = [putter EXCEPT ![i] = "in"]
    /\ getter' = WakeGetters

(* The popped item is away again, for another caller to bring back, unless  *)
(* the caller was get_and_reserve_return(), which reserves the freed slot   *)
(* before it notifies on_space.                                             *)
Pop(i) ==
    /\ items' = items \ {i}
    /\ pending' = IF i \in Returning THEN pending + 1 ELSE pending
    /\ putter' = WakePutters(
           [putter EXCEPT ![i] = IF i \in Returning THEN "reserved" ELSE "away"])
    /\ getter' = [getter EXCEPT ![i] = "none"]

-----------------------------------------------------------------------------

(* The controller accepts a transport: it has checked that the target is   *)
(* not full and reserves the slot in the same step (reserve_output_queue). *)
Reserve(i) ==
    /\ i \in Reservers
    /\ putter[i] = "away"
    /\ ~SeenFull
    /\ pending' = pending + 1
    /\ putter' = [putter EXCEPT ![i] = "reserved"]
    /\ UNCHANGED <<items, getter>>

PutConsumesLeaks(i) ==
    /\ putter[i] = "reserved" \/ (putter[i] = "away" /\ i \in Plain)
    /\ pending > 0
    /\ Insert(i)
    /\ UNCHANGED pending

(* put(): the queue does not know who reserved.  With any reservation      *)
(* outstanding the caller consumes one and inserts.                        *)
PutConsumes(i) ==
    /\ putter[i] = "reserved" \/ (putter[i] = "away" /\ i \in Plain)
    /\ pending > 0
    /\ pending' = pending - 1
    /\ Insert(i)

(* put() with no reservation outstanding: insert if there is space ... *)
PutFree(i) ==
    /\ putter[i] = "reserved" \/ (putter[i] = "away" /\ i \in Plain)
    /\ pending = 0
    /\ ~IsFull
    /\ Insert(i)
    /\ UNCHANGED pending

(* ... and sleep on on_space if there is none. *)
PutSleeps(i) ==
    /\ putter[i] = "reserved" \/ (putter[i] = "away" /\ i \in Plain)
    /\ pending = 0
    /\ IsFull
    /\ putter' = [putter EXCEPT ![i] = "asleep"]
    /\ UNCHANGED <<items, pending, getter>>

(* The while loop of put() after on_space: only fullness is re-checked. *)
PutResumes(i) ==
    /\ putter[i] = "woken"
    /\ IF IsFull
       THEN /\ putter' = [putter EXCEPT ![i] = "asleep"]
            /\ UNCHANGED <<items, getter>>
       ELSE Insert(i)
    /\ UNCHANGED pending

-----------------------------------------------------------------------------
(* get() and get_and_reserve_return(): pop the item if it is there,         *)
(* otherwise sleep on on_item; on_item fires for every arrival, so a woken  *)
(* caller looks again.                                                      *)
Get(i) ==
    /\ getter[i] \in {"none", "woken"}
    /\ i \in items
    /\ Pop(i)

GetSleeps(i) ==
    /\ getter[i] \in {"none", "woken"}
    /\ i \notin items
    /\ getter' = [getter EXCEPT ![i] = "asleep"]
    /\ UNCHANGED <<items, pending, putter>>

-----------------------------------------------------------------------------
PutStep(i) == PutConsumes(i) \/ PutFree(i) \/ PutSleeps(i) \/ PutResumes(i)
GetStep(i) == Get(i) \/ GetSleeps(i)

Next == \E i \in Items : Reserve(i) \/ PutStep(i) \/ GetStep(i)

Spec == Init /\ [][Next]_vars

-----------------------------------------------------------------------------
HoldsReservation == {i \in Items : putter[i] = "reserved"}

(* The items in a bounded queue and the slots promised to callers never    *)
(* exceed its capacity, whoever puts, gets and reserves in whatever order  *)
(* (Queue.reserve increments unconditionally: the callers' checks matter). *)
WithinCapacity ==
    Bounded => Cardinality(items) + pending <= Capacity

(* No lost wakeup: a caller of put() sleeps on on_space only while the     *)
(* queue is full, and a caller of get() on on_item only while its item is  *)
(* missing.  _notify replaces the event, so a sleeper that missed the      *)
(* notification would sleep for ever.                                      *)
NoLostWakeup ==
    /\ (\E i \in Items : putter[i] = "asleep") => IsFull
    /\ \A i \in Items : getter[i] = "asleep" => i \notin items

(* A slot counted as reserved belongs to a caller that is still going to   *)
(* fill it: reservations do not leak and shrink the queue for ever.        *)
ReservationsBacked == pending <= Cardinality(HoldsReservation)

(* put() on a slot the caller has reserved never sleeps ("If caller already*)
(* reserved, this will consume that reservation", port.py:78).             *)
ReservationHonoured ==
    [][\A i \in Items : putter[i] = "reserved" => putter'[i] \in {"reserved", "in"}]_vars
=============================================================================
