--------------------------- MODULE ChangeoverProofs ---------------------------
(* Proofs that the counters of a resource cover its claims, that no planned *)
(* changeover is early, and that a resource follows a full plan: in order,  *)
(* with every changeover alone, and without a loop that turns on the spot.  *)
EXTENDS Changeover, FiniteSetTheorems, TLAPS

-----------------------------------------------------------------------------
(* Lists of requests *)

IsIn(list, x) == \E i \in DOMAIN list : list[i] = x
Distinct(list) == \A i, k \in DOMAIN list : list[i] = list[k] => i = k

(* What is left of a list when the entry at one place is taken out *)
LEMMA RemoveAtLeaves ==
    ASSUME NEW T, NEW s \in Seq(T), NEW i \in DOMAIN s
    PROVE  /\ RemoveAt(s, i) \in Seq(T)
           /\ DOMAIN s = 1 .. Len(s) /\ Len(s) \in Nat
           /\ DOMAIN RemoveAt(s, i) = 1 .. (Len(s) - 1)
           /\ \A j \in DOMAIN RemoveAt(s, i) :
                 RemoveAt(s, i)[j] = IF j < i THEN s[j] ELSE s[j + 1]
<1> DEFINE u == SubSeq(s, 1, i - 1)
           v == SubSeq(s, i + 1, Len(s))
<1>1. i \in 1 .. Len(s) /\ Len(s) \in Nat /\ DOMAIN s = 1 .. Len(s) OBVIOUS
<1>2. u \in Seq(T) /\ Len(u) = i - 1 /\ \A j \in 1 .. (i - 1) : u[j] = s[j] BY <1>1
<1>3. v \in Seq(T) /\ Len(v) = Len(s) - i /\ \A j \in 1 .. (Len(s) - i) : v[j] = s[i + j]
  BY <1>1
<1>4. RemoveAt(s, i) = u \o v BY DEF RemoveAt
<1> HIDE DEF u, v
<1>5. u \o v \in Seq(T) /\ Len(u \o v) = Len(s) - 1
  <2>1. u \in Seq(T) /\ v \in Seq(T) BY <1>2, <1>3
  <2>2. Len(u) = i - 1 /\ Len(v) = Len(s) - i BY <1>2, <1>3
  <2>3. u \o v \in Seq(T) /\ Len(u \o v) = Len(u) + Len(v) BY <2>1
  <2> QED BY <1>1, <2>2, <2>3
<1>6. DOMAIN (u \o v) = 1 .. (Len(s) - 1) BY <1>5
<1>7. ASSUME NEW j \in 1 .. (Len(s) - 1)
      PROVE  (u \o v)[j] = IF j < i THEN s[j] ELSE s[j + 1]
  <2>1. CASE j < i
    <3>1. j \in 1 .. (i - 1) BY <1>1, <2>1
    <3>2. (u \o v)[j] = u[j] BY <1>2, <1>3, <3>1
    <3> QED BY <1>2, <2>1, <3>1, <3>2
  <2>2. CASE ~(j < i)
    <3> DEFINE k == j - i + 1
    <3>1. k \in 1 .. (Len(s) - i) /\ j = Len(u) + k /\ i + k = j + 1
      <4>1. Len(u) = i - 1 BY <1>2
      <4> QED BY <4>1, <1>1, <2>2
    <3>2. k \in 1 .. Len(v)
      <4>1. Len(v) = Len(s) - i BY <1>3
      <4> QED BY <4>1, <3>1
    <3> HIDE DEF k
    <3>3. u \in Seq(T) /\ v \in Seq(T) BY <1>2, <1>3
    <3>4. (u \o v)[Len(u) + k] = v[k] BY <3>2, <3>3
    <3>5. v[k] = s[i + k] BY <1>3, <3>1
    <3> QED BY <2>2, <3>1, <3>4, <3>5
  <2> QED BY <2>1, <2>2
<1>8. \A j \in DOMAIN (u \o v) : (u \o v)[j] = IF j < i THEN s[j] ELSE s[j + 1]
  BY <1>6, <1>7
<1> QED BY <1>1, <1>4, <1>5, <1>6, <1>8

(* If the list names nobody twice, who is taken out is gone. *)
LEMMA RemoveAtDistinct ==
    ASSUME NEW T, NEW s \in Seq(T), NEW i \in DOMAIN s,
           \A k, j \in DOMAIN s : s[k] = s[j] => k = j
    PROVE  /\ RemoveAt(s, i) \in Seq(T)
           /\ \A j \in DOMAIN RemoveAt(s, i) :
                 RemoveAt(s, i)[j] # s[i] /\ \E k \in DOMAIN s : s[k] = RemoveAt(s, i)[j]
           /\ \A k, j \in DOMAIN RemoveAt(s, i) : RemoveAt(s, i)[k] = RemoveAt(s, i)[j] => k = j
<1> DEFINE rest == RemoveAt(s, i)
<1>1. /\ rest \in Seq(T)
      /\ DOMAIN s = 1 .. Len(s) /\ DOMAIN rest = 1 .. (Len(s) - 1) /\ Len(s) \in Nat
      /\ \A j \in DOMAIN rest : rest[j] = IF j < i THEN s[j] ELSE s[j + 1]
  BY RemoveAtLeaves
<1> HIDE DEF rest
<1>2. \A j \in DOMAIN rest : j \in DOMAIN s /\ j + 1 \in DOMAIN s BY <1>1
<1>3. \A j \in DOMAIN rest : rest[j] # s[i] /\ \E k \in DOMAIN s : s[k] = rest[j]
  BY <1>1, <1>2
<1>4. \A k, j \in DOMAIN rest : rest[k] = rest[j] => k = j BY <1>1, <1>2
<1> QED BY <1>1, <1>3, <1>4 DEF rest

(* Who is removed is gone, and nobody else. *)
LEMMA RemoveAtIsIn ==
    ASSUME NEW T, NEW s \in Seq(T), NEW i \in DOMAIN s, Distinct(s), NEW x
    PROVE  IsIn(RemoveAt(s, i), x) <=> IsIn(s, x) /\ x # s[i]
<1> DEFINE rest == RemoveAt(s, i)
<1>1. \A j \in DOMAIN rest : rest[j] # s[i] /\ \E k \in DOMAIN s : s[k] = rest[j]
  BY RemoveAtDistinct DEF Distinct
<1>2. /\ DOMAIN s = 1 .. Len(s) /\ DOMAIN rest = 1 .. (Len(s) - 1) /\ Len(s) \in Nat
      /\ \A j \in DOMAIN rest : rest[j] = IF j < i THEN s[j] ELSE s[j + 1]
  BY RemoveAtLeaves
<1> HIDE DEF rest
<1>3. ASSUME NEW k \in DOMAIN s, s[k] # s[i] PROVE IsIn(rest, s[k])
  <2>1. CASE k < i
    <3>1. k \in DOMAIN rest /\ rest[k] = s[k] BY <1>2, <2>1
    <3> QED BY <3>1 DEF IsIn
  <2>2. CASE k > i
    <3>1. k - 1 \in DOMAIN rest /\ ~(k - 1 < i) /\ (k - 1) + 1 = k BY <1>2, <2>2
    <3>2. rest[k - 1] = s[k] BY <1>2, <3>1
    <3> QED BY <3>1, <3>2 DEF IsIn
  <2> QED BY <1>2, <1>3, <2>1, <2>2
<1> QED BY <1>1, <1>3 DEF IsIn, rest

(* Who is appended is in the list. *)
LEMMA AppendIsIn ==
    ASSUME NEW T, NEW s \in Seq(T), NEW x \in T
    PROVE  /\ Append(s, x) \in Seq(T)
           /\ \A y : IsIn(Append(s, x), y) <=> IsIn(s, y) \/ y = x
           /\ Distinct(s) /\ ~IsIn(s, x) => Distinct(Append(s, x))
<1> DEFINE new == Append(s, x)
<1>1. /\ new \in Seq(T) /\ Len(s) \in Nat
      /\ DOMAIN s = 1 .. Len(s) /\ DOMAIN new = 1 .. (Len(s) + 1)
      /\ \A i \in DOMAIN s : new[i] = s[i]
      /\ new[Len(s) + 1] = x
  OBVIOUS
<1> HIDE DEF new
<1>2. \A i \in DOMAIN new : i \in DOMAIN s \/ i = Len(s) + 1 BY <1>1
<1>3. \A i \in DOMAIN s : i \in DOMAIN new BY <1>1
<1>4. Len(s) + 1 \in DOMAIN new BY <1>1
<1>5. \A y : IsIn(new, y) <=> IsIn(s, y) \/ y = x BY <1>1, <1>2, <1>3, <1>4 DEF IsIn
<1>6. ASSUME Distinct(s), ~IsIn(s, x) PROVE Distinct(new)
  BY <1>1, <1>2, <1>6 DEF Distinct, IsIn
<1> QED BY <1>1, <1>5, <1>6 DEF new

-----------------------------------------------------------------------------
(* Types, the list, and what the counters cover *)

(* The requests whose claim is reserved, and those whose claim is counted. *)
HeldIn(r) ==
    IF IsSetup(r) THEN {"accepted"}
    ELSE {"accepted", "trivial", "joining", "clearing", "changing", "working", "ready"}
CountedIn(r) ==
    IF IsSetup(r) THEN {"trivial", "joining", "clearing", "changing", "working", "ready"}
    ELSE {"started", "processing", "unloading"}

Held == {r \in Requests : stage[r] \in HeldIn(r)}
Counted == {r \in Requests : stage[r] \in CountedIn(r)}

Claims == held >= Cardinality(Held) /\ running >= Cardinality(Counted)

(* The list has every queued request once, and nothing else. *)
Listed ==
    Distinct(requests) /\ \A r \in Requests : (stage[r] = "queued") <=> IsIn(requests, r)

TInv == TypeOK /\ Listed /\ Claims

(* The requests are finitely many, each of a job and its process. *)
LEMMA RequestsKnown ==
    /\ IsFiniteSet(Requests)
    /\ \A r \in Requests :
          /\ r[1] \in Jobs /\ Target(r) \in Processes /\ Target(r) # NoProcess
          /\ IsSetup(r) => r = Setup(r[1])
          /\ ~IsSetup(r) => r = Production(r[1])
    /\ \A j \in Jobs :
          /\ Setup(j) \in Requests /\ IsSetup(Setup(j)) /\ Setup(j)[1] = j
          /\ Production(j) \in Requests /\ ~IsSetup(Production(j))
          /\ Production(j)[1] = j
<1>1. IsFiniteSet(Kinds)
  <2>1. IsFiniteSet({"production"}) /\ IsFiniteSet({"setup"}) BY FS_Singleton
  <2>2. Kinds = {"production"} \cup {"setup"} BY DEF Kinds
  <2> QED BY <2>1, <2>2, FS_Union
<1>2. IsFiniteSet(Requests) BY <1>1, JobsAssumption, FS_Product DEF Requests
<1>3. ASSUME NEW r \in Requests
      PROVE  /\ r[1] \in Jobs /\ Target(r) \in Processes /\ Target(r) # NoProcess
             /\ IsSetup(r) => r = Setup(r[1])
             /\ ~IsSetup(r) => r = Production(r[1])
  BY JobsAssumption DEF Requests, Kinds, Target, IsSetup, Setup, Production
<1>4. ASSUME NEW j \in Jobs
      PROVE  /\ Setup(j) \in Requests /\ IsSetup(Setup(j)) /\ Setup(j)[1] = j
             /\ Production(j) \in Requests /\ ~IsSetup(Production(j)) /\ Production(j)[1] = j
  BY DEF Requests, Kinds, IsSetup, Setup, Production
<1> QED BY <1>2, <1>3, <1>4

(* Held and Counted are finite and apart. *)
LEMMA ClaimsFinite ==
    /\ IsFiniteSet(Held) /\ Cardinality(Held) \in Nat
    /\ IsFiniteSet(Counted) /\ Cardinality(Counted) \in Nat
    /\ Held \cap Counted = {}
<1>1. Held \subseteq Requests /\ Counted \subseteq Requests BY DEF Held, Counted
<1>2. IsFiniteSet(Held) /\ IsFiniteSet(Counted) BY <1>1, RequestsKnown, FS_Subset
<1>3. Held \cap Counted = {} BY DEF Held, Counted, HeldIn, CountedIn
<1> QED BY <1>2, <1>3, FS_CardinalityType

(* The counters still cover the claims when one is taken, ... *)
LEMMA TakeClaim ==
    ASSUME TInv, NEW r, Held' \subseteq Held \cup {r}, Counted' \subseteq Counted,
           held' = held + 1, running' = running
    PROVE  Claims' /\ held' \in Nat /\ running' \in Nat
<1>1. IsFiniteSet(Held \cup {r}) /\ Cardinality(Held \cup {r}) <= Cardinality(Held) + 1
  <2>1. IsFiniteSet(Held \cup {r})
        /\ Cardinality(Held \cup {r})
             = IF r \in Held THEN Cardinality(Held) ELSE Cardinality(Held) + 1
    BY ClaimsFinite, FS_AddElement
  <2> QED BY <2>1, ClaimsFinite
<1>2. Cardinality(Held') <= Cardinality(Held \cup {r}) BY <1>1, FS_Subset
<1>3. Cardinality(Counted') <= Cardinality(Counted) BY ClaimsFinite, FS_Subset
<1>4. IsFiniteSet(Held') /\ IsFiniteSet(Counted') BY <1>1, ClaimsFinite, FS_Subset
<1>5. Cardinality(Held') \in Nat /\ Cardinality(Counted') \in Nat
      /\ Cardinality(Held \cup {r}) \in Nat
  BY <1>1, <1>4, FS_CardinalityType
<1> QED BY <1>1, <1>2, <1>3, <1>5, ClaimsFinite DEF TInv, TypeOK, Claims

(* ... when one begins to run, ... *)
LEMMA CountClaim ==
    ASSUME TInv, NEW r \in Held, Held' \subseteq Held \ {r}, Counted' \subseteq Counted \cup {r},
           held' = held - 1, running' = running + 1
    PROVE  Claims' /\ held' \in Nat /\ running' \in Nat
<1>1. IsFiniteSet(Counted \cup {r}) /\ Cardinality(Counted \cup {r}) <= Cardinality(Counted) + 1
  <2>1. IsFiniteSet(Counted \cup {r})
        /\ Cardinality(Counted \cup {r})
             = IF r \in Counted THEN Cardinality(Counted) ELSE Cardinality(Counted) + 1
    BY ClaimsFinite, FS_AddElement
  <2> QED BY <2>1, ClaimsFinite
<1>2. Cardinality(Counted') <= Cardinality(Counted \cup {r}) BY <1>1, FS_Subset
<1>3. IsFiniteSet(Held \ {r}) /\ Cardinality(Held \ {r}) = Cardinality(Held) - 1
  BY ClaimsFinite, FS_RemoveElement
<1>4. Cardinality(Held') <= Cardinality(Held \ {r}) BY <1>3, FS_Subset
<1>5. IsFiniteSet(Held') /\ IsFiniteSet(Counted') BY <1>1, <1>3, FS_Subset
<1>6. Cardinality(Held') \in Nat /\ Cardinality(Counted') \in Nat
      /\ Cardinality(Held \ {r}) \in Nat /\ Cardinality(Counted \cup {r}) \in Nat
  BY <1>1, <1>3, <1>5, FS_CardinalityType
<1> QED BY <1>1, <1>2, <1>3, <1>4, <1>6, ClaimsFinite DEF TInv, TypeOK, Claims

(* ... when one is given back, ... *)
LEMMA LeaveClaim ==
    ASSUME TInv, NEW r \in Counted, Held' \subseteq Held, Counted' \subseteq Counted \ {r},
           held' = held, running' = running - 1
    PROVE  Claims' /\ held' \in Nat /\ running' \in Nat
<1>1. IsFiniteSet(Counted \ {r}) /\ Cardinality(Counted \ {r}) = Cardinality(Counted) - 1
  BY ClaimsFinite, FS_RemoveElement
<1>2. Cardinality(Counted') <= Cardinality(Counted \ {r}) BY <1>1, FS_Subset
<1>3. Cardinality(Held') <= Cardinality(Held) BY ClaimsFinite, FS_Subset
<1>4. IsFiniteSet(Held') /\ IsFiniteSet(Counted') BY <1>1, ClaimsFinite, FS_Subset
<1>5. Cardinality(Held') \in Nat /\ Cardinality(Counted') \in Nat
      /\ Cardinality(Counted \ {r}) \in Nat
  BY <1>1, <1>4, FS_CardinalityType
<1> QED BY <1>1, <1>2, <1>3, <1>5, ClaimsFinite DEF TInv, TypeOK, Claims

(* ... and when none is. *)
LEMMA KeepClaims ==
    ASSUME TInv, Held' \subseteq Held, Counted' \subseteq Counted, held' = held, running' = running
    PROVE  Claims' /\ held' \in Nat /\ running' \in Nat
<1>1. Cardinality(Counted') <= Cardinality(Counted) BY ClaimsFinite, FS_Subset
<1>2. Cardinality(Held') <= Cardinality(Held) BY ClaimsFinite, FS_Subset
<1>3. IsFiniteSet(Held') /\ IsFiniteSet(Counted') BY ClaimsFinite, FS_Subset
<1>4. Cardinality(Held') \in Nat /\ Cardinality(Counted') \in Nat BY <1>3, FS_CardinalityType
<1> QED BY <1>1, <1>2, <1>4, ClaimsFinite DEF TInv, TypeOK, Claims

(* One request goes from a stage to another one. *)
Becomes(r, v) == stage' = [stage EXCEPT ![r] = v]

LEMMA StageOf ==
    ASSUME TInv, NEW r \in Requests, NEW v \in Stages, Becomes(r, v)
    PROVE  /\ stage' \in [Requests -> Stages]
           /\ \A x \in Requests : stage'[x] = IF x = r THEN v ELSE stage[x]
  BY DEF TInv, TypeOK, Becomes

(* What is left of the list without r *)
LEMMA AllButListed ==
    ASSUME TInv, NEW r \in Queued
    PROVE  /\ AllBut(r) \in Seq(Requests) /\ Distinct(AllBut(r))
           /\ \A x : IsIn(AllBut(r), x) <=> IsIn(requests, x) /\ x # r
<1>1. r \in Requests /\ IsIn(requests, r) BY DEF Queued, TInv, Listed
<1>2. Position(r) \in DOMAIN requests /\ requests[Position(r)] = r
  BY <1>1 DEF Position, IsIn
<1>3. requests \in Seq(Requests) /\ Distinct(requests) BY DEF TInv, TypeOK, Listed
<1>4. AllBut(r) \in Seq(Requests) /\ Distinct(AllBut(r))
  BY <1>2, <1>3, RemoveAtDistinct DEF AllBut, Distinct
<1> QED BY <1>2, <1>3, <1>4, RemoveAtIsIn DEF AllBut

(* A step of the handler of r that takes no claim *)
LEMMA HandlerMoves ==
    ASSUME TInv, NEW r \in Requests, NEW v \in Stages, Becomes(r, v),
           stage[r] # "queued", v # "queued",
           v \in HeldIn(r) => stage[r] \in HeldIn(r),
           v \in CountedIn(r) => stage[r] \in CountedIn(r),
           requests' = requests, held' = held, running' = running
    PROVE  Listed' /\ Claims' /\ stage' \in [Requests -> Stages]
<1>1. /\ stage' \in [Requests -> Stages]
      /\ \A x \in Requests : stage'[x] = IF x = r THEN v ELSE stage[x]
  BY StageOf
<1>2. Listed' BY <1>1 DEF Listed, TInv, IsIn, Distinct
<1>3. Held' \subseteq Held /\ Counted' \subseteq Counted BY <1>1 DEF Held, Counted, HeldIn, CountedIn
<1>4. Claims' BY <1>3, KeepClaims
<1> QED BY <1>1, <1>2, <1>4

(* A step that moves no request *)
LEMMA LoopRests ==
    ASSUME TInv, stage' = stage, requests' = requests, held' = held, running' = running
    PROVE  Listed' /\ Claims'
BY DEF Listed, Claims, TInv, IsIn, Distinct, Held, Counted

(* The handler of r passes its claim from reserved to counted. *)
LEMMA HandlerCounts ==
    ASSUME TInv, NEW r \in Requests, NEW v \in Stages, Becomes(r, v),
           v # "queued", v \notin HeldIn(r), stage[r] \in HeldIn(r),
           requests' = requests, held' = held - 1, running' = running + 1
    PROVE  Listed' /\ Claims' /\ stage' \in [Requests -> Stages] /\ held' \in Nat /\ running' \in Nat
<1>1. /\ stage' \in [Requests -> Stages]
      /\ \A x \in Requests : stage'[x] = IF x = r THEN v ELSE stage[x]
  BY StageOf
<1>2. Listed' BY <1>1 DEF Listed, TInv, IsIn, Distinct, HeldIn
<1>3. r \in Held /\ Held' \subseteq Held \ {r} /\ Counted' \subseteq Counted \cup {r}
  BY <1>1 DEF Held, Counted, HeldIn, CountedIn
<1> QED BY <1>1, <1>2, <1>3, CountClaim

-----------------------------------------------------------------------------
(* The steps of the loop and of the handlers preserve the types. *)

LEMMA RequestTypes ==
    ASSUME TInv, NEW j \in Jobs, Request(j)
    PROVE  TInv'
<1> DEFINE r == Production(j)
<1>1. r \in Requests /\ ~IsSetup(r) BY RequestsKnown
<1>2. stage[r] = "new" /\ Becomes(r, "queued") /\ "queued" \in Stages
  BY DEF Request, Becomes, Stages
<1>3. /\ stage' \in [Requests -> Stages]
      /\ \A x \in Requests : stage'[x] = IF x = r THEN "queued" ELSE stage[x]
  BY <1>1, <1>2, StageOf
<1>4. requests \in Seq(Requests) /\ Distinct(requests) /\ ~IsIn(requests, r)
  BY <1>1, <1>2 DEF TInv, TypeOK, Listed
<1>5. /\ requests' \in Seq(Requests) /\ Distinct(requests')
      /\ \A y : IsIn(requests', y) <=> IsIn(requests, y) \/ y = r
  BY <1>1, <1>4, AppendIsIn DEF Request
<1>6. Listed' BY <1>3, <1>5 DEF Listed, TInv, IsIn, Distinct
<1>7. Held' \subseteq Held /\ Counted' \subseteq Counted
  BY <1>3 DEF Held, Counted, HeldIn, CountedIn
<1>8. Claims' BY <1>7, KeepClaims DEF Request, counts
<1> HIDE DEF r
<1>9. TypeOK' BY <1>3, <1>5 DEF Request, TInv, TypeOK, counts, schedule, links, setups
<1> QED BY <1>6, <1>8, <1>9 DEF TInv

LEMMA InjectTypes ==
    ASSUME TInv, NEW i \in DOMAIN plan, WakeAndInject(i)
    PROVE  TInv'
<1> DEFINE r == plan[i]
<1>1. r \in Requests /\ r[1] \in Jobs
  <2>1. plan \in Seq(Requests) BY PlansAssumption DEF TInv, TypeOK
  <2>2. r \in Requests BY <2>1
  <2> QED BY <2>2, RequestsKnown
<1>2. stage[r] # "queued" /\ Becomes(r, "queued") /\ "queued" \in Stages
  BY <1>1 DEF WakeAndInject, CanInject, Queued, Becomes, Stages
<1>3. /\ stage' \in [Requests -> Stages]
      /\ \A x \in Requests : stage'[x] = IF x = r THEN "queued" ELSE stage[x]
  BY <1>1, <1>2, StageOf
<1>4. requests \in Seq(Requests) /\ Distinct(requests) /\ ~IsIn(requests, r)
  BY <1>1, <1>2 DEF TInv, TypeOK, Listed
<1>5. /\ requests' \in Seq(Requests) /\ Distinct(requests')
      /\ \A y : IsIn(requests', y) <=> IsIn(requests, y) \/ y = r
  BY <1>1, <1>4, AppendIsIn DEF WakeAndInject
<1>6. Listed' BY <1>3, <1>5 DEF Listed, TInv, IsIn, Distinct
<1>7. Held' \subseteq Held /\ Counted' \subseteq Counted
  BY <1>3 DEF Held, Counted, HeldIn, CountedIn
<1>8. Claims' BY <1>7, KeepClaims DEF WakeAndInject, counts
<1>9. named' \subseteq Jobs BY <1>1 DEF WakeAndInject, TInv, TypeOK
<1> HIDE DEF r
<1>10. TypeOK' BY <1>3, <1>5, <1>9 DEF WakeAndInject, TInv, TypeOK, counts, schedule, setups
<1> QED BY <1>6, <1>8, <1>10 DEF TInv

LEMMA CreateTypes ==
    ASSUME TInv, NEW r \in Requests, WakeAndCreate(r)
    PROVE  TInv'
<1> DEFINE s == Setup(r[1])
           list == IF s \in Queued THEN AllBut(r) ELSE Append(AllBut(r), s)
<1>1. r[1] \in Jobs /\ s \in Requests /\ IsSetup(s) /\ ~IsSetup(r) /\ r # s
  BY RequestsKnown DEF WakeAndCreate, NeedsSetupRequest
<1>2. r \in Queued BY DEF WakeAndCreate, Selected, Eligible
<1>3. Becomes(s, "queued") /\ "queued" \in Stages /\ requests' = Append(list, r)
  BY DEF WakeAndCreate, Becomes, Stages
<1> HIDE DEF s
<1>4. /\ stage' \in [Requests -> Stages]
      /\ \A x \in Requests : stage'[x] = IF x = s THEN "queued" ELSE stage[x]
  BY <1>1, <1>3, StageOf
<1>5. /\ AllBut(r) \in Seq(Requests) /\ Distinct(AllBut(r))
      /\ \A x : IsIn(AllBut(r), x) <=> IsIn(requests, x) /\ x # r
  BY <1>2, AllButListed
<1>6. s \in Queued <=> IsIn(requests, s) BY <1>1 DEF Queued, TInv, Listed
<1>7. /\ list \in Seq(Requests) /\ Distinct(list)
      /\ \A x : IsIn(list, x) <=> (IsIn(requests, x) /\ x # r) \/ x = s
  <2>1. CASE s \in Queued BY <1>1, <1>5, <1>6, <2>1
  <2>2. CASE s \notin Queued
    <3>1. ~IsIn(AllBut(r), s) BY <1>5, <1>6, <2>2
    <3> QED BY <1>1, <1>5, <2>2, <3>1, AppendIsIn
  <2> QED BY <2>1, <2>2
<1> HIDE DEF list
<1>8. ~IsIn(list, r) BY <1>1, <1>7
<1>9. /\ requests' \in Seq(Requests) /\ Distinct(requests')
      /\ \A y : IsIn(requests', y) <=> IsIn(list, y) \/ y = r
  BY <1>3, <1>7, <1>8, AppendIsIn
<1>10. \A y \in Requests : IsIn(requests', y) <=> IsIn(requests, y) \/ y = s
  BY <1>2, <1>7, <1>9 DEF Queued, TInv, Listed
<1>11. Listed' BY <1>1, <1>4, <1>9, <1>10 DEF Listed, TInv, IsIn, Distinct
<1>12. Held' \subseteq Held /\ Counted' \subseteq Counted
  BY <1>1, <1>4 DEF Held, Counted, HeldIn, CountedIn
<1>13. Claims' BY <1>12, KeepClaims DEF WakeAndCreate, counts
<1>14. TypeOK'
  BY <1>1, <1>4, <1>9 DEF WakeAndCreate, TInv, TypeOK, counts, schedule, setups
<1> QED BY <1>11, <1>13, <1>14 DEF TInv

LEMMA StartTypes ==
    ASSUME TInv, NEW r \in Requests, WakeAndStart(r)
    PROVE  TInv'
<1>1. r \in Queued /\ stage[r] = "queued" BY DEF WakeAndStart, Startable, Selected, Eligible, Queued
<1>2. Becomes(r, "accepted") /\ "accepted" \in Stages BY DEF WakeAndStart, Becomes, Stages
<1>3. /\ stage' \in [Requests -> Stages]
      /\ \A x \in Requests : stage'[x] = IF x = r THEN "accepted" ELSE stage[x]
  BY <1>2, StageOf
<1>4. /\ requests' \in Seq(Requests) /\ Distinct(requests')
      /\ \A y : IsIn(requests', y) <=> IsIn(requests, y) /\ y # r
  BY <1>1, AllButListed DEF WakeAndStart
<1>5. Listed' BY <1>3, <1>4 DEF Listed, TInv, IsIn, Distinct
<1>6. Held' \subseteq Held \cup {r} /\ Counted' \subseteq Counted
  BY <1>3 DEF Held, Counted, HeldIn, CountedIn
<1>7. Claims' /\ held' \in Nat /\ running' \in Nat BY <1>6, TakeClaim DEF WakeAndStart
<1>8. TypeOK'
  BY <1>3, <1>4, <1>7 DEF WakeAndStart, Locks, TInv, TypeOK, schedule, links
<1> QED BY <1>5, <1>7, <1>8 DEF TInv

LEMMA LoopTypes ==
    ASSUME TInv, Wake
    PROVE  TInv'
<1>1. ASSUME NEW r \in Requests, WakeWithoutRoom(r) PROVE TInv'
  <2>1. r \in Queued BY <1>1 DEF WakeWithoutRoom, Startable, Selected, Eligible
  <2>2. /\ AllBut(r) \in Seq(Requests) /\ Distinct(AllBut(r))
        /\ \A x : IsIn(AllBut(r), x) <=> IsIn(requests, x) /\ x # r
    BY <2>1, AllButListed
  <2>3. /\ requests' \in Seq(Requests) /\ Distinct(requests')
        /\ \A y : IsIn(requests', y) <=> IsIn(AllBut(r), y) \/ y = r
    BY <1>1, <2>2, AppendIsIn DEF WakeWithoutRoom, ToEnd
  <2>4. IsIn(requests, r) BY <2>1 DEF Queued, TInv, Listed
  <2>5. stage' = stage /\ held' = held /\ running' = running BY <1>1 DEF WakeWithoutRoom, counts
  <2>6. Listed' BY <2>2, <2>3, <2>4, <2>5 DEF Listed, TInv, IsIn, Distinct
  <2>7. Claims' BY <2>5 DEF Claims, TInv, Held, Counted
  <2>8. TypeOK'
    BY <1>1, <2>3 DEF WakeWithoutRoom, TInv, TypeOK, schedule, links, counts, setups
  <2> QED BY <2>6, <2>7, <2>8 DEF TInv
<1>2. ASSUME NEW r \in Requests, WakeAndDelay(r) PROVE TInv'
  <2>1. plan \in Seq(Requests) BY PlansAssumption DEF TInv, TypeOK
  <2>2. delayed' \in Nat BY <1>2, <2>1 DEF WakeAndDelay
  <2>3. Listed' /\ Claims' BY <1>2, LoopRests DEF WakeAndDelay, counts
  <2>4. TypeOK' BY <1>2, <2>2 DEF WakeAndDelay, TInv, TypeOK, schedule, links, counts, setups
  <2> QED BY <2>3, <2>4 DEF TInv
<1>3. CASE WakeInVain
  <2>1. Listed' /\ Claims' BY <1>3, LoopRests DEF WakeInVain, counts
  <2>2. TypeOK' BY <1>3 DEF WakeInVain, TInv, TypeOK, schedule, links, counts, setups
  <2> QED BY <2>1, <2>2 DEF TInv
<1>4. CASE DelayOver
  <2>1. Listed' /\ Claims' BY <1>4, LoopRests DEF DelayOver, counts
  <2>2. TypeOK' BY <1>4 DEF DelayOver, TInv, TypeOK, schedule, links, counts, setups
  <2> QED BY <2>1, <2>2 DEF TInv
<1> QED BY <1>1, <1>2, <1>3, <1>4, InjectTypes, CreateTypes, StartTypes DEF Wake

(* The ways of a handler into setup *)
LEMMA EnterTypes ==
    ASSUME TInv, NEW r \in Requests, NEW v \in {"trivial", "joining", "clearing", "ready"},
           EnterSetup(r), Becomes(r, v), reserved' \in MaybeProcess, pending' \in BOOLEAN,
           awaits' \in [Requests -> SUBSET Requests]
    PROVE  TInv'
<1>1. stage[r] = "accepted" /\ v \in Stages /\ requests' = requests
  BY DEF EnterSetup, Stages, loop
<1>2. completed' \subseteq DOMAIN plan BY DEF EnterSetup, Consumed, TInv, TypeOK
<1>3. CASE IsSetup(r)
  <2>1. held' = held - 1 /\ running' = running + 1 BY <1>3 DEF EnterSetup
  <2>2. v # "queued" /\ v \notin HeldIn(r) /\ stage[r] \in HeldIn(r) BY <1>1, <1>3 DEF HeldIn
  <2>3. Listed' /\ Claims' /\ stage' \in [Requests -> Stages] /\ held' \in Nat /\ running' \in Nat
    BY <1>1, <2>1, <2>2, HandlerCounts
  <2>4. TypeOK' BY <1>2, <2>3 DEF EnterSetup, TInv, TypeOK, links, loop
  <2> QED BY <2>3, <2>4 DEF TInv
<1>4. CASE ~IsSetup(r)
  <2>1. held' = held /\ running' = running BY <1>4 DEF EnterSetup
  <2>2. /\ v # "queued" /\ stage[r] # "queued"
        /\ stage[r] \in HeldIn(r) /\ v \notin CountedIn(r)
    BY <1>1, <1>4 DEF HeldIn, CountedIn
  <2>3. Listed' /\ Claims' /\ stage' \in [Requests -> Stages]
    BY <1>1, <2>1, <2>2, HandlerMoves
  <2>4. TypeOK' BY <1>2, <2>1, <2>3 DEF EnterSetup, TInv, TypeOK, links, loop
  <2> QED BY <2>3, <2>4 DEF TInv
<1> QED BY <1>3, <1>4

(* The steps of a handler on its way *)
LEMMA WayTypes ==
    ASSUME TInv, NEW r \in Requests, NEW v \in Stages, Becomes(r, v),
           stage[r] # "queued", v # "queued",
           v \in HeldIn(r) => stage[r] \in HeldIn(r),
           v \in CountedIn(r) => stage[r] \in CountedIn(r),
           UNCHANGED <<counts, schedule, links, loop>>,
           current' \in MaybeProcess, reserved' \in MaybeProcess, pending' \in BOOLEAN,
           awaits' \in [Requests -> SUBSET Requests]
    PROVE  TInv'
<1>1. Listed' /\ Claims' /\ stage' \in [Requests -> Stages]
  BY HandlerMoves DEF counts, loop
<1>2. TypeOK' BY <1>1 DEF TInv, TypeOK, counts, schedule, links, loop
<1> QED BY <1>1, <1>2 DEF TInv

LEMMA HandlerTypes ==
    ASSUME TInv, NEW r \in Requests, Handler(r)
    PROVE  TInv'
<1> USE DEF Becomes
<1>1. /\ Target(r) \in MaybeProcess /\ NoProcess \in MaybeProcess
      /\ RunningSetups \subseteq Requests /\ Processing \subseteq Requests
      /\ current \in MaybeProcess /\ reserved \in MaybeProcess /\ pending \in BOOLEAN
      /\ awaits \in [Requests -> SUBSET Requests] /\ stage \in [Requests -> Stages]
  BY RequestsKnown DEF TInv, TypeOK, MaybeProcess, RunningSetups, Processing
<1>2. CASE SetUpFirst(r) BY <1>1, <1>2, EnterTypes DEF SetUpFirst
<1>3. CASE JoinSetup(r)
  <2>1. awaits' \in [Requests -> SUBSET Requests] BY <1>1, <1>3 DEF JoinSetup
  <2> QED BY <1>1, <1>3, <2>1, EnterTypes DEF JoinSetup
<1>4. CASE SkipSetup(r) BY <1>1, <1>4, EnterTypes DEF SkipSetup
<1>5. CASE BeginChangeover(r)
  <2>1. awaits' \in [Requests -> SUBSET Requests] BY <1>1, <1>5 DEF BeginChangeover
  <2> QED BY <1>1, <1>5, <2>1, EnterTypes DEF BeginChangeover
<1> USE DEF HeldIn, CountedIn, Stages
<1>6. CASE FirstSetupOver(r) BY <1>1, <1>6, WayTypes DEF FirstSetupOver
<1>7. CASE JoinOver(r) BY <1>1, <1>7, WayTypes DEF JoinOver, setups
<1>8. CASE ClearOver(r)
  <2>1. awaits' \in [Requests -> SUBSET Requests] BY <1>1, <1>8 DEF ClearOver, RunningStates
  <2> QED BY <1>1, <1>8, <2>1, WayTypes DEF ClearOver, setups
<1>9. CASE WorkOnSetup(r) BY <1>1, <1>9, WayTypes DEF WorkOnSetup, setups
<1>10. CASE EndChangeover(r)
  <2>1. awaits' \in [Requests -> SUBSET Requests] BY <1>1, <1>10 DEF EndChangeover
  <2> QED BY <1>1, <1>10, <2>1, WayTypes DEF EndChangeover, Unreserved
<1>11. CASE StartProduction(r)
  <2> DEFINE v == IF FreeState(Target(r)) THEN "processing" ELSE "started"
  <2>1. v \in Stages /\ v # "queued" /\ v \notin HeldIn(r) /\ stage[r] \in HeldIn(r) /\ Becomes(r, v)
    BY <1>11 DEF StartProduction
  <2>2. completed' \subseteq DOMAIN plan BY <1>11 DEF StartProduction, Consumed, TInv, TypeOK
  <2> HIDE DEF v
  <2>3. Listed' /\ Claims' /\ stage' \in [Requests -> Stages] /\ held' \in Nat /\ running' \in Nat
    <3>1. requests' = requests /\ held' = held - 1 /\ running' = running + 1
      BY <1>11 DEF StartProduction, loop
    <3> HIDE DEF Becomes, HeldIn, CountedIn, Stages
    <3> QED BY <2>1, <3>1, HandlerCounts
  <2> HIDE DEF HeldIn, CountedIn, Stages
  <2>4. TypeOK' BY <1>11, <2>2, <2>3 DEF StartProduction, TInv, TypeOK, links, loop, setups
  <2> QED BY <2>3, <2>4 DEF TInv
<1>12. CASE GetState(r) BY <1>1, <1>12, WayTypes DEF GetState, setups
<1>13. CASE EndProduction(r)
  <2>1. awaits' \in [Requests -> SUBSET Requests] BY <1>1, <1>13 DEF EndProduction
  <2> QED BY <1>1, <1>13, <2>1, WayTypes DEF EndProduction, setups
<1>14. CASE Finish(r)
  <2>1. /\ stage' \in [Requests -> Stages]
        /\ \A x \in Requests : stage'[x] = IF x = r THEN "done" ELSE stage[x]
    BY <1>1, <1>14 DEF Finish
  <2>2. requests' = requests /\ held' = held /\ running' = running - 1 BY <1>14 DEF Finish
  <2>3. Listed' BY <1>14, <2>1, <2>2 DEF Listed, TInv, IsIn, Distinct, Finish
  <2>4. r \in Counted /\ Held' \subseteq Held /\ Counted' \subseteq Counted \ {r}
    BY <1>14, <2>1 DEF Held, Counted, Finish
  <2>5. Claims' /\ held' \in Nat /\ running' \in Nat BY <2>2, <2>4, LeaveClaim
  <2>6. TypeOK' BY <1>14, <2>1, <2>5 DEF Finish, Unlocked, TInv, TypeOK, schedule, links
  <2> QED BY <2>3, <2>5, <2>6 DEF TInv
<1> QED BY <1>2, <1>3, <1>4, <1>5, <1>6, <1>7, <1>8, <1>9, <1>10, <1>11, <1>12, <1>13, <1>14
    DEF Handler

LEMMA TInvInit ==
    ASSUME Init
    PROVE  TInv
<1>1. TypeOK
  <2>1. "new" \in Stages /\ NoProcess \in MaybeProcess BY DEF Stages, MaybeProcess
  <2>2. requests \in Seq(Requests) BY DEF Init
  <2> QED BY <2>1, <2>2 DEF Init, TypeOK
<1>2. Listed BY DEF Init, Listed, IsIn, Distinct
<1>3. Held = {} /\ Counted = {} BY DEF Init, Held, Counted, HeldIn, CountedIn
<1>4. Claims BY <1>3, FS_EmptySet DEF Init, Claims
<1> QED BY <1>1, <1>2, <1>4 DEF TInv

LEMMA TInvNext ==
    ASSUME TInv, [Next]_vars
    PROVE  TInv'
<1>1. CASE PlanAdvances
  <2>1. Listed' /\ Claims' BY <1>1, LoopRests DEF PlanAdvances, counts, loop
  <2>2. TypeOK' BY <1>1 DEF PlanAdvances, TInv, TypeOK, loop, links, counts, setups
  <2> QED BY <2>1, <2>2 DEF TInv
<1>2. CASE UNCHANGED vars
  <2>1. Listed' /\ Claims' BY <1>2, LoopRests DEF vars, counts, loop
  <2>2. TypeOK' BY <1>2 DEF vars, TInv, TypeOK, loop, schedule, links, counts, setups
  <2> QED BY <2>1, <2>2 DEF TInv
<1> QED BY <1>1, <1>2, LoopTypes, RequestTypes, HandlerTypes DEF Next

LEMMA TInvAlways == Spec => []TInv
BY TInvInit, TInvNext, PTL DEF Spec

(* Every variable keeps its type: the counters of a resource, which cover  *)
(* the claims of its handlers, are never negative.                         *)
THEOREM TypeCorrect == Spec => []TypeOK
<1>1. TInv => TypeOK BY DEF TInv
<1> QED BY <1>1, TInvAlways, PTL

-----------------------------------------------------------------------------
(* No planned changeover is early. *)

(* A planned changeover that is under way is due. *)
AcceptedDue ==
    \A i \in DOMAIN plan : IsSetup(plan[i]) =>
        (i \in completed \/ stage[plan[i]] = "accepted" => i <= due)

LEMMA AcceptedDueNext ==
    ASSUME TInv, AcceptedDue, [Next]_vars
    PROVE  AcceptedDue'
<1>1. plan \in Seq(Requests) /\ due \in Nat /\ \A i \in DOMAIN plan : i \in Nat /\ plan[i] \in Requests
  BY PlansAssumption DEF TInv, TypeOK
<1>2. stage \in [Requests -> Stages] BY DEF TInv, TypeOK
<1> SUFFICES ASSUME NEW i \in DOMAIN plan', IsSetup(plan'[i]),
                    i \in completed' \/ stage'[plan'[i]] = "accepted"
             PROVE  i <= due'
  BY DEF AcceptedDue
<1>3. plan' = plan /\ due' >= due
  <2>1. CASE Wake
    BY <1>1, <2>1 DEF Wake, WakeInVain, DelayOver, WakeAndInject, WakeAndCreate, WakeAndDelay,
                      WakeWithoutRoom, WakeAndStart, schedule
  <2>2. ASSUME NEW r \in Requests, Handler(r) PROVE plan' = plan /\ due' >= due
    BY <1>1, <2>2 DEF Handler, SetUpFirst, JoinSetup, SkipSetup, BeginChangeover, EnterSetup,
          FirstSetupOver, JoinOver, ClearOver, WorkOnSetup, EndChangeover, StartProduction,
          GetState, EndProduction, Finish, schedule
  <2>3. CASE PlanAdvances BY <1>1, <2>3 DEF PlanAdvances
  <2>4. CASE UNCHANGED vars BY <1>1, <2>4 DEF vars, schedule
  <2>5. ASSUME NEW j \in Jobs, Request(j) PROVE plan' = plan /\ due' >= due
    BY <1>1, <2>5 DEF Request, schedule
  <2> QED BY <2>1, <2>2, <2>3, <2>4, <2>5 DEF Next
<1>4. i \in DOMAIN plan /\ plan[i] \in Requests /\ i \in Nat /\ IsSetup(plan[i]) BY <1>1, <1>3
<1>5. SUFFICES i \in completed \/ stage[plan[i]] = "accepted" \/ i <= due
  <2>1. i <= due BY <1>4, <1>5 DEF AcceptedDue
  <2>2. due' \in Nat BY TInvNext DEF TInv, TypeOK
  <2> QED BY <1>1, <1>3, <1>4, <2>1, <2>2
<1>6. ASSUME NEW r \in Requests, Handler(r)
      PROVE  i \in completed \/ stage[plan[i]] = "accepted"
  <2>1. CASE EnterSetup(r) /\ \E v \in {"trivial", "joining", "clearing", "ready"} : Becomes(r, v)
    <3>1. ASSUME stage'[plan[i]] = "accepted" PROVE stage[plan[i]] = "accepted"
      BY <1>2, <1>4, <2>1, <3>1 DEF Becomes
    <3>2. ASSUME i \in completed', i \notin completed PROVE plan[i] = r /\ stage[r] = "accepted"
      BY <2>1, <3>2 DEF EnterSetup, Consumed, IsEventOf
    <3> QED BY <1>3, <3>1, <3>2
  <2>2. CASE StartProduction(r)
    <3>1. ASSUME stage'[plan[i]] = "accepted" PROVE stage[plan[i]] = "accepted"
      BY <1>2, <1>4, <2>2, <3>1 DEF StartProduction
    <3>2. ASSUME i \in completed', i \notin completed PROVE FALSE
      BY <1>4, <2>2, <3>2 DEF StartProduction, Consumed, IsEventOf
    <3> QED BY <1>3, <3>1, <3>2
  <2>3. CASE completed' = completed /\ \E v \in Stages \ {"accepted"} : Becomes(r, v)
    <3>1. ASSUME stage'[plan[i]] = "accepted" PROVE stage[plan[i]] = "accepted"
      BY <1>2, <1>4, <2>3, <3>1 DEF Becomes
    <3> QED BY <1>3, <2>3, <3>1
  <2> QED
    BY <1>6, <2>1, <2>2, <2>3 DEF Handler, SetUpFirst, JoinSetup, SkipSetup, BeginChangeover,
        FirstSetupOver, JoinOver, ClearOver, WorkOnSetup, EndChangeover,
        GetState, EndProduction, Finish, Becomes, Stages, schedule
<1>7. ASSUME NEW r \in Requests, WakeAndStart(r)
      PROVE  i \in completed \/ stage[plan[i]] = "accepted" \/ i <= due
  <2>1. completed' = completed BY <1>7 DEF WakeAndStart, schedule
  <2>2. CASE plan[i] = r BY <1>1, <1>4, <1>7, <2>2 DEF WakeAndStart, TooEarly, IsEventOf
  <2>3. CASE plan[i] # r BY <1>2, <1>3, <1>4, <1>7, <2>1, <2>3 DEF WakeAndStart
  <2> QED BY <2>2, <2>3
<1>8. ASSUME NEW r \in Requests, WakeAndCreate(r)
      PROVE  i \in completed \/ stage[plan[i]] = "accepted"
  BY <1>2, <1>3, <1>4, <1>8 DEF WakeAndCreate, schedule
<1>9. ASSUME NEW k \in DOMAIN plan, WakeAndInject(k)
      PROVE  i \in completed \/ stage[plan[i]] = "accepted"
  BY <1>2, <1>3, <1>4, <1>9 DEF WakeAndInject, schedule
<1>10. ASSUME NEW j \in Jobs, Request(j)
      PROVE  i \in completed \/ stage[plan[i]] = "accepted"
  BY <1>2, <1>3, <1>4, <1>10 DEF Request, schedule
<1>11. CASE stage' = stage /\ completed' = completed BY <1>3, <1>11
<1>12. CASE Wake
  BY <1>7, <1>8, <1>9, <1>11, <1>12 DEF Wake, WakeInVain, DelayOver, WakeAndDelay,
      WakeWithoutRoom, schedule
<1> QED BY <1>6, <1>10, <1>11, <1>12 DEF Next, PlanAdvances, vars, schedule

(* No planned changeover begins before its planned start: the loop that    *)
(* starts it has seen that it is due, and it stays due while its handler   *)
(* waits.                                                                  *)
THEOREM NeverEarly == Spec => []NoEarlyChangeover
<1>1. Init => AcceptedDue
  <2> SUFFICES ASSUME Init PROVE AcceptedDue OBVIOUS
  <2>1. plan \in Seq(Requests) /\ \A i \in DOMAIN plan : plan[i] \in Requests
    BY PlansAssumption DEF Init
  <2> QED BY <2>1 DEF Init, AcceptedDue
<1>2. TInv /\ AcceptedDue => NoEarlyChangeover
  BY DEF TInv, TypeOK, AcceptedDue, NoEarlyChangeover
<1>3. TInv /\ AcceptedDue /\ [Next]_vars => AcceptedDue' BY AcceptedDueNext
<1> QED BY <1>1, <1>2, <1>3, TInvAlways, PTL DEF Spec

-----------------------------------------------------------------------------
(* A full plan is followed.  The events up to the n-th one have begun, the *)
(* next one is on its way, and of the others only productions are queued.  *)

(* The stage of an event of the plan *)
At(i) == stage[plan[i]]

Changing == {"clearing", "changing", "working"}

(* Before and after an event of the plan is consumed *)
WaitingIn(r) ==
    IF IsSetup(r) THEN {"new", "queued", "accepted"}
    ELSE {"new", "queued", "accepted", "trivial", "joining", "ready"}
BegunIn(r) ==
    IF IsSetup(r) THEN Changing \cup {"joining", "ready", "done"}
    ELSE {"processing", "unloading", "done"}

InTurn(n) ==
    /\ n \in 0 .. Len(plan) /\ completed = 1 .. n
    /\ \A i \in DOMAIN plan :
          /\ i <= n => At(i) \in BegunIn(plan[i])
          /\ i > n => At(i) \in WaitingIn(plan[i])
          /\ i > n + 1 => At(i) \in {"new", "queued"} /\ (IsSetup(plan[i]) => At(i) = "new")
          /\ At(i) \in Changing => i = n
    /\ n > 0 /\ At(n) \in Changing => At(n + 1) \in {"new", "queued"}
    /\ \A r \in Requests : (\A i \in DOMAIN plan : plan[i] # r) => stage[r] = "new"

(* The resource is set up for the last event that has begun. *)
SetUpTo(n) ==
    /\ n = 0 => reserved = NoProcess /\ current \in {NoProcess, Target(plan[1])}
    /\ n > 0 => IF At(n) \in Changing
                THEN reserved = Target(plan[n]) /\ current = Target(plan[n - 1])
                ELSE reserved = NoProcess /\ current = Target(plan[n])
    /\ \A i \in DOMAIN plan : ~IsSetup(plan[i]) =>
          /\ At(i) = "trivial" => n = 0
          /\ At(i) \in {"joining", "ready"} => current # NoProcess

Alone ==
    \A i \in DOMAIN plan :
        /\ At(i) = "changing" => Processing \subseteq awaits[plan[i]]
        /\ At(i) = "working" => Processing = {}
        /\ At(i) = "processing" => current = Target(plan[i])

(* The productions of a product come one after the other. *)
Ordered ==
    \A i, k \in DOMAIN plan :
        /\ i < k /\ ~IsSetup(plan[i]) /\ ~IsSetup(plan[k])
        /\ Product[plan[i][1]] = Product[plan[k][1]] /\ At(k) # "new"
        => At(i) = "done"

(* Every production that was accepted has a state of its process. *)
Of(p) ==
    {r \in Requests : /\ ~IsSetup(r) /\ Target(r) = p
                      /\ stage[r] \in HeldIn(r) \cup CountedIn(r)}
Room == \A p \in Processes : Cardinality(Of(p)) <= Slots[p]

Turn(n) == InTurn(n) /\ SetUpTo(n) /\ Alone /\ Ordered /\ Room
PInv == Planned => \E n \in Nat : Turn(n)

(* The shape of a full plan *)
LEMMA PlanShape ==
    ASSUME FullPlans, TInv, Planned
    PROVE  /\ Len(plan) \in Nat /\ DOMAIN plan = 1 .. Len(plan) /\ 1 \in DOMAIN plan
           /\ \A i \in DOMAIN plan :
                 /\ plan[i] \in Requests /\ plan[i][1] \in Jobs
                 /\ Target(plan[i]) \in Processes /\ Target(plan[i]) # NoProcess
           /\ \A i, k \in DOMAIN plan : plan[i] = plan[k] => i = k
           /\ \A i \in DOMAIN plan : IsSetup(plan[i]) =>
                 /\ i > 1 /\ i - 1 \in DOMAIN plan /\ ~IsSetup(plan[i - 1])
                 /\ i + 1 \in DOMAIN plan /\ plan[i + 1] = Production(plan[i][1])
                 /\ ~IsSetup(plan[i + 1]) /\ plan[i + 1][1] = plan[i][1]
                 /\ Target(plan[i + 1]) = Target(plan[i])
                 /\ Target(plan[i - 1]) # Target(plan[i])
                 /\ <<Target(plan[i - 1]), Target(plan[i])>> \in Changeovers
           /\ \A i \in DOMAIN plan : ~IsSetup(plan[i]) /\ i > 1 =>
                 Target(plan[i]) = Target(plan[i - 1])
           /\ \A j \in Jobs : \E i \in DOMAIN plan : plan[i] = Production(j)
<1>1. plan \in Plans /\ plan \in Seq(Requests) /\ ConsistentPlan(plan)
  BY PlansAssumption DEF TInv, TypeOK
<1>2. Len(plan) \in Nat /\ DOMAIN plan = 1 .. Len(plan) /\ 1 \in DOMAIN plan
  BY <1>1 DEF Planned
<1>3. ASSUME NEW i \in DOMAIN plan
      PROVE  /\ plan[i] \in Requests /\ plan[i][1] \in Jobs
             /\ Target(plan[i]) \in Processes /\ Target(plan[i]) # NoProcess
  <2>1. plan[i] \in Requests BY <1>1
  <2> QED BY <2>1, RequestsKnown
<1>4. \A i, k \in DOMAIN plan : plan[i] = plan[k] => i = k BY <1>1 DEF ConsistentPlan
<1>5. /\ \A j \in Jobs : \E i \in DOMAIN plan : plan[i] = Production(j)
      /\ \A i \in DOMAIN plan : i > 1 =>
            IF IsSetup(plan[i]) THEN <<Target(plan[i - 1]), Target(plan[i])>> \in Changeovers
            ELSE Target(plan[i]) = Target(plan[i - 1])
  BY <1>1 DEF FullPlans, Planned
<1>6. ASSUME NEW i \in DOMAIN plan, IsSetup(plan[i])
      PROVE  /\ i > 1 /\ i - 1 \in DOMAIN plan /\ i + 1 \in DOMAIN plan
             /\ plan[i + 1] = Production(plan[i][1])
             /\ ~IsSetup(plan[i + 1]) /\ plan[i + 1][1] = plan[i][1]
             /\ Target(plan[i + 1]) = Target(plan[i])
             /\ Target(plan[i - 1]) # Target(plan[i])
             /\ <<Target(plan[i - 1]), Target(plan[i])>> \in Changeovers
  <2>1. /\ i \in 2 .. (Len(plan) - 1) /\ plan[i + 1] = <<plan[i][1], "production">>
        /\ Target(plan[i - 1]) # Target(plan[i])
    BY <1>1, <1>6 DEF ConsistentPlan, IsSetup, Target
  <2>2. i > 1 /\ i - 1 \in DOMAIN plan /\ i + 1 \in DOMAIN plan BY <1>2, <2>1
  <2>3. plan[i][1] \in Jobs BY <1>3
  <2>4. plan[i + 1] = Production(plan[i][1]) BY <2>1 DEF Production
  <2>5. ~IsSetup(plan[i + 1]) /\ plan[i + 1][1] = plan[i][1] BY <2>3, <2>4, RequestsKnown
  <2> QED BY <1>5, <1>6, <2>1, <2>2, <2>4, <2>5 DEF Target
<1>7. ASSUME NEW i \in DOMAIN plan, IsSetup(plan[i]) PROVE ~IsSetup(plan[i - 1])
  <2>1. i - 1 \in DOMAIN plan BY <1>6, <1>7
  <2>2. (i - 1) + 1 = i BY <1>2
  <2> QED BY <1>6, <1>7, <2>1, <2>2
<1> QED BY <1>2, <1>3, <1>4, <1>5, <1>6, <1>7

(* A request that was made is an event of the plan. *)
LEMMA EventOf ==
    ASSUME NEW n, InTurn(n), NEW r \in Requests, stage[r] # "new"
    PROVE  \E k \in DOMAIN plan : r = plan[k] /\ At(k) = stage[r]
BY DEF InTurn, At

(* One event of the plan goes to another stage. *)
LEMMA AtMoves ==
    ASSUME FullPlans, TInv, Planned, NEW k \in DOMAIN plan, NEW v, Becomes(plan[k], v), plan' = plan
    PROVE  \A i \in DOMAIN plan : At(i)' = IF i = k THEN v ELSE At(i)
BY PlanShape DEF At, Becomes, TInv, TypeOK

(* No event is consumed. *)
LEMMA SameTurn ==
    ASSUME FullPlans, TInv, Planned, NEW n, InTurn(n), NEW k \in DOMAIN plan, NEW v,
           Becomes(plan[k], v), plan' = plan, completed' = completed,
           k <= n => v \in BegunIn(plan[k]) /\ (v \in Changing => At(k) \in Changing),
           k > n => v \in WaitingIn(plan[k]),
           k > n + 1 => v = "queued" /\ ~IsSetup(plan[k]),
           k = n + 1 => v = "queued" \/ n = 0 \/ At(n) \notin Changing
    PROVE  InTurn(n)'
<1>1. \A i \in DOMAIN plan : At(i)' = IF i = k THEN v ELSE At(i) BY AtMoves
<1>2. /\ Len(plan) \in Nat /\ DOMAIN plan = 1 .. Len(plan) /\ n \in 0 .. Len(plan)
      /\ \A i \in DOMAIN plan : plan[i] \in Requests
  BY PlanShape DEF InTurn
<1>3. ASSUME NEW i \in DOMAIN plan
      PROVE  /\ i <= n => At(i)' \in BegunIn(plan[i])
             /\ i > n => At(i)' \in WaitingIn(plan[i])
             /\ i > n + 1 =>
                   At(i)' \in {"new", "queued"} /\ (IsSetup(plan[i]) => At(i)' = "new")
             /\ At(i)' \in Changing => i = n
  <2>1. CASE i = k
    <3>1. ASSUME v \in Changing PROVE k <= n
      BY <1>2, <3>1 DEF WaitingIn, Changing
    <3> QED BY <1>1, <1>2, <2>1, <3>1 DEF InTurn
  <2>2. CASE i # k BY <1>1, <2>2 DEF InTurn
  <2> QED BY <2>1, <2>2
<1>4. ASSUME n > 0, At(n)' \in Changing PROVE At(n + 1)' \in {"new", "queued"}
  <2>1. n \in DOMAIN plan BY <1>2, <1>4
  <2>2. At(n) \in Changing BY <1>1, <1>2, <1>4, <2>1
  <2>3. n + 1 \in DOMAIN plan
    <3>1. IsSetup(plan[n])
      BY <2>1, <2>2, <1>2 DEF InTurn, BegunIn, Changing
    <3> QED BY <2>1, <3>1, PlanShape
  <2> QED BY <1>1, <1>2, <1>4, <2>2, <2>3 DEF InTurn
<1>5. ASSUME NEW r \in Requests, \A i \in DOMAIN plan : plan[i] # r PROVE stage'[r] = "new"
  BY <1>2, <1>5 DEF InTurn, Becomes, TInv, TypeOK
<1> HIDE DEF At
<1> QED BY <1>2, <1>3, <1>4, <1>5 DEF InTurn

(* The next event is consumed. *)
LEMMA NextTurn ==
    ASSUME FullPlans, TInv, Planned, NEW n, InTurn(n), n + 1 \in DOMAIN plan, NEW v,
           Becomes(plan[n + 1], v), plan' = plan, completed' = completed \cup {n + 1},
           v \in BegunIn(plan[n + 1]), n = 0 \/ At(n) \notin Changing
    PROVE  InTurn(n + 1)'
<1> DEFINE m == n + 1
<1>1. \A i \in DOMAIN plan : At(i)' = IF i = m THEN v ELSE At(i) BY AtMoves
<1>2. /\ Len(plan) \in Nat /\ DOMAIN plan = 1 .. Len(plan) /\ n \in 0 .. Len(plan)
      /\ \A i \in DOMAIN plan : plan[i] \in Requests
  BY PlanShape DEF InTurn
<1>3. ASSUME NEW i \in DOMAIN plan
      PROVE  /\ i <= m => At(i)' \in BegunIn(plan[i])
             /\ i > m => At(i)' \in WaitingIn(plan[i])
             /\ i > m + 1 =>
                   At(i)' \in {"new", "queued"} /\ (IsSetup(plan[i]) => At(i)' = "new")
             /\ At(i)' \in Changing => i = m
  <2>1. CASE i = m BY <1>1, <1>2, <2>1
  <2>2. CASE i # m
    <3>1. At(i)' = At(i) /\ (i <= m => i <= n) /\ (i > m => i > n + 1) BY <1>1, <1>2, <2>2
    <3>2. At(i) \in Changing => i = n BY DEF InTurn
    <3>3. At(i) \notin Changing BY <1>2, <3>2
    <3> QED BY <1>2, <2>2, <3>1, <3>3 DEF InTurn
  <2> QED BY <2>1, <2>2
<1>4. ASSUME At(m)' \in Changing PROVE At(m + 1)' \in {"new", "queued"}
  <2>1. IsSetup(plan[m]) BY <1>1, <1>4 DEF BegunIn, Changing
  <2>2. m + 1 \in DOMAIN plan BY <2>1, PlanShape
  <2> QED BY <1>1, <1>2, <2>2 DEF InTurn
<1>5. ASSUME NEW r \in Requests, \A i \in DOMAIN plan : plan[i] # r PROVE stage'[r] = "new"
  BY <1>2, <1>5 DEF InTurn, Becomes, TInv, TypeOK
<1>6. completed' = 1 .. m /\ m \in 0 .. Len(plan) BY <1>2 DEF InTurn
<1> HIDE DEF At
<1> QED BY <1>2, <1>3, <1>4, <1>5, <1>6 DEF InTurn

(* The neighbours of an event *)
LEMMA Neighbours ==
    ASSUME FullPlans, TInv, Planned, NEW n \in Nat, n + 1 \in DOMAIN plan
    PROVE  /\ n > 0 => n \in DOMAIN plan
           /\ n > 0 /\ ~IsSetup(plan[n + 1]) => Target(plan[n + 1]) = Target(plan[n])
           /\ IsSetup(plan[n + 1]) =>
                 /\ n > 0 /\ ~IsSetup(plan[n]) /\ Target(plan[n]) # Target(plan[n + 1])
                 /\ <<Target(plan[n]), Target(plan[n + 1])>> \in Changeovers
                 /\ n + 2 \in DOMAIN plan /\ ~IsSetup(plan[n + 2])
                 /\ plan[n + 2] = Production(plan[n + 1][1])
                 /\ plan[n + 2][1] = plan[n + 1][1]
                 /\ Target(plan[n + 2]) = Target(plan[n + 1])
<1> DEFINE m == n + 1
<1>1. m - 1 = n /\ m + 1 = n + 2 /\ (m > 1 <=> n > 0) OBVIOUS
<1>2. DOMAIN plan = 1 .. Len(plan) /\ Len(plan) \in Nat BY PlanShape
<1>3. n > 0 => n \in DOMAIN plan BY <1>2
<1> HIDE DEF m
<1>4. /\ IsSetup(plan[m]) =>
            /\ m > 1 /\ m - 1 \in DOMAIN plan /\ ~IsSetup(plan[m - 1])
            /\ m + 1 \in DOMAIN plan /\ plan[m + 1] = Production(plan[m][1])
            /\ ~IsSetup(plan[m + 1]) /\ plan[m + 1][1] = plan[m][1]
            /\ Target(plan[m + 1]) = Target(plan[m])
            /\ Target(plan[m - 1]) # Target(plan[m])
            /\ <<Target(plan[m - 1]), Target(plan[m])>> \in Changeovers
      /\ ~IsSetup(plan[m]) /\ m > 1 => Target(plan[m]) = Target(plan[m - 1])
  <2>1. m \in DOMAIN plan BY DEF m
  <2> QED BY <2>1, PlanShape
<1>5. /\ IsSetup(plan[m]) =>
            /\ n > 0 /\ ~IsSetup(plan[n])
            /\ n + 2 \in DOMAIN plan /\ plan[n + 2] = Production(plan[m][1])
            /\ ~IsSetup(plan[n + 2]) /\ plan[n + 2][1] = plan[m][1]
            /\ Target(plan[n + 2]) = Target(plan[m])
            /\ Target(plan[n]) # Target(plan[m])
            /\ <<Target(plan[n]), Target(plan[m])>> \in Changeovers
      /\ ~IsSetup(plan[m]) /\ n > 0 => Target(plan[m]) = Target(plan[n])
  BY <1>1, <1>4
<1> QED BY <1>3, <1>5 DEF m

(* A production has a state if it had one, or takes none. *)
LEMMA RoomKept ==
    ASSUME FullPlans, TInv, Planned, Room, NEW k \in DOMAIN plan, NEW v, Becomes(plan[k], v), plan' = plan,
           \/ IsSetup(plan[k])
           \/ At(k) \in HeldIn(plan[k]) \cup CountedIn(plan[k])
           \/ v \notin HeldIn(plan[k]) \cup CountedIn(plan[k])
    PROVE  Room'
<1>1. ASSUME NEW p \in Processes PROVE Cardinality(Of(p)') <= Slots[p]
  <2>1. Of(p)' \subseteq Of(p)
    BY PlanShape DEF Of, At, Becomes, TInv, TypeOK, HeldIn, CountedIn
  <2>2. IsFiniteSet(Of(p))
    <3>1. Of(p) \subseteq Requests BY DEF Of
    <3> QED BY <3>1, RequestsKnown, FS_Subset
  <2>3. IsFiniteSet(Of(p)') /\ Cardinality(Of(p)') <= Cardinality(Of(p))
    BY <2>1, <2>2, FS_Subset
  <2>4. Cardinality(Of(p)') \in Nat /\ Cardinality(Of(p)) \in Nat /\ Slots[p] \in Nat
    BY <2>2, <2>3, FS_CardinalityType, CapacityAssumption
  <2> QED BY <2>3, <2>4 DEF Room
<1> QED BY <1>1 DEF Room

(* The productions of a product stay in order. *)
LEMMA OrderKept ==
    ASSUME FullPlans, TInv, Planned, Ordered, NEW k \in DOMAIN plan, NEW v,
           Becomes(plan[k], v), plan' = plan,
           v = "done" \/ At(k) # "done",
           \/ At(k) # "new" \/ IsSetup(plan[k])
           \/ \A i \in DOMAIN plan :
                 /\ i < k /\ ~IsSetup(plan[i])
                 /\ Product[plan[i][1]] = Product[plan[k][1]]
                 => At(i) = "done"
    PROVE  Ordered'
<1>1. \A i \in DOMAIN plan : At(i)' = IF i = k THEN v ELSE At(i) BY AtMoves
<1>2. DOMAIN plan = 1 .. Len(plan) /\ Len(plan) \in Nat BY PlanShape
<1> HIDE DEF At
<1> SUFFICES ASSUME NEW i \in DOMAIN plan, NEW x \in DOMAIN plan,
                    i < x, ~IsSetup(plan[i]), ~IsSetup(plan[x]),
                    Product[plan[i][1]] = Product[plan[x][1]], At(x)' # "new"
             PROVE  At(i)' = "done"
  BY DEF Ordered
<1>3. CASE x # k BY <1>1, <1>3 DEF Ordered
<1>4. CASE x = k
  <2>1. i # k BY <1>2, <1>4
  <2>2. CASE At(k) # "new" BY <1>1, <1>4, <2>1, <2>2 DEF Ordered
  <2>3. CASE At(k) = "new" BY <1>1, <1>4, <2>1, <2>3
  <2> QED BY <2>2, <2>3
<1> QED BY <1>3, <1>4

(* A step that leaves the setup of the resource alone *)
LEMMA SetupKept ==
    ASSUME FullPlans, TInv, Planned, NEW n, InTurn(n), SetUpTo(n), Alone,
           NEW k \in DOMAIN plan, NEW v, Becomes(plan[k], v), plan' = plan,
           current' = current, reserved' = reserved,
           v \notin Changing \cup {"processing"}, At(k) \notin Changing,
           v = "trivial" => n = 0,
           v \in {"joining", "ready"} => IsSetup(plan[k]) \/ current # NoProcess,
           \A i \in DOMAIN plan : i # k =>
               (awaits[plan[i]] \cap Processing') \subseteq awaits'[plan[i]]
    PROVE  SetUpTo(n)' /\ Alone'
<1>1. \A i \in DOMAIN plan : At(i)' = IF i = k THEN v ELSE At(i) BY AtMoves
<1>2. /\ Len(plan) \in Nat /\ DOMAIN plan = 1 .. Len(plan) /\ n \in 0 .. Len(plan)
      /\ \A i \in DOMAIN plan : plan[i] \in Requests
  BY PlanShape DEF InTurn
<1>3. Processing' \subseteq Processing
  BY <1>2 DEF Processing, Becomes, TInv, TypeOK
<1>4. n > 0 => n \in DOMAIN plan /\ (At(n)' \in Changing <=> At(n) \in Changing)
  BY <1>1, <1>2
<1> HIDE DEF At, Processing
<1>5. SetUpTo(n)' BY <1>1, <1>4 DEF SetUpTo
<1>6. ASSUME NEW i \in DOMAIN plan
      PROVE  /\ At(i)' = "changing" => Processing' \subseteq awaits'[plan[i]]
             /\ At(i)' = "working" => Processing' = {}
             /\ At(i)' = "processing" => current' = Target(plan[i])
  <2>1. CASE i = k BY <1>1, <2>1 DEF Changing
  <2>2. CASE i # k BY <1>1, <1>3, <2>2 DEF Alone
  <2> QED BY <2>1, <2>2
<1>7. Alone' BY <1>6 DEF Alone
<1> QED BY <1>5, <1>7

(* What comes next in the plan *)
LEMMA NextEvent ==
    ASSUME FullPlans, TInv, Planned, NEW n, InTurn(n)
    PROVE  /\ OpenEvents = {i \in DOMAIN plan : i > n}
           /\ \A i \in DOMAIN plan : IsNext(i) <=> i = n + 1
<1>1. /\ Len(plan) \in Nat /\ DOMAIN plan = 1 .. Len(plan) /\ n \in 0 .. Len(plan)
      /\ completed = 1 .. n
  BY PlanShape DEF InTurn
<1>2. OpenEvents = {i \in DOMAIN plan : i > n} BY <1>1 DEF OpenEvents
<1> QED BY <1>1, <1>2 DEF IsNext

(* Only the next event of the plan may start, and the production that the  *)
(* next changeover is for.                                                 *)
LEMMA EligibleIsNext ==
    ASSUME FullPlans, TInv, Planned, NEW n, Turn(n), NEW r \in Requests, Eligible(r)
    PROVE  /\ n + 1 \in DOMAIN plan /\ n \in Nat
           /\ \/ r = plan[n + 1]
              \/ /\ IsSetup(plan[n + 1]) /\ ~IsSetup(r)
                 /\ n + 2 \in DOMAIN plan /\ r = plan[n + 2] /\ r = Production(plan[n + 1][1])
<1>1. /\ Len(plan) \in Nat /\ DOMAIN plan = 1 .. Len(plan) /\ n \in 0 .. Len(plan)
  BY PlanShape DEF Turn, InTurn
<1>2. stage[r] = "queued" BY DEF Eligible, Queued
<1>3. PICK k \in DOMAIN plan : r = plan[k] /\ At(k) = "queued" BY <1>2, EventOf DEF Turn
<1>4. k > n BY <1>1, <1>3 DEF Turn, InTurn, BegunIn, Changing
<1>5. n + 1 \in DOMAIN plan /\ n \in Nat BY <1>1, <1>4
<1>6. ASSUME k # n + 1 PROVE ~IsSetup(r) /\ Product[plan[n + 1][1]] = Product[r[1]]
  <2>1. ~IsSetup(r) BY <1>1, <1>3, <1>4, <1>6 DEF Turn, InTurn
  <2>2. KnowsProduct(r) /\ ~OutOfTurn(r) BY <2>1 DEF KnowsProduct, Eligible
  <2>3. IsNext(n + 1) /\ n + 1 \in OpenEvents
    <3>1. InTurn(n) BY DEF Turn
    <3>2. IsNext(n + 1) BY <1>5, <3>1, NextEvent
    <3> QED BY <3>2 DEF IsNext
  <2> QED BY <2>1, <2>2, <2>3 DEF OutOfTurn
<1>7. ASSUME NEW i \in DOMAIN plan, n < i, i < k, ~IsSetup(plan[i]), ~IsSetup(r),
             Product[plan[i][1]] = Product[r[1]]
      PROVE  FALSE
  <2>1. At(i) = "done" BY <1>3, <1>7 DEF Turn, Ordered
  <2> QED BY <2>1, <1>1, <1>7 DEF Turn, InTurn, WaitingIn
<1>8. ASSUME k # n + 1
      PROVE  /\ IsSetup(plan[n + 1]) /\ ~IsSetup(r) /\ n + 2 \in DOMAIN plan
             /\ r = plan[n + 2] /\ r = Production(plan[n + 1][1])
  <2>1. n < n + 1 /\ n + 1 < k BY <1>1, <1>4, <1>5, <1>8
  <2>2. IsSetup(plan[n + 1]) BY <1>5, <1>6, <1>7, <1>8, <2>1
  <2>3. /\ n + 2 \in DOMAIN plan /\ plan[n + 2] = Production(plan[n + 1][1])
        /\ ~IsSetup(plan[n + 2]) /\ plan[n + 2][1] = plan[n + 1][1]
    BY <1>5, <2>2, Neighbours
  <2>4. ~(n + 2 < k)
    <3>1. n < n + 2 BY <1>5
    <3> QED BY <1>6, <1>7, <1>8, <2>3, <3>1
  <2>5. k = n + 2 BY <1>1, <1>5, <2>1, <2>4
  <2> QED BY <1>3, <1>6, <1>8, <2>2, <2>3, <2>5
<1> QED BY <1>3, <1>5, <1>8

(* When the loop looks, the resource is on the setup of the last event. *)
LEMMA SetupWhenReady ==
    ASSUME FullPlans, TInv, Planned, NEW n, Turn(n), Ready
    PROVE  /\ SetupNow = current /\ reserved = NoProcess
           /\ n > 0 => At(n) \notin Changing /\ current = Target(plan[n])
           /\ n = 0 => current \in {NoProcess, Target(plan[1])}
<1>1. n \in 0 .. Len(plan) /\ Len(plan) \in Nat /\ DOMAIN plan = 1 .. Len(plan)
  BY PlanShape DEF Turn, InTurn
<1>2. reserved = NoProcess BY DEF Ready, InSetup
<1>3. n > 0 => n \in DOMAIN plan BY <1>1
<1>4. n > 0 => Target(plan[n]) # NoProcess BY <1>3, PlanShape
<1> QED BY <1>2, <1>4 DEF SetupNow, Turn, SetUpTo

(* The loop starts the next event of the plan ... *)
LEMMA StartIsNext ==
    ASSUME FullPlans, TInv, Planned, NEW n, Turn(n), NEW r \in Requests, Startable(r)
    PROVE  n + 1 \in DOMAIN plan /\ n \in Nat /\ r = plan[n + 1]
<1>1. Eligible(r) BY DEF Startable, Selected
<1>2. n + 1 \in DOMAIN plan /\ n \in Nat BY <1>1, EligibleIsNext
<1> SUFFICES ASSUME r # plan[n + 1] PROVE FALSE BY <1>2
<1>3. /\ IsSetup(plan[n + 1]) /\ ~IsSetup(r) /\ n + 2 \in DOMAIN plan
      /\ r = plan[n + 2] /\ r = Production(plan[n + 1][1])
  BY <1>1, EligibleIsNext
<1>5. /\ Target(plan[n]) # Target(plan[n + 1]) /\ Target(r) = Target(plan[n + 1]) /\ n > 0
      /\ <<Target(plan[n]), Target(plan[n + 1])>> \in Changeovers
  BY <1>2, <1>3, Neighbours
<1>6. SetupNow = Target(plan[n]) BY <1>5, SetupWhenReady DEF Startable
<1>7. r[1] \in injected BY <1>3, <1>5, <1>6 DEF Startable, NeedsSetupRequest
<1>8. PutBack(r) BY <1>3, <1>5, <1>6, <1>7 DEF PutBack, MatchesSetup
<1> QED BY <1>8 DEF Startable

(* ... and asks for the changeover that is next, if one is missing. *)
LEMMA CreateIsNext ==
    ASSUME FullPlans, TInv, Planned, NEW n, Turn(n), NEW r \in Requests, WakeAndCreate(r)
    PROVE  /\ n + 1 \in DOMAIN plan /\ n \in Nat /\ IsSetup(plan[n + 1])
           /\ Setup(r[1]) = plan[n + 1] /\ At(n + 1) = "queued"
<1>1. Eligible(r) /\ Ready /\ ~IsSetup(r) /\ NothingToInject
  BY DEF WakeAndCreate, Selected, NeedsSetupRequest
<1>2. n + 1 \in DOMAIN plan /\ n \in Nat BY <1>1, EligibleIsNext
<1>3. SetupNow \in Processes /\ SetupNow # NoProcess /\ SetupNow # Target(r)
  BY PlansAssumption, JobsAssumption DEF WakeAndCreate, NeedsSetupRequest
<1>4. ASSUME r = plan[n + 1] PROVE FALSE
  <2>1. CASE n = 0 BY <1>1, <1>3, <1>4, <2>1, SetupWhenReady
  <2>2. CASE n > 0
    <3>2. Target(r) = Target(plan[n]) BY <1>1, <1>2, <1>4, <2>2, Neighbours
    <3> QED BY <1>1, <1>3, <2>2, <3>2, SetupWhenReady
  <2> QED BY <1>2, <2>1, <2>2
<1>5. IsSetup(plan[n + 1]) /\ r = Production(plan[n + 1][1])
  BY <1>1, <1>4, EligibleIsNext
<1>6. Setup(r[1]) = plan[n + 1]
  <2>1. plan[n + 1] \in Requests /\ plan[n + 1][1] \in Jobs BY <1>2, PlanShape
  <2>2. r[1] = plan[n + 1][1] BY <1>5, <2>1, RequestsKnown
  <2> QED BY <1>5, <2>1, <2>2, RequestsKnown
<1>7. n > 0 /\ Target(plan[n]) # Target(plan[n + 1]) BY <1>2, <1>5, Neighbours
<1>8. SetupNow = Origin(n + 1) /\ SetupNow # Target(plan[n + 1])
  <2>1. (n + 1) - 1 = n BY <1>2
  <2> QED BY <1>1, <1>7, <2>1, SetupWhenReady DEF Origin
<1>9. IsNext(n + 1) BY <1>2, NextEvent DEF Turn
<1>10. plan[n + 1] \in Queued
  BY <1>1, <1>2, <1>5, <1>8, <1>9 DEF NothingToInject, CanInject
<1> QED BY <1>2, <1>5, <1>6, <1>10 DEF Queued, At

(* A step of one request that consumes nothing and changes no setup *)
LEMMA TurnKept ==
    ASSUME FullPlans, TInv, Planned, NEW n, Turn(n), NEW k \in DOMAIN plan, NEW v,
           Becomes(plan[k], v), plan' = plan, completed' = completed,
           current' = current, reserved' = reserved,
           k <= n => v \in BegunIn(plan[k]),
           k > n => v \in WaitingIn(plan[k]),
           k > n + 1 => v = "queued" /\ ~IsSetup(plan[k]),
           k = n + 1 => v = "queued" \/ n = 0 \/ At(n) \notin Changing,
           v \notin Changing \cup {"processing"}, At(k) \notin Changing,
           v = "trivial" => n = 0,
           v \in {"joining", "ready"} => IsSetup(plan[k]) \/ current # NoProcess,
           \A i \in DOMAIN plan : i # k =>
               (awaits[plan[i]] \cap Processing') \subseteq awaits'[plan[i]],
           v = "done" \/ At(k) # "done",
           \/ At(k) # "new" \/ IsSetup(plan[k])
           \/ \A i \in DOMAIN plan :
                 /\ i < k /\ ~IsSetup(plan[i])
                 /\ Product[plan[i][1]] = Product[plan[k][1]]
                 => At(i) = "done",
           Room'
    PROVE  Turn(n)'
<1>1. InTurn(n) /\ SetUpTo(n) /\ Alone /\ Ordered BY DEF Turn
<1>2. InTurn(n)' BY <1>1, SameTurn
<1>3. SetUpTo(n)' /\ Alone' BY <1>1, SetupKept
<1>4. Ordered' BY <1>1, OrderKept
<1> QED BY <1>2, <1>3, <1>4 DEF Turn

(* A step of no request *)
LEMMA TurnRests ==
    ASSUME NEW n, Turn(n), plan' = plan, stage' = stage, completed' = completed,
           current' = current, reserved' = reserved, awaits' = awaits
    PROVE  Turn(n)'
BY DEF Turn, InTurn, SetUpTo, Alone, Ordered, Room, At, Processing, Of

LEMMA RequestInTurn ==
    ASSUME FullPlans, TInv, Planned, NEW n, Turn(n), NEW j \in Jobs, Request(j)
    PROVE  Turn(n)'
<1>1. PICK k \in DOMAIN plan : plan[k] = Production(j) BY PlanShape
<1>2. Becomes(plan[k], "queued") /\ At(k) = "new" /\ ~IsSetup(plan[k]) /\ plan[k][1] = j
  BY <1>1, RequestsKnown DEF Request, Becomes, At
<1>3. /\ plan' = plan /\ completed' = completed /\ current' = current /\ reserved' = reserved
      /\ awaits' = awaits
  BY DEF Request, schedule, setups
<1>4. /\ Len(plan) \in Nat /\ DOMAIN plan = 1 .. Len(plan) /\ n \in 0 .. Len(plan)
  BY PlanShape DEF Turn, InTurn
<1>5. ~(k <= n) BY <1>2 DEF Turn, InTurn, BegunIn, Changing
<1>6. "queued" \in WaitingIn(plan[k]) BY DEF WaitingIn
<1>7. Room'
  <2>1. Room /\ "queued" \notin HeldIn(plan[k]) \cup CountedIn(plan[k])
    BY DEF Turn, HeldIn, CountedIn
  <2> QED BY <1>2, <1>3, <2>1, RoomKept
<1>8. ASSUME NEW i \in DOMAIN plan, i < k, ~IsSetup(plan[i]),
             Product[plan[i][1]] = Product[plan[k][1]]
      PROVE  At(i) = "done"
  BY <1>1, <1>2, <1>8 DEF Request, At
<1>9. "queued" \notin Changing \cup {"processing"} /\ At(k) \notin Changing
  BY <1>2 DEF Changing
<1> HIDE DEF At
<1> QED BY <1>2, <1>3, <1>4, <1>5, <1>6, <1>7, <1>8, <1>9, TurnKept

LEMMA NextIsInjected ==
    ASSUME FullPlans, TInv, Planned, NEW n, Turn(n), NEW k \in DOMAIN plan, WakeAndInject(k)
    PROVE  k = n + 1 /\ IsSetup(plan[k]) /\ At(k) \in {"new", "accepted"}
<1>1. k = n + 1 /\ IsSetup(plan[k])
  BY NextEvent DEF WakeAndInject, CanInject, Turn
<1>2. plan[k] \in Requests /\ n \in Nat BY PlanShape DEF Turn, InTurn
<1>3. At(k) # "queued" BY <1>2 DEF WakeAndInject, CanInject, Queued, At
<1>4. At(k) \in WaitingIn(plan[k]) BY <1>1, <1>2 DEF Turn, InTurn
<1> QED BY <1>1, <1>3, <1>4 DEF WaitingIn

LEMMA InjectInTurn ==
    ASSUME FullPlans, TInv, Planned, NEW n, Turn(n), NEW k \in DOMAIN plan, WakeAndInject(k)
    PROVE  Turn(n)'
<1>1. k = n + 1 /\ IsSetup(plan[k]) /\ At(k) \in {"new", "accepted"}
  BY NextIsInjected
<1>2. Becomes(plan[k], "queued") BY DEF WakeAndInject, Becomes
<1>3. /\ plan' = plan /\ completed' = completed /\ current' = current /\ reserved' = reserved
      /\ awaits' = awaits
  BY DEF WakeAndInject, schedule, setups
<1>4. /\ Len(plan) \in Nat /\ DOMAIN plan = 1 .. Len(plan) /\ n \in 0 .. Len(plan)
  BY PlanShape DEF Turn, InTurn
<1>5. "queued" \in WaitingIn(plan[k]) BY DEF WaitingIn
<1>6. Room' BY <1>1, <1>2, <1>3, RoomKept DEF Turn
<1>7. "queued" \notin Changing \cup {"processing"} /\ At(k) \notin Changing
  BY <1>1 DEF Changing
<1> QED BY <1>1, <1>2, <1>3, <1>4, <1>5, <1>6, <1>7, TurnKept

LEMMA CreateInTurn ==
    ASSUME FullPlans, TInv, Planned, NEW n, Turn(n), NEW r \in Requests, WakeAndCreate(r)
    PROVE  Turn(n)'
<1> DEFINE k == n + 1
<1>1. /\ k \in DOMAIN plan /\ n \in Nat /\ IsSetup(plan[k])
      /\ Setup(r[1]) = plan[k] /\ At(k) \in {"queued", "accepted"}
  BY CreateIsNext
<1>2. Becomes(plan[k], "queued") BY <1>1 DEF WakeAndCreate, Becomes
<1>3. /\ plan' = plan /\ completed' = completed /\ current' = current /\ reserved' = reserved
      /\ awaits' = awaits
  BY DEF WakeAndCreate, schedule, setups
<1>4. "queued" \in WaitingIn(plan[k]) BY DEF WaitingIn
<1>5. k > n /\ ~(k <= n) /\ ~(k > n + 1) BY <1>1
<1> HIDE DEF k
<1>6. Room' BY <1>1, <1>2, <1>3, RoomKept DEF Turn
<1>7. "queued" \notin Changing \cup {"processing"} /\ At(k) \notin Changing /\ At(k) # "done"
  BY <1>1 DEF Changing
<1> QED BY <1>1, <1>2, <1>3, <1>4, <1>5, <1>6, <1>7, TurnKept

(* There is a state for a production that starts: it is counted against    *)
(* the states of its process, unless it is the first one.                  *)
LEMMA RoomToStart ==
    ASSUME FullPlans, TInv, Planned, NEW n, Turn(n), NEW r \in Requests, WakeAndStart(r)
    PROVE  Room'
<1>1. /\ n + 1 \in DOMAIN plan /\ n \in Nat /\ r = plan[n + 1] /\ Ready /\ stage[r] = "queued"
  BY StartIsNext DEF WakeAndStart, Startable, Selected, Eligible, Queued
<1>2. stage \in [Requests -> Stages] /\ stage' = [stage EXCEPT ![r] = "accepted"]
      /\ held \in Nat /\ running \in Nat
  BY DEF WakeAndStart, TInv, TypeOK
<1>3. CASE IsSetup(r)
  <2>1. Becomes(r, "accepted") /\ plan' = plan BY DEF WakeAndStart, Becomes, schedule
  <2> QED BY <1>1, <1>3, <2>1, RoomKept DEF Turn
<1>4. CASE ~IsSetup(r)
  <2> DEFINE p == Target(r)
  <2>1. p \in Processes BY RequestsKnown
  <2>2. \A q \in Processes : Of(q)' \subseteq IF q = p THEN Of(q) \cup {r} ELSE Of(q)
    BY <1>2 DEF Of, HeldIn, CountedIn
  <2>3. \A q \in Processes : IsFiniteSet(Of(q)) /\ Cardinality(Of(q)) \in Nat /\ Slots[q] \in Nat
    <3>1. \A q \in Processes : Of(q) \subseteq Requests BY DEF Of
    <3> QED BY <3>1, RequestsKnown, FS_Subset, FS_CardinalityType, CapacityAssumption
  <2>4. Cardinality(Of(p)) + 1 <= Slots[p]
    <3>1. ASSUME SetupNow = p PROVE Cardinality(Of(p)) + 1 <= Slots[p]
      <4>1. Slots[p] - (running + held) >= 1
        BY <2>1, <3>1, RequestsKnown DEF WakeAndStart, FreeCapacity, CapacityOf
      <4>2. /\ IsFiniteSet(Held \cup Counted)
            /\ Cardinality(Held \cup Counted) = Cardinality(Held) + Cardinality(Counted)
        <5>1. /\ IsFiniteSet(Held \cup Counted)
              /\ Cardinality(Held \cup Counted)
                   = Cardinality(Held) + Cardinality(Counted) - Cardinality(Held \cap Counted)
          BY ClaimsFinite, FS_Union
        <5>2. Cardinality(Held \cap Counted) = 0 BY ClaimsFinite, FS_EmptySet
        <5> QED BY <5>1, <5>2, ClaimsFinite
      <4>3. Of(p) \subseteq Held \cup Counted BY DEF Of, Held, Counted
      <4>4. Cardinality(Of(p)) <= Cardinality(Held \cup Counted) BY <4>2, <4>3, FS_Subset
      <4> QED BY <1>2, <2>1, <2>3, <4>1, <4>2, <4>4, ClaimsFinite DEF TInv, Claims
    <3>2. ASSUME SetupNow = NoProcess, n = 0 PROVE Cardinality(Of(p)) + 1 <= Slots[p]
      <4>1. ASSUME NEW x \in Of(p) PROVE FALSE
        <5>1. x \in Requests /\ stage[x] \notin {"new", "queued"}
          BY <4>1 DEF Of, HeldIn, CountedIn
        <5>2. PICK k \in DOMAIN plan : x = plan[k] /\ At(k) = stage[x]
          BY <5>1, EventOf DEF Turn
        <5>3. k # 1 BY <1>1, <3>2, <5>1, <5>2
        <5>4. k > n + 1 BY <3>2, <5>3, PlanShape
        <5> QED BY <5>1, <5>2, <5>4 DEF Turn, InTurn
      <4>2. Of(p) = {} BY <4>1
      <4>3. Cardinality(Of(p)) = 0 BY <4>2, FS_EmptySet
      <4>4. Slots[p] \in 1 .. Capacity /\ Capacity \in Nat BY <2>1, CapacityAssumption
      <4> QED BY <4>3, <4>4
    <3>3. SetupNow = p \/ (SetupNow = NoProcess /\ n = 0)
      <4>1. CASE n = 0 BY <1>1, <4>1, SetupWhenReady
      <4>2. CASE n > 0
        <5>1. p = Target(plan[n]) BY <1>1, <1>4, <4>2, Neighbours
        <5> QED BY <1>1, <4>2, <5>1, SetupWhenReady
      <4> QED BY <1>1, <4>1, <4>2
    <3> QED BY <3>1, <3>2, <3>3
  <2> HIDE DEF p
  <2>5. ASSUME NEW q \in Processes PROVE Cardinality(Of(q)') <= Slots[q]
    <3>1. CASE q = p
      <4>1. /\ IsFiniteSet(Of(p) \cup {r})
            /\ Cardinality(Of(p) \cup {r})
                 = IF r \in Of(p) THEN Cardinality(Of(p)) ELSE Cardinality(Of(p)) + 1
        BY <2>1, <2>3, FS_AddElement
      <4>2. IsFiniteSet(Of(p)') /\ Cardinality(Of(p)') <= Cardinality(Of(p) \cup {r})
        BY <2>1, <2>2, <4>1, FS_Subset
      <4>3. Cardinality(Of(p)') \in Nat BY <4>2, FS_CardinalityType
      <4> QED BY <2>1, <2>3, <2>4, <3>1, <4>1, <4>2, <4>3
    <3>2. CASE q # p
      <4>1. IsFiniteSet(Of(q)') /\ Cardinality(Of(q)') <= Cardinality(Of(q))
        BY <2>2, <2>3, <3>2, FS_Subset
      <4>2. Cardinality(Of(q)') \in Nat BY <4>1, FS_CardinalityType
      <4>3. Cardinality(Of(q)) <= Slots[q] BY DEF Turn, Room
      <4> QED BY <2>3, <4>1, <4>2, <4>3
    <3> QED BY <3>1, <3>2
  <2> QED BY <2>5 DEF Room
<1> QED BY <1>3, <1>4

LEMMA StartInTurn ==
    ASSUME FullPlans, TInv, Planned, NEW n, Turn(n), NEW r \in Requests, WakeAndStart(r)
    PROVE  Turn(n)'
<1> DEFINE k == n + 1
<1>1. /\ k \in DOMAIN plan /\ n \in Nat /\ r = plan[k] /\ Ready /\ At(k) = "queued"
  BY StartIsNext DEF WakeAndStart, Startable, Selected, Eligible, Queued, At
<1>2. Becomes(plan[k], "accepted") BY <1>1 DEF WakeAndStart, Becomes
<1>3. /\ plan' = plan /\ completed' = completed /\ current' = current /\ reserved' = reserved
      /\ awaits' = awaits
  BY DEF WakeAndStart, schedule
<1>4. "accepted" \in WaitingIn(plan[k]) BY DEF WaitingIn
<1>5. k > n /\ ~(k <= n) /\ ~(k > n + 1) BY <1>1
<1>6. n = 0 \/ At(n) \notin Changing BY <1>1, SetupWhenReady
<1> HIDE DEF k
<1>7. Room' BY RoomToStart
<1>8. "accepted" \notin Changing \cup {"processing"} /\ At(k) \notin Changing /\ At(k) # "done"
      /\ At(k) # "new"
  BY <1>1 DEF Changing
<1> QED BY <1>1, <1>2, <1>3, <1>4, <1>5, <1>6, <1>7, <1>8, TurnKept

LEMMA LoopInTurn ==
    ASSUME FullPlans, TInv, Planned, NEW n, Turn(n), Wake
    PROVE  Turn(n)'
<1>1. CASE WakeInVain BY <1>1, TurnRests DEF WakeInVain, schedule, setups
<1>2. CASE DelayOver BY <1>2, TurnRests DEF DelayOver, schedule, setups
<1>3. ASSUME NEW r \in Requests, WakeAndDelay(r) PROVE Turn(n)'
  BY <1>3, TurnRests DEF WakeAndDelay, schedule, setups
<1>4. ASSUME NEW r \in Requests, WakeWithoutRoom(r) PROVE Turn(n)'
  BY <1>4, TurnRests DEF WakeWithoutRoom, schedule, setups
<1> QED BY <1>1, <1>2, <1>3, <1>4, InjectInTurn, CreateInTurn, StartInTurn DEF Wake

(* Who is accepted, or sets up without a changeover, is the next event;    *)
(* the last one is not changing the setup any more.                        *)
LEMMA UnderWayIsNext ==
    ASSUME FullPlans, TInv, Planned, NEW n, Turn(n), NEW r \in Requests,
           stage[r] \in IF IsSetup(r) THEN {"accepted"}
                        ELSE {"accepted", "trivial", "joining", "ready"}
    PROVE  /\ n + 1 \in DOMAIN plan /\ n \in Nat /\ r = plan[n + 1] /\ At(n + 1) = stage[r]
           /\ reserved = NoProcess /\ SetupNow = current
           /\ n > 0 => At(n) \notin Changing /\ current = Target(plan[n])
           /\ n = 0 => current \in {NoProcess, Target(plan[1])}
<1>1. PICK k \in DOMAIN plan : r = plan[k] /\ At(k) = stage[r] BY EventOf DEF Turn
<1>2. /\ Len(plan) \in Nat /\ DOMAIN plan = 1 .. Len(plan) /\ n \in 0 .. Len(plan)
  BY PlanShape DEF Turn, InTurn
<1>3. k > n BY <1>1, <1>2 DEF Turn, InTurn, BegunIn, Changing
<1>4. ~(k > n + 1) BY <1>1, <1>2 DEF Turn, InTurn
<1>5. k = n + 1 BY <1>2, <1>3, <1>4
<1>6. n > 0 => At(n) \notin Changing BY <1>1, <1>5 DEF Turn, InTurn
<1>7. n > 0 => n \in DOMAIN plan /\ Target(plan[n]) # NoProcess
  <2>1. n > 0 => n \in DOMAIN plan BY <1>2
  <2> QED BY <2>1, PlanShape
<1>8. reserved = NoProcess /\ (n > 0 => current = Target(plan[n]))
      /\ (n = 0 => current \in {NoProcess, Target(plan[1])})
  BY <1>2, <1>6 DEF Turn, SetUpTo
<1> QED BY <1>1, <1>2, <1>5, <1>6, <1>8 DEF SetupNow

(* Who changes the setup is the last event that has begun. *)
LEMMA ChangingIsLast ==
    ASSUME FullPlans, TInv, Planned, NEW n, Turn(n), NEW r \in Requests, stage[r] \in Changing
    PROVE  /\ n \in DOMAIN plan /\ n > 0 /\ r = plan[n] /\ At(n) = stage[r] /\ IsSetup(r)
           /\ reserved = Target(r) /\ current = Target(plan[n - 1])
<1>1. PICK k \in DOMAIN plan : r = plan[k] /\ At(k) = stage[r] BY EventOf DEF Turn, Changing
<1>2. DOMAIN plan = 1 .. Len(plan) /\ Len(plan) \in Nat BY PlanShape
<1>3. k = n BY <1>1 DEF Turn, InTurn
<1>4. At(n) \in BegunIn(plan[n]) BY <1>2, <1>3 DEF Turn, InTurn
<1>5. IsSetup(r) BY <1>1, <1>3, <1>4 DEF BegunIn, Changing
<1> QED BY <1>1, <1>2, <1>3, <1>5 DEF Turn, SetUpTo

LEMMA EnterInTurn ==
    ASSUME FullPlans, TInv, Planned, NEW n, Turn(n), NEW r \in Requests,
           SetUpFirst(r) \/ JoinSetup(r) \/ SkipSetup(r) \/ BeginChangeover(r)
    PROVE  Turn(n)' \/ Turn(n + 1)'
<1> DEFINE k == n + 1
<1>1. EnterSetup(r) /\ stage[r] = "accepted"
  BY DEF SetUpFirst, JoinSetup, SkipSetup, BeginChangeover, EnterSetup
<1>2. /\ k \in DOMAIN plan /\ n \in Nat /\ r = plan[k] /\ At(k) = "accepted"
      /\ reserved = NoProcess /\ SetupNow = current
      /\ n > 0 => At(n) \notin Changing /\ current = Target(plan[n])
      /\ n = 0 => current \in {NoProcess, Target(plan[1])}
  BY <1>1, UnderWayIsNext
<1>3. plan' = plan /\ current' = current BY <1>1 DEF EnterSetup
<1>4. n > 0 => current \in Processes /\ current # NoProcess
  <2>1. n > 0 => n \in DOMAIN plan BY <1>2, Neighbours
  <2> QED BY <1>2, <2>1, PlanShape
<1>5. CASE ~IsSetup(r)
  <2>1. current = NoProcess \/ SetupNow = Target(r)
    <3>1. CASE n = 0 BY <1>2, <3>1
    <3>2. CASE n > 0 BY <1>2, <1>5, <3>2, Neighbours
    <3> QED BY <1>2, <3>1, <3>2
  <2>2. ~BeginChangeover(r) BY <2>1 DEF BeginChangeover
  <2>3. completed' = completed /\ reserved' = reserved
    BY <1>1, <1>5, <2>2 DEF EnterSetup, SetUpFirst, JoinSetup, SkipSetup
  <2>4. Processing' = Processing /\ \A x \in Requests : x # r => awaits'[x] = awaits[x]
    <3>1. awaits \in [Requests -> SUBSET Requests] /\ stage \in [Requests -> Stages]
      BY DEF TInv, TypeOK
    <3>2. \A x \in Requests : x # r => awaits'[x] = awaits[x]
      BY <2>2, <3>1 DEF SetUpFirst, JoinSetup, SkipSetup
    <3>3. \E v \in {"trivial", "joining", "ready"} : stage' = [stage EXCEPT ![r] = v]
      BY <2>2 DEF SetUpFirst, JoinSetup, SkipSetup
    <3>4. Processing' = Processing BY <1>1, <3>1, <3>3 DEF Processing
    <3> QED BY <3>2, <3>4
  <2>5. PICK v \in {"trivial", "joining", "ready"} :
           /\ Becomes(plan[k], v)
           /\ v = "trivial" => n = 0
           /\ v \in {"joining", "ready"} => current # NoProcess
    BY <1>2, <1>4, <2>2 DEF SetUpFirst, JoinSetup, SkipSetup, Becomes
  <2>6. v \in WaitingIn(plan[k]) BY <1>2, <1>5, <2>5 DEF WaitingIn
  <2>7. k > n /\ ~(k <= n) /\ ~(k > n + 1) BY <1>2
  <2>8. \A i \in DOMAIN plan : i # k =>
           (awaits[plan[i]] \cap Processing') \subseteq awaits'[plan[i]]
    BY <1>2, <2>4, PlanShape
  <2> HIDE DEF k
  <2>9. Room'
    <3>1. At(k) \in HeldIn(plan[k]) BY <1>2, <1>5 DEF HeldIn
    <3> QED BY <1>2, <1>3, <2>5, <3>1, RoomKept DEF Turn
  <2>10. v \notin Changing \cup {"processing"} /\ At(k) \notin Changing
         /\ At(k) # "done" /\ At(k) # "new"
    BY <1>2 DEF Changing
  <2>11. k = n + 1 => n = 0 \/ At(n) \notin Changing BY <1>2
  <2>12. Turn(n)'
    BY <1>2, <1>3, <2>3, <2>5, <2>6, <2>7, <2>8, <2>9, <2>10, <2>11, TurnKept
  <2> QED BY <2>12
<1>6. CASE IsSetup(r)
  <2>1. n > 0 /\ Target(plan[n]) # Target(r) /\ <<Target(plan[n]), Target(r)>> \in Changeovers
    BY <1>2, <1>6, Neighbours
  <2>2. BeginChangeover(r)
    BY <1>2, <1>4, <1>6, <2>1 DEF SetUpFirst, JoinSetup, SkipSetup, SkipsSetup
  <2>3. Consumed(r) = {k} BY <1>2, PlanShape DEF Consumed, IsEventOf
  <2>4. completed' = completed \cup {k} BY <1>1, <1>6, <2>3 DEF EnterSetup
  <2>5. Becomes(plan[k], "clearing") /\ "clearing" \in BegunIn(plan[k])
    BY <1>2, <1>6, <2>2 DEF BeginChangeover, Becomes, BegunIn, Changing
  <2>6. InTurn(k)' BY <1>2, <1>3, <2>4, <2>5, NextTurn DEF Turn
  <2>7. \A i \in DOMAIN plan : At(i)' = IF i = k THEN "clearing" ELSE At(i)
    BY <1>2, <1>3, <2>5, AtMoves
  <2>8. SetUpTo(k)'
    <3>1. reserved' = Target(plan[k]) /\ current = Target(plan[n])
      BY <1>2, <2>1, <2>2 DEF BeginChangeover
    <3>2. k > 0 /\ k - 1 = n BY <1>2
    <3>3. At(k)' \in Changing BY <1>2, <2>7 DEF Changing
    <3>4. \A i \in DOMAIN plan : ~IsSetup(plan[i]) =>
             /\ At(i)' = "trivial" => k = 0
             /\ At(i)' \in {"joining", "ready"} => current' # NoProcess
      <4>1. \A i \in DOMAIN plan : ~IsSetup(plan[i]) => i # k BY <1>2, <1>6
      <4>2. \A i \in DOMAIN plan : ~IsSetup(plan[i]) => At(i) # "trivial"
        BY <2>1 DEF Turn, SetUpTo
      <4> QED BY <1>3, <1>4, <2>1, <2>7, <4>1, <4>2
    <3> HIDE DEF k, At
    <3> QED BY <1>3, <3>1, <3>2, <3>3, <3>4 DEF SetUpTo
  <2>9. Alone'
    <3>1. /\ stage \in [Requests -> Stages] /\ stage' = [stage EXCEPT ![r] = "clearing"]
          /\ awaits \in [Requests -> SUBSET Requests]
          /\ awaits' = [awaits EXCEPT ![r] = RunningSetups]
      BY <2>2 DEF BeginChangeover, TInv, TypeOK
    <3>2. Processing' = Processing BY <1>1, <3>1 DEF Processing
    <3>3. \A i \in DOMAIN plan : i # k => awaits'[plan[i]] = awaits[plan[i]]
      BY <1>2, <3>1, PlanShape
    <3> HIDE DEF k, At, Processing
    <3> QED BY <1>3, <2>7, <3>2, <3>3 DEF Turn, Alone
  <2> HIDE DEF k
  <2>10. Ordered'
    <3>1. At(k) # "done" /\ At(k) # "new" BY <1>2
    <3> QED BY <1>2, <1>3, <2>5, <3>1, OrderKept DEF Turn
  <2>11. Room' BY <1>2, <1>3, <1>6, <2>5, RoomKept DEF Turn
  <2>12. Turn(k)' BY <2>6, <2>8, <2>9, <2>10, <2>11 DEF Turn
  <2> QED BY <2>12 DEF k
<1> QED BY <1>5, <1>6

(* The first setup of the resource is over. *)
LEMMA FirstSetupInTurn ==
    ASSUME FullPlans, TInv, Planned, NEW n, Turn(n), NEW r \in Requests, FirstSetupOver(r)
    PROVE  Turn(n)'
<1>1. stage[r] = "trivial" /\ Becomes(r, "ready") BY DEF FirstSetupOver, Becomes
<1>2. ~IsSetup(r)
  <2> SUFFICES ASSUME IsSetup(r) PROVE FALSE OBVIOUS
  <2>1. PICK k \in DOMAIN plan : r = plan[k] /\ At(k) = "trivial" BY <1>1, EventOf DEF Turn
  <2>2. k <= n \/ k > n BY PlanShape DEF Turn, InTurn
  <2> QED BY <2>1, <2>2 DEF Turn, InTurn, BegunIn, WaitingIn, Changing
<1>3. /\ n + 1 \in DOMAIN plan /\ n \in Nat /\ r = plan[n + 1] /\ At(n + 1) = "trivial"
      /\ reserved = NoProcess
  BY <1>1, <1>2, UnderWayIsNext
<1>4. n = 0 BY <1>2, <1>3 DEF Turn, SetUpTo
<1>5. 1 \in DOMAIN plan /\ r = plan[1] /\ At(1) = "trivial" /\ Becomes(plan[1], "ready")
  BY <1>1, <1>3, <1>4
<1>6. /\ plan' = plan /\ completed' = completed /\ reserved' = reserved /\ awaits' = awaits
      /\ current' = Target(plan[1])
  BY <1>5 DEF FirstSetupOver, schedule
<1>7. Target(plan[1]) # NoProcess BY <1>5, PlanShape
<1>8. \A i \in DOMAIN plan : At(i)' = IF i = 1 THEN "ready" ELSE At(i)
  BY <1>5, <1>6, AtMoves
<1>9. InTurn(n)'
  <2>1. "ready" \in WaitingIn(plan[1]) BY <1>2, <1>5 DEF WaitingIn
  <2>2. InTurn(n) BY DEF Turn
  <2> QED BY <1>4, <1>5, <1>6, <2>1, <2>2, SameTurn
<1>10. SetUpTo(n)' BY <1>3, <1>4, <1>6, <1>7 DEF SetUpTo
<1>11. Alone'
  <2>1. ASSUME NEW i \in DOMAIN plan
        PROVE  At(i)' \notin {"changing", "working", "processing"}
    <3>1. CASE i = 1 BY <1>8, <3>1
    <3>2. CASE i # 1
      <4>1. i > 1 BY <3>2, PlanShape
      <4>2. At(i) \in {"new", "queued"} BY <1>4, <4>1 DEF Turn, InTurn
      <4> QED BY <1>8, <3>2, <4>2
    <3> QED BY <3>1, <3>2
  <2> HIDE DEF At
  <2> QED BY <1>6, <2>1 DEF Alone
<1>12. Ordered' BY <1>5, <1>6, OrderKept DEF Turn
<1>13. Room'
  <2>1. At(1) \in HeldIn(plan[1]) BY <1>2, <1>5 DEF HeldIn
  <2> QED BY <1>5, <1>6, <2>1, RoomKept DEF Turn
<1> QED BY <1>9, <1>10, <1>11, <1>12, <1>13 DEF Turn

(* Setup returns, and a request is finished. *)
LEMMA ReturnInTurn ==
    ASSUME FullPlans, TInv, Planned, NEW n, Turn(n), NEW r \in Requests,
           JoinOver(r) \/ EndProduction(r) \/ Finish(r)
    PROVE  Turn(n)'
<1>1. PICK v \in {"ready", "unloading", "done"} :
         /\ Becomes(r, v)
         /\ v = "ready" => stage[r] = "joining"
         /\ v = "unloading" => stage[r] = "processing"
         /\ v = "done" => stage[r] = IF IsSetup(r) THEN "ready" ELSE "unloading"
  BY DEF JoinOver, EndProduction, Finish, Becomes
<1>2. PICK k \in DOMAIN plan : r = plan[k] /\ At(k) = stage[r]
  <2>1. stage[r] # "new" BY <1>1
  <2> QED BY <2>1, EventOf DEF Turn
<1>3. /\ plan' = plan /\ completed' = completed /\ current' = current /\ reserved' = reserved
  BY DEF JoinOver, EndProduction, Finish, schedule, setups
<1>4. /\ Len(plan) \in Nat /\ DOMAIN plan = 1 .. Len(plan) /\ n \in 0 .. Len(plan)
      /\ At(k) \in IF k <= n THEN BegunIn(plan[k]) ELSE WaitingIn(plan[k])
  BY <1>2, PlanShape DEF Turn, InTurn
<1>5. k > n => v = "ready" /\ ~IsSetup(r)
  BY <1>1, <1>2, <1>4 DEF WaitingIn
<1>6. k > n => k = n + 1 /\ current # NoProcess /\ (n = 0 \/ At(n) \notin Changing)
  <2> SUFFICES ASSUME k > n
               PROVE  k = n + 1 /\ current # NoProcess /\ (n = 0 \/ At(n) \notin Changing)
    OBVIOUS
  <2>1. stage[r] = "joining" /\ ~IsSetup(r) BY <1>1, <1>5
  <2>2. n + 1 \in DOMAIN plan /\ n \in Nat /\ r = plan[n + 1] /\ (n > 0 => At(n) \notin Changing)
    BY <2>1, UnderWayIsNext
  <2>3. k = n + 1
    <3>1. plan[k] = plan[n + 1] BY <1>2, <2>2
    <3> QED BY <2>2, <3>1, PlanShape
  <2>4. current # NoProcess BY <1>2, <2>1 DEF Turn, SetUpTo
  <2> QED BY <2>2, <2>3, <2>4
<1>7. k <= n => v \in BegunIn(plan[k]) BY <1>1, <1>2, <1>4 DEF BegunIn, Changing
<1>8. k > n => v \in WaitingIn(plan[k]) BY <1>2, <1>5 DEF WaitingIn
<1>9. ~(k > n + 1) BY <1>4, <1>6
<1>10. Room'
  <2>1. IsSetup(plan[k]) \/ At(k) \in HeldIn(plan[k]) \cup CountedIn(plan[k])
    BY <1>1, <1>2 DEF HeldIn, CountedIn
  <2> QED BY <1>1, <1>2, <1>3, <2>1, RoomKept DEF Turn
<1>11. v \notin Changing \cup {"processing"} /\ At(k) \notin Changing
       /\ At(k) # "done" /\ At(k) # "new" /\ v # "trivial"
  BY <1>1, <1>2 DEF Changing
<1>12. v \in {"joining", "ready"} => IsSetup(plan[k]) \/ current # NoProcess
  BY <1>2, <1>4, <1>6, <1>1 DEF BegunIn, Changing
<1>13. \A i \in DOMAIN plan : (awaits[plan[i]] \cap Processing') \subseteq awaits'[plan[i]]
  <2>1. awaits \in [Requests -> SUBSET Requests] /\ stage \in [Requests -> Stages]
    BY DEF TInv, TypeOK
  <2>2. CASE awaits' = awaits BY <2>2
  <2>3. CASE EndProduction(r)
    <3>1. r \notin Processing' BY <2>1, <2>3 DEF EndProduction, Processing
    <3>2. \A i \in DOMAIN plan : awaits'[plan[i]] = awaits[plan[i]] \ {r}
      BY <2>3, PlanShape DEF EndProduction
    <3> QED BY <3>1, <3>2
  <2> QED BY <2>2, <2>3 DEF JoinOver, Finish
<1>14. Becomes(plan[k], v) BY <1>1, <1>2
<1>15. k = n + 1 => n = 0 \/ At(n) \notin Changing BY <1>4, <1>6
<1> HIDE DEF At, Processing, Becomes
<1> QED BY <1>3, <1>15, <1>7, <1>8, <1>9, <1>10, <1>11, <1>12, <1>13, <1>14, TurnKept

(* The changeover takes its course. *)
LEMMA ChangeInTurn ==
    ASSUME FullPlans, TInv, Planned, NEW n, Turn(n), NEW r \in Requests,
           ClearOver(r) \/ WorkOnSetup(r) \/ EndChangeover(r)
    PROVE  Turn(n)'
<1>1. stage[r] \in Changing
  BY DEF ClearOver, WorkOnSetup, EndChangeover, Changing
<1>2. /\ n \in DOMAIN plan /\ n > 0 /\ r = plan[n] /\ At(n) = stage[r] /\ IsSetup(r)
      /\ reserved = Target(r) /\ current = Target(plan[n - 1])
  BY <1>1, ChangingIsLast
<1>3. PICK v \in {"changing", "working", "joining"} :
         /\ Becomes(plan[n], v)
         /\ v = "changing" => ClearOver(r)
         /\ v = "working" => WorkOnSetup(r)
         /\ v = "joining" => EndChangeover(r)
  BY <1>2 DEF ClearOver, WorkOnSetup, EndChangeover, Becomes
<1>4. plan' = plan /\ completed' = completed
  BY DEF ClearOver, WorkOnSetup, EndChangeover, schedule
<1>5. \A i \in DOMAIN plan : At(i)' = IF i = n THEN v ELSE At(i) BY <1>2, <1>3, <1>4, AtMoves
<1>6. InTurn(n)'
  <2>1. v \in BegunIn(plan[n]) /\ (v \in Changing => At(n) \in Changing)
    BY <1>1, <1>2 DEF BegunIn, Changing
  <2>2. ~(n > n) /\ n # n + 1 /\ ~(n > n + 1) BY <1>2, PlanShape
  <2>3. InTurn(n) BY DEF Turn
  <2> QED BY <1>2, <1>3, <1>4, <2>1, <2>2, <2>3, SameTurn
<1>7. stage \in [Requests -> Stages] /\ awaits \in [Requests -> SUBSET Requests]
  BY DEF TInv, TypeOK
<1>8. Processing' = Processing
  BY <1>1, <1>2, <1>3, <1>7 DEF Processing, Becomes, Changing
<1>9. Ordered' /\ Room'
  <2>1. At(n) # "done" /\ At(n) # "new" BY <1>1, <1>2 DEF Changing
  <2>2. Ordered' BY <1>2, <1>3, <1>4, <2>1, OrderKept DEF Turn
  <2>3. Room' BY <1>2, <1>3, <1>4, RoomKept DEF Turn
  <2> QED BY <2>2, <2>3
<1>10. n + 1 \in DOMAIN plan /\ Target(plan[n]) # NoProcess BY <1>2, PlanShape
<1>11. CASE v # "joining"
  <2>1. current' = current /\ reserved' = reserved
    BY <1>3, <1>11 DEF ClearOver, WorkOnSetup, setups
  <2>2. At(n)' \in Changing BY <1>2, <1>5, <1>11 DEF Changing
  <2>3. SetUpTo(n)'
    <3>1. \A i \in DOMAIN plan : ~IsSetup(plan[i]) => At(i)' = At(i) BY <1>2, <1>5
    <3>2. reserved' = Target(plan[n]) /\ current' = Target(plan[n - 1]) BY <1>2, <2>1
    <3>3. \A i \in DOMAIN plan : ~IsSetup(plan[i]) =>
             /\ At(i)' = "trivial" => n = 0
             /\ At(i)' \in {"joining", "ready"} => current' # NoProcess
      BY <2>1, <3>1 DEF Turn, SetUpTo
    <3>4. n # 0 BY <1>2
    <3> HIDE DEF At
    <3> QED BY <1>4, <2>2, <3>2, <3>3, <3>4 DEF SetUpTo
  <2>4. ASSUME NEW i \in DOMAIN plan
        PROVE  /\ At(i)' = "changing" => Processing \subseteq awaits'[plan[i]]
               /\ At(i)' = "working" => Processing = {}
               /\ At(i)' = "processing" => current = Target(plan[i])
    <3>1. CASE i = n /\ v = "changing"
      <4>1. awaits'[plan[i]] = Processing
        BY <1>2, <1>3, <1>7, <3>1 DEF ClearOver, RunningStates
      <4> QED BY <1>5, <3>1, <4>1
    <3>2. CASE i = n /\ v = "working"
      <4>1. At(n) = "changing" /\ awaits[plan[n]] = {} BY <1>2, <1>3, <3>2 DEF WorkOnSetup
      <4>2. Processing = {} BY <1>2, <4>1 DEF Turn, Alone
      <4> QED BY <1>5, <3>2, <4>2
    <3>3. CASE i # n
      <4>1. At(i)' = At(i) BY <1>5, <3>3
      <4>2. At(i) \notin Changing BY <3>3 DEF Turn, InTurn
      <4> QED BY <4>1, <4>2 DEF Turn, Alone, Changing
    <3> QED BY <1>11, <3>1, <3>2, <3>3
  <2>5. Alone'
    <3> HIDE DEF At, Processing
    <3> QED BY <1>4, <1>8, <2>1, <2>4 DEF Alone
  <2> QED BY <1>6, <1>9, <2>3, <2>5 DEF Turn
<1>12. CASE v = "joining"
  <2>1. current' = Target(plan[n]) /\ reserved' = NoProcess
    BY <1>2, <1>3, <1>12 DEF EndChangeover, Unreserved
  <2>2. At(n) = "working" BY <1>2, <1>3, <1>12 DEF EndChangeover
  <2>3. Processing = {} BY <1>2, <2>2 DEF Turn, Alone
  <2>4. SetUpTo(n)'
    <3>1. \A i \in DOMAIN plan : ~IsSetup(plan[i]) => At(i)' = At(i) BY <1>2, <1>5
    <3>2. \A i \in DOMAIN plan : ~IsSetup(plan[i]) =>
             /\ At(i)' = "trivial" => n = 0
             /\ At(i)' \in {"joining", "ready"} => current' # NoProcess
      BY <1>10, <2>1, <3>1 DEF Turn, SetUpTo
    <3>3. n # 0 /\ At(n)' \notin Changing BY <1>2, <1>5, <1>12 DEF Changing
    <3> HIDE DEF At
    <3> QED BY <1>4, <2>1, <3>2, <3>3 DEF SetUpTo
  <2>5. ASSUME NEW i \in DOMAIN plan PROVE At(i)' \notin {"changing", "working", "processing"}
    <3>1. CASE i = n BY <1>5, <1>12, <3>1
    <3>2. CASE i # n
      <4>1. At(i)' = At(i) BY <1>5, <3>2
      <4>2. At(i) \notin Changing BY <3>2 DEF Turn, InTurn
      <4>3. At(i) # "processing" BY <2>3, PlanShape DEF Processing, At
      <4> QED BY <4>1, <4>2, <4>3 DEF Changing
    <3> QED BY <3>1, <3>2
  <2>6. Alone'
    <3> HIDE DEF At, Processing
    <3> QED BY <1>4, <2>5 DEF Alone
  <2> QED BY <1>6, <1>9, <2>4, <2>6 DEF Turn
<1> QED BY <1>11, <1>12

(* A setup is never processed and never has to wait for a state. *)
LEMMA StagesInTurn ==
    ASSUME FullPlans, TInv, Planned, NEW n, Turn(n), NEW r \in Requests
    PROVE  stage[r] # "started" /\ (IsSetup(r) => stage[r] # "processing")
<1> SUFFICES ASSUME stage[r] # "new"
             PROVE  stage[r] # "started" /\ (IsSetup(r) => stage[r] # "processing")
  OBVIOUS
<1>1. PICK k \in DOMAIN plan : r = plan[k] /\ At(k) = stage[r] BY EventOf DEF Turn
<1>2. k <= n \/ k > n BY PlanShape DEF Turn, InTurn
<1>3. At(k) \in BegunIn(plan[k]) \cup WaitingIn(plan[k]) BY <1>2 DEF Turn, InTurn
<1> QED BY <1>1, <1>3 DEF BegunIn, WaitingIn, Changing

(* A production that starts has a state. *)
LEMMA StateIsFree ==
    ASSUME FullPlans, TInv, Planned, NEW n, Turn(n), NEW r \in Requests,
           stage[r] = "ready", ~IsSetup(r)
    PROVE  FreeState(Target(r))
<1> DEFINE p == Target(r)
           busy == {x \in Processing : Target(x) = p}
<1>1. p \in Processes BY RequestsKnown
<1>2. r \in Of(p) BY DEF Of, HeldIn
<1>3. busy \subseteq Of(p) \ {r}
  BY StagesInTurn DEF Of, Processing, CountedIn
<1>4. Of(p) \subseteq Requests BY DEF Of
<1>5. IsFiniteSet(Of(p)) BY <1>4, RequestsKnown, FS_Subset
<1>6. Cardinality(Of(p)) <= Slots[p] BY <1>1 DEF Turn, Room
<1> HIDE DEF p, busy
<1>7. IsFiniteSet(Of(p) \ {r}) /\ Cardinality(Of(p) \ {r}) = Cardinality(Of(p)) - 1
  BY <1>2, <1>5, FS_RemoveElement
<1>8. IsFiniteSet(busy) /\ Cardinality(busy) <= Cardinality(Of(p) \ {r})
  BY <1>3, <1>7, FS_Subset
<1>9. Cardinality(busy) \in Nat /\ Cardinality(Of(p)) \in Nat /\ Slots[p] \in Nat
  BY <1>1, <1>5, <1>8, FS_CardinalityType, CapacityAssumption
<1>10. Cardinality(busy) < Slots[p] BY <1>6, <1>7, <1>8, <1>9
<1> QED BY <1>10 DEF FreeState, busy, p

LEMMA ProduceInTurn ==
    ASSUME FullPlans, TInv, Planned, NEW n, Turn(n), NEW r \in Requests, StartProduction(r)
    PROVE  Turn(n + 1)'
<1> DEFINE k == n + 1
<1>1. stage[r] = "ready" /\ ~IsSetup(r) BY DEF StartProduction
<1>2. /\ k \in DOMAIN plan /\ n \in Nat /\ r = plan[k] /\ At(k) = "ready"
      /\ reserved = NoProcess
      /\ n > 0 => At(n) \notin Changing /\ current = Target(plan[n])
      /\ n = 0 => current \in {NoProcess, Target(plan[1])}
  BY <1>1, UnderWayIsNext
<1>3. current = Target(plan[k])
  <2>1. CASE n = 0
    <3>1. current # NoProcess BY <1>1, <1>2 DEF Turn, SetUpTo
    <3> QED BY <1>2, <2>1, <3>1
  <2>2. CASE n > 0 BY <1>1, <1>2, <2>2, Neighbours
  <2> QED BY <1>2, <2>1, <2>2
<1>4. plan' = plan /\ current' = current /\ reserved' = reserved /\ awaits' = awaits
  BY DEF StartProduction, setups
<1>5. Becomes(plan[k], "processing") BY <1>1, <1>2, StateIsFree DEF StartProduction, Becomes
<1>6. Consumed(r) = {k} BY <1>2, PlanShape DEF Consumed, IsEventOf
<1>7. completed' = completed \cup {k} BY <1>6 DEF StartProduction
<1>8. \A i \in DOMAIN plan : At(i)' = IF i = k THEN "processing" ELSE At(i)
  BY <1>2, <1>4, <1>5, AtMoves
<1>9. InTurn(k)'
  <2>1. "processing" \in BegunIn(plan[k]) BY <1>1, <1>2 DEF BegunIn
  <2>2. n = 0 \/ At(n) \notin Changing BY <1>2
  <2> QED BY <1>2, <1>4, <1>5, <1>7, <2>1, <2>2, NextTurn DEF Turn
<1>10. \A i \in DOMAIN plan : At(i) \notin Changing
  <2>1. \A i \in DOMAIN plan : At(i) \in Changing => i = n BY DEF Turn, InTurn
  <2>2. DOMAIN plan = 1 .. Len(plan) /\ Len(plan) \in Nat BY PlanShape
  <2> QED BY <1>2, <2>1, <2>2
<1>11. SetUpTo(k)'
  <2>1. k # 0 /\ At(k)' \notin Changing BY <1>2, <1>8 DEF Changing
  <2>2. \A i \in DOMAIN plan : ~IsSetup(plan[i]) =>
           /\ At(i)' = "trivial" => k = 0
           /\ At(i)' \in {"joining", "ready"} => current' # NoProcess
    <3>1. ASSUME NEW i \in DOMAIN plan, ~IsSetup(plan[i]), At(i)' = "trivial" PROVE FALSE
      <4>1. i # k /\ At(i) = "trivial" /\ n = 0 BY <1>8, <3>1 DEF Turn, SetUpTo
      <4>2. i > n + 1 BY <1>2, <4>1, PlanShape
      <4> QED BY <4>1, <4>2 DEF Turn, InTurn
    <3>2. Target(plan[k]) # NoProcess BY <1>2, PlanShape
    <3> QED BY <1>3, <1>4, <3>1, <3>2
  <2> HIDE DEF At, k
  <2> QED BY <1>2, <1>3, <1>4, <2>1, <2>2 DEF SetUpTo
<1>12. Alone'
  <2> HIDE DEF At, Processing, k
  <2> QED BY <1>3, <1>4, <1>8, <1>10 DEF Turn, Alone, Changing
<1> HIDE DEF k
<1>13. Ordered'
  <2>1. At(k) # "done" /\ At(k) # "new" BY <1>2
  <2> QED BY <1>2, <1>4, <1>5, <2>1, OrderKept DEF Turn
<1>14. Room'
  <2>1. At(k) \in HeldIn(plan[k]) BY <1>1, <1>2 DEF HeldIn
  <2> QED BY <1>2, <1>4, <1>5, <2>1, RoomKept DEF Turn
<1>15. Turn(k)' BY <1>9, <1>11, <1>12, <1>13, <1>14 DEF Turn
<1> QED BY <1>15 DEF k

LEMMA PInvInit ==
    ASSUME FullPlans, Init
    PROVE  PInv
<1> SUFFICES ASSUME Planned PROVE \E n \in Nat : Turn(n) BY DEF PInv
<1>1. TInv BY TInvInit
<1>2. /\ Len(plan) \in Nat /\ DOMAIN plan = 1 .. Len(plan) /\ 1 \in DOMAIN plan
      /\ \A i \in DOMAIN plan : plan[i] \in Requests
  BY <1>1, PlanShape
<1>3. \A i \in DOMAIN plan : At(i) = "new" BY <1>2 DEF Init, At
<1>4. InTurn(0)
  <2>1. 0 \in 0 .. Len(plan) /\ completed = 1 .. 0 BY <1>2 DEF Init
  <2>2. \A i \in DOMAIN plan : ~(i <= 0) /\ At(i) \in WaitingIn(plan[i]) /\ At(i) \notin Changing
    BY <1>2, <1>3 DEF WaitingIn, Changing
  <2>3. \A r \in Requests : stage[r] = "new" BY DEF Init
  <2> QED BY <1>3, <2>1, <2>2, <2>3 DEF InTurn
<1>5. SetUpTo(0) /\ Alone /\ Ordered BY <1>3 DEF Init, SetUpTo, Alone, Ordered
<1>6. ASSUME NEW p \in Processes PROVE Cardinality(Of(p)) <= Slots[p]
  <2>1. Of(p) = {} BY DEF Init, Of, HeldIn, CountedIn
  <2>2. Cardinality(Of(p)) = 0 BY <2>1, FS_EmptySet
  <2>3. Slots[p] \in 1 .. Capacity /\ Capacity \in Nat BY <1>6, CapacityAssumption
  <2> QED BY <2>2, <2>3
<1>7. Turn(0) BY <1>4, <1>5, <1>6 DEF Turn, Room
<1> QED BY <1>7

LEMMA PInvNext ==
    ASSUME FullPlans, TInv, PInv, [Next]_vars
    PROVE  PInv'
<1>1. plan' = plan
  <2>1. CASE Wake
    BY <2>1 DEF Wake, WakeInVain, DelayOver, WakeAndInject, WakeAndCreate, WakeAndDelay,
                WakeWithoutRoom, WakeAndStart, schedule
  <2>2. ASSUME NEW r \in Requests, Handler(r) PROVE plan' = plan
    BY <2>2 DEF Handler, SetUpFirst, JoinSetup, SkipSetup, BeginChangeover, EnterSetup,
          FirstSetupOver, JoinOver, ClearOver, WorkOnSetup, EndChangeover, StartProduction,
          GetState, EndProduction, Finish, schedule
  <2>3. CASE PlanAdvances \/ UNCHANGED vars BY <2>3 DEF PlanAdvances, vars, schedule
  <2>4. ASSUME NEW j \in Jobs, Request(j) PROVE plan' = plan BY <2>4 DEF Request, schedule
  <2> QED BY <2>1, <2>2, <2>3, <2>4 DEF Next
<1> SUFFICES ASSUME Planned PROVE \E m \in Nat : Turn(m)'
  BY <1>1 DEF PInv, Planned
<1>2. PICK n \in Nat : Turn(n) BY DEF PInv
<1>3. n + 1 \in Nat OBVIOUS
<1>4. ASSUME NEW r \in Requests, Handler(r) PROVE Turn(n)' \/ Turn(n + 1)'
  <2>1. ~GetState(r) BY <1>2, StagesInTurn DEF GetState
  <2> QED
    BY <1>2, <1>4, <2>1, EnterInTurn, FirstSetupInTurn, ReturnInTurn, ChangeInTurn, ProduceInTurn
    DEF Handler
<1>5. CASE PlanAdvances BY <1>2, <1>5, TurnRests DEF PlanAdvances, schedule, setups
<1>6. CASE UNCHANGED vars BY <1>2, <1>6, TurnRests DEF vars, schedule, setups
<1>7. CASE Wake BY <1>2, <1>7, LoopInTurn
<1>8. ASSUME NEW j \in Jobs, Request(j) PROVE Turn(n)' BY <1>2, <1>8, RequestInTurn
<1> QED BY <1>2, <1>3, <1>4, <1>5, <1>6, <1>7, <1>8 DEF Next

LEMMA PlanIsFollowed ==
    ASSUME TInv, PInv
    PROVE  FollowsPlan
<1>1. CASE Planned
  <2>1. PICK n \in Nat : InTurn(n) BY <1>1 DEF PInv, Turn
  <2>2. completed = 1 .. n BY <2>1 DEF InTurn
  <2> QED BY <2>2 DEF FollowsPlan
<1>2. CASE ~Planned
  <2>1. DOMAIN plan = {} BY <1>2 DEF Planned
  <2>2. completed = {} BY <2>1 DEF TInv, TypeOK
  <2> QED BY <2>2 DEF FollowsPlan
<1> QED BY <1>1, <1>2

(* The resource follows its schedule: the events of a full plan are begun  *)
(* in the planned order, none is left out.                                 *)
THEOREM PlanFollowed == ASSUME FullPlans PROVE Spec => []FollowsPlan
<1>1. Init => PInv BY PInvInit
<1>2. TInv /\ PInv /\ [Next]_vars => PInv' BY PInvNext
<1>3. TInv /\ PInv => FollowsPlan BY PlanIsFollowed
<1> QED BY <1>1, <1>2, <1>3, TInvAlways, PTL DEF Spec

LEMMA ChangeoversAreAlone ==
    ASSUME FullPlans, TInv, PInv, Planned
    PROVE  ChangeoverAlone /\ \A r \in Processing : current = Target(r)
<1>1. PICK n \in Nat : Turn(n) BY DEF PInv
<1>2. ASSUME NEW r \in Requests, stage[r] = "working"
      PROVE  /\ reserved = Target(r)
             /\ Processing = {} /\ \A x \in RunningSetups : x = r
  <2>1. r = plan[n] /\ n \in DOMAIN plan /\ At(n) = "working" /\ reserved = Target(r)
    BY <1>1, <1>2, ChangingIsLast DEF Changing
  <2>2. Processing = {} BY <1>1, <2>1 DEF Turn, Alone
  <2>3. ASSUME NEW x \in RunningSetups PROVE x = r
    BY <1>1, <2>1, <2>3, ChangingIsLast DEF RunningSetups, Changing
  <2> QED BY <2>1, <2>2, <2>3
<1>3. ASSUME NEW r \in Processing PROVE current = Target(r)
  <2>1. r \in Requests /\ stage[r] = "processing" BY DEF Processing
  <2>2. PICK k \in DOMAIN plan : r = plan[k] /\ At(k) = "processing"
    BY <1>1, <2>1, EventOf DEF Turn
  <2> QED BY <1>1, <2>2 DEF Turn, Alone
<1> QED BY <1>2, <1>3 DEF ChangeoverAlone

(* Under a full plan a changeover has the resource to itself, and what is  *)
(* processed was set up for until it ends.                                 *)
THEOREM PlannedAlone == ASSUME FullPlans PROVE Spec => []PlannedChangeoverAlone
<1>1. Init => PInv BY PInvInit
<1>2. TInv /\ PInv /\ [Next]_vars => PInv' BY PInvNext
<1>3. TInv /\ PInv => PlannedChangeoverAlone
  BY ChangeoversAreAlone DEF PlannedChangeoverAlone
<1> QED BY <1>1, <1>2, <1>3, TInvAlways, PTL DEF Spec

-----------------------------------------------------------------------------
(* The loop does not spin: a production that was put back finds its        *)
(* changeover in the list before it, or the resource locked.               *)

(* A production that is injected was adopted by its changeover. *)
Adopted ==
    /\ injected # {} => Planned
    /\ \A j \in injected :
          j \in named /\ stage[Setup(j)] # "new" /\ stage[Production(j)] # "new"

Over(i) == IsSetup(plan[i]) /\ At(i) \in {"joining", "ready"}

(* A changeover that is over waits for nothing, and is finished before any *)
(* production that began after it.                                         *)
Late ==
    \A i \in DOMAIN plan : Over(i) =>
        /\ awaits[plan[i]] = {}
        /\ \A k \in completed : i < k /\ ~IsSetup(plan[k]) => At(k) = "processing"

(* No changeover is accepted while another one is only over. *)
Apart ==
    \A i, m \in DOMAIN plan : IsSetup(plan[i]) /\ At(i) = "accepted" => ~Over(m)

(* An accepted changeover keeps the resource locked. *)
Locked == \A i \in DOMAIN plan : IsSetup(plan[i]) /\ At(i) = "accepted" => pending

SInv == Adopted /\ (Planned => Late /\ Apart /\ Locked)

(* What a step of the loop, or of the outside, does to the requests *)
LEMMA LoopLeaves ==
    ASSUME TInv, Wake \/ (\E j \in Jobs : Request(j)) \/ PlanAdvances \/ UNCHANGED vars
    PROVE  /\ plan' = plan /\ completed' = completed /\ awaits' = awaits
           /\ \A x \in Requests :
                 \/ stage'[x] = stage[x]
                 \/ /\ stage'[x] = "queued"
                    /\ \/ stage[x] = "new"
                       \/ \E i \in DOMAIN plan : WakeAndInject(i) /\ x = plan[i]
                       \/ \E r \in Requests : WakeAndCreate(r) /\ x = Setup(r[1])
                 \/ stage'[x] = "accepted" /\ stage[x] = "queued" /\ WakeAndStart(x)
           /\ (\E r \in Requests : WakeAndStart(r) /\ IsSetup(r) /\ pending') \/ pending' = pending
           /\ injected' = injected \/ \E r \in Requests : WakeAndCreate(r)
           /\ named \subseteq named'
<1>1. stage \in [Requests -> Stages] BY DEF TInv, TypeOK
<1>2. CASE PlanAdvances \/ UNCHANGED vars
  BY <1>2 DEF PlanAdvances, vars, schedule, setups, links
<1>3. ASSUME NEW j \in Jobs, Request(j)
      PROVE  /\ plan' = plan /\ completed' = completed /\ awaits' = awaits /\ pending' = pending
             /\ injected' = injected /\ named' = named
             /\ \A x \in Requests : stage'[x] = stage[x] \/ (stage[x] = "new" /\ stage'[x] = "queued")
  BY <1>1, <1>3 DEF Request, schedule, setups, links
<1>4. ASSUME NEW i \in DOMAIN plan, WakeAndInject(i)
      PROVE  /\ plan' = plan /\ completed' = completed /\ awaits' = awaits /\ pending' = pending
             /\ injected' = injected /\ named \subseteq named'
             /\ \A x \in Requests :
                   stage'[x] = stage[x] \/ (x = plan[i] /\ stage'[x] = "queued")
  BY <1>1, <1>4 DEF WakeAndInject, CanInject, schedule, setups
<1>5. ASSUME NEW r \in Requests, WakeAndCreate(r)
      PROVE  /\ plan' = plan /\ completed' = completed /\ awaits' = awaits /\ pending' = pending
             /\ named \subseteq named'
             /\ \A x \in Requests :
                   stage'[x] = stage[x] \/ (x = Setup(r[1]) /\ stage'[x] = "queued")
  BY <1>1, <1>5 DEF WakeAndCreate, schedule, setups
<1>6. ASSUME NEW r \in Requests, WakeAndStart(r)
      PROVE  /\ plan' = plan /\ completed' = completed /\ awaits' = awaits
             /\ (IsSetup(r) /\ pending') \/ pending' = pending
             /\ injected' = injected /\ named' = named
             /\ \A x \in Requests :
                   \/ stage'[x] = stage[x]
                   \/ x = r /\ stage'[x] = "accepted" /\ stage[x] = "queued"
  BY <1>1, <1>6 DEF WakeAndStart, Startable, Selected, Eligible, Queued, Locks, schedule, links,
                    TInv, TypeOK
<1>7. CASE \/ WakeInVain \/ DelayOver
           \/ \E r \in Requests : WakeAndDelay(r) \/ WakeWithoutRoom(r)
  BY <1>7 DEF WakeInVain, DelayOver, WakeAndDelay, WakeWithoutRoom, schedule, setups, links
<1>8. CASE Wake
  <2>1. CASE \E i \in DOMAIN plan : WakeAndInject(i) BY <1>4, <2>1
  <2>2. CASE \E r \in Requests : WakeAndCreate(r) BY <1>5, <2>2
  <2>3. CASE \E r \in Requests : WakeAndStart(r) BY <1>6, <2>3
  <2> QED BY <1>7, <1>8, <2>1, <2>2, <2>3 DEF Wake
<1> QED BY <1>2, <1>3, <1>8

(* What a step of a handler does to the requests *)
LEMMA HandlerLeaves ==
    ASSUME TInv, NEW r \in Requests, Handler(r)
    PROVE  /\ plan' = plan /\ injected' = injected /\ named' = named
           /\ stage' \in [Requests -> Stages]
           /\ \A x \in Requests : x # r => stage'[x] = stage[x] /\ awaits'[x] \subseteq awaits[x]
           /\ stage'[r] \notin {"new", "queued", "accepted"}
           /\ completed' = completed \/ completed' = completed \cup Consumed(r)
           /\ EnterSetup(r) \/ StartProduction(r) \/ completed' = completed
<1>1. stage \in [Requests -> Stages] /\ awaits \in [Requests -> SUBSET Requests]
  BY DEF TInv, TypeOK
<1>2. stage' \in [Requests -> Stages] BY HandlerTypes DEF TInv, TypeOK
<1>3. CASE SetUpFirst(r) \/ JoinSetup(r) \/ SkipSetup(r) \/ BeginChangeover(r)
  BY <1>1, <1>2, <1>3 DEF SetUpFirst, JoinSetup, SkipSetup, BeginChangeover, EnterSetup, links
<1>4. CASE FirstSetupOver(r) \/ JoinOver(r) \/ ClearOver(r) \/ WorkOnSetup(r) \/ EndChangeover(r)
  BY <1>1, <1>2, <1>4 DEF FirstSetupOver, JoinOver, ClearOver, WorkOnSetup, EndChangeover,
                          schedule, links
<1>5. CASE StartProduction(r) \/ GetState(r) \/ EndProduction(r) \/ Finish(r)
  BY <1>1, <1>2, <1>5 DEF StartProduction, GetState, EndProduction, Finish, schedule, links
<1> QED BY <1>3, <1>4, <1>5 DEF Handler

(* A planned changeover is never skipped and never free. *)
LEMMA SetupBegins ==
    ASSUME FullPlans, TInv, Planned, NEW n, Turn(n), NEW r \in Requests,
           SetUpFirst(r) \/ JoinSetup(r) \/ SkipSetup(r)
    PROVE  ~IsSetup(r)
<1> SUFFICES ASSUME IsSetup(r) PROVE FALSE OBVIOUS
<1>1. stage[r] = "accepted" BY DEF SetUpFirst, JoinSetup, SkipSetup, EnterSetup
<1>2. /\ n + 1 \in DOMAIN plan /\ n \in Nat /\ r = plan[n + 1] /\ SetupNow = current
      /\ n > 0 => current = Target(plan[n])
  BY <1>1, UnderWayIsNext
<1>3. /\ n > 0 /\ n \in DOMAIN plan /\ Target(plan[n]) # Target(r)
      /\ <<Target(plan[n]), Target(r)>> \in Changeovers
  BY <1>2, Neighbours
<1>4. Target(plan[n]) # NoProcess BY <1>3, PlanShape
<1> QED BY <1>2, <1>3, <1>4 DEF SetUpFirst, JoinSetup, SkipSetup, SkipsSetup

(* A changeover is over when its state ends. *)
LEMMA BecomesOver ==
    ASSUME FullPlans, TInv, Planned, NEW n, Turn(n), NEW r \in Requests, Handler(r), IsSetup(r),
           stage'[r] \in {"joining", "ready"}
    PROVE  EndChangeover(r) \/ JoinOver(r)
<1>1. stage \in [Requests -> Stages] BY DEF TInv, TypeOK
<1>2. ~SetUpFirst(r) /\ ~JoinSetup(r) /\ ~SkipSetup(r) BY SetupBegins
<1>3. stage[r] # "trivial"
  <2> SUFFICES ASSUME stage[r] = "trivial" PROVE FALSE OBVIOUS
  <2>1. PICK k \in DOMAIN plan : r = plan[k] /\ At(k) = "trivial" BY EventOf DEF Turn
  <2>2. k <= n \/ k > n BY PlanShape DEF Turn, InTurn
  <2> QED BY <2>1, <2>2 DEF Turn, InTurn, BegunIn, WaitingIn, Changing
<1> QED
  BY <1>1, <1>2, <1>3 DEF Handler, BeginChangeover, FirstSetupOver, ClearOver, WorkOnSetup,
      StartProduction, GetState, EndProduction, Finish

LEMMA AdoptedNext ==
    ASSUME TInv, Adopted, [Next]_vars
    PROVE  Adopted'
<1>1. ASSUME NEW r \in Requests, Handler(r) PROVE Adopted'
  <2>1. injected \subseteq Jobs BY DEF TInv, TypeOK
  <2>2. \A j \in injected : Setup(j) \in Requests /\ Production(j) \in Requests
    BY <2>1, RequestsKnown
  <2>3. \A x \in Requests : stage[x] # "new" => stage'[x] # "new" BY <1>1, HandlerLeaves
  <2> QED BY <1>1, <2>2, <2>3, HandlerLeaves DEF Adopted, Planned, Setup, Production
<1>2. CASE Wake \/ (\E j \in Jobs : Request(j)) \/ PlanAdvances \/ UNCHANGED vars
  <2>1. injected \subseteq Jobs BY DEF TInv, TypeOK
  <2>2. \A j \in injected : Setup(j) \in Requests /\ Production(j) \in Requests
    BY <2>1, RequestsKnown
  <2>3. /\ plan' = plan /\ named \subseteq named'
        /\ \A x \in Requests : stage[x] # "new" => stage'[x] # "new"
        /\ injected' = injected \/ \E r \in Requests : WakeAndCreate(r)
    BY <1>2, LoopLeaves
  <2>4. CASE injected' = injected BY <2>2, <2>3, <2>4 DEF Adopted, Planned, Setup, Production
  <2>5. ASSUME NEW r \in Requests, WakeAndCreate(r) PROVE Adopted'
    <3>1. Planned /\ ~IsSetup(r) BY <2>5 DEF WakeAndCreate, NeedsSetupRequest
    <3>2. Setup(r[1]) \in Requests /\ r = Production(r[1]) BY <3>1, RequestsKnown
    <3>3. stage[r] = "queued" BY <2>5 DEF WakeAndCreate, Selected, Eligible, Queued
    <3>4. /\ injected' = injected \cup {r[1]} /\ r[1] \in named'
          /\ stage' = [stage EXCEPT ![Setup(r[1])] = "queued"] /\ stage \in [Requests -> Stages]
      BY <2>5 DEF WakeAndCreate, TInv, TypeOK
    <3>5. stage'[Setup(r[1])] # "new" /\ stage'[r] # "new" BY <3>2, <3>3, <3>4
    <3> QED BY <2>2, <2>3, <3>1, <3>2, <3>4, <3>5 DEF Adopted, Planned, Setup, Production
  <2> QED BY <2>3, <2>4, <2>5
<1> QED BY <1>1, <1>2 DEF Next

LEMMA LateNext ==
    ASSUME FullPlans, TInv, Planned, NEW n, Turn(n), Late, [Next]_vars
    PROVE  Late'
<1>1. /\ DOMAIN plan = 1 .. Len(plan) /\ Len(plan) \in Nat
      /\ \A i \in DOMAIN plan : plan[i] \in Requests
      /\ \A i, k \in DOMAIN plan : plan[i] = plan[k] => i = k
      /\ completed = 1 .. n /\ n \in 0 .. Len(plan)
  BY PlanShape DEF Turn, InTurn
<1>2. CASE Wake \/ (\E j \in Jobs : Request(j)) \/ PlanAdvances \/ UNCHANGED vars
  <2>1. plan' = plan /\ completed' = completed /\ awaits' = awaits
    BY <1>2, LoopLeaves
  <2>2. ASSUME NEW i \in DOMAIN plan
        PROVE  /\ At(i)' \in {"joining", "ready"} => At(i) = At(i)'
               /\ At(i) = "processing" => At(i)' = "processing"
    <3>1. CASE \E r \in Requests : WakeAndCreate(r) /\ plan[i] = Setup(r[1])
      <4>1. PICK r \in Requests : WakeAndCreate(r) /\ plan[i] = Setup(r[1]) BY <3>1
      <4>2. At(n + 1) = "queued" /\ plan[i] = plan[n + 1]
        BY <4>1, CreateIsNext
      <4>3. At(i)' = "queued" BY <2>1, <4>1, <1>1 DEF WakeAndCreate, At, TInv, TypeOK
      <4> QED BY <4>2, <4>3 DEF At
    <3>2. CASE \E k \in DOMAIN plan : WakeAndInject(k) /\ plan[i] = plan[k]
      <4>1. WakeAndInject(i) BY <1>1, <3>2
      <4>2. At(i) \in {"new", "accepted"} BY <4>1, NextIsInjected
      <4>3. At(i)' = "queued" BY <1>1, <2>1, <4>1 DEF WakeAndInject, At, TInv, TypeOK
      <4> QED BY <4>2, <4>3
    <3>3. CASE /\ ~\E r \in Requests : WakeAndCreate(r) /\ plan[i] = Setup(r[1])
               /\ ~\E k \in DOMAIN plan : WakeAndInject(k) /\ plan[i] = plan[k]
      BY <1>1, <1>2, <2>1, <3>3, LoopLeaves DEF At
    <3> QED BY <3>1, <3>2, <3>3
  <2> HIDE DEF At
  <2>3. \A k \in completed : k \in DOMAIN plan BY <1>1
  <2> QED BY <2>1, <2>2, <2>3 DEF Late, Over
<1>3. ASSUME NEW r \in Requests, Handler(r) PROVE Late'
  <2>1. /\ plan' = plan
        /\ \A x \in Requests : x # r => stage'[x] = stage[x] /\ awaits'[x] \subseteq awaits[x]
        /\ completed' = completed \/ completed' = completed \cup Consumed(r)
        /\ EnterSetup(r) \/ StartProduction(r) \/ completed' = completed
    BY <1>3, HandlerLeaves
  <2> SUFFICES ASSUME NEW i \in DOMAIN plan, IsSetup(plan[i]), stage'[plan[i]] \in {"joining", "ready"}
               PROVE  /\ awaits'[plan[i]] = {}
                      /\ \A k \in completed' :
                            i < k /\ ~IsSetup(plan[k]) => stage'[plan[k]] = "processing"
    BY <2>1 DEF Late, Over, At
  <2>2. plan[i] \in Requests BY <1>1
  <2>3. CASE plan[i] = r /\ EndChangeover(r)
    <3>1. n \in DOMAIN plan /\ r = plan[n]
      BY <2>3, ChangingIsLast DEF EndChangeover, Changing
    <3>2. i = n BY <1>1, <2>3, <3>1
    <3>3. awaits'[r] = RunningSetups \ {r} BY <2>3 DEF EndChangeover
    <3>4. ASSUME NEW x \in RunningSetups PROVE x = r
      <4>1. x \in Requests /\ stage[x] \in Changing BY DEF RunningSetups, Changing
      <4> QED BY <3>1, <4>1, ChangingIsLast
    <3>5. completed' = completed BY <2>3 DEF EndChangeover, schedule
    <3> QED BY <1>1, <2>3, <3>2, <3>3, <3>4, <3>5
  <2>4. CASE plan[i] = r /\ ~EndChangeover(r)
    <3>1. JoinOver(r) BY <1>3, <2>4, BecomesOver
    <3>2. completed' = completed /\ awaits' = awaits /\ stage[r] = "joining"
          /\ stage' = [stage EXCEPT ![r] = "ready"]
      BY <3>1 DEF JoinOver, schedule
    <3>3. Over(i) BY <2>4, <3>2 DEF Over, At
    <3>4. ASSUME NEW k \in completed', i < k, ~IsSetup(plan[k])
          PROVE  stage'[plan[k]] = "processing"
      <4>1. k \in DOMAIN plan /\ k \in completed BY <1>1, <3>2
      <4>2. At(k) = "processing" BY <3>3, <3>4, <4>1 DEF Late
      <4>3. plan[k] # r BY <1>1, <2>4, <3>4, <4>1
      <4>4. plan[k] \in Requests BY <1>1, <4>1
      <4> QED BY <2>1, <4>2, <4>3, <4>4 DEF At
    <3>5. awaits'[plan[i]] = {} BY <3>2, <3>3 DEF Late
    <3> QED BY <3>4, <3>5
  <2>5. CASE plan[i] # r
    <3>1. Over(i) BY <2>1, <2>2, <2>5 DEF Over, At
    <3>2. awaits[plan[i]] = {} BY <3>1 DEF Late
    <3>3. awaits'[plan[i]] = {} BY <2>1, <2>2, <2>5, <3>2
    <3>4. ~EndProduction(r)
      BY <2>2, <3>1, <3>2 DEF EndProduction, AllFinished, Over, At
    <3>5. ASSUME NEW k \in completed', i < k, ~IsSetup(plan[k])
          PROVE  stage'[plan[k]] = "processing"
      <4>1. CASE k \in completed
        <5>1. k \in DOMAIN plan BY <1>1, <4>1
        <5>2. At(k) = "processing" BY <3>1, <3>5, <4>1 DEF Late
        <5>3. plan[k] # r
          <6>1. stage[r] # "processing"
            BY <1>3, <3>4, <3>5 DEF Handler, SetUpFirst, JoinSetup, SkipSetup, BeginChangeover,
                EnterSetup, FirstSetupOver, JoinOver, ClearOver, WorkOnSetup, EndChangeover,
                StartProduction, GetState, Finish
          <6> QED BY <5>2, <6>1 DEF At
        <5>4. plan[k] \in Requests BY <1>1, <5>1
        <5> QED BY <2>1, <5>2, <5>3, <5>4 DEF At
      <4>2. CASE k \notin completed
        <5>1. completed' # completed /\ k \in Consumed(r) BY <2>1, <4>2
        <5>2. plan[k] = r BY <5>1 DEF Consumed, IsEventOf
        <5>3. StartProduction(r)
          <6>1. ~IsSetup(r) BY <3>5, <5>2
          <6>2. EnterSetup(r) => completed' = completed BY <6>1 DEF EnterSetup
          <6> QED BY <2>1, <5>1, <6>2
        <5>4. FreeState(Target(r)) BY <5>3, StateIsFree DEF StartProduction
        <5>5. stage' = [stage EXCEPT ![r] = "processing"] BY <5>3, <5>4 DEF StartProduction
        <5> QED BY <5>2, <5>5 DEF TInv, TypeOK
      <4> QED BY <4>1, <4>2
    <3> QED BY <3>3, <3>5
  <2> QED BY <2>3, <2>4, <2>5
<1> QED BY <1>2, <1>3 DEF Next

(* Who is accepted after a step was accepted before it, or starts now. *)
LEMMA AcceptedBefore ==
    ASSUME FullPlans, TInv, Planned, [Next]_vars, NEW i \in DOMAIN plan, At(i)' = "accepted"
    PROVE  plan' = plan /\ (At(i) = "accepted" \/ WakeAndStart(plan[i]))
<1>1. plan[i] \in Requests BY PlanShape
<1>2. CASE Wake \/ (\E j \in Jobs : Request(j)) \/ PlanAdvances \/ UNCHANGED vars
  BY <1>1, <1>2, LoopLeaves DEF At
<1>3. ASSUME NEW r \in Requests, Handler(r)
      PROVE  plan' = plan /\ (At(i) = "accepted" \/ WakeAndStart(plan[i]))
  BY <1>1, <1>3, HandlerLeaves DEF At
<1> QED BY <1>2, <1>3 DEF Next

(* Who is over after a step was over before it, or ends now. *)
LEMMA OverBefore ==
    ASSUME FullPlans, TInv, Planned, NEW n, Turn(n), [Next]_vars, NEW i \in DOMAIN plan, Over(i)'
    PROVE  Over(i) \/ EndChangeover(plan[i])
<1>1. plan[i] \in Requests BY PlanShape
<1>2. CASE Wake \/ (\E j \in Jobs : Request(j)) \/ PlanAdvances \/ UNCHANGED vars
  BY <1>1, <1>2, LoopLeaves DEF Over, At
<1>3. ASSUME NEW r \in Requests, Handler(r) PROVE Over(i) \/ EndChangeover(plan[i])
  <2>1. plan' = plan /\ IsSetup(plan[i]) /\ stage'[plan[i]] \in {"joining", "ready"}
    BY <1>3, HandlerLeaves DEF Over, At
  <2>2. CASE plan[i] = r
    <3>1. EndChangeover(r) \/ JoinOver(r) BY <1>3, <2>1, <2>2, BecomesOver
    <3> QED BY <2>1, <2>2, <3>1 DEF JoinOver, Over, At
  <2>3. CASE plan[i] # r BY <1>1, <1>3, <2>1, <2>3, HandlerLeaves DEF Over, At
  <2> QED BY <2>2, <2>3
<1> QED BY <1>2, <1>3 DEF Next

(* An accepted changeover and one that is over *)
LEMMA AcceptedAndOver ==
    ASSUME FullPlans, TInv, Planned, NEW n, Turn(n),
           NEW i \in DOMAIN plan, IsSetup(plan[i]), At(i) \in {"queued", "accepted"},
           NEW m \in DOMAIN plan, Over(m)
    PROVE  /\ i = n + 1 /\ n \in Nat /\ n \in DOMAIN plan /\ n > 0
           /\ m < n /\ ~IsSetup(plan[n]) /\ n \in completed
<1>1. /\ DOMAIN plan = 1 .. Len(plan) /\ Len(plan) \in Nat
      /\ completed = 1 .. n /\ n \in 0 .. Len(plan)
  BY PlanShape DEF Turn, InTurn
<1>2. ~(i <= n) BY DEF Turn, InTurn, BegunIn, Changing
<1>3. ~(i > n + 1) BY DEF Turn, InTurn
<1>4. i = n + 1 /\ n \in Nat BY <1>1, <1>2, <1>3
<1>5. n > 0 /\ n \in DOMAIN plan /\ ~IsSetup(plan[n]) BY <1>4, Neighbours
<1>6. ~(m > n) BY DEF Over, Turn, InTurn, WaitingIn
<1>7. m # n BY <1>5 DEF Over
<1> QED BY <1>1, <1>4, <1>5, <1>6, <1>7

LEMMA ApartNext ==
    ASSUME FullPlans, PlansSettle, TInv, Planned, NEW n, Turn(n), Late, Apart, [Next]_vars
    PROVE  Apart'
<1> SUFFICES ASSUME NEW i \in DOMAIN plan', NEW m \in DOMAIN plan',
                    IsSetup(plan'[i]), At(i)' = "accepted", Over(m)'
             PROVE  FALSE
  BY DEF Apart
<1>1. plan' = plan
  <2>1. CASE Wake \/ (\E j \in Jobs : Request(j)) \/ PlanAdvances \/ UNCHANGED vars
    BY <2>1, LoopLeaves
  <2>2. ASSUME NEW r \in Requests, Handler(r) PROVE plan' = plan BY <2>2, HandlerLeaves
  <2> QED BY <2>1, <2>2 DEF Next
<1>2. i \in DOMAIN plan /\ m \in DOMAIN plan /\ IsSetup(plan[i]) BY <1>1
<1>3. plan[i] \in Requests /\ plan[m] \in Requests BY <1>2, PlanShape
<1>4. At(i) = "accepted" \/ WakeAndStart(plan[i]) BY <1>2, AcceptedBefore
<1>5. Over(m) \/ EndChangeover(plan[m]) BY <1>2, OverBefore
<1> HIDE DEF Over
<1>6. ASSUME EndChangeover(plan[m]) PROVE FALSE
  <2>1. stage[plan[m]] \in Changing BY <1>6 DEF EndChangeover, Changing
  <2>2. n \in DOMAIN plan /\ n > 0 /\ At(n) \in Changing BY <1>3, <2>1, ChangingIsLast
  <2>3. At(i) # "accepted"
    <3> SUFFICES ASSUME At(i) = "accepted" PROVE FALSE OBVIOUS
    <3>1. stage[plan[i]] = "accepted" BY DEF At
    <3> QED BY <1>2, <1>3, <2>2, <3>1, UnderWayIsNext
  <2>4. Startable(plan[i]) BY <1>4, <2>3 DEF WakeAndStart
  <2> QED BY <2>2, <2>4, SetupWhenReady DEF Startable
<1>7. Over(m) BY <1>5, <1>6
<1>8. CASE At(i) = "accepted" BY <1>1, <1>2, <1>7, <1>8 DEF Apart
<1>9. CASE WakeAndStart(plan[i])
  <2>1. At(i) = "queued" BY <1>9 DEF WakeAndStart, Startable, Selected, Eligible, Queued, At
  <2>2. /\ i = n + 1 /\ n \in Nat /\ n \in DOMAIN plan /\ n > 0
        /\ m < n /\ ~IsSetup(plan[n]) /\ n \in completed
    BY <1>2, <1>7, <2>1, AcceptedAndOver
  <2> DEFINE K == {k \in m .. i : ~IsSetup(plan[k])}
             Made == {plan[k] : k \in K}
  <2>3. /\ \A k \in K : k \in DOMAIN plan /\ k \in completed /\ m < k
        /\ K \subseteq m .. i /\ m \in Nat /\ i \in Nat
    <3>1. /\ DOMAIN plan = 1 .. Len(plan) /\ Len(plan) \in Nat /\ completed = 1 .. n
      BY PlanShape DEF Turn, InTurn
    <3>2. IsSetup(plan[m]) BY <1>7 DEF Over
    <3> QED BY <1>2, <2>2, <3>1, <3>2
  <2>4. IsFiniteSet(K)
    <3>1. K \subseteq m .. i BY <2>3
    <3>2. IsFiniteSet(m .. i) BY <2>3, FS_Interval
    <3> HIDE DEF K
    <3> QED BY <3>1, <3>2, FS_Subset
  <2>5. IsFiniteSet(Made) /\ Cardinality(Made) = Cardinality(K)
    <3> DEFINE f == [k \in K |-> plan[k]]
    <3>1. \A k, l \in K : plan[k] = plan[l] => k = l BY <2>3, PlanShape
    <3>2. f \in Bijection(K, Made)
      BY <3>1 DEF Bijection, Injection, Surjection, IsInjective
    <3>3. ExistsBijection(K, Made) BY <3>2 DEF ExistsBijection
    <3> QED BY <2>4, <3>3, FS_Bijection
  <2>6. Made \subseteq Counted /\ plan[m] \in Counted /\ plan[m] \notin Made
    <3>1. ASSUME NEW k \in K PROVE plan[k] \in Counted
      <4>1. k \in DOMAIN plan /\ k \in completed /\ m < k /\ ~IsSetup(plan[k]) BY <2>3
      <4>2. plan[k] \in Requests BY <4>1, PlanShape
      <4> HIDE DEF K
      <4>3. At(k) = "processing" BY <1>2, <1>7, <4>1 DEF Late
      <4> QED BY <4>1, <4>2, <4>3 DEF Counted, CountedIn, At
    <3>2. plan[m] \in Counted BY <1>3, <1>7 DEF Counted, CountedIn, Over, At
    <3>3. IsSetup(plan[m]) BY <1>7 DEF Over
    <3> QED BY <3>1, <3>2, <3>3
  <2> HIDE DEF Made
  <2>7. Cardinality(K) + 1 <= Cardinality(Counted) /\ Cardinality(K) \in Nat
    <3>1. /\ IsFiniteSet(Made \cup {plan[m]})
          /\ Cardinality(Made \cup {plan[m]}) = Cardinality(Made) + 1
      BY <2>5, <2>6, FS_AddElement
    <3>2. Made \cup {plan[m]} \subseteq Counted BY <2>6
    <3>3. Cardinality(Made \cup {plan[m]}) <= Cardinality(Counted)
      BY <3>2, ClaimsFinite, FS_Subset
    <3> QED BY <2>4, <2>5, <3>1, <3>3, FS_CardinalityType
  <2>8. SetupNow = Target(plan[n]) /\ SetupNow \in Processes /\ SetupNow # NoProcess
    <3>1. SetupNow = Target(plan[n]) BY <1>9, <2>2, SetupWhenReady DEF WakeAndStart, Startable
    <3> QED BY <2>2, <3>1, PlanShape
  <2>9. Slots[Target(plan[n])] - (running + held) >= 1
    BY <1>9, <2>8 DEF WakeAndStart, FreeCapacity, CapacityOf
  <2>10. Slots[Target(plan[n])] \in Nat /\ running >= Cardinality(Counted)
        /\ running \in Nat /\ held \in Nat
    BY <2>8, CapacityAssumption DEF TInv, TypeOK, Claims
  <2>11. Slots[Target(plan[n])] <= 1 + Cardinality(K)
    <3>1. i - 1 = n /\ m < i /\ IsSetup(plan[m]) BY <1>7, <2>2, <2>3 DEF Over
    <3> QED BY <1>2, <3>1 DEF PlansSettle, TInv, TypeOK
  <2> HIDE DEF K
  <2> QED BY <2>7, <2>9, <2>10, <2>11, ClaimsFinite
<1> QED BY <1>4, <1>8, <1>9

LEMMA LockedNext ==
    ASSUME FullPlans, TInv, Planned, NEW n, Turn(n), Apart, Locked, [Next]_vars
    PROVE  Locked'
<1> SUFFICES ASSUME NEW i \in DOMAIN plan', IsSetup(plan'[i]), At(i)' = "accepted"
             PROVE  pending'
  BY DEF Locked
<1>1. plan' = plan
  <2>1. CASE Wake \/ (\E j \in Jobs : Request(j)) \/ PlanAdvances \/ UNCHANGED vars
    BY <2>1, LoopLeaves
  <2>2. ASSUME NEW r \in Requests, Handler(r) PROVE plan' = plan BY <2>2, HandlerLeaves
  <2> QED BY <2>1, <2>2 DEF Next
<1>2. i \in DOMAIN plan /\ IsSetup(plan[i]) BY <1>1
<1>3. plan[i] \in Requests BY <1>2, PlanShape
<1>4. At(i) = "accepted" \/ WakeAndStart(plan[i]) BY <1>2, AcceptedBefore
<1>5. CASE WakeAndStart(plan[i])
  BY <1>2, <1>5 DEF WakeAndStart, Locks
<1>6. CASE At(i) = "accepted"
  <2>1. stage[plan[i]] = "accepted" BY <1>6 DEF At
  <2>2. /\ n + 1 \in DOMAIN plan /\ n \in Nat /\ plan[i] = plan[n + 1]
        /\ n > 0 => At(n) \notin Changing
    BY <1>2, <1>3, <2>1, UnderWayIsNext
  <2>3. pending BY <1>2, <1>6 DEF Locked
  <2>4. CASE Wake \/ (\E j \in Jobs : Request(j)) \/ PlanAdvances \/ UNCHANGED vars
    BY <2>3, <2>4, LoopLeaves
  <2>5. ASSUME NEW r \in Requests, Handler(r) PROVE pending'
    <3>1. stage'[r] # "accepted" BY <2>5, HandlerLeaves
    <3>2. plan[i] # r BY <1>1, <3>1 DEF At
    <3>3. ~BeginChangeover(r)
      <4> SUFFICES ASSUME BeginChangeover(r) PROVE FALSE OBVIOUS
      <4>1. stage[r] = "accepted" BY DEF BeginChangeover, EnterSetup
      <4> QED BY <2>2, <3>2, <4>1, UnderWayIsNext
    <3>4. ~EndChangeover(r)
      <4> SUFFICES ASSUME EndChangeover(r) PROVE FALSE OBVIOUS
      <4>1. stage[r] \in Changing BY DEF EndChangeover, Changing
      <4> QED BY <2>2, <4>1, ChangingIsLast
    <3>5. ~(Finish(r) /\ IsSetup(r))
      <4> SUFFICES ASSUME Finish(r), IsSetup(r) PROVE FALSE OBVIOUS
      <4>1. stage[r] = "ready" BY DEF Finish
      <4>2. PICK m \in DOMAIN plan : r = plan[m] /\ At(m) = "ready"
        BY <4>1, EventOf DEF Turn
      <4>3. Over(m) BY <4>2 DEF Over
      <4> QED BY <1>2, <1>6, <4>3 DEF Apart
    <3>6. CASE SetUpFirst(r) \/ JoinSetup(r) \/ SkipSetup(r)
      BY <2>3, <3>6 DEF SetUpFirst, JoinSetup, SkipSetup
    <3>7. CASE FirstSetupOver(r) \/ JoinOver(r) \/ ClearOver(r) \/ WorkOnSetup(r)
      BY <2>3, <3>7 DEF FirstSetupOver, JoinOver, ClearOver, WorkOnSetup, setups
    <3>8. CASE StartProduction(r) \/ GetState(r) \/ EndProduction(r)
      BY <2>3, <3>8 DEF StartProduction, GetState, EndProduction, setups
    <3>9. CASE Finish(r) BY <2>3, <3>5, <3>9 DEF Finish, Unlocked
    <3> QED BY <2>5, <3>3, <3>4, <3>6, <3>7, <3>8, <3>9 DEF Handler
  <2> QED BY <2>4, <2>5 DEF Next
<1> QED BY <1>4, <1>5, <1>6

LEMMA SInvInit ==
    ASSUME FullPlans, Init
    PROVE  SInv
<1>1. Adopted BY DEF Init, Adopted
<1>2. ASSUME Planned PROVE Late /\ Apart /\ Locked
  <2>1. TInv BY TInvInit
  <2>2. \A i \in DOMAIN plan : plan[i] \in Requests BY <1>2, <2>1, PlanShape
  <2>3. \A i \in DOMAIN plan : At(i) = "new" BY <2>2 DEF Init, At
  <2> QED BY <2>3 DEF Late, Apart, Locked, Over
<1> QED BY <1>1, <1>2 DEF SInv

LEMMA SInvNext ==
    ASSUME FullPlans, PlansSettle, TInv, PInv, SInv, [Next]_vars
    PROVE  SInv'
<1>1. Adopted' BY AdoptedNext DEF SInv
<1>2. plan' = plan
  <2>1. CASE Wake \/ (\E j \in Jobs : Request(j)) \/ PlanAdvances \/ UNCHANGED vars
    BY <2>1, LoopLeaves
  <2>2. ASSUME NEW r \in Requests, Handler(r) PROVE plan' = plan BY <2>2, HandlerLeaves
  <2> QED BY <2>1, <2>2 DEF Next
<1>3. ASSUME Planned PROVE Late' /\ Apart' /\ Locked'
  <2>1. PICK n \in Nat : Turn(n) BY <1>3 DEF PInv
  <2>2. Adopted /\ Late /\ Apart /\ Locked BY <1>3 DEF SInv
  <2> QED BY <1>3, <2>1, <2>2, LateNext, ApartNext, LockedNext
<1> QED BY <1>1, <1>2, <1>3 DEF SInv, Planned

(* The first event of a plan is no production that was put back. *)
LEMMA FirstIsNotInjected ==
    ASSUME FullPlans, TInv, Planned, NEW n, Turn(n), Adopted
    PROVE  plan[1][1] \notin injected \/ IsSetup(plan[1])
<1> SUFFICES ASSUME plan[1][1] \in injected, ~IsSetup(plan[1]) PROVE FALSE OBVIOUS
<1> DEFINE s == Setup(plan[1][1])
<1>1. 1 \in DOMAIN plan /\ plan[1] \in Requests /\ plan[1][1] \in Jobs BY PlanShape
<1>2. s \in Requests /\ IsSetup(s) /\ s[1] = plan[1][1] /\ plan[1] = Production(plan[1][1])
  BY <1>1, RequestsKnown
<1>3. stage[s] # "new" BY DEF Adopted
<1>4. PICK k \in DOMAIN plan : s = plan[k] BY <1>2, <1>3, EventOf DEF Turn
<1> HIDE DEF s
<1>5. k + 1 \in DOMAIN plan /\ plan[k + 1] = plan[1] BY <1>2, <1>4, PlanShape
<1>6. k + 1 = 1 BY <1>1, <1>5, PlanShape
<1> QED BY <1>4, <1>6, PlanShape

LEMMA NeverSpins ==
    ASSUME FullPlans, TInv, PInv, SInv
    PROVE  LoopNeverSpins
<1> SUFFICES ASSUME NEW r \in Requests, Ready, NothingToInject, Selected(r),
                    ~NeedsSetupRequest(r), PutBack(r)
             PROVE  FALSE
  BY DEF LoopNeverSpins
<1>1. ~IsSetup(r) /\ r[1] \in injected /\ ~MatchesSetup(r) BY DEF PutBack
<1>2. Planned /\ Adopted /\ Late /\ Apart /\ Locked BY <1>1 DEF SInv, Adopted
<1>3. PICK n \in Nat : Turn(n) BY <1>2 DEF PInv
<1>4. Eligible(r) BY DEF Selected
<1>5. n + 1 \in DOMAIN plan BY <1>2, <1>3, <1>4, EligibleIsNext
<1>6. r # plan[n + 1]
  <2> SUFFICES ASSUME r = plan[n + 1] PROVE FALSE OBVIOUS
  <2>1. CASE n = 0
    BY <1>1, <1>2, <1>3, <2>1, FirstIsNotInjected
  <2>2. CASE n > 0
    <3>1. Target(r) = Target(plan[n]) /\ n \in DOMAIN plan
      BY <1>1, <1>2, <1>5, <2>2, Neighbours
    <3>2. SetupNow = Target(r) BY <1>2, <1>3, <2>2, <3>1, SetupWhenReady
    <3>3. SetupNow # NoProcess BY <3>2, RequestsKnown
    <3> QED BY <1>1, <3>2, <3>3 DEF MatchesSetup
  <2> QED BY <2>1, <2>2
<1> DEFINE s == plan[n + 1]
<1>7. /\ IsSetup(s) /\ n + 2 \in DOMAIN plan /\ r = plan[n + 2] /\ r = Production(s[1])
  BY <1>2, <1>3, <1>4, <1>6, EligibleIsNext
<1>8. s \in Requests /\ s[1] \in Jobs BY <1>2, <1>5, PlanShape
<1>9. r[1] = s[1] /\ s = Setup(r[1]) /\ s # r
  BY <1>1, <1>7, <1>8, RequestsKnown
<1>10. At(n + 1) \in {"queued", "accepted"}
  <2>1. stage[s] # "new" BY <1>1, <1>2, <1>9 DEF Adopted
  <2>2. At(n + 1) \in WaitingIn(s) BY <1>3, <1>5 DEF Turn, InTurn
  <2> QED BY <1>7, <2>1, <2>2 DEF WaitingIn, At
<1>11. At(n + 1) # "accepted"
  <2> SUFFICES ASSUME At(n + 1) = "accepted" PROVE FALSE OBVIOUS
  <2>1. pending BY <1>2, <1>5, <1>7 DEF Locked
  <2> QED BY <2>1 DEF Ready, InSetup
<1>12. s \in Queued BY <1>8, <1>10, <1>11 DEF Queued, At
<1>13. /\ OpenEvents = {i \in DOMAIN plan : i > n}
       /\ \A i \in DOMAIN plan : IsNext(i) <=> i = n + 1
  BY <1>2, <1>3, NextEvent DEF Turn
<1>14. /\ DOMAIN plan = 1 .. Len(plan) /\ Len(plan) \in Nat
       /\ \A i, k \in DOMAIN plan : plan[i] = plan[k] => i = k
       /\ \A i \in DOMAIN plan : plan[i] \in Requests
  BY <1>2, PlanShape
<1>15. ~OutOfTurn(s) BY <1>13 DEF OutOfTurn, OpenEvents
<1> HIDE DEF s
<1>16. ~\E x \in Queued : MatchesSetup(x) /\ ~OutOfTurn(x)
  BY <1>1, <1>2, <1>4 DEF Eligible
<1>17. ~PrefixBlocks(s)
  <2> SUFFICES ASSUME NEW c \in DOMAIN plan, IsCutoff(c, s), NEW i \in OpenEvents, i < c
               PROVE  FALSE
    BY DEF PrefixBlocks
  <2>1. plan[c] = s BY <1>7 DEF IsCutoff
  <2>2. c = n + 1 BY <1>5, <1>14, <2>1 DEF s
  <2> QED BY <1>13, <1>14, <2>2
<1>18. Eligible(s)
  BY <1>12, <1>15, <1>16, <1>17 DEF Eligible, Blocked
<1>19. Precedes(r, s) BY <1>8, <1>9, <1>18 DEF Selected
<1>20. n + 1 \in Rank(s) /\ n + 2 \in Rank(r)
  <2>1. KnowsProduct(s) /\ KnowsProduct(r) BY <1>1, <1>2, <1>9 DEF KnowsProduct, Adopted
  <2>2. n + 1 > n /\ n + 2 > n BY <1>3
  <2> QED BY <1>5, <1>7, <1>13, <2>1, <2>2 DEF Rank, s
<1>21. Rank(requests[1]) # {}
  <2>1. IsIn(requests, s) BY <1>8, <1>12 DEF Queued, TInv, Listed
  <2>2. 1 \in DOMAIN requests
    <3>1. requests \in Seq(Requests) BY DEF TInv, TypeOK
    <3>2. \E i \in DOMAIN requests : TRUE BY <2>1 DEF IsIn
    <3> QED BY <3>1, <3>2
  <2>3. requests[1] \in Requests
    <3>1. requests \in Seq(Requests) BY DEF TInv, TypeOK
    <3> QED BY <2>2, <3>1
  <2>4. stage[requests[1]] = "queued" BY <2>2, <2>3 DEF TInv, Listed, IsIn
  <2>5. PICK k \in DOMAIN plan : requests[1] = plan[k] /\ At(k) = "queued"
    BY <1>3, <2>3, <2>4, EventOf DEF Turn
  <2>6. k > n
    <3>1. ~(k <= n) BY <1>3, <2>5 DEF Turn, InTurn, BegunIn, Changing
    <3> QED BY <1>3, <1>14, <3>1
  <2>7. KnowsProduct(plan[k])
    <3>1. CASE IsSetup(plan[k])
      <4>1. ~(k > n + 1) BY <1>3, <2>5, <3>1 DEF Turn, InTurn
      <4>2. k = n + 1 BY <1>3, <1>14, <2>6, <4>1
      <4> QED BY <1>1, <1>2, <1>9, <4>2 DEF KnowsProduct, Adopted, s
    <3>2. CASE ~IsSetup(plan[k]) BY <3>2 DEF KnowsProduct
    <3> QED BY <3>1, <3>2
  <2>8. k \in Rank(requests[1]) BY <1>13, <2>5, <2>6, <2>7 DEF Rank
  <2> QED BY <2>8
<1>22. \A i \in Rank(r), k \in Rank(s) : i < k BY <1>19, <1>20, <1>21 DEF Precedes
<1>23. n + 2 < n + 1 BY <1>20, <1>22
<1> QED BY <1>3, <1>23

LEMMA LockHolds ==
    ASSUME FullPlans, TInv, PInv, SInv
    PROVE  LockedUntilOver
<1> SUFFICES ASSUME Planned, NEW r \in Requests, IsSetup(r),
                    stage[r] \in {"accepted", "clearing", "changing", "working"}
             PROVE  InSetup
  BY DEF LockedUntilOver
<1>1. PICK n \in Nat : Turn(n) BY DEF PInv
<1>2. CASE stage[r] = "accepted"
  <2>1. PICK k \in DOMAIN plan : r = plan[k] /\ At(k) = "accepted"
    BY <1>1, <1>2, EventOf DEF Turn
  <2> QED BY <2>1 DEF SInv, Locked, InSetup
<1>3. CASE stage[r] \in Changing
  <2>1. reserved = Target(r) BY <1>1, <1>3, ChangingIsLast
  <2> QED BY <2>1, RequestsKnown DEF InSetup
<1> QED BY <1>2, <1>3 DEF Changing

LEMMA SteadyAlways == ASSUME FullPlans, PlansSettle PROVE Spec => [](TInv /\ PInv /\ SInv)
<1>1. Init => PInv /\ SInv BY PInvInit, SInvInit
<1>2. TInv /\ PInv /\ SInv /\ [Next]_vars => PInv' /\ SInv' BY PInvNext, SInvNext
<1> QED BY <1>1, <1>2, TInvAlways, PTL DEF Spec

(* The resource is locked from the acceptance of a changeover until the    *)
(* new setup is there: no changeover is accepted while an earlier one may  *)
(* still clear the lock.                                                   *)
THEOREM ChangeoversLock == ASSUME FullPlans, PlansSettle PROVE Spec => []LockedUntilOver
<1>1. TInv /\ PInv /\ SInv => LockedUntilOver BY LockHolds
<1> QED BY <1>1, SteadyAlways, PTL

(* The loop never turns on the spot, if no changeover of a full plan is    *)
(* accepted while another one only ends.                                   *)
THEOREM LoopMovesOn == ASSUME FullPlans, PlansSettle PROVE Spec => []LoopNeverSpins
<1>1. TInv /\ PInv /\ SInv => LoopNeverSpins BY NeverSpins
<1> QED BY <1>1, SteadyAlways, PTL

-----------------------------------------------------------------------------
(* A production that the loop has started never has to wait for somebody   *)
(* else's changeover: the waits of its handler for state_changed, which    *)
(* replace the event, are not reached.                                     *)
NobodyWaits == \A r \in Requests : stage[r] = "accepted" => Proceeds(r)

LEMMA NextProceeds == ASSUME FullPlans, TInv, PInv PROVE NobodyWaits
<1> SUFFICES ASSUME NEW r \in Requests, stage[r] = "accepted", Planned, ~IsSetup(r)
             PROVE  ~NeedsChangeover(r)
  BY RequestsKnown DEF NobodyWaits, Proceeds, MayChangeItself
<1>1. PICK n \in Nat : Turn(n) BY DEF PInv
<1>2. /\ n + 1 \in DOMAIN plan /\ r = plan[n + 1] /\ SetupNow = current
      /\ n > 0 => current = Target(plan[n])
      /\ n = 0 => current \in {NoProcess, Target(plan[1])}
  BY <1>1, UnderWayIsNext
<1>3. n > 0 => Target(plan[n]) = Target(r) BY <1>1, <1>2, Neighbours
<1> QED BY <1>2, <1>3 DEF NeedsChangeover

(* The handlers of productions do not wait for a setup under a full plan.  *)
THEOREM ProductionsProceed == ASSUME FullPlans PROVE Spec => []NobodyWaits
<1>1. Init => PInv BY PInvInit
<1>2. TInv /\ PInv /\ [Next]_vars => PInv' BY PInvNext
<1>3. TInv /\ PInv => NobodyWaits BY NextProceeds
<1> QED BY <1>1, <1>2, <1>3, TInvAlways, PTL DEF Spec
=============================================================================
