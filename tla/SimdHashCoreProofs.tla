------------------------- MODULE SimdHashCoreProofs -------------------------
(***************************************************************************)
(* Theorems about SimdHashCore, for every number of lanes, set of table    *)
(* sizes, hash function, set of keys and client: types, the probe chain,   *)
(* searches, the count, and the contents through the in-place rehash.      *)
(***************************************************************************)
EXTENDS SimdHashCore, ProbeProofs, FiniteSetTheorems

-----------------------------------------------------------------------------
(* Probes and slots.                                                       *)

\* A probe for a key starts its vectors at slots of the table.
LEMMA PositionTyped ==
  ASSUME TypeOK, NEW k \in Keys, NEW i \in ProbeSteps(Capacity)
  PROVE  Position(k, i) \in 0..(Capacity - 1)
<1>1. Capacity \in Capacities
  BY DEF TypeOK
<1>2. Capacity \in Nat \ {0}
  BY <1>1, CapacityBounds
<1>3. Home[k][Capacity] \in Nat
  BY <1>1, HashAssumption
<1>4. i \in Nat
  BY ProbeStepsTyped
<1> QED
  BY <1>2, <1>3, <1>4, ProbeAtTyped DEF Position

\* A lane of a vector of the probe is a slot of the table or the sentinel.
LEMMA LaneTyped ==
  ASSUME TypeOK, NEW k \in Keys, NEW i \in ProbeSteps(Capacity),
         NEW l \in Lanes, NEW s, s = Position(k, i) + l
  PROVE  /\ s \in 0..(Capacity + LANES - 1)
         /\ tags[s] # FORBIDDEN => s \in 0..(Capacity - 1)
         /\ s - Position(k, i) \in Lanes
<1> DEFINE p == Position(k, i)
<1>1. p \in 0..(Capacity - 1)
  BY PositionTyped
<1>2. Capacity \in Nat \ {0}
  BY CapacityBounds DEF TypeOK
<1>3. l \in Nat /\ l < LANES /\ LANES \in Nat
  BY LanesTyped DEF Lanes
<1>4. s = p + l
  OBVIOUS
<1> HIDE DEF p
<1>5. s \in 0..(Capacity + LANES - 1) /\ s - p = l
  BY <1>1, <1>2, <1>3, <1>4
<1>6. DOMAIN tags = 0..(Capacity + LANES - 1)
  BY DEF TypeOK
<1>7. tags[s] # FORBIDDEN => ~(s >= Capacity)
  BY <1>5, <1>6 DEF TypeOK
<1>8. tags[s] # FORBIDDEN => s \in 0..(Capacity - 1)
  BY <1>2, <1>5, <1>7
<1>9. s - p \in Lanes
  BY <1>5
<1> QED
  BY <1>5, <1>8, <1>9 DEF p

\* The slot Add takes: vacant, in the first vector of the probe that has a
\* vacant one.
LEMMA VacantSlotTyped ==
  ASSUME TypeOK, NEW k \in Keys, VacantSteps(k) # {}
  PROVE  /\ VacantSlot(k) \in 0..(Capacity - 1)
         /\ tags[VacantSlot(k)] \in {EMPTY, TOMBSTONE}
         /\ \E i \in VacantSteps(k) :
              /\ VacantSlot(k) - Position(k, i) \in Lanes
              /\ \A j \in VacantSteps(k) : i <= j
<1> DEFINE i == Min(VacantSteps(k))
           p == Position(k, i)
           mask == GetEmptyOrTomeStoneMask(tags, p)
<1>1. VacantSteps(k) \in SUBSET Nat
  BY ProbeStepsTyped DEF VacantSteps
<1>2. i \in VacantSteps(k) /\ \A j \in VacantSteps(k) : i <= j
  BY <1>1, MinNat
<1>3. i \in ProbeSteps(Capacity) /\ mask # {}
  BY <1>2 DEF VacantSteps
<1>4. mask \in SUBSET Lanes
  BY DEF GetEmptyOrTomeStoneMask
<1>5. PICK l \in mask : l = TrailingZeroCount(mask)
  BY <1>3, <1>4, TrailingZeroCountTyped
<1> DEFINE s == VacantSlot(k)
<1>6. s = p + l
  BY <1>5 DEF VacantSlot
<1>7. l \in Lanes /\ tags[s] \in {EMPTY, TOMBSTONE}
  BY <1>5, <1>6 DEF GetEmptyOrTomeStoneMask
<1>8. tags[s] # FORBIDDEN
  BY <1>7, TagKinds
<1>9. s \in 0..(Capacity - 1) /\ s - Position(k, i) \in Lanes
  BY <1>3, <1>6, <1>7, <1>8, LaneTyped
<1> HIDE DEF i, p, mask
<1>10. \E ii \in VacantSteps(k) :
         /\ VacantSlot(k) - Position(k, ii) \in Lanes
         /\ \A j \in VacantSteps(k) : ii <= j
  BY <1>2, <1>9
<1> QED
  BY <1>7, <1>9, <1>10

\* The slot a rehashed entry goes to: EMPTY, in the first vector of the probe
\* that has an EMPTY one.
LEMMA FindEmptyTyped ==
  ASSUME TypeOK, NEW k \in Keys, EmptySteps(k) # {}
  PROVE  /\ FindEmpty(k) \in 0..(Capacity - 1)
         /\ tags[FindEmpty(k)] = EMPTY
         /\ \E i \in EmptySteps(k) : ReachedAt(FindEmpty(k), k, i)
<1> DEFINE i == Min(EmptySteps(k))
           p == Position(k, i)
           mask == GetEmptyMask(tags, p)
<1>1. EmptySteps(k) \in SUBSET Nat
  BY ProbeStepsTyped DEF EmptySteps
<1>2. i \in EmptySteps(k) /\ \A j \in EmptySteps(k) : i <= j
  BY <1>1, MinNat
<1>3. i \in ProbeSteps(Capacity) /\ mask # {}
  BY <1>2 DEF EmptySteps
<1>4. mask \in SUBSET Lanes
  BY DEF GetEmptyMask
<1>5. PICK l \in mask : l = TrailingZeroCount(mask)
  BY <1>3, <1>4, TrailingZeroCountTyped
<1> DEFINE s == FindEmpty(k)
<1>6. s = p + l
  BY <1>5 DEF FindEmpty
<1>7. l \in Lanes /\ tags[s] = EMPTY
  BY <1>5, <1>6 DEF GetEmptyMask
<1>8. tags[s] # FORBIDDEN
  BY <1>7, TagKinds
<1>9. s \in 0..(Capacity - 1) /\ s - Position(k, i) \in Lanes
  BY <1>3, <1>6, <1>7, <1>8, LaneTyped
<1> HIDE DEF i, p, mask
<1>10. \E ii \in EmptySteps(k) : ReachedAt(FindEmpty(k), k, ii)
  BY <1>2, <1>9 DEF ReachedAt
<1> QED
  BY <1>7, <1>9, <1>10

\* A search that hits ends at a slot in use that holds the key.
LEMMA HitSlotTyped ==
  ASSUME TypeOK, NEW k \in Keys, HitSteps(k) # {}
  PROVE  HitSlot(k) \in FullSlots /\ entries[HitSlot(k)].key = k
<1> DEFINE i == Min(HitSteps(k))
           p == Position(k, i)
           l == Min(HitLanes(k, i))
<1>1. HitSteps(k) \in SUBSET Nat
  BY ProbeStepsTyped DEF HitSteps
<1>2. i \in HitSteps(k)
  BY <1>1, MinNat
<1>3. i \in ProbeSteps(Capacity) /\ HitLanes(k, i) # {}
  BY <1>2 DEF HitSteps
<1>4. HitLanes(k, i) \subseteq GetCmpMask(tags, p, TagOf[k])
  BY DEF HitLanes, VisitedLanes
<1>5. HitLanes(k, i) \in SUBSET Nat /\ HitLanes(k, i) \subseteq Lanes
  BY <1>4, LanesTyped DEF GetCmpMask
<1>6. l \in HitLanes(k, i)
  BY <1>3, <1>5, MinNat
<1>7. HitSlot(k) = p + l
  BY DEF HitSlot
<1> DEFINE s == p + l
<1>8. l \in Lanes /\ tags[s] = TagOf[k] /\ entries[s].key = k
  BY <1>4, <1>6 DEF HitLanes, GetCmpMask
<1>9. TagOf[k] \in HashTags
  BY HashAssumption
<1>10. tags[s] # FORBIDDEN
  BY <1>8, <1>9, TagKinds
<1>11. s \in 0..(Capacity - 1)
  BY <1>3, <1>8, <1>10, LaneTyped
<1> QED
  BY <1>7, <1>8, <1>9, <1>11 DEF FullSlots, IsFull
-----------------------------------------------------------------------------
(* Type correctness: TypeOK is inductive.  The tags and entries a call      *)
(* builds before it decides whether to grow are described by GoodTable.    *)

\* t and e are the tags and entries of a table of c slots.
GoodTable(t, e, c) ==
  /\ t \in [0..(c + LANES - 1) -> Tags]
  /\ \A s \in 0..(c + LANES - 1) : t[s] = FORBIDDEN <=> s >= c
  /\ e \in [0..(c - 1) -> Entry \cup {None}]
  /\ \A s \in 0..(c - 1) : IsFull(t[s]) => e[s] \in Entry

\* The table of a state is a good one.
LEMMA TableTyped ==
  ASSUME TypeOK
  PROVE  GoodTable(tags, entries, Capacity)
BY DEF TypeOK, GoodTable, FullSlots

\* Storing an entry in a slot leaves a good table.
LEMMA StoreTyped ==
  ASSUME NEW c \in Nat \ {0}, NEW t, NEW e, GoodTable(t, e, c),
         NEW s \in 0..(c - 1), NEW tag \in HashTags, NEW entry \in Entry
  PROVE  GoodTable([t EXCEPT ![s] = tag], [e EXCEPT ![s] = entry], c)
<1> DEFINE tt == [t EXCEPT ![s] = tag]
           ee == [e EXCEPT ![s] = entry]
<1>1. LANES \in Nat \ {0} /\ tag \in Tags /\ tag # FORBIDDEN
  BY LanesTyped, TagKinds
<1>2. s \in 0..(c + LANES - 1) /\ ~(s >= c)
  BY <1>1
<1>3. tt \in [0..(c + LANES - 1) -> Tags]
  BY <1>1 DEF GoodTable
<1>4. ee \in [0..(c - 1) -> Entry \cup {None}]
  BY DEF GoodTable
<1>5. \A x \in 0..(c + LANES - 1) : tt[x] = FORBIDDEN <=> x >= c
  BY <1>1, <1>2 DEF GoodTable
<1>6. \A x \in 0..(c - 1) : IsFull(tt[x]) => ee[x] \in Entry
  <2> TAKE x \in 0..(c - 1)
  <2>1. x \in 0..(c + LANES - 1)
    BY <1>1
  <2>2. CASE x = s
    BY <2>2 DEF GoodTable
  <2>3. CASE x # s
    BY <2>1, <2>3 DEF GoodTable
  <2> QED
    BY <2>2, <2>3
<1> QED
  BY <1>3, <1>4, <1>5, <1>6 DEF GoodTable

\* Burying an entry leaves a good table.
LEMMA BuryTyped ==
  ASSUME TypeOK, NEW s \in 0..(Capacity - 1)
  PROVE  GoodTable(Bury(s), entries, Capacity)
<1>1. GoodTable(tags, entries, Capacity) /\ Capacity \in Nat \ {0}
  BY TableTyped, CapacityBounds DEF TypeOK
<1>2. LANES \in Nat \ {0} /\ TOMBSTONE \in Tags /\ TOMBSTONE # FORBIDDEN
      /\ ~IsFull(TOMBSTONE)
  BY LanesTyped, TagKinds DEF IsFull
<1>3. s \in 0..(Capacity + LANES - 1) /\ ~(s >= Capacity)
  BY <1>1, <1>2
<1>4. Bury(s) \in [0..(Capacity + LANES - 1) -> Tags]
  BY <1>1, <1>2 DEF GoodTable, Bury
<1>5. \A x \in 0..(Capacity + LANES - 1) : Bury(s)[x] = FORBIDDEN <=> x >= Capacity
  BY <1>1, <1>2, <1>3 DEF GoodTable, Bury
<1>6. \A x \in 0..(Capacity - 1) : IsFull(Bury(s)[x]) => entries[x] \in Entry
  <2> TAKE x \in 0..(Capacity - 1)
  <2>1. x \in 0..(Capacity + LANES - 1)
    BY <1>1, <1>2
  <2> QED
    BY <1>1, <1>2, <2>1 DEF GoodTable, Bury
<1> QED
  BY <1>1, <1>4, <1>5, <1>6 DEF GoodTable

\* Fresh tags hold nothing, so they go with any entries.
LEMMA FreshTyped ==
  ASSUME NEW c \in Nat \ {0}, NEW e \in [0..(c - 1) -> Entry \cup {None}]
  PROVE  /\ GoodTable(FreshTags(c), e, c)
         /\ \A s \in 0..(c - 1) : ~IsFull(FreshTags(c)[s])
<1>1. LANES \in Nat \ {0}
  BY LanesTyped
<1>2. \A s \in 0..(c - 1) : s \in 0..(c + LANES - 1) /\ s < c
  BY <1>1
<1>3. \A s \in 0..(c - 1) : ~IsFull(FreshTags(c)[s])
  BY <1>2, TagKinds DEF FreshTags, IsFull
<1>4. FreshTags(c) \in [0..(c + LANES - 1) -> Tags]
  BY TagKinds DEF FreshTags
<1>5. \A s \in 0..(c + LANES - 1) : FreshTags(c)[s] = FORBIDDEN <=> s >= c
  BY <1>1, TagKinds DEF FreshTags
<1> QED
  BY <1>3, <1>4, <1>5 DEF GoodTable
\* A growing array keeps its pages.
LEMMA ExtendedTyped ==
  ASSUME NEW b \in Nat \ {0}, NEW c \in Nat \ {0}, b <= c,
         NEW e \in [0..(b - 1) -> Entry \cup {None}]
  PROVE  /\ Extended(e, c) \in [0..(c - 1) -> Entry \cup {None}]
         /\ \A s \in 0..(b - 1) : Extended(e, c)[s] = e[s]
BY DEF Extended

\* The table after a call that neither grows nor rehashes.
LEMMA KeepTyped ==
  ASSUME TypeOK, status = "idle",
         NEW t, NEW e, NEW n \in Int, NEW limit \in Nat,
         GoodTable(t, e, Capacity), Keep(t, e, n, limit)
  PROVE  TypeOK'
<1>1. /\ tags' = t /\ entries' = e /\ Count' = n /\ CountGrowthLimit' = limit
      /\ Capacity' = Capacity /\ maxLoadFactor' = maxLoadFactor
      /\ status' = status /\ prevTags' = prevTags /\ prevSize' = prevSize
      /\ prevCount' = prevCount /\ cursor' = cursor /\ carried' = carried
  BY DEF Keep, loop
<1>2. Capacity \in Capacities /\ prevSize = 0 /\ carried = None
  BY DEF TypeOK
<1>3. DOMAIN t = 0..(Capacity + LANES - 1)
  BY DEF GoodTable
<1>4. \A s \in FullSlots' : entries'[s] \in Entry
  BY <1>1 DEF GoodTable, FullSlots
<1>5. PendingSlots' = {}
  <2>1. \A s \in DOMAIN prevTags : s \in Nat \/ prevTags = NoTags
    <3>1. LANES \in Nat \ {0}
      BY LanesTyped
    <3> QED
      BY <1>2, <3>1 DEF TypeOK
  <2>2. DOMAIN NoTags = {}
    BY DEF NoTags
  <2>3. \A s \in DOMAIN prevTags : ~(s < 0)
    BY <2>1, <2>2
  <2> QED
    BY <1>1, <1>2, <2>3 DEF PendingSlots, Pending
<1>6. \A s \in DOMAIN tags' : tags'[s] = FORBIDDEN <=> s >= Capacity'
  BY <1>1, <1>3 DEF GoodTable
<1>7. /\ tags' \in [0..(Capacity' + LANES - 1) -> Tags]
      /\ entries' \in [0..(Capacity' - 1) -> Entry \cup {None}]
  BY <1>1 DEF GoodTable
<1> QED
  BY <1>1, <1>4, <1>5, <1>6, <1>7 DEF TypeOK

\* The table at the start of RehashInternal.
LEMMA StartRehashTyped ==
  ASSUME TypeOK, status = "idle", NEW c \in Capacities, Capacity <= c,
         NEW t, NEW e, NEW n \in Int, GoodTable(t, e, Capacity),
         Capacity' = c, CountGrowthLimit' \in Nat, maxLoadFactor' \in Nat,
         StartRehash(c, t, Extended(e, c), n)
  PROVE  TypeOK'
<1>1. /\ tags' = FreshTags(c) /\ entries' = Extended(e, c) /\ Count' = 0
      /\ status' = "rehash" /\ prevTags' = t /\ prevSize' = Capacity
      /\ prevCount' = n /\ cursor' = 0 /\ carried' = None
  BY DEF StartRehash
<1>2. c \in Nat \ {0} /\ Capacity \in Nat \ {0}
  BY CapacityBounds DEF TypeOK
<1>3. /\ entries' \in [0..(c - 1) -> Entry \cup {None}]
      /\ \A s \in 0..(Capacity - 1) : entries'[s] = e[s]
  BY <1>1, <1>2, ExtendedTyped DEF GoodTable
<1>4. GoodTable(tags', entries', c) /\ \A s \in 0..(c - 1) : ~IsFull(tags'[s])
  BY <1>1, <1>2, <1>3, FreshTyped
<1>5. FullSlots' = {}
  BY <1>4 DEF FullSlots
<1>6. \A s \in PendingSlots' : entries'[s] \in Entry
  <2> TAKE s \in PendingSlots'
  <2>1. s \in DOMAIN t /\ s < Capacity /\ IsFull(t[s])
    BY <1>1 DEF PendingSlots, Pending
  <2>2. s \in Int /\ s >= 0
    BY <1>2, <2>1, LanesTyped DEF GoodTable
  <2>3. s \in 0..(Capacity - 1)
    BY <1>2, <2>1, <2>2
  <2> QED
    BY <1>3, <2>1, <2>3 DEF GoodTable
<1>7. \A s \in DOMAIN tags' : tags'[s] = FORBIDDEN <=> s >= Capacity'
  <2>1. DOMAIN tags' = 0..(c + LANES - 1)
    BY <1>4 DEF GoodTable
  <2> QED
    BY <1>4, <2>1 DEF GoodTable
<1>8. tags' \in [0..(Capacity' + LANES - 1) -> Tags]
  BY <1>4 DEF GoodTable
<1>9. prevTags' \in [0..(prevSize' + LANES - 1) -> Tags]
  BY <1>1 DEF GoodTable
<1> QED
  BY <1>1, <1>2, <1>3, <1>5, <1>6, <1>7, <1>8, <1>9 DEF TypeOK

\* A step that leaves the table and the loop alone, as Hang and Abort do.
LEMMA StopTyped ==
  ASSUME TypeOK, UNCHANGED <<table, maxLoadFactor, loop>>,
         status' \in {"hung", "aborted"}
  PROVE  TypeOK'
BY DEF TypeOK, table, loop, FullSlots, PendingSlots, Pending

\* Reallocate: a larger table, with or without a rehash, or an abort.
LEMMA ReallocateTyped ==
  ASSUME TypeOK, status = "idle", NEW c \in Capacities,
         NEW t, NEW e, NEW n \in Int,
         e \in [0..(Capacity - 1) -> Entry \cup {None}],
         n # 0 => GoodTable(t, e, Capacity),
         Reallocate(c, t, e, n)
  PROVE  TypeOK'
<1>1. c \in Nat \ {0} /\ Capacity \in Nat \ {0}
  BY CapacityBounds DEF TypeOK
<1>2. DOMAIN e = 0..(Capacity - 1)
  OBVIOUS
<1>3. CASE c - 1 \in DOMAIN e /\ Abort
  BY <1>3, StopTyped DEF Abort
<1>4. CASE c - 1 \notin DOMAIN e
  <2>1. Capacity <= c
    BY <1>1, <1>2, <1>4
  <2>2. /\ Capacity' = c /\ CountGrowthLimit' = GrowthLimit(c, maxLoadFactor)
        /\ maxLoadFactor' = maxLoadFactor
    BY <1>4 DEF Reallocate
  <2>3. maxLoadFactor' \in Nat /\ CountGrowthLimit' \in Nat
    BY <2>2, GrowthLimitTyped DEF TypeOK
  <2>4. CASE n # 0 /\ StartRehash(c, t, Extended(e, c), n)
    BY <2>1, <2>2, <2>3, <2>4, StartRehashTyped
  <2>5. CASE /\ tags' = FreshTags(c) /\ entries' = Extended(e, c)
             /\ Count' = 0 /\ UNCHANGED <<status, loop>>
    <3>1. entries' \in [0..(c - 1) -> Entry \cup {None}]
      BY <1>1, <2>1, <2>5, ExtendedTyped
    <3>2. GoodTable(tags', entries', c) /\ \A s \in 0..(c - 1) : ~IsFull(tags'[s])
      BY <1>1, <2>5, <3>1, FreshTyped
    <3>3. FullSlots' = {}
      BY <2>2, <3>2 DEF FullSlots
    <3>4. /\ tags' \in [0..(Capacity' + LANES - 1) -> Tags]
          /\ \A s \in DOMAIN tags' : tags'[s] = FORBIDDEN <=> s >= Capacity'
      <4>1. DOMAIN tags' = 0..(c + LANES - 1)
        BY <3>2 DEF GoodTable
      <4> QED
        BY <2>2, <3>2, <4>1 DEF GoodTable
    <3>5. prevSize' = 0 /\ carried' = None /\ prevSize = 0 /\ status' = "idle"
          /\ prevTags' = prevTags /\ prevCount' = prevCount /\ cursor' = cursor
      BY <2>5 DEF TypeOK, loop
    <3>6. PendingSlots' = {}
      <4>1. \A s \in DOMAIN prevTags : ~(s < 0)
        BY <3>5, LanesTyped DEF TypeOK, NoTags
      <4> QED
        BY <3>5, <4>1 DEF PendingSlots, Pending
    <3> QED
      BY <1>1, <2>2, <2>3, <2>5, <3>1, <3>3, <3>4, <3>5, <3>6 DEF TypeOK
  <2> QED
    BY <1>4, <2>4, <2>5 DEF Reallocate
<1> QED
  BY <1>3, <1>4 DEF Reallocate
\* Resize, whatever the caller left in tags, entries and count.
LEMMA ResizeFromTyped ==
  ASSUME TypeOK, status = "idle", NEW size \in Nat,
         NEW t, NEW e, NEW n \in Int, GoodTable(t, e, Capacity),
         ResizeFrom(size, t, e, n)
  PROVE  TypeOK'
<1> DEFINE c == AdjustCapacity(size)
<1>1. c \in Capacities
  BY AdjustCapacityTyped
<1>2. CountGrowthLimit \in Nat /\ maxLoadFactor \in Nat
  BY DEF TypeOK
<1>3. GrowthLimit(c, maxLoadFactor) \in Nat
  BY <1>1, <1>2, GrowthLimitTyped
<1> HIDE DEF c
<1>4. CASE Keep(t, e, n, CountGrowthLimit)
  BY <1>2, <1>4, KeepTyped
<1>5. CASE Keep(t, e, n, GrowthLimit(c, maxLoadFactor))
  BY <1>3, <1>5, KeepTyped
<1>6. CASE Abort
  BY <1>6, StopTyped DEF Abort
<1>7. CASE Reallocate(c, t, e, n)
  <2>1. e \in [0..(Capacity - 1) -> Entry \cup {None}]
    BY DEF GoodTable
  <2> QED
    BY <1>1, <1>7, <2>1, ReallocateTyped
<1>8. \/ Keep(t, e, n, CountGrowthLimit)
      \/ Keep(t, e, n, GrowthLimit(c, maxLoadFactor))
      \/ Abort
      \/ Reallocate(c, t, e, n)
  BY DEF ResizeFrom, c
<1> QED
  BY <1>4, <1>5, <1>6, <1>7, <1>8

\* The tail of Add.
LEMMA InsertTyped ==
  ASSUME TypeOK, status = "idle", NEW k \in Keys, NEW v \in Values,
         VacantSteps(k) # {}, Insert(k, v)
  PROVE  TypeOK'
<1> DEFINE s == VacantSlot(k)
           t == [tags EXCEPT ![s] = TagOf[k]]
           e == [entries EXCEPT ![s] = [key |-> k, value |-> v]]
           n == Count + 1
<1>1. Capacity \in Nat \ {0} /\ Count \in Int /\ CountGrowthLimit \in Nat
  BY CapacityBounds DEF TypeOK
<1>2. s \in 0..(Capacity - 1)
  BY VacantSlotTyped
<1>3. TagOf[k] \in HashTags /\ [key |-> k, value |-> v] \in Entry
  BY HashAssumption DEF Entry
<1>4. GoodTable(t, e, Capacity)
  BY <1>1, <1>2, <1>3, TableTyped, StoreTyped
<1>5. n \in Int /\ Capacity + 1 \in Nat
  BY <1>1
<1>6. ResizeFrom(Capacity + 1, t, e, n) \/ Keep(t, e, n, CountGrowthLimit)
  BY DEF Insert
<1> HIDE DEF s, t, e, n
<1>7. CASE ResizeFrom(Capacity + 1, t, e, n)
  BY <1>4, <1>5, <1>7, ResizeFromTyped
<1>8. CASE Keep(t, e, n, CountGrowthLimit)
  BY <1>1, <1>4, <1>5, <1>8, KeepTyped
<1> QED
  BY <1>6, <1>7, <1>8

\* One placement of the rehash: pt is prevTags, possibly with one slot less.
LEMMA SettleTyped ==
  ASSUME TypeOK, status = "rehash", cursor < prevSize,
         NEW tag \in HashTags, NEW entry \in Entry, NEW pt,
         pt \in [0..(prevSize + LANES - 1) -> Tags],
         \A s \in 0..(prevSize - 1) : IsFull(pt[s]) => entries[s] \in Entry,
         Settle(tag, entry, pt)
  PROVE  TypeOK'
<1> DEFINE s == FindEmpty(entry.key)
           tt == [tags EXCEPT ![s] = tag]
           ee == [entries EXCEPT ![s] = entry]
<1>1. /\ Capacity \in Nat \ {0} /\ LANES \in Nat \ {0} /\ Count \in Int
      /\ prevSize \in Nat /\ prevSize <= Capacity /\ cursor \in Nat
  BY CapacityBounds, LanesTyped DEF TypeOK
<1>2. entry.key \in Keys
  BY DEF Entry
<1>3. CASE EmptySteps(entry.key) = {}
  BY <1>3, StopTyped DEF Settle, Hang
<1>4. CASE EmptySteps(entry.key) # {}
  <2>1. s \in 0..(Capacity - 1)
    BY <1>2, <1>4, FindEmptyTyped
  <2>2. /\ tags' = tt /\ entries' = ee /\ Count' = Count + 1
        /\ Capacity' = Capacity /\ CountGrowthLimit' = CountGrowthLimit
        /\ maxLoadFactor' = maxLoadFactor /\ status' = status
        /\ prevSize' = prevSize /\ prevCount' = prevCount
        /\ \/ /\ Pending(pt, s)
              /\ carried' = [tag |-> pt[s], entry |-> entries[s]]
              /\ prevTags' = [pt EXCEPT ![s] = EMPTY]
              /\ cursor' = cursor
           \/ /\ ~Pending(pt, s)
              /\ carried' = None /\ prevTags' = pt /\ cursor' = cursor + 1
    BY <1>4 DEF Settle
  <2>3. GoodTable(tt, ee, Capacity)
    BY <1>1, <2>1, TableTyped, StoreTyped
  <2> HIDE DEF s, tt, ee
  <2>4. /\ tags' \in [0..(Capacity' + LANES - 1) -> Tags]
        /\ \A x \in DOMAIN tags' : tags'[x] = FORBIDDEN <=> x >= Capacity'
        /\ entries' \in [0..(Capacity' - 1) -> Entry \cup {None}]
        /\ \A x \in FullSlots' : entries'[x] \in Entry
    <3>1. DOMAIN tags' = 0..(Capacity + LANES - 1)
      BY <2>2, <2>3 DEF GoodTable
    <3> QED
      BY <2>2, <2>3, <3>1 DEF GoodTable, FullSlots
  <2>5. prevTags' \in [0..(prevSize' + LANES - 1) -> Tags]
    BY <2>2, TagKinds
  <2>6. ~(s < prevSize /\ IsFull(prevTags'[s]))
    <3>1. CASE Pending(pt, s)
      <4>1. s < prevSize
        BY <3>1 DEF Pending
      <4>2. s \in DOMAIN pt
        BY <1>1, <2>1, <4>1
      <4> QED
        BY <2>2, <3>1, <4>2, TagKinds DEF Pending, IsFull
    <3>2. CASE ~Pending(pt, s)
      BY <2>2, <3>2 DEF Pending
    <3> QED
      BY <3>1, <3>2
  <2>7. \A x \in PendingSlots' : entries'[x] \in Entry
    <3> TAKE x \in PendingSlots'
    <3>1. x \in 0..(prevSize + LANES - 1) /\ x < prevSize /\ IsFull(prevTags'[x])
      BY <2>2, <2>5 DEF PendingSlots, Pending
    <3>2. x \in 0..(prevSize - 1) /\ x \in 0..(Capacity - 1)
      BY <1>1, <3>1
    <3>3. x # s
      BY <2>6, <3>1
    <3>4. IsFull(pt[x])
      BY <2>2, <3>1, <3>3, Zenon
    <3>5. entries'[x] = entries[x]
      BY <2>2, <3>2, <3>3 DEF ee, TypeOK
    <3> QED
      BY <3>2, <3>4, <3>5
  <2>8. carried' \in CarriedEntry \cup {None}
    <3>1. CASE Pending(pt, s)
      <4>1. s < prevSize /\ IsFull(pt[s])
        BY <3>1 DEF Pending
      <4>2. s \in 0..(prevSize - 1)
        BY <1>1, <2>1, <4>1
      <4> QED
        BY <2>2, <3>1, <4>1, <4>2 DEF CarriedEntry, IsFull
    <3>2. CASE ~Pending(pt, s)
      BY <2>2, <3>2
    <3> QED
      BY <3>1, <3>2
  <2>9. /\ cursor' \in Nat /\ cursor' <= prevSize'
        /\ carried' # None => cursor' < prevSize'
    BY <1>1, <2>2
  <2> QED
    BY <2>2, <2>4, <2>5, <2>7, <2>8, <2>9 DEF TypeOK
<1> QED
  BY <1>3, <1>4
\* A step that only notes its result.
LEMMA QuietTyped ==
  ASSUME TypeOK, UNCHANGED <<table, maxLoadFactor, status, loop>>
  PROVE  TypeOK'
BY DEF TypeOK, table, loop, FullSlots, PendingSlots, Pending

\* The slots that wait for the rehash are slots of the old table.
LEMMA PendingTyped ==
  ASSUME TypeOK, NEW s \in Nat, Pending(prevTags, s)
  PROVE  /\ prevTags \in [0..(prevSize + LANES - 1) -> Tags]
         /\ s \in 0..(prevSize - 1) /\ prevTags[s] \in HashTags
         /\ entries[s] \in Entry
<1>1. s < prevSize /\ IsFull(prevTags[s]) /\ prevSize \in Nat /\ LANES \in Nat
  BY LanesTyped DEF Pending, TypeOK
<1>2. prevTags \in [0..(prevSize + LANES - 1) -> Tags]
  BY <1>1 DEF TypeOK
<1>3. s \in 0..(prevSize - 1) /\ s \in 0..(prevSize + LANES - 1)
  BY <1>1
<1>4. s \in PendingSlots
  BY <1>2, <1>3 DEF PendingSlots
<1> QED
  BY <1>1, <1>2, <1>3, <1>4 DEF TypeOK, IsFull

\* The tables the calls build for ResizeFrom and Reallocate are good ones,
\* and the entries of a search's hit are there.
LEMMA CallTyped ==
  ASSUME TypeOK, status = "idle",
         (\E k \in Keys, v \in Values : CheckedAdds(k, v) \/ UniqueAdds(k, v))
           \/ OtherCalls
  PROVE  TypeOK'
<1>1. Capacity \in Capacities /\ Capacity \in Nat \ {0} /\ Count \in Int
      /\ CountGrowthLimit \in Nat /\ maxLoadFactor \in Nat
      /\ entries \in [0..(Capacity - 1) -> Entry \cup {None}]
  BY CapacityBounds DEF TypeOK
<1>2. ASSUME Hang PROVE TypeOK'
  BY <1>2, StopTyped DEF Hang
<1>3. ASSUME NEW k \in Keys, NEW v \in Values, NEW op, NEW update \in BOOLEAN,
             AddChecked(op, k, v, update)
      PROVE  TypeOK'
  <2> DEFINE s == HitSlot(k)
  <2>1. CASE /\ Hits(k, VacantSteps(k))
             /\ entries' = IF update THEN [entries EXCEPT ![s].value = v]
                                     ELSE entries
             /\ UNCHANGED <<tags, Capacity, Count, CountGrowthLimit,
                            maxLoadFactor, status, loop>>
    <3>2. s \in 0..(Capacity - 1) /\ entries[s] \in Entry
      <4>1. HitSteps(k) # {}
        BY <2>1 DEF Hits
      <4>2. s \in FullSlots
        BY <4>1, HitSlotTyped
      <4> QED
        BY <4>2 DEF FullSlots, TypeOK
    <3> HIDE DEF s
    <3>3. [entries[s] EXCEPT !.value = v] \in Entry
      BY <3>2 DEF Entry
    <3>4. GoodTable(tags, entries', Capacity)
      BY <2>1, <3>2, <3>3, TableTyped DEF GoodTable
    <3>5. Keep(tags, entries', Count, CountGrowthLimit)
      BY <2>1 DEF Keep
    <3> QED
      BY <1>1, <3>4, <3>5, KeepTyped
  <2>2. CASE Insert(k, v) /\ ~Hangs(k, VacantSteps(k)) /\ ~Hits(k, VacantSteps(k))
    <3>1. VacantSteps(k) # {}
      BY <2>2 DEF Hangs, Hits
    <3> QED
      BY <2>2, <3>1, InsertTyped
  <2>3. CASE Hang
    BY <2>3, <1>2
  <2> QED
    BY <1>3, <2>1, <2>2, <2>3 DEF AddChecked
<1>4. ASSUME NEW k \in Keys, NEW v \in Values, CheckedAdds(k, v)
      PROVE  TypeOK'
  BY <1>3, <1>4 DEF CheckedAdds, Add, AddOrUpdate
<1>5. ASSUME NEW k \in Keys, NEW v \in Values, UniqueAdds(k, v)
      PROVE  TypeOK'
  BY <1>2, <1>5, InsertTyped DEF UniqueAdds, AddUnique
<1>6. ASSUME NEW k \in Keys, Find(k) PROVE TypeOK'
  BY <1>2, <1>6, QuietTyped DEF Find
<1>7. ASSUME NEW k \in Keys, Remove(k) PROVE TypeOK'
  <2>1. CASE Hits(k, EmptySteps(k)) /\ Keep(Bury(HitSlot(k)), entries, Count - 1, CountGrowthLimit)
    <3>1. HitSteps(k) # {}
      BY <2>1 DEF Hits
    <3>2. HitSlot(k) \in 0..(Capacity - 1)
      BY <3>1, HitSlotTyped DEF FullSlots
    <3>3. GoodTable(Bury(HitSlot(k)), entries, Capacity)
      BY <3>2, BuryTyped
    <3> QED
      BY <1>1, <2>1, <3>3, KeepTyped
  <2>2. CASE UNCHANGED <<table, maxLoadFactor, status, loop>>
    BY <2>2, QuietTyped
  <2> QED
    BY <1>2, <1>7, <2>1, <2>2 DEF Remove, Keep
<1>8. ASSUME Rehash PROVE TypeOK'
  <2>1. CASE UNCHANGED <<table, maxLoadFactor, status, loop>>
    BY <2>1, QuietTyped
  <2>2. CASE /\ StartRehash(Capacity, tags, entries, Count)
             /\ UNCHANGED <<Capacity, CountGrowthLimit, maxLoadFactor>>
    <3>1. Extended(entries, Capacity) = entries
      BY <1>1 DEF Extended
    <3>2. StartRehash(Capacity, tags, Extended(entries, Capacity), Count)
      BY <2>2, <3>1
    <3>3. CountGrowthLimit' \in Nat /\ maxLoadFactor' \in Nat /\ Capacity <= Capacity
      BY <1>1, <2>2
    <3>4. GoodTable(tags, entries, Capacity) /\ Capacity' = Capacity
      BY <2>2, TableTyped
    <3> QED
      BY <1>1, <3>2, <3>3, <3>4, StartRehashTyped
  <2> QED
    BY <1>8, <2>1, <2>2 DEF Rehash
<1>9. ASSUME NEW size \in Sizes, Resize(size) PROVE TypeOK'
  <2>1. size \in Nat /\ GoodTable(tags, entries, Capacity)
    BY HashAssumption, TableTyped
  <2> QED
    BY <1>1, <1>9, <2>1, ResizeFromTyped DEF Resize
<1>10. ASSUME NEW size \in Sizes, Clear(size) PROVE TypeOK'
  <2>1. AdjustCapacity(size) \in Capacities
    BY HashAssumption, AdjustCapacityTyped
  <2>2. GoodTable(FreshTags(Capacity), entries, Capacity)
    BY <1>1, FreshTyped
  <2>3. CASE Reallocate(AdjustCapacity(size), NoTags, entries, 0)
    <3> DEFINE c == AdjustCapacity(size)
               n == 0
    <3>1. n \in Int /\ (n # 0 => GoodTable(NoTags, entries, Capacity))
      OBVIOUS
    <3>2. c \in Capacities /\ Reallocate(c, NoTags, entries, n)
      BY <2>1, <2>3
    <3> HIDE DEF c, n
    <3> QED
      BY <1>1, <3>1, <3>2, ReallocateTyped
  <2>4. CASE Keep(FreshTags(Capacity), entries, 0, CountGrowthLimit)
    BY <1>1, <2>2, <2>4, KeepTyped
  <2> QED
    BY <1>10, <2>3, <2>4 DEF Clear
<1>11. ASSUME NEW mlf \in LoadFactors, SetMaxLoadFactor(mlf) PROVE TypeOK'
  <2>1. maxLoadFactor' \in Nat
    <3>1. MIN_LOAD_FACTOR..MAX_LOAD_FACTOR \subseteq Nat
      BY DEF MIN_LOAD_FACTOR, MAX_LOAD_FACTOR
    <3> QED
      BY <1>1, <1>11, <3>1 DEF SetMaxLoadFactor
  <2>2. /\ CountGrowthLimit' = GrowthLimit(Capacity, maxLoadFactor')
        /\ UNCHANGED <<tags, entries, Capacity, Count, status, loop>>
    BY <1>11 DEF SetMaxLoadFactor
  <2>3. CountGrowthLimit' \in Nat
    BY <1>1, <2>1, <2>2, GrowthLimitTyped
  <2> QED
    BY <2>1, <2>2, <2>3 DEF TypeOK, loop, FullSlots, PendingSlots, Pending
<1> QED
  BY <1>4, <1>5, <1>6, <1>7, <1>8, <1>9, <1>10, <1>11 DEF OtherCalls
\* Every step of RehashInternal leaves the types as they are.
LEMMA RehashTyped ==
  ASSUME TypeOK, RehashLoop
  PROVE  TypeOK'
<1>1. /\ Capacity \in Nat \ {0} /\ LANES \in Nat \ {0} /\ cursor \in Nat
      /\ prevSize \in Nat
  BY CapacityBounds, LanesTyped DEF TypeOK
<1>2. ASSUME RehashSkip PROVE TypeOK'
  <2>1. /\ cursor < prevSize /\ cursor' = cursor + 1 /\ carried = None
        /\ UNCHANGED <<table, maxLoadFactor, status, prevTags, prevSize,
                       prevCount, carried>>
    BY <1>2 DEF RehashSkip
  <2>2. cursor' \in Nat /\ cursor' <= prevSize'
    BY <1>1, <2>1
  <2> QED
    BY <1>2, <2>1, <2>2
    DEF TypeOK, RehashSkip, table, FullSlots, PendingSlots, Pending
<1>3. ASSUME RehashTake PROVE TypeOK'
  <2> DEFINE pt == [prevTags EXCEPT ![cursor] = EMPTY]
  <2>1. status = "rehash" /\ Pending(prevTags, cursor)
        /\ Settle(prevTags[cursor], entries[cursor], pt)
    BY <1>3 DEF RehashTake
  <2>2. /\ prevTags \in [0..(prevSize + LANES - 1) -> Tags]
        /\ cursor \in 0..(prevSize - 1) /\ prevTags[cursor] \in HashTags
        /\ entries[cursor] \in Entry
    BY <1>1, <2>1, PendingTyped
  <2>3. pt \in [0..(prevSize + LANES - 1) -> Tags]
    BY <2>2, TagKinds
  <2>4. \A s \in 0..(prevSize - 1) : IsFull(pt[s]) => entries[s] \in Entry
    <3> TAKE s \in 0..(prevSize - 1)
    <3> HAVE IsFull(pt[s])
    <3>1. s \in 0..(prevSize + LANES - 1) /\ s \in Nat /\ s < prevSize
      BY <1>1
    <3>2. s # cursor
      BY <2>2, <3>1, TagKinds DEF IsFull
    <3>3. pt[s] = prevTags[s]
      BY <2>2, <3>1, <3>2
    <3>4. Pending(prevTags, s)
      BY <3>1, <3>3 DEF Pending
    <3> QED
      BY <3>1, <3>4, PendingTyped
  <2> HIDE DEF pt
  <2>5. cursor < prevSize
    BY <1>1, <2>2
  <2> QED
    BY <2>1, <2>2, <2>3, <2>4, <2>5, SettleTyped
<1>4. ASSUME RehashDisplace PROVE TypeOK'
  <2>1. /\ status = "rehash" /\ carried # None
        /\ Settle(carried.tag, carried.entry, prevTags)
    BY <1>4 DEF RehashDisplace
  <2>2. carried \in CarriedEntry /\ cursor < prevSize
    BY <2>1 DEF TypeOK
  <2>3. carried.tag \in HashTags /\ carried.entry \in Entry
    BY <2>2 DEF CarriedEntry
  <2>4. prevTags \in [0..(prevSize + LANES - 1) -> Tags]
    BY <1>1, <2>2 DEF TypeOK
  <2>5. \A s \in 0..(prevSize - 1) : IsFull(prevTags[s]) => entries[s] \in Entry
    <3> TAKE s \in 0..(prevSize - 1)
    <3> HAVE IsFull(prevTags[s])
    <3>1. s \in Nat /\ s < prevSize
      BY <1>1
    <3> QED
      BY <3>1, PendingTyped DEF Pending
  <2> QED
    BY <2>1, <2>2, <2>3, <2>4, <2>5, SettleTyped
<1>5. ASSUME RehashDone PROVE TypeOK'
  <2>1. /\ status' \in {"idle", "aborted"} /\ carried' = None
        /\ prevTags' = NoTags /\ prevSize' = 0 /\ prevCount' = 0 /\ cursor' = 0
        /\ UNCHANGED <<table, maxLoadFactor>>
    BY <1>5 DEF RehashDone
  <2>2. PendingSlots' = {}
    BY <2>1 DEF PendingSlots, NoTags
  <2> QED
    BY <1>1, <2>1, <2>2 DEF TypeOK, table, FullSlots
<1> QED
  BY <1>2, <1>3, <1>4, <1>5 DEF RehashLoop

\* The state a constructor leaves is of its type.
LEMMA TypeInit ==
  ASSUME Init
  PROVE  TypeOK
<1>1. MIN_SIZE \in Nat
  BY CapacityBounds
<1>2. Capacity \in Capacities
  BY <1>1, AdjustCapacityTyped DEF Init
<1>3. Capacity \in Nat \ {0}
  BY <1>2, CapacityBounds
<1>4. entries \in [0..(Capacity - 1) -> Entry \cup {None}]
  BY DEF Init
<1>5. /\ GoodTable(tags, entries, Capacity)
      /\ \A s \in 0..(Capacity - 1) : ~IsFull(tags[s])
  BY <1>3, <1>4, FreshTyped DEF Init
<1>6. FullSlots = {}
  BY <1>5 DEF FullSlots
<1>7. /\ tags \in [0..(Capacity + LANES - 1) -> Tags]
      /\ \A s \in DOMAIN tags : tags[s] = FORBIDDEN <=> s >= Capacity
  BY <1>5 DEF GoodTable
<1>8. maxLoadFactor \in Nat /\ CountGrowthLimit \in Nat
  <2>1. DEF_LOAD_FACTOR \in Nat
    BY DEF DEF_LOAD_FACTOR
  <2> QED
    BY <1>2, <2>1, GrowthLimitTyped DEF Init
<1>9. PendingSlots = {}
  BY DEF Init, NoTags, PendingSlots
<1> QED
  BY <1>2, <1>3, <1>4, <1>6, <1>7, <1>8, <1>9 DEF Init, TypeOK

\* Every step leaves the types as they are.
LEMMA TypeStep ==
  ASSUME TypeOK, [Next]_vars
  PROVE  TypeOK'
<1>1. CASE (\E k \in Keys, v \in Values : CheckedAdds(k, v) \/ UniqueAdds(k, v))
           \/ OtherCalls
  <2>1. status = "idle"
    BY <1>1 DEF CheckedAdds, UniqueAdds, Add, AddOrUpdate, AddChecked,
                AddUnique, OtherCalls, Find, Remove, Rehash, Resize, Clear,
                SetMaxLoadFactor
  <2> QED
    BY <1>1, <2>1, CallTyped
<1>2. CASE RehashLoop
  BY <1>2, RehashTyped
<1>3. CASE UNCHANGED vars
  BY <1>3, QuietTyped DEF vars
<1> QED
  BY <1>1, <1>2, <1>3 DEF Next

\* The state of the table and of RehashInternal keeps its type through every
\* call, the sentinel behind the tags is never overwritten, and every slot in
\* use or waiting for the rehash has an entry.
THEOREM TypeCorrect == Spec => []TypeOK
BY TypeInit, TypeStep, PTL DEF Spec
-----------------------------------------------------------------------------
(* The probe chain: TypeOK /\ ProbeChain is inductive.  It needs no bound   *)
(* on the hash function, and covers tables with tombstones, tables that    *)
(* hold a key twice and every state inside RehashInternal.                 *)

\* the tags and entries of c slots agree on the hash of the keys
Matched(t, e, c) ==
  \A s \in 0..(c - 1) : IsFull(t[s]) => t[s] = TagOf[e[s].key]

\* slot s can hold k without hiding it from a search
Reachable(s, k) == \E i \in ProbeSteps(Capacity) : ReachedAt(s, k, i)

\* A step that turns no tag EMPTY makes no search give up earlier.
LEMMA ReachableStays ==
  ASSUME TypeOK, TypeOK', Capacity' = Capacity,
         \A s \in 0..(Capacity + LANES - 1) : tags'[s] = EMPTY => tags[s] = EMPTY,
         NEW k \in Keys, NEW s, Reachable(s, k)
  PROVE  Reachable(s, k)'
<1>1. PICK i \in ProbeSteps(Capacity) : ReachedAt(s, k, i)
  BY DEF Reachable
<1>2. \A j \in ProbeSteps(Capacity) : Position(k, j)' = Position(k, j)
  BY DEF Position
<1>3. EmptySteps(k)' \subseteq EmptySteps(k)
  <2> SUFFICES ASSUME NEW j \in EmptySteps(k)' PROVE j \in EmptySteps(k)
    OBVIOUS
  <2>1. j \in ProbeSteps(Capacity) /\ GetEmptyMask(tags', Position(k, j)) # {}
    BY <1>2 DEF EmptySteps
  <2>2. PICK l \in Lanes : tags'[Position(k, j) + l] = EMPTY
    BY <2>1 DEF GetEmptyMask
  <2>3. Position(k, j) + l \in 0..(Capacity + LANES - 1)
    BY <2>1, LaneTyped
  <2>4. tags[Position(k, j) + l] = EMPTY
    BY <2>2, <2>3
  <2> QED
    BY <2>1, <2>4 DEF EmptySteps, GetEmptyMask
<1>4. ReachedAt(s, k, i)'
  BY <1>1, <1>2, <1>3 DEF ReachedAt
<1> QED
  BY <1>1, <1>4 DEF Reachable

\* The chain survives a step that turns no tag EMPTY, keeps the keys and tags
\* of the slots in use and puts new ones where a search finds them.
LEMMA ChainGrows ==
  ASSUME TypeOK, TypeOK', ProbeChain, Capacity' = Capacity,
         \A s \in 0..(Capacity + LANES - 1) : tags'[s] = EMPTY => tags[s] = EMPTY,
         \A s \in 0..(Capacity - 1) : IsFull(tags'[s]) =>
           \/ tags'[s] = tags[s] /\ entries'[s].key = entries[s].key
           \/ /\ tags'[s] = TagOf[entries'[s].key]
              /\ Reachable(s, entries'[s].key)
  PROVE  /\ Matched(tags', entries', Capacity')
         /\ \A s \in FullSlots' : Reachable(s, entries[s].key)'
<1>1. ASSUME NEW s \in FullSlots'
      PROVE  tags'[s] = TagOf[entries'[s].key] /\ Reachable(s, entries[s].key)'
  <2>1. s \in 0..(Capacity - 1) /\ IsFull(tags'[s])
    BY <1>1 DEF FullSlots
  <2>2. entries'[s] \in Entry
    BY <1>1 DEF TypeOK
  <2>3. PICK k \in Keys : k = entries'[s].key
    BY <2>2 DEF Entry
  <2>4. Reachable(s, k) /\ tags'[s] = TagOf[k]
    <3>1. CASE tags'[s] = tags[s] /\ entries'[s].key = entries[s].key
      <4>1. s \in FullSlots
        BY <2>1, <3>1 DEF FullSlots
      <4> QED
        BY <2>3, <3>1, <4>1 DEF ProbeChain, TagsMatch, Reachable
    <3>2. CASE tags'[s] = TagOf[entries'[s].key] /\ Reachable(s, entries'[s].key)
      BY <2>3, <3>2
    <3> QED
      BY <2>1, <3>1, <3>2
  <2>5. Reachable(s, k)'
    BY <2>4, ReachableStays
  <2> QED
    BY <2>3, <2>4, <2>5 DEF Reachable
<1> QED
  BY <1>1 DEF Matched, FullSlots

\* When no rehash runs, ProbeChain is about the slots in use alone.
LEMMA ChainAtRest ==
  ASSUME TypeOK', prevSize' = 0, carried' = None,
         Matched(tags', entries', Capacity'),
         \A s \in FullSlots' : Reachable(s, entries[s].key)'
  PROVE  ProbeChain'
<1>1. PendingSlots' = {}
  <2>1. \A s \in DOMAIN prevTags' : ~(s < 0)
    BY LanesTyped DEF TypeOK, NoTags
  <2> QED
    BY <2>1 DEF PendingSlots, Pending
<1> QED
  BY <1>1 DEF ProbeChain, TagsMatch, Matched, Reachable, FullSlots

\* A table in use has matching tags.
LEMMA TableMatched ==
  ASSUME ProbeChain
  PROVE  Matched(tags, entries, Capacity)
BY DEF ProbeChain, TagsMatch, Matched, FullSlots
\* A step that only notes its result, or that stops.
LEMMA QuietChain ==
  ASSUME ProbeChain, UNCHANGED <<table, maxLoadFactor, loop>>
  PROVE  ProbeChain'
BY DEF ProbeChain, TagsMatch, FullSlots, PendingSlots, Pending, ReachedAt,
       Position, EmptySteps, table, loop

\* The chain after a call that neither grows nor rehashes.
LEMMA KeepChain ==
  ASSUME TypeOK, TypeOK', ProbeChain, status = "idle",
         NEW t, NEW e, NEW n, NEW limit, Keep(t, e, n, limit),
         \A s \in 0..(Capacity + LANES - 1) : t[s] = EMPTY => tags[s] = EMPTY,
         \A s \in 0..(Capacity - 1) : IsFull(t[s]) =>
           \/ t[s] = tags[s] /\ e[s].key = entries[s].key
           \/ t[s] = TagOf[e[s].key] /\ Reachable(s, e[s].key)
  PROVE  ProbeChain'
<1>1. /\ tags' = t /\ entries' = e /\ Capacity' = Capacity
      /\ prevSize' = prevSize /\ carried' = carried
  BY DEF Keep, loop
<1>2. prevSize' = 0 /\ carried' = None
  BY <1>1 DEF TypeOK
<1>3. /\ Matched(tags', entries', Capacity')
      /\ \A s \in FullSlots' : Reachable(s, entries[s].key)'
  BY <1>1, ChainGrows
<1> QED
  BY <1>2, <1>3, ChainAtRest

\* A table without a slot in use has no chain to break.
LEMMA FreshChain ==
  ASSUME \A s \in 0..(Capacity' - 1) : ~IsFull(tags'[s]), carried' = None,
         \A s \in PendingSlots' : prevTags'[s] = TagOf[entries'[s].key]
  PROVE  ProbeChain'
BY DEF ProbeChain, TagsMatch, FullSlots

\* Reallocate: what it carries over has matching tags, and nothing is in the
\* new tags yet.
LEMMA ReallocateChain ==
  ASSUME TypeOK, TypeOK', ProbeChain, status = "idle", NEW c \in Capacities,
         NEW t, NEW e, NEW n,
         e \in [0..(Capacity - 1) -> Entry \cup {None}],
         n # 0 => GoodTable(t, e, Capacity) /\ Matched(t, e, Capacity),
         Reallocate(c, t, e, n)
  PROVE  ProbeChain'
<1>1. /\ c \in Nat \ {0} /\ Capacity \in Nat \ {0} /\ DOMAIN e = 0..(Capacity - 1)
      /\ prevSize = 0 /\ carried = None
  BY CapacityBounds DEF TypeOK
<1>2. CASE c - 1 \in DOMAIN e /\ Abort
  BY <1>2, QuietChain DEF Abort
<1>3. CASE c - 1 \notin DOMAIN e /\ tags' = FreshTags(c) /\ Capacity' = c
  <2>1. Capacity <= c
    BY <1>1, <1>3
  <2>2. Extended(e, c) \in [0..(c - 1) -> Entry \cup {None}]
        /\ \A s \in 0..(Capacity - 1) : Extended(e, c)[s] = e[s]
    BY <1>1, <2>1, ExtendedTyped
  <2>3. \A s \in 0..(Capacity' - 1) : ~IsFull(tags'[s])
    BY <1>1, <1>3, <2>2, FreshTyped
  <2>4. CASE n # 0 /\ StartRehash(c, t, Extended(e, c), n)
    <3>1. /\ prevTags' = t /\ prevSize' = Capacity /\ carried' = None
          /\ entries' = Extended(e, c)
      BY <2>4 DEF StartRehash
    <3>2. GoodTable(t, e, Capacity) /\ Matched(t, e, Capacity)
      BY <2>4
    <3>3. ASSUME NEW s \in PendingSlots'
          PROVE  prevTags'[s] = TagOf[entries'[s].key]
      <4>1. s \in DOMAIN t /\ s < Capacity /\ IsFull(t[s])
        BY <3>1 DEF PendingSlots, Pending
      <4>2. s \in 0..(Capacity - 1)
        BY <1>1, <3>2, <4>1, LanesTyped DEF GoodTable
      <4> QED
        BY <2>2, <3>1, <3>2, <4>1, <4>2 DEF Matched
    <3> QED
      BY <2>3, <3>1, <3>3, FreshChain
  <2>5. CASE UNCHANGED loop
    <3>1. prevSize' = 0 /\ carried' = None
      BY <1>1, <2>5 DEF loop
    <3>2. FullSlots' = {} /\ Matched(tags', entries', Capacity')
      BY <2>3 DEF FullSlots, Matched
    <3> QED
      BY <3>1, <3>2, ChainAtRest
  <2> QED
    BY <1>3, <2>4, <2>5 DEF Reallocate
<1>4. CASE c - 1 \notin DOMAIN e
  BY <1>3, <1>4 DEF Reallocate, StartRehash
<1> QED
  BY <1>2, <1>4 DEF Reallocate

\* The tail of Add: the new entry goes to the first vacant slot of its probe,
\* before any EMPTY one, whether or not the table then grows.
LEMMA InsertChain ==
  ASSUME TypeOK, TypeOK', ProbeChain, status = "idle",
         NEW k \in Keys, NEW v \in Values, VacantSteps(k) # {}, Insert(k, v)
  PROVE  ProbeChain'
<1> DEFINE s == VacantSlot(k)
           t == [tags EXCEPT ![s] = TagOf[k]]
           e == [entries EXCEPT ![s] = [key |-> k, value |-> v]]
           n == Count + 1
           c == AdjustCapacity(Capacity + 1)
<1>1. /\ s \in 0..(Capacity - 1)
      /\ \E i \in VacantSteps(k) : /\ s - Position(k, i) \in Lanes
                                   /\ \A j \in VacantSteps(k) : i <= j
  BY VacantSlotTyped
<1>2. /\ Capacity \in Nat \ {0} /\ LANES \in Nat \ {0}
      /\ GoodTable(tags, entries, Capacity) /\ Matched(tags, entries, Capacity)
  BY CapacityBounds, LanesTyped, TableTyped, TableMatched DEF TypeOK
<1>3. TagOf[k] \in HashTags /\ [key |-> k, value |-> v] \in Entry
  BY HashAssumption DEF Entry
<1>4. GoodTable(t, e, Capacity)
  BY <1>1, <1>2, <1>3, StoreTyped
<1>5. Reachable(s, k)
  <2>1. EmptySteps(k) \subseteq VacantSteps(k)
    BY DEF EmptySteps, VacantSteps, GetEmptyMask, GetEmptyOrTomeStoneMask
  <2>2. VacantSteps(k) \subseteq ProbeSteps(Capacity)
    BY DEF VacantSteps
  <2> QED
    BY <1>1, <2>1, <2>2 DEF Reachable, ReachedAt
<1>6. /\ DOMAIN tags = 0..(Capacity + LANES - 1) /\ DOMAIN entries = 0..(Capacity - 1)
      /\ \A x \in 0..(Capacity - 1) : x \in 0..(Capacity + LANES - 1)
  BY <1>2 DEF GoodTable
<1> HIDE DEF s
<1>7. t[s] = TagOf[k] /\ e[s].key = k
  BY <1>1, <1>6
<1>8. \A x \in 0..(Capacity + LANES - 1) : t[x] = EMPTY => tags[x] = EMPTY
  BY <1>3, <1>6, <1>7, TagKinds
<1>9. \A x \in 0..(Capacity - 1) : x # s => t[x] = tags[x] /\ e[x] = entries[x]
  BY <1>6
<1>10. Matched(t, e, Capacity)
  BY <1>2, <1>7, <1>9 DEF Matched
<1>11. c \in Capacities
  BY <1>2, AdjustCapacityTyped
<1>12. /\ e \in [0..(Capacity - 1) -> Entry \cup {None}]
  BY <1>4 DEF GoodTable
<1> HIDE DEF t, e, n, c
<1>13. ASSUME NEW limit, Keep(t, e, n, limit) PROVE ProbeChain'
  BY <1>5, <1>7, <1>8, <1>9, <1>13, KeepChain
<1>14. CASE Abort
  BY <1>14, QuietChain DEF Abort
<1>15. CASE Reallocate(c, t, e, n)
  BY <1>4, <1>10, <1>11, <1>12, <1>15, ReallocateChain
<1>16. \/ \E limit : Keep(t, e, n, limit)
       \/ Abort
       \/ Reallocate(c, t, e, n)
  BY DEF Insert, ResizeFrom, s, t, e, n, c
<1> QED
  BY <1>13, <1>14, <1>15, <1>16
\* One placement of the rehash.
LEMMA SettleChain ==
  ASSUME TypeOK, TypeOK', ProbeChain, cursor < prevSize,
         NEW tag, NEW entry \in Entry, NEW pt,
         tag = TagOf[entry.key],
         pt \in [0..(prevSize + LANES - 1) -> Tags],
         \A s \in 0..(prevSize - 1) :
           IsFull(pt[s]) => Pending(prevTags, s) /\ pt[s] = prevTags[s],
         Settle(tag, entry, pt)
  PROVE  ProbeChain'
<1> DEFINE s == FindEmpty(entry.key)
<1>1. /\ Capacity \in Nat \ {0} /\ LANES \in Nat \ {0} /\ prevSize \in Nat
      /\ prevSize <= Capacity
      /\ GoodTable(tags, entries, Capacity)
  BY CapacityBounds, LanesTyped, TableTyped DEF TypeOK
<1>2. entry.key \in Keys /\ tag \in HashTags
  BY HashAssumption DEF Entry
<1>3. CASE EmptySteps(entry.key) = {}
  BY <1>3, QuietChain DEF Settle, Hang
<1>4. CASE EmptySteps(entry.key) # {}
  <2>1. s \in 0..(Capacity - 1) /\ Reachable(s, entry.key)
    BY <1>2, <1>4, FindEmptyTyped DEF Reachable, EmptySteps
  <2>2. /\ tags' = [tags EXCEPT ![s] = tag]
        /\ entries' = [entries EXCEPT ![s] = entry]
        /\ Capacity' = Capacity /\ prevSize' = prevSize
        /\ \/ /\ Pending(pt, s)
              /\ carried' = [tag |-> pt[s], entry |-> entries[s]]
              /\ prevTags' = [pt EXCEPT ![s] = EMPTY]
           \/ /\ ~Pending(pt, s) /\ carried' = None /\ prevTags' = pt
    BY <1>4 DEF Settle
  <2> HIDE DEF s
  <2>3. /\ DOMAIN tags = 0..(Capacity + LANES - 1) /\ DOMAIN entries = 0..(Capacity - 1)
        /\ \A x \in 0..(Capacity - 1) : x \in 0..(Capacity + LANES - 1)
    BY <1>1 DEF GoodTable
  <2>4. tags'[s] = tag /\ entries'[s] = entry
    BY <2>1, <2>2, <2>3
  <2>5. \A x \in 0..(Capacity + LANES - 1) : x # s => tags'[x] = tags[x]
    BY <2>2, <2>3
  <2>6. \A x \in 0..(Capacity - 1) : x # s => entries'[x] = entries[x]
    BY <2>2, <2>3
  <2>7. /\ Matched(tags', entries', Capacity')
        /\ \A x \in FullSlots' : Reachable(x, entries[x].key)'
    <3>1. \A x \in 0..(Capacity + LANES - 1) : tags'[x] = EMPTY => tags[x] = EMPTY
      BY <1>2, <2>4, <2>5, TagKinds
    <3>2. \A x \in 0..(Capacity - 1) : IsFull(tags'[x]) =>
            \/ tags'[x] = tags[x] /\ entries'[x].key = entries[x].key
            \/ tags'[x] = TagOf[entries'[x].key] /\ Reachable(x, entries'[x].key)
      BY <2>1, <2>3, <2>4, <2>5, <2>6
    <3> QED
      BY <2>2, <3>1, <3>2, ChainGrows
  <2>8. \A x \in PendingSlots : prevTags[x] = TagOf[entries[x].key]
    BY DEF ProbeChain, TagsMatch
  <2>9. ASSUME NEW x \in 0..(prevSize - 1), IsFull(pt[x])
        PROVE  pt[x] = TagOf[entries[x].key]
    <3>1. Pending(prevTags, x) /\ pt[x] = prevTags[x] /\ x \in Nat
      BY <2>9
    <3>2. x \in PendingSlots
      <4>1. prevTags \in [0..(prevSize + LANES - 1) -> Tags]
        BY <3>1, PendingTyped
      <4>2. x \in 0..(prevSize + LANES - 1)
        BY <1>1
      <4> QED
        BY <3>1, <4>1, <4>2 DEF PendingSlots
    <3> QED
      BY <2>8, <3>1, <3>2
  <2>10. ASSUME NEW x \in PendingSlots'
         PROVE  prevTags'[x] = TagOf[entries'[x].key]
    <3>1. DOMAIN prevTags' = 0..(prevSize + LANES - 1) /\ DOMAIN pt = DOMAIN prevTags'
      BY <2>2
    <3>2. x \in 0..(prevSize - 1) /\ IsFull(prevTags'[x])
      BY <1>1, <2>2, <2>10, <3>1 DEF PendingSlots, Pending
    <3>3. x # s
      <4>1. CASE Pending(pt, s)
        <5>1. x = s => prevTags'[x] = EMPTY
          BY <2>2, <2>10, <3>1, <4>1 DEF PendingSlots
        <5> QED
          BY <3>2, <5>1, TagKinds DEF IsFull
      <4>2. CASE ~Pending(pt, s)
        BY <1>1, <2>2, <3>2, <4>2 DEF Pending
      <4> QED
        BY <4>1, <4>2
    <3>4. prevTags'[x] = pt[x]
      <4>1. x \in 0..(prevSize + LANES - 1)
        BY <1>1, <3>2
      <4> QED
        BY <2>2, <3>3, <4>1
    <3>5. x \in 0..(Capacity - 1)
      BY <1>1, <3>2
    <3> QED
      BY <2>6, <2>9, <3>2, <3>3, <3>4, <3>5
  <2>11. carried' # None => carried'.tag = TagOf[carried'.entry.key]
    <3>1. CASE Pending(pt, s)
      <4>1. s \in 0..(prevSize - 1) /\ IsFull(pt[s])
        BY <1>1, <2>1, <3>1 DEF Pending
      <4> QED
        BY <2>2, <2>9, <3>1, <4>1
    <3>2. CASE ~Pending(pt, s)
      BY <2>2, <3>2
    <3> QED
      BY <3>1, <3>2
  <2> QED
    BY <2>7, <2>10, <2>11
    DEF ProbeChain, TagsMatch, Matched, FullSlots, Reachable
<1> QED
  BY <1>3, <1>4
\* Every call leaves the chain unbroken.
LEMMA CallChain ==
  ASSUME TypeOK, TypeOK', ProbeChain, status = "idle",
         (\E k \in Keys, v \in Values : CheckedAdds(k, v) \/ UniqueAdds(k, v))
           \/ OtherCalls
  PROVE  ProbeChain'
<1>1. /\ Capacity \in Capacities /\ Capacity \in Nat \ {0} /\ Count \in Int
      /\ entries \in [0..(Capacity - 1) -> Entry \cup {None}]
      /\ DOMAIN tags = 0..(Capacity + LANES - 1)
  BY CapacityBounds DEF TypeOK
<1>2. ASSUME UNCHANGED <<table, maxLoadFactor, loop>> PROVE ProbeChain'
  BY <1>2, QuietChain
<1>3. ASSUME NEW k \in Keys, NEW v \in Values, NEW op, NEW update \in BOOLEAN,
             AddChecked(op, k, v, update)
      PROVE  ProbeChain'
  <2> DEFINE s == HitSlot(k)
  <2>1. CASE /\ Hits(k, VacantSteps(k))
             /\ entries' = IF update THEN [entries EXCEPT ![s].value = v]
                                     ELSE entries
             /\ UNCHANGED <<tags, Capacity, Count, CountGrowthLimit,
                            maxLoadFactor, status, loop>>
    <3>1. s \in 0..(Capacity - 1) /\ entries[s] \in Entry
      <4>1. HitSteps(k) # {}
        BY <2>1 DEF Hits
      <4>2. s \in FullSlots
        BY <4>1, HitSlotTyped
      <4> QED
        BY <4>2 DEF FullSlots, TypeOK
    <3> HIDE DEF s
    <3>2. [entries[s] EXCEPT !.value = v].key = entries[s].key
      BY <3>1 DEF Entry
    <3>3. \A x \in 0..(Capacity - 1) : entries'[x].key = entries[x].key
      BY <1>1, <2>1, <3>1, <3>2
    <3>4. Keep(tags, entries', Count, CountGrowthLimit)
      BY <2>1 DEF Keep
    <3> QED
      BY <3>3, <3>4, KeepChain
  <2>2. CASE Insert(k, v) /\ ~Hangs(k, VacantSteps(k)) /\ ~Hits(k, VacantSteps(k))
    <3>1. VacantSteps(k) # {}
      BY <2>2 DEF Hangs, Hits
    <3> QED
      BY <2>2, <3>1, InsertChain
  <2>3. CASE Hang
    BY <1>2, <2>3 DEF Hang
  <2> QED
    BY <1>3, <2>1, <2>2, <2>3 DEF AddChecked
<1>4. ASSUME NEW k \in Keys, NEW v \in Values, CheckedAdds(k, v)
      PROVE  ProbeChain'
  BY <1>3, <1>4 DEF CheckedAdds, Add, AddOrUpdate
<1>5. ASSUME NEW k \in Keys, NEW v \in Values, UniqueAdds(k, v)
      PROVE  ProbeChain'
  BY <1>2, <1>5, InsertChain DEF UniqueAdds, AddUnique, Hang
<1>6. ASSUME NEW k \in Keys, Find(k) PROVE ProbeChain'
  BY <1>2, <1>6 DEF Find, Hang
<1>7. ASSUME NEW k \in Keys, Remove(k) PROVE ProbeChain'
  <2> DEFINE s == HitSlot(k)
             t == Bury(s)
  <2>1. CASE Hits(k, EmptySteps(k)) /\ Keep(t, entries, Count - 1, CountGrowthLimit)
    <3>1. HitSteps(k) # {}
      BY <2>1 DEF Hits
    <3>2. s \in 0..(Capacity - 1)
      BY <3>1, HitSlotTyped DEF FullSlots
    <3>3. s \in DOMAIN tags
      BY <1>1, <3>2, LanesTyped
    <3> HIDE DEF s
    <3>4. /\ \A x \in DOMAIN tags : t[x] = EMPTY => tags[x] = EMPTY
          /\ \A x \in DOMAIN tags : IsFull(t[x]) => t[x] = tags[x]
      BY <3>3, TagKinds DEF Bury, IsFull
    <3>5. \A x \in 0..(Capacity - 1) : x \in DOMAIN tags
      BY <1>1, LanesTyped
    <3> HIDE DEF t
    <3> QED
      BY <1>1, <2>1, <3>4, <3>5, KeepChain
  <2>2. CASE UNCHANGED <<table, maxLoadFactor, loop>>
    BY <1>2, <2>2
  <2> QED
    BY <1>7, <2>1, <2>2 DEF Remove, Keep, Hang
<1>8. ASSUME Rehash PROVE ProbeChain'
  <2>1. CASE UNCHANGED <<table, maxLoadFactor, loop>>
    BY <1>2, <2>1
  <2>2. CASE StartRehash(Capacity, tags, entries, Count) /\ UNCHANGED Capacity
    <3>1. /\ tags' = FreshTags(Capacity) /\ prevTags' = tags /\ carried' = None
          /\ prevSize' = Capacity /\ entries' = entries /\ Capacity' = Capacity
      BY <2>2 DEF StartRehash
    <3>2. \A x \in 0..(Capacity' - 1) : ~IsFull(tags'[x])
      BY <1>1, <3>1, FreshTyped
    <3>3. \A x \in PendingSlots' : prevTags'[x] = TagOf[entries'[x].key]
      <4>1. ASSUME NEW x \in PendingSlots' PROVE x \in FullSlots
        <5>1. x \in DOMAIN tags /\ x < Capacity /\ IsFull(tags[x])
          BY <3>1, <4>1 DEF PendingSlots, Pending
        <5>2. x \in 0..(Capacity - 1)
          BY <1>1, <5>1, LanesTyped
        <5> QED
          BY <5>1, <5>2 DEF FullSlots
      <4> QED
        BY <3>1, <4>1 DEF ProbeChain, TagsMatch
    <3> QED
      BY <3>1, <3>2, <3>3, FreshChain
  <2> QED
    BY <1>8, <2>1, <2>2 DEF Rehash
<1>9. ASSUME NEW size \in Sizes, Resize(size) PROVE ProbeChain'
  <2> DEFINE c == AdjustCapacity(size)
  <2>1. /\ c \in Capacities /\ GoodTable(tags, entries, Capacity)
        /\ Matched(tags, entries, Capacity)
    BY HashAssumption, AdjustCapacityTyped, TableTyped, TableMatched
  <2> HIDE DEF c
  <2>2. ASSUME NEW limit, Keep(tags, entries, Count, limit) PROVE ProbeChain'
    BY <2>2, KeepChain
  <2>3. CASE Abort
    BY <1>2, <2>3 DEF Abort
  <2>4. CASE Reallocate(c, tags, entries, Count)
    BY <1>1, <2>1, <2>4, ReallocateChain
  <2>5. \/ \E limit : Keep(tags, entries, Count, limit)
        \/ Abort
        \/ Reallocate(c, tags, entries, Count)
    BY <1>9 DEF Resize, ResizeFrom, c
  <2> QED
    BY <2>2, <2>3, <2>4, <2>5
<1>10. ASSUME NEW size \in Sizes, Clear(size) PROVE ProbeChain'
  <2> DEFINE c == AdjustCapacity(size)
             n == 0
  <2>1. c \in Capacities /\ ~(n # 0)
    BY HashAssumption, AdjustCapacityTyped
  <2>2. \/ Reallocate(c, NoTags, entries, n)
        \/ Keep(FreshTags(Capacity), entries, 0, CountGrowthLimit)
    BY <1>10 DEF Clear
  <2> HIDE DEF c, n
  <2>3. CASE Reallocate(c, NoTags, entries, n)
    BY <1>1, <2>1, <2>3, ReallocateChain
  <2>4. CASE Keep(FreshTags(Capacity), entries, 0, CountGrowthLimit)
    <3>1. /\ tags' = FreshTags(Capacity) /\ Capacity' = Capacity
          /\ prevSize' = 0 /\ carried' = None
      BY <2>4 DEF Keep, loop, TypeOK
    <3>2. \A x \in 0..(Capacity' - 1) : ~IsFull(tags'[x])
      BY <1>1, <3>1, FreshTyped
    <3>3. FullSlots' = {} /\ Matched(tags', entries', Capacity')
      BY <3>2 DEF FullSlots, Matched
    <3> QED
      BY <3>1, <3>3, ChainAtRest
  <2> QED
    BY <2>2, <2>3, <2>4
<1>11. ASSUME NEW mlf \in LoadFactors, SetMaxLoadFactor(mlf) PROVE ProbeChain'
  <2>1. UNCHANGED <<tags, entries, Capacity, loop>>
    BY <1>11 DEF SetMaxLoadFactor
  <2> QED
    BY <2>1 DEF ProbeChain, TagsMatch, FullSlots, PendingSlots,
       Pending, ReachedAt, Position, EmptySteps, loop
<1> QED
  BY <1>4, <1>5, <1>6, <1>7, <1>8, <1>9, <1>10, <1>11 DEF OtherCalls
\* Every step of RehashInternal leaves the chain unbroken.
LEMMA RehashChain ==
  ASSUME TypeOK, TypeOK', ProbeChain, RehashLoop
  PROVE  ProbeChain'
<1>1. /\ Capacity \in Nat \ {0} /\ LANES \in Nat \ {0} /\ cursor \in Nat
      /\ prevSize \in Nat
  BY CapacityBounds, LanesTyped DEF TypeOK
<1>2. ASSUME RehashSkip PROVE ProbeChain'
  <2>1. UNCHANGED <<table, prevTags, prevSize, carried>>
    BY <1>2 DEF RehashSkip
  <2> QED
    BY <2>1 DEF ProbeChain, TagsMatch, FullSlots, PendingSlots, Pending,
                ReachedAt, Position, EmptySteps, table
<1>3. ASSUME RehashTake PROVE ProbeChain'
  <2> DEFINE pt == [prevTags EXCEPT ![cursor] = EMPTY]
             tag == prevTags[cursor]
             entry == entries[cursor]
  <2>1. Pending(prevTags, cursor) /\ Settle(tag, entry, pt)
    BY <1>3 DEF RehashTake
  <2>2. /\ prevTags \in [0..(prevSize + LANES - 1) -> Tags]
        /\ cursor \in 0..(prevSize - 1) /\ entry \in Entry
    BY <1>1, <2>1, PendingTyped
  <2>3. cursor \in 0..(prevSize + LANES - 1) /\ cursor < prevSize
    BY <1>1, <2>2
  <2>4. tag = TagOf[entry.key]
    <3>1. cursor \in PendingSlots
      BY <2>1, <2>2, <2>3 DEF PendingSlots
    <3> QED
      BY <3>1 DEF ProbeChain, TagsMatch
  <2>5. pt \in [0..(prevSize + LANES - 1) -> Tags]
    BY <2>2, TagKinds
  <2>6. \A s \in 0..(prevSize - 1) :
          IsFull(pt[s]) => Pending(prevTags, s) /\ pt[s] = prevTags[s]
    <3> TAKE s \in 0..(prevSize - 1)
    <3> HAVE IsFull(pt[s])
    <3>1. s \in 0..(prevSize + LANES - 1) /\ s < prevSize
      BY <1>1
    <3>2. s # cursor
      BY <2>2, <3>1, TagKinds DEF IsFull
    <3>3. pt[s] = prevTags[s]
      BY <2>2, <3>1, <3>2
    <3> QED
      BY <3>1, <3>3 DEF Pending
  <2> HIDE DEF pt, tag, entry
  <2> QED
    BY <2>1, <2>2, <2>3, <2>4, <2>5, <2>6, SettleChain
<1>4. ASSUME RehashDisplace PROVE ProbeChain'
  <2>1. carried # None /\ Settle(carried.tag, carried.entry, prevTags)
    BY <1>4 DEF RehashDisplace
  <2>2. carried \in CarriedEntry /\ cursor < prevSize
    BY <2>1 DEF TypeOK
  <2>3. carried.entry \in Entry /\ carried.tag = TagOf[carried.entry.key]
    <3>1. carried.entry \in Entry
      BY <2>2 DEF CarriedEntry
    <3>2. carried.tag = TagOf[carried.entry.key]
      BY <2>1 DEF ProbeChain, TagsMatch
    <3> QED
      BY <3>1, <3>2
  <2>4. prevTags \in [0..(prevSize + LANES - 1) -> Tags]
    <3>1. prevSize # 0
      BY <1>1, <2>2 DEF TypeOK
    <3> QED
      BY <3>1 DEF TypeOK
  <2>5. \A s \in 0..(prevSize - 1) :
          IsFull(prevTags[s]) => Pending(prevTags, s) /\ prevTags[s] = prevTags[s]
    <3>1. \A s \in 0..(prevSize - 1) : s < prevSize
      BY <1>1
    <3> QED
      BY <3>1 DEF Pending
  <2> QED
    BY <2>1, <2>2, <2>3, <2>4, <2>5, SettleChain
<1>5. ASSUME RehashDone PROVE ProbeChain'
  <2>1. /\ carried' = None /\ prevSize' = 0 /\ UNCHANGED table
    BY <1>5 DEF RehashDone
  <2>2. /\ Matched(tags', entries', Capacity')
        /\ \A s \in FullSlots' : Reachable(s, entries[s].key)'
    BY <2>1 DEF ProbeChain, TagsMatch, FullSlots, Matched, Reachable,
                ReachedAt, Position, EmptySteps, table
  <2> QED
    BY <2>1, <2>2, ChainAtRest
<1> QED
  BY <1>2, <1>3, <1>4, <1>5 DEF RehashLoop

\* Every step leaves the chain unbroken.
LEMMA ChainStep ==
  ASSUME TypeOK, ProbeChain, [Next]_vars
  PROVE  ProbeChain'
<1>1. TypeOK'
  BY TypeStep
<1>2. CASE (\E k \in Keys, v \in Values : CheckedAdds(k, v) \/ UniqueAdds(k, v))
           \/ OtherCalls
  <2>1. status = "idle"
    BY <1>2 DEF CheckedAdds, UniqueAdds, Add, AddOrUpdate, AddChecked,
                AddUnique, OtherCalls, Find, Remove, Rehash, Resize, Clear,
                SetMaxLoadFactor
  <2> QED
    BY <1>1, <1>2, <2>1, CallChain
<1>3. CASE RehashLoop
  BY <1>1, <1>3, RehashChain
<1>4. CASE UNCHANGED vars
  BY <1>4, QuietChain DEF vars
<1> QED
  BY <1>2, <1>3, <1>4 DEF Next

\* A new table has no chain to break.
LEMMA ChainInit ==
  ASSUME Init
  PROVE  ProbeChain
<1>1. Capacity \in Nat \ {0}
  BY TypeInit, CapacityBounds DEF TypeOK
<1>2. entries \in [0..(Capacity - 1) -> Entry \cup {None}]
  BY DEF Init
<1>3. \A s \in 0..(Capacity - 1) : ~IsFull(tags[s])
  BY <1>1, <1>2, FreshTyped DEF Init
<1>4. FullSlots = {} /\ PendingSlots = {} /\ carried = None
  BY <1>3 DEF FullSlots, Init, NoTags, PendingSlots
<1> QED
  BY <1>4 DEF ProbeChain, TagsMatch

\* In every state, those inside RehashInternal included, each entry in the
\* table carries its key's tag and lies in a vector of its key's probe that no
\* vector with an EMPTY tag precedes: the fact every search relies on.
THEOREM ChainUnbroken == Spec => []ProbeChain
<1>1. Init => TypeOK /\ ProbeChain
  BY TypeInit, ChainInit
<1>2. TypeOK /\ ProbeChain /\ [Next]_vars => (TypeOK /\ ProbeChain)'
  BY TypeStep, ChainStep
<1> QED
  BY <1>1, <1>2, PTL DEF Spec

\* A vector that holds an entry with its tag is one a search for it hits in.
LEMMA StepHits ==
  ASSUME TypeOK, TagsMatch, MistestedLanes = {}, NEW s \in FullSlots,
         NEW i \in ProbeSteps(Capacity), s - Position(entries[s].key, i) \in Lanes
  PROVE  i \in HitSteps(entries[s].key)
<1> DEFINE k == entries[s].key
           p == Position(k, i)
           l == s - p
<1>1. tags[s] = TagOf[k]
  BY DEF TagsMatch
<1>2. k \in Keys
  BY DEF TypeOK, Entry
<1>3. p \in 0..(Capacity - 1) /\ Capacity \in Nat /\ s \in 0..(Capacity - 1)
  BY <1>2, PositionTyped, CapacityBounds DEF TypeOK, FullSlots
<1>4. l \in Lanes
  OBVIOUS
<1> HIDE DEF p, k
<1>5. p + l = s
  BY <1>3
<1> HIDE DEF l
<1>6. l \in GetCmpMask(tags, p, TagOf[k])
  BY <1>1, <1>4, <1>5 DEF GetCmpMask
<1>7. l \in VisitedLanes(GetCmpMask(tags, p, TagOf[k]))
  BY <1>6 DEF VisitedLanes
<1>8. entries[p + l].key = k
  BY <1>5 DEF k
<1>9. i \in HitSteps(k)
  BY <1>7, <1>8 DEF HitSteps, HitLanes, p
<1> QED
  BY <1>9 DEF k

\* What the chain gives a search: the vector that holds the key is among
\* those the loop looks at, and the walk over its mask meets the slot.
LEMMA ChainFinds ==
  ASSUME TypeOK, ProbeChain, MistestedLanes = {}
  PROVE  NeverMissesStored
<1> SUFFICES ASSUME NEW s \in FullSlots
             PROVE  Hits(entries[s].key, EmptySteps(entries[s].key))
  BY DEF NeverMissesStored, StoredKeys
<1>1. PICK i \in ProbeSteps(Capacity) : ReachedAt(s, entries[s].key, i)
  BY DEF ProbeChain
<1>2. i \in HitSteps(entries[s].key)
  BY <1>1, StepHits DEF ProbeChain, ReachedAt
<1> QED
  BY <1>1, <1>2 DEF Hits, ReachedAt

\* In the default build a search for a key that is in the table finds it:
\* Contains, TryGetValue and Remove neither miss it nor run past it, whatever
\* calls came before.
THEOREM SearchFinds ==
  ASSUME MistestedLanes = {}
  PROVE  Spec => []NeverMissesStored
<1>1. TypeOK /\ ProbeChain => NeverMissesStored
  BY ChainFinds
<1> QED
  BY <1>1, TypeCorrect, ChainUnbroken, PTL

-----------------------------------------------------------------------------
(* The slots in use, and how many they are.                                *)

\* the first c slots of t that are in use
Used(t, c) == {s \in 0..(c - 1) : IsFull(t[s])}

\* A table has finitely many slots in use.
LEMMA UsedFinite ==
  ASSUME NEW c \in Nat, NEW t
  PROVE  IsFiniteSet(Used(t, c)) /\ Cardinality(Used(t, c)) \in Nat
<1>1. IsFiniteSet(0..(c - 1))
  BY FS_Interval
<1>2. Used(t, c) \in SUBSET (0..(c - 1))
  BY DEF Used
<1>3. IsFiniteSet(Used(t, c))
  BY <1>1, <1>2, FS_Subset
<1> QED
  BY <1>3, FS_CardinalityType

\* The slots that wait for the rehash are the ones in use in the old tags.
LEMMA WaitingUsed ==
  ASSUME NEW n \in Nat, NEW pt,
         \/ pt = NoTags /\ n = 0
         \/ pt \in [0..(n + LANES - 1) -> Tags]
  PROVE  {s \in DOMAIN pt : s < n /\ IsFull(pt[s])} = Used(pt, n)
<1>1. LANES \in Nat
  BY LanesTyped
<1>2. CASE pt = NoTags /\ n = 0
  <2>1. DOMAIN pt = {} /\ 0..(n - 1) = {}
    BY <1>2 DEF NoTags
  <2> QED
    BY <2>1 DEF Used
<1>3. CASE pt \in [0..(n + LANES - 1) -> Tags]
  <2>1. DOMAIN pt = 0..(n + LANES - 1)
    BY <1>3
  <2>2. \A s : s \in 0..(n - 1) <=> s \in 0..(n + LANES - 1) /\ s < n
    BY <1>1
  <2> QED
    BY <2>1, <2>2 DEF Used
<1> QED
  BY <1>2, <1>3

\* The slots a state has in use, and those that wait for the rehash.
LEMMA SlotsUsed ==
  ASSUME TypeOK
  PROVE  FullSlots = Used(tags, Capacity) /\ PendingSlots = Used(prevTags, prevSize)
<1>1. FullSlots = Used(tags, Capacity)
  BY DEF FullSlots, Used
<1>2. /\ prevSize \in Nat
      /\ \/ prevTags = NoTags /\ prevSize = 0
         \/ prevTags \in [0..(prevSize + LANES - 1) -> Tags]
  BY DEF TypeOK
<1> QED
  BY <1>1, <1>2, WaitingUsed DEF PendingSlots, Pending

\* The slots in use and the waiting ones are finitely many.
LEMMA SlotsFinite ==
  ASSUME TypeOK
  PROVE  /\ IsFiniteSet(FullSlots) /\ Cardinality(FullSlots) \in Nat
         /\ IsFiniteSet(PendingSlots) /\ Cardinality(PendingSlots) \in Nat
<1>1. Capacity \in Nat /\ prevSize \in Nat
  BY CapacityBounds DEF TypeOK
<1> QED
  BY <1>1, SlotsUsed, UsedFinite

\* Writing a tag into a slot adds it to the slots in use, or drops it.
LEMMA UsedStore ==
  ASSUME NEW c \in Nat, NEW t \in [0..(c + LANES - 1) -> Tags],
         NEW s \in 0..(c - 1), NEW tag
  PROVE  Used([t EXCEPT ![s] = tag], c) =
           IF IsFull(tag) THEN Used(t, c) \cup {s} ELSE Used(t, c) \ {s}
<1>1. s \in DOMAIN t /\ \A x \in 0..(c - 1) : x \in DOMAIN t
  BY LanesTyped
<1>2. \A x \in 0..(c - 1) : [t EXCEPT ![s] = tag][x] = IF x = s THEN tag ELSE t[x]
  BY <1>1
<1> QED
  BY <1>2 DEF Used

\* Writing a hash tag adds the slot.
LEMMA UsedAdd ==
  ASSUME NEW c \in Nat, NEW t \in [0..(c + LANES - 1) -> Tags],
         NEW s \in 0..(c - 1), NEW tag, IsFull(tag)
  PROVE  Used([t EXCEPT ![s] = tag], c) = Used(t, c) \cup {s}
BY UsedStore

\* Writing any other tag drops it.
LEMMA UsedDrop ==
  ASSUME NEW c \in Nat, NEW t \in [0..(c + LANES - 1) -> Tags],
         NEW s \in 0..(c - 1), NEW tag, ~IsFull(tag)
  PROVE  Used([t EXCEPT ![s] = tag], c) = Used(t, c) \ {s}
BY UsedStore

\* A table whose tags were just initialised has no slot in use.
LEMMA UsedFresh ==
  ASSUME NEW c \in Nat
  PROVE  Used(FreshTags(c), c) = {}
<1>1. LANES \in Nat \ {0}
  BY LanesTyped
<1>2. \A s \in 0..(c - 1) : FreshTags(c)[s] = EMPTY
  BY <1>1 DEF FreshTags
<1> QED
  BY <1>2, TagKinds DEF Used, IsFull

-----------------------------------------------------------------------------
(* One placement of the rehash, in terms of the sets of slots.             *)

\* The entry in hand goes from the slots that wait into slot s; rest are the
\* slots that wait without the one it came from.
Moves(s, entry, rest) ==
  /\ IF carried = None
       THEN /\ cursor \in PendingSlots /\ rest = PendingSlots \ {cursor}
            /\ entry = entries[cursor]
       ELSE rest = PendingSlots /\ entry = carried.entry
  /\ s \in 0..(Capacity - 1) /\ s \notin FullSlots
  /\ FullSlots' = FullSlots \cup {s}
  /\ PendingSlots' = rest \ {s}
  /\ entries' = [entries EXCEPT ![s] = entry]
  /\ \/ /\ s \in rest /\ carried' # None /\ carried'.entry = entries[s]
        /\ cursor' = cursor
     \/ s \notin rest /\ carried' = None /\ cursor' = cursor + 1
  /\ Count' = Count + 1
  /\ UNCHANGED <<status, prevSize, prevCount, Capacity, ret>>

\* What Settle does to the slots in use and to those that wait.
LEMMA SettleMoves ==
  ASSUME TypeOK, TypeOK', cursor < prevSize,
         NEW tag \in HashTags, NEW entry \in Entry,
         NEW pt \in [0..(prevSize + LANES - 1) -> Tags],
         \A x \in Used(pt, prevSize) : entries[x] \in Entry,
         EmptySteps(entry.key) # {}, Settle(tag, entry, pt),
         NEW s, s = FindEmpty(entry.key)
  PROVE  /\ s \in 0..(Capacity - 1) /\ s \notin FullSlots
         /\ FullSlots' = FullSlots \cup {s}
         /\ PendingSlots' = Used(pt, prevSize) \ {s}
         /\ entries' = [entries EXCEPT ![s] = entry]
         /\ \/ /\ s \in Used(pt, prevSize) /\ carried' # None
               /\ carried'.entry = entries[s] /\ cursor' = cursor
            \/ /\ s \notin Used(pt, prevSize) /\ carried' = None
               /\ cursor' = cursor + 1
         /\ Count' = Count + 1
         /\ UNCHANGED <<status, prevSize, prevCount, Capacity, ret>>
<1>1. /\ Capacity \in Nat \ {0} /\ LANES \in Nat \ {0} /\ cursor \in Nat
      /\ prevSize \in Nat /\ prevSize <= Capacity
      /\ tags \in [0..(Capacity + LANES - 1) -> Tags]
  BY CapacityBounds, LanesTyped DEF TypeOK
<1>2. entry.key \in Keys
  BY DEF Entry
<1>3. s \in 0..(Capacity - 1) /\ tags[s] = EMPTY
  BY <1>2, FindEmptyTyped
<1>4. /\ tags' = [tags EXCEPT ![s] = tag]
      /\ entries' = [entries EXCEPT ![s] = entry] /\ Count' = Count + 1
      /\ UNCHANGED <<status, prevSize, prevCount, Capacity, ret>>
      /\ \/ /\ Pending(pt, s)
            /\ carried' = [tag |-> pt[s], entry |-> entries[s]]
            /\ prevTags' = [pt EXCEPT ![s] = EMPTY]
            /\ cursor' = cursor
         \/ /\ ~Pending(pt, s)
            /\ carried' = None /\ prevTags' = pt /\ cursor' = cursor + 1
  BY DEF Settle
<1>5. s \notin FullSlots
  BY <1>3, TagKinds DEF FullSlots, IsFull
<1>6. FullSlots' = FullSlots \cup {s}
  <2>1. FullSlots' = Used(tags', Capacity)
    BY <1>4 DEF FullSlots, Used
  <2>2. FullSlots = Used(tags, Capacity)
    BY SlotsUsed
  <2>3. IsFull(tag)
    BY DEF IsFull
  <2>4. Used(tags', Capacity) = Used(tags, Capacity) \cup {s}
    <3>1. tags' = [tags EXCEPT ![s] = tag] /\ Capacity \in Nat
      BY <1>1, <1>4
    <3>2. s \in 0..(Capacity - 1) /\ tags \in [0..(Capacity + LANES - 1) -> Tags]
      BY <1>1, <1>3
    <3>3. Used([tags EXCEPT ![s] = tag], Capacity) = Used(tags, Capacity) \cup {s}
      BY <2>3, <3>1, <3>2, UsedAdd, Zenon
    <3> QED
      BY <3>1, <3>3
  <2> QED
    BY <2>1, <2>2, <2>4
<1>7. Pending(pt, s) <=> s \in Used(pt, prevSize)
  BY <1>1, <1>3 DEF Pending, Used
<1>8. PendingSlots' = Used(prevTags', prevSize)
  <2>1. prevTags' \in [0..(prevSize + LANES - 1) -> Tags]
    BY <1>4, TagKinds
  <2> QED
    BY <1>1, <1>4, <2>1, WaitingUsed DEF PendingSlots, Pending
<1>9. CASE s \in Used(pt, prevSize)
  <2>1. Used(prevTags', prevSize) = Used(pt, prevSize) \ {s}
    <3>1. s \in 0..(prevSize - 1) /\ ~IsFull(EMPTY)
      BY <1>9, TagKinds DEF Used, IsFull
    <3>2. prevTags' = [pt EXCEPT ![s] = EMPTY]
      BY <1>4, <1>7, <1>9
    <3> QED
      BY <1>1, <3>1, <3>2, UsedDrop
  <2>2. carried' # None
    <3>1. pt[s] \in HashTags /\ entries[s] \in Entry
      BY <1>9 DEF Used, IsFull
    <3>2. carried' = [tag |-> pt[s], entry |-> entries[s]]
      BY <1>4, <1>7, <1>9
    <3>3. carried' \in CarriedEntry
      BY <3>1, <3>2 DEF CarriedEntry
    <3> QED
      BY <3>3, HashAssumption
  <2> QED
    BY <1>3, <1>4, <1>5, <1>6, <1>7, <1>8, <1>9, <2>1, <2>2
<1>10. CASE s \notin Used(pt, prevSize)
  <2>1. PendingSlots' = Used(pt, prevSize) \ {s}
    BY <1>4, <1>7, <1>8, <1>10
  <2> QED
    BY <1>3, <1>4, <1>5, <1>6, <1>7, <1>10, <2>1
<1> QED
  BY <1>9, <1>10

\* The two steps of RehashInternal that place an entry move it, or hang.
LEMMA PlacementMoves ==
  ASSUME TypeOK, TypeOK', RehashTake \/ RehashDisplace
  PROVE  Hang \/ \E s, entry, rest : Moves(s, entry, rest)
<1>1. /\ LANES \in Nat \ {0} /\ cursor \in Nat /\ prevSize \in Nat
      /\ PendingSlots = Used(prevTags, prevSize)
  BY LanesTyped, SlotsUsed DEF TypeOK
<1>2. ASSUME RehashTake PROVE Hang \/ \E s, entry, rest : Moves(s, entry, rest)
  <2> DEFINE pt == [prevTags EXCEPT ![cursor] = EMPTY]
             entry == entries[cursor]
             rest == PendingSlots \ {cursor}
  <2>1. /\ carried = None /\ Pending(prevTags, cursor)
        /\ Settle(prevTags[cursor], entry, pt)
    BY <1>2 DEF RehashTake
  <2>2. /\ prevTags \in [0..(prevSize + LANES - 1) -> Tags]
        /\ cursor \in 0..(prevSize - 1) /\ prevTags[cursor] \in HashTags
        /\ entry \in Entry
    BY <1>1, <2>1, PendingTyped
  <2>3. pt \in [0..(prevSize + LANES - 1) -> Tags] /\ cursor < prevSize
    BY <1>1, <2>2, TagKinds
  <2>4. Used(pt, prevSize) = rest
    <3>1. ~IsFull(EMPTY)
      BY TagKinds DEF IsFull
    <3> QED
      BY <1>1, <2>2, <3>1, UsedDrop
  <2>5. cursor \in PendingSlots
    BY <1>1, <2>1, <2>2 DEF Used, Pending
  <2>6. \A x \in Used(pt, prevSize) : entries[x] \in Entry
    BY <2>4 DEF TypeOK
  <2> HIDE DEF pt, entry, rest
  <2>7. CASE EmptySteps(entry.key) = {}
    BY <2>1, <2>7 DEF Settle
  <2>8. CASE EmptySteps(entry.key) # {}
    <3> DEFINE s == FindEmpty(entry.key)
    <3>1. /\ s \in 0..(Capacity - 1) /\ s \notin FullSlots
          /\ FullSlots' = FullSlots \cup {s}
          /\ PendingSlots' = Used(pt, prevSize) \ {s}
          /\ entries' = [entries EXCEPT ![s] = entry]
          /\ \/ /\ s \in Used(pt, prevSize) /\ carried' # None
                /\ carried'.entry = entries[s] /\ cursor' = cursor
             \/ /\ s \notin Used(pt, prevSize) /\ carried' = None
                /\ cursor' = cursor + 1
          /\ Count' = Count + 1
          /\ UNCHANGED <<status, prevSize, prevCount, Capacity, ret>>
      <4> HIDE DEF s
      <4>1. s = FindEmpty(entry.key)
        BY DEF s
      <4> QED
        BY <2>1, <2>2, <2>3, <2>6, <2>8, <4>1, SettleMoves
    <3> HIDE DEF s
    <3>2. Moves(s, entry, rest)
      BY <2>1, <2>4, <2>5, <3>1 DEF Moves, entry, rest
    <3> QED
      BY <3>2
  <2> QED
    BY <2>7, <2>8
<1>3. ASSUME RehashDisplace PROVE Hang \/ \E s, entry, rest : Moves(s, entry, rest)
  <2> DEFINE entry == carried.entry
             rest == PendingSlots
  <2>1. carried # None /\ Settle(carried.tag, entry, prevTags)
    BY <1>3 DEF RehashDisplace
  <2>2. carried \in CarriedEntry /\ cursor < prevSize
    BY <2>1 DEF TypeOK
  <2>3. carried.tag \in HashTags /\ entry \in Entry
    BY <2>2 DEF CarriedEntry
  <2>4. prevTags \in [0..(prevSize + LANES - 1) -> Tags]
    BY <1>1, <2>2 DEF TypeOK
  <2>5. \A x \in Used(prevTags, prevSize) : entries[x] \in Entry
    BY <1>1 DEF TypeOK
  <2> HIDE DEF entry
  <2>6. CASE EmptySteps(entry.key) = {}
    BY <2>1, <2>6 DEF Settle
  <2>7. CASE EmptySteps(entry.key) # {}
    <3> DEFINE s == FindEmpty(entry.key)
    <3>1. /\ s \in 0..(Capacity - 1) /\ s \notin FullSlots
          /\ FullSlots' = FullSlots \cup {s}
          /\ PendingSlots' = Used(prevTags, prevSize) \ {s}
          /\ entries' = [entries EXCEPT ![s] = entry]
          /\ \/ /\ s \in Used(prevTags, prevSize) /\ carried' # None
                /\ carried'.entry = entries[s] /\ cursor' = cursor
             \/ /\ s \notin Used(prevTags, prevSize) /\ carried' = None
                /\ cursor' = cursor + 1
          /\ Count' = Count + 1
          /\ UNCHANGED <<status, prevSize, prevCount, Capacity, ret>>
      <4> HIDE DEF s
      <4>1. s = FindEmpty(entry.key)
        BY DEF s
      <4> QED
        BY <2>1, <2>2, <2>3, <2>4, <2>5, <2>7, <4>1, SettleMoves
    <3> HIDE DEF s
    <3>2. Moves(s, entry, rest)
      BY <1>1, <2>1, <3>1 DEF Moves, entry
    <3> QED
      BY <3>2
  <2> QED
    BY <2>6, <2>7
<1> QED
  BY <1>2, <1>3

-----------------------------------------------------------------------------
(* What a call leaves behind, in terms of the sets of slots.               *)

\* A call ends with the slots F in use and n counted, or hands them to
\* RehashInternal, which starts with an empty table.
Leaves(F, n) ==
  \/ /\ FullSlots' = F /\ Count' = n
     /\ status' # "rehash" /\ UNCHANGED loop
  \/ /\ FullSlots' = {} /\ Count' = 0
     /\ PendingSlots' = F /\ prevCount' = n
     /\ status' = "rehash" /\ cursor' = 0 /\ carried' = None

\* A call that leaves tags, count and loop alone.
LEMMA QuietLeaves ==
  ASSUME status' # "rehash", UNCHANGED <<tags, Capacity, Count, loop>>
  PROVE  Leaves(FullSlots, Count)
BY DEF Leaves, FullSlots

\* A table that keeps its size has the slots in use the caller wrote.
LEMMA KeepLeaves ==
  ASSUME status = "idle", NEW t, NEW e, NEW n, NEW limit, Keep(t, e, n, limit)
  PROVE  Leaves(Used(t, Capacity), n)
BY DEF Keep, Leaves, FullSlots, Used

\* The rehash starts with the slots in use of the tags it is given.
LEMMA StartLeaves ==
  ASSUME TypeOK, NEW c \in Capacities, NEW e, NEW n,
         NEW t \in [0..(Capacity + LANES - 1) -> Tags],
         StartRehash(c, t, e, n), Capacity' = c
  PROVE  Leaves(Used(t, Capacity), n)
<1>1. Capacity \in Nat /\ c \in Nat
  BY CapacityBounds DEF TypeOK
<1>2. /\ status' = "rehash" /\ prevTags' = t /\ prevSize' = Capacity
      /\ prevCount' = n /\ cursor' = 0 /\ carried' = None
      /\ tags' = FreshTags(c) /\ Count' = 0
  BY DEF StartRehash
<1>3. FullSlots' = {}
  <2>1. FullSlots' = Used(FreshTags(c), c)
    BY <1>2 DEF FullSlots, Used
  <2> QED
    BY <1>1, <2>1, UsedFresh
<1>4. PendingSlots' = Used(t, Capacity)
  <2>1. PendingSlots' = {s \in DOMAIN t : s < Capacity /\ IsFull(t[s])}
    BY <1>2 DEF PendingSlots, Pending
  <2> QED
    BY <1>1, <2>1, WaitingUsed
<1> QED
  BY <1>2, <1>3, <1>4 DEF Leaves

\* A new capacity: the array of entries refuses, the table is empty, or its
\* entries are placed again.
LEMMA ReallocateLeaves ==
  ASSUME TypeOK, status = "idle", NEW c \in Capacities, NEW t, NEW e, NEW n,
         n # 0 => t \in [0..(Capacity + LANES - 1) -> Tags],
         Reallocate(c, t, e, n)
  PROVE  \/ Leaves(FullSlots, Count)
         \/ n # 0 /\ Leaves(Used(t, Capacity), n)
         \/ n = 0 /\ Leaves({}, 0)
<1>1. CASE Abort
  BY <1>1, QuietLeaves DEF Abort, table
<1>2. CASE n # 0 /\ Capacity' = c /\ StartRehash(c, t, Extended(e, c), n)
  BY <1>2, StartLeaves
<1>3. CASE /\ n = 0 /\ Capacity' = c /\ tags' = FreshTags(c) /\ Count' = 0
           /\ UNCHANGED <<status, loop>>
  <2>1. FullSlots' = Used(FreshTags(c), c)
    BY <1>3 DEF FullSlots, Used
  <2>2. FullSlots' = {}
    BY <2>1, UsedFresh, CapacityBounds
  <2> QED
    BY <1>3, <2>2 DEF Leaves
<1> QED
  BY <1>1, <1>2, <1>3 DEF Reallocate

\* Resize, from the tags and the count its caller left.
LEMMA ResizeFromLeaves ==
  ASSUME TypeOK, status = "idle", NEW size \in Nat, NEW e, NEW n,
         NEW t \in [0..(Capacity + LANES - 1) -> Tags],
         ResizeFrom(size, t, e, n)
  PROVE  \/ Leaves(FullSlots, Count)
         \/ Leaves(Used(t, Capacity), n)
         \/ n = 0 /\ Leaves({}, 0)
<1> DEFINE c == AdjustCapacity(size)
<1>1. c \in Capacities
  BY AdjustCapacityTyped
<1>2. CASE Abort
  BY <1>2, QuietLeaves DEF Abort, table
<1>3. ASSUME NEW limit, Keep(t, e, n, limit) PROVE Leaves(Used(t, Capacity), n)
  BY <1>3, KeepLeaves
<1>4. \/ Abort \/ Reallocate(c, t, e, n)
      \/ Keep(t, e, n, CountGrowthLimit) \/ Keep(t, e, n, GrowthLimit(c, maxLoadFactor))
  BY DEF ResizeFrom
<1> HIDE DEF c
<1> QED
  BY <1>1, <1>2, <1>3, <1>4, ReallocateLeaves

\* A call leaves the slots in use as they are, empties the table, takes one
\* slot more or gives one up; the count follows.
LEMMA CallLeaves ==
  ASSUME TypeOK, status = "idle",
         (\E k \in Keys, v \in Values : CheckedAdds(k, v) \/ UniqueAdds(k, v))
           \/ OtherCalls
  PROVE  \/ Leaves(FullSlots, Count)
         \/ Leaves({}, 0)
         \/ \E s : s \notin FullSlots /\ Leaves(FullSlots \cup {s}, Count + 1)
         \/ \E s \in FullSlots : Leaves(FullSlots \ {s}, Count - 1)
<1> DEFINE Goal == \/ Leaves(FullSlots, Count)
                   \/ Leaves({}, 0)
                   \/ \E s : s \notin FullSlots /\ Leaves(FullSlots \cup {s}, Count + 1)
                   \/ \E s \in FullSlots : Leaves(FullSlots \ {s}, Count - 1)
<1>1. /\ Capacity \in Nat \ {0} /\ Capacity \in Capacities /\ Count \in Int
      /\ tags \in [0..(Capacity + LANES - 1) -> Tags]
      /\ FullSlots = Used(tags, Capacity)
  BY CapacityBounds, SlotsUsed DEF TypeOK
<1>2. ASSUME Hang PROVE Goal
  BY <1>2, QuietLeaves DEF Hang, table
<1>3. ASSUME NEW k \in Keys, NEW v \in Values, VacantSteps(k) # {}, Insert(k, v)
      PROVE  Goal
  <2> DEFINE s == VacantSlot(k)
             t == [tags EXCEPT ![s] = TagOf[k]]
             e == [entries EXCEPT ![s] = [key |-> k, value |-> v]]
  <2>1. s \in 0..(Capacity - 1) /\ ~IsFull(tags[s])
    BY <1>3, VacantSlotTyped, TagKinds DEF IsFull
  <2>2. TagOf[k] \in HashTags /\ IsFull(TagOf[k]) /\ TagOf[k] \in Tags
    BY HashAssumption, TagKinds DEF IsFull
  <2>3. \/ ResizeFrom(Capacity + 1, t, e, Count + 1)
        \/ Keep(t, e, Count + 1, CountGrowthLimit)
    BY <1>3 DEF Insert
  <2> HIDE DEF s, e
  <2>4. t \in [0..(Capacity + LANES - 1) -> Tags]
    BY <1>1, <2>2
  <2>5. Used(t, Capacity) = FullSlots \cup {s} /\ s \notin FullSlots
    <3>1. Used(t, Capacity) = Used(tags, Capacity) \cup {s}
      BY <1>1, <2>1, <2>2, UsedAdd
    <3> QED
      BY <1>1, <2>1, <3>1 DEF Used
  <2> HIDE DEF t
  <2>6. CASE ResizeFrom(Capacity + 1, t, e, Count + 1)
    <3>1. Capacity + 1 \in Nat
      BY <1>1
    <3>2. \/ Leaves(FullSlots, Count)
          \/ Leaves(Used(t, Capacity), Count + 1)
          \/ Leaves({}, 0)
      BY <2>4, <2>6, <3>1, ResizeFromLeaves
    <3> QED
      BY <2>5, <3>2
  <2>7. CASE Keep(t, e, Count + 1, CountGrowthLimit)
    BY <2>5, <2>7, KeepLeaves
  <2> QED
    BY <2>3, <2>6, <2>7
<1>4. ASSUME NEW k \in Keys, NEW v \in Values, NEW op, NEW update,
             AddChecked(op, k, v, update)
      PROVE  Goal
  <2>1. CASE UNCHANGED <<tags, Capacity, Count, status, loop>>
    BY <2>1, QuietLeaves
  <2>2. CASE Insert(k, v) /\ ~Hangs(k, VacantSteps(k)) /\ ~Hits(k, VacantSteps(k))
    BY <1>3, <2>2 DEF Hangs, Hits
  <2> QED
    BY <1>2, <1>4, <2>1, <2>2 DEF AddChecked
<1>5. ASSUME NEW k \in Keys, NEW v \in Values, CheckedAdds(k, v) PROVE Goal
  BY <1>4, <1>5 DEF CheckedAdds, Add, AddOrUpdate
<1>6. ASSUME NEW k \in Keys, NEW v \in Values, UniqueAdds(k, v) PROVE Goal
  BY <1>2, <1>3, <1>6 DEF UniqueAdds, AddUnique
<1>7. ASSUME NEW k \in Keys, Find(k) PROVE Goal
  BY <1>2, <1>7, QuietLeaves DEF Find, table
<1>8. ASSUME NEW k \in Keys, Remove(k) PROVE Goal
  <2>1. CASE /\ Hits(k, EmptySteps(k))
             /\ Keep(Bury(HitSlot(k)), entries, Count - 1, CountGrowthLimit)
    <3> DEFINE s == HitSlot(k)
    <3>1. s \in FullSlots
      BY <2>1, HitSlotTyped DEF Hits
    <3>2. s \in 0..(Capacity - 1) /\ ~IsFull(TOMBSTONE)
      BY <3>1, TagKinds DEF FullSlots, IsFull
    <3>3. Leaves(Used(Bury(s), Capacity), Count - 1)
      BY <2>1, KeepLeaves
    <3> HIDE DEF s
    <3>4. Used(Bury(s), Capacity) = FullSlots \ {s}
      BY <1>1, <3>2, UsedDrop DEF Bury
    <3> QED
      BY <3>1, <3>3, <3>4
  <2>2. CASE UNCHANGED <<table, maxLoadFactor, status, loop>>
    BY <2>2, QuietLeaves DEF table
  <2> QED
    BY <1>2, <1>8, <2>1, <2>2 DEF Remove, Keep
<1>9. ASSUME Rehash PROVE Goal
  <2>1. CASE StartRehash(Capacity, tags, entries, Count) /\ Capacity' = Capacity
    BY <1>1, <2>1, StartLeaves
  <2>2. CASE UNCHANGED <<table, maxLoadFactor, status, loop>>
    BY <2>2, QuietLeaves DEF table
  <2> QED
    BY <1>9, <2>1, <2>2 DEF Rehash
<1>10. ASSUME NEW size \in Sizes, Resize(size) PROVE Goal
  BY <1>1, <1>10, HashAssumption, ResizeFromLeaves DEF Resize
<1>11. ASSUME NEW size \in Sizes, Clear(size) PROVE Goal
  <2>1. CASE Reallocate(AdjustCapacity(size), NoTags, entries, 0)
    <3>1. AdjustCapacity(size) \in Capacities
      BY HashAssumption, AdjustCapacityTyped
    <3> QED
      BY <2>1, <3>1, ReallocateLeaves
  <2>2. CASE Keep(FreshTags(Capacity), entries, 0, CountGrowthLimit)
    BY <1>1, <2>2, KeepLeaves, UsedFresh
  <2> QED
    BY <1>11, <2>1, <2>2 DEF Clear
<1>12. ASSUME NEW mlf \in LoadFactors, SetMaxLoadFactor(mlf) PROVE Goal
  BY <1>12, QuietLeaves DEF SetMaxLoadFactor
<1> QED
  BY <1>5, <1>6, <1>7, <1>8, <1>9, <1>10, <1>11, <1>12 DEF OtherCalls

-----------------------------------------------------------------------------
(* The order of the scan and the count: TypeOK /\ InOrder /\ CountIsFull   *)
(* is inductive.                                                           *)

\* No entry waits behind the scan, and while an entry is carried none waits in
\* the slot the scan is at: the chain it belongs to began there.
InOrder ==
  /\ \A s \in PendingSlots : cursor <= s
  /\ carried # None => cursor \notin PendingSlots

\* The client's calls are made while no rehash is on.
LEMMA CallIdle ==
  ASSUME (\E k \in Keys, v \in Values : CheckedAdds(k, v) \/ UniqueAdds(k, v))
           \/ OtherCalls
  PROVE  status = "idle"
BY DEF CheckedAdds, UniqueAdds, Add, AddOrUpdate, AddChecked, AddUnique,
       OtherCalls, Find, Remove, Rehash, Resize, Clear, SetMaxLoadFactor

\* The slots that wait are numbers.
LEMMA PendingNat ==
  ASSUME TypeOK
  PROVE  PendingSlots \subseteq Nat /\ cursor \in Nat
<1>1. prevSize \in Nat /\ cursor \in Nat
  BY DEF TypeOK
<1> QED
  BY <1>1, SlotsUsed DEF Used

\* A step that leaves the loop alone.
LEMMA LoopOrder ==
  ASSUME InOrder, UNCHANGED loop
  PROVE  InOrder'
BY DEF InOrder, loop, PendingSlots, Pending

\* The scan starts with no entry behind it.
LEMMA CallOrder ==
  ASSUME TypeOK, TypeOK', InOrder, NEW F, NEW n, Leaves(F, n)
  PROVE  InOrder'
<1>1. CASE UNCHANGED loop
  BY <1>1, LoopOrder
<1>2. CASE cursor' = 0 /\ carried' = None
  <2>1. (PendingSlots \subseteq Nat)'
    <3>1. (PendingSlots = Used(prevTags, prevSize))'
      <4>1. /\ prevSize' \in Nat
            /\ \/ prevTags' = NoTags /\ prevSize' = 0
               \/ prevTags' \in [0..(prevSize' + LANES - 1) -> Tags]
        BY DEF TypeOK
      <4> QED
        BY <4>1, WaitingUsed DEF PendingSlots, Pending
    <3> QED
      BY <3>1 DEF Used, TypeOK
  <2> QED
    BY <1>2, <2>1 DEF InOrder
<1> QED
  BY <1>1, <1>2 DEF Leaves

\* A move takes its entry from where the scan is.
LEMMA MoveOrder ==
  ASSUME TypeOK, InOrder, NEW s, NEW entry, NEW rest, Moves(s, entry, rest)
  PROVE  InOrder'
<1>1. PendingSlots \subseteq Nat /\ cursor \in Nat
  BY PendingNat
<1>2. rest \subseteq PendingSlots /\ cursor \notin rest
  BY DEF Moves, InOrder
<1>3. \A x \in rest : cursor + 1 <= x
  BY <1>1, <1>2 DEF InOrder
<1>4. PendingSlots' \subseteq rest
  BY DEF Moves
<1>5. CASE cursor' = cursor
  BY <1>1, <1>2, <1>3, <1>4, <1>5 DEF InOrder
<1>6. CASE cursor' = cursor + 1 /\ carried' = None
  BY <1>3, <1>4, <1>6 DEF InOrder
<1> QED
  BY <1>5, <1>6 DEF Moves

\* When the scan is through, no entry waits any more.
LEMMA DoneEmpty ==
  ASSUME TypeOK, InOrder, RehashDone
  PROVE  PendingSlots = {}
<1>1. prevSize \in Nat /\ cursor = prevSize
  BY DEF TypeOK, RehashDone
<1> QED
  BY <1>1, SlotsUsed DEF InOrder, Used

\* Every step of RehashInternal keeps the order.
LEMMA RehashOrder ==
  ASSUME TypeOK, TypeOK', InOrder, RehashLoop
  PROVE  InOrder'
<1>1. CASE RehashTake \/ RehashDisplace
  <2>1. CASE Hang
    BY <2>1, LoopOrder DEF Hang
  <2>2. CASE \E s, entry, rest : Moves(s, entry, rest)
    BY <2>2, MoveOrder
  <2> QED
    BY <1>1, <2>1, <2>2, PlacementMoves
<1>2. CASE RehashSkip
  <2>1. PendingSlots' = PendingSlots /\ carried' = None /\ cursor' = cursor + 1
    BY <1>2 DEF RehashSkip, PendingSlots, Pending
  <2>2. cursor \notin PendingSlots
    BY <1>2 DEF RehashSkip, PendingSlots
  <2>3. \A s \in PendingSlots : cursor + 1 <= s
    BY <2>2, PendingNat DEF InOrder
  <2> QED
    BY <2>1, <2>3 DEF InOrder
<1>3. CASE RehashDone
  BY <1>3 DEF RehashDone, InOrder, PendingSlots, NoTags
<1> QED
  BY <1>1, <1>2, <1>3 DEF RehashLoop

\* A call counts the slots it leaves in use.
LEMMA CallCounts ==
  ASSUME NEW F, NEW n, n = Cardinality(F), n \in Int, Leaves(F, n)
  PROVE  CountIsFull'
<1>1. Cardinality({}) = 0
  BY FS_EmptySet
<1>2. CASE FullSlots' = F /\ Count' = n /\ status' # "rehash"
  BY <1>2 DEF CountIsFull
<1>3. CASE /\ FullSlots' = {} /\ Count' = 0 /\ carried' = None
           /\ PendingSlots' = F /\ prevCount' = n
  BY <1>1, <1>3 DEF CountIsFull
<1> QED
  BY <1>2, <1>3 DEF Leaves

\* A move counts the entry it places; a carried one is neither waiting nor
\* counted.
LEMMA MoveCounts ==
  ASSUME TypeOK, CountIsFull, status = "rehash",
         NEW s, NEW entry, NEW rest, Moves(s, entry, rest)
  PROVE  CountIsFull'
<1>1. /\ IsFiniteSet(FullSlots) /\ Cardinality(FullSlots) \in Nat
      /\ IsFiniteSet(PendingSlots) /\ Cardinality(PendingSlots) \in Nat
  BY SlotsFinite
<1>2. Cardinality(FullSlots') = Count + 1
  BY <1>1, FS_AddElement DEF Moves, CountIsFull
<1>3. /\ IsFiniteSet(rest)
      /\ Cardinality(rest) =
           Cardinality(PendingSlots) - (IF carried = None THEN 1 ELSE 0)
  BY <1>1, FS_RemoveElement DEF Moves
<1>4. Cardinality(PendingSlots') =
        Cardinality(rest) - (IF carried' = None THEN 0 ELSE 1)
  <2>1. Cardinality(rest) \in Nat
    BY <1>3, FS_CardinalityType
  <2>2. Cardinality(rest \ {s}) =
          IF s \in rest THEN Cardinality(rest) - 1 ELSE Cardinality(rest)
    BY <1>3, FS_RemoveElement
  <2>3. PendingSlots' = rest \ {s} /\ (s \in rest <=> carried' # None)
    BY DEF Moves
  <2> QED
    BY <2>1, <2>2, <2>3
<1>5. prevCount = Count + Cardinality(PendingSlots)
                        + (IF carried = None THEN 0 ELSE 1)
  BY DEF CountIsFull
<1>6. Count \in Int /\ Cardinality(PendingSlots) \in Int
  BY <1>1 DEF TypeOK
<1>7. prevCount = Count + 1 + Cardinality(PendingSlots')
                            + (IF carried' = None THEN 0 ELSE 1)
  BY <1>3, <1>4, <1>5, <1>6
<1>8. Count' = Count + 1 /\ prevCount' = prevCount
  BY DEF Moves
<1> QED
  BY <1>2, <1>7, <1>8 DEF CountIsFull

\* Every step of RehashInternal keeps the count.
LEMMA RehashCounts ==
  ASSUME TypeOK, TypeOK', InOrder, CountIsFull, RehashLoop
  PROVE  CountIsFull'
<1>1. CASE RehashTake \/ RehashDisplace
  <2>1. status = "rehash"
    BY <1>1 DEF RehashTake, RehashDisplace
  <2>2. CASE Hang
    BY <2>2 DEF Hang, CountIsFull, table, FullSlots
  <2>3. CASE \E s, entry, rest : Moves(s, entry, rest)
    BY <2>1, <2>3, MoveCounts
  <2> QED
    BY <1>1, <2>2, <2>3, PlacementMoves
<1>2. CASE RehashSkip
  BY <1>2 DEF RehashSkip, CountIsFull, table, FullSlots, PendingSlots, Pending
<1>3. CASE RehashDone
  BY <1>3 DEF RehashDone, CountIsFull, table, FullSlots
<1> QED
  BY <1>1, <1>2, <1>3 DEF RehashLoop

\* The three invariants a step preserves together.
CountInv == TypeOK /\ InOrder /\ CountIsFull

\* A call keeps the order and the count.
LEMMA CallKeepsCount ==
  ASSUME CountInv, TypeOK', status = "idle",
         (\E k \in Keys, v \in Values : CheckedAdds(k, v) \/ UniqueAdds(k, v))
           \/ OtherCalls
  PROVE  InOrder' /\ CountIsFull'
<1>1. /\ TypeOK /\ InOrder /\ IsFiniteSet(FullSlots)
      /\ Cardinality(FullSlots) \in Nat /\ Count = Cardinality(FullSlots)
  BY SlotsFinite DEF CountInv, CountIsFull
<1>2. ASSUME NEW F, NEW n, n = Cardinality(F), n \in Int, Leaves(F, n)
      PROVE  InOrder' /\ CountIsFull'
  BY <1>1, <1>2, CallOrder, CallCounts
<1>3. CASE Leaves(FullSlots, Count)
  BY <1>1, <1>2, <1>3
<1>4. CASE Leaves({}, 0)
  BY <1>2, <1>4, FS_EmptySet
<1>5. ASSUME NEW s, s \notin FullSlots, Leaves(FullSlots \cup {s}, Count + 1)
      PROVE  InOrder' /\ CountIsFull'
  <2>1. Cardinality(FullSlots \cup {s}) = Count + 1
    BY <1>1, <1>5, FS_AddElement
  <2>2. Count + 1 \in Int
    BY <1>1
  <2> QED
    BY <1>2, <1>5, <2>1, <2>2
<1>6. ASSUME NEW s \in FullSlots, Leaves(FullSlots \ {s}, Count - 1)
      PROVE  InOrder' /\ CountIsFull'
  <2>1. Cardinality(FullSlots \ {s}) = Count - 1
    BY <1>1, FS_RemoveElement
  <2>2. Count - 1 \in Int
    BY <1>1
  <2> QED
    BY <1>2, <1>6, <2>1, <2>2
<1> QED
  BY <1>1, <1>3, <1>4, <1>5, <1>6, CallLeaves

\* Every step keeps the order and the count.
LEMMA CountStep ==
  ASSUME CountInv, [Next]_vars
  PROVE  CountInv'
<1>1. TypeOK'
  BY TypeStep DEF CountInv
<1>2. CASE (\E k \in Keys, v \in Values : CheckedAdds(k, v) \/ UniqueAdds(k, v))
           \/ OtherCalls
  BY <1>1, <1>2, CallIdle, CallKeepsCount DEF CountInv
<1>3. CASE RehashLoop
  BY <1>1, <1>3, RehashOrder, RehashCounts DEF CountInv
<1>4. CASE UNCHANGED vars
  BY <1>1, <1>4 DEF CountInv, CountIsFull, InOrder, vars, table, loop,
                    FullSlots, PendingSlots, Pending
<1> QED
  BY <1>2, <1>3, <1>4 DEF Next

\* A new table is empty and counts nothing.
LEMMA CountInit ==
  ASSUME Init
  PROVE  CountInv
<1>1. TypeOK
  BY TypeInit
<1>2. FullSlots = {}
  BY <1>1, SlotsUsed, UsedFresh, CapacityBounds DEF Init, TypeOK
<1>3. InOrder
  BY DEF Init, InOrder, PendingSlots, NoTags
<1> QED
  BY <1>1, <1>2, <1>3, FS_EmptySet DEF Init, CountInv, CountIsFull

\* The three invariants hold together in every state.
LEMMA CountInvariant == Spec => []CountInv
BY CountInit, CountStep, PTL DEF Spec

\* _Count is the number of slots in use in every state, inside RehashInternal
\* too, where it makes up prevCount with the entries that wait and the one that
\* is carried: each entry taken out of the old tags is counted once.
THEOREM CountExact == Spec => []CountIsFull
<1>1. CountInv => CountIsFull
  BY DEF CountInv
<1> QED
  BY <1>1, CountInvariant, PTL

-----------------------------------------------------------------------------
(* Aborts, for the modes that may grow with entries in the table.          *)

\* The assertion at the end of RehashInternal holds.
LEMMA DoneCounted ==
  ASSUME CountInv, RehashDone
  PROVE  status' = "idle"
<1>1. PendingSlots = {}
  BY DoneEmpty DEF CountInv
<1>2. status = "rehash" /\ carried = None /\ Count \in Int
  BY DEF RehashDone, CountInv, TypeOK
<1>3. prevCount = Count
  BY <1>1, <1>2, FS_EmptySet DEF CountInv, CountIsFull
<1> QED
  BY <1>3 DEF RehashDone

\* A Resize that grows always gets its array of entries.
LEMMA GrowthAllocates ==
  ASSUME TypeOK, status = "idle", ResizeOnlyEmpty = FALSE, NEW size \in Nat,
         NEW t, NEW n, NEW e, DOMAIN e = 0..(Capacity - 1),
         ResizeFrom(size, t, e, n)
  PROVE  status' # "aborted"
<1> DEFINE c == AdjustCapacity(size)
<1>1. c \in Nat \ {0} /\ Capacity \in Nat \ {0}
  BY AdjustCapacityTyped, CapacityBounds DEF TypeOK
<1>2. MayResize(n)
  BY DEF MayResize
<1>3. \/ \E limit : Keep(t, e, n, limit)
      \/ Capacity < c /\ Reallocate(c, t, e, n)
  BY <1>2 DEF ResizeFrom
<1> HIDE DEF c
<1>4. CASE \E limit : Keep(t, e, n, limit)
  BY <1>4 DEF Keep
<1>5. CASE Capacity < c /\ Reallocate(c, t, e, n)
  <2>1. c - 1 \notin DOMAIN e
    BY <1>1, <1>5
  <2> QED
    BY <1>5, <2>1 DEF Reallocate, StartRehash
<1> QED
  BY <1>3, <1>4, <1>5

\* A step that aborts is a Clear with less than the table has.
ShrinkingAborts ==
  status # "aborted" /\ status' = "aborted"
    => \E size \in Sizes :
         Clear(size) /\ size > 0 /\ AdjustCapacity(size) < Capacity

\* No other call and no step of RehashInternal aborts.
LEMMA AbortStep ==
  ASSUME CountInv, ResizeOnlyEmpty = FALSE, [Next]_vars
  PROVE  ShrinkingAborts
<1> SUFFICES ASSUME status # "aborted", status' = "aborted"
             PROVE  \E size \in Sizes :
                      Clear(size) /\ size > 0 /\ AdjustCapacity(size) < Capacity
  BY DEF ShrinkingAborts
<1>1. /\ TypeOK /\ Capacity \in Nat \ {0}
      /\ entries \in [0..(Capacity - 1) -> Entry \cup {None}]
  BY CapacityBounds DEF CountInv, TypeOK
<1>2. ~Hang
  BY DEF Hang
<1>3. ASSUME NEW k \in Keys, NEW v \in Values, status = "idle", Insert(k, v)
      PROVE  FALSE
  <2> DEFINE s == VacantSlot(k)
             t == [tags EXCEPT ![s] = TagOf[k]]
             e == [entries EXCEPT ![s] = [key |-> k, value |-> v]]
  <2>1. \/ ResizeFrom(Capacity + 1, t, e, Count + 1)
        \/ Keep(t, e, Count + 1, CountGrowthLimit)
    BY <1>3 DEF Insert
  <2>2. DOMAIN e = 0..(Capacity - 1) /\ Capacity + 1 \in Nat
    BY <1>1
  <2> HIDE DEF s, t, e
  <2>3. ~ResizeFrom(Capacity + 1, t, e, Count + 1)
    BY <1>1, <1>3, <2>2, GrowthAllocates
  <2> QED
    BY <1>3, <2>1, <2>3 DEF Keep
<1>4. ASSUME NEW k \in Keys, NEW v \in Values, CheckedAdds(k, v) \/ UniqueAdds(k, v)
      PROVE  FALSE
  BY <1>2, <1>3, <1>4
  DEF CheckedAdds, UniqueAdds, Add, AddOrUpdate, AddChecked, AddUnique
<1>5. ASSUME RehashLoop PROVE FALSE
  <2>1. status' # "aborted" \/ RehashDone
    BY <1>5 DEF RehashLoop, RehashSkip, RehashTake, RehashDisplace, Settle, Hang
  <2> QED
    BY <2>1, DoneCounted
<1>6. ASSUME NEW size \in Sizes, Clear(size)
      PROVE  size > 0 /\ AdjustCapacity(size) < Capacity
  <2> DEFINE c == AdjustCapacity(size)
  <2>1. c \in Nat \ {0}
    BY HashAssumption, AdjustCapacityTyped, CapacityBounds
  <2>3. size > 0 /\ c # Capacity /\ Reallocate(c, NoTags, entries, 0)
    BY <1>6 DEF Clear, Keep
  <2> HIDE DEF c
  <2>4. c - 1 \in DOMAIN entries
    BY <1>6, <2>3 DEF Reallocate, Clear
  <2>5. c < Capacity
    BY <1>1, <2>1, <2>3, <2>4
  <2> QED
    BY <2>3, <2>5 DEF c
<1>7. ASSUME OtherCalls PROVE \E size \in Sizes : Clear(size)
  <2>1. ASSUME NEW size \in Sizes, Resize(size) PROVE FALSE
    BY <1>1, <2>1, HashAssumption, GrowthAllocates DEF Resize
  <2> QED
    BY <1>2, <1>7, <2>1
    DEF OtherCalls, Find, Remove, Rehash, StartRehash, SetMaxLoadFactor
<1>8. status' # status
  OBVIOUS
<1> QED
  BY <1>4, <1>5, <1>6, <1>7, <1>8 DEF Next, vars

\* In the modes that may grow with entries in the table nothing aborts but a
\* Clear(size) with less than the table has: neither the assertion at the end of
\* RehashInternal nor the one of EntryArray fails through adds, removals,
\* growth, rehashes and changed load factors.  Memory is always had: the model
\* has no step for the assertion of line 468, that the tags were allocated.
THEOREM AbortsOnlyByShrinking ==
  ASSUME ResizeOnlyEmpty = FALSE
  PROVE  Spec => AbortOnlyByShrinking
<1>1. CountInv /\ [Next]_vars => [ShrinkingAborts]_vars
  BY AbortStep
<1> QED
  BY <1>1, CountInvariant, PTL DEF Spec, AbortOnlyByShrinking, ShrinkingAborts

-----------------------------------------------------------------------------
(* The contents of the table through a rehash and a Resize.                *)

\* the entries in the slots S
In(e, S) == {e[s] : s \in S}

\* The slots in use and the ones that wait are slots of the table.
LEMMA SlotsOfTable ==
  ASSUME TypeOK
  PROVE  /\ FullSlots \subseteq 0..(Capacity - 1)
         /\ PendingSlots \subseteq 0..(Capacity - 1)
         /\ status = "idle" => PendingSlots = {} /\ carried = None
<1>1. /\ Capacity \in Nat /\ prevSize \in Nat /\ prevSize <= Capacity
      /\ status = "idle" => prevSize = 0 /\ carried = None
  BY CapacityBounds DEF TypeOK
<1>2. 0..(prevSize - 1) \subseteq 0..(Capacity - 1)
  BY <1>1
<1>3. PendingSlots \subseteq 0..(prevSize - 1)
  BY SlotsUsed DEF Used
<1>4. prevSize = 0 => 0..(prevSize - 1) = {}
  OBVIOUS
<1> QED
  BY <1>1, <1>2, <1>3, <1>4 DEF FullSlots

\* A step that leaves table and loop alone.
LEMMA QuietKeeps ==
  ASSUME UNCHANGED <<tags, entries, Capacity, loop>>
  PROVE  Contents' = Contents
BY DEF loop, Contents, FullSlots, PendingSlots, Pending

\* A move loses neither the entry it places nor the one that was in its place.
LEMMA MoveKeeps ==
  ASSUME TypeOK, NEW s, NEW entry, NEW rest, Moves(s, entry, rest)
  PROVE  Contents' = Contents
<1>1. /\ entries \in [0..(Capacity - 1) -> Entry \cup {None}]
      /\ FullSlots \subseteq 0..(Capacity - 1)
      /\ PendingSlots \subseteq 0..(Capacity - 1)
  BY SlotsOfTable DEF TypeOK
<1>2. /\ s \in 0..(Capacity - 1) /\ s \notin FullSlots
      /\ entries' = [entries EXCEPT ![s] = entry]
      /\ FullSlots' = FullSlots \cup {s} /\ PendingSlots' = rest \ {s}
      /\ rest \subseteq PendingSlots
  BY DEF Moves
<1>3. entries'[s] = entry /\ \A x \in 0..(Capacity - 1) : x # s => entries'[x] = entries[x]
  BY <1>1, <1>2
<1>4. In(entries', FullSlots') = In(entries, FullSlots) \cup {entry}
  BY <1>1, <1>2, <1>3 DEF In
<1>5. In(entries', PendingSlots') = In(entries, rest \ {s})
  BY <1>1, <1>2, <1>3 DEF In
<1>6. In(entries, rest \ {s}) \cup (IF carried' = None THEN {} ELSE {carried'.entry})
        = In(entries, rest)
  <2>1. CASE s \in rest /\ carried' # None /\ carried'.entry = entries[s]
    BY <2>1 DEF In
  <2>2. CASE s \notin rest /\ carried' = None
    <3>1. rest \ {s} = rest
      BY <2>2
    <3> QED
      BY <2>2, <3>1
  <2> QED
    BY <2>1, <2>2 DEF Moves
<1>7. In(entries, PendingSlots) \cup (IF carried = None THEN {} ELSE {carried.entry})
        = In(entries, rest) \cup {entry}
  <2>1. CASE /\ carried = None /\ cursor \in PendingSlots
             /\ rest = PendingSlots \ {cursor} /\ entry = entries[cursor]
    BY <2>1 DEF In
  <2>2. CASE carried # None /\ rest = PendingSlots /\ entry = carried.entry
    BY <2>2
  <2> QED
    BY <2>1, <2>2 DEF Moves
<1>8. Contents = In(entries, FullSlots) \cup In(entries, PendingSlots)
                   \cup (IF carried = None THEN {} ELSE {carried.entry})
  BY DEF Contents, In
<1>9. Contents' = In(entries', FullSlots') \cup In(entries', PendingSlots')
                   \cup (IF carried' = None THEN {} ELSE {carried'.entry})
  BY DEF Contents, In
<1> QED
  BY <1>4, <1>5, <1>6, <1>7, <1>8, <1>9

\* No step of RehashInternal changes what the table holds.
LEMMA RehashKeeps ==
  ASSUME CountInv, TypeOK', RehashLoop
  PROVE  Contents' = Contents
<1>1. TypeOK /\ InOrder
  BY DEF CountInv
<1>2. CASE RehashTake \/ RehashDisplace
  <2>1. CASE Hang
    BY <2>1, QuietKeeps DEF Hang, table
  <2>2. CASE \E s, entry, rest : Moves(s, entry, rest)
    BY <1>1, <2>2, MoveKeeps
  <2> QED
    BY <1>1, <1>2, <2>1, <2>2, PlacementMoves
<1>3. CASE RehashSkip
  BY <1>3 DEF RehashSkip, table, Contents, FullSlots, PendingSlots, Pending
<1>4. CASE RehashDone
  <2>1. PendingSlots = {}
    BY <1>1, <1>4, DoneEmpty
  <2>2. PendingSlots' = {} /\ carried' = carried /\ UNCHANGED <<tags, entries, Capacity>>
    BY <1>4 DEF RehashDone, PendingSlots, NoTags, table
  <2> QED
    BY <2>1, <2>2 DEF Contents, FullSlots
<1> QED
  BY <1>2, <1>3, <1>4 DEF RehashLoop

\* The start of a rehash: every entry waits in the slot it was in.
LEMMA StartKeeps ==
  ASSUME TypeOK, status = "idle", NEW c \in Capacities, Capacity <= c,
         Capacity' = c, StartRehash(c, tags, Extended(entries, c), Count)
  PROVE  Contents' = Contents
<1>1. /\ Capacity \in Nat /\ c \in Nat
      /\ entries \in [0..(Capacity - 1) -> Entry \cup {None}]
      /\ tags \in [0..(Capacity + LANES - 1) -> Tags]
  BY CapacityBounds DEF TypeOK
<1>2. Leaves(FullSlots, Count) /\ status' = "rehash"
  BY <1>1, StartLeaves, SlotsUsed DEF StartRehash
<1>3. FullSlots' = {} /\ PendingSlots' = FullSlots /\ carried' = None
  BY <1>2 DEF Leaves
<1>4. \A s \in FullSlots : entries'[s] = entries[s]
  <2>1. entries' = Extended(entries, c)
    BY DEF StartRehash
  <2>2. \A s \in 0..(Capacity - 1) : Extended(entries, c)[s] = entries[s]
    BY <1>1 DEF Extended
  <2> QED
    BY <2>1, <2>2, SlotsOfTable
<1>5. PendingSlots = {} /\ carried = None
  BY SlotsOfTable
<1> QED
  BY <1>3, <1>4, <1>5 DEF Contents

\* Nor does Resize.
LEMMA ResizeKeeps ==
  ASSUME CountInv, TypeOK', NEW size \in Sizes, Resize(size)
  PROVE  Contents' = Contents
<1> DEFINE c == AdjustCapacity(size)
<1>1. /\ TypeOK /\ status = "idle" /\ c \in Capacities
      /\ Capacity \in Nat /\ c \in Nat
      /\ ResizeFrom(size, tags, entries, Count)
  BY HashAssumption, AdjustCapacityTyped, CapacityBounds
  DEF CountInv, TypeOK, Resize
<1>2. CASE Abort \/ \E limit : Keep(tags, entries, Count, limit)
  BY <1>2, QuietKeeps DEF Abort, Keep, table
<1>3. CASE Capacity < c /\ Reallocate(c, tags, entries, Count)
  <2> HIDE DEF c
  <2>1. CASE Abort
    BY <1>2, <2>1
  <2>2. CASE Capacity' = c /\ StartRehash(c, tags, Extended(entries, c), Count)
    BY <1>1, <1>3, <2>2, StartKeeps
  <2>3. CASE Count = 0 /\ Capacity' = c /\ tags' = FreshTags(c) /\ UNCHANGED <<status, loop>>
    <3>1. FullSlots = {}
      BY <1>1, <2>3, SlotsFinite, FS_EmptySet DEF CountInv, CountIsFull
    <3>2. FullSlots' = {}
      <4>1. FullSlots' = Used(FreshTags(c), c)
        BY <2>3 DEF FullSlots, Used
      <4> QED
        BY <1>1, <4>1, UsedFresh
    <3>3. PendingSlots = {} /\ PendingSlots' = PendingSlots /\ carried' = carried
      BY <1>1, <2>3, SlotsOfTable DEF loop, PendingSlots, Pending
    <3> QED
      BY <3>1, <3>2, <3>3 DEF Contents
  <2> QED
    BY <1>3, <2>1, <2>2, <2>3 DEF Reallocate
<1> QED
  BY <1>1, <1>2, <1>3 DEF ResizeFrom

\* What the table holds stays through a rehash and through Resize.
SameContents ==
  status = "rehash" \/ Rehash \/ (\E size \in Sizes : Resize(size))
    => Contents' = Contents

\* Every step does.
LEMMA ContentsStep ==
  ASSUME CountInv, [Next]_vars
  PROVE  SameContents
<1>1. TypeOK' /\ TypeOK
  BY TypeStep DEF CountInv
<1>2. CASE UNCHANGED vars
  BY <1>2, QuietKeeps DEF vars, table, SameContents
<1>3. ASSUME Rehash PROVE Contents' = Contents
  <2>1. CASE /\ StartRehash(Capacity, tags, entries, Count)
             /\ Capacity' = Capacity /\ status = "idle"
    <3>1. Extended(entries, Capacity) = entries
      BY <1>1 DEF Extended, TypeOK
    <3>2. Capacity \in Capacities /\ Capacity <= Capacity
      BY <1>1, CapacityBounds DEF TypeOK
    <3> QED
      BY <1>1, <2>1, <3>1, <3>2, StartKeeps
  <2>2. CASE UNCHANGED <<table, maxLoadFactor, status, loop>>
    BY <2>2, QuietKeeps DEF table
  <2> QED
    BY <1>3, <2>1, <2>2 DEF Rehash
<1>4. CASE Next /\ status = "rehash"
  <2>1. RehashLoop
    BY <1>4, CallIdle DEF Next
  <2> QED
    BY <1>1, <2>1, RehashKeeps DEF SameContents
<1>5. CASE Next /\ status # "rehash"
  BY <1>1, <1>3, <1>5, ResizeKeeps DEF SameContents
<1> QED
  BY <1>2, <1>4, <1>5

\* RehashInternal moves the entries in place, over one another, and yet what
\* the table holds, in its slots, in the old ones and in the hand of the loop,
\* is the same in every step of it, in Rehash and in every Resize.
THEOREM RehashLosesNothing == Spec => RehashKeepsContents
<1>1. CountInv /\ [Next]_vars => [SameContents]_vars
  BY ContentsStep
<1> QED
  BY <1>1, CountInvariant, PTL DEF Spec, RehashKeepsContents, SameContents
=============================================================================
