------------------------ MODULE SimdHashIndexProofs ------------------------
(***************************************************************************)
(* Theorems about SimdHashIndex, for every page size, number of lanes, set *)
(* of table sizes, hash function and number of failed allocations.         *)
(***************************************************************************)
EXTENDS SimdHashIndex, ProbeProofs, FiniteSetTheorems, Sequences

-----------------------------------------------------------------------------
(* The probes of SimdHashCore, as SimdHashIndex reads them.                *)

LEMMA TablePosition ==
  ASSUME NEW k, NEW i
  PROVE  Table!Position(k, i) = ProbeAt(Home[k][Capacity], i, Capacity)
BY DEF Table!Position, Table!ProbeAt, ProbeAt, Table!TotalJump, TotalJump,
       Table!StepsPerWrap, StepsPerWrap

LEMMA TableSteps ==
  ASSUME NEW k
  PROVE  /\ Table!EmptySteps(k) =
              {i \in ProbeSteps(Capacity) :
                 GetEmptyMask(tags, Table!Position(k, i)) # {}}
         /\ Table!VacantSteps(k) =
              {i \in ProbeSteps(Capacity) :
                 GetEmptyOrTomeStoneMask(tags, Table!Position(k, i)) # {}}
BY DEF Table!EmptySteps, Table!VacantSteps, Table!ProbeSteps, ProbeSteps,
       Table!StepsPerWrap, StepsPerWrap, Table!GetEmptyMask, GetEmptyMask,
       Table!Lanes, Lanes, Table!EMPTY, EMPTY, Table!TOMBSTONE, TOMBSTONE,
       Table!GetEmptyOrTomeStoneMask, GetEmptyOrTomeStoneMask

LEMMA TableFresh ==
  /\ \A c : Table!FreshTags(c) =
              [s \in 0..(c + LANES - 1) |-> IF s < c THEN EMPTY ELSE FORBIDDEN]
  /\ Table!NoTags = [s \in {} |-> EMPTY]
BY DEF Table!FreshTags, Table!NoTags, Table!EMPTY, EMPTY, Table!FORBIDDEN, FORBIDDEN

LEMMA TableCount ==
  ASSUME NEW mask
  PROVE  Table!TrailingZeroCount(mask) = TrailingZeroCount(mask)
BY DEF Table!TrailingZeroCount, TrailingZeroCount, Table!Min, Min

LEMMA TableSlots ==
  ASSUME NEW k
  PROVE  /\ Table!FindEmpty(k) =
              LET p == Table!Position(k, Min(Table!EmptySteps(k)))
              IN  p + TrailingZeroCount(GetEmptyMask(tags, p))
         /\ Table!VacantSlot(k) =
              LET p == Table!Position(k, Min(Table!VacantSteps(k)))
              IN  p + TrailingZeroCount(GetEmptyOrTomeStoneMask(tags, p))
BY TableCount DEF Table!FindEmpty, Table!VacantSlot, Table!Min, Min,
       Table!GetEmptyMask, GetEmptyMask, Table!Lanes, Lanes, Table!EMPTY, EMPTY,
       Table!TOMBSTONE, TOMBSTONE, Table!GetEmptyOrTomeStoneMask, GetEmptyOrTomeStoneMask

-----------------------------------------------------------------------------
(* The shape of the state.                                                 *)

\* the number of slots of the tags t
Slots(t) == IF DOMAIN t = {} THEN 0 ELSE Cardinality(DOMAIN t) - LANES

\* c slots and the sentinel
TagsOf(t, c) ==
  /\ DOMAIN t = 0..(c + LANES - 1)
  /\ \A s \in DOMAIN t : t[s] = FORBIDDEN <=> s >= c

GoodTags(t) ==
  /\ t \in [DOMAIN t -> Tags]
  /\ DOMAIN t = {} \/ \E c \in Capacities : TagsOf(t, c)

\* a position for each slot
GoodPositions(t, r) ==
  /\ r \in [DOMAIN r -> Nat]
  /\ \E m \in Capacities : DOMAIN r = 0..(m - 1) /\ Slots(t) <= m

\* whole pages, of which the first n places are in use
GoodKeys(e, n) ==
  /\ n \in Nat /\ e \in [DOMAIN e -> Keys \cup {None}]
  /\ \E p \in Nat : DOMAIN e = 0..(PAGE * p - 1) /\ n <= PAGE * p
  /\ \A i \in 0..(n - 1) : e[i] \in Keys

GoodTable(w) ==
  /\ GoodTags(w.tags) /\ GoodPositions(w.tags, w.realIndex)
  /\ GoodKeys(w.keys, w.count)

\* TypeOK, and what it needs to be inductive.
Shape ==
  /\ GoodTable(AsIs)
  /\ Capacity \in Capacities /\ faults \in Nat
  /\ status \in {"idle", "rehash", "hung", "aborted", "wild"}
  /\ cursor \in 0..Count /\ (status = "idle" => cursor = 0)
  /\ status = "rehash" => Usable

LEMMA PageTyped ==
  /\ PAGE \in Nat \ {0} /\ MaxFaults \in Nat
  /\ Capacities \subseteq Nat \ {0}
  /\ \A c \in Capacities : c % PAGE = 0
BY IndexAssumption, CapacityBounds

\* The tags of a table know its size.
LEMMA SlotsOfTags ==
  ASSUME NEW t, NEW c \in Capacities, DOMAIN t = 0..(c + LANES - 1)
  PROVE  Slots(t) = c
<1>1. c \in Nat \ {0} /\ LANES \in Nat \ {0}
  BY CapacityBounds, LanesTyped
<1>2. 0 \in DOMAIN t
  BY <1>1
<1>3. Cardinality(0..(c + LANES - 1)) = c + LANES
  <2>1. 0 \in Int /\ c + LANES - 1 \in Int /\ ~(0 > c + LANES - 1)
    BY <1>1
  <2>2. Cardinality(0..(c + LANES - 1)) = (c + LANES - 1) - 0 + 1
    BY <2>1, FS_Interval
  <2> QED
    BY <1>1, <2>2
<1> QED
  BY <1>1, <1>2, <1>3 DEF Slots

LEMMA SlotsNone ==
  ASSUME NEW t, DOMAIN t = {}
  PROVE  Slots(t) = 0
BY DEF Slots

\* A usable table has tags for its capacity.
LEMMA UsableTags ==
  ASSUME Shape, Usable
  PROVE  TagsOf(tags, Capacity) /\ tags \in [0..(Capacity + LANES - 1) -> Tags]
<1>1. GoodTags(tags) /\ Capacity \in Capacities /\ Capacity # 0
  BY CapacityBounds DEF Shape, GoodTable, AsIs
<1>2. Slots(tags) = Capacity
  BY DEF Usable, TagsSize, Slots
<1>3. PICK c \in Capacities : TagsOf(tags, c)
  BY <1>1, <1>2, SlotsNone DEF GoodTags
<1>4. c = Capacity
  BY <1>2, <1>3, SlotsOfTags DEF TagsOf
<1> QED
  BY <1>1, <1>3, <1>4 DEF TagsOf, GoodTags

\* A lane of a vector of the probe is a slot of the table or the sentinel.
LEMMA LaneInTable ==
  ASSUME Shape, Usable, NEW k \in Keys, NEW i \in ProbeSteps(Capacity), NEW l \in Lanes,
         NEW s, s = Table!Position(k, i) + l, tags[s] # FORBIDDEN
  PROVE  s \in 0..(Capacity - 1) /\ s \in DOMAIN tags
<1>1. /\ Capacity \in Capacities /\ Capacity \in Nat \ {0}
      /\ LANES \in Nat \ {0} /\ l \in Nat /\ l < LANES
  BY CapacityBounds, LanesTyped DEF Shape, Lanes
<1>2. Home[k][Capacity] \in Nat /\ i \in Nat
  BY <1>1, IndexAssumption, ProbeStepsTyped
<1>3. Table!Position(k, i) \in 0..(Capacity - 1)
  BY <1>1, <1>2, TablePosition, ProbeAtTyped
<1>4. s \in 0..(Capacity + LANES - 1)
  BY <1>1, <1>3
<1>5. DOMAIN tags = 0..(Capacity + LANES - 1)
      /\ \A x \in DOMAIN tags : tags[x] = FORBIDDEN <=> x >= Capacity
  BY UsableTags DEF TagsOf
<1>6. ~(s >= Capacity)
  BY <1>4, <1>5
<1> QED
  BY <1>1, <1>4, <1>5, <1>6

\* Every slot of a usable table has a position.
LEMMA SlotHasPosition ==
  ASSUME Shape, Usable, NEW s \in 0..(Capacity - 1)
  PROVE  s \in DOMAIN realIndex
<1>1. Slots(tags) = Capacity /\ Capacity \in Nat
  BY CapacityBounds DEF Shape, Usable, TagsSize, Slots
<1>2. PICK m \in Capacities : DOMAIN realIndex = 0..(m - 1) /\ Slots(tags) <= m
  BY DEF Shape, GoodTable, GoodPositions, AsIs
<1>3. m \in Nat
  BY CapacityBounds
<1> QED
  BY <1>1, <1>2, <1>3

\* The slot Add takes is a slot of the table and not in use.
LEMMA VacantInTable ==
  ASSUME Shape, Usable, NEW k \in Keys, Table!VacantSteps(k) # {},
         NEW s, s = Table!VacantSlot(k)
  PROVE  /\ s \in DOMAIN tags /\ s \in DOMAIN realIndex
         /\ ~IsFull(tags[s]) /\ tags[s] # FORBIDDEN
<1> DEFINE i == Min(Table!VacantSteps(k))
           p == Table!Position(k, i)
           mask == GetEmptyOrTomeStoneMask(tags, p)
           l == TrailingZeroCount(mask)
<1>1. Table!VacantSteps(k) \in SUBSET Nat
  BY TableSteps, ProbeStepsTyped
<1>2. i \in ProbeSteps(Capacity) /\ mask # {}
  BY <1>1, MinNat, TableSteps
<1>3. s = p + l
  BY TableSlots
<1> HIDE DEF i
<1>4. mask \in SUBSET Lanes
  BY DEF GetEmptyOrTomeStoneMask
<1>5. l \in mask
  BY <1>2, <1>4, TrailingZeroCountTyped
<1>6. l \in Lanes /\ tags[s] \in {EMPTY, TOMBSTONE}
  BY <1>3, <1>5 DEF GetEmptyOrTomeStoneMask
<1>7. tags[s] # FORBIDDEN /\ ~IsFull(tags[s])
  BY <1>6, TagKinds DEF IsFull
<1> QED
  BY <1>2, <1>3, <1>6, <1>7, LaneInTable, SlotHasPosition

\* So is the one RehashInternal takes.
LEMMA EmptyInTable ==
  ASSUME Shape, Usable, NEW k \in Keys, Table!EmptySteps(k) # {},
         NEW s, s = Table!FindEmpty(k)
  PROVE  /\ s \in DOMAIN tags /\ s \in DOMAIN realIndex
         /\ ~IsFull(tags[s]) /\ tags[s] # FORBIDDEN
<1> DEFINE i == Min(Table!EmptySteps(k))
           p == Table!Position(k, i)
           mask == GetEmptyMask(tags, p)
           l == TrailingZeroCount(mask)
<1>1. Table!EmptySteps(k) \in SUBSET Nat
  BY TableSteps, ProbeStepsTyped
<1>2. i \in ProbeSteps(Capacity) /\ mask # {}
  BY <1>1, MinNat, TableSteps
<1>3. s = p + l
  BY TableSlots
<1> HIDE DEF i
<1>4. mask \in SUBSET Lanes
  BY DEF GetEmptyMask
<1>5. l \in mask
  BY <1>2, <1>4, TrailingZeroCountTyped
<1>6. l \in Lanes /\ tags[s] = EMPTY
  BY <1>3, <1>5 DEF GetEmptyMask
<1>7. tags[s] # FORBIDDEN /\ ~IsFull(tags[s])
  BY <1>6, TagKinds DEF IsFull
<1> QED
  BY <1>2, <1>3, <1>6, <1>7, LaneInTable, SlotHasPosition

-----------------------------------------------------------------------------
(* Whole pages.                                                            *)

\* A table is made of whole pages.
LEMMA PagesOfTable ==
  ASSUME NEW c \in Capacities, NEW r, r \in [DOMAIN r -> Nat]
  PROVE  Pages(r, c, 0) \in [0..(c - 1) -> Nat]
<1> DEFINE q == c \div PAGE
<1>1. PAGE \in Nat \ {0} /\ c \in Nat \ {0} /\ c % PAGE = 0
  BY PageTyped
<1>2. c = PAGE * q /\ q \in Nat
  BY <1>1, Divided
<1> HIDE DEF q
<1>3. (PAGE * q + (PAGE - 1)) \div PAGE = q /\ PAGE - 1 \in 0..(PAGE - 1)
  BY <1>1, <1>2, Parts
<1>4. c + PAGE - 1 = PAGE * q + (PAGE - 1)
  BY <1>1, <1>2
<1>5. ((c + PAGE - 1) \div PAGE) * PAGE = c
  BY <1>1, <1>2, <1>3, <1>4
<1>6. DOMAIN Pages(r, c, 0) = 0..(c - 1)
      /\ \A x \in 0..(c - 1) : Pages(r, c, 0)[x] \in Nat
  BY <1>5 DEF Pages
<1> QED
  BY <1>6 DEF Pages

\* The size of the array of keys.
LEMMA KeysSize ==
  ASSUME NEW p \in Nat
  PROVE  PAGE * p \in Nat /\ Cardinality(0..(PAGE * p - 1)) = PAGE * p
<1>1. PAGE * p \in Nat
  BY PageTyped
<1>2. CASE PAGE * p = 0
  <2>1. 0..(PAGE * p - 1) = {}
    BY <1>2
  <2> QED
    BY <1>1, <1>2, <2>1, FS_EmptySet
<1>3. CASE PAGE * p # 0
  <2>1. 0 \in Int /\ PAGE * p - 1 \in Int /\ ~(0 > PAGE * p - 1)
    BY <1>1, <1>3
  <2>2. Cardinality(0..(PAGE * p - 1)) = (PAGE * p - 1) - 0 + 1
    BY <2>1, FS_Interval
  <2> QED
    BY <1>1, <2>2
<1> QED
  BY <1>2, <1>3

\* The keys with room for one more, as Add makes it, and with k in that room.
Roomy == IF NewPage THEN Pages(keys, Count + 1, None) ELSE keys
WithKey(k) == [Roomy EXCEPT ![Count] = k]

LEMMA RoomForKey ==
  ASSUME GoodKeys(keys, Count), NEW k \in Keys
  PROVE  /\ GoodKeys(WithKey(k), Count + 1) /\ WithKey(k)[Count] = k
         /\ \A i \in 0..(Count - 1) : WithKey(k)[i] = keys[i]
<1> DEFINE grown == Roomy
           e == [grown EXCEPT ![Count] = k]
<1> HIDE DEF grown
<1>1. PICK p \in Nat : DOMAIN keys = 0..(PAGE * p - 1) /\ Count <= PAGE * p
  BY DEF GoodKeys
<1>2. /\ PAGE * p \in Nat /\ Cardinality(DOMAIN keys) = PAGE * p
      /\ PAGE \in Nat \ {0} /\ Count \in Nat
  BY <1>1, KeysSize, PageTyped DEF GoodKeys
<1>3. /\ keys \in [DOMAIN keys -> Keys \cup {None}]
      /\ \A i \in 0..(Count - 1) : keys[i] \in Keys
  BY DEF GoodKeys
<1>4. /\ grown \in [DOMAIN grown -> Keys \cup {None}]
      /\ \E q \in Nat : DOMAIN grown = 0..(PAGE * q - 1) /\ Count + 1 <= PAGE * q
      /\ \A i \in 0..(Count - 1) : grown[i] = keys[i]
  <2>1. CASE ~NewPage
    <3>1. grown = keys /\ Count < PAGE * p
      BY <1>1, <1>2, <2>1 DEF NewPage, Roomy, grown
    <3>2. Count + 1 <= PAGE * p
      BY <1>2, <3>1
    <3> QED
      BY <1>1, <1>3, <3>1, <3>2
  <2>2. CASE NewPage
    <3>1. grown = Pages(keys, Count + 1, None) /\ Count = PAGE * p
      BY <1>2, <2>2 DEF NewPage, Roomy, grown
    <3>2. PAGE * (p + 1) = PAGE * p + PAGE /\ PAGE * (p + 1) \in Nat
      BY <1>2
    <3>3. (PAGE * (p + 1) + 0) \div PAGE = p + 1
      BY <1>2, Parts
    <3>4. Count + 1 + PAGE - 1 = PAGE * (p + 1) + 0
      BY <1>2, <3>1, <3>2
    <3>5. ((Count + 1 + PAGE - 1) \div PAGE) * PAGE = PAGE * (p + 1)
      <4>1. (Count + 1 + PAGE - 1) \div PAGE = p + 1
        BY <3>3, <3>4
      <4>2. (p + 1) * PAGE = PAGE * (p + 1)
        BY <1>2
      <4> QED
        BY <4>1, <4>2
    <3>6. grown = [i \in 0..(PAGE * (p + 1) - 1) |->
                     IF i \in DOMAIN keys THEN keys[i] ELSE None]
      BY <3>1, <3>5 DEF Pages
    <3>7. Count + 1 <= PAGE * (p + 1)
      BY <1>2, <3>1, <3>2
    <3>8. \A i \in 0..(Count - 1) : i \in DOMAIN keys /\ i \in 0..(PAGE * (p + 1) - 1)
      BY <1>1, <1>2, <3>1, <3>2
    <3>9. /\ grown \in [DOMAIN grown -> Keys \cup {None}]
          /\ DOMAIN grown = 0..(PAGE * (p + 1) - 1)
      BY <1>3, <3>6
    <3>10. \A i \in 0..(Count - 1) : grown[i] = keys[i]
      BY <3>6, <3>8
    <3> QED
      BY <3>7, <3>9, <3>10
  <2> QED
    BY <2>1, <2>2
<1>5. PICK q \in Nat : DOMAIN grown = 0..(PAGE * q - 1) /\ Count + 1 <= PAGE * q
  BY <1>4
<1>6. Count \in DOMAIN grown
  BY <1>2, <1>5
<1>7. DOMAIN e = DOMAIN grown /\ e \in [DOMAIN e -> Keys \cup {None}]
  BY <1>4
<1>8. \A i \in 0..((Count + 1) - 1) : e[i] \in Keys
  <2> SUFFICES ASSUME NEW i \in 0..((Count + 1) - 1) PROVE e[i] \in Keys
    OBVIOUS
  <2>1. i = Count \/ (i \in 0..(Count - 1) /\ i # Count)
    BY <1>2
  <2> QED
    BY <1>2, <1>3, <1>4, <1>6, <2>1
<1>9. Count + 1 \in Nat
  BY <1>2
<1>10. e[Count] = k /\ \A i \in 0..(Count - 1) : e[i] = keys[i]
  BY <1>2, <1>4, <1>6
<1> HIDE DEF e
<1>11. GoodKeys(e, Count + 1)
  BY <1>5, <1>7, <1>8, <1>9 DEF GoodKeys
<1> QED
  BY <1>10, <1>11 DEF e, grown, WithKey

-----------------------------------------------------------------------------
(* Where the slots in use lead.                                            *)

Used(t) == {s \in DOMAIN t : IsFull(t[s])}

\* to a key, or to the place of the next one
Leads(w, f) ==
  \A s \in Used(w.tags) :
    w.realIndex[s] < w.count \/ (w.realIndex[s] = w.count /\ f > 0)

\* to the first n keys, one slot to each
Counted(w, n) ==
  /\ Cardinality(Used(w.tags)) = n
  /\ {w.realIndex[s] : s \in Used(w.tags)} = 0..(n - 1)

Links ==
  /\ Leads(AsIs, faults)
  /\ faults = 0 => /\ Usable
                   /\ status = "idle" => Counted(AsIs, Count)
                   /\ status = "rehash" => Counted(AsIs, cursor)

IndexInv == Shape /\ Links /\ WildOnlyAfterFault

LEMMA UsedFinite ==
  ASSUME NEW t, GoodTags(t)
  PROVE  IsFiniteSet(Used(t)) /\ Cardinality(Used(t)) \in Nat
<1>1. IsFiniteSet(DOMAIN t)
  <2>1. CASE DOMAIN t = {}
    BY <2>1, FS_EmptySet
  <2>2. ASSUME NEW c \in Capacities, TagsOf(t, c) PROVE IsFiniteSet(DOMAIN t)
    <3>1. 0 \in Int /\ c + LANES - 1 \in Int
      BY CapacityBounds, LanesTyped
    <3> QED
      BY <2>2, <3>1, FS_Interval DEF TagsOf
  <2> QED
    BY <2>1, <2>2 DEF GoodTags
<1>2. Used(t) \subseteq DOMAIN t
  BY DEF Used
<1> QED
  BY <1>1, <1>2, FS_Subset, FS_CardinalityType

\* New tags, and no tags, are good ones without a slot in use.
LEMMA FreshGood ==
  ASSUME NEW c \in Capacities
  PROVE  /\ GoodTags(Table!FreshTags(c)) /\ DOMAIN Table!FreshTags(c) = 0..(c + LANES - 1)
         /\ Slots(Table!FreshTags(c)) = c /\ Used(Table!FreshTags(c)) = {}
<1> DEFINE t == Table!FreshTags(c)
<1>1. t = [s \in 0..(c + LANES - 1) |-> IF s < c THEN EMPTY ELSE FORBIDDEN]
  BY TableFresh
<1>2. c \in Nat \ {0} /\ LANES \in Nat \ {0}
  BY CapacityBounds, LanesTyped
<1> HIDE DEF t
<1>3. DOMAIN t = 0..(c + LANES - 1) /\ t \in [DOMAIN t -> Tags]
  BY <1>1, TagKinds
<1>4. TagsOf(t, c)
  BY <1>1, <1>2, TagKinds DEF TagsOf
<1>5. Used(t) = {}
  BY <1>1, TagKinds DEF Used, IsFull
<1>6. Slots(t) = c
  BY <1>3, SlotsOfTags
<1> QED
  BY <1>3, <1>4, <1>5, <1>6 DEF GoodTags, t

LEMMA NoneGood ==
  /\ GoodTags(Table!NoTags) /\ DOMAIN Table!NoTags = {}
  /\ Slots(Table!NoTags) = 0 /\ Used(Table!NoTags) = {}
<1>1. DOMAIN Table!NoTags = {} /\ Table!NoTags \in [{} -> Tags]
  BY TableFresh
<1> QED
  BY <1>1, SlotsNone DEF GoodTags, Used

\* A table without a slot in use counts nothing.
LEMMA UnusedCounted ==
  ASSUME NEW w, Used(w.tags) = {}
  PROVE  Counted(w, 0) /\ \A f : Leads(w, f)
<1>1. Cardinality(Used(w.tags)) = 0
  BY FS_EmptySet
<1>2. {w.realIndex[s] : s \in Used(w.tags)} = 0..(0 - 1)
  OBVIOUS
<1> QED
  BY <1>1, <1>2 DEF Counted, Leads

\* Storing the position n, which no slot has yet, under a hash tag.
LEMMA StoreCounted ==
  ASSUME NEW w, NEW x, GoodTags(w.tags), NEW n \in Nat, Counted(w, n),
         NEW s \in DOMAIN w.tags, ~IsFull(w.tags[s]), s \in DOMAIN w.realIndex,
         NEW tag \in HashTags,
         x.tags = [w.tags EXCEPT ![s] = tag],
         x.realIndex = [w.realIndex EXCEPT ![s] = n]
  PROVE  Counted(x, n + 1)
<1>1. Used(x.tags) = Used(w.tags) \cup {s} /\ s \notin Used(w.tags)
  BY DEF Used, IsFull
<1>2. Cardinality(Used(x.tags)) = n + 1
  BY <1>1, UsedFinite, FS_AddElement DEF Counted
<1>3. /\ \A z \in Used(w.tags) : x.realIndex[z] = w.realIndex[z]
      /\ x.realIndex[s] = n
  BY <1>1
<1>4. {x.realIndex[z] : z \in Used(x.tags)} = {w.realIndex[z] : z \in Used(w.tags)} \cup {n}
  BY <1>1, <1>3
<1>5. 0..((n + 1) - 1) = 0..(n - 1) \cup {n}
  OBVIOUS
<1> QED
  BY <1>2, <1>4, <1>5 DEF Counted

\* What storing leaves of the shape.
LEMMA StoreGood ==
  ASSUME NEW t, NEW r, GoodTags(t), GoodPositions(t, r), NEW s \in DOMAIN t,
         ~IsFull(t[s]), t[s] # FORBIDDEN, NEW tag \in HashTags, NEW n \in Nat
  PROVE  /\ GoodTags([t EXCEPT ![s] = tag]) /\ Slots([t EXCEPT ![s] = tag]) = Slots(t)
         /\ GoodPositions([t EXCEPT ![s] = tag], [r EXCEPT ![s] = n])
<1> DEFINE u == [t EXCEPT ![s] = tag]
<1>1. DOMAIN u = DOMAIN t /\ u[s] = tag /\ \A z \in DOMAIN t : z # s => u[z] = t[z]
  OBVIOUS
<1>2. u \in [DOMAIN u -> Tags]
  BY <1>1, TagKinds DEF GoodTags
<1>3. tag # FORBIDDEN
  BY TagKinds
<1> HIDE DEF u
<1>4. ASSUME NEW c, TagsOf(t, c) PROVE TagsOf(u, c)
  BY <1>1, <1>3, <1>4 DEF TagsOf
<1>5. Slots(u) = Slots(t)
  BY <1>1 DEF Slots
<1>6. GoodTags(u)
  BY <1>1, <1>2, <1>4 DEF GoodTags
<1>7. GoodPositions(u, [r EXCEPT ![s] = n])
  BY <1>5 DEF GoodPositions
<1> QED
  BY <1>5, <1>6, <1>7 DEF u

-----------------------------------------------------------------------------
(* How a call ends.                                                        *)

\* A call that returns with the table w.
LEMMA StoredInv ==
  ASSUME NEW w, GoodTable(w), Stores(w), Leads(w, faults'), Capacity' \in Capacities,
         faults' \in Nat, cursor' = 0, status' = "idle",
         faults' = 0 => Slots(w.tags) = Capacity' /\ Counted(w, w.count)
  PROVE  IndexInv'
<1>1. tags' = w.tags /\ realIndex' = w.realIndex /\ keys' = w.keys /\ Count' = w.count
  BY DEF Stores
<1>2. GoodTable(AsIs)' /\ Count' \in Nat
  BY <1>1 DEF GoodTable, AsIs, GoodKeys
<1>3. Shape'
  BY <1>2 DEF Shape
<1>4. Leads(AsIs, faults)' /\ (faults' = 0 => Counted(AsIs, Count)')
  BY <1>1 DEF Leads, Counted, AsIs
<1>5. faults' = 0 => Usable'
  BY <1>1 DEF Usable, TagsSize, Slots
<1> QED
  BY <1>3, <1>4, <1>5 DEF IndexInv, Links, WildOnlyAfterFault

\* A call that hands the table w, with no slot in use, to RehashInternal.
LEMMA StartedInv ==
  ASSUME NEW w, GoodTable(w), Stores(w), Used(w.tags) = {}, Capacity' \in Capacities,
         faults' \in Nat, cursor' = 0, status' = "rehash", Slots(w.tags) = Capacity'
  PROVE  IndexInv'
<1>1. tags' = w.tags /\ realIndex' = w.realIndex /\ keys' = w.keys /\ Count' = w.count
  BY DEF Stores
<1>2. GoodTable(AsIs)' /\ Count' \in Nat
  BY <1>1 DEF GoodTable, AsIs, GoodKeys
<1>3. Usable'
  BY <1>1 DEF Usable, TagsSize, Slots
<1>4. Shape'
  BY <1>2, <1>3 DEF Shape
<1>5. Leads(w, faults') /\ Counted(w, 0)
  BY UnusedCounted
<1>6. Leads(AsIs, faults)' /\ Counted(AsIs, cursor)'
  BY <1>1, <1>5 DEF Leads, Counted, AsIs
<1> QED
  BY <1>3, <1>4, <1>6 DEF IndexInv, Links, WildOnlyAfterFault

\* A call that does not return.
LEMMA EndsInv ==
  ASSUME IndexInv, NEW how \in {"hung", "aborted", "wild"}, Ends(how),
         how = "wild" => faults > 0
  PROVE  IndexInv'
<1>1. /\ status' = how /\ how \notin {"idle", "rehash"}
      /\ UNCHANGED <<tags, realIndex, keys, Capacity, Count, cursor, faults>>
  BY DEF Ends, slots, sizes
<1>2. Shape' /\ Links'
  BY <1>1 DEF IndexInv, Shape, Links, AsIs, Usable, TagsSize
<1> QED
  BY <1>1, <1>2 DEF IndexInv, WildOnlyAfterFault

\* A step that leaves the table as it was.
LEMMA ReadsInv ==
  ASSUME IndexInv, UNCHANGED <<slots, keys, Capacity, Count, status, cursor, faults>>
  PROVE  IndexInv'
<1>1. UNCHANGED <<tags, realIndex, keys, Capacity, Count, status, cursor, faults>>
  BY DEF slots
<1> QED
  BY <1>1 DEF IndexInv, Shape, Links, WildOnlyAfterFault, AsIs, Usable, TagsSize

-----------------------------------------------------------------------------
(* Resize.                                                                 *)

\* The table a caller of Resize may leave.
Handed(w) ==
  /\ DOMAIN w = DOMAIN AsIs
  /\ GoodTable(w) /\ Leads(w, faults)
  /\ faults = 0 => Counted(w, w.count)

LEMMA ResizeToInv ==
  ASSUME IndexInv, status = "idle", NEW c \in Capacities, NEW w, Handed(w), NEW a,
         ResizeTo(c, w, a)
  PROVE  IndexInv'
<1>1. /\ Shape /\ WildOnlyAfterFault /\ faults \in Nat /\ cursor = 0
      /\ GoodTable(w) /\ Leads(w, faults) /\ (faults = 0 => Counted(w, w.count))
  BY DEF IndexInv, Shape, Handed
<1>2. CASE Ends("aborted")
  BY <1>2, EndsInv
<1>3. CASE /\ SameSize(c, w.tags) /\ Stores(w) /\ Capacity' = c
           /\ UNCHANGED <<status, cursor, faults>>
  <2>1. Slots(w.tags) = c
    BY <1>3, SlotsOfTags DEF SameSize
  <2> QED
    BY <1>1, <1>3, <2>1, StoredInv
<1>4. CASE /\ Throws /\ Stores(w) /\ Capacity' = c /\ UNCHANGED <<status, cursor>>
  <2>1. faults' = faults + 1 /\ faults' \in Nat /\ faults' # 0 /\ faults' > 0
    BY <1>1, <1>4 DEF Throws
  <2>2. Leads(w, faults')
    BY <1>1, <2>1 DEF Leads
  <2> QED
    BY <1>1, <1>4, <2>1, <2>2, StoredInv
<1>5. CASE /\ Stores([w EXCEPT !.tags = Table!FreshTags(c),
                               !.realIndex = Pages(w.realIndex, c, 0)])
           /\ Capacity' = c /\ UNCHANGED faults
           /\ IF w.count # 0 THEN StartReinsert ELSE UNCHANGED <<status, cursor>>
  <2> DEFINE x == [w EXCEPT !.tags = Table!FreshTags(c),
                            !.realIndex = Pages(w.realIndex, c, 0)]
  <2>1. /\ x.tags = Table!FreshTags(c) /\ x.realIndex = Pages(w.realIndex, c, 0)
        /\ x.keys = w.keys /\ x.count = w.count
    BY DEF Handed, AsIs
  <2>2. Stores(x)
    BY <1>5
  <2> HIDE DEF x
  <2>3. Used(x.tags) = {} /\ Slots(x.tags) = c /\ GoodTags(x.tags)
    BY <2>1, FreshGood
  <2>4. GoodPositions(x.tags, x.realIndex)
    <3>1. x.realIndex \in [0..(c - 1) -> Nat]
      BY <1>1, <2>1, PagesOfTable DEF GoodTable, GoodPositions
    <3>2. c <= c
      BY CapacityBounds
    <3> QED
      BY <2>3, <3>1, <3>2 DEF GoodPositions
  <2>5. GoodTable(x)
    BY <1>1, <2>1, <2>3, <2>4 DEF GoodTable
  <2>6. CASE w.count # 0
    BY <1>1, <1>5, <2>2, <2>3, <2>5, <2>6, StartedInv DEF StartReinsert
  <2>7. CASE w.count = 0
    <3>1. Counted(x, 0) /\ Leads(x, faults')
      BY <2>3, UnusedCounted
    <3>2. Counted(x, x.count)
      BY <2>1, <2>7, <3>1
    <3> QED
      BY <1>1, <1>5, <2>2, <2>3, <2>5, <2>7, <3>1, <3>2, StoredInv
  <2> QED
    BY <2>6, <2>7
<1> QED
  BY <1>2, <1>3, <1>4, <1>5 DEF ResizeTo, Sized

LEMMA ResizeFromInv ==
  ASSUME IndexInv, status = "idle", NEW size \in Nat, NEW w, Handed(w),
         faults = 0 => Slots(w.tags) = Capacity, NEW a, ResizeFrom(size, w, a)
  PROVE  IndexInv'
<1>1. CASE Stores(w) /\ UNCHANGED <<sizes, status, cursor, faults>>
  <2>1. WildOnlyAfterFault /\ Capacity \in Capacities /\ faults \in Nat /\ cursor = 0
    BY DEF IndexInv, Shape
  <2> QED
    BY <1>1, <2>1, StoredInv DEF Handed, sizes
<1>2. CASE ResizeTo(AdjustCapacity(size), w, a)
  BY <1>2, AdjustCapacityTyped, ResizeToInv
<1> QED
  BY <1>1, <1>2 DEF ResizeFrom

-----------------------------------------------------------------------------
(* The calls.                                                              *)

\* The table as it is, between two calls.
LEMMA AsIsHanded ==
  ASSUME IndexInv, status = "idle"
  PROVE  Handed(AsIs) /\ (faults = 0 => Slots(tags) = Capacity)
<1>1. AsIs.count = Count /\ AsIs.tags = tags
  BY DEF AsIs
<1> QED
  BY <1>1 DEF Handed, IndexInv, Shape, Links, Usable, TagsSize, Slots

LEMMA ResizeInv ==
  ASSUME IndexInv, NEW size \in Sizes, Resize(size)
  PROVE  IndexInv'
<1>1. size \in Nat /\ status = "idle" /\ AsIs.tags = tags
  BY IndexAssumption DEF Resize, AsIs
<1> QED
  BY <1>1, AsIsHanded, ResizeFromInv DEF Resize

\* Clear leaves no slot in use.
LEMMA ClearInv ==
  ASSUME IndexInv, NEW size \in Sizes, Clear(size)
  PROVE  IndexInv'
<1> DEFINE c == AdjustCapacity(size)
<1>1. /\ status = "idle" /\ c \in Capacities /\ Shape /\ faults \in Nat /\ cursor = 0
      /\ Capacity \in Capacities /\ GoodTags(tags) /\ GoodPositions(tags, realIndex)
      /\ GoodKeys(keys, Count)
  BY IndexAssumption, AdjustCapacityTyped DEF Clear, IndexInv, Shape, GoodTable, AsIs
<1>2. GoodKeys(keys, 0)
  <2>1. PICK p \in Nat : DOMAIN keys = 0..(PAGE * p - 1)
    BY <1>1 DEF GoodKeys
  <2>2. 0 <= PAGE * p
    BY KeysSize
  <2> QED
    BY <1>1, <2>1, <2>2 DEF GoodKeys
<1> HIDE DEF c
<1>3. CASE \E a : ResizeTo(c, Released, a)
  <2> DEFINE w == Released
  <2>1. DOMAIN w = DOMAIN AsIs
    BY DEF Released
  <2>2. w.tags = Table!NoTags /\ w.realIndex = realIndex /\ w.keys = keys /\ w.count = 0
    BY DEF Released, AsIs
  <2> HIDE DEF w
  <2>3. GoodPositions(w.tags, w.realIndex)
    <3>1. PICK m \in Capacities : DOMAIN realIndex = 0..(m - 1)
      BY <1>1 DEF GoodPositions
    <3>2. Slots(w.tags) <= m
      BY <2>2, NoneGood, CapacityBounds
    <3> QED
      BY <1>1, <2>2, <3>1, <3>2 DEF GoodPositions
  <2>4. Used(w.tags) = {} /\ GoodTags(w.tags)
    BY <2>2, NoneGood
  <2>5. Handed(w)
    BY <1>2, <2>1, <2>2, <2>3, <2>4, UnusedCounted DEF Handed, GoodTable
  <2> QED
    BY <1>1, <1>3, <2>5, ResizeToInv DEF w
<1>4. CASE TagsSize = 0 /\ Ends("wild")
  <2>1. ~Usable
    BY <1>1, <1>4, CapacityBounds DEF Usable
  <2>2. faults > 0
    BY <1>1, <2>1 DEF IndexInv, Links
  <2> QED
    BY <1>4, <2>2, EndsInv
<1>5. CASE TagsSize # 0 /\ Stores(Cleared) /\ UNCHANGED <<sizes, status, cursor, faults>>
  <2> DEFINE w == Cleared
  <2>1. /\ w.tags = Table!FreshTags(TagsSize) /\ w.realIndex = realIndex
        /\ w.keys = keys /\ w.count = 0
    BY DEF Cleared, AsIs
  <2> HIDE DEF w
  <2>2. TagsSize \in Capacities /\ TagsSize = Slots(tags)
    <3>1. TagsSize = Slots(tags)
      BY DEF TagsSize, Slots
    <3>2. PICK d \in Capacities : TagsOf(tags, d)
      BY <1>1, <1>5, <3>1, SlotsNone DEF GoodTags
    <3> QED
      BY <3>1, <3>2, SlotsOfTags DEF TagsOf
  <2>3. Used(w.tags) = {} /\ GoodTags(w.tags) /\ Slots(w.tags) = Slots(tags)
    BY <2>1, <2>2, FreshGood
  <2>4. GoodTable(w)
    BY <1>1, <1>2, <2>1, <2>3 DEF GoodTable, GoodPositions
  <2>5. Counted(w, w.count) /\ Leads(w, faults')
    BY <2>1, <2>3, UnusedCounted
  <2>6. faults = 0 => Slots(w.tags) = Capacity
    BY <1>1, <2>3, AsIsHanded
  <2> QED
    BY <1>1, <1>5, <2>4, <2>5, <2>6, StoredInv DEF sizes, w
<1> QED
  BY <1>3, <1>4, <1>5 DEF Clear, c

\* A comparison outside the pages takes a slot without a key.
LEMMA WildFault ==
  ASSUME IndexInv, Usable, NEW k \in Keys, NEW stops, Wild(k, stops)
  PROVE  faults > 0
<1>1. PICK i \in ProbeSteps(Capacity) :
        \E l \in GetCmpMask(tags, Table!Position(k, i), TagOf[k]) :
          realIndex[Table!Position(k, i) + l] \notin DOMAIN keys
  BY DEF Wild, VisitedLanes
<1>2. PICK l \in GetCmpMask(tags, Table!Position(k, i), TagOf[k]) :
        realIndex[Table!Position(k, i) + l] \notin DOMAIN keys
  BY <1>1
<1> DEFINE s == Table!Position(k, i) + l
<1>3. l \in Lanes /\ tags[s] = TagOf[k] /\ IsFull(tags[s]) /\ tags[s] # FORBIDDEN
  BY <1>2, IndexAssumption, TagKinds DEF GetCmpMask, IsFull
<1>4. Shape
  BY DEF IndexInv
<1>5. s \in 0..(Capacity - 1) /\ s \in DOMAIN tags
  BY <1>3, <1>4, LaneInTable
<1> HIDE DEF s
<1>6. s \in Used(tags) /\ s \in DOMAIN realIndex
  BY <1>3, <1>4, <1>5, SlotHasPosition DEF Used
<1>7. realIndex[s] \in Nat /\ (realIndex[s] < Count \/ faults > 0)
  BY <1>6 DEF IndexInv, Links, Leads, AsIs, Shape, GoodTable, GoodPositions
<1>8. ASSUME realIndex[s] < Count PROVE FALSE
  <2>1. PICK p \in Nat : DOMAIN keys = 0..(PAGE * p - 1) /\ Count <= PAGE * p
    BY <1>4 DEF Shape, GoodTable, GoodKeys, AsIs
  <2>2. PAGE * p \in Nat /\ Count \in Nat
    BY <1>4, KeysSize DEF Shape, GoodTable, GoodKeys, AsIs
  <2>3. realIndex[s] \in DOMAIN keys
    BY <1>7, <1>8, <2>1, <2>2
  <2> QED
    BY <1>2, <2>3 DEF s
<1> QED
  BY <1>7, <1>8

\* Add stores the next position, with its key or, if the page cannot be had,
\* without.
LEMMA InsertInv ==
  ASSUME IndexInv, Usable, status = "idle", NEW op, NEW k \in Keys,
         Table!VacantSteps(k) # {}, Insert(op, k)
  PROVE  IndexInv'
<1> DEFINE s == Table!VacantSlot(k)
           w == [AsIs EXCEPT !.tags[s] = TagOf[k], !.realIndex[s] = Count]
           grown == IF NewPage THEN Pages(keys, Count + 1, None) ELSE keys
           full == [w EXCEPT !.keys = [grown EXCEPT ![Count] = k], !.count = Count + 1]
<1>1. /\ Shape /\ Capacity \in Capacities /\ Capacity \in Nat /\ faults \in Nat /\ cursor = 0
      /\ GoodTags(tags) /\ GoodPositions(tags, realIndex)
      /\ GoodKeys(keys, Count) /\ Count \in Nat /\ Slots(tags) = Capacity
  BY CapacityBounds
  DEF IndexInv, Shape, GoodTable, GoodKeys, AsIs, Usable, TagsSize, Slots
<1>2. /\ s \in DOMAIN tags /\ s \in DOMAIN realIndex
      /\ ~IsFull(tags[s]) /\ tags[s] # FORBIDDEN
  BY <1>1, VacantInTable
<1>3. TagOf[k] \in HashTags
  BY IndexAssumption
<1>4. /\ DOMAIN w = DOMAIN AsIs /\ w.tags = [tags EXCEPT ![s] = TagOf[k]]
      /\ w.realIndex = [realIndex EXCEPT ![s] = Count]
      /\ w.keys = keys /\ w.count = Count
  BY DEF AsIs
<1>5. /\ DOMAIN full = DOMAIN w /\ full.tags = w.tags /\ full.realIndex = w.realIndex
      /\ full.keys = [grown EXCEPT ![Count] = k] /\ full.count = Count + 1
  BY DEF AsIs
<1>6. \/ Throws /\ Stores(w) /\ UNCHANGED <<sizes, status, cursor>>
      \/ \E a : ResizeFrom(Capacity + 1, full, a)
      \/ Stores(full) /\ UNCHANGED <<sizes, status, cursor, faults>>
  BY DEF Insert
<1>7. GoodKeys(WithKey(k), Count + 1) /\ full.keys = WithKey(k)
  BY <1>1, <1>5, RoomForKey DEF WithKey, Roomy
<1> HIDE DEF s, w, grown, full
<1>8. GoodTags(w.tags) /\ GoodPositions(w.tags, w.realIndex) /\ Slots(w.tags) = Capacity
  BY <1>1, <1>2, <1>3, <1>4, StoreGood
<1>9. GoodTable(w) /\ GoodTable(full)
  BY <1>1, <1>4, <1>5, <1>7, <1>8 DEF GoodTable
<1>10. \A z \in Used(w.tags) : w.realIndex[z] \in Nat /\ w.realIndex[z] <= Count
  <2> SUFFICES ASSUME NEW z \in Used(w.tags)
               PROVE  w.realIndex[z] \in Nat /\ w.realIndex[z] <= Count
    OBVIOUS
  <2>1. CASE z = s
    BY <1>1, <1>2, <1>4, <2>1
  <2>2. CASE z # s
    <3>1. z \in Used(tags) /\ w.realIndex[z] = realIndex[z]
      BY <1>4, <2>2 DEF Used
    <3>2. realIndex[z] < Count \/ realIndex[z] = Count
      BY <3>1 DEF IndexInv, Links, Leads, AsIs
    <3>3. realIndex[z] \in Nat
      <4>1. z \in DOMAIN tags /\ tags[z] # FORBIDDEN
        BY <3>1, TagKinds DEF Used, IsFull
      <4>2. z \in 0..(Capacity - 1)
        <5>1. TagsOf(tags, Capacity) /\ LANES \in Nat
          BY <1>1, UsableTags, LanesTyped
        <5> QED
          BY <1>1, <4>1, <5>1 DEF TagsOf
      <4> QED
        BY <1>1, <4>2, SlotHasPosition DEF GoodPositions
    <3> QED
      BY <1>1, <3>1, <3>2, <3>3
  <2> QED
    BY <2>1, <2>2
<1>11. ASSUME Throws, Stores(w), UNCHANGED <<sizes, status, cursor>>
       PROVE  IndexInv'
  <2>1. faults' \in Nat /\ faults' # 0 /\ faults' > 0
    BY <1>1, <1>11 DEF Throws
  <2>2. \A z \in Used(w.tags) : w.realIndex[z] < w.count \/ w.realIndex[z] = w.count
    <3>1. w.count = Count /\ Count \in Nat
      BY <1>1, <1>4 DEF GoodKeys
    <3>2. \A n \in Nat : n <= Count => n < Count \/ n = Count
      BY <3>1
    <3>3. \A z \in Used(w.tags) : w.realIndex[z] < Count \/ w.realIndex[z] = Count
      BY <1>10, <3>2
    <3> QED
      BY <3>1, <3>3
  <2>3. Leads(w, faults')
    BY <2>1, <2>2 DEF Leads
  <2> QED
    BY <1>1, <1>9, <1>11, <2>1, <2>3, StoredInv DEF sizes
<1>12. Leads(full, faults)
  <2>1. \A z \in Used(w.tags) : w.realIndex[z] < Count + 1
    BY <1>1, <1>10
  <2> QED
    BY <1>5, <2>1 DEF Leads
<1>13. faults = 0 => Counted(full, Count + 1)
  <2> SUFFICES ASSUME faults = 0 PROVE Counted(full, Count + 1)
    OBVIOUS
  <2>1. Counted(AsIs, Count) /\ AsIs.tags = tags /\ AsIs.realIndex = realIndex
    BY DEF IndexInv, Links, AsIs
  <2> QED
    BY <1>1, <1>2, <1>3, <1>4, <1>5, <2>1, StoreCounted
<1>14. Handed(full)
  BY <1>4, <1>5, <1>9, <1>12, <1>13 DEF Handed
<1>15. ASSUME NEW a, ResizeFrom(Capacity + 1, full, a) PROVE IndexInv'
  BY <1>1, <1>5, <1>8, <1>14, <1>15, ResizeFromInv
<1>16. ASSUME Stores(full), UNCHANGED <<sizes, status, cursor, faults>> PROVE IndexInv'
  BY <1>1, <1>5, <1>8, <1>9, <1>12, <1>13, <1>16, StoredInv DEF sizes
<1> QED
  BY <1>6, <1>11, <1>15, <1>16

LEMMA AddInv ==
  ASSUME IndexInv, NEW op, NEW k \in Keys, AddChecked(op, k)
  PROVE  IndexInv'
<1> DEFINE stops == Table!VacantSteps(k)
<1>1. status = "idle" /\ Usable
  BY DEF AddChecked
<1>2. CASE Wild(k, stops) /\ Ends("wild")
  BY <1>1, <1>2, WildFault, EndsInv
<1>3. CASE Ends("hung")
  BY <1>3, EndsInv
<1>4. CASE Reads
  BY <1>4, ReadsInv DEF Reads, sizes
<1>5. CASE ~Table!Hangs(k, stops) /\ ~Table!Hits(k, stops) /\ Insert(op, k)
  <2>1. stops # {}
    BY <1>5 DEF Table!Hangs, Table!Hits
  <2> QED
    BY <1>1, <1>5, <2>1, InsertInv
<1> QED
  BY <1>2, <1>3, <1>4, <1>5 DEF AddChecked

LEMMA AddUniqueInv ==
  ASSUME IndexInv, NEW k \in Keys, AddUnique(k)
  PROVE  IndexInv'
BY EndsInv, InsertInv DEF AddUnique

LEMMA TryGetIndexInv ==
  ASSUME IndexInv, NEW k \in Keys, TryGetIndex(k)
  PROVE  IndexInv'
<1> DEFINE stops == Table!EmptySteps(k)
<1>1. CASE Usable /\ Wild(k, stops) /\ Ends("wild")
  BY <1>1, WildFault, EndsInv
<1>2. CASE Ends("hung")
  BY <1>2, EndsInv
<1>3. CASE Reads
  BY <1>3, ReadsInv DEF Reads, sizes
<1> QED
  BY <1>1, <1>2, <1>3 DEF TryGetIndex

\* RehashInternal places the keys in their order, each in a slot of its own.
LEMMA ReinsertInv ==
  ASSUME IndexInv, Reinsert
  PROVE  IndexInv'
<1> DEFINE k == keys[cursor]
           s == Table!FindEmpty(k)
<1>1. /\ Shape /\ Usable /\ status = "rehash" /\ cursor < Count
      /\ Capacity \in Capacities /\ faults \in Nat /\ cursor \in Nat
      /\ GoodTags(tags) /\ GoodPositions(tags, realIndex)
      /\ GoodKeys(keys, Count) /\ Count \in Nat
  BY DEF IndexInv, Shape, GoodTable, GoodKeys, AsIs, Reinsert
<1>2. k \in Keys
  BY <1>1 DEF GoodKeys
<1>3. CASE Ends("hung")
  BY <1>3, EndsInv
<1>4. CASE /\ Table!EmptySteps(k) # {}
           /\ tags' = [tags EXCEPT ![s] = TagOf[k]]
           /\ realIndex' = [realIndex EXCEPT ![s] = cursor]
           /\ cursor' = cursor + 1
           /\ UNCHANGED <<keys, sizes, Count, status, faults>>
  <2>1. /\ s \in DOMAIN tags /\ s \in DOMAIN realIndex
        /\ ~IsFull(tags[s]) /\ tags[s] # FORBIDDEN
    BY <1>1, <1>2, <1>4, EmptyInTable
  <2>2. TagOf[k] \in HashTags
    BY <1>2, IndexAssumption
  <2> HIDE DEF k, s
  <2>3. /\ GoodTags(tags') /\ GoodPositions(tags', realIndex')
        /\ Slots(tags') = Slots(tags)
    BY <1>1, <1>4, <2>1, <2>2, StoreGood
  <2>4. GoodTable(AsIs)'
    BY <1>1, <1>4, <2>3 DEF GoodTable, AsIs
  <2>5. Usable'
    BY <1>1, <1>4, <2>3 DEF Usable, TagsSize, Slots, sizes
  <2>6. Shape'
    BY <1>1, <1>4, <2>4, <2>5 DEF Shape, sizes
  <2>7. Leads(AsIs, faults)'
    <3> SUFFICES ASSUME NEW z \in Used(tags')
                 PROVE  \/ realIndex'[z] < Count
                        \/ realIndex'[z] = Count /\ faults > 0
      BY <1>4 DEF Leads, AsIs
    <3>1. CASE z = s
      BY <1>1, <1>4, <2>1, <3>1
    <3>2. CASE z # s
      <4>1. z \in Used(tags) /\ realIndex'[z] = realIndex[z]
        BY <1>4, <3>2 DEF Used
      <4> QED
        BY <4>1 DEF IndexInv, Links, Leads, AsIs
    <3> QED
      BY <3>1, <3>2
  <2>8. ASSUME faults = 0 PROVE Counted(AsIs, cursor)'
    <3>1. Counted(AsIs, cursor) /\ AsIs.tags = tags /\ AsIs.realIndex = realIndex
      BY <1>1, <2>8 DEF IndexInv, Links, AsIs
    <3> DEFINE x == [tags |-> tags', realIndex |-> realIndex']
    <3>2. /\ x.tags = [tags EXCEPT ![s] = TagOf[k]]
          /\ x.realIndex = [realIndex EXCEPT ![s] = cursor]
      BY <1>4
    <3> HIDE DEF x
    <3>3. Counted(x, cursor + 1)
      BY <1>1, <2>1, <2>2, <3>1, <3>2, StoreCounted
    <3>4. x.tags = tags' /\ x.realIndex = realIndex'
      BY DEF x
    <3>5. AsIs'.tags = tags' /\ AsIs'.realIndex = realIndex'
      BY DEF AsIs
    <3>6. Counted(x, cursor')
      BY <1>4, <3>3
    <3>7. x.tags = AsIs'.tags /\ x.realIndex = AsIs'.realIndex
      BY <3>4, <3>5
    <3> QED
      BY <3>6, <3>7 DEF Counted
  <2> QED
    BY <1>1, <1>4, <2>5, <2>6, <2>7, <2>8 DEF IndexInv, Links, WildOnlyAfterFault
<1> QED
  BY <1>3, <1>4 DEF Reinsert

LEMMA ReinsertDoneInv ==
  ASSUME IndexInv, ReinsertDone
  PROVE  IndexInv'
<1>1. /\ status = "rehash" /\ cursor = Count /\ status' = "idle" /\ cursor' = 0
      /\ UNCHANGED <<tags, realIndex, keys, Capacity, Count, faults>>
  BY DEF ReinsertDone, slots, sizes
<1>2. Shape'
  <2>1. Count \in Nat
    BY DEF IndexInv, Shape, GoodTable, GoodKeys, AsIs
  <2> QED
    BY <1>1, <2>1 DEF IndexInv, Shape, AsIs, Usable, TagsSize
<1>3. Links'
  BY <1>1 DEF IndexInv, Links, AsIs, Usable, TagsSize
<1> QED
  BY <1>1, <1>2, <1>3 DEF IndexInv, WildOnlyAfterFault

LEMMA IndexInit ==
  ASSUME Init
  PROVE  IndexInv
<1>1. /\ MIN_SIZE \in Nat /\ Capacity \in Capacities /\ Capacity \in Nat /\ Capacity <= Capacity
      /\ tags = Table!FreshTags(Capacity)
      /\ Count = 0 /\ status = "idle" /\ cursor = 0 /\ faults = 0
      /\ realIndex = [s \in 0..(Capacity - 1) |-> 0]
  <2>1. MIN_SIZE \in Nat
    BY CapacityBounds
  <2>2. Capacity \in Capacities
    BY <2>1, AdjustCapacityTyped DEF Init
  <2>3. Capacity \in Nat /\ Capacity <= Capacity
    BY <2>2, CapacityBounds
  <2> QED
    BY <2>1, <2>2, <2>3 DEF Init
<1>2. Slots(tags) = Capacity /\ GoodTags(tags) /\ Used(tags) = {}
  BY <1>1, FreshGood
<1>3. GoodPositions(tags, realIndex)
  BY <1>1, <1>2 DEF GoodPositions
<1>4. GoodKeys(keys, 0)
  <2>1. 0..(PAGE * 0 - 1) = {} /\ 0 <= PAGE * 0 /\ 0..(0 - 1) = {}
    BY PageTyped
  <2>2. DOMAIN keys = {} /\ keys \in [DOMAIN keys -> Keys \cup {None}]
    BY DEF Init
  <2> QED
    BY <1>1, <2>1, <2>2 DEF GoodKeys
<1>5. AsIs.tags = tags /\ AsIs.realIndex = realIndex /\ AsIs.keys = keys /\ AsIs.count = 0
  BY <1>1 DEF AsIs
<1>6. Shape
  BY <1>1, <1>2, <1>3, <1>4, <1>5 DEF Shape, GoodTable
<1>7. Counted(AsIs, 0) /\ Leads(AsIs, faults)
  BY <1>2, <1>5, UnusedCounted
<1>8. Usable
  BY <1>2 DEF Usable, TagsSize, Slots
<1> QED
  BY <1>1, <1>6, <1>7, <1>8 DEF IndexInv, Links, WildOnlyAfterFault

LEMMA IndexStep ==
  ASSUME IndexInv, [Next]_vars
  PROVE  IndexInv'
<1>1. CASE UNCHANGED vars
  BY <1>1, ReadsInv DEF vars, sizes
<1>2. ASSUME NEW mlf, SetMaxLoadFactor(mlf) PROVE IndexInv'
  BY <1>2, ReadsInv DEF SetMaxLoadFactor
<1>3. ASSUME NEW k \in Keys,
             AddChecked("Add", k) \/ AddChecked("TryAdd", k) \/ AddUnique(k) \/ TryGetIndex(k)
      PROVE  IndexInv'
  BY <1>3, AddInv, AddUniqueInv, TryGetIndexInv
<1>4. ASSUME NEW size \in Sizes, Resize(size) \/ Clear(size) PROVE IndexInv'
  BY <1>4, ResizeInv, ClearInv
<1>5. CASE Reinsert \/ ReinsertDone
  BY <1>5, ReinsertInv, ReinsertDoneInv
<1> QED
  BY <1>1, <1>2, <1>3, <1>4, <1>5 DEF Next

LEMMA IndexInvariant == Spec => []IndexInv
BY IndexInit, IndexStep, PTL DEF Spec

-----------------------------------------------------------------------------
(* The theorems.                                                           *)

\* The slots of the table are the places its tags describe.
LEMMA TagsDescribe ==
  ASSUME GoodTags(tags)
  PROVE  /\ TagsSize \in Capacities \cup {0}
         /\ {s \in 0..(TagsSize - 1) : IsFull(tags[s])} = Used(tags)
<1>1. CASE DOMAIN tags = {}
  <2>1. TagsSize = 0 /\ 0..(0 - 1) = {}
    BY <1>1 DEF TagsSize
  <2> QED
    BY <1>1, <2>1 DEF Used
<1>2. ASSUME NEW c \in Capacities, TagsOf(tags, c)
      PROVE  /\ TagsSize = c
             /\ {s \in 0..(c - 1) : IsFull(tags[s])} = Used(tags)
  <2>1. TagsSize = c
    BY <1>2, SlotsOfTags DEF TagsOf, TagsSize, Slots
  <2>2. /\ c \in Nat /\ LANES \in Nat \ {0}
        /\ DOMAIN tags = 0..(c + LANES - 1)
        /\ \A s \in DOMAIN tags : tags[s] = FORBIDDEN <=> s >= c
    BY <1>2, CapacityBounds, LanesTyped DEF TagsOf
  <2>3. \A s \in DOMAIN tags : IsFull(tags[s]) => s \in 0..(c - 1)
    <3> SUFFICES ASSUME NEW s \in DOMAIN tags, IsFull(tags[s])
                 PROVE  s \in 0..(c - 1)
      OBVIOUS
    <3>1. tags[s] # FORBIDDEN
      BY TagKinds DEF IsFull
    <3> QED
      BY <2>2, <3>1
  <2>4. 0..(c - 1) \subseteq DOMAIN tags
    BY <2>2
  <2> QED
    BY <2>1, <2>3, <2>4 DEF Used
<1> QED
  BY <1>1, <1>2 DEF GoodTags

LEMMA ShapeTyped ==
  ASSUME Shape
  PROVE  TypeOK
<1>1. /\ GoodTags(tags) /\ GoodPositions(tags, realIndex)
      /\ GoodKeys(keys, Count)
  BY DEF Shape, GoodTable, AsIs
<1>2. TagsSize \in Capacities \cup {0} /\ TagsSize = Slots(tags) /\ TagsSize \in Nat
  <2>1. TagsSize \in Capacities \cup {0}
    BY <1>1, TagsDescribe
  <2>2. TagsSize = Slots(tags)
    BY DEF TagsSize, Slots
  <2> QED
    BY <2>1, <2>2, CapacityBounds
<1>3. 0..(TagsSize - 1) \subseteq DOMAIN realIndex
  <2>1. PICK m \in Capacities : DOMAIN realIndex = 0..(m - 1) /\ Slots(tags) <= m
    BY <1>1 DEF GoodPositions
  <2>2. m \in Nat
    BY CapacityBounds
  <2> QED
    BY <1>2, <2>1, <2>2
<1>4. PICK p \in Nat : DOMAIN keys = 0..(PAGE * p - 1) /\ Count <= PAGE * p
  BY <1>1 DEF GoodKeys
<1>5. /\ PAGE * p \in Nat /\ Cardinality(DOMAIN keys) = PAGE * p
      /\ PAGE \in Nat \ {0} /\ Count \in Nat
  BY <1>1, <1>4, KeysSize, PageTyped DEF GoodKeys
<1>6. Cardinality(DOMAIN keys) % PAGE = 0
  <2>1. (PAGE * p + 0) % PAGE = 0
    BY <1>5, Parts
  <2> QED
    BY <1>5, <2>1
<1>7. \A i \in StoredIndices : i \in DOMAIN keys /\ keys[i] \in Keys
  <2>1. StoredIndices \subseteq DOMAIN keys
    BY <1>4, <1>5 DEF StoredIndices
  <2> QED
    BY <1>1, <2>1 DEF GoodKeys, StoredIndices
<1>8. /\ tags \in [DOMAIN tags -> Tags] /\ realIndex \in [DOMAIN realIndex -> Nat]
      /\ keys \in [DOMAIN keys -> Keys \cup {None}]
  BY <1>1 DEF GoodTags, GoodPositions, GoodKeys
<1> QED
  BY <1>2, <1>3, <1>6, <1>7, <1>8 DEF Shape, TypeOK

\* The state of Core<..., Type::Index> keeps its types: the positions are there
\* for every slot, the pages for every key, whichever allocations fail.
THEOREM IndexTyped == Spec => []TypeOK
<1>1. IndexInv => TypeOK
  BY ShapeTyped DEF IndexInv
<1> QED
  BY <1>1, IndexInvariant, PTL

\* The comparisons of a probe and the writes of Clear stay inside the pages and
\* the tags as long as no allocation failed.
THEOREM WildAfterFault == Spec => []WildOnlyAfterFault
<1>1. IndexInv => WildOnlyAfterFault
  BY DEF IndexInv
<1> QED
  BY <1>1, IndexInvariant, PTL

\* Slots in use and keys are one to one until an allocation fails; after that a
\* slot leads to a key or to the place of the next key, never further.
THEOREM LeadsToKeys == Spec => []SlotsLeadToKeys
<1>1. ASSUME IndexInv PROVE SlotsLeadToKeys
  <2> DEFINE used == {s \in 0..(TagsSize - 1) : IsFull(tags[s])}
  <2>1. used = Used(tags) /\ Count \in Nat
    BY <1>1, TagsDescribe DEF IndexInv, Shape, GoodTable, GoodKeys, AsIs
  <2>2. AsIs.tags = tags /\ AsIs.realIndex = realIndex /\ AsIs.count = Count
    BY DEF AsIs
  <2>3. Leads(AsIs, faults)
    BY <1>1 DEF IndexInv, Links
  <2>4. \A s \in used : realIndex[s] > Count - 1 => realIndex[s] = Count /\ faults > 0
    <3> SUFFICES ASSUME NEW s \in Used(tags), realIndex[s] > Count - 1
                 PROVE  realIndex[s] = Count /\ faults > 0
      BY <2>1
    <3>1. realIndex[s] < Count \/ (realIndex[s] = Count /\ faults > 0)
      BY <2>2, <2>3 DEF Leads
    <3>2. realIndex[s] \in Nat
      <4>1. s \in 0..(TagsSize - 1)
        BY <2>1
      <4>2. TypeOK
        BY <1>1, ShapeTyped DEF IndexInv
      <4> QED
        BY <4>1, <4>2 DEF TypeOK
    <3> QED
      BY <2>1, <3>1, <3>2
  <2>5. ASSUME status = "idle", faults = 0
        PROVE  Cardinality(used) = Count /\ {realIndex[s] : s \in used} = StoredIndices
    <3>1. Counted(AsIs, Count)
      BY <1>1, <2>5 DEF IndexInv, Links
    <3> QED
      BY <2>1, <2>2, <3>1 DEF Counted, StoredIndices
  <2> QED
    BY <2>4, <2>5 DEF SlotsLeadToKeys
<1> QED
  BY <1>1, IndexInvariant, PTL

\* Resize, called again after it threw, leaves the tags of the capacity it set,
\* unless it throws or aborts again.
THEOREM RetryRepaired == Spec => RetryRepairs
<1> DEFINE Repaired(size) ==
      Resize(size) /\ AdjustCapacity(size) >= Capacity
        /\ status' # "aborted" /\ ret'.out # "bad_alloc"
      => TagsSize' = Capacity'
<1>1. ASSUME IndexInv, NEW size \in Sizes PROVE Repaired(size)
  <2> DEFINE c == AdjustCapacity(size)
             a == [op |-> "Resize", key |-> None, out |-> None, index |-> None]
  <2> SUFFICES ASSUME Resize(size), c >= Capacity,
                      status' # "aborted", ret'.out # "bad_alloc"
               PROVE  TagsSize' = Capacity'
    OBVIOUS
  <2>1. c \in Capacities /\ c \in Nat /\ Capacity \in Nat
    BY <1>1, IndexAssumption, AdjustCapacityTyped, CapacityBounds DEF IndexInv, Shape
  <2>2. ResizeTo(c, AsIs, a)
    BY <2>1 DEF Resize, ResizeFrom
  <2> HIDE DEF c
  <2>3. \/ SameSize(c, AsIs.tags) /\ Stores(AsIs) /\ Sized(c)
        \/ /\ Stores([AsIs EXCEPT !.tags = Table!FreshTags(c),
                                  !.realIndex = Pages(AsIs.realIndex, c, 0)])
           /\ Sized(c)
    BY <2>2 DEF ResizeTo, Ends, Returns
  <2>4. Slots(tags') = c /\ Capacity' = c
    <3>1. CASE SameSize(c, AsIs.tags) /\ Stores(AsIs) /\ Sized(c)
      BY <2>1, <3>1, SlotsOfTags DEF SameSize, Stores, Sized, AsIs
    <3>2. CASE /\ Stores([AsIs EXCEPT !.tags = Table!FreshTags(c),
                                      !.realIndex = Pages(AsIs.realIndex, c, 0)])
               /\ Sized(c)
      <4>1. tags' = Table!FreshTags(c) /\ Capacity' = c
        BY <3>2 DEF Stores, Sized, AsIs
      <4> QED
        BY <2>1, <4>1, FreshGood
    <3> QED
      BY <2>3, <3>1, <3>2
  <2> QED
    BY <2>4 DEF TagsSize, Slots
<1>2. IndexInv /\ [Next]_vars => [\A size \in Sizes : Repaired(size)]_vars
  BY <1>1
<1> QED
  BY <1>2, IndexInvariant, PTL DEF Spec, RetryRepairs

-----------------------------------------------------------------------------
(* Where a search gets to.                                                 *)

Probe(k, i, c) == ProbeAt(Home[k][c], i, c)

\* A search for k in a table of c slots gets to a slot with the place x: none
\* of the vectors before that slot's has an EMPTY tag.
Reached(t, r, k, x, c) ==
  \E i \in ProbeSteps(c), l \in Lanes :
    /\ t[Probe(k, i, c) + l] = TagOf[k] /\ r[Probe(k, i, c) + l] = x
    /\ \A j \in ProbeSteps(c), m \in Lanes : j < i => t[Probe(k, j, c) + m] # EMPTY

\* the first n keys
Placed(w, n, c) ==
  \A x \in 0..(n - 1) : Reached(w.tags, w.realIndex, w.keys[x], x, c)

\* An Index buries nothing and has no key twice; a slot without a key has no
\* page for it either.
Kept(w) ==
  /\ \A s \in DOMAIN w.tags : w.tags[s] # TOMBSTONE
  /\ \A s \in Used(w.tags) : w.realIndex[s] = w.count => w.count \notin DOMAIN w.keys
  /\ \A x, y \in 0..(w.count - 1) : w.keys[x] = w.keys[y] => x = y

\* The tags never outgrow _Capacity: a Resize that takes them as they are has
\* not missed one that failed.
Findable(w, c) ==
  Slots(w.tags) <= c /\ (Slots(w.tags) = c => Placed(w, w.count, c))

FindInv ==
  /\ Kept(AsIs)
  /\ status = "idle" => Findable(AsIs, Capacity)
  /\ status = "rehash" => Placed(AsIs, cursor, Capacity)

\* The lanes of a probe have tags.
LEMMA ProbeInTags ==
  ASSUME NEW c \in Capacities, NEW k \in Keys, NEW i \in ProbeSteps(c), NEW l \in Lanes
  PROVE  Probe(k, i, c) + l \in 0..(c + LANES - 1)
<1>1. c \in Nat \ {0} /\ LANES \in Nat \ {0} /\ l \in Nat /\ l < LANES
  BY CapacityBounds, LanesTyped DEF Lanes
<1>2. Home[k][c] \in Nat /\ i \in Nat
  BY IndexAssumption, ProbeStepsTyped
<1>3. Probe(k, i, c) \in 0..(c - 1)
  BY <1>1, <1>2, ProbeAtTyped DEF Probe
<1> QED
  BY <1>1, <1>3

LEMMA TableProbe ==
  ASSUME NEW k, NEW i
  PROVE  Table!Position(k, i) = Probe(k, i, Capacity)
BY TablePosition DEF Probe

\* A stored tag hides no slot from a search that got there before.
LEMMA StoreReached ==
  ASSUME NEW c \in Capacities, NEW t, TagsOf(t, c), NEW r, 0..(c - 1) \subseteq DOMAIN r,
         NEW s \in DOMAIN t, ~IsFull(t[s]), NEW tag \in HashTags, NEW n,
         NEW k \in Keys, NEW x, Reached(t, r, k, x, c)
  PROVE  Reached([t EXCEPT ![s] = tag], [r EXCEPT ![s] = n], k, x, c)
<1> DEFINE u == [t EXCEPT ![s] = tag]
           q == [r EXCEPT ![s] = n]
<1>1. PICK i \in ProbeSteps(c), l \in Lanes :
        /\ t[Probe(k, i, c) + l] = TagOf[k] /\ r[Probe(k, i, c) + l] = x
        /\ \A j \in ProbeSteps(c), m \in Lanes : j < i => t[Probe(k, j, c) + m] # EMPTY
  BY DEF Reached
<1> DEFINE z == Probe(k, i, c) + l
<1>2. z \in DOMAIN t /\ z \in 0..(c + LANES - 1)
  BY ProbeInTags DEF TagsOf
<1>3. IsFull(t[z]) /\ t[z] # FORBIDDEN
  BY <1>1, IndexAssumption, TagKinds DEF IsFull
<1>4. z # s /\ z \in DOMAIN r
  <2>1. c \in Nat /\ LANES \in Nat
    BY CapacityBounds, LanesTyped
  <2>2. ~(z >= c)
    BY <1>2, <1>3 DEF TagsOf
  <2> QED
    BY <1>2, <1>3, <2>1, <2>2
<1>5. u[z] = TagOf[k] /\ q[z] = x
  BY <1>1, <1>2, <1>4
<1>6. \A j \in ProbeSteps(c), m \in Lanes : j < i => u[Probe(k, j, c) + m] # EMPTY
  <2> SUFFICES ASSUME NEW j \in ProbeSteps(c), NEW m \in Lanes, j < i
               PROVE  u[Probe(k, j, c) + m] # EMPTY
    OBVIOUS
  <2>1. Probe(k, j, c) + m \in DOMAIN t /\ t[Probe(k, j, c) + m] # EMPTY
    BY <1>1, ProbeInTags DEF TagsOf
  <2> QED
    BY <2>1, TagKinds
<1> QED
  BY <1>5, <1>6 DEF Reached

\* Nor is the slot a key is stored in hidden from a search for it, if its
\* probe met no EMPTY tag on the way.
LEMMA StoredReached ==
  ASSUME NEW c \in Capacities, NEW t, TagsOf(t, c), NEW r,
         NEW k \in Keys, NEW i \in ProbeSteps(c), NEW l \in Lanes,
         NEW s \in DOMAIN t, s \in DOMAIN r, s = Probe(k, i, c) + l, NEW x,
         \A j \in ProbeSteps(c), m \in Lanes : j < i => t[Probe(k, j, c) + m] # EMPTY
  PROVE  Reached([t EXCEPT ![s] = TagOf[k]], [r EXCEPT ![s] = x], k, x, c)
<1> DEFINE u == [t EXCEPT ![s] = TagOf[k]]
           q == [r EXCEPT ![s] = x]
<1>1. TagOf[k] # EMPTY
  BY IndexAssumption, TagKinds
<1>2. \A j \in ProbeSteps(c), m \in Lanes : j < i => u[Probe(k, j, c) + m] # EMPTY
  <2> SUFFICES ASSUME NEW j \in ProbeSteps(c), NEW m \in Lanes, j < i
               PROVE  u[Probe(k, j, c) + m] # EMPTY
    OBVIOUS
  <2>1. Probe(k, j, c) + m \in DOMAIN t
    BY ProbeInTags DEF TagsOf
  <2> QED
    BY <1>1, <2>1
<1>3. u[Probe(k, i, c) + l] = TagOf[k] /\ q[Probe(k, i, c) + l] = x
  OBVIOUS
<1> QED
  BY <1>2, <1>3 DEF Reached

\* The way to the slot Add takes, and to the one RehashInternal takes.
LEMMA VacantAt ==
  ASSUME Shape, Usable, NEW k \in Keys, Table!VacantSteps(k) # {}
  PROVE  \E i \in ProbeSteps(Capacity), l \in Lanes :
           /\ Table!VacantSlot(k) = Probe(k, i, Capacity) + l
           /\ \A j \in ProbeSteps(Capacity), m \in Lanes :
                j < i => tags[Probe(k, j, Capacity) + m] # EMPTY
<1> DEFINE i == Min(Table!VacantSteps(k))
           mask == GetEmptyOrTomeStoneMask(tags, Table!Position(k, i))
           l == TrailingZeroCount(mask)
<1>1. Table!VacantSteps(k) \in SUBSET Nat
  BY TableSteps, ProbeStepsTyped
<1>2. /\ i \in ProbeSteps(Capacity) /\ i \in Nat /\ mask # {}
      /\ \A j \in Table!VacantSteps(k) : i <= j
  BY <1>1, MinNat, TableSteps, ProbeStepsTyped
<1>3. Table!VacantSlot(k) = Table!Position(k, i) + l
  BY TableSlots
<1> HIDE DEF i
<1>4. mask \in SUBSET Lanes
  BY DEF GetEmptyOrTomeStoneMask
<1>5. l \in Lanes
  BY <1>2, <1>4, TrailingZeroCountTyped
<1>6. ASSUME NEW j \in ProbeSteps(Capacity), NEW m \in Lanes, j < i
      PROVE  tags[Probe(k, j, Capacity) + m] # EMPTY
  <2>1. j \in Nat /\ j \notin Table!VacantSteps(k)
    BY <1>2, <1>6, ProbeStepsTyped
  <2>2. GetEmptyOrTomeStoneMask(tags, Table!Position(k, j)) = {}
    BY <2>1, TableSteps
  <2> QED
    BY <2>2, TableProbe DEF GetEmptyOrTomeStoneMask
<1> QED
  BY <1>2, <1>3, <1>5, <1>6, TableProbe

LEMMA EmptyAt ==
  ASSUME Shape, Usable, NEW k \in Keys, Table!EmptySteps(k) # {}
  PROVE  \E i \in ProbeSteps(Capacity), l \in Lanes :
           /\ Table!FindEmpty(k) = Probe(k, i, Capacity) + l
           /\ \A j \in ProbeSteps(Capacity), m \in Lanes :
                j < i => tags[Probe(k, j, Capacity) + m] # EMPTY
<1> DEFINE i == Min(Table!EmptySteps(k))
           mask == GetEmptyMask(tags, Table!Position(k, i))
           l == TrailingZeroCount(mask)
<1>1. Table!EmptySteps(k) \in SUBSET Nat
  BY TableSteps, ProbeStepsTyped
<1>2. /\ i \in ProbeSteps(Capacity) /\ i \in Nat /\ mask # {}
      /\ \A j \in Table!EmptySteps(k) : i <= j
  BY <1>1, MinNat, TableSteps, ProbeStepsTyped
<1>3. Table!FindEmpty(k) = Table!Position(k, i) + l
  BY TableSlots
<1> HIDE DEF i
<1>4. mask \in SUBSET Lanes
  BY DEF GetEmptyMask
<1>5. l \in Lanes
  BY <1>2, <1>4, TrailingZeroCountTyped
<1>6. ASSUME NEW j \in ProbeSteps(Capacity), NEW m \in Lanes, j < i
      PROVE  tags[Probe(k, j, Capacity) + m] # EMPTY
  <2>1. j \in Nat /\ j \notin Table!EmptySteps(k)
    BY <1>2, <1>6, ProbeStepsTyped
  <2>2. GetEmptyMask(tags, Table!Position(k, j)) = {}
    BY <2>1, TableSteps
  <2> QED
    BY <2>2, TableProbe DEF GetEmptyMask
<1> QED
  BY <1>2, <1>3, <1>5, <1>6, TableProbe

-----------------------------------------------------------------------------
(* What a search finds.                                                    *)

\* A slot in use has a position, of a key or of the next one.
LEMMA UsedLeads ==
  ASSUME IndexInv, NEW s \in Used(tags)
  PROVE  s \in DOMAIN realIndex /\ realIndex[s] \in Nat /\ realIndex[s] <= Count
<1>1. TypeOK /\ GoodTags(tags) /\ Count \in Nat
  BY ShapeTyped DEF IndexInv, Shape, GoodTable, GoodKeys, AsIs
<1>2. s \in 0..(TagsSize - 1)
  BY <1>1, TagsDescribe
<1>3. s \in DOMAIN realIndex /\ realIndex[s] \in Nat
  BY <1>1, <1>2 DEF TypeOK
<1>4. realIndex[s] < Count \/ realIndex[s] = Count
  BY DEF IndexInv, Links, Leads, AsIs
<1> QED
  BY <1>1, <1>3, <1>4

\* The lanes a search compares equal: the tag fits and the slot leads to the key.
LEMMA HitLanesAre ==
  ASSUME IndexInv, Usable, MistestedLanes = {},
         NEW k \in Keys, NEW i \in ProbeSteps(Capacity), NEW l
  PROVE  l \in Table!HitLanes(k, i) <=>
           LET s == Probe(k, i, Capacity) + l
           IN  l \in Lanes /\ s \in Used(tags) /\ tags[s] = TagOf[k] /\ KeyAt(realIndex[s]) = k
<1> DEFINE s == Probe(k, i, Capacity) + l
<1>1. l \in Table!HitLanes(k, i) <=>
        l \in Lanes /\ tags[s] = TagOf[k] /\ SlotEntries[s].key = k
  BY TableProbe DEF Table!HitLanes, Table!VisitedLanes, Table!GetCmpMask, Table!Lanes, Lanes
<1>2. ASSUME l \in Lanes, tags[s] = TagOf[k]
      PROVE  s \in Used(tags) /\ SlotEntries[s].key = KeyAt(realIndex[s])
  <2>1. IsFull(tags[s]) /\ tags[s] # FORBIDDEN
    BY <1>2, IndexAssumption, TagKinds DEF IsFull
  <2>2. s \in Used(tags)
    BY <1>2, <2>1, LaneInTable, TableProbe DEF Used, IndexInv
  <2>3. s \in DOMAIN realIndex
    BY <2>2, UsedLeads
  <2> QED
    BY <2>2, <2>3 DEF SlotEntries
<1> QED
  BY <1>1, <1>2

\* What is found is stored, at the index that is answered.
LEMMA HitIsStored ==
  ASSUME IndexInv, FindInv, Usable, MistestedLanes = {},
         NEW k \in Keys, Table!HitSteps(k) # {}
  PROVE  /\ realIndex[Table!HitSlot(k)] \in StoredIndices
         /\ keys[realIndex[Table!HitSlot(k)]] = k
<1> DEFINE i == Min(Table!HitSteps(k))
           l == Min(Table!HitLanes(k, i))
           s == Probe(k, i, Capacity) + l
<1>1. Table!HitSteps(k) = {j \in ProbeSteps(Capacity) : Table!HitLanes(k, j) # {}}
  BY DEF Table!HitSteps, Table!ProbeSteps, ProbeSteps, Table!StepsPerWrap, StepsPerWrap
<1>2. i \in ProbeSteps(Capacity) /\ Table!HitLanes(k, i) # {}
  <2>1. Table!HitSteps(k) \in SUBSET Nat
    BY <1>1, ProbeStepsTyped
  <2> QED
    BY <1>1, <2>1, MinNat
<1>3. Table!HitSlot(k) = s
  BY TableProbe DEF Table!HitSlot, Table!Min, Min
<1> HIDE DEF i
<1>4. l \in Table!HitLanes(k, i)
  <2>1. Table!HitLanes(k, i) \in SUBSET Nat
    BY <1>2, HitLanesAre, LanesTyped
  <2> QED
    BY <1>2, <2>1, MinNat
<1> HIDE DEF l
<1>5. s \in Used(tags) /\ KeyAt(realIndex[s]) = k
  BY <1>2, <1>4, HitLanesAre
<1>6. realIndex[s] \in DOMAIN keys /\ keys[realIndex[s]] = k
  BY <1>5, IndexAssumption DEF KeyAt
<1>7. realIndex[s] \in Nat /\ realIndex[s] <= Count /\ Count \in Nat
  BY <1>5, UsedLeads DEF IndexInv, Shape, GoodTable, GoodKeys, AsIs
<1>8. realIndex[s] # Count
  BY <1>5, <1>6 DEF FindInv, Kept, AsIs
<1>9. realIndex[s] \in StoredIndices
  BY <1>7, <1>8 DEF StoredIndices
<1> QED
  BY <1>3, <1>6, <1>9

\* Without buried slots Add stops where a search stops.
LEMMA VacantIsEmpty ==
  ASSUME IndexInv, FindInv, Usable, NEW k \in Keys
  PROVE  Table!VacantSteps(k) = Table!EmptySteps(k)
<1>1. Capacity \in Capacities /\ TagsOf(tags, Capacity)
  BY UsableTags DEF IndexInv, Shape
<1>2. ASSUME NEW i \in ProbeSteps(Capacity)
      PROVE  GetEmptyOrTomeStoneMask(tags, Table!Position(k, i))
               = GetEmptyMask(tags, Table!Position(k, i))
  <2>1. \A l \in Lanes : tags[Table!Position(k, i) + l] # TOMBSTONE
    <3> SUFFICES ASSUME NEW l \in Lanes PROVE tags[Table!Position(k, i) + l] # TOMBSTONE
      OBVIOUS
    <3>1. Table!Position(k, i) + l \in DOMAIN tags
      BY <1>1, ProbeInTags, TableProbe DEF TagsOf
    <3> QED
      BY <3>1 DEF FindInv, Kept, AsIs
  <2> QED
    BY <2>1 DEF GetEmptyOrTomeStoneMask, GetEmptyMask
<1> QED
  BY <1>2, TableSteps

\* A stored key is found before the search stops.
LEMMA StoredHits ==
  ASSUME IndexInv, FindInv, Usable, status = "idle", MistestedLanes = {},
         NEW x \in StoredIndices, NEW k, k = keys[x]
  PROVE  /\ k \in Keys /\ Table!HitSteps(k) # {}
         /\ Table!Hits(k, Table!EmptySteps(k)) /\ Table!Hits(k, Table!VacantSteps(k))
<1>1. /\ TypeOK /\ Capacity \in Capacities /\ TagsOf(tags, Capacity)
      /\ x \in DOMAIN keys /\ k \in Keys
  BY ShapeTyped, UsableTags DEF IndexInv, Shape, TypeOK
<1>2. Reached(tags, realIndex, k, x, Capacity)
  <2>1. Slots(tags) = Capacity
    BY DEF Usable, TagsSize, Slots
  <2> QED
    BY <2>1 DEF FindInv, Findable, Placed, AsIs, StoredIndices
<1>3. PICK i \in ProbeSteps(Capacity), l \in Lanes :
        /\ tags[Probe(k, i, Capacity) + l] = TagOf[k]
        /\ realIndex[Probe(k, i, Capacity) + l] = x
        /\ \A j \in ProbeSteps(Capacity), m \in Lanes :
             j < i => tags[Probe(k, j, Capacity) + m] # EMPTY
  BY <1>2 DEF Reached
<1> DEFINE s == Probe(k, i, Capacity) + l
<1>4. s \in Used(tags)
  <2>1. s \in DOMAIN tags
    BY <1>1, ProbeInTags DEF TagsOf
  <2> QED
    BY <1>1, <1>3, <2>1, IndexAssumption DEF Used, IsFull
<1>5. l \in Table!HitLanes(k, i)
  <2>1. KeyAt(realIndex[s]) = k
    BY <1>1, <1>3 DEF KeyAt
  <2> QED
    BY <1>1, <1>3, <1>4, <2>1, HitLanesAre
<1>6. i \in Table!HitSteps(k)
  BY <1>5 DEF Table!HitSteps, Table!ProbeSteps, ProbeSteps, Table!StepsPerWrap, StepsPerWrap
<1>7. \A j \in Table!EmptySteps(k) : i <= j
  <2> SUFFICES ASSUME NEW j \in Table!EmptySteps(k) PROVE i <= j
    OBVIOUS
  <2>1. j \in ProbeSteps(Capacity) /\ GetEmptyMask(tags, Probe(k, j, Capacity)) # {}
    BY TableSteps, TableProbe
  <2>2. ~(j < i)
    BY <1>3, <2>1 DEF GetEmptyMask
  <2> QED
    BY <2>1, <2>2, ProbeStepsTyped
<1>8. Table!Hits(k, Table!EmptySteps(k))
  BY <1>6, <1>7 DEF Table!Hits
<1>9. Table!Hits(k, Table!VacantSteps(k))
  BY <1>1, <1>8, VacantIsEmpty
<1> QED
  BY <1>1, <1>6, <1>8, <1>9

-----------------------------------------------------------------------------
(* FindInv is an invariant.                                                *)

LEMMA StoresFound ==
  ASSUME NEW w, Stores(w), Kept(w), Findable(w, Capacity'), status' = "idle"
  PROVE  FindInv'
<1>1. /\ AsIs'.tags = w.tags /\ AsIs'.realIndex = w.realIndex
      /\ AsIs'.keys = w.keys /\ AsIs'.count = w.count
  BY DEF Stores, AsIs
<1>2. Kept(AsIs')
  BY <1>1 DEF Kept
<1>3. Findable(AsIs', Capacity')
  BY <1>1 DEF Findable, Placed
<1> QED
  BY <1>2, <1>3 DEF FindInv

LEMMA StartsFound ==
  ASSUME NEW w, Stores(w), Kept(w), status' = "rehash", cursor' = 0
  PROVE  FindInv'
<1>1. /\ AsIs'.tags = w.tags /\ AsIs'.realIndex = w.realIndex
      /\ AsIs'.keys = w.keys /\ AsIs'.count = w.count
  BY DEF Stores, AsIs
<1>2. Kept(AsIs')
  BY <1>1 DEF Kept
<1>3. Placed(AsIs', cursor', Capacity')
  BY DEF Placed
<1> QED
  BY <1>2, <1>3 DEF FindInv

LEMMA EndsFound ==
  ASSUME FindInv, NEW how \in {"hung", "aborted", "wild"}, Ends(how)
  PROVE  FindInv'
<1>1. AsIs' = AsIs /\ status' \notin {"idle", "rehash"}
  BY DEF Ends, slots, AsIs
<1> QED
  BY <1>1 DEF FindInv

LEMMA ReadsFound ==
  ASSUME FindInv, UNCHANGED <<slots, keys, Capacity, Count, status, cursor>>
  PROVE  FindInv'
<1>1. AsIs' = AsIs /\ UNCHANGED <<Capacity, status, cursor>>
  BY DEF slots, AsIs
<1> QED
  BY <1>1 DEF FindInv

\* Tags without a slot in use and without a buried one.
LEMMA UnusedKept ==
  ASSUME NEW w, Kept(w), NEW x, Used(x.tags) = {},
         \A s \in DOMAIN x.tags : x.tags[s] # TOMBSTONE,
         x.count = 0 \/ (x.keys = w.keys /\ x.count = w.count)
  PROVE  Kept(x)
BY DEF Kept

LEMMA FreshNoGraves ==
  /\ \A c \in Capacities : \A s \in DOMAIN Table!FreshTags(c) :
       Table!FreshTags(c)[s] # TOMBSTONE
  /\ \A s \in DOMAIN Table!NoTags : Table!NoTags[s] # TOMBSTONE
BY TableFresh, TagKinds

\* A Resize puts new tags in place only with a rehash to follow, and leaves
\* tags that lag behind as they are.
LEMMA ResizeToFound ==
  ASSUME IndexInv, FindInv, status = "idle", NEW c \in Capacities, NEW w,
         DOMAIN w = DOMAIN AsIs, Kept(w), Findable(w, c), NEW a, ResizeTo(c, w, a)
  PROVE  FindInv'
<1>1. cursor = 0 /\ c \in Nat
  BY CapacityBounds DEF IndexInv, Shape
<1>2. CASE Ends("aborted")
  BY <1>2, EndsFound
<1>3. CASE Stores(w) /\ Capacity' = c /\ UNCHANGED <<status, cursor>>
  BY <1>3, StoresFound
<1>4. CASE /\ Stores([w EXCEPT !.tags = Table!FreshTags(c),
                               !.realIndex = Pages(w.realIndex, c, 0)])
           /\ Capacity' = c
           /\ IF w.count # 0 THEN StartReinsert ELSE UNCHANGED <<status, cursor>>
  <2> DEFINE x == [w EXCEPT !.tags = Table!FreshTags(c),
                            !.realIndex = Pages(w.realIndex, c, 0)]
  <2>1. x.tags = Table!FreshTags(c) /\ x.keys = w.keys /\ x.count = w.count
    BY DEF AsIs
  <2>2. Stores(x)
    BY <1>4
  <2> HIDE DEF x
  <2>3. Used(x.tags) = {} /\ Slots(x.tags) = c
    BY <2>1, FreshGood
  <2>4. Kept(x)
    BY <2>1, <2>3, FreshNoGraves, UnusedKept
  <2>5. CASE w.count # 0
    BY <1>4, <2>2, <2>4, <2>5, StartsFound DEF StartReinsert
  <2>6. CASE w.count = 0
    <3>1. Findable(x, c)
      BY <1>1, <2>1, <2>3, <2>6 DEF Findable, Placed
    <3> QED
      BY <1>4, <2>2, <2>4, <2>6, <3>1, StoresFound
  <2> QED
    BY <2>5, <2>6
<1> QED
  BY <1>2, <1>3, <1>4 DEF ResizeTo, Sized

LEMMA ResizeFromFound ==
  ASSUME IndexInv, FindInv, status = "idle", NEW size \in Nat, NEW w,
         DOMAIN w = DOMAIN AsIs, GoodTags(w.tags), Kept(w), Findable(w, Capacity),
         NEW a, ResizeFrom(size, w, a)
  PROVE  FindInv'
<1>1. CASE Stores(w) /\ UNCHANGED <<sizes, status, cursor, faults>>
  BY <1>1, StoresFound DEF sizes
<1>2. CASE /\ Capacity <= AdjustCapacity(size)
           /\ ResizeTo(AdjustCapacity(size), w, a)
  <2> DEFINE c == AdjustCapacity(size)
  <2>1. c \in Capacities /\ c \in Nat /\ Capacity \in Nat
    BY AdjustCapacityTyped, CapacityBounds DEF IndexInv, Shape
  <2>2. Slots(w.tags) \in Nat
    <3>1. CASE DOMAIN w.tags = {}
      <4>1. Slots(w.tags) = 0
        BY <3>1, SlotsNone
      <4> QED
        BY <4>1
    <3>2. ASSUME NEW d \in Capacities, TagsOf(w.tags, d) PROVE Slots(w.tags) \in Nat
      BY <3>2, SlotsOfTags, CapacityBounds DEF TagsOf
    <3> QED
      BY <3>1, <3>2 DEF GoodTags
  <2>3. Findable(w, c)
    <3>1. Slots(w.tags) <= c
      BY <1>2, <2>1, <2>2 DEF Findable
    <3>2. Slots(w.tags) = c => Capacity = c
      BY <1>2, <2>1, <2>2 DEF Findable
    <3> QED
      BY <3>1, <3>2 DEF Findable
  <2> HIDE DEF c
  <2> QED
    BY <1>2, <2>1, <2>3, ResizeToFound DEF c
<1> QED
  BY <1>1, <1>2 DEF ResizeFrom

LEMMA ResizeFound ==
  ASSUME IndexInv, FindInv, NEW size \in Sizes, Resize(size)
  PROVE  FindInv'
<1>1. size \in Nat /\ status = "idle" /\ GoodTags(AsIs.tags)
  BY IndexAssumption DEF Resize, IndexInv, Shape, GoodTable
<1> QED
  BY <1>1, ResizeFromFound DEF Resize, FindInv

LEMMA ClearFound ==
  ASSUME IndexInv, FindInv, NEW size \in Sizes, Clear(size)
  PROVE  FindInv'
<1> DEFINE c == AdjustCapacity(size)
<1>1. /\ status = "idle" /\ c \in Capacities /\ c \in Nat
      /\ GoodTags(tags) /\ Capacity \in Nat /\ Kept(AsIs) /\ Findable(AsIs, Capacity)
  BY IndexAssumption, AdjustCapacityTyped, CapacityBounds
  DEF Clear, IndexInv, FindInv, Shape, GoodTable, AsIs
<1> HIDE DEF c
<1>2. CASE \E a : ResizeTo(c, Released, a)
  <2>1. DOMAIN Released = DOMAIN AsIs /\ Released.tags = Table!NoTags /\ Released.count = 0
    BY DEF Released, AsIs
  <2>2. Kept(Released)
    BY <1>1, <2>1, NoneGood, FreshNoGraves, UnusedKept
  <2>3. Findable(Released, c)
    BY <1>1, <2>1, NoneGood DEF Findable, Placed
  <2> QED
    BY <1>1, <1>2, <2>1, <2>2, <2>3, ResizeToFound
<1>3. CASE Ends("wild")
  BY <1>3, EndsFound
<1>4. CASE TagsSize # 0 /\ Stores(Cleared) /\ UNCHANGED <<sizes, status, cursor, faults>>
  <2>1. Cleared.tags = Table!FreshTags(TagsSize) /\ Cleared.count = 0
    BY DEF Cleared, AsIs
  <2>2. TagsSize \in Capacities /\ TagsSize = Slots(tags)
    BY <1>1, <1>4, TagsDescribe DEF TagsSize, Slots
  <2>3. Kept(Cleared)
    BY <1>1, <2>1, <2>2, FreshGood, FreshNoGraves, UnusedKept
  <2>4. Slots(Cleared.tags) <= Capacity
    BY <1>1, <2>1, <2>2, FreshGood DEF Findable, AsIs
  <2>5. Findable(Cleared, Capacity)
    BY <2>1, <2>4 DEF Findable, Placed
  <2> QED
    BY <1>1, <1>4, <2>3, <2>5, StoresFound DEF sizes
<1> QED
  BY <1>2, <1>3, <1>4 DEF Clear, c

\* A new key, stored in the first vacant slot of its probe.
LEMMA InsertFound ==
  ASSUME IndexInv, FindInv, Usable, status = "idle", NEW op, NEW k \in Keys,
         \A x \in StoredIndices : keys[x] # k,
         Table!VacantSteps(k) # {}, Insert(op, k)
  PROVE  FindInv'
<1> DEFINE s == Table!VacantSlot(k)
           w == [AsIs EXCEPT !.tags[s] = TagOf[k], !.realIndex[s] = Count]
           grown == IF NewPage THEN Pages(keys, Count + 1, None) ELSE keys
           full == [w EXCEPT !.keys = [grown EXCEPT ![Count] = k], !.count = Count + 1]
           t == [tags EXCEPT ![s] = TagOf[k]]
           r == [realIndex EXCEPT ![s] = Count]
<1>1. /\ Shape /\ Capacity \in Capacities /\ Capacity \in Nat
      /\ GoodTags(tags) /\ GoodPositions(tags, realIndex) /\ GoodKeys(keys, Count)
      /\ Count \in Nat /\ TagsOf(tags, Capacity) /\ Slots(tags) = Capacity
      /\ TypeOK /\ Placed(AsIs, Count, Capacity) /\ Kept(AsIs)
  <2>1. Shape /\ TypeOK /\ Capacity \in Capacities /\ TagsOf(tags, Capacity)
    BY ShapeTyped, UsableTags DEF IndexInv, Shape
  <2>2. Slots(tags) = Capacity
    BY DEF Usable, TagsSize, Slots
  <2>3. GoodTags(tags) /\ GoodPositions(tags, realIndex) /\ GoodKeys(keys, Count)
    BY <2>1 DEF Shape, GoodTable, AsIs
  <2>4. Placed(AsIs, Count, Capacity) /\ Kept(AsIs)
    BY <2>2 DEF FindInv, Findable, AsIs
  <2> QED
    BY <2>1, <2>2, <2>3, <2>4, CapacityBounds DEF GoodKeys
<1>2. /\ s \in DOMAIN tags /\ s \in DOMAIN realIndex
      /\ ~IsFull(tags[s]) /\ tags[s] # FORBIDDEN
  BY <1>1, VacantInTable
<1>3. TagOf[k] \in HashTags
  BY IndexAssumption
<1>4. /\ DOMAIN w = DOMAIN AsIs /\ w.tags = t /\ w.realIndex = r
      /\ w.keys = keys /\ w.count = Count
  BY DEF AsIs
<1>5. /\ DOMAIN full = DOMAIN w /\ full.tags = t /\ full.realIndex = r
      /\ full.keys = [grown EXCEPT ![Count] = k] /\ full.count = Count + 1
  BY DEF AsIs
<1>6. \/ NewPage /\ Stores(w) /\ UNCHANGED <<sizes, status>>
      \/ \E a : ResizeFrom(Capacity + 1, full, a)
      \/ Stores(full) /\ UNCHANGED <<sizes, status>>
  BY DEF Insert
<1>7. full.keys[Count] = k /\ \A x \in 0..(Count - 1) : full.keys[x] = keys[x]
  <2>1. full.keys = WithKey(k)
    BY <1>5 DEF WithKey, Roomy
  <2> HIDE DEF full
  <2> QED
    BY <1>1, <2>1, RoomForKey
<1> HIDE DEF w, grown, full
<1>8. GoodTags(t) /\ Slots(t) = Capacity
  BY <1>1, <1>2, <1>3, StoreGood
<1>9. ASSUME NEW x \in 0..(Count - 1) PROVE Reached(t, r, keys[x], x, Capacity)
  <2>1. Reached(tags, realIndex, keys[x], x, Capacity)
    BY <1>1 DEF Placed, AsIs
  <2>2. keys[x] \in Keys
    BY <1>1 DEF GoodKeys
  <2>3. 0..(Capacity - 1) \subseteq DOMAIN realIndex
    BY <1>1, SlotHasPosition
  <2> HIDE DEF s
  <2> QED
    BY <1>1, <1>2, <1>3, <2>1, <2>2, <2>3, StoreReached
<1>10. Reached(t, r, k, Count, Capacity)
  <2>1. PICK i \in ProbeSteps(Capacity), l \in Lanes :
          /\ s = Probe(k, i, Capacity) + l
          /\ \A j \in ProbeSteps(Capacity), m \in Lanes :
               j < i => tags[Probe(k, j, Capacity) + m] # EMPTY
    BY <1>1, VacantAt
  <2> HIDE DEF s
  <2> QED
    BY <1>1, <1>2, <2>1, StoredReached
<1>11. \A z \in DOMAIN t : t[z] # TOMBSTONE
  BY <1>1, <1>3, TagKinds DEF Kept, AsIs
<1>12. \A z \in Used(t) : r[z] \in Nat /\ r[z] <= Count
  <2> SUFFICES ASSUME NEW z \in Used(t) PROVE r[z] \in Nat /\ r[z] <= Count
    OBVIOUS
  <2>1. CASE z = s
    BY <1>1, <1>2, <2>1
  <2>2. CASE z # s
    <3>1. z \in Used(tags)
      BY <2>2 DEF Used
    <3> QED
      BY <2>2, <3>1, UsedLeads
  <2> QED
    BY <2>1, <2>2
<1> HIDE DEF s, t, r
<1>13. ASSUME NewPage, Stores(w), UNCHANGED <<sizes, status>> PROVE FindInv'
  <2>1. Count \notin DOMAIN keys
    <3>1. PICK p \in Nat : DOMAIN keys = 0..(PAGE * p - 1)
      BY <1>1 DEF GoodKeys
    <3>2. Count = PAGE * p
      BY <1>13, <3>1, KeysSize DEF NewPage
    <3> QED
      BY <1>1, <3>1, <3>2
  <2>2. Kept(w)
    BY <1>1, <1>4, <1>11, <2>1 DEF Kept, AsIs
  <2>3. Findable(w, Capacity)
    <3>1. Placed(w, Count, Capacity)
      BY <1>4, <1>9 DEF Placed
    <3> QED
      BY <1>1, <1>4, <1>8, <3>1 DEF Findable
  <2> QED
    BY <1>13, <2>2, <2>3, StoresFound DEF sizes
<1>14. Kept(full)
  <2>1. \A z \in Used(full.tags) : full.realIndex[z] # full.count
    BY <1>1, <1>5, <1>12
  <2>2. ASSUME NEW x \in 0..(full.count - 1), NEW y \in 0..(full.count - 1),
               full.keys[x] = full.keys[y]
        PROVE  x = y
    <3>1. \A z \in 0..(full.count - 1) : z = Count \/ z \in 0..(Count - 1)
      BY <1>1, <1>5
    <3>2. \A z \in 0..(Count - 1) : keys[z] # k
      BY DEF StoredIndices
    <3>3. \A u, v \in 0..(Count - 1) : keys[u] = keys[v] => u = v
      BY <1>1 DEF Kept, AsIs
    <3> QED
      BY <1>7, <2>2, <3>1, <3>2, <3>3
  <2> QED
    BY <1>5, <1>11, <2>1, <2>2 DEF Kept
<1>15. Findable(full, Capacity)
  <2>1. Placed(full, full.count, Capacity)
    <3> SUFFICES ASSUME NEW x \in 0..(full.count - 1)
                 PROVE  Reached(t, r, full.keys[x], x, Capacity)
      BY <1>5 DEF Placed
    <3>1. x = Count \/ x \in 0..(Count - 1)
      BY <1>1, <1>5
    <3> QED
      BY <1>7, <1>9, <1>10, <3>1
  <2> QED
    BY <1>1, <1>5, <1>8, <2>1 DEF Findable
<1>16. ASSUME NEW a, ResizeFrom(Capacity + 1, full, a) PROVE FindInv'
  BY <1>1, <1>4, <1>5, <1>8, <1>14, <1>15, <1>16, ResizeFromFound
<1>17. ASSUME Stores(full), UNCHANGED <<sizes, status>> PROVE FindInv'
  BY <1>14, <1>15, <1>17, StoresFound DEF sizes
<1> QED
  BY <1>6, <1>13, <1>16, <1>17

LEMMA AddFound ==
  ASSUME IndexInv, FindInv, MistestedLanes = {}, NEW op, NEW k \in Keys, AddChecked(op, k)
  PROVE  FindInv'
<1> DEFINE stops == Table!VacantSteps(k)
<1>1. status = "idle" /\ Usable
  BY DEF AddChecked
<1>2. CASE Ends("wild") \/ Ends("hung")
  BY <1>2, EndsFound
<1>3. CASE Reads
  BY <1>3, ReadsFound DEF Reads, sizes
<1>4. CASE ~Table!Hangs(k, stops) /\ ~Table!Hits(k, stops) /\ Insert(op, k)
  <2>1. stops # {}
    BY <1>4 DEF Table!Hangs, Table!Hits
  <2>2. \A x \in StoredIndices : keys[x] # k
    BY <1>1, <1>4, StoredHits
  <2> QED
    BY <1>1, <1>4, <2>1, <2>2, InsertFound
<1> QED
  BY <1>2, <1>3, <1>4 DEF AddChecked

\* The caller of AddUnique vouches for what Add checks.
LEMMA VouchedFor ==
  ASSUME IndexInv, NEW k \in Keys, AddUnique(k)
  PROVE  \A x \in StoredIndices : keys[x] # k
<1>1. TypeOK
  BY ShapeTyped DEF IndexInv
<1> QED
  BY <1>1 DEF AddUnique, StoredIndices, KeyAt, TypeOK

LEMMA AddUniqueFound ==
  ASSUME IndexInv, FindInv, NEW k \in Keys, AddUnique(k)
  PROVE  FindInv'
BY VouchedFor, EndsFound, InsertFound DEF AddUnique

LEMMA TryGetIndexFound ==
  ASSUME FindInv, NEW k, TryGetIndex(k)
  PROVE  FindInv'
<1>1. CASE Ends("wild") \/ Ends("hung")
  BY <1>1, EndsFound
<1>2. CASE Reads
  BY <1>2, ReadsFound DEF Reads, sizes
<1> QED
  BY <1>1, <1>2 DEF TryGetIndex

LEMMA ReinsertFound ==
  ASSUME IndexInv, FindInv, Reinsert
  PROVE  FindInv'
<1> DEFINE k == keys[cursor]
           s == Table!FindEmpty(k)
<1>1. /\ Shape /\ Usable /\ status = "rehash" /\ cursor < Count
      /\ Capacity \in Capacities /\ cursor \in Nat /\ Count \in Nat
      /\ GoodKeys(keys, Count) /\ TagsOf(tags, Capacity)
  BY UsableTags DEF IndexInv, Shape, GoodTable, GoodKeys, AsIs, Reinsert
<1>2. k \in Keys /\ TagOf[k] \in HashTags
  BY <1>1, IndexAssumption DEF GoodKeys
<1>3. CASE Ends("hung")
  BY <1>3, EndsFound
<1>4. CASE /\ Table!EmptySteps(k) # {}
           /\ tags' = [tags EXCEPT ![s] = TagOf[k]]
           /\ realIndex' = [realIndex EXCEPT ![s] = cursor]
           /\ cursor' = cursor + 1
           /\ UNCHANGED <<keys, sizes, Count, status>>
  <2>1. s \in DOMAIN tags /\ s \in DOMAIN realIndex /\ ~IsFull(tags[s])
    BY <1>1, <1>2, <1>4, EmptyInTable
  <2>2. PICK i \in ProbeSteps(Capacity), l \in Lanes :
          /\ s = Probe(k, i, Capacity) + l
          /\ \A j \in ProbeSteps(Capacity), m \in Lanes :
               j < i => tags[Probe(k, j, Capacity) + m] # EMPTY
    BY <1>1, <1>2, <1>4, EmptyAt
  <2> HIDE DEF s
  <2>3. Reached(tags', realIndex', k, cursor, Capacity)
    BY <1>1, <1>2, <1>4, <2>1, <2>2, StoredReached
  <2> HIDE DEF k
  <2>4. ASSUME NEW x \in 0..(cursor - 1)
        PROVE  Reached(tags', realIndex', keys[x], x, Capacity)
    <3>1. Reached(tags, realIndex, keys[x], x, Capacity)
      BY <1>1 DEF FindInv, Placed, AsIs
    <3>2. keys[x] \in Keys
      <4>1. x \in 0..(Count - 1)
        BY <1>1
      <4> QED
        BY <1>1, <4>1 DEF GoodKeys
    <3>3. 0..(Capacity - 1) \subseteq DOMAIN realIndex
      BY <1>1, SlotHasPosition
    <3> QED
      BY <1>1, <1>2, <1>4, <2>1, <3>1, <3>2, <3>3, StoreReached
  <2>5. /\ AsIs'.tags = tags' /\ AsIs'.realIndex = realIndex' /\ AsIs'.keys = keys
        /\ AsIs'.count = Count /\ Capacity' = Capacity /\ status' = "rehash"
    BY <1>1, <1>4 DEF AsIs, sizes
  <2>6. Placed(AsIs', cursor', Capacity')
    <3> SUFFICES ASSUME NEW x \in 0..(cursor' - 1)
                 PROVE  Reached(tags', realIndex', keys[x], x, Capacity)
      BY <2>5 DEF Placed
    <3>1. x = cursor \/ x \in 0..(cursor - 1)
      BY <1>1, <1>4
    <3> QED
      BY <2>3, <2>4, <3>1 DEF k
  <2>7. Kept(AsIs')
    <3>1. \A z \in DOMAIN tags' : tags'[z] # TOMBSTONE
      BY <1>2, <1>4, TagKinds DEF FindInv, Kept, AsIs
    <3>2. \A z \in Used(tags') : realIndex'[z] = Count => Count \notin DOMAIN keys
      <4> SUFFICES ASSUME NEW z \in Used(tags'), realIndex'[z] = Count
                   PROVE  Count \notin DOMAIN keys
        OBVIOUS
      <4>1. z # s
        BY <1>1, <1>4, <2>1
      <4>2. z \in Used(tags) /\ realIndex'[z] = realIndex[z]
        BY <1>4, <4>1 DEF Used
      <4> QED
        BY <4>2 DEF FindInv, Kept, AsIs
    <3>3. \A x, y \in 0..(Count - 1) : keys[x] = keys[y] => x = y
      BY DEF FindInv, Kept, AsIs
    <3> QED
      BY <2>5, <3>1, <3>2, <3>3 DEF Kept
  <2> QED
    BY <2>5, <2>6, <2>7 DEF FindInv
<1> QED
  BY <1>3, <1>4 DEF Reinsert

LEMMA ReinsertDoneFound ==
  ASSUME IndexInv, FindInv, ReinsertDone
  PROVE  FindInv'
<1>1. /\ status = "rehash" /\ cursor = Count /\ status' = "idle" /\ Capacity' = Capacity
      /\ AsIs' = AsIs /\ Usable /\ Capacity \in Nat
  BY CapacityBounds DEF ReinsertDone, slots, sizes, AsIs, IndexInv, Shape
<1>2. Findable(AsIs, Capacity)
  <2>1. AsIs.tags = tags /\ AsIs.count = Count /\ Slots(tags) = Capacity
    BY <1>1 DEF AsIs, Usable, TagsSize, Slots
  <2>2. Placed(AsIs, Count, Capacity)
    BY <1>1 DEF FindInv
  <2> QED
    BY <1>1, <2>1, <2>2 DEF Findable
<1> QED
  BY <1>1, <1>2 DEF FindInv

LEMMA FoundInit ==
  ASSUME Init
  PROVE  FindInv
<1>1. /\ Capacity \in Capacities /\ Capacity \in Nat /\ tags = Table!FreshTags(Capacity)
      /\ Count = 0 /\ status = "idle"
  <2>1. MIN_SIZE \in Nat
    BY CapacityBounds
  <2>2. Capacity \in Capacities
    BY <2>1, AdjustCapacityTyped DEF Init
  <2> QED
    BY <2>2, CapacityBounds DEF Init
<1>2. AsIs.tags = tags /\ AsIs.count = 0 /\ Slots(tags) = Capacity /\ Used(tags) = {}
  BY <1>1, FreshGood DEF AsIs
<1>3. Kept(AsIs)
  BY <1>1, <1>2, FreshNoGraves DEF Kept
<1>4. Findable(AsIs, Capacity)
  BY <1>1, <1>2 DEF Findable, Placed
<1> QED
  BY <1>1, <1>3, <1>4 DEF FindInv

LEMMA FoundStep ==
  ASSUME IndexInv, FindInv, MistestedLanes = {}, [Next]_vars
  PROVE  FindInv'
<1>1. CASE UNCHANGED vars
  BY <1>1, ReadsFound DEF vars, sizes
<1>2. ASSUME NEW mlf, SetMaxLoadFactor(mlf) PROVE FindInv'
  BY <1>2, ReadsFound DEF SetMaxLoadFactor
<1>3. ASSUME NEW k \in Keys,
             AddChecked("Add", k) \/ AddChecked("TryAdd", k) \/ AddUnique(k) \/ TryGetIndex(k)
      PROVE  FindInv'
  BY <1>3, AddFound, AddUniqueFound, TryGetIndexFound
<1>4. ASSUME NEW size \in Sizes, Resize(size) \/ Clear(size) PROVE FindInv'
  BY <1>4, ResizeFound, ClearFound
<1>5. CASE Reinsert \/ ReinsertDone
  BY <1>5, ReinsertFound, ReinsertDoneFound
<1> QED
  BY <1>1, <1>2, <1>3, <1>4, <1>5 DEF Next

LEMMA FoundInvariant ==
  ASSUME MistestedLanes = {}
  PROVE  Spec => [](IndexInv /\ FindInv)
<1>1. Init => IndexInv /\ FindInv
  BY IndexInit, FoundInit
<1>2. IndexInv /\ FindInv /\ [Next]_vars => (IndexInv /\ FindInv)'
  BY IndexStep, FoundStep
<1> QED
  BY <1>1, <1>2, PTL DEF Spec

\* Every key of the index is found, at the index it was given when it came,
\* through growth and failed allocations.
THEOREM IndexIsFound ==
  ASSUME MistestedLanes = {}
  PROVE  Spec => []IndexFound
<1>1. ASSUME IndexInv, FindInv, status = "idle", Usable, NEW x \in StoredIndices
      PROVE  /\ Table!Hits(keys[x], Table!EmptySteps(keys[x]))
             /\ realIndex[Table!HitSlot(keys[x])] = x
  <2> DEFINE k == keys[x]
             y == realIndex[Table!HitSlot(k)]
  <2>1. k \in Keys /\ Table!HitSteps(k) # {} /\ Table!Hits(k, Table!EmptySteps(k))
    BY <1>1, StoredHits
  <2>2. y \in StoredIndices /\ keys[y] = k
    BY <1>1, <2>1, HitIsStored
  <2>3. \A u, v \in 0..(Count - 1) : keys[u] = keys[v] => u = v
    BY <1>1 DEF FindInv, Kept, AsIs
  <2> HIDE DEF y
  <2>4. y = x
    BY <2>2, <2>3 DEF StoredIndices
  <2> QED
    BY <2>1, <2>4 DEF y
<1>2. IndexInv /\ FindInv => IndexFound
  BY <1>1 DEF IndexFound
<1> QED
  BY <1>2, FoundInvariant, PTL

-----------------------------------------------------------------------------
(* An Index is the list of its keys.                                       *)

Order == [i \in 1..Count |-> keys[i - 1]]

LEMMA OrderTyped ==
  ASSUME IndexInv
  PROVE  /\ Count \in Nat /\ Order \in Seq(Keys) /\ Len(Order) = Count
         /\ DOMAIN Order = 1..Count
<1>1. Count \in Nat /\ GoodKeys(keys, Count)
  BY DEF IndexInv, Shape, GoodTable, GoodKeys, AsIs
<1>2. Order \in [1..Count -> Keys]
  <2> SUFFICES ASSUME NEW i \in 1..Count PROVE keys[i - 1] \in Keys
    BY DEF Order
  <2>1. i - 1 \in 0..(Count - 1)
    BY <1>1
  <2> QED
    BY <1>1, <2>1 DEF GoodKeys
<1>3. Order \in Seq(Keys)
  BY <1>1, <1>2
<1> QED
  BY <1>1, <1>2, <1>3

\* A key is in the list iff it is at one of the stored places, which is its index.
LEMMA OrderStored ==
  ASSUME IndexInv, NEW k
  PROVE  Abstract!Stored(k) <=> \E x \in StoredIndices : keys[x] = k
<1>1. Count \in Nat
  BY OrderTyped
<1>2. ASSUME Abstract!Stored(k) PROVE \E x \in StoredIndices : keys[x] = k
  <2>1. PICK i \in 1..Count : keys[i - 1] = k
    BY <1>2 DEF Abstract!Stored
  <2>2. i - 1 \in StoredIndices
    BY <1>1 DEF StoredIndices
  <2> QED
    BY <2>1, <2>2
<1>3. ASSUME NEW x \in StoredIndices, keys[x] = k PROVE Abstract!Stored(k)
  <2>1. x + 1 \in 1..Count /\ (x + 1) - 1 = x
    BY <1>1 DEF StoredIndices
  <2> QED
    BY <1>3, <2>1 DEF Abstract!Stored
<1> QED
  BY <1>2, <1>3

LEMMA OrderIndex ==
  ASSUME IndexInv, FindInv, NEW x \in StoredIndices, NEW k, keys[x] = k
  PROVE  Abstract!IndexOf(k) = x
<1> DEFINE o == [i \in 1..Count |-> keys[i - 1]]
           i == CHOOSE j \in DOMAIN o : o[j] = k
<1>1. Count \in Nat /\ x \in Nat
  BY OrderTyped DEF StoredIndices
<1>2. x + 1 \in DOMAIN o /\ o[x + 1] = k
  <2>1. x + 1 \in 1..Count /\ (x + 1) - 1 = x
    BY <1>1 DEF StoredIndices
  <2> QED
    BY <2>1
<1>3. i \in DOMAIN o /\ o[i] = k
  BY <1>2
<1> HIDE DEF i
<1>4. i \in 1..Count /\ keys[i - 1] = k
  BY <1>3
<1>5. i - 1 \in 0..(Count - 1) /\ x \in 0..(Count - 1)
  BY <1>1, <1>4 DEF StoredIndices
<1>6. i - 1 = x
  BY <1>4, <1>5 DEF FindInv, Kept, AsIs
<1> QED
  BY <1>6 DEF Abstract!IndexOf, i

\* Steps that change neither the keys nor the answer are not seen.
LEMMA StutterRefines ==
  ASSUME UNCHANGED <<keys, Count, ret>>
  PROVE  UNCHANGED Abstract!vars
BY DEF Abstract!vars

\* A key more at the end of the list.
LEMMA OrderAppend ==
  ASSUME IndexInv, NEW k \in Keys, Count' = Count + 1, keys'[Count] = k,
         \A x \in 0..(Count - 1) : keys'[x] = keys[x]
  PROVE  Order' = Append(Order, k)
<1>1. Count \in Nat /\ Order \in Seq(Keys) /\ Len(Order) = Count
  BY OrderTyped
<1>2. Order' = [i \in 1..(Count + 1) |-> keys'[i - 1]]
  BY DEF Order
<1> DEFINE app == Append(Order, k)
<1>3. /\ app = [i \in DOMAIN app |-> app[i]] /\ DOMAIN app = 1..(Count + 1)
      /\ app[Count + 1] = k /\ \A i \in 1..Count : app[i] = Order[i]
  <2>1. /\ app \in Seq(Keys) /\ Len(app) = Count + 1
        /\ app[Count + 1] = k /\ \A i \in 1..Count : app[i] = Order[i]
    BY <1>1
  <2> HIDE DEF app
  <2>2. DOMAIN app = 1..(Count + 1) /\ app \in [1..(Count + 1) -> Keys]
    BY <2>1
  <2> QED
    BY <2>1, <2>2
<1> HIDE DEF app
<1>4. ASSUME NEW i \in 1..(Count + 1)
      PROVE  keys'[i - 1] = app[i]
  <2>1. CASE i = Count + 1
    <3>1. i - 1 = Count
      BY <1>1, <2>1
    <3> QED
      BY <1>3, <2>1, <3>1
  <2>2. CASE i # Count + 1
    <3>1. i \in 1..Count /\ i - 1 \in 0..(Count - 1)
      BY <1>1, <2>2
    <3> QED
      BY <1>3, <3>1 DEF Order
  <2> QED
    BY <2>1, <2>2
<1> QED
  BY <1>2, <1>3, <1>4 DEF app

\* What a Resize shows of itself: the keys it was handed, and the answer of its
\* caller or bad_alloc.
LEMMA ResizeShows ==
  ASSUME NEW c, NEW w, DOMAIN w = DOMAIN AsIs, NEW a, ResizeTo(c, w, a)
  PROVE  \/ Ends("aborted")
         \/ /\ keys' = w.keys /\ Count' = w.count
            /\ \E out \in {a.out, "bad_alloc"} : Returns(a.op, a.key, out, a.index)
<1>1. CASE Ends("aborted")
  BY <1>1
<1>2. CASE Stores(w) /\ \E out \in {a.out, "bad_alloc"} : Returns(a.op, a.key, out, a.index)
  BY <1>2 DEF Stores
<1>3. CASE /\ Stores([w EXCEPT !.tags = Table!FreshTags(c),
                               !.realIndex = Pages(w.realIndex, c, 0)])
           /\ Returns(a.op, a.key, a.out, a.index)
  BY <1>3 DEF Stores, AsIs
<1> QED
  BY <1>1, <1>2, <1>3 DEF ResizeTo

LEMMA ResizeFromShows ==
  ASSUME NEW size, NEW w, DOMAIN w = DOMAIN AsIs, NEW a, ResizeFrom(size, w, a)
  PROVE  \/ Ends("aborted")
         \/ /\ keys' = w.keys /\ Count' = w.count
            /\ \E out \in {a.out, "bad_alloc"} : Returns(a.op, a.key, out, a.index)
<1>1. CASE Stores(w) /\ Returns(a.op, a.key, a.out, a.index)
  BY <1>1 DEF Stores
<1>2. CASE ResizeTo(AdjustCapacity(size), w, a)
  BY <1>2, ResizeShows
<1> QED
  BY <1>1, <1>2 DEF ResizeFrom

LEMMA EndsRefines ==
  ASSUME NEW how, Ends(how)
  PROVE  [Abstract!Next]_(Abstract!vars)
BY StutterRefines DEF Ends

\* Add of a new key: it comes last, unless its page cannot be had.
LEMMA InsertRefines ==
  ASSUME IndexInv, NEW op \in {"Add", "AddUnique", "TryAdd"}, NEW k \in Keys,
         \A x \in StoredIndices : keys[x] # k, Insert(op, k)
  PROVE  [Abstract!Next]_(Abstract!vars)
<1> DEFINE s == Table!VacantSlot(k)
           w == [AsIs EXCEPT !.tags[s] = TagOf[k], !.realIndex[s] = Count]
           a == [op |-> op, key |-> k, out |-> "true", index |-> Told(op, Count)]
           grown == IF NewPage THEN Pages(keys, Count + 1, None) ELSE keys
           full == [w EXCEPT !.keys = [grown EXCEPT ![Count] = k], !.count = Count + 1]
<1>1. ~Abstract!Stored(k) /\ Count \in Nat /\ Len(Order) = Count
  BY OrderStored, OrderTyped
<1>2. DOMAIN w = DOMAIN AsIs /\ w.keys = keys /\ w.count = Count
  BY DEF AsIs
<1>3. DOMAIN full = DOMAIN AsIs /\ full.keys = WithKey(k) /\ full.count = Count + 1
  BY DEF AsIs, WithKey, Roomy
<1>4. \/ Stores(w) /\ Returns(op, k, "bad_alloc", None)
      \/ ResizeFrom(Capacity + 1, full, a)
      \/ Stores(full) /\ Returns(op, k, "true", Told(op, Count))
  BY DEF Insert
<1> HIDE DEF w, full, grown
<1>5. CASE Stores(w) /\ Returns(op, k, "bad_alloc", None)
  <2>1. keys' = keys /\ Count' = Count
    BY <1>2, <1>5 DEF Stores
  <2>2. Abstract!Failed(op, k)
    BY <1>1, <1>5, <2>1 DEF Abstract!Failed, Abstract!Answer, Returns
  <2> QED
    BY <2>2 DEF Abstract!Next
<1>6. ASSUME keys' = WithKey(k), Count' = Count + 1,
             NEW out \in {"true", "bad_alloc"}, Returns(op, k, out, Told(op, Count))
      PROVE  [Abstract!Next]_(Abstract!vars)
  <2>1. GoodKeys(keys, Count)
    BY DEF IndexInv, Shape, GoodTable, AsIs
  <2>2. Order' = Append(Order, k)
    BY <1>6, <2>1, RoomForKey, OrderAppend
  <2>3. Told(op, Count) = Abstract!Told(op, Len(Order))
    BY <1>1 DEF Told, Abstract!Told
  <2>4. Abstract!New(op, k) \/ Abstract!Failed(op, k)
    BY <1>1, <1>6, <2>2, <2>3
    DEF Abstract!New, Abstract!Failed, Abstract!Answer, Returns, Order
  <2> QED
    BY <2>4 DEF Abstract!Next
<1>7. CASE ResizeFrom(Capacity + 1, full, a)
  <2>1. CASE Ends("aborted")
    BY <2>1, EndsRefines
  <2>2. CASE /\ keys' = full.keys /\ Count' = full.count
             /\ \E out \in {a.out, "bad_alloc"} : Returns(a.op, a.key, out, a.index)
    <3>1. a.op = op /\ a.key = k /\ a.out = "true" /\ a.index = Told(op, Count)
      OBVIOUS
    <3> HIDE DEF a
    <3> QED
      BY <1>3, <1>6, <2>2, <3>1
  <2> HIDE DEF a
  <2> QED
    BY <1>3, <1>7, <2>1, <2>2, ResizeFromShows
<1>8. CASE Stores(full) /\ Returns(op, k, "true", Told(op, Count))
  BY <1>3, <1>6, <1>8 DEF Stores
<1> QED
  BY <1>4, <1>5, <1>7, <1>8

LEMMA AddRefines ==
  ASSUME IndexInv, FindInv, MistestedLanes = {}, NEW op \in {"Add", "TryAdd"},
         NEW k \in Keys, AddChecked(op, k)
  PROVE  [Abstract!Next]_(Abstract!vars)
<1> DEFINE stops == Table!VacantSteps(k)
           y == realIndex[Table!HitSlot(k)]
<1>1. status = "idle" /\ Usable
  BY DEF AddChecked
<1>2. CASE Ends("wild") \/ Ends("hung")
  BY <1>2, EndsRefines
<1>3. CASE Table!Hits(k, stops) /\ Returns(op, k, "false", Told(op, y)) /\ Reads
  <2>1. Table!HitSteps(k) # {}
    BY <1>3 DEF Table!Hits
  <2>2. y \in StoredIndices /\ keys[y] = k
    BY <1>1, <2>1, HitIsStored
  <2> HIDE DEF y
  <2>3. Abstract!Stored(k) /\ Abstract!IndexOf(k) = y
    BY <2>2, OrderStored, OrderIndex
  <2>4. keys' = keys /\ Count' = Count
    BY <1>3 DEF Reads
  <2>5. Abstract!Known(op, k)
    BY <1>3, <2>3, <2>4 DEF Abstract!Known, Abstract!Answer, Abstract!Told, Told, Returns
  <2> QED
    BY <2>5 DEF Abstract!Next
<1>4. CASE ~Table!Hits(k, stops) /\ Insert(op, k)
  BY <1>1, <1>4, StoredHits, InsertRefines
<1> QED
  BY <1>2, <1>3, <1>4 DEF AddChecked

LEMMA AddUniqueRefines ==
  ASSUME IndexInv, NEW k \in Keys, AddUnique(k)
  PROVE  [Abstract!Next]_(Abstract!vars)
BY VouchedFor, EndsRefines, InsertRefines DEF AddUnique

LEMMA TryGetIndexRefines ==
  ASSUME IndexInv, FindInv, MistestedLanes = {}, NEW k \in Keys, TryGetIndex(k)
  PROVE  [Abstract!Next]_(Abstract!vars)
<1> DEFINE stops == Table!EmptySteps(k)
           y == realIndex[Table!HitSlot(k)]
<1>1. status = "idle" /\ Usable
  BY DEF TryGetIndex
<1>2. CASE Ends("wild") \/ Ends("hung")
  BY <1>2, EndsRefines
<1>3. CASE Table!Hits(k, stops) /\ Returns("TryGetIndex", k, "true", y) /\ Reads
  <2>1. Table!HitSteps(k) # {}
    BY <1>3 DEF Table!Hits
  <2>2. y \in StoredIndices /\ keys[y] = k
    BY <1>1, <2>1, HitIsStored
  <2> HIDE DEF y
  <2>3. Abstract!Stored(k) /\ Abstract!IndexOf(k) = y
    BY <2>2, OrderStored, OrderIndex
  <2>4. keys' = keys /\ Count' = Count
    BY <1>3 DEF Reads
  <2>5. Abstract!TryGetIndex(k)
    BY <1>3, <2>3, <2>4 DEF Abstract!TryGetIndex, Abstract!Answer, Returns
  <2> QED
    BY <2>5 DEF Abstract!Next
<1>4. CASE ~Table!Hits(k, stops) /\ Returns("TryGetIndex", k, "false", None) /\ Reads
  <2>1. \A x \in StoredIndices : keys[x] # k
    BY <1>1, <1>4, StoredHits
  <2>2. ~Abstract!Stored(k)
    BY <2>1, OrderStored
  <2>3. keys' = keys /\ Count' = Count
    BY <1>4 DEF Reads
  <2>4. Abstract!TryGetIndex(k)
    BY <1>4, <2>2, <2>3 DEF Abstract!TryGetIndex, Abstract!Answer, Returns
  <2> QED
    BY <2>4 DEF Abstract!Next
<1> QED
  BY <1>2, <1>3, <1>4 DEF TryGetIndex

LEMMA ResizeRefines ==
  ASSUME NEW size, Resize(size)
  PROVE  [Abstract!Next]_(Abstract!vars)
<1> DEFINE a == [op |-> "Resize", key |-> None, out |-> None, index |-> None]
<1>1. /\ AsIs.keys = keys /\ AsIs.count = Count
      /\ a.op = "Resize" /\ a.key = None /\ a.out = None /\ a.index = None
  BY DEF AsIs
<1>2. ResizeFrom(size, AsIs, a)
  BY DEF Resize
<1> HIDE DEF a
<1>3. CASE Ends("aborted")
  BY <1>3, EndsRefines
<1>4. CASE /\ keys' = AsIs.keys /\ Count' = AsIs.count
           /\ \E out \in {a.out, "bad_alloc"} : Returns(a.op, a.key, out, a.index)
  <2>1. Abstract!Housekeeping
    BY <1>1, <1>4 DEF Abstract!Housekeeping, Abstract!Answer, Returns
  <2> QED
    BY <2>1 DEF Abstract!Next
<1> QED
  BY <1>2, <1>3, <1>4, ResizeFromShows

LEMMA ClearRefines ==
  ASSUME NEW size, Clear(size)
  PROVE  [Abstract!Next]_(Abstract!vars)
<1> DEFINE a == [op |-> "Clear", key |-> None, out |-> None, index |-> None]
<1>1. ASSUME Count' = 0, NEW out \in {None, "bad_alloc"}, Returns("Clear", None, out, None)
      PROVE  [Abstract!Next]_(Abstract!vars)
  <2>1. [i \in 1..Count' |-> keys'[i - 1]] = << >>
    BY <1>1
  <2>2. Abstract!Clear
    BY <1>1, <2>1 DEF Abstract!Clear, Abstract!Answer, Returns
  <2> QED
    BY <2>2 DEF Abstract!Next
<1>2. /\ DOMAIN Released = DOMAIN AsIs /\ Released.count = 0 /\ Cleared.count = 0
      /\ a.op = "Clear" /\ a.key = None /\ a.out = None /\ a.index = None
  BY DEF Released, Cleared, AsIs
<1>3. \/ ResizeTo(AdjustCapacity(size), Released, a)
      \/ Ends("wild")
      \/ Stores(Cleared) /\ Returns("Clear", None, None, None)
  BY DEF Clear
<1> HIDE DEF a
<1>4. CASE ResizeTo(AdjustCapacity(size), Released, a)
  <2>1. CASE Ends("aborted")
    BY <2>1, EndsRefines
  <2>2. CASE /\ keys' = Released.keys /\ Count' = Released.count
             /\ \E out \in {a.out, "bad_alloc"} : Returns(a.op, a.key, out, a.index)
    BY <1>1, <1>2, <2>2
  <2> QED
    BY <1>2, <1>4, <2>1, <2>2, ResizeShows
<1>5. CASE Stores(Cleared) /\ Returns("Clear", None, None, None)
  BY <1>1, <1>2, <1>5 DEF Stores
<1> QED
  BY <1>3, <1>4, <1>5, EndsRefines

LEMMA RefinesStep ==
  ASSUME IndexInv, FindInv, MistestedLanes = {}, [Next]_vars
  PROVE  [Abstract!Next]_(Abstract!vars)
<1>1. CASE UNCHANGED vars \/ Reinsert \/ ReinsertDone
  <2>1. CASE UNCHANGED <<keys, Count, ret>>
    BY <2>1, StutterRefines
  <2>2. CASE Ends("hung")
    BY <2>2, EndsRefines
  <2> QED
    BY <1>1, <2>1, <2>2 DEF vars, Reinsert, ReinsertDone
<1>2. ASSUME NEW mlf, SetMaxLoadFactor(mlf) PROVE [Abstract!Next]_(Abstract!vars)
  <2>1. keys' = keys /\ Count' = Count /\ Returns("max_load_factor", None, None, None)
    BY <1>2 DEF SetMaxLoadFactor
  <2>2. Abstract!Housekeeping
    BY <2>1 DEF Abstract!Housekeeping, Abstract!Answer, Returns
  <2> QED
    BY <2>2 DEF Abstract!Next
<1>3. ASSUME NEW k \in Keys,
             AddChecked("Add", k) \/ AddChecked("TryAdd", k) \/ AddUnique(k) \/ TryGetIndex(k)
      PROVE  [Abstract!Next]_(Abstract!vars)
  BY <1>3, AddRefines, AddUniqueRefines, TryGetIndexRefines
<1>4. ASSUME NEW size \in Sizes, Resize(size) \/ Clear(size)
      PROVE  [Abstract!Next]_(Abstract!vars)
  BY <1>4, ResizeRefines, ClearRefines
<1> QED
  BY <1>1, <1>2, <1>3, <1>4 DEF Next

LEMMA RefinesInit ==
  ASSUME Init
  PROVE  Abstract!Init
<1>1. Count = 0 /\ ret = [op |-> "Core", key |-> None, out |-> None, index |-> None]
  BY DEF Init
<1>2. [i \in 1..Count |-> keys[i - 1]] = << >>
  BY <1>1
<1> QED
  BY <1>1, <1>2 DEF Abstract!Init

\* In the default build an Index answers every call as the list of its keys does,
\* whichever allocations fail: no key is lost, told a wrong index or added twice.
THEOREM IndexIsList ==
  ASSUME MistestedLanes = {}
  PROVE  Spec => ImplementsIndex
<1>1. Init => Abstract!Init
  BY RefinesInit
<1>2. IndexInv /\ FindInv /\ [Next]_vars => [Abstract!Next]_(Abstract!vars)
  BY RefinesStep
<1> QED
  BY <1>1, <1>2, FoundInvariant, PTL DEF Spec, ImplementsIndex, Abstract!Spec
=============================================================================
