----------------------- MODULE SimdHashIteratorProofs -----------------------
(***************************************************************************)
(* Theorems about SimdHashIterator, a loop over a table its body changes.  *)
(***************************************************************************)
EXTENDS SimdHashIterator, SimdHashMapProofs

-----------------------------------------------------------------------------
(* What a call does with the slots, those not in use included.             *)

\* The call has left entries e in the slots the table had, and without a
\* rehash no entry has come to lie in a table of another size.
Overwrites(e) ==
  /\ Capacity <= Capacity'
  /\ \A s \in 0..(Capacity - 1) : entries'[s] = e[s]
  /\ status' # "rehash" => Capacity' = Capacity \/ Contents' = {}

\* A call that leaves the table's size alone.
LEMMA SameSizeWrites ==
  ASSUME TypeOK, NEW e, entries' = e, Capacity' = Capacity
  PROVE  Overwrites(e)
BY CapacityBounds DEF Overwrites, TypeOK

\* The table gets a new size, or the call aborts.
LEMMA ReallocateWrites ==
  ASSUME TypeOK, status = "idle", NEW c \in Capacities, NEW t, NEW n,
         NEW e, DOMAIN e = 0..(Capacity - 1), Reallocate(c, t, e, n)
  PROVE  Abort \/ Overwrites(e)
<1>1. Capacity \in Nat \ {0} /\ c \in Nat \ {0}
  BY CapacityBounds DEF TypeOK
<1>2. CASE /\ c - 1 \notin DOMAIN e /\ Capacity' = c
           /\ entries' = Extended(e, c)
           /\ \/ status' = "rehash"
              \/ tags' = FreshTags(c) /\ UNCHANGED <<status, loop>>
  <2>1. Capacity <= c
    BY <1>1, <1>2
  <2>2. \A s \in 0..(Capacity - 1) : s \in 0..(c - 1) /\ s \in DOMAIN e
    BY <1>1, <2>1
  <2>3. \A s \in 0..(Capacity - 1) : entries'[s] = e[s]
    BY <1>2, <2>2 DEF Extended
  <2>4. ASSUME status' # "rehash" PROVE Contents' = {}
    <3>1. Holds({}, e)
      BY <1>2, <2>4, FreshHolds
    <3>2. Contents' = In(e, {})
      BY <3>1, HoldsContents
    <3> QED
      BY <3>2 DEF In
  <2> QED
    BY <1>2, <2>1, <2>3, <2>4 DEF Overwrites
<1> QED
  BY <1>2 DEF Reallocate, StartRehash

\* Resize keeps the entries its caller left, in their slots.
LEMMA ResizeFromWrites ==
  ASSUME TypeOK, status = "idle", NEW size \in Nat, NEW t, NEW n,
         NEW e, DOMAIN e = 0..(Capacity - 1), ResizeFrom(size, t, e, n)
  PROVE  Abort \/ Overwrites(e)
<1> DEFINE c == AdjustCapacity(size)
<1>1. c \in Capacities
  BY AdjustCapacityTyped
<1>2. \/ Abort
      \/ \E limit : Keep(t, e, n, limit)
      \/ Reallocate(c, t, e, n)
  BY DEF ResizeFrom
<1> HIDE DEF c
<1>3. CASE \E limit : Keep(t, e, n, limit)
  BY <1>3, SameSizeWrites DEF Keep
<1>4. CASE Reallocate(c, t, e, n)
  BY <1>1, <1>4, ReallocateWrites
<1> QED
  BY <1>2, <1>3, <1>4

\* Add writes one slot, growth or not.
LEMMA InsertWrites ==
  ASSUME TypeOK, status = "idle", NEW k \in Keys, NEW v \in Values, Insert(k, v)
  PROVE  Abort \/ Overwrites(Storing(VacantSlot(k), k, v))
<1> DEFINE t == [tags EXCEPT ![VacantSlot(k)] = TagOf[k]]
           e == Storing(VacantSlot(k), k, v)
<1>1. \/ ResizeFrom(Capacity + 1, t, e, Count + 1)
      \/ Keep(t, e, Count + 1, CountGrowthLimit)
  BY DEF Insert, Storing
<1>2. DOMAIN e = 0..(Capacity - 1)
  BY DEF Storing, TypeOK
<1>3. Capacity + 1 \in Nat
  BY CapacityBounds DEF TypeOK
<1> HIDE DEF t, e
<1>4. CASE ResizeFrom(Capacity + 1, t, e, Count + 1)
  BY <1>2, <1>3, <1>4, ResizeFromWrites DEF e
<1>5. CASE Keep(t, e, Count + 1, CountGrowthLimit)
  BY <1>5, SameSizeWrites DEF Keep, e
<1> QED
  BY <1>1, <1>4, <1>5

\* The other calls write no slot.
LEMMA OtherWrites ==
  ASSUME TypeOK, status = "idle", OtherCalls
  PROVE  Overwrites(entries)
<1>1. DOMAIN entries = 0..(Capacity - 1) /\ Capacity \in Capacities
  BY DEF TypeOK
<1>2. ASSUME entries' = entries, Capacity' = Capacity
      PROVE  Overwrites(entries)
  BY <1>2, SameSizeWrites
<1>3. Abort \/ Hang => Overwrites(entries)
  BY <1>2 DEF Abort, Hang, table
<1>4. ASSUME NEW k \in Keys, Find(k) \/ Remove(k)
      PROVE  Overwrites(entries)
  BY <1>2, <1>3, <1>4 DEF Find, Remove, table
<1>5. ASSUME Rehash PROVE Overwrites(entries)
  <2>1. Extended(entries, Capacity) = entries
    BY <1>1 DEF Extended, TypeOK
  <2> QED
    BY <1>2, <1>5 DEF Rehash, StartRehash, table
<1>6. ASSUME NEW size \in Sizes, Resize(size) PROVE Overwrites(entries)
  BY <1>1, <1>3, <1>6, HashAssumption, ResizeFromWrites DEF Resize
<1>7. ASSUME NEW size \in Sizes, Clear(size) PROVE Overwrites(entries)
  <2>1. AdjustCapacity(size) \in Capacities
    BY HashAssumption, AdjustCapacityTyped
  <2>2. \/ Reallocate(AdjustCapacity(size), NoTags, entries, 0)
        \/ Keep(FreshTags(Capacity), entries, 0, CountGrowthLimit)
    BY <1>7 DEF Clear
  <2> QED
    BY <1>1, <1>2, <1>3, <2>1, <2>2, ReallocateWrites DEF Keep
<1>8. ASSUME NEW mlf, SetMaxLoadFactor(mlf) PROVE Overwrites(entries)
  BY <1>2, <1>8 DEF SetMaxLoadFactor
<1> QED
  BY <1>4, <1>5, <1>6, <1>7, <1>8 DEF OtherCalls

\* A step of the table, as a loop in it sees it: the table does not shrink, and
\* a slot shows what it did or an entry that is now in the table.
Spares ==
  /\ Capacity <= Capacity'
  /\ \A s \in 0..(Capacity - 1) :
       \/ entries'[s] = entries[s]
       \/ entries'[s] \in Entry /\ entries'[s].key \in HeldKeys'

\* No key that is in the table before and after the step has changed slots.
Stays ==
  /\ Capacity' = Capacity \/ HeldKeys' = {}
  /\ \A s \in FullSlots' :
       \/ s \in FullSlots /\ entries'[s].key = entries[s].key
       \/ entries'[s].key \notin HeldKeys
  /\ \A s \in 0..(Capacity - 1) : s \in FullSlots' \/ entries'[s].key = entries[s].key

\* A slot in use or waiting for the rehash shows an entry in the table.
LEMMA ShownHeld ==
  ASSUME TypeOK', NEW s \in FullSlots' \cup PendingSlots'
  PROVE  entries'[s] \in Entry /\ entries'[s].key \in HeldKeys'
BY DEF TypeOK, HeldKeys, Contents

\* The keys in the table, between two calls.
LEMMA HeldAtRest ==
  ASSUME TypeOK, status = "idle"
  PROVE  HeldKeys = StoredKeys
BY ContentsAtRest DEF HeldKeys, KeysOf

\* A call that writes no slot and takes none.
LEMMA QuietSpares ==
  ASSUME TypeOK, Overwrites(entries),
         status' # "rehash" => FullSlots' \subseteq FullSlots
  PROVE  Spares /\ (status' # "rehash" => Stays)
<1>1. \A s \in FullSlots : s \in 0..(Capacity - 1)
  BY DEF FullSlots
<1>2. Contents' = {} => HeldKeys' = {}
  BY DEF HeldKeys
<1> QED
  BY <1>1, <1>2 DEF Overwrites, Spares, Stays

\* The slots in use after a call that is not Add.
LEMMA OtherSlots ==
  ASSUME CountInv, OtherCalls, status' # "rehash"
  PROVE  FullSlots' \subseteq FullSlots
<1>1. ASSUME Stops PROVE FullSlots' = FullSlots
  BY <1>1, StopsKeeps
<1>2. ASSUME NEW F \in SUBSET FullSlots, NEW e, Holds(F, e)
      PROVE  FullSlots' \subseteq FullSlots
  BY <1>2 DEF Holds
<1>3. ASSUME NEW k \in Keys, Find(k) \/ Remove(k) PROVE FullSlots' \subseteq FullSlots
  <2>1. \/ Hang \/ Holds(FullSlots, entries)
        \/ Holds(FullSlots \ {HitSlot(k)}, entries)
    BY <1>3, FindHolds, RemoveHolds
  <2> QED
    BY <1>1, <1>2, <2>1 DEF Stops
<1>4. ASSUME Rehash PROVE FullSlots' \subseteq FullSlots
  BY <1>2, <1>4, RehashHolds
<1>5. ASSUME NEW size \in Sizes, Resize(size) \/ Clear(size)
      PROVE  FullSlots' \subseteq FullSlots
  <2>1. Abort \/ Holds(FullSlots, entries) \/ Holds({}, entries)
    BY <1>5, ResizeHolds, ClearHolds
  <2> QED
    BY <1>1, <1>2, <2>1 DEF Stops
<1>6. ASSUME NEW mlf, SetMaxLoadFactor(mlf) PROVE FullSlots' \subseteq FullSlots
  BY <1>2, <1>6, LoadFactorHolds
<1> QED
  BY <1>3, <1>4, <1>5, <1>6 DEF OtherCalls

\* A call that stops.
LEMMA StopSpares ==
  ASSUME TypeOK, Stops
  PROVE  Spares /\ (status' # "rehash" => Stays)
<1>1. FullSlots' = FullSlots /\ entries' = entries /\ Capacity' = Capacity
  BY StopsKeeps DEF Stops, Hang, Abort, table
<1>2. Overwrites(entries)
  BY <1>1, SameSizeWrites
<1> QED
  BY <1>1, <1>2, QuietSpares

\* An Add of a key that is not in the table.
LEMMA InsertSpares ==
  ASSUME CountInv, TypeOK', status = "idle", NEW k \in Keys \ StoredKeys,
         NEW v \in Values, VacantSteps(k) # {}, Insert(k, v)
  PROVE  Spares /\ (status' # "rehash" => Stays)
<1> DEFINE s == VacantSlot(k)
           e == Storing(s, k, v)
<1>1. TypeOK /\ DOMAIN entries = 0..(Capacity - 1)
  BY DEF CountInv, TypeOK
<1>2. CASE Abort
  BY <1>1, <1>2, StopSpares DEF Stops
<1>3. CASE ~Abort
  <2>1. s \in 0..(Capacity - 1) /\ s \notin FullSlots /\ Holds(FullSlots \cup {s}, e)
    BY <1>3, InsertHolds
  <2>2. Overwrites(e)
    BY <1>1, <1>3, InsertWrites
  <2>3. e[s].key = k /\ \A x \in 0..(Capacity - 1) : x # s => e[x] = entries[x]
    BY <1>1, <2>1 DEF Storing
  <2> HIDE DEF s, e
  <2>4. entries'[s].key = k
    BY <2>1, <2>2, <2>3 DEF Overwrites
  <2>5. s \in FullSlots' \cup PendingSlots'
    BY <2>1 DEF Holds
  <2>6. entries'[s] \in Entry /\ entries'[s].key \in HeldKeys'
    BY <2>5, ShownHeld
  <2>7. Spares
    BY <2>2, <2>3, <2>6 DEF Spares, Overwrites
  <2>8. ASSUME status' # "rehash" PROVE Stays
    <3>1. FullSlots' = FullSlots \cup {s}
      BY <2>1, <2>8 DEF Holds
    <3>2. k \notin HeldKeys
      BY <1>1, HeldAtRest
    <3>3. \A x \in FullSlots : x \in 0..(Capacity - 1) /\ x # s
      BY <2>1 DEF FullSlots
    <3>4. Contents' = {} => HeldKeys' = {}
      BY DEF HeldKeys
    <3> QED
      BY <2>2, <2>3, <2>4, <2>8, <3>1, <3>2, <3>3, <3>4 DEF Stays, Overwrites
  <2> QED
    BY <2>7, <2>8
<1> QED
  BY <1>2, <1>3

\* An Add that finds its key.
LEMMA UpdateSpares ==
  ASSUME TypeOK, TypeOK', NEW s \in FullSlots, NEW v, NEW update,
         entries' = IF update THEN Updating(s, v) ELSE entries,
         UNCHANGED <<tags, Capacity, status>>
  PROVE  Spares /\ (status' # "rehash" => Stays)
<1>1. FullSlots' = FullSlots /\ Capacity <= Capacity'
  BY CapacityBounds DEF FullSlots, TypeOK
<1>2. \A x \in FullSlots : x \in 0..(Capacity - 1)
  BY DEF FullSlots
<1>3. entries[s] \in Entry /\ s \in DOMAIN entries
  BY DEF TypeOK, FullSlots
<1>4. /\ \A x \in 0..(Capacity - 1) : x # s => entries'[x] = entries[x]
      /\ entries'[s].key = entries[s].key
  BY <1>3 DEF Updating, TypeOK, Entry
<1>5. entries'[s] \in Entry /\ entries'[s].key \in HeldKeys'
  BY <1>1, ShownHeld
<1> QED
  BY <1>1, <1>2, <1>4, <1>5 DEF Spares, Stays

\* Any call of a client of the map spares a loop in it.
LEMMA CallSpares ==
  ASSUME MapInv, MapInv', MistestedLanes = {}, MapNext, status = "idle"
  PROVE  Spares /\ (status' # "rehash" => Stays)
<1>1. CountInv /\ TypeOK /\ TypeOK'
  BY DEF MapInv, CountInv
<1>2. ASSUME NEW k \in Keys, NEW v \in Values, MayAdd(k), CheckedAdds(k, v)
      PROVE  Spares /\ (status' # "rehash" => Stays)
  <2>1. PICK op, update : AddChecked(op, k, v, update)
    BY <1>2 DEF CheckedAdds, Add, AddOrUpdate
  <2>2. CASE Hang
    BY <1>1, <2>2, StopSpares DEF Stops
  <2>3. CASE /\ HitSlot(k) \in FullSlots
             /\ entries' = IF update THEN Updating(HitSlot(k), v) ELSE entries
             /\ UNCHANGED <<tags, Capacity, status, loop>>
    BY <1>1, <2>3, UpdateSpares
  <2>4. CASE k \notin StoredKeys /\ VacantSteps(k) # {} /\ Insert(k, v)
    BY <1>1, <2>4, InsertSpares
  <2> QED
    BY <1>2, <2>1, <2>2, <2>3, <2>4, CheckedOutcome
<1>3. ASSUME NEW k \in Keys, NEW v \in Values, k \notin StoredKeys, UniqueAdds(k, v)
      PROVE  Spares /\ (status' # "rehash" => Stays)
  <2>1. Hang \/ (VacantSteps(k) # {} /\ Insert(k, v))
    BY <1>3 DEF UniqueAdds, AddUnique
  <2> QED
    BY <1>1, <1>3, <2>1, StopSpares, InsertSpares DEF Stops
<1>4. ASSUME OtherCalls
      PROVE  Spares /\ (status' # "rehash" => Stays)
  BY <1>1, <1>4, OtherWrites, OtherSlots, QuietSpares
<1>5. ~RehashLoop
  BY DEF RehashLoop, RehashSkip, RehashTake, RehashDisplace, RehashDone
<1> QED
  BY <1>2, <1>3, <1>4, <1>5 DEF MapNext

\* So does every step of a rehash, which moves entries all the same.
LEMMA RehashSpares ==
  ASSUME TypeOK, TypeOK', RehashLoop
  PROVE  Spares /\ Capacity' = Capacity
<1>1. ASSUME entries' = entries, Capacity' = Capacity
      PROVE  Spares /\ Capacity' = Capacity
  BY <1>1, CapacityBounds DEF Spares, TypeOK
<1>2. ASSUME NEW s, NEW entry, NEW rest, Moves(s, entry, rest)
      PROVE  Spares /\ Capacity' = Capacity
  <2>1. /\ entries' = [entries EXCEPT ![s] = entry] /\ Capacity' = Capacity
        /\ s \in FullSlots'
    BY <1>2 DEF Moves
  <2>2. entries'[s] \in Entry /\ entries'[s].key \in HeldKeys'
    BY <2>1, ShownHeld
  <2> QED
    BY <2>1, <2>2, CapacityBounds DEF Spares, TypeOK
<1>3. CASE RehashTake \/ RehashDisplace
  BY <1>1, <1>2, <1>3, PlacementMoves DEF Hang, table
<1>4. CASE RehashSkip \/ RehashDone
  BY <1>1, <1>4 DEF RehashSkip, RehashDone, table
<1> QED
  BY <1>3, <1>4 DEF RehashLoop

-----------------------------------------------------------------------------
(* Seek.                                                                   *)

\* Of two multiples of d, the larger one is larger by d at least.
LEMMA Multiples ==
  ASSUME NEW d \in Nat \ {0}, NEW x \in Nat, NEW y \in Nat,
         x % d = 0, y % d = 0, x <= y
  PROVE  /\ (y - x) % d = 0 /\ (x + d) % d = 0
         /\ x < y => x + d <= y
<1> DEFINE p == x \div d
           q == y \div d
<1>1. x = d * p /\ y = d * q /\ p \in Nat /\ q \in Nat
  BY Divided
<1>2. x + d = d * (p + 1) /\ p + 1 \in Nat
  BY <1>1
<1>3. p <= q
  <2>1. ASSUME q + 1 <= p PROVE FALSE
    <3>1. d * (q + 1) <= d * p
      BY <1>1, <2>1, TimesMonotone
    <3>2. d * (q + 1) = d * q + d
      BY <1>1
    <3> QED
      BY <1>1, <3>1, <3>2
  <2> QED
    BY <1>1, <2>1
<1>4. y - x = d * (q - p) + 0 /\ q - p \in Nat /\ 0 \in 0..(d - 1)
  BY <1>1, <1>3
<1>5. (d * (q - p) + 0) % d = 0 /\ (d * (p + 1) + 0) % d = 0
  BY <1>2, <1>4, Parts
<1>6. x < y => x + d <= y
  <2>1. ASSUME x < y PROVE p + 1 <= q
    BY <1>1, <1>3, <2>1
  <2>2. p + 1 <= q => d * (p + 1) <= d * q
    BY <1>1, <1>2, TimesMonotone
  <2> QED
    BY <1>1, <1>2, <2>1, <2>2
<1> QED
  BY <1>2, <1>4, <1>5, <1>6

\* A sum of multiples is one.
LEMMA MultiplesAdd ==
  ASSUME NEW d \in Nat \ {0}, NEW x \in Nat, NEW y \in Nat,
         x % d = 0, y % d = 0
  PROVE  (x + y) % d = 0
<1>1. x = d * (x \div d) /\ x \div d \in Nat
  BY Divided
<1>2. y = d * (y \div d) /\ y \div d \in Nat
  BY Divided
<1>3. x + y = d * (x \div d + y \div d) + 0 /\ 0 \in 0..(d - 1)
  BY <1>1, <1>2
<1>4. x \div d + y \div d \in Nat
  BY <1>1, <1>2
<1>5. (d * (x \div d + y \div d) + 0) % d = 0
  BY <1>3, <1>4, Parts
<1> QED
  BY <1>3, <1>5

\* The multiple of d that s lies behind.
LEMMA MultipleBelow ==
  ASSUME NEW d \in Nat \ {0}, NEW s \in Nat
  PROVE  /\ s % d \in 0..(d - 1) /\ s - (s % d) \in Nat
         /\ (s - (s % d)) % d = 0
         /\ \A b \in Nat : b % d = 0 /\ b <= s => b <= s - (s % d)
<1> DEFINE x == s - (s % d)
<1>1. /\ s % d \in 0..(d - 1) /\ s \div d \in Nat
      /\ x = d * (s \div d) + 0 /\ x \in Nat
  BY Divided
<1>2. x % d = 0
  <2>1. (d * (s \div d) + 0) % d = 0
    <3>1. 0 \in 0..(d - 1)
      OBVIOUS
    <3> QED
      BY <1>1, <3>1, Parts
  <2> QED
    BY <1>1, <2>1
<1> HIDE DEF x
<1>3. ASSUME NEW b \in Nat, b % d = 0, b <= s, x < b PROVE FALSE
  <2>1. x + d <= b
    BY <1>1, <1>2, <1>3, Multiples
  <2> QED
    BY <1>1, <1>3, <2>1 DEF x
<1>4. \A b \in Nat : b % d = 0 /\ b <= s => b <= x
  BY <1>1, <1>3
<1> QED
  BY <1>1, <1>2, <1>4 DEF x

\* The table consists of whole vectors.
LEMMA WholeVectors ==
  ASSUME TypeOK
  PROVE  /\ VECTOR \in Nat \ {0} /\ Capacity \in Nat \ {0} /\ Capacity % VECTOR = 0
         /\ None \notin Nat /\ None \notin Loops
BY CapacityBounds, VectorAssumption DEF TypeOK

\* The slots that the mask of i still leads to, and all that i has still to visit
MaskSlots(i) == {i.base + l : l \in i.mask}
Unvisited(i) == MaskSlots(i) \cup {s \in 0..(Capacity - 1) : s >= i.base + VECTOR}

\* i is a position in the table.
Placed(i) ==
  /\ i.base \in Nat /\ i.base % VECTOR = 0 /\ i.base < Capacity
  /\ i.mask \subseteq 0..(VECTOR - 1)

\* i is where a loop comes to that has still the slots `ahead` to visit, some
\* of them, `left`, by an old mask: the next of those in use, and it leads to
\* the others.
Reaches(i, ahead, left) ==
  /\ Placed(i) /\ i.idx \in 0..(Capacity - 1)
  /\ i.idx \notin Unvisited(i)
  /\ \A s \in FullSlots : s \in ahead <=> s = i.idx \/ s \in Unvisited(i)
  /\ \A s \in MaskSlots(i) \cup {i.idx} : s \in FullSlots \/ s \in left

\* The slots of a vector that is in the table
LEMMA PlacedSlots ==
  ASSUME TypeOK, NEW b \in Nat, b % VECTOR = 0, b < Capacity
  PROVE  /\ b + VECTOR <= Capacity
         /\ \A l \in 0..(VECTOR - 1) : b + l \in 0..(Capacity - 1)
         /\ \A l \in CalcMask(b) : b + l \in FullSlots
         /\ CalcMask(b) \subseteq 0..(VECTOR - 1)
<1>1. b + VECTOR <= Capacity /\ VECTOR \in Nat /\ Capacity \in Nat
  BY WholeVectors, Multiples
<1> QED
  BY <1>1 DEF CalcMask, FullSlots

\* The next lane of a mask.
LEMMA AtReaches ==
  ASSUME TypeOK, NEW b \in Nat, b % VECTOR = 0, b < Capacity,
         NEW mask \in SUBSET (0..(VECTOR - 1)), mask # {}
  PROVE  /\ Placed(At(b, mask)) /\ At(b, mask).idx \in 0..(Capacity - 1)
         /\ At(b, mask).base = b
         /\ At(b, mask).idx \notin Unvisited(At(b, mask))
         /\ {b + l : l \in mask} = MaskSlots(At(b, mask)) \cup {At(b, mask).idx}
<1> DEFINE i == At(b, mask)
           m == Min(mask)
<1>1. VECTOR \in Nat \ {0} /\ Capacity \in Nat
  BY WholeVectors
<1>2. m \in mask /\ m \in 0..(VECTOR - 1)
  <2>1. mask \in SUBSET Nat
    BY <1>1
  <2> QED
    BY <2>1, MinNat
<1> HIDE DEF m
<1>3. i.idx = b + m /\ i.base = b /\ i.mask = mask \ {m}
  BY DEF At, LanesLeft, m
<1> HIDE DEF i
<1>4. i.idx \in 0..(Capacity - 1)
  <2>1. \A l \in 0..(VECTOR - 1) : b + l \in 0..(Capacity - 1)
    BY PlacedSlots
  <2> QED
    BY <1>2, <1>3, <2>1
<1>5. i.idx \notin MaskSlots(i)
  <2>1. \A l \in mask \ {m} : b + l # b + m
    BY <1>1, <1>2
  <2> QED
    BY <1>3, <2>1 DEF MaskSlots
<1>6. i.idx < i.base + VECTOR
  BY <1>1, <1>2, <1>3
<1>7. {b + l : l \in mask} = MaskSlots(i) \cup {i.idx}
  BY <1>2, <1>3 DEF MaskSlots
<1>8. i.idx \notin Unvisited(i)
  BY <1>1, <1>2, <1>3, <1>5, <1>6 DEF Unvisited
<1> QED
  BY <1>2, <1>3, <1>4, <1>7, <1>8 DEF Placed, i

\* The bases are numbers of whole vectors, none is left out, and the last one
\* is the end of the table.
LEMMA BasesCover ==
  ASSUME TypeOK, NEW b \in Nat, b % VECTOR = 0, b <= Capacity
  PROVE  /\ \A x \in Bases(b) : x \in Nat /\ x % VECTOR = 0 /\ b <= x
         /\ Capacity \in Bases(b)
         /\ \A s \in 0..(Capacity - 1) :
              b <= s => s - (s % VECTOR) \in Bases(b)
<1>1. VECTOR \in Nat \ {0} /\ Capacity \in Nat \ {0} /\ Capacity % VECTOR = 0
  BY WholeVectors
<1>2. ASSUME NEW x \in Bases(b) PROVE x \in Nat /\ x % VECTOR = 0 /\ b <= x
  <2>1. x \in Nat /\ b <= x /\ (x - b) % VECTOR = 0 /\ x - b \in Nat
    BY <1>1, <1>2 DEF Bases
  <2>2. PICK y \in Nat : y = x - b
    BY <2>1
  <2>3. y % VECTOR = 0
    BY <2>1, <2>2
  <2>4. (b + y) % VECTOR = 0
    BY <1>1, <2>3, MultiplesAdd
  <2>5. b + y = x
    BY <2>1, <2>2
  <2> QED
    BY <2>1, <2>4, <2>5
<1>3. Capacity \in Bases(b)
  <2>1. (Capacity - b) % VECTOR = 0
    BY <1>1, Multiples
  <2> QED
    BY <1>1, <2>1 DEF Bases
<1>4. ASSUME NEW s \in 0..(Capacity - 1), b <= s
      PROVE  s - (s % VECTOR) \in Bases(b)
  <2> DEFINE x == s - (s % VECTOR)
  <2>1. s \in Nat
    OBVIOUS
  <2>2. x \in Nat /\ x % VECTOR = 0 /\ b <= x /\ x <= s
    <3>1. s % VECTOR \in 0..(VECTOR - 1) /\ x \in Nat /\ x % VECTOR = 0 /\ b <= x
      BY <1>1, <1>4, <2>1, MultipleBelow
    <3> QED
      BY <1>1, <2>1, <3>1
  <2> HIDE DEF x
  <2>3. (x - b) % VECTOR = 0
    BY <1>1, <2>2, Multiples
  <2>4. x \in b..(Capacity + VECTOR)
    BY <1>1, <2>2
  <2> QED
    BY <2>3, <2>4 DEF Bases, x
<1> QED
  BY <1>2, <1>3, <1>4

\* The loop of Seek, over the bases behind which the slots from b on lie, finds
\* the next slot in use, or the end of the table if there is none.
LEMMA SeekFromReaches ==
  ASSUME TypeOK, NEW b \in Nat, NEW bases \in SUBSET Nat,
         \A x \in bases : x % VECTOR = 0 /\ b <= x,
         Capacity \in bases,
         \A s \in 0..(Capacity - 1) : b <= s => s - (s % VECTOR) \in bases
  PROVE  \/ /\ SeekFrom(bases).idx = Capacity
            /\ \A s \in FullSlots : ~(b <= s)
         \/ Reaches(SeekFrom(bases), {s \in 0..(Capacity - 1) : s >= b}, {})
<1> DEFINE S == {x \in bases : x >= Capacity \/ CalcMask(x) # {}}
           m == Min(S)
           i == SeekFrom(bases)
<1>1. VECTOR \in Nat \ {0} /\ Capacity \in Nat \ {0}
  BY WholeVectors
<1>2. m \in S /\ \A x \in S : m <= x
  <2>1. S \in SUBSET Nat
    OBVIOUS
  <2>2. Capacity >= Capacity
    BY <1>1
  <2>3. S # {}
    BY <2>2
  <2> QED
    BY <2>1, <2>3, MinNat
<1>3. m \in bases /\ m \in Nat /\ m <= Capacity /\ m % VECTOR = 0 /\ b <= m
  <2>1. Capacity >= Capacity
    BY <1>1
  <2>2. Capacity \in S
    BY <2>1
  <2>3. m <= Capacity /\ m \in bases
    BY <1>2, <2>2
  <2> QED
    BY <2>3
\* A slot in use lies behind a base of a vector that is not empty.
<1>4. ASSUME NEW s \in FullSlots, b <= s
      PROVE  m <= s - (s % VECTOR) /\ s \in 0..(Capacity - 1)
  <2> DEFINE x == s - (s % VECTOR)
  <2>1. s \in 0..(Capacity - 1) /\ s \in Nat /\ IsFull(tags[s])
    BY <1>1 DEF FullSlots
  <2>2. x \in bases
    BY <1>4, <2>1
  <2>3. s % VECTOR \in 0..(VECTOR - 1) /\ x \in Nat
    BY <1>1, <2>1, MultipleBelow
  <2> HIDE DEF x
  <2>4. x + (s % VECTOR) = s
    BY <2>1, <2>3 DEF x
  <2>5. s % VECTOR \in CalcMask(x)
    BY <2>1, <2>3, <2>4 DEF CalcMask
  <2>6. x \in S
    BY <2>2, <2>5
  <2> QED
    BY <1>2, <2>1, <2>6 DEF x
<1>5. i = IF m >= Capacity THEN [idx |-> m, base |-> m, mask |-> {}]
                            ELSE At(m, CalcMask(m))
  BY DEF SeekFrom
<1> HIDE DEF i, m
<1>6. CASE m >= Capacity
  <2>1. m = Capacity /\ i.idx = Capacity
    BY <1>1, <1>3, <1>5, <1>6
  <2>2. ASSUME NEW s \in FullSlots, b <= s PROVE FALSE
    <3>1. s \in Nat /\ s < Capacity /\ Capacity <= s - (s % VECTOR)
      BY <1>1, <1>4, <2>1, <2>2
    <3>2. s % VECTOR \in 0..(VECTOR - 1)
      BY <1>1, <3>1, MultipleBelow
    <3> QED
      BY <1>1, <3>1, <3>2
  <2> QED
    BY <2>1, <2>2 DEF i
<1>7. CASE ~(m >= Capacity)
  <2>1. m < Capacity /\ CalcMask(m) # {} /\ i = At(m, CalcMask(m))
    BY <1>1, <1>2, <1>3, <1>5, <1>7
  <2>2. /\ m + VECTOR <= Capacity
        /\ \A l \in CalcMask(m) : m + l \in FullSlots
        /\ CalcMask(m) \in SUBSET (0..(VECTOR - 1))
    BY <1>3, <2>1, PlacedSlots
  <2>3. /\ Placed(i) /\ i.idx \in 0..(Capacity - 1) /\ i.base = m
        /\ i.idx \notin Unvisited(i)
        /\ {m + l : l \in CalcMask(m)} = MaskSlots(i) \cup {i.idx}
    BY <1>3, <2>1, <2>2, AtReaches
  <2>4. \A s \in MaskSlots(i) \cup {i.idx} : s \in FullSlots
    BY <2>2, <2>3
  <2>5. ASSUME NEW s \in FullSlots, b <= s
        PROVE  s = i.idx \/ s \in Unvisited(i)
    <3>1. s \in 0..(Capacity - 1) /\ s \in Nat /\ IsFull(tags[s]) /\ m <= s - (s % VECTOR)
      BY <1>1, <1>4, <2>5 DEF FullSlots
    <3>2. s % VECTOR \in 0..(VECTOR - 1)
      BY <1>1, <3>1, MultipleBelow
    <3>3. CASE s >= m + VECTOR
      BY <2>3, <3>1, <3>3 DEF Unvisited
    <3>4. CASE s < m + VECTOR
      <4>1. s - m \in 0..(VECTOR - 1) /\ m + (s - m) = s
        BY <1>1, <1>3, <3>1, <3>2, <3>4
      <4>2. s - m \in CalcMask(m)
        BY <3>1, <4>1 DEF CalcMask
      <4>3. s \in {m + l : l \in CalcMask(m)}
        BY <4>1, <4>2
      <4> QED
        BY <2>3, <4>3 DEF Unvisited
    <3> QED
      BY <1>1, <1>3, <3>1, <3>3, <3>4
  <2>6. ASSUME NEW s \in FullSlots, s = i.idx \/ s \in Unvisited(i)
        PROVE  s \in 0..(Capacity - 1) /\ s >= b
    <3>1. s \in 0..(Capacity - 1) /\ s \in Nat
      BY <1>1 DEF FullSlots
    <3>2. CASE s \in {m + l : l \in CalcMask(m)}
      BY <1>3, <2>2, <3>1, <3>2
    <3>3. CASE s >= m + VECTOR
      BY <1>1, <1>3, <3>1, <3>3
    <3> QED
      BY <2>3, <2>6, <3>1, <3>2, <3>3 DEF Unvisited
  <2>7. \A s \in FullSlots :
          s \in {x \in 0..(Capacity - 1) : x >= b} <=> s = i.idx \/ s \in Unvisited(i)
    BY <1>1, <2>5, <2>6
  <2>8. Reaches(i, {s \in 0..(Capacity - 1) : s >= b}, {})
    BY <2>3, <2>4, <2>7 DEF Reaches
  <2> QED
    BY <2>8 DEF i
<1> QED
  BY <1>6, <1>7

\* begin() of a table that is not empty comes to its first slot in use.
LEMMA BeginReaches ==
  ASSUME CountInv, Count # 0
  PROVE  Reaches(BeginAt, 0..(Capacity - 1), {})
<1>1. TypeOK /\ Capacity \in Nat \ {0} /\ VECTOR \in Nat \ {0}
  BY WholeVectors DEF CountInv
<1>2. 0 \in Nat /\ 0 % VECTOR = 0 /\ 0 <= Capacity
  BY <1>1
<1>3. /\ \A x \in Bases(0) : x \in Nat /\ x % VECTOR = 0 /\ 0 <= x
      /\ Capacity \in Bases(0)
      /\ \A s \in 0..(Capacity - 1) : 0 <= s => s - (s % VECTOR) \in Bases(0)
  BY <1>1, <1>2, BasesCover
<1>4. \/ \A s \in FullSlots : ~(0 <= s)
      \/ Reaches(SeekFrom(Bases(0)), {s \in 0..(Capacity - 1) : s >= 0}, {})
  BY <1>1, <1>3, SeekFromReaches
<1>5. \E s \in FullSlots : 0 <= s
  <2>1. FullSlots # {}
    BY FS_EmptySet DEF CountInv, CountIsFull
  <2> QED
    BY <1>1, <2>1 DEF FullSlots
<1>6. {s \in 0..(Capacity - 1) : s >= 0} = 0..(Capacity - 1)
  BY <1>1
<1> QED
  BY <1>4, <1>5, <1>6 DEF BeginAt

\* operator++ comes to the next slot in use that the loop has not visited, be it
\* one the stale mask leads to, or to the end of the table.
LEMMA SeekReaches ==
  ASSUME TypeOK, NEW i, Placed(i)
  PROVE  \/ /\ Seek(i).idx = Capacity
            /\ \A s \in FullSlots : s \notin Unvisited(i)
         \/ Reaches(Seek(i), Unvisited(i), MaskSlots(i))
<1> DEFINE b == i.base
<1>1. /\ VECTOR \in Nat \ {0} /\ Capacity \in Nat \ {0} /\ Capacity % VECTOR = 0
      /\ b \in Nat /\ b % VECTOR = 0 /\ b < Capacity
      /\ i.mask \in SUBSET (0..(VECTOR - 1))
  BY WholeVectors DEF Placed
<1>2. CASE i.mask # {}
  <2> DEFINE j == At(b, i.mask)
  <2>1. Seek(i) = j
    BY <1>2 DEF Seek
  <2>2. /\ Placed(j) /\ j.idx \in 0..(Capacity - 1) /\ j.base = b
        /\ j.idx \notin Unvisited(j)
        /\ {b + l : l \in i.mask} = MaskSlots(j) \cup {j.idx}
    BY <1>1, <1>2, AtReaches
  <2> HIDE DEF j
  <2>3. MaskSlots(i) = MaskSlots(j) \cup {j.idx}
    BY <2>2 DEF MaskSlots
  <2>4. \A s : s \in Unvisited(i) <=> s = j.idx \/ s \in Unvisited(j)
    BY <2>2, <2>3 DEF Unvisited
  <2> QED
    BY <2>1, <2>2, <2>3, <2>4 DEF Reaches
<1>3. CASE i.mask = {}
  <2> DEFINE bases == Bases(b) \ {b}
             n == b + VECTOR
  <2>1. n \in Nat /\ n % VECTOR = 0 /\ n <= Capacity
    BY <1>1, Multiples
  <2>2. /\ \A x \in Bases(b) : x \in Nat /\ x % VECTOR = 0 /\ b <= x
        /\ Capacity \in Bases(b)
        /\ \A s \in 0..(Capacity - 1) : b <= s => s - (s % VECTOR) \in Bases(b)
    BY <1>1, BasesCover
  <2>3. \A x \in bases : x \in Nat /\ x % VECTOR = 0 /\ n <= x
    <3>1. ASSUME NEW x \in bases PROVE x \in Nat /\ x % VECTOR = 0 /\ b < x
      <4>1. x \in Bases(b) /\ x # b
        BY <3>1
      <4>2. x \in Nat /\ x % VECTOR = 0 /\ b <= x
        BY <2>2, <4>1
      <4> QED
        BY <1>1, <4>1, <4>2
    <3>2. ASSUME NEW x \in bases PROVE n <= x
      <4>1. x \in Nat /\ x % VECTOR = 0 /\ b < x /\ b <= x
        BY <1>1, <3>1
      <4> HIDE DEF bases
      <4> QED
        BY <1>1, <4>1, Multiples
    <3> QED
      BY <3>1, <3>2
  <2>4. Capacity \in bases
    BY <1>1, <2>2
  <2>5. ASSUME NEW s \in 0..(Capacity - 1), n <= s
        PROVE  s - (s % VECTOR) \in bases
    <3>1. s \in Nat /\ b <= s
      BY <1>1, <2>5
    <3>2. n <= s - (s % VECTOR)
      BY <1>1, <2>1, <2>5, <3>1, MultipleBelow
    <3>3. s - (s % VECTOR) \in Bases(b) /\ s - (s % VECTOR) \in Nat
      BY <1>1, <2>2, <3>1, MultipleBelow
    <3> QED
      BY <1>1, <3>2, <3>3
  <2>6. Seek(i) = SeekFrom(bases)
    BY <1>3 DEF Seek
  <2>7. {s \in 0..(Capacity - 1) : s >= n} = Unvisited(i) /\ MaskSlots(i) = {}
    BY <1>3 DEF Unvisited, MaskSlots
  <2>8. bases \in SUBSET Nat
    BY <2>3
  <2> HIDE DEF bases, n
  <2>9. \/ SeekFrom(bases).idx = Capacity /\ \A s \in FullSlots : ~(n <= s)
        \/ Reaches(SeekFrom(bases), {s \in 0..(Capacity - 1) : s >= n}, {})
    BY <2>1, <2>3, <2>4, <2>5, <2>8, SeekFromReaches
  <2>10. \A s \in Unvisited(i) : n <= s
    BY <2>1, <2>7
  <2> QED
    BY <2>6, <2>7, <2>9, <2>10
<1> QED
  BY <1>2, <1>3

-----------------------------------------------------------------------------
(* The history of a loop.                                                  *)

\* h is the history of a loop that has still the slots `ahead` to visit, some
\* of them, `left`, by an old mask: an entry that has stayed in its slot was
\* visited once, or is ahead; and what is left has been in the table.
Faithful(h, ahead, left) ==
  /\ DOMAIN h.visits \subseteq HeldKeys /\ HeldKeys \subseteq h.everIn
  /\ h.visits \in [DOMAIN h.visits -> 0..VisitBound]
  /\ \A s \in FullSlots :
       entries[s].key \in DOMAIN h.visits
         => h.visits[entries[s].key] = IF s \in ahead THEN 0 ELSE 1
  /\ \A s \in left :
       /\ entries[s] \in Entry /\ entries[s].key \in h.everIn
       /\ s \in FullSlots \/ entries[s].key \notin DOMAIN h.visits

\* Visits are counted up to the bound.
LEMMA VisitCounted ==
  /\ Min({0 + 1, VisitBound}) = 1
  /\ \A n \in 0..VisitBound : Min({n + 1, VisitBound}) \in 0..VisitBound
<1>1. ASSUME NEW n \in 0..VisitBound
      PROVE  /\ Min({n + 1, VisitBound}) \in {n + 1, VisitBound}
             /\ \A x \in {n + 1, VisitBound} : Min({n + 1, VisitBound}) <= x
  <2>1. {n + 1, VisitBound} \in SUBSET Nat /\ {n + 1, VisitBound} # {}
    BY DEF VisitBound
  <2> QED
    BY <2>1, MinNat
<1>2. \A n \in 0..VisitBound : Min({n + 1, VisitBound}) \in 0..VisitBound
  <2> TAKE n \in 0..VisitBound
  <2>1. /\ Min({n + 1, VisitBound}) \in {n + 1, VisitBound}
        /\ Min({n + 1, VisitBound}) <= VisitBound
    BY <1>1
  <2> QED
    BY <2>1 DEF VisitBound
<1>3. Min({0 + 1, VisitBound}) = 1
  <2>1. /\ Min({0 + 1, VisitBound}) \in {0 + 1, VisitBound}
        /\ Min({0 + 1, VisitBound}) <= 0 + 1
    BY <1>1 DEF VisitBound
  <2> QED
    BY <2>1 DEF VisitBound
<1> QED
  BY <1>2, <1>3

\* A slot in use shows an entry in the table.
LEMMA UsedHeld ==
  ASSUME TypeOK
  PROVE  \A s \in FullSlots : entries[s] \in Entry /\ entries[s].key \in HeldKeys
BY DEF TypeOK, HeldKeys, Contents

\* A visit keeps the history true.
LEMMA VisitFaithful ==
  ASSUME TypeOK, NoDuplicates, NEW i, NEW h, NEW ahead, NEW left,
         Reaches(i, ahead, left), Faithful(h, ahead, left), NEW j,
         j.visits = [x \in DOMAIN h.visits |->
                       IF x = entries[i.idx].key THEN Min({h.visits[x] + 1, VisitBound})
                                                 ELSE h.visits[x]],
         j.everIn = h.everIn
  PROVE  Faithful(j, Unvisited(i), MaskSlots(i))
<1> DEFINE k == entries[i.idx].key
           D == DOMAIN h.visits
<1>1. DOMAIN j.visits = D
  OBVIOUS
<1>2. \A x \in D : h.visits[x] \in 0..VisitBound
  BY DEF Faithful
<1>3. j.visits \in [D -> 0..VisitBound]
  BY <1>2, VisitCounted
<1>4. ASSUME NEW s \in FullSlots, entries[s].key \in D
      PROVE  j.visits[entries[s].key] = IF s \in Unvisited(i) THEN 0 ELSE 1
  <2>1. h.visits[entries[s].key] = IF s \in ahead THEN 0 ELSE 1
    BY <1>4 DEF Faithful
  <2>2. CASE s = i.idx
    <3>1. s \in ahead /\ s \notin Unvisited(i)
      BY <2>2 DEF Reaches
    <3>2. j.visits[k] = Min({0 + 1, VisitBound})
      BY <1>4, <2>1, <2>2, <3>1
    <3> QED
      BY <2>2, <3>1, <3>2, VisitCounted
  <2>3. CASE s # i.idx
    <3>1. entries[s].key # k
      <4>1. CASE i.idx \in FullSlots
        BY <2>3, <4>1 DEF NoDuplicates
      <4>2. CASE i.idx \in left /\ i.idx \notin FullSlots
        BY <1>4, <4>2 DEF Faithful
      <4> QED
        BY <4>1, <4>2 DEF Reaches
    <3>2. s \in ahead <=> s \in Unvisited(i)
      BY <2>3 DEF Reaches
    <3> QED
      BY <1>4, <2>1, <3>1, <3>2
  <2> QED
    BY <2>2, <2>3
<1>5. ASSUME NEW s \in MaskSlots(i)
      PROVE  /\ entries[s] \in Entry /\ entries[s].key \in h.everIn
             /\ s \in FullSlots \/ entries[s].key \notin D
  <2>1. CASE s \in FullSlots
    BY <2>1, UsedHeld DEF Faithful
  <2>2. CASE s \in left
    BY <2>2 DEF Faithful
  <2> QED
    BY <2>1, <2>2 DEF Reaches
<1>6. D \subseteq HeldKeys /\ HeldKeys \subseteq h.everIn
  BY DEF Faithful
<1> HIDE DEF D
<1> QED
  BY <1>1, <1>3, <1>4, <1>5, <1>6 DEF Faithful

\* The history that a loop begins with is true.
LEMMA BeginFaithful ==
  ASSUME TypeOK, status = "idle", NEW h,
         h.visits = [k \in HeldKeys |-> 0], h.everIn = HeldKeys
  PROVE  Faithful(h, 0..(Capacity - 1), {})
<1>1. 0 \in 0..VisitBound
  BY DEF VisitBound
<1>2. \A s \in FullSlots : s \in 0..(Capacity - 1)
  BY DEF FullSlots
<1> QED
  BY <1>1, <1>2, UsedHeld DEF Faithful

\* A loop is at a slot of the table, and its history is true; it has seen
\* entries stay in their slots only if the table has kept its size.
LoopInv ==
  it # None /\ status \in {"idle", "rehash"} =>
    /\ it \in Loops /\ Placed(it)
    /\ it.last # None => it.last <= Capacity
    /\ Faithful(it, Unvisited(it), MaskSlots(it))
    /\ DOMAIN it.visits # {} => status # "rehash" /\ it.last \in {None, Capacity}

\* The keys in the table are keys, and between two calls they are in slots.
LEMMA HeldTyped ==
  ASSUME TypeOK'
  PROVE  /\ HeldKeys' \subseteq Keys
         /\ status' = "idle" =>
              \A k \in HeldKeys' : \E s \in FullSlots' : entries'[s].key = k
<1>1. \A e \in Contents' : e \in Entry
  BY DEF TypeOK, Contents, CarriedEntry
<1>2. ASSUME status' = "idle"
      PROVE  \A k \in HeldKeys' : \E s \in FullSlots' : entries'[s].key = k
  <2>1. prevSize' = 0 /\ carried' = None
    BY <1>2 DEF TypeOK
  <2>2. DOMAIN prevTags' = {} \/ DOMAIN prevTags' = 0..(prevSize' + LANES - 1)
    BY DEF TypeOK, NoTags
  <2>3. \A s \in DOMAIN prevTags' : ~(s < prevSize')
    BY <2>1, <2>2
  <2>4. PendingSlots' = {}
    BY <2>3 DEF PendingSlots, Pending
  <2> QED
    BY <2>1, <2>4 DEF HeldKeys, Contents
<1> QED
  BY <1>1, <1>2 DEF HeldKeys, Entry

\* A step of the table ends no loop.
LEMMA RememberTyped ==
  ASSUME TypeOK', it # None, it \in Loops, Remember
  PROVE  /\ it' \in Loops
         /\ it'.idx = it.idx /\ it'.base = it.base /\ it'.mask = it.mask
<1> DEFINE E == IF status' = "rehash" THEN {} ELSE DOMAIN it.visits \cap HeldKeys'
<1>1. it' = [it EXCEPT !.visits = [k \in E |-> it.visits[k]],
                       !.everIn = @ \cup HeldKeys']
  BY DEF Remember
<1>2. DOMAIN it.visits \in SUBSET Keys /\ it.visits \in [DOMAIN it.visits -> 0..VisitBound]
  BY DEF Loops
<1>3. E \subseteq DOMAIN it.visits
  OBVIOUS
<1> HIDE DEF E
<1>4. [k \in E |-> it.visits[k]] \in [E -> 0..VisitBound] /\ E \in SUBSET Keys
  BY <1>2, <1>3
<1>5. [k \in E |-> it.visits[k]] \in UNION {[K -> 0..VisitBound] : K \in SUBSET Keys}
  BY <1>4
<1>6. it.everIn \cup HeldKeys' \in SUBSET Keys
  BY HeldTyped DEF Loops
<1> QED
  BY <1>1, <1>5, <1>6 DEF Loops

\* A step of the table keeps the history of a loop true.
LEMMA RememberFaithful ==
  ASSUME TypeOK, TypeOK', NoDuplicates, it # None, LoopInv, Spares, Remember,
         status \in {"idle", "rehash"}, status' \in {"idle", "rehash"},
         status = "idle" /\ status' = "idle" => Stays
  PROVE  LoopInv'
<1> DEFINE D == DOMAIN it.visits
           E == IF status' = "rehash" THEN {} ELSE D \cap HeldKeys'
<1>1. /\ it \in Loops /\ Placed(it) /\ (it.last # None => it.last <= Capacity)
      /\ Faithful(it, Unvisited(it), MaskSlots(it))
      /\ D # {} => status # "rehash" /\ it.last \in {None, Capacity}
  BY DEF LoopInv
<1>2. /\ it' = [it EXCEPT !.visits = [k \in E |-> it.visits[k]],
                          !.everIn = @ \cup HeldKeys']
      /\ E \subseteq D /\ E \subseteq HeldKeys'
      /\ E # {} => status' # "rehash"
  BY DEF Remember
<1>3. E # {} => status = "idle" /\ status' = "idle" /\ Stays
               /\ Capacity' = Capacity /\ it.last \in {None, Capacity}
  <2>1. ASSUME E # {} PROVE D # {} /\ HeldKeys' # {} /\ status' = "idle"
    BY <1>2, <2>1
  <2>2. ASSUME E # {} PROVE status = "idle"
    BY <1>1, <2>1, <2>2
  <2> QED
    BY <1>1, <2>1, <2>2 DEF Stays
<1> HIDE DEF D, E
<1>4. /\ it'.base = it.base /\ it'.mask = it.mask /\ it'.last = it.last
      /\ it'.idx = it.idx
      /\ it'.visits = [k \in E |-> it.visits[k]]
      /\ it'.everIn = it.everIn \cup HeldKeys'
  BY <1>1, <1>2 DEF Loops
<1>5. DOMAIN it'.visits = E
  BY <1>4
<1>6. D \in SUBSET Keys /\ it.visits \in [D -> 0..VisitBound]
  BY <1>1 DEF Loops, D
<1>7. it'.visits \in [E -> 0..VisitBound]
  BY <1>2, <1>4, <1>6
<1>8. it' \in Loops
  BY <1>1, RememberTyped
<1>9. Capacity \in Nat /\ Capacity' \in Nat /\ Capacity <= Capacity'
  BY CapacityBounds DEF Spares, TypeOK
<1>10. Placed(it)'
  BY <1>1, <1>4, <1>9 DEF Placed
<1>11. it'.last # None => it'.last <= Capacity'
  BY <1>1, <1>4, <1>9 DEF Loops
<1>12. /\ MaskSlots(it)' = MaskSlots(it)
       /\ E # {} => Unvisited(it)' = Unvisited(it)
  BY <1>3, <1>4 DEF MaskSlots, Unvisited
<1>13. /\ D \subseteq HeldKeys /\ HeldKeys \subseteq it.everIn
       /\ \A s \in FullSlots :
            entries[s].key \in D
              => it.visits[entries[s].key] = IF s \in Unvisited(it) THEN 0 ELSE 1
       /\ \A s \in MaskSlots(it) :
            /\ entries[s] \in Entry /\ entries[s].key \in it.everIn
            /\ s \in FullSlots \/ entries[s].key \notin D
  BY <1>1 DEF Faithful, D
<1>14. ASSUME NEW s \in FullSlots', entries'[s].key \in E
       PROVE  it'.visits[entries'[s].key] = IF s \in Unvisited(it)' THEN 0 ELSE 1
  <2>1. entries'[s].key \in D /\ Unvisited(it)' = Unvisited(it)
    BY <1>2, <1>12, <1>14
  <2>2. s \in FullSlots /\ entries'[s].key = entries[s].key
    BY <1>3, <1>13, <1>14, <2>1 DEF Stays
  <2>3. it'.visits[entries'[s].key] = it.visits[entries[s].key]
    BY <1>4, <1>14, <2>2
  <2> QED
    BY <1>13, <2>1, <2>2, <2>3
<1>15. \A s \in MaskSlots(it) : s \in 0..(Capacity - 1)
  BY <1>1, PlacedSlots DEF Placed, MaskSlots
<1>16. ASSUME NEW s \in MaskSlots(it)
       PROVE  /\ entries'[s] \in Entry /\ entries'[s].key \in it'.everIn
              /\ s \in FullSlots' \/ entries'[s].key \notin E
  <2>1. entries'[s] \in Entry /\ entries'[s].key \in it'.everIn
    BY <1>4, <1>13, <1>15 DEF Spares
  <2>2. ASSUME s \notin FullSlots', entries'[s].key \in E PROVE FALSE
    <3>1. entries'[s].key = entries[s].key /\ Stays /\ status' = "idle"
      BY <1>3, <1>15, <2>2 DEF Stays
    <3>2. entries[s].key \in D /\ s \in FullSlots
      BY <1>2, <1>13, <2>2, <3>1
    <3>3. PICK t \in FullSlots' : entries'[t].key = entries[s].key
      BY <1>2, <2>2, <3>1, HeldTyped
    <3>4. t \in FullSlots /\ entries[t].key = entries[s].key
      BY <1>13, <3>1, <3>2, <3>3 DEF Stays
    <3>5. t = s
      BY <3>2, <3>4 DEF NoDuplicates
    <3> QED
      BY <2>2, <3>3, <3>5
  <2> QED
    BY <2>1, <2>2
<1>17. E \subseteq HeldKeys' /\ HeldKeys' \subseteq it'.everIn
  BY <1>2, <1>4
<1>18. Faithful(it, Unvisited(it), MaskSlots(it))'
  BY <1>5, <1>7, <1>12, <1>14, <1>16, <1>17 DEF Faithful
<1>19. E # {} => status' # "rehash" /\ it'.last \in {None, Capacity'}
  BY <1>3, <1>4
<1> QED
  BY <1>5, <1>8, <1>10, <1>11, <1>18, <1>19 DEF LoopInv

-----------------------------------------------------------------------------
(* A loop over a map.                                                      *)

\* The table and the loop in it; once the loop has left the table, only where.
IterInv ==
  /\ status # "wild" => MapInv /\ LoopInv
  /\ WildOnlyByGrowthOrEmptying

\* What the body of a loop did, as CallSpares and RehashSpares see it.
LEMMA CallKeeps ==
  ASSUME IterInv, MistestedLanes = {}, Call
  PROVE  IterInv'
<1>1. status \in {"idle", "rehash"}
  BY DEF Call, MapNext, CheckedAdds, Add, AddOrUpdate, AddChecked, UniqueAdds, AddUnique,
     OtherCalls, Find, Remove, Rehash, Resize, Clear, SetMaxLoadFactor,
     RehashLoop, RehashSkip, RehashTake, RehashDisplace, RehashDone
<1>2. MapInv /\ LoopInv
  BY <1>1 DEF IterInv
<1>3. MapInv'
  BY <1>2, MapStep DEF Call
<1>4. TypeOK /\ TypeOK' /\ NoDuplicates
  BY <1>2, <1>3 DEF MapInv, CountInv
<1>5. status' # "wild"
  BY <1>4 DEF TypeOK
<1>6. ASSUME it # None, status' \in {"idle", "rehash"} PROVE LoopInv'
  <2>1. CASE status = "idle"
    <3>1. Spares /\ (status' # "rehash" => Stays)
      BY <1>2, <1>3, <2>1, CallSpares DEF Call
    <3> QED
      BY <1>1, <1>2, <1>4, <1>6, <3>1, RememberFaithful DEF Call
  <2>2. CASE status = "rehash"
    <3>1. RehashLoop
      BY <2>2 DEF Call, MapNext, CheckedAdds, Add, AddOrUpdate, AddChecked, UniqueAdds,
         AddUnique, OtherCalls, Find, Remove, Rehash, Resize, Clear, SetMaxLoadFactor
    <3>2. Spares
      BY <1>4, <3>1, RehashSpares
    <3> QED
      BY <1>1, <1>2, <1>4, <1>6, <2>2, <3>2, RememberFaithful DEF Call
  <2> QED
    BY <1>1, <2>1, <2>2
<1>7. it = None => it' = None
  BY DEF Call, Remember
<1> QED
  BY <1>3, <1>5, <1>6, <1>7 DEF IterInv, LoopInv, WildOnlyByGrowthOrEmptying

\* The end a loop may compare with.
LEMMA EndBounds ==
  ASSUME TypeOK
  PROVE  EndIdx \in Nat /\ EndIdx <= Capacity /\ (Count # 0 => EndIdx = Capacity)
BY CapacityBounds DEF TypeOK, EndIdx

\* Where a loop is that goes on: the entry there is visited.
LEMMA VisitKeeps ==
  ASSUME TypeOK, NoDuplicates, status = "idle", NEW i, NEW h, NEW ahead, NEW left,
         Reaches(i, ahead, left), Faithful(h, ahead, left),
         DOMAIN h.visits \subseteq Keys, h.everIn \in SUBSET Keys,
         NEW last \in Nat \cup {None}, last # None => last <= Capacity,
         DOMAIN h.visits # {} => last \in {None, Capacity},
         it' = [idx |-> i.idx, base |-> i.base, mask |-> i.mask, last |-> last,
                visits |-> [x \in DOMAIN h.visits |->
                              IF x = entries[i.idx].key
                                THEN Min({h.visits[x] + 1, VisitBound})
                                ELSE h.visits[x]],
                everIn |-> h.everIn],
         UNCHANGED mapVars
  PROVE  LoopInv' /\ it' \in Loops
<1> DEFINE D == DOMAIN h.visits
<1>1. Faithful(it', Unvisited(i), MaskSlots(i))
  BY VisitFaithful
<1>2. /\ it'.idx = i.idx /\ it'.base = i.base /\ it'.mask = i.mask
      /\ it'.last = last /\ it'.everIn = h.everIn /\ DOMAIN it'.visits = D
      /\ it' = [idx |-> i.idx, base |-> i.base, mask |-> i.mask, last |-> last,
                visits |-> it'.visits, everIn |-> h.everIn]
  OBVIOUS
<1>3. it' \in Loops
  <2>1. i.idx \in Nat /\ i.base \in Nat /\ i.mask \in SUBSET (0..(VECTOR - 1))
    BY CapacityBounds DEF Reaches, Placed, TypeOK
  <2>2. it'.visits \in [D -> 0..VisitBound] /\ D \in SUBSET Keys
    BY <1>1, <1>2 DEF Faithful
  <2>3. it'.visits \in UNION {[K -> 0..VisitBound] : K \in SUBSET Keys}
    BY <2>2
  <2> HIDE DEF D
  <2> QED
    BY <1>2, <2>1, <2>3 DEF Loops
<1>4. /\ UNCHANGED <<entries, tags, Capacity, status, prevTags, prevSize, carried>>
      /\ FullSlots' = FullSlots /\ HeldKeys' = HeldKeys
  BY DEF mapVars, vars, table, loop, FullSlots, HeldKeys, Contents, PendingSlots, Pending
<1>5. Placed(it)'
  BY <1>2, <1>4 DEF Placed, Reaches
<1>6. Unvisited(it)' = Unvisited(i) /\ MaskSlots(it)' = MaskSlots(i)
  BY <1>2, <1>4 DEF Unvisited, MaskSlots
<1>7. Faithful(it, Unvisited(it), MaskSlots(it))'
  BY <1>1, <1>4, <1>6 DEF Faithful
<1> HIDE DEF D
<1> QED
  BY <1>2, <1>3, <1>4, <1>5, <1>7 DEF LoopInv, D

\* The keys in the table are keys, and between two calls they are in slots.
LEMMA HeldNow ==
  ASSUME TypeOK, status = "idle"
  PROVE  /\ HeldKeys \subseteq Keys
         /\ \A k \in HeldKeys : \E s \in FullSlots : entries[s].key = k
<1>1. \A k \in HeldKeys : \E s \in FullSlots : entries[s].key = k
  BY HeldAtRest DEF StoredKeys
<1> QED
  BY <1>1 DEF TypeOK, Entry

\* A step of the table neither ends a loop nor moves it.
LEMMA CallKeepsLoop ==
  ASSUME IterInv, MistestedLanes = {}, Call, it # None
  PROVE  it' # None /\ it'.idx = it.idx /\ it'.mask = it.mask
<1>1. status \in {"idle", "rehash"}
  BY DEF Call, MapNext, CheckedAdds, Add, AddOrUpdate, AddChecked, UniqueAdds, AddUnique,
     OtherCalls, Find, Remove, Rehash, Resize, Clear, SetMaxLoadFactor,
     RehashLoop, RehashSkip, RehashTake, RehashDisplace, RehashDone
<1>2. MapInv /\ it \in Loops
  BY <1>1 DEF IterInv, LoopInv
<1>3. TypeOK'
  BY <1>2, MapStep DEF Call, MapInv, CountInv
<1> QED
  BY <1>2, <1>3, RememberTyped, VectorAssumption DEF Call

\* A loop that leaves.
LEMMA LeaveKeeps ==
  ASSUME MapInv, MistestedLanes = {}, it' = None, UNCHANGED mapVars
  PROVE  IterInv'
<1>1. MapInv'
  BY MapStep
<1>2. status' # "wild"
  BY <1>1 DEF MapInv, CountInv, TypeOK
<1> QED
  BY <1>1, <1>2 DEF IterInv, LoopInv, WildOnlyByGrowthOrEmptying

\* A loop that goes on.
LEMMA GoesOnKeeps ==
  ASSUME MapInv, MistestedLanes = {}, LoopInv', UNCHANGED mapVars
  PROVE  IterInv'
<1>1. MapInv'
  BY MapStep
<1>2. status' # "wild"
  BY <1>1 DEF MapInv, CountInv, TypeOK
<1> QED
  BY <1>1, <1>2 DEF IterInv, WildOnlyByGrowthOrEmptying

\* The slots of the table are those of its entries.
LEMMA SlotsOfEntries ==
  ASSUME TypeOK
  PROVE  DOMAIN entries = 0..(Capacity - 1) /\ Capacity \in Nat
BY CapacityBounds DEF TypeOK

\* begin(): the loop is at the first entry, or the table is empty and it leaves.
LEMMA BeginKeeps ==
  ASSUME IterInv, MistestedLanes = {}, NEW last \in {EndIdx, None}, Begin(last)
  PROVE  IterInv'
<1> DEFINE h == [visits |-> [k \in HeldKeys |-> 0], everIn |-> HeldKeys]
<1>1. MapInv /\ TypeOK /\ CountInv /\ NoDuplicates /\ status = "idle"
      /\ Visit(BeginAt, last, h)
  BY DEF Begin, IterInv, MapInv, CountInv
<1>2. EndIdx \in Nat /\ EndIdx <= Capacity /\ None \notin Nat
      /\ (Count # 0 => EndIdx = Capacity)
  BY <1>1, EndBounds, WholeVectors
<1>3. CASE Count = 0
  <2>1. BeginAt.idx = EndIdx
    BY <1>3 DEF BeginAt, EndIdx
  <2>2. it' = None /\ UNCHANGED mapVars
    BY <1>1, <1>2, <2>1 DEF Visit
  <2> QED
    BY <1>1, <2>2, LeaveKeeps
<1>4. CASE Count # 0
  <2> DEFINE i == BeginAt
  <2>1. Reaches(i, 0..(Capacity - 1), {})
    BY <1>1, <1>4, BeginReaches
  <2>2. i.idx \in DOMAIN entries /\ i.idx # Capacity
    BY <1>1, <2>1, SlotsOfEntries DEF Reaches
  <2> HIDE DEF h
  <2>9. Visit(i, last, h)
    BY <1>1
  <2> HIDE DEF i
  <2>10. i.idx # IF last = None THEN EndIdx ELSE last
    BY <1>2, <1>4, <2>2
  <2>3. Faithful(h, 0..(Capacity - 1), {})
    BY <1>1, BeginFaithful DEF h
  <2>4. /\ last \in Nat \cup {None} /\ (last # None => last = Capacity)
        /\ (last # None => last <= Capacity)
    BY <1>2, <1>4
  <2>5. DOMAIN h.visits = HeldKeys /\ h.everIn = HeldKeys /\ HeldKeys \subseteq Keys
    BY <1>1, HeldNow DEF h
  <2>6. /\ it' = [idx |-> i.idx, base |-> i.base, mask |-> i.mask, last |-> last,
                  visits |-> [x \in DOMAIN h.visits |->
                                IF x = entries[i.idx].key
                                  THEN Min({h.visits[x] + 1, VisitBound})
                                  ELSE h.visits[x]],
                  everIn |-> h.everIn]
        /\ UNCHANGED mapVars
    BY <2>2, <2>9, <2>10 DEF Visit
  <2>7. LoopInv'
    BY <1>1, <2>1, <2>3, <2>4, <2>5, <2>6, VisitKeeps
  <2> QED
    BY <1>1, <2>6, <2>7, GoesOnKeeps
<1> QED
  BY <1>3, <1>4

\* What operator++ and the test of the loop come to: the loop leaves, with every
\* entry that stayed visited once, or it goes on to the next entry, or it is
\* beyond the table, which has grown or become empty.
LEMMA AdvanceOutcome ==
  ASSUME IterInv, MistestedLanes = {}, Advance
  PROVE  \/ /\ it' = None /\ UNCHANGED mapVars
            /\ \A k \in DOMAIN it.visits : it.visits[k] = 1
         \/ /\ LoopInv' /\ it' \in Loops /\ UNCHANGED mapVars
            /\ entries[it'.idx].key \in it.everIn
         \/ /\ status' = "wild" /\ UNCHANGED <<Capacity, Count, it>>
            /\ \/ it.last # None /\ it.last < Capacity
               \/ it.last = None /\ Count = 0
<1> DEFINE i == Seek(it)
           stop == IF it.last = None THEN EndIdx ELSE it.last
<1>1. /\ MapInv /\ TypeOK /\ CountInv /\ NoDuplicates
      /\ status = "idle" /\ it # None /\ Visit(i, it.last, it)
  BY DEF Advance, IterInv, MapInv, CountInv
<1>2. /\ it \in Loops /\ Placed(it)
      /\ it.last # None => it.last <= Capacity
      /\ Faithful(it, Unvisited(it), MaskSlots(it))
      /\ DOMAIN it.visits # {} => it.last \in {None, Capacity}
  BY <1>1 DEF IterInv, LoopInv
<1>3. /\ it.last \in Nat \cup {None} /\ it.everIn \in SUBSET Keys
      /\ DOMAIN it.visits \subseteq Keys
  BY <1>2 DEF Loops
<1>4. EndIdx \in Nat /\ EndIdx <= Capacity /\ None \notin Nat
      /\ (Count # 0 => EndIdx = Capacity)
  BY <1>1, EndBounds, WholeVectors
<1>5. DOMAIN entries = 0..(Capacity - 1) /\ Capacity \in Nat
  BY <1>1, SlotsOfEntries
<1>6. \/ /\ i.idx = Capacity /\ \A s \in FullSlots : s \notin Unvisited(it)
      \/ Reaches(i, Unvisited(it), MaskSlots(it))
  BY <1>1, <1>2, SeekReaches
<1> HIDE DEF i
<1>7. CASE i.idx = stop
  <2>1. it' = None /\ UNCHANGED mapVars
    BY <1>1, <1>7 DEF Visit
  <2>2. ASSUME NEW k \in DOMAIN it.visits PROVE it.visits[k] = 1
    <3>1. k \in HeldKeys /\ it.last \in {None, Capacity}
      BY <1>2 DEF Faithful
    <3>2. PICK s \in FullSlots : entries[s].key = k
      BY <1>1, <3>1, HeldNow
    <3>3. Count # 0
      BY <1>1, <3>2, UncountedEmpty
    <3>4. i.idx = Capacity
      BY <1>4, <1>7, <3>1, <3>3
    <3>5. s \notin Unvisited(it)
      BY <1>5, <1>6, <3>2, <3>4 DEF Reaches
    <3> QED
      BY <1>2, <3>2, <3>5 DEF Faithful
  <2> QED
    BY <2>1, <2>2
<1>8. CASE i.idx # stop /\ i.idx = Capacity
  <2>1. i.idx \notin DOMAIN entries
    BY <1>5, <1>8
  <2>2. status' = "wild" /\ UNCHANGED <<Capacity, Count, it>>
    BY <1>1, <1>8, <2>1 DEF Visit, table
  <2>3. it.last = None => Count = 0
    BY <1>4, <1>8
  <2>4. it.last # None => it.last < Capacity
    BY <1>2, <1>3, <1>5, <1>8
  <2> QED
    BY <2>2, <2>3, <2>4
<1>9. CASE i.idx # stop /\ Reaches(i, Unvisited(it), MaskSlots(it))
  <2>1. i.idx \in DOMAIN entries
    BY <1>5, <1>9 DEF Reaches
  <2>2. /\ it' = [idx |-> i.idx, base |-> i.base, mask |-> i.mask, last |-> it.last,
                  visits |-> [x \in DOMAIN it.visits |->
                                IF x = entries[i.idx].key
                                  THEN Min({it.visits[x] + 1, VisitBound})
                                  ELSE it.visits[x]],
                  everIn |-> it.everIn]
        /\ UNCHANGED mapVars
    BY <1>1, <1>9, <2>1 DEF Visit
  <2>3. LoopInv' /\ it' \in Loops
    BY <1>1, <1>2, <1>3, <1>9, <2>2, VisitKeeps
  <2>4. entries[i.idx].key \in it.everIn
    BY <1>1, <1>2, <1>9, UsedHeld DEF Reaches, Faithful
  <2> QED
    BY <2>2, <2>3, <2>4
<1> QED
  BY <1>6, <1>7, <1>8, <1>9

\* The invariant of a loop over a map.
LEMMA IterInvariant ==
  ASSUME MistestedLanes = {}
  PROVE  IterSpec => []IterInv
<1>1. IterInit => IterInv
  <2> SUFFICES ASSUME IterInit PROVE IterInv
    OBVIOUS
  <2>1. MapInv /\ status = "idle"
    BY MapInitial DEF IterInit, MapInit, Init
  <2> QED
    BY <2>1 DEF IterInit, IterInv, LoopInv, WildOnlyByGrowthOrEmptying
<1>2. IterInv /\ [IterNext]_iterVars => IterInv'
  <2> SUFFICES ASSUME IterInv, [IterNext]_iterVars PROVE IterInv'
    OBVIOUS
  <2>1. CASE \E last \in {EndIdx, None} : Begin(last)
    BY <2>1, BeginKeeps
  <2>2. CASE Advance
    <3>1. MapInv
      BY <2>2 DEF Advance, IterInv
    <3>2. CASE it' = None /\ UNCHANGED mapVars
      BY <3>1, <3>2, LeaveKeeps
    <3>3. CASE LoopInv' /\ UNCHANGED mapVars
      BY <3>1, <3>3, GoesOnKeeps
    <3>4. CASE /\ status' = "wild" /\ UNCHANGED <<Capacity, Count, it>>
               /\ \/ it.last # None /\ it.last < Capacity
                  \/ it.last = None /\ Count = 0
      BY <3>4 DEF IterInv, WildOnlyByGrowthOrEmptying
    <3> QED
      BY <2>2, <3>2, <3>3, <3>4, AdvanceOutcome
  <2>3. CASE Call
    BY <2>3, CallKeeps
  <2>4. CASE UNCHANGED iterVars
    <3>1. UNCHANGED mapVars /\ it' = it /\ status' = status
          /\ UNCHANGED <<entries, tags, Capacity, Count, prevTags, prevSize, carried>>
      BY <2>4 DEF iterVars, mapVars, vars, table, loop
    <3>2. MapInv => MapInv'
      BY <3>1, MapStep
    <3>3. FullSlots' = FullSlots /\ HeldKeys' = HeldKeys
      BY <3>1 DEF FullSlots, HeldKeys, Contents, PendingSlots, Pending
    <3>4. LoopInv => LoopInv'
      BY <3>1, <3>3 DEF LoopInv, Placed, Faithful, Unvisited, MaskSlots
    <3> QED
      BY <3>1, <3>2, <3>4 DEF IterInv, WildOnlyByGrowthOrEmptying
  <2> QED
    BY <2>1, <2>2, <2>3, <2>4 DEF IterNext
<1> QED
  BY <1>1, <1>2, PTL DEF IterSpec

\* WildOnlyByGrowthOrEmptying: a range-for over a map runs past the table only
\* if its body made the table grow, a loop that asks for end() each time only
\* if it removed the last entry (Seek and the two ends, lines 1131 to 1221).
THEOREM LoopsStayInside ==
  ASSUME MistestedLanes = {}
  PROVE  IterSpec => []WildOnlyByGrowthOrEmptying
<1>1. IterInv => WildOnlyByGrowthOrEmptying
  BY DEF IterInv
<1> QED
  BY <1>1, IterInvariant, PTL

\* VisitsEachOnce: a loop that leaves has visited once every entry that stayed
\* in its slot, whatever its body added and removed (Seek, lines 1178 to 1203).
THEOREM LoopsVisitOnce ==
  ASSUME MistestedLanes = {}
  PROVE  IterSpec => VisitsEachOnce
<1>1. ASSUME IterInv, [IterNext]_iterVars, it # None, it' = None
      PROVE  \A k \in DOMAIN it.visits : it.visits[k] = 1
  <2>1. CASE Advance
    BY <1>1, <2>1, AdvanceOutcome, VectorAssumption
  <2>2. CASE Call
    BY <1>1, <2>2, CallKeepsLoop
  <2> QED
    BY <1>1, <2>1, <2>2 DEF IterNext, Begin, iterVars
<1>2. IterInv /\ [IterNext]_iterVars
        => [it # None /\ it' = None
              => \A k \in DOMAIN it.visits : it.visits[k] = 1]_iterVars
  BY <1>1
<1> QED
  BY <1>2, IterInvariant, PTL DEF IterSpec, VisitsEachOnce

\* VisitsOnlyHeld: a loop shows no entry that has not been in the table since it
\* began, though its mask may be stale (operator++ and *, lines 1152 to 1176).
THEOREM LoopsShowHeld ==
  ASSUME MistestedLanes = {}
  PROVE  IterSpec => VisitsOnlyHeld
<1>1. ASSUME IterInv, [IterNext]_iterVars, it # None, it' # None,
             <<it'.idx, it'.mask>> # <<it.idx, it.mask>>
      PROVE  entries[it'.idx].key \in it.everIn
  <2>1. CASE Advance
    BY <1>1, <2>1, AdvanceOutcome
  <2>2. CASE Call
    BY <1>1, <2>2, CallKeepsLoop
  <2> QED
    BY <1>1, <2>1, <2>2 DEF IterNext, Begin, iterVars
<1>2. IterInv /\ [IterNext]_iterVars
        => [it # None /\ it' # None /\ <<it'.idx, it'.mask>> # <<it.idx, it.mask>>
              => entries[it'.idx].key \in it.everIn]_iterVars
  BY <1>1
<1> QED
  BY <1>2, IterInvariant, PTL DEF IterSpec, VisitsOnlyHeld
=============================================================================
