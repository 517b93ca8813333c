------------------------- MODULE SimdHashCallProofs -------------------------
(***************************************************************************)
(* What each call of SimdHashCore does to the entries of the table, and    *)
(* the theorems about single calls: when the table grows, when it may be   *)
(* resized, when an Add misses a key that is there, and when a probe loop  *)
(* runs on for ever.                                                       *)
(***************************************************************************)
EXTENDS SimdHashCoreProofs

-----------------------------------------------------------------------------
(* What a call leaves in the table, entries included.                      *)

\* A call ends with the entries e in the slots F, in use or handed to
\* RehashInternal.
Holds(F, e) ==
  /\ status' # "aborted" /\ carried' = None
  /\ \A s \in F : entries'[s] = e[s]
  /\ \/ FullSlots' = F /\ PendingSlots' = {} /\ status' = "idle"
     \/ FullSlots' = {} /\ PendingSlots' = F /\ status' = "rehash"

\* A call that does not return leaves the table as it was.
Stops == Hang \/ Abort

\* What such a call leaves is what was there.
LEMMA StopsKeeps ==
  ASSUME Stops
  PROVE  /\ FullSlots' = FullSlots /\ PendingSlots' = PendingSlots
         /\ entries' = entries /\ carried' = carried /\ Contents' = Contents
<1>1. UNCHANGED <<tags, entries, Capacity, loop>>
  BY DEF Stops, Hang, Abort, table
<1>2. Contents' = Contents
  BY <1>1, QuietKeeps
<1> QED
  BY <1>1, <1>2 DEF FullSlots, PendingSlots, Pending, loop

\* The contents are the entries held.
LEMMA HoldsContents ==
  ASSUME NEW F, NEW e, Holds(F, e)
  PROVE  Contents' = In(e, F)
<1>1. CASE FullSlots' = F /\ PendingSlots' = {}
  BY <1>1 DEF Holds, Contents, In
<1>2. CASE FullSlots' = {} /\ PendingSlots' = F
  BY <1>2 DEF Holds, Contents, In
<1> QED
  BY <1>1, <1>2 DEF Holds

\* A table that is not resized.
LEMMA KeepHolds ==
  ASSUME TypeOK, status = "idle", NEW t, NEW e, NEW n, NEW limit,
         Keep(t, e, n, limit)
  PROVE  Holds(Used(t, Capacity), e)
<1>1. /\ tags' = t /\ entries' = e /\ Capacity' = Capacity
      /\ status' = "idle" /\ UNCHANGED loop
  BY DEF Keep
<1>2. FullSlots' = Used(t, Capacity)
  BY <1>1 DEF FullSlots, Used
<1>3. PendingSlots' = {} /\ carried' = None
  <2>1. PendingSlots = {} /\ carried = None
    BY SlotsOfTable
  <2> QED
    BY <1>1, <2>1 DEF loop, PendingSlots, Pending
<1> QED
  BY <1>1, <1>2, <1>3 DEF Holds

\* A table that is given to RehashInternal.
LEMMA StartHolds ==
  ASSUME TypeOK, NEW c \in Capacities, Capacity <= c, NEW n,
         NEW t \in [0..(Capacity + LANES - 1) -> Tags],
         NEW e, DOMAIN e = 0..(Capacity - 1),
         StartRehash(c, t, Extended(e, c), n), Capacity' = c
  PROVE  Holds(Used(t, Capacity), e)
<1>1. Leaves(Used(t, Capacity), n)
  BY StartLeaves
<1>2. status' = "rehash" /\ entries' = Extended(e, c)
  BY DEF StartRehash
<1>3. /\ FullSlots' = {} /\ PendingSlots' = Used(t, Capacity) /\ carried' = None
  BY <1>1, <1>2 DEF Leaves
<1>4. \A s \in Used(t, Capacity) : Extended(e, c)[s] = e[s]
  <2>1. Capacity \in Nat /\ c \in Nat
    BY CapacityBounds DEF TypeOK
  <2>2. \A s \in 0..(Capacity - 1) : s \in 0..(c - 1) /\ s \in DOMAIN e
    BY <2>1
  <2> QED
    BY <2>2 DEF Used, Extended
<1> QED
  BY <1>2, <1>3, <1>4 DEF Holds

\* A table without entries that gets a new size.
LEMMA FreshHolds ==
  ASSUME TypeOK, status = "idle", NEW c \in Capacities, NEW e,
         Capacity' = c, tags' = FreshTags(c), UNCHANGED <<status, loop>>
  PROVE  Holds({}, e)
<1>1. FullSlots' = {}
  <2>1. FullSlots' = Used(FreshTags(c), c)
    BY DEF FullSlots, Used
  <2> QED
    BY <2>1, UsedFresh, CapacityBounds
<1>2. PendingSlots' = {} /\ carried' = None
  <2>1. PendingSlots = {} /\ carried = None
    BY SlotsOfTable
  <2> QED
    BY <2>1 DEF loop, PendingSlots, Pending
<1> QED
  BY <1>1, <1>2 DEF Holds

\* Resize: the entries its caller left are held, or the call aborts.
LEMMA ResizeFromHolds ==
  ASSUME TypeOK, status = "idle", NEW size \in Nat, NEW n,
         NEW t \in [0..(Capacity + LANES - 1) -> Tags],
         NEW e, DOMAIN e = 0..(Capacity - 1),
         n = 0 => Used(t, Capacity) = {}, ResizeFrom(size, t, e, n)
  PROVE  Abort \/ Holds(Used(t, Capacity), e)
<1> DEFINE c == AdjustCapacity(size)
<1>1. c \in Capacities
  BY AdjustCapacityTyped
<1>2. \/ Abort
      \/ \E limit : Keep(t, e, n, limit)
      \/ Capacity < c /\ Reallocate(c, t, e, n)
  BY DEF ResizeFrom
<1> HIDE DEF c
<1>3. CASE Abort
  BY <1>3
<1>4. CASE \E limit : Keep(t, e, n, limit)
  BY <1>4, KeepHolds
<1>5. CASE Capacity < c /\ Reallocate(c, t, e, n)
  <2>1. Capacity <= c
    BY <1>1, <1>5, CapacityBounds DEF TypeOK
  <2>2. CASE Capacity' = c /\ StartRehash(c, t, Extended(e, c), n)
    BY <1>1, <2>1, <2>2, StartHolds
  <2>3. CASE n = 0 /\ Capacity' = c /\ tags' = FreshTags(c) /\ UNCHANGED <<status, loop>>
    <3>1. Holds({}, e)
      BY <1>1, <2>3, FreshHolds
    <3> QED
      BY <2>3, <3>1
  <2> QED
    BY <1>3, <1>5, <2>2, <2>3 DEF Reallocate
<1> QED
  BY <1>2, <1>3, <1>4, <1>5

\* A call that leaves the table alone holds what was there.
LEMMA QuietHolds ==
  ASSUME TypeOK, status = "idle", UNCHANGED <<tags, entries, Capacity, status, loop>>
  PROVE  Holds(FullSlots, entries)
<1>1. PendingSlots = {} /\ carried = None
  BY SlotsOfTable
<1>2. FullSlots' = FullSlots /\ PendingSlots' = PendingSlots /\ carried' = carried
  BY DEF FullSlots, PendingSlots, Pending, loop
<1> QED
  BY <1>1, <1>2 DEF Holds

\* An idle table without a count has no slot in use.
LEMMA UncountedEmpty ==
  ASSUME CountInv, Count = 0
  PROVE  FullSlots = {}
BY SlotsFinite, FS_EmptySet DEF CountInv, CountIsFull

\* The count after an Add is not zero.
LEMMA CountsOne ==
  ASSUME CountInv
  PROVE  Count + 1 # 0
BY SlotsFinite DEF CountInv, CountIsFull

-----------------------------------------------------------------------------
(* The calls, one by one.                                                  *)

\* the entries once slot s holds k with v
Storing(s, k, v) == [entries EXCEPT ![s] = [key |-> k, value |-> v]]

\* The slot Add takes is not in use, and none of the table is lost to it.
LEMMA InsertHolds ==
  ASSUME CountInv, status = "idle", NEW k \in Keys, NEW v \in Values,
         VacantSteps(k) # {}, Insert(k, v),
         NEW s, s = VacantSlot(k)
  PROVE  /\ s \in 0..(Capacity - 1) /\ s \notin FullSlots
         /\ Abort \/ Holds(FullSlots \cup {s}, Storing(s, k, v))
<1> DEFINE t == [tags EXCEPT ![s] = TagOf[k]]
           e == Storing(s, k, v)
<1>1. /\ TypeOK /\ Capacity \in Nat \ {0} /\ FullSlots = Used(tags, Capacity)
      /\ tags \in [0..(Capacity + LANES - 1) -> Tags]
      /\ DOMAIN entries = 0..(Capacity - 1)
  BY CapacityBounds, SlotsUsed DEF CountInv, TypeOK
<1>2. s \in 0..(Capacity - 1) /\ ~IsFull(tags[s])
  BY <1>1, VacantSlotTyped, TagKinds DEF IsFull
<1>3. TagOf[k] \in HashTags /\ IsFull(TagOf[k]) /\ TagOf[k] \in Tags
  BY HashAssumption, TagKinds DEF IsFull
<1>4. \/ ResizeFrom(Capacity + 1, t, e, Count + 1)
      \/ Keep(t, e, Count + 1, CountGrowthLimit)
  BY DEF Insert, Storing
<1>5. t \in [0..(Capacity + LANES - 1) -> Tags]
  BY <1>1, <1>3
<1>6. DOMAIN e = 0..(Capacity - 1)
  BY <1>1 DEF Storing
<1>7. Used(t, Capacity) = FullSlots \cup {s} /\ s \notin FullSlots
  <2>1. Used(t, Capacity) = Used(tags, Capacity) \cup {s}
    BY <1>1, <1>2, <1>3, UsedAdd
  <2> QED
    BY <1>1, <1>2, <2>1 DEF Used
<1> HIDE DEF t, e
<1>8. Abort \/ Holds(Used(t, Capacity), e)
  <2>1. CASE ResizeFrom(Capacity + 1, t, e, Count + 1)
    BY <1>1, <1>5, <1>6, <2>1, CountsOne, ResizeFromHolds
  <2>2. CASE Keep(t, e, Count + 1, CountGrowthLimit)
    BY <1>1, <2>2, KeepHolds
  <2> QED
    BY <1>4, <2>1, <2>2
<1> QED
  BY <1>2, <1>7, <1>8 DEF e

\* An Add that hits has found its key.
LEMMA HitsKnown ==
  ASSUME TypeOK, NEW k \in Keys, NEW stops, Hits(k, stops)
  PROVE  /\ HitSlot(k) \in FullSlots /\ entries[HitSlot(k)].key = k
         /\ k \in StoredKeys
<1>1. HitSteps(k) # {}
  BY DEF Hits
<1> QED
  BY <1>1, HitSlotTyped DEF StoredKeys

\* the entries once the value of k, which slot s holds, is v
Updating(s, v) == [entries EXCEPT ![s].value = v]

\* A checked Add that finds its key keeps the table's keys, and its value
\* unless it was to update it.
LEMMA UpdateHolds ==
  ASSUME TypeOK, status = "idle", NEW s \in FullSlots, NEW v \in Values, NEW update,
         entries' = IF update THEN Updating(s, v) ELSE entries,
         UNCHANGED <<tags, Capacity, status, loop>>
  PROVE  /\ Holds(FullSlots, IF update THEN Updating(s, v) ELSE entries)
         /\ \A x \in FullSlots : entries'[x].key = entries[x].key
<1>1. PendingSlots = {} /\ carried = None
  BY SlotsOfTable
<1>2. FullSlots' = FullSlots /\ PendingSlots' = PendingSlots /\ carried' = carried
  BY DEF FullSlots, PendingSlots, Pending, loop
<1>3. \A x \in FullSlots : entries'[x].key = entries[x].key
  <2>1. \A x \in FullSlots : x \in DOMAIN entries /\ entries[x] \in Entry
    BY SlotsOfTable DEF TypeOK
  <2> QED
    BY <2>1 DEF Updating, Entry
<1> QED
  BY <1>1, <1>2, <1>3 DEF Holds

\* Contains and TryGetValue change nothing.
LEMMA FindHolds ==
  ASSUME CountInv, NEW k \in Keys, Find(k)
  PROVE  Hang \/ Holds(FullSlots, entries)
<1>1. CASE Hang
  BY <1>1
<1>2. CASE UNCHANGED <<table, maxLoadFactor, status, loop>> /\ status = "idle"
  BY <1>2, QuietHolds DEF CountInv, table
<1> QED
  BY <1>1, <1>2 DEF Find

\* Remove gives up the slot its search ended at, if it found one.
LEMMA RemoveHolds ==
  ASSUME CountInv, NEW k \in Keys, Remove(k)
  PROVE  \/ Hang
         \/ ~Hits(k, EmptySteps(k)) /\ Holds(FullSlots, entries)
         \/ /\ Hits(k, EmptySteps(k)) /\ HitSlot(k) \in FullSlots
            /\ entries[HitSlot(k)].key = k
            /\ Holds(FullSlots \ {HitSlot(k)}, entries)
<1>1. CASE Hang
  BY <1>1
<1>2. CASE /\ UNCHANGED <<table, maxLoadFactor, status, loop>>
           /\ status = "idle" /\ ~Hits(k, EmptySteps(k))
  BY <1>2, QuietHolds DEF CountInv, table
<1>3. CASE /\ Hits(k, EmptySteps(k)) /\ status = "idle"
           /\ Keep(Bury(HitSlot(k)), entries, Count - 1, CountGrowthLimit)
  <2> DEFINE s == HitSlot(k)
  <2>1. /\ TypeOK /\ Capacity \in Nat /\ FullSlots = Used(tags, Capacity)
        /\ tags \in [0..(Capacity + LANES - 1) -> Tags]
    BY CapacityBounds, SlotsUsed DEF CountInv, TypeOK
  <2>2. s \in FullSlots /\ entries[s].key = k
    BY <1>3, <2>1, HitSlotTyped DEF Hits
  <2>3. s \in 0..(Capacity - 1) /\ ~IsFull(TOMBSTONE)
    BY <2>2, TagKinds DEF FullSlots, IsFull
  <2>4. Holds(Used(Bury(s), Capacity), entries)
    BY <1>3, <2>1, KeepHolds
  <2> HIDE DEF s
  <2>5. Used(Bury(s), Capacity) = FullSlots \ {s}
    BY <2>1, <2>3, UsedDrop DEF Bury
  <2> QED
    BY <1>3, <2>2, <2>4, <2>5 DEF s
<1> QED
  BY <1>1, <1>2, <1>3 DEF Remove, Keep

\* Rehash hands the slots in use to RehashInternal.
LEMMA RehashHolds ==
  ASSUME CountInv, Rehash
  PROVE  Holds(FullSlots, entries)
<1>1. /\ TypeOK /\ status = "idle" /\ Capacity \in Capacities /\ Capacity <= Capacity
      /\ tags \in [0..(Capacity + LANES - 1) -> Tags]
      /\ DOMAIN entries = 0..(Capacity - 1) /\ FullSlots = Used(tags, Capacity)
  BY CapacityBounds, SlotsUsed DEF Rehash, CountInv, TypeOK
<1>2. CASE StartRehash(Capacity, tags, entries, Count) /\ Capacity' = Capacity
  <2>1. Extended(entries, Capacity) = entries
    BY <1>1 DEF Extended, TypeOK
  <2> QED
    BY <1>1, <1>2, <2>1, StartHolds
<1>3. CASE UNCHANGED <<table, maxLoadFactor, status, loop>>
  BY <1>1, <1>3, QuietHolds DEF table
<1> QED
  BY <1>2, <1>3 DEF Rehash

\* Resize holds what was there, or aborts.
LEMMA ResizeHolds ==
  ASSUME CountInv, NEW size \in Sizes, Resize(size)
  PROVE  Abort \/ Holds(FullSlots, entries)
<1>1. /\ TypeOK /\ status = "idle" /\ size \in Nat
      /\ tags \in [0..(Capacity + LANES - 1) -> Tags]
      /\ DOMAIN entries = 0..(Capacity - 1) /\ FullSlots = Used(tags, Capacity)
      /\ ResizeFrom(size, tags, entries, Count)
  BY HashAssumption, SlotsUsed DEF Resize, CountInv, TypeOK
<1> QED
  BY <1>1, UncountedEmpty, ResizeFromHolds

\* Clear empties the table, or aborts.
LEMMA ClearHolds ==
  ASSUME CountInv, NEW size \in Sizes, Clear(size)
  PROVE  Abort \/ Holds({}, entries)
<1>1. TypeOK /\ status = "idle" /\ Capacity \in Nat
  BY CapacityBounds DEF Clear, CountInv, TypeOK
<1>2. CASE Reallocate(AdjustCapacity(size), NoTags, entries, 0)
  <2> DEFINE c == AdjustCapacity(size)
  <2>1. c \in Capacities
    BY HashAssumption, AdjustCapacityTyped
  <2> HIDE DEF c
  <2>2. \/ Abort
        \/ Capacity' = c /\ tags' = FreshTags(c) /\ UNCHANGED <<status, loop>>
    BY <1>2 DEF Reallocate, c
  <2> QED
    BY <1>1, <2>1, <2>2, FreshHolds
<1>3. CASE Keep(FreshTags(Capacity), entries, 0, CountGrowthLimit)
  BY <1>1, <1>3, KeepHolds, UsedFresh
<1> QED
  BY <1>2, <1>3 DEF Clear

\* max_load_factor touches no entry.
LEMMA LoadFactorHolds ==
  ASSUME CountInv, NEW mlf, SetMaxLoadFactor(mlf)
  PROVE  Holds(FullSlots, entries)
BY QuietHolds DEF SetMaxLoadFactor, CountInv

-----------------------------------------------------------------------------
(* Mode::ResizeOnlyEmpty.                                                  *)

\* Resize changes the capacity of a table that counts nothing, and aborts
\* only if it counts something.
LEMMA ResizeFromOnlyEmpty ==
  ASSUME TypeOK, status = "idle", ResizeOnlyEmpty = TRUE, NEW size \in Nat,
         NEW t, NEW n, NEW e, DOMAIN e = 0..(Capacity - 1),
         ResizeFrom(size, t, e, n)
  PROVE  /\ Capacity' # Capacity => n = 0
         /\ status' = "aborted" => n # 0
<1> DEFINE c == AdjustCapacity(size)
<1>1. c \in Nat /\ Capacity \in Nat
  BY AdjustCapacityTyped, CapacityBounds DEF TypeOK
<1>2. \/ \E limit : Keep(t, e, n, limit)
      \/ ~MayResize(n) /\ Abort
      \/ MayResize(n) /\ Capacity < c /\ Reallocate(c, t, e, n)
  BY DEF ResizeFrom
<1> HIDE DEF c
<1>3. CASE \E limit : Keep(t, e, n, limit)
  BY <1>3 DEF Keep
<1>4. CASE ~MayResize(n) /\ Abort
  BY <1>4 DEF MayResize, Abort, table
<1>5. CASE MayResize(n) /\ Capacity < c /\ Reallocate(c, t, e, n)
  <2>1. n = 0
    BY <1>5 DEF MayResize
  <2>2. c - 1 \notin DOMAIN e
    BY <1>1, <1>5
  <2>3. status' # "aborted"
    BY <1>5, <2>1, <2>2 DEF Reallocate
  <2> QED
    BY <2>1, <2>3
<1> QED
  BY <1>2, <1>3, <1>4, <1>5

\* The tail of Add never changes the capacity in this mode, and aborts only
\* when the count becomes the limit.
LEMMA InsertOnlyEmpty ==
  ASSUME CountInv, status = "idle", ResizeOnlyEmpty = TRUE, NEW k \in Keys, NEW v,
         Insert(k, v)
  PROVE  /\ Capacity' = Capacity
         /\ status' = "aborted" => Cardinality(FullSlots) = CountGrowthLimit - 1
<1> DEFINE s == VacantSlot(k)
           t == [tags EXCEPT ![s] = TagOf[k]]
           e == [entries EXCEPT ![s] = [key |-> k, value |-> v]]
<1>1. /\ TypeOK /\ Capacity + 1 \in Nat /\ Count \in Int /\ CountGrowthLimit \in Nat
      /\ DOMAIN entries = 0..(Capacity - 1)
  BY CapacityBounds DEF CountInv, TypeOK
<1>2. DOMAIN e = 0..(Capacity - 1)
  BY <1>1
<1>3. \/ AtLimit(Count + 1) /\ ResizeFrom(Capacity + 1, t, e, Count + 1)
      \/ Keep(t, e, Count + 1, CountGrowthLimit)
  BY DEF Insert
<1> HIDE DEF t, e
<1>4. CASE AtLimit(Count + 1) /\ ResizeFrom(Capacity + 1, t, e, Count + 1)
  <2>1. Count + 1 # 0
    BY CountsOne
  <2>2. Capacity' = Capacity
    BY <1>1, <1>2, <1>4, <2>1, ResizeFromOnlyEmpty
  <2>3. Count = CountGrowthLimit - 1 /\ Count = Cardinality(FullSlots)
    BY <1>1, <1>4 DEF AtLimit, CountInv, CountIsFull
  <2> QED
    BY <2>2, <2>3
<1>5. CASE Keep(t, e, Count + 1, CountGrowthLimit)
  BY <1>5 DEF Keep
<1> QED
  BY <1>3, <1>4, <1>5

\* A step changes the capacity of an empty table or in Clear, and aborts as the
\* assertions of this mode say.
OnlyEmptyResized ==
  /\ Capacity' # Capacity => Contents = {} \/ ret'.op = "Clear"
  /\ status # "aborted" /\ status' = "aborted"
       => \/ Contents # {} /\ \E size \in Sizes : Resize(size)
          \/ \E size \in Sizes : Clear(size)
          \/ /\ \E k \in Keys, v \in Values : CheckedAdds(k, v) \/ UniqueAdds(k, v)
             /\ Cardinality(FullSlots) = CountGrowthLimit - 1

\* Every step does.
LEMMA OnlyEmptyStep ==
  ASSUME CountInv, ResizeOnlyEmpty = TRUE, [Next]_vars
  PROVE  OnlyEmptyResized
<1>1. TypeOK /\ DOMAIN entries = 0..(Capacity - 1)
  BY DEF CountInv, TypeOK
<1>2. ASSUME Capacity' = Capacity, status' # "aborted" \/ status = "aborted"
      PROVE  OnlyEmptyResized
  BY <1>2 DEF OnlyEmptyResized
<1>3. CASE UNCHANGED vars
  BY <1>2, <1>3 DEF vars, table
<1>4. ASSUME NEW k \in Keys, NEW v \in Values, CheckedAdds(k, v) \/ UniqueAdds(k, v)
      PROVE  OnlyEmptyResized
  <2>1. status = "idle"
    BY <1>4, CallIdle
  <2>2. \/ Capacity' = Capacity /\ status' # "aborted"
        \/ Insert(k, v)
    BY <1>4, <2>1
    DEF CheckedAdds, UniqueAdds, Add, AddOrUpdate, AddUnique, AddChecked, Hang, table
  <2>3. CASE Insert(k, v)
    BY <1>4, <2>1, <2>3, InsertOnlyEmpty DEF OnlyEmptyResized
  <2> QED
    BY <1>2, <2>2, <2>3
<1>5. ASSUME NEW k \in Keys, Find(k) \/ Remove(k) PROVE OnlyEmptyResized
  BY <1>2, <1>5 DEF Find, Remove, Hang, table
<1>6. ASSUME Rehash PROVE OnlyEmptyResized
  BY <1>2, <1>6 DEF Rehash, StartRehash, table
<1>7. ASSUME NEW size \in Sizes, Resize(size) PROVE OnlyEmptyResized
  <2>1. /\ status = "idle" /\ size \in Nat
        /\ ResizeFrom(size, tags, entries, Count)
    BY <1>7, HashAssumption DEF Resize
  <2>2. /\ Capacity' # Capacity => Count = 0
        /\ status' = "aborted" => Count # 0
    BY <1>1, <2>1, ResizeFromOnlyEmpty
  <2>3. Count = 0 <=> FullSlots = {}
    BY <1>1, SlotsFinite, FS_EmptySet DEF CountInv, CountIsFull
  <2>4. Contents = {} <=> FullSlots = {}
    BY <1>1, <2>1, SlotsOfTable DEF Contents
  <2> QED
    BY <1>7, <2>2, <2>3, <2>4 DEF OnlyEmptyResized
<1>8. ASSUME NEW size \in Sizes, Clear(size) PROVE OnlyEmptyResized
  <2>1. Capacity' # Capacity => status' # "aborted"
    BY <1>8 DEF Clear, Reallocate, Keep, Abort, StartRehash, table
  <2>2. Capacity' # Capacity => ret'.op = "Clear"
    BY <1>8, <2>1 DEF Clear, Returns
  <2> QED
    BY <1>8, <2>2 DEF OnlyEmptyResized
<1>9. ASSUME NEW mlf \in LoadFactors, SetMaxLoadFactor(mlf) PROVE OnlyEmptyResized
  BY <1>2, <1>9 DEF SetMaxLoadFactor
<1>10. CASE OtherCalls
  BY <1>5, <1>6, <1>7, <1>8, <1>9, <1>10 DEF OtherCalls
<1>11. CASE RehashLoop
  <2>1. CASE RehashDone
    BY <1>2, <2>1, DoneCounted DEF RehashDone, table
  <2>2. CASE RehashSkip \/ RehashTake \/ RehashDisplace
    BY <1>2, <2>2 DEF RehashSkip, RehashTake, RehashDisplace, Settle, Hang, table
  <2> QED
    BY <1>11, <2>1, <2>2 DEF RehashLoop
<1> QED
  BY <1>3, <1>4, <1>10, <1>11 DEF Next

\* In Mode::ResizeOnlyEmpty the capacity changes only while the table is empty,
\* but for Clear; a Resize of a table with entries aborts, an Add aborts when
\* the count becomes the limit and not before, and no search, no removal and no
\* rehash does.
THEOREM ResizedOnlyEmpty ==
  ASSUME ResizeOnlyEmpty = TRUE
  PROVE  Spec => ResizesOnlyEmpty
<1>1. CountInv /\ [Next]_vars => [OnlyEmptyResized]_vars
  BY OnlyEmptyStep
<1> QED
  BY <1>1, CountInvariant, PTL DEF Spec, ResizesOnlyEmpty, OnlyEmptyResized

-----------------------------------------------------------------------------
(* The growth limit.                                                       *)

\* Products and quotients keep the order.
LEMMA TimesMonotone ==
  ASSUME NEW a \in Nat, NEW b \in Nat, NEW m \in Nat, a <= b
  PROVE  a * m <= b * m /\ m * a <= m * b /\ a * m \in Nat /\ b * m \in Nat
OBVIOUS

LEMMA QuotientMonotone ==
  ASSUME NEW a \in Nat, NEW b \in Nat, a <= b
  PROVE  a \div LF_UNIT <= b \div LF_UNIT
BY DEF LF_UNIT

\* A load factor raised does not lower the limit.
LEMMA LimitByFactor ==
  ASSUME NEW c \in Capacities, NEW m \in Nat, NEW n \in Nat, m <= n
  PROVE  GrowthLimit(c, m) <= GrowthLimit(c, n)
<1>1. c \in Nat /\ MAX_SIZE \in Nat
  BY CapacityBounds
<1>2. c * m <= c * n /\ c * m \in Nat /\ c * n \in Nat
  BY <1>1, TimesMonotone
<1> QED
  BY <1>1, <1>2, QuotientMonotone DEF GrowthLimit

\* Nor does a larger table, short of the largest.
LEMMA LimitByCapacity ==
  ASSUME NEW c \in Capacities, NEW d \in Capacities, c <= d, d < MAX_SIZE, NEW m \in Nat
  PROVE  GrowthLimit(c, m) <= GrowthLimit(d, m)
<1>1. c \in Nat /\ d \in Nat /\ MAX_SIZE \in Nat /\ c < MAX_SIZE
  BY CapacityBounds
<1>2. c * m <= d * m /\ c * m \in Nat /\ d * m \in Nat
  BY <1>1, TimesMonotone
<1> QED
  BY <1>1, <1>2, QuotientMonotone DEF GrowthLimit

\* AdjustCapacity answers no less than it is asked for, short of the largest.
LEMMA AdjustCapacityCovers ==
  ASSUME NEW size \in Nat
  PROVE  AdjustCapacity(size) = MAX_SIZE \/ AdjustCapacity(size) >= size
<1>1. Required(size) \in Nat /\ Required(size) >= size
  BY CapacityBounds DEF Required, LF_UNIT, MAX_LOAD_FACTOR
<1>2. CASE Required(size) >= MAX_SIZE
  BY <1>2 DEF AdjustCapacity
<1>3. CASE ~(Required(size) >= MAX_SIZE)
  <2> DEFINE C == {c \in Capacities : c >= Required(size)}
  <2>1. C \in SUBSET Nat /\ MAX_SIZE \in C
    <3>1. MAX_SIZE \in Nat /\ MAX_SIZE \in Capacities /\ Capacities \subseteq Nat
      BY CapacityBounds
    <3>2. MAX_SIZE >= Required(size)
      BY <1>1, <1>3, <3>1
    <3> QED
      BY <3>1, <3>2
  <2>2. Min(C) \in C
    BY <2>1, MinNat
  <2>3. AdjustCapacity(size) = Min(C)
    BY <1>3 DEF AdjustCapacity
  <2>4. Min(C) \in Nat /\ Min(C) >= Required(size)
    BY <2>1, <2>2
  <2> HIDE DEF C
  <2> QED
    BY <1>1, <2>3, <2>4
<1> QED
  BY <1>2, <1>3

\* A larger table has a larger limit, short of the largest.
LEMMA LimitGrows ==
  ASSUME LANES > 1, NEW c \in Capacities, NEW d \in Capacities, c < d, d < MAX_SIZE,
         NEW m \in Nat, m >= MIN_LOAD_FACTOR
  PROVE  GrowthLimit(c, m) < GrowthLimit(d, m)
<1>1. /\ c \in Nat /\ d \in Nat /\ MAX_SIZE \in Nat /\ LANES \in Nat
      /\ c % LANES = 0 /\ d % LANES = 0
  BY CapacityBounds, LanesTyped, HashAssumption
<1>2. c + 2 <= d
  <2>1. (c + 1) % LANES # 0
    BY <1>1
  <2> QED
    BY <1>1, <2>1
<1>3. (c + 2) * m <= d * m /\ d * m \in Nat /\ c * m \in Nat
  BY <1>1, <1>2, TimesMonotone
<1>4. (c + 2) * m = c * m + 2 * m
  BY <1>1
<1>5. c * m + LF_UNIT <= d * m
  BY <1>1, <1>3, <1>4 DEF LF_UNIT, MIN_LOAD_FACTOR
<1>6. (c * m) \div LF_UNIT < (d * m) \div LF_UNIT
  BY <1>3, <1>5 DEF LF_UNIT
<1> QED
  BY <1>1, <1>6 DEF GrowthLimit

\* The limit is the one of the capacity and of a load factor the table accepts.
LimitCurrent ==
  /\ CountGrowthLimit = GrowthLimit(Capacity, maxLoadFactor)
  /\ maxLoadFactor \in MIN_LOAD_FACTOR..MAX_LOAD_FACTOR

\* Resize leaves the limit of the capacity it leaves.
LEMMA ResizeFromLimit ==
  ASSUME LimitCurrent, NEW size, NEW t, NEW e, NEW n, ResizeFrom(size, t, e, n)
  PROVE  LimitCurrent'
<1> DEFINE c == AdjustCapacity(size)
<1>1. CASE Abort
  BY <1>1 DEF Abort, LimitCurrent, table
<1>2. CASE Keep(t, e, n, CountGrowthLimit)
  BY <1>2 DEF Keep, LimitCurrent
<1>3. CASE Capacity = c /\ Keep(t, e, n, GrowthLimit(c, maxLoadFactor))
  BY <1>3 DEF Keep, LimitCurrent
<1>4. CASE Reallocate(c, t, e, n)
  <2> HIDE DEF c
  <2> QED
    BY <1>1, <1>4 DEF Reallocate, LimitCurrent
<1> QED
  BY <1>1, <1>2, <1>3, <1>4 DEF ResizeFrom

\* Every step leaves the limit current.
LEMMA LimitStep ==
  ASSUME LimitCurrent, [Next]_vars
  PROVE  LimitCurrent'
<1>1. ASSUME UNCHANGED <<Capacity, CountGrowthLimit, maxLoadFactor>> PROVE LimitCurrent'
  BY <1>1 DEF LimitCurrent
<1>2. CASE UNCHANGED vars
  BY <1>1, <1>2 DEF vars, table
<1>3. ASSUME NEW k, NEW v, Insert(k, v) PROVE LimitCurrent'
  BY <1>1, <1>3, ResizeFromLimit DEF Insert, Keep
<1>4. ASSUME NEW k, NEW v, CheckedAdds(k, v) \/ UniqueAdds(k, v) PROVE LimitCurrent'
  BY <1>1, <1>3, <1>4
  DEF CheckedAdds, UniqueAdds, Add, AddOrUpdate, AddUnique, AddChecked, Hang, table
<1>5. ASSUME NEW k, Find(k) \/ Remove(k) PROVE LimitCurrent'
  BY <1>1, <1>5 DEF Find, Remove, Hang, table
<1>6. ASSUME Rehash PROVE LimitCurrent'
  BY <1>1, <1>6 DEF Rehash, table
<1>7. ASSUME NEW size, Resize(size) PROVE LimitCurrent'
  BY <1>7, ResizeFromLimit DEF Resize
<1>8. ASSUME NEW size, Clear(size) PROVE LimitCurrent'
  <2>1. \/ UNCHANGED <<Capacity, CountGrowthLimit, maxLoadFactor>>
        \/ Reallocate(AdjustCapacity(size), NoTags, entries, 0)
    BY <1>8 DEF Clear, Keep
  <2>2. CASE Reallocate(AdjustCapacity(size), NoTags, entries, 0)
    BY <1>1, <2>2 DEF Reallocate, Abort, LimitCurrent, table
  <2> QED
    BY <1>1, <2>1, <2>2
<1>9. ASSUME NEW mlf, SetMaxLoadFactor(mlf) PROVE LimitCurrent'
  BY <1>9 DEF SetMaxLoadFactor, LimitCurrent
<1>10. CASE OtherCalls
  BY <1>5, <1>6, <1>7, <1>8, <1>9, <1>10 DEF OtherCalls
<1>11. CASE RehashLoop
  BY <1>1, <1>11
  DEF RehashLoop, RehashSkip, RehashTake, RehashDisplace, RehashDone, Settle, Hang, table
<1> QED
  BY <1>2, <1>4, <1>10, <1>11 DEF Next

\* Every state has the limit of its capacity and load factor.
LEMMA LimitInvariant == Spec => []LimitCurrent
<1>1. Init => LimitCurrent
  BY DEF Init, LimitCurrent, DEF_LOAD_FACTOR, MIN_LOAD_FACTOR, MAX_LOAD_FACTOR
<1>2. LimitCurrent /\ [Next]_vars => LimitCurrent'
  BY LimitStep
<1> QED
  BY <1>1, <1>2, PTL DEF Spec

\* What a step may do to the count and its limit.
FilledByLowering ==
  HeldCount < CountGrowthLimit /\ HeldCount' >= CountGrowthLimit'
    => Capacity' = MAX_SIZE \/ maxLoadFactor' < maxLoadFactor

\* A table below its limit that counts no more, and whose capacity and load
\* factor do not get less, stays below it.
LEMMA BelowStays ==
  ASSUME TypeOK, TypeOK', LimitCurrent, LimitCurrent', HeldCount' <= HeldCount,
         Capacity <= Capacity', maxLoadFactor <= maxLoadFactor'
  PROVE  FilledByLowering
<1> SUFFICES ASSUME HeldCount < CountGrowthLimit, Capacity' # MAX_SIZE
             PROVE  ~(HeldCount' >= CountGrowthLimit')
  BY DEF FilledByLowering
<1>1. /\ Capacity \in Capacities /\ Capacity' \in Capacities
      /\ maxLoadFactor \in Nat /\ maxLoadFactor' \in Nat /\ Capacity' < MAX_SIZE
      /\ CountGrowthLimit \in Nat /\ CountGrowthLimit' \in Nat
  BY CapacityBounds DEF TypeOK
<1>2. HeldCount \in Int /\ HeldCount' \in Int
  BY DEF TypeOK, HeldCount
<1>3. GrowthLimit(Capacity, maxLoadFactor) <= GrowthLimit(Capacity', maxLoadFactor)
  BY <1>1, LimitByCapacity
<1>4. GrowthLimit(Capacity', maxLoadFactor) <= GrowthLimit(Capacity', maxLoadFactor')
  BY <1>1, LimitByFactor
<1>5. CountGrowthLimit <= CountGrowthLimit'
  <2>1. /\ GrowthLimit(Capacity, maxLoadFactor) \in Nat
        /\ GrowthLimit(Capacity', maxLoadFactor) \in Nat
        /\ GrowthLimit(Capacity', maxLoadFactor') \in Nat
    BY <1>1, GrowthLimitTyped
  <2> QED
    BY <1>3, <1>4, <2>1 DEF LimitCurrent
<1> QED
  BY <1>1, <1>2, <1>5

\* The tail of Add grows the table at the limit, unless it is the largest, and
\* then has room again.
LEMMA InsertFilled ==
  ASSUME CountInv, LimitCurrent, LANES > 1, status = "idle", NEW k, NEW v, Insert(k, v)
  PROVE  FilledByLowering
<1> SUFFICES ASSUME Count < CountGrowthLimit, HeldCount' >= CountGrowthLimit',
                    Capacity' # MAX_SIZE
             PROVE  FALSE
  BY DEF FilledByLowering, HeldCount
<1> DEFINE s == VacantSlot(k)
           t == [tags EXCEPT ![s] = TagOf[k]]
           e == [entries EXCEPT ![s] = [key |-> k, value |-> v]]
           c == AdjustCapacity(Capacity + 1)
<1>1. /\ Capacity \in Nat /\ Capacity \in Capacities /\ Count \in Int
      /\ CountGrowthLimit \in Nat /\ Capacity + 1 \in Nat
      /\ MAX_SIZE \in Nat /\ Capacity <= MAX_SIZE
      /\ maxLoadFactor \in Nat /\ maxLoadFactor >= MIN_LOAD_FACTOR
  BY CapacityBounds DEF CountInv, TypeOK, LimitCurrent, MIN_LOAD_FACTOR
<1>2. c \in Nat /\ c \in Capacities /\ (c = MAX_SIZE \/ c >= Capacity + 1)
  BY <1>1, AdjustCapacityCovers, AdjustCapacityTyped, CapacityBounds
<1>3. \/ AtLimit(Count + 1) /\ ResizeFrom(Capacity + 1, t, e, Count + 1)
      \/ ~AtLimit(Count + 1) /\ Keep(t, e, Count + 1, CountGrowthLimit)
  BY DEF Insert
<1> HIDE DEF t, e
<1>4. ASSUME Abort PROVE FALSE
  <2>1. Count' = Count /\ CountGrowthLimit' = CountGrowthLimit /\ HeldCount' = Count'
    BY <1>4 DEF Abort, table, HeldCount
  <2> QED
    BY <1>1, <2>1
<1>5. CASE AtLimit(Count + 1) /\ ResizeFrom(Capacity + 1, t, e, Count + 1)
  <2>1. \/ Capacity >= c /\ \E limit : Keep(t, e, Count + 1, limit)
        \/ Capacity < c /\ Reallocate(c, t, e, Count + 1)
    BY <1>1, <1>2, <1>4, <1>5 DEF ResizeFrom
  <2> HIDE DEF c
  <2>2. CASE Capacity >= c /\ \E limit : Keep(t, e, Count + 1, limit)
    <3>1. Capacity' = Capacity
      BY <2>2 DEF Keep
    <3> QED
      BY <1>1, <1>2, <2>2, <3>1
  <2>3. CASE Capacity < c /\ Reallocate(c, t, e, Count + 1)
    <3>1. /\ Capacity' = c /\ CountGrowthLimit' = GrowthLimit(c, maxLoadFactor)
          /\ HeldCount' = Count + 1
      BY <1>4, <2>3, CountsOne DEF Reallocate, StartRehash, HeldCount
    <3>2. c < MAX_SIZE
      BY <1>2, <3>1, CapacityBounds
    <3>3. GrowthLimit(Capacity, maxLoadFactor) < GrowthLimit(c, maxLoadFactor)
      BY <1>1, <1>2, <2>3, <3>2, LimitGrows
    <3>4. Count + 1 = GrowthLimit(Capacity, maxLoadFactor)
      BY <1>5 DEF AtLimit, LimitCurrent
    <3>5. GrowthLimit(c, maxLoadFactor) \in Nat
      BY <1>1, <1>2, GrowthLimitTyped
    <3> QED
      BY <1>1, <3>1, <3>3, <3>4, <3>5
  <2> QED
    BY <2>1, <2>2, <2>3
<1>6. CASE ~AtLimit(Count + 1) /\ Keep(t, e, Count + 1, CountGrowthLimit)
  <2>1. /\ Count + 1 # CountGrowthLimit /\ HeldCount' = Count + 1
        /\ CountGrowthLimit' = CountGrowthLimit
    BY <1>6 DEF AtLimit, Keep, HeldCount
  <2> QED
    BY <1>1, <2>1
<1> QED
  BY <1>3, <1>5, <1>6

\* Every step does as FilledByLowering says.
LEMMA FilledStep ==
  ASSUME CountInv, LimitCurrent, LANES > 1, [Next]_vars
  PROVE  FilledByLowering
<1>1. TypeOK /\ TypeOK' /\ LimitCurrent'
  BY TypeStep, LimitStep DEF CountInv
<1>2. /\ Count \in Nat /\ Capacity \in Nat /\ maxLoadFactor \in Nat
      /\ maxLoadFactor' \in Nat /\ HeldCount \in Int
  BY <1>1, SlotsFinite, CapacityBounds DEF CountInv, CountIsFull, TypeOK, HeldCount
<1>3. ASSUME HeldCount' <= HeldCount, Capacity <= Capacity',
             maxLoadFactor' = maxLoadFactor
      PROVE  FilledByLowering
  BY <1>1, <1>2, <1>3, BelowStays
<1>4. ASSUME HeldCount' <= HeldCount, UNCHANGED <<Capacity, maxLoadFactor>>
      PROVE  FilledByLowering
  BY <1>2, <1>3, <1>4
<1>5. ASSUME status' # "rehash", status # "rehash", UNCHANGED <<Count, Capacity, maxLoadFactor>>
      PROVE  FilledByLowering
  <2>1. HeldCount' = HeldCount
    BY <1>5 DEF HeldCount
  <2> QED
    BY <1>2, <1>4, <1>5, <2>1
<1>6. CASE UNCHANGED vars
  <2>1. HeldCount' = HeldCount /\ UNCHANGED <<Capacity, maxLoadFactor>>
    BY <1>6 DEF vars, table, loop, HeldCount
  <2> QED
    BY <1>2, <1>4, <2>1
<1>7. ASSUME NEW k \in Keys, NEW v \in Values, CheckedAdds(k, v) \/ UniqueAdds(k, v)
      PROVE  FilledByLowering
  <2>1. status = "idle"
    BY <1>7, CallIdle
  <2>2. \/ status' # "rehash" /\ UNCHANGED <<Count, Capacity, maxLoadFactor>>
        \/ Insert(k, v)
    BY <1>7, <2>1
    DEF CheckedAdds, UniqueAdds, Add, AddOrUpdate, AddUnique, AddChecked, Hang, table
  <2> QED
    BY <1>5, <2>1, <2>2, InsertFilled
<1>8. ASSUME NEW k \in Keys, Find(k) \/ Remove(k) PROVE FilledByLowering
  <2>1. /\ status = "idle" /\ status' # "rehash" /\ UNCHANGED <<Capacity, maxLoadFactor>>
        /\ Count' = Count \/ Count' = Count - 1
    BY <1>8 DEF Find, Remove, Hang, table
  <2>2. HeldCount' <= HeldCount
    BY <1>2, <2>1 DEF HeldCount
  <2> QED
    BY <1>4, <2>1, <2>2
<1>9. ASSUME Rehash PROVE FilledByLowering
  <2>1. /\ HeldCount' = HeldCount /\ UNCHANGED <<Capacity, maxLoadFactor>>
    BY <1>9 DEF Rehash, StartRehash, table, HeldCount
  <2> QED
    BY <1>2, <1>4, <2>1
<1>10. ASSUME NEW c \in Capacities, NEW t, NEW n \in {0, Count}, status = "idle",
              Reallocate(c, t, entries, n)
       PROVE  FilledByLowering
  <2>1. CASE Abort
    BY <1>5, <1>10, <2>1 DEF Abort, table
  <2>2. CASE c - 1 \notin DOMAIN entries /\ Capacity' = c /\ HeldCount' = n /\ maxLoadFactor' = maxLoadFactor
    <3>1. c \in Nat /\ c > 0 /\ DOMAIN entries = 0..(Capacity - 1)
      BY <1>1, CapacityBounds DEF TypeOK
    <3>2. Capacity <= Capacity'
      BY <1>2, <2>2, <3>1
    <3>3. HeldCount' <= HeldCount
      BY <1>2, <1>10, <2>2 DEF HeldCount
    <3> QED
      BY <1>3, <2>2, <3>2, <3>3
  <2>3. \/ Abort
        \/ /\ c - 1 \notin DOMAIN entries /\ Capacity' = c /\ maxLoadFactor' = maxLoadFactor
           /\ HeldCount' = n
    BY <1>10 DEF Reallocate, StartRehash, HeldCount
  <2> QED
    BY <2>1, <2>2, <2>3
<1>11. ASSUME NEW size \in Sizes, Resize(size) PROVE FilledByLowering
  <2>1. AdjustCapacity(size) \in Capacities
    BY HashAssumption, AdjustCapacityTyped
  <2>2. /\ status = "idle"
        /\ \/ status' # "rehash" /\ UNCHANGED <<Count, Capacity, maxLoadFactor>>
           \/ Reallocate(AdjustCapacity(size), tags, entries, Count)
    BY <1>11 DEF Resize, ResizeFrom, Keep, Abort, table
  <2> QED
    BY <1>5, <1>10, <2>1, <2>2
<1>12. ASSUME NEW size \in Sizes, Clear(size) PROVE FilledByLowering
  <2>1. AdjustCapacity(size) \in Capacities /\ status = "idle"
    BY <1>12, HashAssumption, AdjustCapacityTyped DEF Clear
  <2>2. \/ /\ Count' = 0 /\ status' = status
           /\ UNCHANGED <<Capacity, maxLoadFactor>>
        \/ Reallocate(AdjustCapacity(size), NoTags, entries, 0)
    BY <1>12 DEF Clear, Keep
  <2>3. Count' = 0 /\ status' = status => HeldCount' <= HeldCount
    BY <1>2, <2>1 DEF HeldCount
  <2> QED
    BY <1>4, <1>10, <2>1, <2>2, <2>3
<1>13. ASSUME NEW mlf \in LoadFactors, SetMaxLoadFactor(mlf) PROVE FilledByLowering
  <2>1. Capacity' = Capacity /\ HeldCount' = HeldCount
    BY <1>13 DEF SetMaxLoadFactor, HeldCount
  <2>2. CASE maxLoadFactor' < maxLoadFactor
    BY <2>2 DEF FilledByLowering
  <2>3. CASE maxLoadFactor <= maxLoadFactor'
    BY <1>1, <1>2, <2>1, <2>3, BelowStays
  <2> QED
    BY <1>2, <2>2, <2>3
<1>14. CASE OtherCalls
  BY <1>8, <1>9, <1>11, <1>12, <1>13, <1>14 DEF OtherCalls
<1>15. CASE RehashLoop
  <2>1. status = "rehash" /\ UNCHANGED <<Capacity, maxLoadFactor>>
    BY <1>15
    DEF RehashLoop, RehashSkip, RehashTake, RehashDisplace, RehashDone, Settle, Hang, table
  <2>2. \/ status' = "rehash" /\ prevCount' = prevCount
        \/ status' # "rehash" /\ Count' = Count
    BY <1>15, <2>1
    DEF RehashLoop, RehashSkip, RehashTake, RehashDisplace, RehashDone, Settle, Hang, table
  <2>3. Count <= prevCount
    BY <1>1, <1>2, <2>1, SlotsFinite DEF CountInv, CountIsFull
  <2>4. HeldCount' <= HeldCount
    BY <1>1, <1>2, <2>1, <2>2, <2>3 DEF HeldCount
  <2> QED
    BY <1>4, <2>1, <2>4
<1> QED
  BY <1>6, <1>7, <1>14, <1>15 DEF Next

\* A table below its growth limit leaves it by a lowered load factor only, its
\* largest size apart: the equality test of Add, made once for every count, is
\* enough through adds, removals, growth, rehashes and Clear, and a table that
\* grows has room again.
THEOREM OverfullByLowering ==
  ASSUME LANES > 1
  PROVE  Spec => OverfullOnlyByLowering
<1>1. CountInv /\ LimitCurrent /\ [Next]_vars => [FilledByLowering]_vars
  BY FilledStep
<1> QED
  BY <1>1, CountInvariant, LimitInvariant, PTL
  DEF Spec, OverfullOnlyByLowering, FilledByLowering

-----------------------------------------------------------------------------
(* When an Add does not see a key that is there.                           *)

\* An EMPTY slot is vacant.
LEMMA EmptyIsVacant ==
  ASSUME NEW k
  PROVE  EmptySteps(k) \subseteq VacantSteps(k)
BY DEF EmptySteps, VacantSteps, GetEmptyMask, GetEmptyOrTomeStoneMask

\* An Add that misses a stored key stops at a vector with a tombstone and no
\* EMPTY slot, before every vector in which it would have hit.
LEMMA MissesPastTombstone ==
  ASSUME TypeOK, ProbeChain, MistestedLanes = {}, NEW k \in StoredKeys,
         VacantSteps(k) # {}, ~Hits(k, VacantSteps(k))
  PROVE  \E j \in VacantSteps(k) :
           EmptySteps(k) \cap 0..j = {} /\ HitSteps(k) \cap 0..j = {}
<1> DEFINE j == Min(VacantSteps(k))
<1>1. /\ VacantSteps(k) \subseteq Nat /\ HitSteps(k) \subseteq Nat
      /\ EmptySteps(k) \subseteq VacantSteps(k)
  BY ProbeStepsTyped, EmptyIsVacant DEF VacantSteps, HitSteps
<1>2. j \in VacantSteps(k) /\ j \in Nat /\ \A x \in VacantSteps(k) : j <= x
  BY <1>1, MinNat
<1> HIDE DEF j
<1>3. \A i \in HitSteps(k) : j < i
  BY <1>1, <1>2 DEF Hits
<1>4. PICK s \in FullSlots : entries[s].key = k
  BY DEF StoredKeys
<1>5. PICK i \in ProbeSteps(Capacity) : ReachedAt(s, k, i)
  BY <1>4 DEF ProbeChain
<1>6. i \in HitSteps(k)
  BY <1>4, <1>5, StepHits DEF ProbeChain, ReachedAt
<1>7. \A x \in EmptySteps(k) : i <= x
  BY <1>5 DEF ReachedAt
<1>8. \A x \in EmptySteps(k) : x \in Nat /\ j < x
  BY <1>1, <1>2, <1>3, <1>6, <1>7
<1> QED
  BY <1>1, <1>2, <1>3, <1>8

\* the slots that hold k
Copies(k) == {s \in FullSlots : entries[s].key = k}

\* A call that leaves its slots to a part of the old ones makes no copy.
LEMMA NoCopy ==
  ASSUME TypeOK, NEW F \in SUBSET FullSlots, NEW e, Holds(F, e),
         \A s \in F : e[s].key = entries[s].key, status' = "idle", NEW k
  PROVE  Copies(k)' \subseteq Copies(k)
<1>1. FullSlots' = F /\ \A s \in F : entries'[s] = e[s]
  BY DEF Holds
<1> QED
  BY <1>1 DEF Copies

\* What a step does to the number of copies of a stored key.
CopiedPastTombstone ==
  \A k \in StoredKeys :
    Cardinality({s \in FullSlots' : entries'[s].key = k})
        > Cardinality({s \in FullSlots : entries[s].key = k})
      /\ status' = "idle" /\ status = "idle"
    => \E j \in VacantSteps(k) :
         /\ EmptySteps(k) \cap 0..j = {}
         /\ HitSteps(k) \cap 0..j = {}

\* A checked Add copies a key it does not see, and no other.
LEMMA CheckedCopies ==
  ASSUME CountInv, ProbeChain, MistestedLanes = {}, status' = "idle",
         NEW x \in Keys, NEW v \in Values, CheckedAdds(x, v), NEW k \in StoredKeys
  PROVE  \/ Copies(k)' \subseteq Copies(k)
         \/ \E j \in VacantSteps(k) :
              EmptySteps(k) \cap 0..j = {} /\ HitSteps(k) \cap 0..j = {}
<1>1. PICK op, update : AddChecked(op, x, v, update)
  BY DEF CheckedAdds, Add, AddOrUpdate
<1>2. TypeOK /\ status = "idle"
  BY <1>1 DEF CountInv, AddChecked
<1>3. CASE /\ Hits(x, VacantSteps(x))
           /\ entries' = IF update THEN Updating(HitSlot(x), v) ELSE entries
           /\ UNCHANGED <<tags, Capacity, status, loop>>
  <2>1. HitSlot(x) \in FullSlots
    BY <1>2, <1>3, HitsKnown
  <2>2. /\ FullSlots' = FullSlots
        /\ \A s \in FullSlots : entries'[s].key = entries[s].key
    BY <1>2, <1>3, <2>1, UpdateHolds DEF FullSlots
  <2> QED
    BY <2>2 DEF Copies
<1>4. CASE ~Hits(x, VacantSteps(x)) /\ VacantSteps(x) # {} /\ Insert(x, v)
  <2>1. CASE x = k
    BY <1>2, <1>4, <2>1, MissesPastTombstone
  <2>2. CASE x # k
    <3>1. PICK s : s = VacantSlot(x)
      OBVIOUS
    <3>2. /\ s \in 0..(Capacity - 1) /\ s \notin FullSlots
          /\ Holds(FullSlots \cup {s}, Storing(s, x, v))
      BY <1>2, <1>4, <3>1, InsertHolds DEF Abort
    <3>3. /\ FullSlots' = FullSlots \cup {s}
          /\ \A y \in FullSlots \cup {s} : entries'[y] = Storing(s, x, v)[y]
      BY <3>2 DEF Holds
    <3>4. /\ DOMAIN entries = 0..(Capacity - 1)
          /\ FullSlots \subseteq 0..(Capacity - 1)
      BY <1>2, SlotsOfTable DEF TypeOK
    <3>5. /\ Storing(s, x, v)[s].key = x
          /\ \A y \in FullSlots : Storing(s, x, v)[y] = entries[y]
      BY <3>2, <3>4 DEF Storing
    <3> QED
      BY <2>2, <3>3, <3>5 DEF Copies
  <2> QED
    BY <2>1, <2>2
<1>5. ~Hang
  BY DEF Hang
<1> QED
  BY <1>1, <1>3, <1>4, <1>5 DEF AddChecked, Updating, Hangs, Hits

\* The calls that add nothing copy nothing.
LEMMA OtherCopies ==
  ASSUME CountInv, status' = "idle", OtherCalls, NEW k
  PROVE  Copies(k)' \subseteq Copies(k)
<1>1. ASSUME NEW F \in SUBSET FullSlots, Holds(F, entries)
      PROVE  Copies(k)' \subseteq Copies(k)
  BY <1>1, NoCopy DEF CountInv
<1>2. ~Hang /\ ~Abort
  BY DEF Hang, Abort
<1>3. ASSUME NEW x \in Keys, Find(x) PROVE Copies(k)' \subseteq Copies(k)
  BY <1>1, <1>2, <1>3, FindHolds
<1>4. ASSUME NEW x \in Keys, Remove(x) PROVE Copies(k)' \subseteq Copies(k)
  BY <1>1, <1>2, <1>4, RemoveHolds
<1>5. ASSUME Rehash PROVE Copies(k)' \subseteq Copies(k)
  BY <1>1, <1>5, RehashHolds
<1>6. ASSUME NEW size \in Sizes, Resize(size) PROVE Copies(k)' \subseteq Copies(k)
  BY <1>1, <1>2, <1>6, ResizeHolds
<1>7. ASSUME NEW size \in Sizes, Clear(size) PROVE Copies(k)' \subseteq Copies(k)
  BY <1>1, <1>2, <1>7, ClearHolds
<1>8. ASSUME NEW mlf \in LoadFactors, SetMaxLoadFactor(mlf)
      PROVE  Copies(k)' \subseteq Copies(k)
  BY <1>1, <1>8, LoadFactorHolds
<1> QED
  BY <1>3, <1>4, <1>5, <1>6, <1>7, <1>8 DEF OtherCalls

\* Every step does as CopiedPastTombstone says.
LEMMA CopyStep ==
  ASSUME CountInv, ProbeChain, MistestedLanes = {}, "AddUnique" \notin Calls,
         [Next]_vars
  PROVE  CopiedPastTombstone
<1> SUFFICES ASSUME NEW k \in StoredKeys, status' = "idle", status = "idle",
                    Cardinality(Copies(k)') > Cardinality(Copies(k))
             PROVE  \E j \in VacantSteps(k) :
                      EmptySteps(k) \cap 0..j = {} /\ HitSteps(k) \cap 0..j = {}
  BY DEF CopiedPastTombstone, Copies
<1>1. ~(Copies(k)' \subseteq Copies(k))
  <2>1. IsFiniteSet(Copies(k))
    <3>1. IsFiniteSet(FullSlots) /\ Copies(k) \subseteq FullSlots
      BY SlotsFinite DEF Copies, CountInv
    <3> QED
      BY <3>1, FS_Subset
  <2> SUFFICES ASSUME Copies(k)' \subseteq Copies(k) PROVE FALSE
    OBVIOUS
  <2>2. /\ IsFiniteSet(Copies(k)')
        /\ Cardinality(Copies(k)') <= Cardinality(Copies(k))
    BY <2>1, FS_Subset
  <2>3. Cardinality(Copies(k)') \in Nat /\ Cardinality(Copies(k)) \in Nat
    BY <2>1, <2>2, FS_CardinalityType
  <2> QED
    BY <2>2, <2>3
<1>2. CASE UNCHANGED vars
  BY <1>1, <1>2 DEF vars, table, Copies, FullSlots
<1>3. CASE OtherCalls
  BY <1>1, <1>3, OtherCopies
<1>4. CASE \E x \in Keys, v \in Values : CheckedAdds(x, v)
  BY <1>1, <1>4, CheckedCopies
<1>5. ~RehashLoop
  BY DEF RehashLoop, RehashSkip, RehashTake, RehashDisplace, RehashDone
<1>6. \A x, v : ~UniqueAdds(x, v)
  BY DEF UniqueAdds
<1> QED
  BY <1>2, <1>3, <1>4, <1>5, <1>6 DEF Next

\* In the default build, and with AddUnique left out, a second copy of a stored
\* key gets into the table only when the probe meets a vector with a tombstone
\* before any vector with an EMPTY slot and before any that holds the key.
THEOREM CopiesOnlyPastTombstone ==
  ASSUME MistestedLanes = {}, "AddUnique" \notin Calls
  PROVE  Spec => CopyOnlyPastTombstone
<1>1. CountInv /\ ProbeChain /\ [Next]_vars => [CopiedPastTombstone]_vars
  BY CopyStep
<1> QED
  BY <1>1, CountInvariant, ChainUnbroken, PTL
  DEF Spec, CopyOnlyPastTombstone, CopiedPastTombstone

-----------------------------------------------------------------------------
(* When a probe loop runs on for ever.  Both theorems rest on ProbesCover, *)
(* a fact about the jumps and the table sizes that ProbeLoop checks;       *)
(* NoHang also on RoomLeft, a fact about the table sizes and the largest   *)
(* load factor.                                                            *)

\* No slot is EMPTY but those a probe may never load.
Exhausted == \A s \in 0..(Capacity - 1) : tags[s] = EMPTY => s < LANES - 1

\* A probe that meets no EMPTY slot has loaded every one it can.
LEMMA ProbeExhausts ==
  ASSUME TypeOK, ProbesCover, NEW k \in Keys, EmptySteps(k) = {}
  PROVE  Exhausted
<1> SUFFICES ASSUME NEW s \in 0..(Capacity - 1), tags[s] = EMPTY, ~(s < LANES - 1)
             PROVE  FALSE
  BY DEF Exhausted
<1>1. Capacity \in Capacities /\ Capacity \in Nat /\ LANES \in Nat \ {0}
  BY CapacityBounds, LanesTyped DEF TypeOK
<1>2. s \in (LANES - 1)..(Capacity - 1)
  BY <1>1
<1>3. PICK i \in ProbeSteps(Capacity) : s - Position(k, i) \in Lanes
  BY <1>1, <1>2 DEF ProbesCover, Position
<1>4. Position(k, i) \in 0..(Capacity - 1)
  BY PositionTyped
<1>5. Position(k, i) + (s - Position(k, i)) = s
  BY <1>1, <1>4
<1>6. s - Position(k, i) \in GetEmptyMask(tags, Position(k, i))
  BY <1>3, <1>5 DEF GetEmptyMask
<1> QED
  BY <1>3, <1>6 DEF EmptySteps

\* A step that hangs leaves the table alone and has met no EMPTY slot.
LEMMA HangExhausts ==
  ASSUME TypeOK, ProbesCover, Next, status' = "hung"
  PROVE  Exhausted /\ UNCHANGED <<table, maxLoadFactor>>
<1>1. ASSUME Hang, NEW k \in Keys, EmptySteps(k) = {}
      PROVE  Exhausted /\ UNCHANGED <<table, maxLoadFactor>>
  BY <1>1, ProbeExhausts DEF Hang
<1>2. ASSUME Hang, NEW k \in Keys, VacantSteps(k) = {}
      PROVE  Exhausted /\ UNCHANGED <<table, maxLoadFactor>>
  BY <1>1, <1>2, EmptyIsVacant
<1>3. ASSUME UNCHANGED status PROVE Next => FALSE
  BY <1>3, CallIdle DEF Next, RehashLoop, RehashSkip, RehashTake, RehashDisplace, RehashDone
<1>4. ~Abort /\ \A t, e, n, limit : ~Keep(t, e, n, limit)
  BY <1>3 DEF Abort, Keep
<1>5. ASSUME NEW c, NEW t, NEW e, NEW n PROVE ~Reallocate(c, t, e, n)
  BY <1>3, <1>4 DEF Reallocate, StartRehash
<1>6. ASSUME NEW size, NEW t, NEW e, NEW n PROVE ~ResizeFrom(size, t, e, n)
  BY <1>4, <1>5 DEF ResizeFrom
<1>7. ASSUME NEW k, NEW v PROVE ~Insert(k, v)
  BY <1>4, <1>6 DEF Insert
<1>8. ASSUME NEW k \in Keys, NEW v, CheckedAdds(k, v) \/ UniqueAdds(k, v)
      PROVE  Exhausted /\ UNCHANGED <<table, maxLoadFactor>>
  BY <1>2, <1>3, <1>7, <1>8
  DEF CheckedAdds, UniqueAdds, Add, AddOrUpdate, AddUnique, AddChecked, Hangs
<1>9. ASSUME NEW k \in Keys, Find(k) \/ Remove(k)
      PROVE  Exhausted /\ UNCHANGED <<table, maxLoadFactor>>
  BY <1>1, <1>3, <1>9 DEF Find, Remove, Hangs
<1>10. /\ ~Rehash /\ \A size : ~Resize(size) /\ ~Clear(size)
       /\ \A mlf : ~SetMaxLoadFactor(mlf)
  BY <1>3, <1>4, <1>5, <1>6 DEF Rehash, StartRehash, Resize, Clear, SetMaxLoadFactor
<1>11. CASE RehashLoop
  <2>1. ~RehashSkip /\ ~RehashDone
    BY <1>3 DEF RehashSkip, RehashDone
  <2>2. ASSUME NEW tag, NEW entry \in Entry, NEW pt, Settle(tag, entry, pt)
        PROVE  Exhausted /\ UNCHANGED <<table, maxLoadFactor>>
    <3>1. entry.key \in Keys
      BY DEF Entry
    <3>2. Hang /\ EmptySteps(entry.key) = {}
      BY <1>3, <2>2 DEF Settle
    <3> QED
      BY <1>1, <3>1, <3>2
  <2>3. CASE RehashTake
    <3>1. entries[cursor] \in Entry
      BY <2>3, PendingTyped DEF RehashTake, TypeOK
    <3> QED
      BY <2>2, <2>3, <3>1 DEF RehashTake
  <2>4. CASE RehashDisplace
    <3>1. carried.entry \in Entry
      BY <2>4 DEF RehashDisplace, TypeOK, CarriedEntry
    <3> QED
      BY <2>2, <2>4, <3>1 DEF RehashDisplace
  <2> QED
    BY <1>11, <2>1, <2>3, <2>4 DEF RehashLoop
<1> QED
  BY <1>8, <1>9, <1>10, <1>11 DEF Next, OtherCalls

\* Where every probe covers the table, no search, Add or rehash runs on for
\* ever while a slot is EMPTY that is not one of the first LANES - 1.
THEOREM HangsOnlyExhausted ==
  ASSUME ProbesCover
  PROVE  Spec => []HangOnlyWhenExhausted
<1>1. Init => HangOnlyWhenExhausted
  BY DEF Init, HangOnlyWhenExhausted
<1>2. TypeOK /\ HangOnlyWhenExhausted /\ [Next]_vars => HangOnlyWhenExhausted'
  <2> SUFFICES ASSUME TypeOK, HangOnlyWhenExhausted, [Next]_vars, status' = "hung"
               PROVE  HangOnlyWhenExhausted'
    BY DEF HangOnlyWhenExhausted
  <2>1. CASE Next
    <3>1. Exhausted /\ UNCHANGED <<tags, Capacity>>
      BY <2>1, HangExhausts DEF table
    <3> QED
      BY <3>1 DEF Exhausted, HangOnlyWhenExhausted
  <2>2. CASE UNCHANGED vars
    BY <2>2 DEF vars, table, HangOnlyWhenExhausted
  <2> QED
    BY <2>1, <2>2
<1> QED
  BY <1>1, <1>2, TypeCorrect, PTL DEF Spec

-----------------------------------------------------------------------------
(* Without removals: no slot ever becomes a tombstone, so a table with no  *)
(* EMPTY slot left is full, and that takes more entries than the limit.    *)

Graveless(t) == \A s \in DOMAIN t : t[s] # TOMBSTONE

\* New tags have no tombstone, and storing an entry makes none.
LEMMA FreshGraveless ==
  ASSUME NEW c
  PROVE  Graveless(FreshTags(c))
BY TagKinds DEF Graveless, FreshTags

LEMMA StoreGraveless ==
  ASSUME NEW t, Graveless(t), NEW s, NEW tag \in HashTags
  PROVE  Graveless([t EXCEPT ![s] = tag])
<1>1. tag # TOMBSTONE
  BY TagKinds
<1> QED
  BY <1>1 DEF Graveless

\* Resize makes none, of the tags its caller left.
LEMMA ResizeFromGraveless ==
  ASSUME Graveless(tags), NEW size, NEW t, Graveless(t), NEW e, NEW n,
         ResizeFrom(size, t, e, n)
  PROVE  Graveless(tags')
<1>1. \/ \E limit : Keep(t, e, n, limit)
      \/ Abort
      \/ Reallocate(AdjustCapacity(size), t, e, n)
  BY DEF ResizeFrom
<1>2. CASE \E limit : Keep(t, e, n, limit)
  BY <1>2 DEF Keep
<1>3. CASE Abort
  BY <1>3 DEF Abort, table
<1>4. CASE Reallocate(AdjustCapacity(size), t, e, n)
  BY <1>3, <1>4, FreshGraveless DEF Reallocate, StartRehash
<1> QED
  BY <1>1, <1>2, <1>3, <1>4

LEMMA InsertGraveless ==
  ASSUME Graveless(tags), NEW k \in Keys, NEW v, Insert(k, v)
  PROVE  Graveless(tags')
<1> DEFINE t == [tags EXCEPT ![VacantSlot(k)] = TagOf[k]]
           e == [entries EXCEPT ![VacantSlot(k)] = [key |-> k, value |-> v]]
<1>1. Graveless(t)
  BY StoreGraveless, HashAssumption
<1>2. \/ ResizeFrom(Capacity + 1, t, e, Count + 1)
      \/ Keep(t, e, Count + 1, CountGrowthLimit)
  BY DEF Insert
<1> HIDE DEF t, e
<1>3. CASE ResizeFrom(Capacity + 1, t, e, Count + 1)
  BY <1>1, <1>3, ResizeFromGraveless
<1>4. CASE Keep(t, e, Count + 1, CountGrowthLimit)
  BY <1>1, <1>4 DEF Keep
<1> QED
  BY <1>2, <1>3, <1>4

\* RehashInternal writes hash tags only.
LEMMA RehashGraveless ==
  ASSUME TypeOK, Graveless(tags), RehashLoop
  PROVE  Graveless(tags')
<1>1. ASSUME tags' = tags PROVE Graveless(tags')
  BY <1>1
<1>2. ASSUME NEW tag \in HashTags, NEW entry, NEW pt, Settle(tag, entry, pt)
      PROVE  Graveless(tags')
  BY <1>1, <1>2, StoreGraveless DEF Settle, Hang, table
<1>3. CASE RehashSkip \/ RehashDone
  BY <1>1, <1>3 DEF RehashSkip, RehashDone, table
<1>4. CASE RehashTake
  <2>1. prevTags[cursor] \in HashTags
    BY <1>4 DEF RehashTake, Pending, IsFull
  <2> QED
    BY <1>2, <1>4, <2>1 DEF RehashTake
<1>5. CASE RehashDisplace
  <2>1. carried.tag \in HashTags
    BY <1>5 DEF RehashDisplace, TypeOK, CarriedEntry
  <2> QED
    BY <1>2, <1>5, <2>1 DEF RehashDisplace
<1> QED
  BY <1>3, <1>4, <1>5 DEF RehashLoop

LEMMA GravelessStep ==
  ASSUME TypeOK, Graveless(tags), "Remove" \notin Calls, [Next]_vars
  PROVE  Graveless(tags')
<1>1. ASSUME tags' = tags PROVE Graveless(tags')
  BY <1>1
<1>2. CASE UNCHANGED vars
  BY <1>1, <1>2 DEF vars, table
<1>3. ASSUME NEW k \in Keys, NEW v \in Values, CheckedAdds(k, v) \/ UniqueAdds(k, v)
      PROVE  Graveless(tags')
  <2>1. \/ Hang \/ UNCHANGED tags \/ Insert(k, v)
    BY <1>3 DEF CheckedAdds, UniqueAdds, Add, AddOrUpdate, AddUnique, AddChecked
  <2> QED
    BY <1>1, <2>1, InsertGraveless DEF Hang, table
<1>4. ASSUME NEW k \in Keys, Find(k) PROVE Graveless(tags')
  BY <1>1, <1>4 DEF Find, Hang, table
<1>5. ASSUME Rehash PROVE Graveless(tags')
  BY <1>1, <1>5, FreshGraveless DEF Rehash, StartRehash, table
<1>6. ASSUME NEW size \in Sizes, Resize(size) PROVE Graveless(tags')
  BY <1>6, ResizeFromGraveless DEF Resize
<1>7. ASSUME NEW size \in Sizes, Clear(size) PROVE Graveless(tags')
  BY <1>1, <1>7, FreshGraveless DEF Clear, Keep, Reallocate, StartRehash, Abort, table
<1>8. ASSUME NEW mlf \in LoadFactors, SetMaxLoadFactor(mlf) PROVE Graveless(tags')
  BY <1>1, <1>8 DEF SetMaxLoadFactor
<1>9. CASE RehashLoop
  BY <1>9, RehashGraveless
<1> QED
  BY <1>2, <1>3, <1>4, <1>5, <1>6, <1>7, <1>8, <1>9 DEF Next, OtherCalls

\* A table without EMPTY slots and tombstones has reached its limit.
LEMMA ExhaustedFull ==
  ASSUME CountInv, LimitCurrent, Graveless(tags), Exhausted, RoomLeft
  PROVE  Capacity = MAX_SIZE \/ Count >= CountGrowthLimit
<1> SUFFICES ASSUME Capacity # MAX_SIZE PROVE Count >= CountGrowthLimit
  OBVIOUS
<1>1. /\ TypeOK /\ Capacity \in Capacities /\ Capacity \in Nat \ {0}
      /\ MAX_SIZE \in Nat /\ Capacity < MAX_SIZE /\ LANES \in Nat \ {0}
  BY CapacityBounds, LanesTyped DEF CountInv, TypeOK
<1>2. /\ CountGrowthLimit \in Nat
      /\ GrowthLimit(Capacity, MAX_LOAD_FACTOR) \in Nat
      /\ CountGrowthLimit <= GrowthLimit(Capacity, MAX_LOAD_FACTOR)
  <2>1. /\ maxLoadFactor \in Nat /\ MAX_LOAD_FACTOR \in Nat
        /\ maxLoadFactor <= MAX_LOAD_FACTOR
    BY DEF LimitCurrent, MIN_LOAD_FACTOR, MAX_LOAD_FACTOR
  <2> QED
    BY <1>1, <2>1, LimitByFactor, GrowthLimitTyped DEF LimitCurrent
<1>3. GrowthLimit(Capacity, MAX_LOAD_FACTOR) + LANES - 1 <= Capacity
  BY <1>1 DEF RoomLeft
<1>4. (LANES - 1)..(Capacity - 1) \subseteq FullSlots
  <2> SUFFICES ASSUME NEW s \in (LANES - 1)..(Capacity - 1) PROVE s \in FullSlots
    OBVIOUS
  <2>1. s \in 0..(Capacity - 1) /\ ~(s < LANES - 1)
        /\ s \in 0..(Capacity + LANES - 1) /\ ~(s >= Capacity)
    BY <1>1
  <2>2. tags[s] # EMPTY
    BY <2>1 DEF Exhausted
  <2>3. tags[s] \in Tags /\ tags[s] # FORBIDDEN /\ tags[s] # TOMBSTONE
    BY <1>1, <2>1 DEF TypeOK, Graveless
  <2> QED
    BY <2>1, <2>2, <2>3 DEF FullSlots, IsFull, Tags
<1>5. IsFiniteSet(FullSlots) /\ Cardinality(FullSlots) \in Nat /\ Count = Cardinality(FullSlots)
  BY SlotsFinite DEF CountInv, CountIsFull
<1>6. CASE LANES > Capacity
  BY <1>1, <1>2, <1>3, <1>5, <1>6
<1>7. CASE LANES <= Capacity
  <2>1. Cardinality((LANES - 1)..(Capacity - 1)) = Capacity - LANES + 1
    <3>1. LANES - 1 \in Int /\ Capacity - 1 \in Int /\ ~(LANES - 1 > Capacity - 1)
      BY <1>1, <1>7
    <3> QED
      BY <1>1, <3>1, FS_Interval
  <2>2. Cardinality((LANES - 1)..(Capacity - 1)) <= Cardinality(FullSlots)
    BY <1>4, <1>5, FS_Subset
  <2> QED
    BY <1>1, <1>2, <1>3, <1>5, <2>1, <2>2
<1> QED
  BY <1>1, <1>6, <1>7

\* A client that removes nothing meets a probe loop without end only in a
\* table that holds as many entries as its limit, or cannot grow any more.
THEOREM HangsOnlyFull ==
  ASSUME ProbesCover, RoomLeft, "Remove" \notin Calls
  PROVE  Spec => []NoHang
<1>1. Init => Graveless(tags) /\ NoHang
  BY FreshGraveless DEF Init, NoHang
<1>2. CountInv /\ LimitCurrent /\ Graveless(tags) /\ NoHang /\ [Next]_vars
        => Graveless(tags)' /\ NoHang'
  <2> SUFFICES ASSUME CountInv, LimitCurrent, Graveless(tags), NoHang, [Next]_vars
               PROVE  Graveless(tags)' /\ NoHang'
    OBVIOUS
  <2>1. TypeOK
    BY DEF CountInv
  <2>2. Graveless(tags)'
    BY <2>1, GravelessStep DEF Graveless
  <2>3. CASE UNCHANGED vars
    BY <2>2, <2>3 DEF vars, table, NoHang
  <2>4. CASE Next /\ status' = "hung"
    <3>1. Exhausted /\ UNCHANGED <<Capacity, Count, CountGrowthLimit>>
      BY <2>1, <2>4, HangExhausts DEF table
    <3> QED
      BY <2>2, <3>1, ExhaustedFull DEF NoHang
  <2> QED
    BY <2>2, <2>3, <2>4 DEF NoHang
<1> QED
  BY <1>1, <1>2, CountInvariant, LimitInvariant, PTL DEF Spec
=============================================================================
