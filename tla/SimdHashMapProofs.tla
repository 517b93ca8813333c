------------------------- MODULE SimdHashMapProofs -------------------------
(***************************************************************************)
(* Theorems about SimdHashMap, the table with a client that keeps to what  *)
(* Add relies on: no key is in it twice, and it is a dictionary.           *)
(***************************************************************************)
EXTENDS SimdHashMap, SimdHashCallProofs

-----------------------------------------------------------------------------
(* The table of SimdHashMap is the table of SimdHashCore.                  *)

\* The client only leaves calls out.
LEMMA MapIsCore == MapSpecification => Spec
<1>1. MapInit => Init
  BY DEF MapInit
<1>2. [MapNext]_mapVars => [Next]_vars
  BY DEF MapNext, Next, mapVars
<1> QED
  BY <1>1, <1>2, PTL DEF MapSpecification, Spec

-----------------------------------------------------------------------------
(* No key is in the table twice.                                           *)

\* no two of the slots F have the same key
Distinct(F, e) == \A s, t \in F : e[s].key = e[t].key => s = t

\* A call that holds distinct keys leaves no duplicate.
LEMMA HoldsDistinct ==
  ASSUME NEW F, NEW e, Holds(F, e), Distinct(F, e)
  PROVE  NoDuplicates'
<1>1. CASE FullSlots' = F /\ PendingSlots' = {}
  BY <1>1 DEF Holds, Distinct, NoDuplicates
<1>2. CASE FullSlots' = {} /\ PendingSlots' = F
  BY <1>2 DEF Holds, Distinct, NoDuplicates
<1> QED
  BY <1>1, <1>2 DEF Holds

\* Fewer slots, no duplicate either.
LEMMA SubsetDistinct ==
  ASSUME NoDuplicates, NEW F \in SUBSET FullSlots
  PROVE  Distinct(F, entries)
BY DEF NoDuplicates, Distinct

\* A call that does not return makes no duplicate.
LEMMA StopsDistinct ==
  ASSUME NoDuplicates, Stops
  PROVE  NoDuplicates'
BY StopsKeeps DEF NoDuplicates

\* An entry whose key is new makes no duplicate.
LEMMA StoringDistinct ==
  ASSUME TypeOK, NoDuplicates, NEW k \in Keys \ StoredKeys, NEW v \in Values,
         NEW s \in 0..(Capacity - 1), s \notin FullSlots
  PROVE  Distinct(FullSlots \cup {s}, Storing(s, k, v))
<1> DEFINE e == Storing(s, k, v)
<1>1. DOMAIN entries = 0..(Capacity - 1) /\ FullSlots \subseteq 0..(Capacity - 1)
  BY SlotsOfTable DEF TypeOK
<1>2. e[s].key = k /\ \A x \in FullSlots : e[x] = entries[x]
  BY <1>1 DEF Storing
<1>3. \A x \in FullSlots : entries[x].key # k
  BY DEF StoredKeys
<1> HIDE DEF e
<1> QED
  BY <1>2, <1>3 DEF Distinct, NoDuplicates, e

\* A move takes its entry out of one place and puts it into another.
LEMMA MoveDistinct ==
  ASSUME TypeOK, NoDuplicates, NEW s, NEW entry, NEW rest, Moves(s, entry, rest)
  PROVE  NoDuplicates'
<1>1. /\ DOMAIN entries = 0..(Capacity - 1) /\ s \in 0..(Capacity - 1)
      /\ FullSlots \subseteq 0..(Capacity - 1) /\ PendingSlots \subseteq 0..(Capacity - 1)
      /\ s \notin FullSlots
  BY SlotsOfTable DEF TypeOK, Moves
<1>2. entries'[s] = entry /\ \A x \in 0..(Capacity - 1) : x # s => entries'[x] = entries[x]
  BY <1>1 DEF Moves
<1>3. rest \subseteq PendingSlots
  BY DEF Moves
<1>4. \A x \in FullSlots \cup rest : entries[x].key # entry.key
  <2>1. CASE carried = None
    BY <2>1 DEF Moves, NoDuplicates
  <2>2. CASE carried # None
    BY <2>2 DEF Moves, NoDuplicates
  <2> QED
    BY <2>1, <2>2
<1>5. FullSlots' = FullSlots \cup {s} /\ PendingSlots' = rest \ {s}
  BY DEF Moves
<1>6. \A x, y \in FullSlots' : entries'[x].key = entries'[y].key => x = y
  BY <1>1, <1>2, <1>4, <1>5 DEF NoDuplicates
<1>7. \A x, y \in PendingSlots' : entries'[x].key = entries'[y].key => x = y
  BY <1>1, <1>2, <1>3, <1>5 DEF NoDuplicates
<1>8. \A x \in FullSlots', y \in PendingSlots' : entries'[x].key # entries'[y].key
  BY <1>1, <1>2, <1>3, <1>4, <1>5 DEF NoDuplicates
<1>9. carried' # None =>
        \A x \in FullSlots' \cup PendingSlots' : entries'[x].key # carried'.entry.key
  <2> SUFFICES ASSUME carried' # None, NEW x \in FullSlots' \cup PendingSlots'
               PROVE  entries'[x].key # carried'.entry.key
    OBVIOUS
  <2>1. s \in rest /\ carried'.entry = entries[s]
    BY DEF Moves
  <2>2. CASE x = s
    BY <1>2, <1>4, <2>1, <2>2
  <2>3. CASE x \in FullSlots /\ x # s
    BY <1>1, <1>2, <1>3, <2>1, <2>3 DEF NoDuplicates
  <2>4. CASE x \in rest /\ x # s
    BY <1>1, <1>2, <1>3, <2>1, <2>4 DEF NoDuplicates
  <2> QED
    BY <1>5, <2>2, <2>3, <2>4
<1> QED
  BY <1>6, <1>7, <1>8, <1>9 DEF NoDuplicates

\* No step of RehashInternal makes a duplicate.
LEMMA RehashDistinct ==
  ASSUME TypeOK, TypeOK', NoDuplicates, RehashLoop
  PROVE  NoDuplicates'
<1>1. CASE RehashTake \/ RehashDisplace
  <2>1. CASE Hang
    BY <2>1, StopsDistinct DEF Stops
  <2>2. CASE \E s, entry, rest : Moves(s, entry, rest)
    BY <2>2, MoveDistinct
  <2> QED
    BY <1>1, <2>1, <2>2, PlacementMoves
<1>2. CASE RehashSkip
  <2>1. /\ FullSlots' = FullSlots /\ PendingSlots' = PendingSlots
        /\ entries' = entries /\ carried' = carried
    BY <1>2 DEF RehashSkip, table, FullSlots, PendingSlots, Pending
  <2> QED
    BY <2>1 DEF NoDuplicates
<1>3. CASE RehashDone
  <2>1. /\ FullSlots' = FullSlots /\ PendingSlots' = {}
        /\ entries' = entries /\ carried' = None
    BY <1>3 DEF RehashDone, table, FullSlots, PendingSlots, NoTags
  <2> QED
    BY <2>1 DEF NoDuplicates
<1> QED
  BY <1>1, <1>2, <1>3 DEF RehashLoop

-----------------------------------------------------------------------------
(* Where an Add sees the key it is given.                                  *)

\* Slot s is in a vector of the probe for k that no vector with a vacant slot
\* precedes: an Add of k gets to it.
Ahead(s, k) ==
  \E i \in ProbeSteps(Capacity) :
    /\ s - Position(k, i) \in Lanes
    /\ \A j \in VacantSteps(k) : i <= j

\* The keys added since the last removal are where an Add sees them.
FreshAhead ==
  status = "idle" =>
    \A s \in FullSlots, k \in fresh : entries[s].key = k => Ahead(s, k)

\* RehashInternal works on tags that have no tombstone.
NoGraves == status = "rehash" => Tombstones = {}

\* A step that makes no slot vacant hides no entry from an Add.
LEMMA AheadStays ==
  ASSUME TypeOK, TypeOK', Capacity' = Capacity,
         \A s \in 0..(Capacity + LANES - 1) :
           tags'[s] \in {EMPTY, TOMBSTONE} => tags[s] \in {EMPTY, TOMBSTONE},
         NEW k \in Keys, NEW s, Ahead(s, k)
  PROVE  Ahead(s, k)'
<1>1. PICK i \in ProbeSteps(Capacity) :
        s - Position(k, i) \in Lanes /\ \A j \in VacantSteps(k) : i <= j
  BY DEF Ahead
<1>2. \A j \in ProbeSteps(Capacity) : Position(k, j)' = Position(k, j)
  BY DEF Position
<1>3. VacantSteps(k)' \subseteq VacantSteps(k)
  <2> SUFFICES ASSUME NEW j \in VacantSteps(k)' PROVE j \in VacantSteps(k)
    OBVIOUS
  <2>1. /\ j \in ProbeSteps(Capacity)
        /\ GetEmptyOrTomeStoneMask(tags', Position(k, j)) # {}
    BY <1>2 DEF VacantSteps
  <2>2. PICK l \in Lanes : tags'[Position(k, j) + l] \in {EMPTY, TOMBSTONE}
    BY <2>1 DEF GetEmptyOrTomeStoneMask
  <2>3. Position(k, j) + l \in 0..(Capacity + LANES - 1)
    BY <2>1, LaneTyped
  <2>4. tags[Position(k, j) + l] \in {EMPTY, TOMBSTONE}
    BY <2>2, <2>3
  <2> QED
    BY <2>1, <2>4 DEF VacantSteps, GetEmptyOrTomeStoneMask
<1> QED
  BY <1>1, <1>2, <1>3 DEF Ahead

\* Without a tombstone every entry is where an Add sees it.
LEMMA AllAhead ==
  ASSUME TypeOK, ProbeChain, Tombstones = {}, NEW s \in FullSlots
  PROVE  Ahead(s, entries[s].key)
<1> DEFINE k == entries[s].key
<1>1. k \in Keys
  BY DEF TypeOK, Entry
<1>2. PICK i \in ProbeSteps(Capacity) : ReachedAt(s, k, i)
  BY DEF ProbeChain
<1> HIDE DEF k
<1>3. VacantSteps(k) \subseteq EmptySteps(k)
  <2> SUFFICES ASSUME NEW j \in VacantSteps(k) PROVE j \in EmptySteps(k)
    OBVIOUS
  <2>1. PICK l \in Lanes : tags[Position(k, j) + l] \in {EMPTY, TOMBSTONE}
    BY DEF VacantSteps, GetEmptyOrTomeStoneMask
  <2>2. j \in ProbeSteps(Capacity)
    BY DEF VacantSteps
  <2>3. Position(k, j) + l \in DOMAIN tags
    BY <1>1, <2>2, LaneTyped DEF TypeOK
  <2>4. tags[Position(k, j) + l] = EMPTY
    BY <2>1, <2>3 DEF Tombstones
  <2> QED
    BY <2>2, <2>4 DEF EmptySteps, GetEmptyMask
<1> QED
  BY <1>2, <1>3 DEF Ahead, ReachedAt, k

\* An Add of a stored key sees it, if the client keeps to MayAdd.
LEMMA KnownHits ==
  ASSUME TypeOK, ProbeChain, FreshAhead, MistestedLanes = {}, status = "idle",
         NEW k \in StoredKeys, MayAdd(k)
  PROVE  Hits(k, VacantSteps(k))
<1>1. PICK s \in FullSlots : entries[s].key = k
  BY DEF StoredKeys
<1>2. Ahead(s, k)
  BY <1>1, AllAhead DEF MayAdd, FreshAhead
<1>3. PICK i \in ProbeSteps(Capacity) :
        s - Position(k, i) \in Lanes /\ \A j \in VacantSteps(k) : i <= j
  BY <1>2 DEF Ahead
<1>4. i \in HitSteps(k)
  BY <1>1, <1>3, StepHits DEF ProbeChain
<1> QED
  BY <1>3, <1>4 DEF Hits

\* An Add that does not grow the table puts its entry ahead of every vacancy,
\* and hides none.
LEMMA InsertFresh ==
  ASSUME CountInv, TypeOK', FreshAhead, status = "idle",
         NEW k \in Keys \ StoredKeys, NEW v \in Values,
         VacantSteps(k) # {}, Insert(k, v), fresh' = fresh \cup {k}
  PROVE  FreshAhead'
<1> SUFFICES ASSUME status' = "idle", NEW x \in FullSlots', NEW key \in fresh',
                    entries'[x].key = key
             PROVE  Ahead(x, key)'
  BY DEF FreshAhead
<1>0. PICK s : s = VacantSlot(k)
  OBVIOUS
<1> DEFINE t == [tags EXCEPT ![s] = TagOf[k]]
<1>1. /\ TypeOK /\ tags \in [0..(Capacity + LANES - 1) -> Tags]
      /\ DOMAIN entries = 0..(Capacity - 1) /\ Capacity \in Nat /\ LANES \in Nat \ {0}
  BY CapacityBounds, LanesTyped DEF CountInv, TypeOK
<1>2. /\ s \in 0..(Capacity - 1) /\ s \notin FullSlots
      /\ Abort \/ Holds(FullSlots \cup {s}, Storing(s, k, v))
  BY <1>0, InsertHolds
<1>3. Capacity' = Capacity /\ tags' = t /\ entries' = Storing(s, k, v)
  <2>1. \/ ResizeFrom(Capacity + 1, t, Storing(s, k, v), Count + 1)
        \/ Keep(t, Storing(s, k, v), Count + 1, CountGrowthLimit)
    BY <1>0 DEF Insert, Storing
  <2> HIDE DEF t
  <2>2. ASSUME NEW limit, Keep(t, Storing(s, k, v), Count + 1, limit)
        PROVE  Capacity' = Capacity /\ tags' = t /\ entries' = Storing(s, k, v)
    BY <2>2 DEF Keep
  <2>3. CASE ResizeFrom(Capacity + 1, t, Storing(s, k, v), Count + 1)
    <3>1. ~Abort /\ \A c, e : ~StartRehash(c, t, e, Count + 1)
      BY DEF Abort, StartRehash
    <3> QED
      BY <2>2, <2>3, <3>1, CountsOne DEF ResizeFrom, Reallocate
  <2> QED
    BY <2>1, <2>2, <2>3
<1>4. \A y \in 0..(Capacity + LANES - 1) :
        tags'[y] \in {EMPTY, TOMBSTONE} => tags[y] \in {EMPTY, TOMBSTONE}
  <2>1. TagOf[k] \notin {EMPTY, TOMBSTONE}
    BY HashAssumption, TagKinds
  <2> QED
    BY <1>1, <1>3, <2>1
<1>5. Ahead(s, k)'
  <2>1. PICK i \in VacantSteps(k) :
          s - Position(k, i) \in Lanes /\ \A j \in VacantSteps(k) : i <= j
    BY <1>0, <1>1, VacantSlotTyped
  <2>2. Ahead(s, k)
    BY <2>1 DEF Ahead, VacantSteps
  <2> QED
    BY <1>1, <1>3, <1>4, <2>2, AheadStays
<1>6. x \in FullSlots \cup {s}
  BY <1>2 DEF Holds, Abort
<1>7. CASE x = s
  <2>1. key = k
    BY <1>1, <1>2, <1>3, <1>7 DEF Storing
  <2> QED
    BY <1>5, <1>7, <2>1
<1>8. CASE x \in FullSlots /\ x # s
  <2>1. entries[x].key = key /\ key \in Keys /\ key # k
    BY <1>1, <1>3, <1>8 DEF Storing, TypeOK, Entry, StoredKeys
  <2>2. Ahead(x, key)
    BY <1>8, <2>1 DEF FreshAhead
  <2> QED
    BY <1>1, <1>3, <1>4, <2>1, <2>2, AheadStays
<1> QED
  BY <1>6, <1>7, <1>8

\* A step that leaves the tags and the keys alone hides no entry from an Add.
LEMMA KeptFresh ==
  ASSUME UNCHANGED <<tags, Capacity>>,
         \A s \in FullSlots : entries'[s].key = entries[s].key,
         \A s \in FullSlots, k \in fresh' : entries[s].key = k => Ahead(s, k)
  PROVE  FreshAhead'
<1> SUFFICES ASSUME NEW s \in FullSlots', NEW k \in fresh', entries'[s].key = k
             PROVE  Ahead(s, k)'
  BY DEF FreshAhead
<1>1. s \in FullSlots /\ entries[s].key = k
  BY DEF FullSlots
<1>2. Ahead(s, k)
  BY <1>1
<1> QED
  BY <1>2 DEF Ahead, Position, VacantSteps

\* A table without slots in use has none to hide.
LEMMA EmptyFresh ==
  ASSUME FullSlots' = {}
  PROVE  FreshAhead'
BY DEF FreshAhead

\* The calls that add nothing leave what an Add sees, or forget what is fresh.
LEMMA OtherFresh ==
  ASSUME CountInv, FreshAhead, OtherCalls,
         fresh' = IF ret'.op = "Remove" THEN {} ELSE fresh
  PROVE  FreshAhead'
<1> SUFFICES ASSUME status' = "idle" PROVE FreshAhead'
  BY DEF FreshAhead
<1>1. status = "idle"
  BY CallIdle
<1>2. ASSUME UNCHANGED <<tags, entries, Capacity>> PROVE FreshAhead'
  BY <1>1, <1>2, KeptFresh DEF FreshAhead
<1>3. ASSUME NEW k \in Keys, Find(k) PROVE FreshAhead'
  BY <1>2, <1>3 DEF Find, Hang, table
<1>4. ASSUME NEW k \in Keys, Remove(k) PROVE FreshAhead'
  <2>1. ret'.op = "Remove"
    BY <1>4 DEF Remove, Hang, Returns
  <2> QED
    BY <2>1 DEF FreshAhead
<1>5. ASSUME Rehash PROVE FreshAhead'
  BY <1>2, <1>5 DEF Rehash, StartRehash, table
<1>6. ASSUME NEW size \in Sizes, Resize(size) PROVE FreshAhead'
  <2>1. CASE Count = 0
    <3>1. Holds(FullSlots, entries)
      BY <1>6, ResizeHolds DEF Abort
    <3> QED
      BY <2>1, <3>1, UncountedEmpty, EmptyFresh DEF Holds
  <2>2. CASE Count # 0
    <3>1. ~Abort /\ \A c, t, e, n : ~StartRehash(c, t, e, n)
      BY DEF Abort, StartRehash
    <3>2. \E limit : Keep(tags, entries, Count, limit)
      BY <1>6, <2>2, <3>1 DEF Resize, ResizeFrom, Reallocate
    <3> QED
      BY <1>2, <3>2 DEF Keep
  <2> QED
    BY <2>1, <2>2
<1>7. ASSUME NEW size \in Sizes, Clear(size) PROVE FreshAhead'
  <2>1. Holds({}, entries)
    BY <1>7, ClearHolds DEF Abort
  <2> QED
    BY <2>1, EmptyFresh DEF Holds
<1>8. ASSUME NEW mlf \in LoadFactors, SetMaxLoadFactor(mlf) PROVE FreshAhead'
  BY <1>2, <1>8 DEF SetMaxLoadFactor
<1> QED
  BY <1>3, <1>4, <1>5, <1>6, <1>7, <1>8 DEF OtherCalls

\* At the end of a rehash every entry is where an Add sees it.
LEMMA RehashFresh ==
  ASSUME TypeOK, ProbeChain, NoGraves, RehashLoop
  PROVE  FreshAhead'
<1>1. CASE RehashDone
  <2>1. \A s \in FullSlots : Ahead(s, entries[s].key)
    BY <1>1, AllAhead DEF RehashDone, NoGraves
  <2> QED
    BY <1>1, <2>1, KeptFresh DEF RehashDone, table
<1>2. CASE status' # "idle"
  BY <1>2 DEF FreshAhead
<1>3. CASE RehashSkip \/ RehashTake \/ RehashDisplace
  <2>1. status' # "idle"
    BY <1>3 DEF RehashSkip, RehashTake, RehashDisplace, Settle, Hang
  <2> QED
    BY <1>2, <2>1
<1> QED
  BY <1>1, <1>3 DEF RehashLoop

\* A call that starts RehashInternal gives it new tags.
LEMMA CallGraves ==
  ASSUME TypeOK, status = "idle",
         (\E k \in Keys, v \in Values : CheckedAdds(k, v) \/ UniqueAdds(k, v))
           \/ OtherCalls
  PROVE  NoGraves'
<1> SUFFICES ASSUME status' = "rehash" PROVE Tombstones' = {}
  BY DEF NoGraves
<1>1. ASSUME NEW c, tags' = FreshTags(c) PROVE Tombstones' = {}
  BY <1>1 DEF Tombstones, FreshTags, TOMBSTONE, EMPTY, FORBIDDEN
<1>2. ASSUME NEW c, NEW t, NEW e, NEW n, StartRehash(c, t, e, n)
      PROVE  Tombstones' = {}
  BY <1>1, <1>2 DEF StartRehash
<1>3. ~Hang /\ ~Abort /\ ~UNCHANGED status /\ \A t, e, n, limit : ~Keep(t, e, n, limit)
  BY DEF Hang, Abort, Keep
<1>4. ASSUME NEW c, NEW t, NEW e, NEW n, Reallocate(c, t, e, n)
      PROVE  Tombstones' = {}
  BY <1>2, <1>3, <1>4 DEF Reallocate
<1>5. ASSUME NEW size, NEW t, NEW e, NEW n, ResizeFrom(size, t, e, n)
      PROVE  Tombstones' = {}
  BY <1>3, <1>4, <1>5 DEF ResizeFrom
<1>6. ASSUME NEW k, NEW v, Insert(k, v) PROVE Tombstones' = {}
  BY <1>3, <1>5, <1>6 DEF Insert
<1>7. ASSUME NEW k, NEW v, NEW op, NEW update, AddChecked(op, k, v, update)
      PROVE  Tombstones' = {}
  BY <1>3, <1>6, <1>7 DEF AddChecked
<1>8. ASSUME NEW k, NEW v, CheckedAdds(k, v) \/ UniqueAdds(k, v)
      PROVE  Tombstones' = {}
  BY <1>3, <1>6, <1>7, <1>8
  DEF CheckedAdds, UniqueAdds, Add, AddOrUpdate, AddUnique
<1>9. ASSUME NEW k, Find(k) \/ Remove(k) PROVE Tombstones' = {}
  BY <1>3, <1>9 DEF Find, Remove
<1>10. ASSUME Rehash PROVE Tombstones' = {}
  BY <1>2, <1>3, <1>10 DEF Rehash
<1>11. ASSUME NEW size, Resize(size) PROVE Tombstones' = {}
  BY <1>5, <1>11 DEF Resize
<1>12. ASSUME NEW size, Clear(size) PROVE Tombstones' = {}
  BY <1>3, <1>4, <1>12 DEF Clear
<1>13. ASSUME NEW mlf, SetMaxLoadFactor(mlf) PROVE Tombstones' = {}
  BY <1>3, <1>13 DEF SetMaxLoadFactor
<1> QED
  BY <1>8, <1>9, <1>10, <1>11, <1>12, <1>13 DEF OtherCalls

\* RehashInternal writes hash tags only.
LEMMA RehashGraves ==
  ASSUME TypeOK, NoGraves, RehashLoop
  PROVE  NoGraves'
<1> SUFFICES ASSUME status' = "rehash" PROVE Tombstones' = {}
  BY DEF NoGraves
<1>1. /\ status = "rehash" /\ Tombstones = {} /\ cursor \in Nat
      /\ tags \in [0..(Capacity + LANES - 1) -> Tags]
  BY DEF RehashLoop, RehashSkip, RehashTake, RehashDisplace, RehashDone,
         NoGraves, TypeOK
<1>2. ASSUME NEW tag \in HashTags, NEW entry, NEW pt, Settle(tag, entry, pt)
      PROVE  Tombstones' = {}
  <2>1. PICK s : tags' = [tags EXCEPT ![s] = tag]
    BY <1>2 DEF Settle, Hang
  <2>2. tag # TOMBSTONE
    BY TagKinds
  <2> QED
    BY <1>1, <2>1, <2>2 DEF Tombstones
<1>3. CASE RehashTake
  <2>1. prevTags[cursor] \in HashTags
    BY <1>1, <1>3, PendingTyped DEF RehashTake
  <2> QED
    BY <1>2, <1>3, <2>1 DEF RehashTake
<1>4. CASE RehashDisplace
  <2>1. carried.tag \in HashTags
    BY <1>4 DEF RehashDisplace, TypeOK, CarriedEntry
  <2> QED
    BY <1>2, <1>4, <2>1 DEF RehashDisplace
<1>5. CASE RehashSkip
  BY <1>1, <1>5 DEF RehashSkip, table, Tombstones
<1>6. CASE RehashDone
  BY <1>6 DEF RehashDone
<1> QED
  BY <1>3, <1>4, <1>5, <1>6 DEF RehashLoop

-----------------------------------------------------------------------------
(* The invariant of the table with its client.                             *)

\* What a step preserves together.
MapInv == CountInv /\ ProbeChain /\ NoDuplicates /\ NoGraves /\ FreshAhead

\* What a checked Add does, when the client keeps to MayAdd: it does not
\* return, it finds the key it stores, or it inserts one it does not store.
LEMMA CheckedOutcome ==
  ASSUME MapInv, MistestedLanes = {}, NEW k \in Keys, NEW v \in Values,
         NEW op, NEW update, MayAdd(k), AddChecked(op, k, v, update)
  PROVE  \/ Hang
         \/ /\ k \in StoredKeys /\ HitSlot(k) \in FullSlots
            /\ entries[HitSlot(k)].key = k
            /\ entries' = IF update THEN Updating(HitSlot(k), v) ELSE entries
            /\ UNCHANGED <<tags, Capacity, status, loop>>
            /\ Returns(op, k, v, FALSE)
         \/ /\ k \notin StoredKeys /\ VacantSteps(k) # {}
            /\ Insert(k, v) /\ Returns(op, k, v, TRUE)
<1>1. TypeOK /\ ProbeChain /\ FreshAhead /\ status = "idle"
  BY DEF MapInv, CountInv, AddChecked
<1>2. CASE Hits(k, VacantSteps(k))
  <2>1. ~Hangs(k, VacantSteps(k))
    BY <1>2 DEF Hits, Hangs
  <2>2. HitSlot(k) \in FullSlots /\ entries[HitSlot(k)].key = k /\ k \in StoredKeys
    BY <1>1, <1>2, HitsKnown
  <2> QED
    BY <1>2, <2>1, <2>2 DEF AddChecked, Updating
<1>3. CASE ~Hits(k, VacantSteps(k))
  <2>1. k \notin StoredKeys
    BY <1>1, <1>3, KnownHits
  <2>2. ~Hangs(k, VacantSteps(k)) => VacantSteps(k) # {}
    BY <1>3 DEF Hangs, Hits
  <2> QED
    BY <1>3, <2>1, <2>2 DEF AddChecked
<1> QED
  BY <1>2, <1>3

\* An insertion keeps the keys distinct and the fresh ones in sight.
LEMMA InsertKeeps ==
  ASSUME MapInv, TypeOK', status = "idle", NEW k \in Keys \ StoredKeys,
         NEW v \in Values, VacantSteps(k) # {}, Insert(k, v),
         fresh' = fresh \cup {k}
  PROVE  NoDuplicates' /\ FreshAhead'
<1>1. CountInv /\ TypeOK /\ NoDuplicates /\ FreshAhead
  BY DEF MapInv, CountInv
<1>2. FreshAhead'
  BY <1>1, InsertFresh
<1>3. PICK s : s = VacantSlot(k)
  OBVIOUS
<1>4. /\ s \in 0..(Capacity - 1) /\ s \notin FullSlots
      /\ Abort \/ Holds(FullSlots \cup {s}, Storing(s, k, v))
  BY <1>1, <1>3, InsertHolds
<1>5. Distinct(FullSlots \cup {s}, Storing(s, k, v))
  BY <1>1, <1>4, StoringDistinct
<1> QED
  BY <1>1, <1>2, <1>4, <1>5, StopsDistinct, HoldsDistinct DEF Stops

\* A call that hangs keeps both.
LEMMA HangKeeps ==
  ASSUME NoDuplicates, Hang
  PROVE  NoDuplicates' /\ FreshAhead'
BY StopsDistinct DEF Stops, Hang, FreshAhead

\* The checked adds keep both.
LEMMA CheckedKeeps ==
  ASSUME MapInv, TypeOK', MistestedLanes = {}, NEW k \in Keys, NEW v \in Values,
         MayAdd(k), CheckedAdds(k, v), fresh' = fresh \cup {k}
  PROVE  NoDuplicates' /\ FreshAhead'
<1>1. PICK op, update : AddChecked(op, k, v, update)
  BY DEF CheckedAdds, Add, AddOrUpdate
<1>2. CountInv /\ TypeOK /\ ProbeChain /\ NoDuplicates /\ FreshAhead /\ status = "idle"
  BY <1>1 DEF MapInv, CountInv, AddChecked
<1>3. CASE Hang
  BY <1>2, <1>3, HangKeeps
<1>4. CASE k \notin StoredKeys /\ VacantSteps(k) # {} /\ Insert(k, v)
  BY <1>2, <1>4, InsertKeeps
<1>5. ASSUME NEW s \in FullSlots,
             entries' = IF update THEN Updating(s, v) ELSE entries,
             k \in StoredKeys, UNCHANGED <<tags, Capacity, status, loop>>
      PROVE  NoDuplicates' /\ FreshAhead'
  <2>1. /\ Holds(FullSlots, IF update THEN Updating(s, v) ELSE entries)
        /\ \A x \in FullSlots : entries'[x].key = entries[x].key
    BY <1>2, <1>5, UpdateHolds
  <2>2. FullSlots' = FullSlots /\ PendingSlots' = {} /\ carried' = None
    <3>1. status' = "idle" /\ FullSlots' = FullSlots
      BY <1>2, <1>5 DEF FullSlots
    <3> QED
      BY <2>1, <3>1 DEF Holds
  <2>3. NoDuplicates'
    BY <1>2, <2>1, <2>2 DEF NoDuplicates
  <2>4. \A x \in FullSlots : entries[x].key = k => Ahead(x, k)
    <3>1. CASE k \in fresh
      BY <1>2, <3>1 DEF FreshAhead
    <3>2. CASE Tombstones = {}
      BY <1>2, <3>2, AllAhead
    <3> QED
      BY <1>5, <3>1, <3>2 DEF MayAdd
  <2>5. \A x \in FullSlots, kk \in fresh' : entries[x].key = kk => Ahead(x, kk)
    BY <1>2, <2>4 DEF FreshAhead
  <2>6. FreshAhead'
    BY <1>5, <2>1, <2>5, KeptFresh
  <2> QED
    BY <2>3, <2>6
<1> QED
  BY <1>1, <1>3, <1>4, <1>5, CheckedOutcome

\* The calls that add nothing keep the keys distinct.
LEMMA OtherDistinct ==
  ASSUME CountInv, NoDuplicates, OtherCalls
  PROVE  NoDuplicates'
<1>1. ASSUME NEW F \in SUBSET FullSlots, Holds(F, entries) PROVE NoDuplicates'
  BY <1>1, SubsetDistinct, HoldsDistinct
<1>2. ASSUME NEW k \in Keys, Find(k) PROVE NoDuplicates'
  BY <1>1, <1>2, FindHolds, StopsDistinct DEF Stops
<1>3. ASSUME NEW k \in Keys, Remove(k) PROVE NoDuplicates'
  BY <1>1, <1>3, RemoveHolds, StopsDistinct DEF Stops
<1>4. ASSUME Rehash PROVE NoDuplicates'
  BY <1>1, <1>4, RehashHolds
<1>5. ASSUME NEW size \in Sizes, Resize(size) PROVE NoDuplicates'
  BY <1>1, <1>5, ResizeHolds, StopsDistinct DEF Stops
<1>6. ASSUME NEW size \in Sizes, Clear(size) PROVE NoDuplicates'
  BY <1>1, <1>6, ClearHolds, StopsDistinct DEF Stops
<1>7. ASSUME NEW mlf \in LoadFactors, SetMaxLoadFactor(mlf) PROVE NoDuplicates'
  BY <1>1, <1>7, LoadFactorHolds
<1> QED
  BY <1>2, <1>3, <1>4, <1>5, <1>6, <1>7 DEF OtherCalls

\* Every step of the table with its client keeps the invariant.
LEMMA MapStep ==
  ASSUME MapInv, MistestedLanes = {}, [MapNext]_mapVars
  PROVE  MapInv'
<1>1. /\ CountInv /\ TypeOK /\ ProbeChain /\ NoDuplicates /\ NoGraves
      /\ FreshAhead /\ [Next]_vars
  BY DEF MapInv, CountInv, MapNext, Next, mapVars
<1>2. CountInv' /\ TypeOK' /\ ProbeChain'
  BY <1>1, CountStep, ChainStep DEF CountInv
<1>3. CASE UNCHANGED mapVars
  BY <1>1, <1>2, <1>3 DEF mapVars, vars, table, loop, MapInv, NoDuplicates,
     NoGraves, FreshAhead, FullSlots, PendingSlots, Pending, Tombstones,
     Ahead, Position, VacantSteps
<1>4. ASSUME NEW k \in Keys, NEW v \in Values, MayAdd(k), CheckedAdds(k, v),
             fresh' = fresh \cup {k}
      PROVE  MapInv'
  <2>1. status = "idle"
    BY <1>4, CallIdle
  <2>2. NoGraves'
    BY <1>1, <1>4, <2>1, CallGraves
  <2>3. NoDuplicates' /\ FreshAhead'
    BY <1>2, <1>4, CheckedKeeps
  <2> QED
    BY <1>2, <2>2, <2>3 DEF MapInv
<1>5. ASSUME NEW k \in Keys, NEW v \in Values, k \notin StoredKeys,
             UniqueAdds(k, v), fresh' = fresh \cup {k}
      PROVE  MapInv'
  <2>1. status = "idle"
    BY <1>5, CallIdle
  <2>2. NoGraves'
    BY <1>1, <1>5, <2>1, CallGraves
  <2>3. Hang \/ (VacantSteps(k) # {} /\ Insert(k, v))
    BY <1>5 DEF UniqueAdds, AddUnique
  <2>4. NoDuplicates' /\ FreshAhead'
    BY <1>1, <1>2, <1>5, <2>1, <2>3, HangKeeps, InsertKeeps
  <2> QED
    BY <1>2, <2>2, <2>4 DEF MapInv
<1>6. ASSUME OtherCalls, fresh' = IF ret'.op = "Remove" THEN {} ELSE fresh
      PROVE  MapInv'
  BY <1>1, <1>2, <1>6, CallIdle, CallGraves, OtherDistinct, OtherFresh DEF MapInv
<1>7. CASE RehashLoop
  BY <1>1, <1>2, <1>7, RehashDistinct, RehashGraves, RehashFresh DEF MapInv
<1> QED
  BY <1>3, <1>4, <1>5, <1>6, <1>7 DEF MapNext

\* A new table has the invariant.
LEMMA MapInitial ==
  ASSUME MapInit
  PROVE  MapInv
<1>1. Init /\ CountInv /\ ProbeChain
  BY CountInit, ChainInit DEF MapInit
<1>2. FullSlots = {} /\ PendingSlots = {} /\ carried = None /\ status = "idle"
  <2>1. Count = 0 /\ status = "idle" /\ carried = None
    BY <1>1 DEF Init
  <2> QED
    BY <1>1, <2>1, UncountedEmpty, SlotsOfTable DEF CountInv
<1> QED
  BY <1>1, <1>2 DEF MapInv, NoDuplicates, NoGraves, FreshAhead

\* The invariant holds throughout.
LEMMA MapInvariant ==
  ASSUME MistestedLanes = {}
  PROVE  MapSpecification => []MapInv
<1>1. MapInit => MapInv
  BY MapInitial
<1>2. MapInv /\ [MapNext]_mapVars => MapInv'
  BY MapStep
<1> QED
  BY <1>1, <1>2, PTL DEF MapSpecification

\* In the default build, a client that adds a key it may have stored only while
\* no removal has come since it added that key, or while there is no tombstone,
\* never gets a key into the table twice: neither in the slots in use nor in
\* the ones that a rehash has yet to move nor in the entry it carries.
THEOREM KeysDistinct ==
  ASSUME MistestedLanes = {}
  PROVE  MapSpecification => []NoDuplicates
<1>1. MapInv => NoDuplicates
  BY DEF MapInv
<1> QED
  BY <1>1, MapInvariant, PTL

-----------------------------------------------------------------------------
(* Entries with distinct keys as a dictionary.                             *)

\* the keys of the entries C, and the dictionary they make up
KeysOf(C) == {e.key : e \in C}
Dict(C)   == [k \in KeysOf(C) |-> (CHOOSE e \in C : e.key = k).value]

\* no two entries have the same key
Unique(C) == \A d, e \in C : d.key = e.key => d = e

\* the entries C but that of k
But(C, k) == {e \in C : e.key # k}

\* The dictionary answers with the value of the entry that has the key.
LEMMA DictAt ==
  ASSUME NEW C, Unique(C), NEW e \in C
  PROVE  e.key \in DOMAIN Dict(C) /\ Dict(C)[e.key] = e.value
<1>1. e.key \in KeysOf(C)
  BY DEF KeysOf
<1>2. (CHOOSE d \in C : d.key = e.key) = e
  BY DEF Unique
<1> QED
  BY <1>1, <1>2 DEF Dict

\* Its keys are those of the entries.
LEMMA DictDomain == \A C : DOMAIN Dict(C) = KeysOf(C)
BY DEF Dict

\* An entry stored in place of what its key had.
LEMMA DictWith ==
  ASSUME NEW C, Unique(C), NEW k, NEW v
  PROVE  Dict(But(C, k) \cup {[key |-> k, value |-> v]}) =
           [x \in DOMAIN Dict(C) \cup {k} |-> IF x = k THEN v ELSE Dict(C)[x]]
<1> DEFINE new == [key |-> k, value |-> v]
           D == But(C, k) \cup {new}
<1>1. new.key = k /\ new.value = v /\ new \in D
  OBVIOUS
<1>2. \A e \in D : e = new \/ (e \in C /\ e.key # k)
  BY DEF But
<1>3. \A e \in C : e.key # k => e \in D
  BY DEF But
<1> HIDE DEF new, D
<1>4. Unique(D)
  BY <1>1, <1>2 DEF Unique
<1>5. KeysOf(D) = KeysOf(C) \cup {k}
  BY <1>1, <1>2, <1>3 DEF KeysOf
<1>6. \A x \in KeysOf(D) : Dict(D)[x] = IF x = k THEN v ELSE Dict(C)[x]
  <2> SUFFICES ASSUME NEW x \in KeysOf(D)
               PROVE  Dict(D)[x] = IF x = k THEN v ELSE Dict(C)[x]
    OBVIOUS
  <2>1. PICK e \in D : e.key = x
    BY DEF KeysOf
  <2>2. Dict(D)[x] = e.value
    BY <1>4, <2>1, DictAt
  <2>3. CASE e = new
    BY <1>1, <2>1, <2>2, <2>3
  <2>4. CASE e \in C /\ e.key # k
    BY <2>1, <2>2, <2>4, DictAt
  <2> QED
    BY <1>2, <2>3, <2>4
<1>7. Dict(D) = [x \in KeysOf(D) |-> Dict(D)[x]]
  BY DEF Dict
<1> QED
  BY <1>5, <1>6, <1>7, DictDomain DEF D, new

\* The entry of a key taken out.
LEMMA DictWithout ==
  ASSUME NEW C, Unique(C), NEW k
  PROVE  Dict(But(C, k)) = [x \in DOMAIN Dict(C) \ {k} |-> Dict(C)[x]]
<1> DEFINE D == But(C, k)
<1>1. \A e : e \in D <=> e \in C /\ e.key # k
  BY DEF But
<1> HIDE DEF D
<1>2. Unique(D)
  BY <1>1 DEF Unique
<1>3. KeysOf(D) = KeysOf(C) \ {k}
  BY <1>1 DEF KeysOf
<1>4. \A x \in KeysOf(D) : Dict(D)[x] = Dict(C)[x]
  <2> SUFFICES ASSUME NEW x \in KeysOf(D) PROVE Dict(D)[x] = Dict(C)[x]
    OBVIOUS
  <2>1. PICK e \in D : e.key = x
    BY DEF KeysOf
  <2> QED
    BY <1>1, <1>2, <2>1, DictAt
<1>5. Dict(D) = [x \in KeysOf(D) |-> Dict(D)[x]]
  BY DEF Dict
<1> QED
  BY <1>3, <1>4, <1>5, DictDomain DEF D

\* A key without an entry leaves nothing to take out.
LEMMA ButNone ==
  ASSUME NEW C, NEW k, k \notin KeysOf(C)
  PROVE  But(C, k) = C
BY DEF But, KeysOf

\* No entries, no keys.
LEMMA DictNone == Dict({}) = [k \in {} |-> None]
BY DEF Dict, KeysOf

\* The dictionary of SimdHashMap is that of its contents.
LEMMA DictionaryIs ==
  Dictionary = Dict(Contents) /\ Dictionary' = Dict(Contents')
BY DEF Dictionary, Dict, HeldKeys, KeysOf

-----------------------------------------------------------------------------
(* The contents of the table as such entries.                              *)

\* Without duplicates the contents are a dictionary.
LEMMA ContentsUnique ==
  ASSUME NoDuplicates
  PROVE  Unique(Contents)
<1> SUFFICES ASSUME NEW d \in Contents, NEW e \in Contents, d.key = e.key
             PROVE  d = e
  BY DEF Unique
<1>1. \A c \in Contents :
        \/ \E s \in FullSlots : c = entries[s]
        \/ \E s \in PendingSlots : c = entries[s]
        \/ carried # None /\ c = carried.entry
  BY DEF Contents
<1>2. CASE \E s \in FullSlots : d = entries[s]
  BY <1>1, <1>2 DEF NoDuplicates
<1>3. CASE \E s \in PendingSlots : d = entries[s]
  BY <1>1, <1>3 DEF NoDuplicates
<1>4. CASE carried # None /\ d = carried.entry
  BY <1>1, <1>4 DEF NoDuplicates
<1> QED
  BY <1>1, <1>2, <1>3, <1>4

\* Between calls the contents are what the slots in use hold.
LEMMA ContentsAtRest ==
  ASSUME TypeOK, status = "idle"
  PROVE  /\ Contents = In(entries, FullSlots)
         /\ KeysOf(Contents) = StoredKeys
<1>1. PendingSlots = {} /\ carried = None
  BY SlotsOfTable
<1>2. Contents = In(entries, FullSlots)
  BY <1>1 DEF Contents, In
<1>3. KeysOf(In(entries, FullSlots)) = StoredKeys
  BY DEF KeysOf, In, StoredKeys
<1> QED
  BY <1>2, <1>3

\* The contents once slot s holds k, a new key.
LEMMA StoringContents ==
  ASSUME TypeOK, status = "idle", NEW k \in Keys \ StoredKeys, NEW v \in Values,
         NEW s \in 0..(Capacity - 1), s \notin FullSlots
  PROVE  In(Storing(s, k, v), FullSlots \cup {s}) =
           But(Contents, k) \cup {[key |-> k, value |-> v]}
<1> DEFINE e == Storing(s, k, v)
           new == [key |-> k, value |-> v]
<1>1. DOMAIN entries = 0..(Capacity - 1) /\ FullSlots \subseteq 0..(Capacity - 1)
  BY SlotsOfTable DEF TypeOK
<1>2. e[s] = new /\ \A x \in FullSlots : e[x] = entries[x]
  BY <1>1 DEF Storing
<1> HIDE DEF e, new
<1>3. In(e, FullSlots \cup {s}) = In(entries, FullSlots) \cup {new}
  BY <1>2 DEF In
<1>4. But(Contents, k) = In(entries, FullSlots)
  BY ContentsAtRest, ButNone
<1> QED
  BY <1>3, <1>4 DEF e, new

\* The contents once the value of k, which slot s holds, is v.
LEMMA UpdatingContents ==
  ASSUME TypeOK, NoDuplicates, status = "idle", NEW s \in FullSlots, NEW v \in Values,
         NEW k, entries[s].key = k
  PROVE  In(Updating(s, v), FullSlots) =
           But(Contents, k) \cup {[key |-> k, value |-> v]}
<1> DEFINE e == Updating(s, v)
           new == [key |-> k, value |-> v]
<1>1. \A x \in FullSlots : x \in DOMAIN entries /\ entries[x] \in Entry
  BY SlotsOfTable DEF TypeOK
<1>2. e[s] = new
  BY <1>1 DEF Updating, Entry
<1>3. \A x \in FullSlots : x # s => e[x] = entries[x] /\ entries[x].key # k
  BY <1>1 DEF Updating, NoDuplicates
<1> HIDE DEF e, new
<1>4. In(e, FullSlots) = {entries[x] : x \in FullSlots \ {s}} \cup {new}
  BY <1>2, <1>3 DEF In
<1>5. But(Contents, k) = {entries[x] : x \in FullSlots \ {s}}
  BY <1>3, ContentsAtRest DEF But, In
<1> QED
  BY <1>4, <1>5 DEF e, new

\* The contents without the entry of k, which slot s holds.
LEMMA RemovedContents ==
  ASSUME TypeOK, NoDuplicates, status = "idle", NEW s \in FullSlots,
         NEW k, entries[s].key = k
  PROVE  In(entries, FullSlots \ {s}) = But(Contents, k)
<1>1. \A x \in FullSlots : x # s => entries[x].key # k
  BY DEF NoDuplicates
<1> QED
  BY <1>1, ContentsAtRest DEF But, In

-----------------------------------------------------------------------------
(* Every step of the table is a step of the dictionary, or none.           *)

\* A step that changes neither the contents nor the last answer is none.
LEMMA Unseen ==
  ASSUME Contents' = Contents, ret' = ret
  PROVE  [Abstract!Next]_(Abstract!vars)
BY DictionaryIs DEF Abstract!vars

\* A search for a key finds it if it is stored, and only then.
LEMMA SearchExact ==
  ASSUME MapInv, MistestedLanes = {}, status = "idle", NEW k \in Keys
  PROVE  Hits(k, EmptySteps(k)) <=> k \in StoredKeys
<1>1. TypeOK /\ ProbeChain
  BY DEF MapInv, CountInv
<1>2. NeverMissesStored
  BY <1>1, ChainFinds
<1> QED
  BY <1>1, <1>2, HitsKnown DEF NeverMissesStored

\* What the dictionary says of a key the table stores between calls.
LEMMA StoredAsDictionary ==
  ASSUME MapInv, status = "idle"
  PROVE  /\ Unique(Contents) /\ DOMAIN Dictionary = StoredKeys
         /\ \A s \in FullSlots : Dictionary[entries[s].key] = entries[s].value
<1>1. TypeOK /\ NoDuplicates
  BY DEF MapInv, CountInv
<1>2. Unique(Contents)
  BY <1>1, ContentsUnique
<1>3. Contents = In(entries, FullSlots) /\ KeysOf(Contents) = StoredKeys
  BY <1>1, ContentsAtRest
<1>4. DOMAIN Dictionary = StoredKeys
  BY <1>3, DictionaryIs, DictDomain
<1>5. \A s \in FullSlots : Dictionary[entries[s].key] = entries[s].value
  BY <1>2, <1>3, DictionaryIs, DictAt DEF In
<1> QED
  BY <1>2, <1>4, <1>5

\* An insertion of a new key: the dictionary with it, unless the call aborts.
LEMMA InsertRefines ==
  ASSUME MapInv, status = "idle", NEW k \in Keys \ StoredKeys, NEW v \in Values,
         VacantSteps(k) # {}, Insert(k, v)
  PROVE  \/ Abort /\ Contents' = Contents
         \/ /\ status' # "aborted"
            /\ Dictionary' = [x \in DOMAIN Dictionary \cup {k} |->
                                IF x = k THEN v ELSE Dictionary[x]]
<1>1. CountInv /\ TypeOK
  BY DEF MapInv, CountInv
<1>2. PICK s : s = VacantSlot(k)
  OBVIOUS
<1>3. /\ s \in 0..(Capacity - 1) /\ s \notin FullSlots
      /\ Abort \/ Holds(FullSlots \cup {s}, Storing(s, k, v))
  BY <1>1, <1>2, InsertHolds
<1>4. CASE Abort
  BY <1>4, StopsKeeps DEF Stops
<1>5. CASE Holds(FullSlots \cup {s}, Storing(s, k, v))
  <2>1. Contents' = But(Contents, k) \cup {[key |-> k, value |-> v]}
    BY <1>1, <1>3, <1>5, HoldsContents, StoringContents
  <2>2. Unique(Contents)
    BY StoredAsDictionary
  <2>3. Dict(But(Contents, k) \cup {[key |-> k, value |-> v]}) =
          [x \in DOMAIN Dict(Contents) \cup {k} |->
             IF x = k THEN v ELSE Dict(Contents)[x]]
    BY <2>2, DictWith
  <2>4. Dictionary' = Dict(Contents') /\ Dictionary = Dict(Contents)
    BY DictionaryIs
  <2> QED
    BY <1>5, <2>1, <2>3, <2>4 DEF Holds
<1> QED
  BY <1>3, <1>4, <1>5

\* The checked adds: a stored key is refused and keeps its value or gets the
\* new one, another is added.
LEMMA CheckedRefines ==
  ASSUME MapInv, MistestedLanes = {}, NEW k \in Keys, NEW v \in Values,
         MayAdd(k), CheckedAdds(k, v)
  PROVE  [Abstract!Next]_(Abstract!vars)
<1>1. PICK op, update :
        /\ AddChecked(op, k, v, update) /\ update \in BOOLEAN
        /\ op = IF update THEN "AddOrUpdate" ELSE "Add"
  BY DEF CheckedAdds, Add, AddOrUpdate
<1>2. TypeOK /\ NoDuplicates /\ status = "idle"
  BY <1>1 DEF MapInv, CountInv, AddChecked
<1>3. DOMAIN Dictionary = StoredKeys
  BY <1>2, StoredAsDictionary
<1>4. ASSUME ret' = [op |-> op, key |-> k, value |-> v, out |-> k \notin StoredKeys],
             Dictionary' = IF k \in StoredKeys /\ ~update THEN Dictionary
                           ELSE [x \in DOMAIN Dictionary \cup {k} |->
                                   IF x = k THEN v ELSE Dictionary[x]]
      PROVE  Abstract!Next
  <2>1. CASE update
    <3>1. Abstract!AddOrUpdate(k, v)
      BY <1>1, <1>3, <1>4, <2>1
      DEF Abstract!AddOrUpdate, Abstract!Answer, Abstract!Stored, Abstract!With
    <3> QED
      BY <3>1 DEF Abstract!Next
  <2>2. CASE ~update
    <3>1. Abstract!Add(k, v)
      BY <1>1, <1>3, <1>4, <2>2
      DEF Abstract!Add, Abstract!Answer, Abstract!Stored, Abstract!With
    <3> QED
      BY <3>1 DEF Abstract!Next
  <2> QED
    BY <2>1, <2>2
<1>5. CASE Hang
  BY <1>5, StopsKeeps, Unseen DEF Stops, Hang
<1>6. CASE /\ k \in StoredKeys /\ HitSlot(k) \in FullSlots
           /\ entries[HitSlot(k)].key = k
           /\ entries' = IF update THEN Updating(HitSlot(k), v) ELSE entries
           /\ UNCHANGED <<tags, Capacity, status, loop>>
           /\ Returns(op, k, v, FALSE)
  <2>1. PICK s : s = HitSlot(k)
    OBVIOUS
  <2>2. Holds(FullSlots, IF update THEN Updating(s, v) ELSE entries)
    BY <1>2, <1>6, <2>1, UpdateHolds
  <2>3. Contents' = In(IF update THEN Updating(s, v) ELSE entries, FullSlots)
    BY <2>2, HoldsContents
  <2>4. ret' = [op |-> op, key |-> k, value |-> v, out |-> k \notin StoredKeys]
    BY <1>2, <1>6 DEF Returns
  <2>5. Dictionary' = Dict(Contents') /\ Dictionary = Dict(Contents)
    BY DictionaryIs
  <2>6. CASE update
    <3>1. Contents' = But(Contents, k) \cup {[key |-> k, value |-> v]}
      BY <1>2, <1>6, <2>1, <2>3, <2>6, UpdatingContents
    <3>2. Dict(But(Contents, k) \cup {[key |-> k, value |-> v]}) =
            [x \in DOMAIN Dict(Contents) \cup {k} |->
               IF x = k THEN v ELSE Dict(Contents)[x]]
      <4>1. Unique(Contents)
        BY <1>2, StoredAsDictionary
      <4> QED
        BY <4>1, DictWith
    <3>3. Dictionary' = [x \in DOMAIN Dictionary \cup {k} |->
                           IF x = k THEN v ELSE Dictionary[x]]
      BY <2>5, <3>1, <3>2
    <3> QED
      BY <1>4, <2>4, <2>6, <3>3
  <2>7. CASE ~update
    <3>1. Contents' = Contents
      BY <1>2, <2>3, <2>7, ContentsAtRest
    <3> QED
      BY <1>4, <1>6, <2>4, <2>5, <2>7, <3>1
  <2> QED
    BY <2>6, <2>7
<1>7. CASE /\ k \notin StoredKeys /\ VacantSteps(k) # {}
           /\ Insert(k, v) /\ Returns(op, k, v, TRUE)
  <2>1. CASE Abort /\ Contents' = Contents
    BY <1>7, <2>1, Unseen DEF Returns, Abort
  <2>2. CASE /\ status' # "aborted"
             /\ Dictionary' = [x \in DOMAIN Dictionary \cup {k} |->
                                 IF x = k THEN v ELSE Dictionary[x]]
    <3>1. ret' = [op |-> op, key |-> k, value |-> v, out |-> k \notin StoredKeys]
      BY <1>7, <2>2 DEF Returns
    <3> QED
      BY <1>4, <1>7, <2>2, <3>1
  <2> QED
    BY <1>2, <1>7, <2>1, <2>2, InsertRefines
<1> QED
  BY <1>1, <1>5, <1>6, <1>7, CheckedOutcome

\* AddUnique of a key that is not stored adds it.
LEMMA UniqueRefines ==
  ASSUME MapInv, NEW k \in Keys \ StoredKeys, NEW v \in Values, UniqueAdds(k, v)
  PROVE  [Abstract!Next]_(Abstract!vars)
<1>1. status = "idle" /\ DOMAIN Dictionary = StoredKeys
  BY StoredAsDictionary DEF UniqueAdds, AddUnique
<1>2. CASE Hang
  BY <1>2, StopsKeeps, Unseen DEF Stops, Hang
<1>3. CASE /\ VacantSteps(k) # {} /\ Insert(k, v)
           /\ Returns("AddUnique", k, v, TRUE)
  <2>1. CASE Abort /\ Contents' = Contents
    BY <1>3, <2>1, Unseen DEF Returns, Abort
  <2>2. CASE /\ status' # "aborted"
             /\ Dictionary' = [x \in DOMAIN Dictionary \cup {k} |->
                                 IF x = k THEN v ELSE Dictionary[x]]
    <3>1. Abstract!AddUnique(k, v)
      BY <1>1, <1>3, <2>2
      DEF Returns, Abstract!AddUnique, Abstract!Answer, Abstract!Stored, Abstract!With
    <3> QED
      BY <3>1 DEF Abstract!Next
  <2> QED
    BY <1>1, <1>3, <2>1, <2>2, InsertRefines
<1> QED
  BY <1>2, <1>3 DEF UniqueAdds, AddUnique

\* A search answers as the dictionary does.
LEMMA FindRefines ==
  ASSUME MapInv, MistestedLanes = {}, NEW k \in Keys, Find(k)
  PROVE  [Abstract!Next]_(Abstract!vars)
<1>1. CountInv /\ TypeOK /\ status = "idle"
  BY DEF MapInv, CountInv, Find
<1>2. CASE Hang
  BY <1>2, StopsKeeps, Unseen DEF Stops, Hang
<1>3. CASE /\ UNCHANGED <<table, maxLoadFactor, status, loop>>
           /\ Returns("Find", k, None, IF Hits(k, EmptySteps(k))
                                         THEN entries[HitSlot(k)].value ELSE None)
  <2>1. Contents' = Contents
    BY <1>3, QuietKeeps DEF table
  <2>2. Dictionary' = Dictionary
    BY <2>1, DictionaryIs
  <2>3. DOMAIN Dictionary = StoredKeys
    BY <1>1, StoredAsDictionary
  <2>4. (IF Hits(k, EmptySteps(k)) THEN entries[HitSlot(k)].value ELSE None)
          = IF k \in StoredKeys THEN Dictionary[k] ELSE None
    <3>1. CASE Hits(k, EmptySteps(k))
      <4>1. HitSlot(k) \in FullSlots /\ entries[HitSlot(k)].key = k /\ k \in StoredKeys
        BY <1>1, <3>1, HitsKnown
      <4>2. Dictionary[k] = entries[HitSlot(k)].value
        BY <1>1, <4>1, StoredAsDictionary
      <4> QED
        BY <3>1, <4>1, <4>2
    <3>2. CASE ~Hits(k, EmptySteps(k))
      BY <1>1, <3>2, SearchExact
    <3> QED
      BY <3>1, <3>2
  <2>5. ret' = [op |-> "Find", key |-> k, value |-> None,
                out |-> IF k \in StoredKeys THEN Dictionary[k] ELSE None]
    BY <1>1, <1>3, <2>4 DEF Returns
  <2>6. Abstract!Find(k)
    BY <2>2, <2>3, <2>5 DEF Abstract!Find, Abstract!Answer, Abstract!Stored
  <2> QED
    BY <2>6 DEF Abstract!Next
<1> QED
  BY <1>2, <1>3 DEF Find

\* A removal answers and removes as the dictionary does.
LEMMA RemoveRefines ==
  ASSUME MapInv, MistestedLanes = {}, NEW k \in Keys, Remove(k)
  PROVE  [Abstract!Next]_(Abstract!vars)
<1>1. CountInv /\ TypeOK /\ NoDuplicates /\ status = "idle"
  BY DEF MapInv, CountInv, Remove
<1>2. Hits(k, EmptySteps(k)) <=> k \in StoredKeys
  BY <1>1, SearchExact
<1>3. CASE Hang
  BY <1>3, StopsKeeps, Unseen DEF Stops, Hang
<1>4. CASE ~Hang
  <2>1. /\ status' # "aborted"
        /\ ret' = [op |-> "Remove", key |-> k, value |-> None, out |-> k \in StoredKeys]
    <3>1. CASE Hits(k, EmptySteps(k))
      <4>1. ~Hangs(k, EmptySteps(k)) /\ (k \in StoredKeys) = TRUE
        BY <1>2, <3>1 DEF Hits, Hangs
      <4>2. status' = status /\ Returns("Remove", k, None, TRUE)
        BY <3>1, <4>1 DEF Remove
      <4> QED
        BY <1>1, <4>1, <4>2 DEF Returns
    <3>2. CASE ~Hits(k, EmptySteps(k))
      <4>1. (k \in StoredKeys) = FALSE
        BY <1>2, <3>2
      <4>2. status' = status /\ Returns("Remove", k, None, FALSE)
        BY <1>4, <3>2 DEF Remove
      <4> QED
        BY <1>1, <4>1, <4>2 DEF Returns
    <3> QED
      BY <3>1, <3>2
  <2>2. Contents' = But(Contents, k)
    <3>1. CASE ~Hits(k, EmptySteps(k)) /\ Holds(FullSlots, entries)
      BY <1>1, <1>2, <3>1, HoldsContents, ContentsAtRest, ButNone
    <3>2. CASE /\ HitSlot(k) \in FullSlots /\ entries[HitSlot(k)].key = k
               /\ Holds(FullSlots \ {HitSlot(k)}, entries)
      BY <1>1, <3>2, HoldsContents, RemovedContents
    <3> QED
      BY <1>1, <1>4, <3>1, <3>2, RemoveHolds
  <2>3. Unique(Contents)
    BY <1>1, StoredAsDictionary
  <2>4. Dict(But(Contents, k)) = [x \in DOMAIN Dict(Contents) \ {k} |-> Dict(Contents)[x]]
    BY <2>3, DictWithout
  <2>5. Dictionary' = [x \in DOMAIN Dictionary \ {k} |-> Dictionary[x]]
    BY <2>2, <2>4, DictionaryIs
  <2>6. DOMAIN Dictionary = StoredKeys
    BY <1>1, StoredAsDictionary
  <2>7. Abstract!Remove(k)
    BY <2>1, <2>5, <2>6
    DEF Abstract!Remove, Abstract!Answer, Abstract!Stored, Abstract!Without
  <2> QED
    BY <2>7 DEF Abstract!Next
<1> QED
  BY <1>3, <1>4

\* Clear empties the dictionary, unless it aborts.
LEMMA ClearRefines ==
  ASSUME MapInv, NEW size \in Sizes, Clear(size)
  PROVE  [Abstract!Next]_(Abstract!vars)
<1>1. CountInv /\ Returns("Clear", None, None, None)
  BY DEF MapInv, Clear
<1>2. CASE Abort
  <2>1. Contents' = Contents /\ ret' = ret
    BY <1>1, <1>2, StopsKeeps DEF Stops, Abort, Returns
  <2> QED
    BY <2>1, Unseen
<1>3. CASE Holds({}, entries)
  <2>1. Contents' = {}
    BY <1>3, HoldsContents DEF In
  <2>2. Dictionary' = [k \in {} |-> None]
    BY <2>1, DictionaryIs, DictNone
  <2>3. ret' = [op |-> "Clear", key |-> None, value |-> None, out |-> None]
    BY <1>1, <1>3 DEF Holds, Returns
  <2>4. Abstract!Clear
    BY <2>2, <2>3 DEF Abstract!Clear, Abstract!Answer
  <2> QED
    BY <2>4 DEF Abstract!Next
<1> QED
  BY <1>1, <1>2, <1>3, ClearHolds

\* The calls that leave the contents alone are the dictionary's housekeeping.
LEMMA HousekeepingRefines ==
  ASSUME MapInv,
         Rehash \/ (\E size \in Sizes : Resize(size))
           \/ \E mlf \in LoadFactors : SetMaxLoadFactor(mlf)
  PROVE  [Abstract!Next]_(Abstract!vars)
<1>1. CountInv /\ TypeOK
  BY DEF MapInv, CountInv
<1>2. ASSUME Abort, NEW op, Returns(op, None, None, None)
      PROVE  [Abstract!Next]_(Abstract!vars)
  <2>1. Contents' = Contents /\ ret' = ret
    BY <1>2, StopsKeeps DEF Stops, Abort, Returns
  <2> QED
    BY <2>1, Unseen
<1>3. ASSUME Holds(FullSlots, entries), status = "idle",
             NEW op \in {"Rehash", "Resize", "max_load_factor"},
             Returns(op, None, None, None)
      PROVE  [Abstract!Next]_(Abstract!vars)
  <2>1. Contents' = Contents
    BY <1>1, <1>3, HoldsContents, ContentsAtRest
  <2>2. Dictionary' = Dictionary
    BY <2>1, DictionaryIs
  <2>3. ret' = [op |-> op, key |-> None, value |-> None, out |-> None]
    BY <1>3 DEF Holds, Returns
  <2>4. Abstract!Housekeeping
    BY <2>2, <2>3 DEF Abstract!Housekeeping, Abstract!Answer
  <2> QED
    BY <2>4 DEF Abstract!Next
<1>4. CASE Rehash
  BY <1>1, <1>3, <1>4, RehashHolds DEF Rehash
<1>5. ASSUME NEW size \in Sizes, Resize(size)
      PROVE  [Abstract!Next]_(Abstract!vars)
  BY <1>1, <1>2, <1>3, <1>5, ResizeHolds DEF Resize
<1>6. ASSUME NEW mlf \in LoadFactors, SetMaxLoadFactor(mlf)
      PROVE  [Abstract!Next]_(Abstract!vars)
  BY <1>1, <1>3, <1>6, LoadFactorHolds DEF SetMaxLoadFactor
<1> QED
  BY <1>4, <1>5, <1>6

\* No step of RehashInternal is seen.
LEMMA RehashRefines ==
  ASSUME MapInv, RehashLoop
  PROVE  [Abstract!Next]_(Abstract!vars)
<1>1. CountInv /\ TypeOK
  BY DEF MapInv, CountInv
<1>2. Contents' = Contents
  BY <1>1, RehashTyped, RehashKeeps
<1>3. ret' = ret
  BY DEF RehashLoop, RehashSkip, RehashTake, RehashDisplace, RehashDone, Settle, Hang
<1> QED
  BY <1>2, <1>3, Unseen

\* Every step of the table with its client is a step of the dictionary or none.
LEMMA RefinesStep ==
  ASSUME MapInv, MistestedLanes = {}, [MapNext]_mapVars
  PROVE  [Abstract!Next]_(Abstract!vars)
<1>1. CASE UNCHANGED mapVars
  BY <1>1, QuietKeeps, Unseen DEF mapVars, vars, table
<1>2. CASE OtherCalls
  BY <1>2, FindRefines, RemoveRefines, ClearRefines, HousekeepingRefines DEF OtherCalls
<1>3. CASE RehashLoop
  BY <1>3, RehashRefines
<1> QED
  BY <1>1, <1>2, <1>3, CheckedRefines, UniqueRefines DEF MapNext

\* A new table is the empty dictionary.
LEMMA RefinesInit ==
  ASSUME MapInit
  PROVE  Abstract!Init
<1>1. MapInv /\ Init /\ status = "idle" /\ Count = 0
  BY MapInitial DEF MapInit, Init
<1>2. CountInv /\ TypeOK
  BY <1>1 DEF MapInv, CountInv
<1>3. Contents = {}
  BY <1>1, <1>2, UncountedEmpty, ContentsAtRest DEF In
<1>4. Dictionary = [k \in {} |-> None]
  BY <1>3, DictionaryIs, DictNone
<1> QED
  BY <1>1, <1>4 DEF Abstract!Init, Init

\* In the default build the table is a dictionary to such a client: every call
\* that returns answers as MapSpec does and changes the stored pairs as it does,
\* and the steps of RehashInternal, like a call that hangs or aborts, are not
\* seen.
THEOREM TableIsDictionary ==
  ASSUME MistestedLanes = {}
  PROVE  MapSpecification => ImplementsMap
<1>1. MapInit => Abstract!Init
  BY RefinesInit
<1>2. MapInv /\ [MapNext]_mapVars => [Abstract!Next]_(Abstract!vars)
  BY RefinesStep
<1> QED
  BY <1>1, <1>2, MapInvariant, PTL DEF MapSpecification, ImplementsMap, Abstract!Spec
=============================================================================
