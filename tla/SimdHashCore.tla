---------------------------- MODULE SimdHashCore ----------------------------
(***************************************************************************)
(* Core<TKey, TValue, Type::Map or Type::Set, ...> of SimdHash.h: the open *)
(* addressing table behind MZ::SimdHash::Map and MZ::SimdHash::Set.        *)
(*                                                                         *)
(* A call is one step, but for RehashInternal, whose loop is modelled one  *)
(* iteration a step: it moves the entries in place and is where an entry   *)
(* could be lost.  The program is sequential, so no call starts before the *)
(* loop has ended (status is "idle" again).                                *)
(*                                                                         *)
(* A probe loop that meets no slot to stop at never leaves it: "hung".     *)
(* A failed assert calls abort(): "aborted".                               *)
(***************************************************************************)
EXTENDS ProbeSequence, CapacityPolicy

CONSTANTS
  Keys, Values,
  Home,     \* Home[k][c] = AdjustTupleIndex(_hasher(k)) in a table of c slots
  TagOf,    \* TagOf[k] = HashToTag(_hasher(k))
  Sizes,    \* the sizes callers give to Resize and Clear
  Calls,    \* the names of the calls this client makes
  None      \* no entry, no key, no result

Entry == [key : Keys, value : Values]

CarriedEntry == [tag : HashTags, entry : Entry]

ASSUME HashAssumption ==
  /\ \A c \in Capacities : c % LANES = 0
  /\ Home \in [Keys -> [Capacities -> Nat]]
  /\ \A k \in Keys, c \in Capacities : Home[k][c] < c
  /\ TagOf \in [Keys -> HashTags]
  /\ Sizes \subseteq Nat
  /\ None \notin Keys \cup Values \cup BOOLEAN
  /\ None \notin Entry \cup CarriedEntry

VARIABLES
  tags,             \* _tags, the sentinel included
  entries,          \* _entries
  Capacity,         \* _Capacity, and _tags.size()
  Count,            \* _Count
  CountGrowthLimit, \* _CountGrowthLimit
  maxLoadFactor,    \* _max_load_factor
  status,           \* "idle", "rehash", "hung" or "aborted"
  prevTags,         \* RehashInternal: the tags being emptied
  prevSize,         \*   prevTags.size()
  prevCount,        \*   prevCount
  cursor,           \*   i
  carried,          \*   prevTag and prevEntry of the inner loop
  ret               \* the last call, its arguments and its result

table == <<tags, entries, Capacity, Count, CountGrowthLimit>>
loop  == <<prevTags, prevSize, prevCount, cursor, carried>>
vars  == <<table, maxLoadFactor, status, loop, ret>>

NoTags == [s \in {} |-> EMPTY]

\* A mutant of FreshTags: no sentinel behind the last slot.
FreshTagsOpen(c) == [s \in 0..(c + LANES - 1) |-> EMPTY]

\* TagArray::AdjustSize and Init
FreshTags(c) ==
  [s \in 0..(c + LANES - 1) |-> IF s < c THEN EMPTY ELSE FORBIDDEN]

\* EntryArray::AdjustSize: the pages so far are kept, new ones follow
Extended(e, c) == [s \in 0..(c - 1) |-> IF s \in DOMAIN e THEN e[s] ELSE None]

FullSlots == {s \in 0..(Capacity - 1) : IsFull(tags[s])}

-----------------------------------------------------------------------------
(* Probing.                                                                *)

Position(k, i) == ProbeAt(Home[k][Capacity], i, Capacity)

\* the lanes of the i-th vector that hold k, of those the loop compares
HitLanes(k, i) ==
  LET p == Position(k, i)
  IN  {l \in VisitedLanes(GetCmpMask(tags, p, TagOf[k])) :
         entries[p + l].key = k}

HitSteps(k) == {i \in ProbeSteps(Capacity) : HitLanes(k, i) # {}}

EmptySteps(k) ==
  {i \in ProbeSteps(Capacity) : GetEmptyMask(tags, Position(k, i)) # {}}

VacantSteps(k) ==
  {i \in ProbeSteps(Capacity) :
     GetEmptyOrTomeStoneMask(tags, Position(k, i)) # {}}

\* A mutant of Hits: the reason to stop is looked for first.
HitsBeforeStop(k, stops) == \E i \in HitSteps(k) : \A j \in stops : i < j

\* A loop that compares the tags of each vector before it looks for a reason
\* to stop (stops, a set of steps) ends with the key found, or hangs.
Hits(k, stops)  == \E i \in HitSteps(k) : \A j \in stops : i <= j
Hangs(k, stops) == HitSteps(k) \cup stops = {}

HitSlot(k) ==
  LET i == Min(HitSteps(k)) IN Position(k, i) + Min(HitLanes(k, i))

VacantSlot(k) ==
  LET p == Position(k, Min(VacantSteps(k)))
  IN  p + TrailingZeroCount(GetEmptyOrTomeStoneMask(tags, p))

FindEmpty(k) ==
  LET p == Position(k, Min(EmptySteps(k)))
  IN  p + TrailingZeroCount(GetEmptyMask(tags, p))

-----------------------------------------------------------------------------
(* How a call ends.                                                        *)

\* the call, its arguments and its result; a call that aborts has none
Returns(op, k, v, out) ==
  ret' = IF status' = "aborted"
           THEN ret ELSE [op |-> op, key |-> k, value |-> v, out |-> out]

Hang == status' = "hung" /\ UNCHANGED <<table, maxLoadFactor, loop, ret>>

Abort == status' = "aborted" /\ UNCHANGED <<table, maxLoadFactor, loop>>

-----------------------------------------------------------------------------
(* Resize, called by a client, by the constructor, by Clear and by Add.    *)
(* t, e and n are the tags, entries and count the caller left.             *)

\* A mutant of StartRehash: the count is not started again.
StartRehashCounting(c, t, e, n) ==
  /\ status' = "rehash"
  /\ prevTags' = t /\ prevSize' = Capacity /\ prevCount' = n
  /\ cursor' = 0 /\ carried' = None
  /\ tags' = FreshTags(c) /\ entries' = e /\ Count' = n

StartRehash(c, t, e, n) ==
  /\ status' = "rehash"
  /\ prevTags' = t /\ prevSize' = Capacity /\ prevCount' = n
  /\ cursor' = 0 /\ carried' = None
  /\ tags' = FreshTags(c) /\ entries' = e /\ Count' = 0

\* lines 776 to 797: c is the new _Capacity, not the one the tags have
Reallocate(c, t, e, n) ==
  \/ /\ c - 1 \in DOMAIN e       \* EntryArray: assert(size > _size)
     /\ Abort
  \/ /\ c - 1 \notin DOMAIN e
     /\ Capacity' = c
     /\ CountGrowthLimit' = GrowthLimit(c, maxLoadFactor)
     /\ UNCHANGED maxLoadFactor
     /\ \/ /\ n # 0
           /\ StartRehash(c, t, Extended(e, c), n)
        \/ /\ n = 0
           /\ tags' = FreshTags(c) /\ entries' = Extended(e, c) /\ Count' = 0
           /\ UNCHANGED <<status, loop>>

\* the table keeps its size
Keep(t, e, n, limit) ==
  /\ tags' = t /\ entries' = e /\ Count' = n /\ CountGrowthLimit' = limit
  /\ UNCHANGED <<Capacity, maxLoadFactor, status, loop>>

\* A mutant of MayResize: the assertion is compiled out.
MayAlwaysResize(n) == TRUE

MayResize(n) == ResizeOnlyEmpty => n = 0   \* assert(_Count == 0)

ResizeFrom(size, t, e, n) ==
  LET c == AdjustCapacity(size)
  IN  \/ Capacity > c /\ Keep(t, e, n, CountGrowthLimit)
      \/ /\ Capacity <= c
         /\ \/ ~MayResize(n) /\ Abort
            \/ /\ MayResize(n) /\ Capacity = c
               /\ Keep(t, e, n, GrowthLimit(c, maxLoadFactor))
            \/ MayResize(n) /\ Capacity < c /\ Reallocate(c, t, e, n)

Resize(size) ==
  /\ status = "idle"
  /\ ResizeFrom(size, tags, entries, Count)
  /\ Returns("Resize", None, None, None)

Clear(size) ==
  /\ status = "idle"
  /\ LET c == AdjustCapacity(size)
     IN  IF size > 0 /\ c # Capacity
           THEN Reallocate(c, NoTags, entries, 0)
           ELSE Keep(FreshTags(Capacity), entries, 0, CountGrowthLimit)
  /\ Returns("Clear", None, None, None)

SetMaxLoadFactor(mlf) ==
  LET kept == IF mlf \in MIN_LOAD_FACTOR..MAX_LOAD_FACTOR
                THEN mlf ELSE maxLoadFactor
  IN  /\ status = "idle"
      /\ maxLoadFactor' = kept
      /\ CountGrowthLimit' = GrowthLimit(Capacity, kept)
      /\ UNCHANGED <<tags, entries, Capacity, Count, status, loop>>
      /\ Returns("max_load_factor", None, None, None)

-----------------------------------------------------------------------------
(* The calls on a key.                                                     *)

\* Contains and TryGetValue
Find(k) ==
  /\ status = "idle"
  /\ \/ /\ Hangs(k, EmptySteps(k))
        /\ Hang
     \/ /\ ~Hangs(k, EmptySteps(k))
        /\ UNCHANGED <<table, maxLoadFactor, status, loop>>
        /\ Returns("Find", k, None, IF Hits(k, EmptySteps(k))
                                      THEN entries[HitSlot(k)].value ELSE None)

\* A mutant of Bury: the slot of a removed entry counts as never used.
BuryAsEmpty(s) == [tags EXCEPT ![s] = EMPTY]

Bury(s) == [tags EXCEPT ![s] = TOMBSTONE]

\* FindEntry with the lambda that buries the entry
Remove(k) ==
  /\ status = "idle"
  /\ \/ /\ Hangs(k, EmptySteps(k))
        /\ Hang
     \/ /\ Hits(k, EmptySteps(k))
        /\ tags' = Bury(HitSlot(k))
        /\ Count' = Count - 1
        /\ UNCHANGED <<entries, Capacity, CountGrowthLimit, maxLoadFactor,
                       status, loop>>
        /\ Returns("Remove", k, None, TRUE)
     \/ /\ ~Hangs(k, EmptySteps(k)) /\ ~Hits(k, EmptySteps(k))
        /\ UNCHANGED <<table, maxLoadFactor, status, loop>>
        /\ Returns("Remove", k, None, FALSE)

\* A mutant of AtLimit: the table grows one entry too late.
PastLimit(n) == n = CountGrowthLimit + 1

AtLimit(n) == n = CountGrowthLimit

\* The tail of Add: the slot is taken, and the table grows when the count
\* has just become the limit.
Insert(k, v) ==
  LET s == VacantSlot(k)
      t == [tags EXCEPT ![s] = TagOf[k]]
      e == [entries EXCEPT ![s] = [key |-> k, value |-> v]]
      n == Count + 1
  IN  IF AtLimit(n)
        THEN ResizeFrom(Capacity + 1, t, e, n)
        ELSE Keep(t, e, n, CountGrowthLimit)

\* Add<false, update>
AddChecked(op, k, v, update) ==
  /\ status = "idle"
  /\ \/ /\ Hangs(k, VacantSteps(k))
        /\ Hang
     \/ /\ Hits(k, VacantSteps(k))
        /\ entries' = IF update THEN [entries EXCEPT ![HitSlot(k)].value = v]
                                ELSE entries
        /\ UNCHANGED <<tags, Capacity, Count, CountGrowthLimit,
                       maxLoadFactor, status, loop>>
        /\ Returns(op, k, v, FALSE)
     \/ /\ ~Hangs(k, VacantSteps(k)) /\ ~Hits(k, VacantSteps(k))
        /\ Insert(k, v)
        /\ Returns(op, k, v, TRUE)

\* A mutant of AddOrUpdate: an entry that is there keeps its value.
AddOrKeep(k, v) == AddChecked("AddOrUpdate", k, v, FALSE)

Add(k, v)         == AddChecked("Add", k, v, FALSE)
AddOrUpdate(k, v) == AddChecked("AddOrUpdate", k, v, TRUE)

\* Add<true, false>: the caller vouches that k is not in the table
AddUnique(k, v) ==
  /\ status = "idle"
  /\ \/ /\ VacantSteps(k) = {}
        /\ Hang
     \/ /\ VacantSteps(k) # {}
        /\ Insert(k, v)
        /\ Returns("AddUnique", k, v, TRUE)

Rehash ==
  /\ status = "idle"
  /\ IF Count # 0
       THEN /\ StartRehash(Capacity, tags, entries, Count)
            /\ UNCHANGED <<Capacity, CountGrowthLimit, maxLoadFactor>>
       ELSE UNCHANGED <<table, maxLoadFactor, status, loop>>
  /\ Returns("Rehash", None, None, None)

-----------------------------------------------------------------------------
(* RehashInternal.                                                         *)

\* A mutant of Pending: the last slot of the old table is taken for new.
PendingButLast(pt, s) == s < prevSize - 1 /\ IsFull(pt[s])

\* prevTags[i] & EMPTY for the slots the old table had
Pending(pt, s) == s < prevSize /\ IsFull(pt[s])

\* An entry goes to the first empty slot of its probe.  If an entry that has
\* not been moved yet lives there, that one is picked up instead; if not, the
\* scan goes on.  (Storing an entry over itself when it stays, the branch
\* emptyIndex == i, is the same step.)
Settle(tag, entry, pt) ==
  IF EmptySteps(entry.key) = {}
    THEN Hang
    ELSE \E s \in {FindEmpty(entry.key)} :
           /\ tags' = [tags EXCEPT ![s] = tag]
           /\ entries' = [entries EXCEPT ![s] = entry]
           /\ Count' = Count + 1
           /\ IF Pending(pt, s)
                THEN /\ carried' = [tag |-> pt[s], entry |-> entries[s]]
                     /\ prevTags' = [pt EXCEPT ![s] = EMPTY]
                     /\ cursor' = cursor
                ELSE /\ carried' = None
                     /\ prevTags' = pt
                     /\ cursor' = cursor + 1
           /\ UNCHANGED <<Capacity, CountGrowthLimit, maxLoadFactor, status,
                          prevSize, prevCount, ret>>

\* A mutant of RehashSkip: a slot not in use is not stepped over.
RehashStay ==
  /\ status = "rehash" /\ carried = None
  /\ cursor < prevSize /\ ~Pending(prevTags, cursor)
  /\ UNCHANGED vars

RehashSkip ==
  /\ status = "rehash" /\ carried = None
  /\ cursor < prevSize /\ ~Pending(prevTags, cursor)
  /\ cursor' = cursor + 1
  /\ UNCHANGED <<table, maxLoadFactor, status, prevTags, prevSize, prevCount,
                 carried, ret>>

\* A mutant of RehashTake: the slot taken from is left in the old tags.
RehashTakeKept ==
  /\ status = "rehash" /\ carried = None
  /\ Pending(prevTags, cursor)
  /\ Settle(prevTags[cursor], entries[cursor], prevTags)

RehashTake ==
  /\ status = "rehash" /\ carried = None
  /\ Pending(prevTags, cursor)
  /\ Settle(prevTags[cursor], entries[cursor],
            [prevTags EXCEPT ![cursor] = EMPTY])

RehashDisplace ==
  /\ status = "rehash" /\ carried # None
  /\ Settle(carried.tag, carried.entry, prevTags)

RehashDone ==
  /\ status = "rehash" /\ carried = None /\ cursor = prevSize
  /\ status' = IF prevCount = Count THEN "idle" ELSE "aborted"
  /\ prevTags' = NoTags /\ prevSize' = 0 /\ prevCount' = 0 /\ cursor' = 0
  /\ UNCHANGED <<table, maxLoadFactor, carried, ret>>

-----------------------------------------------------------------------------
\* The constructor: Resize(MIN_SIZE) of a table without slots.
Init ==
  /\ Capacity = AdjustCapacity(MIN_SIZE)
  /\ tags = FreshTags(Capacity)
  /\ entries = [s \in 0..(Capacity - 1) |-> None]
  /\ Count = 0
  /\ maxLoadFactor = DEF_LOAD_FACTOR
  /\ CountGrowthLimit = GrowthLimit(Capacity, DEF_LOAD_FACTOR)
  /\ status = "idle"
  /\ prevTags = NoTags /\ prevSize = 0 /\ prevCount = 0
  /\ cursor = 0 /\ carried = None
  /\ ret = [op |-> "Core", key |-> None, value |-> None, out |-> None]

\* the calls that may put a key into the table it already holds
CheckedAdds(k, v) ==
  \/ "Add" \in Calls /\ Add(k, v)
  \/ "AddOrUpdate" \in Calls /\ AddOrUpdate(k, v)

UniqueAdds(k, v) == "AddUnique" \in Calls /\ AddUnique(k, v)

OtherCalls ==
  \/ \E k \in Keys : "Find" \in Calls /\ Find(k)
  \/ \E k \in Keys : "Remove" \in Calls /\ Remove(k)
  \/ "Rehash" \in Calls /\ Rehash
  \/ \E size \in Sizes : "Resize" \in Calls /\ Resize(size)
  \/ \E size \in Sizes : "Clear" \in Calls /\ Clear(size)
  \/ \E mlf \in LoadFactors : "max_load_factor" \in Calls
                              /\ SetMaxLoadFactor(mlf)

RehashLoop == RehashSkip \/ RehashTake \/ RehashDisplace \/ RehashDone

Next ==
  \/ \E k \in Keys, v \in Values : CheckedAdds(k, v) \/ UniqueAdds(k, v)
  \/ OtherCalls
  \/ RehashLoop

Spec == Init /\ [][Next]_vars

\* A rehash that was entered runs on; nobody is assumed to make a call.
FairSpec == Spec /\ WF_vars(RehashLoop)

-----------------------------------------------------------------------------
(* Properties.                                                             *)

StoredKeys == {entries[s].key : s \in FullSlots}

PendingSlots == {s \in DOMAIN prevTags : Pending(prevTags, s)}

\* What the table holds: during a rehash, also the entries still in their old
\* slots and the one carried from slot to slot.
Contents ==
  {entries[s] : s \in FullSlots} \cup {entries[s] : s \in PendingSlots}
    \cup (IF carried = None THEN {} ELSE {carried.entry})

\* The state of the table and of RehashInternal; the sentinel behind the tags
\* is never written, and only slots in use have a hash tag.
TypeOK ==
  /\ Capacity \in Capacities
  /\ tags \in [0..(Capacity + LANES - 1) -> Tags]
  /\ \A s \in DOMAIN tags : tags[s] = FORBIDDEN <=> s >= Capacity
  /\ entries \in [0..(Capacity - 1) -> Entry \cup {None}]
  /\ \A s \in FullSlots : entries[s] \in Entry
  /\ Count \in Int /\ CountGrowthLimit \in Nat /\ maxLoadFactor \in Nat
  /\ status \in {"idle", "rehash", "hung", "aborted"}
  /\ prevSize \in Nat /\ prevSize <= Capacity /\ prevCount \in Int
  /\ \/ prevTags = NoTags /\ prevSize = 0
     \/ prevTags \in [0..(prevSize + LANES - 1) -> Tags]
  /\ \A s \in PendingSlots : entries[s] \in Entry
  /\ cursor \in Nat /\ cursor <= prevSize
  /\ carried \in CarriedEntry \cup {None}
  /\ carried # None => cursor < prevSize
  /\ status = "idle" => prevSize = 0 /\ carried = None

\* Every entry in the table, waiting in its old slot or carried by the rehash
\* is accompanied by its key's tag.
TagsMatch ==
  /\ \A s \in FullSlots : tags[s] = TagOf[entries[s].key]
  /\ \A s \in PendingSlots : prevTags[s] = TagOf[entries[s].key]
  /\ carried # None => carried.tag = TagOf[carried.entry.key]

\* Slot s is in the i-th vector of the probe for k, and no vector before it
\* ends a search.
ReachedAt(s, k, i) ==
  /\ s - Position(k, i) \in Lanes
  /\ \A j \in EmptySteps(k) : i <= j

\* An entry has its key's tag and lies on its key's probe sequence, with no
\* vector before it that would end a search: what FindEntry relies on when
\* it stops at the first vector with an EMPTY tag, through adds behind
\* tombstones, removals, growth and in-place rehashes.
ProbeChain ==
  /\ TagsMatch
  /\ \A s \in FullSlots :
       \E i \in ProbeSteps(Capacity) : ReachedAt(s, entries[s].key, i)

\* A search for a key that is in the table finds it, and neither gives up
\* before it nor runs on for ever (FindEntry, lines 919 to 968).
NeverMissesStored ==
  status = "idle" => \A k \in StoredKeys : Hits(k, EmptySteps(k))

\* _Count is the number of slots in use, and the assertion at the end of
\* RehashInternal (prevCount == _Count) holds: each entry taken out of the
\* old tags is put into the new ones once.
CountIsFull ==
  /\ Count = Cardinality(FullSlots)
  /\ status = "rehash" =>
       prevCount = Count + Cardinality(PendingSlots)
                         + (IF carried = None THEN 0 ELSE 1)

\* Neither a rehash nor a growing Resize loses, alters or invents an entry,
\* although entries are overwritten in place (lines 702 to 759).
RehashKeepsContents ==
  [][status = "rehash" \/ Rehash \/ (\E size \in Sizes : Resize(size))
       => Contents' = Contents]_vars

\* A rehash comes to its end with its assertion met: each chain of displaced
\* entries (lines 734 to 757) reaches a slot where none waits, and each probe for
\* an EMPTY tag meets one.  Only in a table with hardly a slot to spare may it run
\* for ever, when the last of them are the first LANES - 1, which the probe of
\* the entry that is left does not load (line 1091).
RehashEnds ==
  status = "rehash"
    ~> \/ status = "idle"
       \/ status = "hung" /\ prevCount > Capacity - (LANES - 1)

\* Add puts a second copy of a key into the table only when a vector with a
\* tombstone comes before the first copy (line 1032).
CopyOnlyPastTombstone ==
  [][\A k \in StoredKeys :
       Cardinality({s \in FullSlots' : entries'[s].key = k})
           > Cardinality({s \in FullSlots : entries[s].key = k})
         /\ status' = "idle" /\ status = "idle"
       => \E j \in VacantSteps(k) :
            /\ EmptySteps(k) \cap 0..j = {}
            /\ HitSteps(k) \cap 0..j = {}]_vars

\* the entries the table answers for: a rehash counts its own from 0 again
HeldCount == IF status = "rehash" THEN prevCount ELSE Count

\* An Add leaves the table below the limit at which it grows (line 1080
\* compares for equality), and growth leaves it below the new one, at its
\* largest size apart; only a load factor lowered by the client lets the count
\* reach or pass the limit.
OverfullOnlyByLowering ==
  [][HeldCount < CountGrowthLimit /\ HeldCount' >= CountGrowthLimit'
     => Capacity' = MAX_SIZE \/ maxLoadFactor' < maxLoadFactor]_vars

\* In the modes that may grow with entries in the table, only Clear(size) with
\* less than the table has ever aborts (line 538: EntryArray cannot shrink);
\* adding, growing, rehashing and clearing otherwise never do.  Memory is always
\* had here: the assertion of line 468 is not modelled.
AbortOnlyByShrinking ==
  [][status # "aborted" /\ status' = "aborted"
       => \E size \in Sizes :
            Clear(size) /\ size > 0 /\ AdjustCapacity(size) < Capacity]_vars

\* Mode::ResizeOnlyEmpty: the capacity changes only while the table is empty.
\* Add aborts at the count limit and not before; no search and no removal
\* aborts.
ResizesOnlyEmpty ==
  [][/\ Capacity' # Capacity => Contents = {} \/ ret'.op = "Clear"
     /\ status # "aborted" /\ status' = "aborted"
          => \/ Contents # {} /\ \E size \in Sizes : Resize(size)
             \/ \E size \in Sizes : Clear(size)
             \/ /\ \E k \in Keys, v \in Values : CheckedAdds(k, v) \/ UniqueAdds(k, v)
                /\ Cardinality(FullSlots) = CountGrowthLimit - 1]_vars

\* The probe for a key loads every slot, but for the first LANES - 1, which one
\* that starts within a vector never loads; ProbeLoop checks in which tables.
ProbesCover ==
  \A k \in Keys, c \in Capacities : \A s \in (LANES - 1)..(c - 1) :
    \E i \in ProbeSteps(c) : s - ProbeAt(Home[k][c], i, c) \in Lanes

\* A table that is not full leaves more slots free than a probe may not load.
RoomLeft ==
  \A c \in Capacities :
    c < MAX_SIZE => GrowthLimit(c, MAX_LOAD_FACTOR) + LANES - 1 <= c

\* Without removals, every probe loop ends in a table that is below its growth
\* limit: the limit leaves an EMPTY slot in a vector each probe loads, the
\* sentinel behind the last slot notwithstanding.
NoHang ==
  status = "hung" => Capacity = MAX_SIZE \/ Count >= CountGrowthLimit

\* A probe loop runs on for ever only when no slot is EMPTY any more, but the
\* first LANES - 1, which a probe that starts within a vector never loads:
\* the jumps reach every vector of the table (lines 967, 1034, 1100).
HangOnlyWhenExhausted ==
  status = "hung" => \A s \in 0..(Capacity - 1) : tags[s] = EMPTY => s < LANES - 1

\* RUN_TEST(hm.Remove(1)); RUN_TEST(!hm.Contains(1)); (Application.cpp): a
\* key that was just removed is not in the table.
RemovedIsGone == [][\A k \in Keys : Remove(k) => k \notin StoredKeys']_vars
=============================================================================
