--------------------------- MODULE SimdHashIndex ---------------------------
(***************************************************************************)
(* Core<TKey, void, Type::Index, ...> of SimdHash.h, behind                *)
(* MZ::SimdHash::Index: the slots hold positions into a dense array of     *)
(* keys, kept in the order of arrival.  There is no Remove, and Rehash is  *)
(* not offered; growth places the keys again in their order.               *)
(*                                                                         *)
(* Probing is that of SimdHashCore, read through Table: a slot in use      *)
(* holds the key its realIndex leads to, and the index as its value.       *)
(*                                                                         *)
(* new may throw bad_alloc, at most MaxFaults times, and the client        *)
(* catches it.  A Resize that threw has set _Capacity already but not the  *)
(* tags: until they agree again (Usable) the client calls only Resize and  *)
(* Clear.  A probe that compares a slot whose key has no page reads outside*)
(* the pages: "wild", from where nothing is known.                         *)
(***************************************************************************)
EXTENDS ProbeSequence, CapacityPolicy

CONSTANTS
  Keys, Home, TagOf, Sizes, Calls, None,   \* as in SimdHashCore
  PAGE,        \* EntryArray::PageSize: 4096 in the source
  MaxFaults    \* bound: how often new throws

ASSUME IndexAssumption ==
  /\ PAGE \in Nat \ {0} /\ MaxFaults \in Nat
  /\ \A c \in Capacities : c % PAGE = 0 /\ c % LANES = 0
  /\ Home \in [Keys -> [Capacities -> Nat]]
  /\ TagOf \in [Keys -> HashTags]
  /\ Sizes \subseteq Nat /\ None \notin Keys

VARIABLES
  tags,             \* _tags, the sentinel included
  realIndex,        \* _entries.realIndex
  keys,             \* _entries, whole pages
  Capacity,         \* _Capacity
  Count,            \* _Count
  CountGrowthLimit, \* _CountGrowthLimit
  maxLoadFactor,    \* _max_load_factor
  status,           \* "idle", "rehash", "hung", "aborted" or "wild"
  cursor,           \* RehashInternal: realIndex of the loop
  faults,           \* how often new has thrown
  ret               \* the last call, its argument and its results

slots == <<tags, realIndex>>
sizes == <<Capacity, CountGrowthLimit>>
vars  == <<slots, keys, sizes, Count, maxLoadFactor, status, cursor, faults, ret>>

KeyAt(i) == IF i \in DOMAIN keys THEN keys[i] ELSE None

SlotEntries == [s \in DOMAIN realIndex |->
                  [key |-> KeyAt(realIndex[s]), value |-> realIndex[s]]]

Table == INSTANCE SimdHashCore WITH
  entries <- SlotEntries, Values <- Nat,
  prevTags <- [s \in {} |-> EMPTY], prevSize <- 0, prevCount <- 0,
  carried <- None

\* _tags.size(), 0 after TagArray::Clear
TagsSize == IF DOMAIN tags = {} THEN 0 ELSE Cardinality(DOMAIN tags) - LANES

Usable == TagsSize = Capacity

\* EntryArray::AdjustSize: whole pages, those so far are kept
Pages(e, n, fill) ==
  [i \in 0..(((n + PAGE - 1) \div PAGE) * PAGE - 1) |->
     IF i \in DOMAIN e THEN e[i] ELSE fill]

-----------------------------------------------------------------------------
(* How a call ends.                                                        *)

Returns(op, k, out, index) ==
  ret' = [op |-> op, key |-> k, out |-> out, index |-> index]

\* A call that does not return.
Ends(how) == status' = how /\ UNCHANGED <<slots, keys, sizes, Count,
                                          maxLoadFactor, cursor, faults, ret>>

\* A call that only answers.
Reads == UNCHANGED <<slots, keys, sizes, Count, maxLoadFactor, status, cursor,
                     faults>>

Throws == faults < MaxFaults /\ faults' = faults + 1

\* The comparison of k with a slot that has its tag but no page of keys, before
\* the loop finds k or one of its reasons to stop (stops, a set of steps).
Wild(k, stops) ==
  \E i \in ProbeSteps(Capacity) :
    LET p == Table!Position(k, i)
    IN  /\ \A j \in stops : i <= j
        /\ \A j \in Table!HitSteps(k) : i <= j
        /\ \E l \in VisitedLanes(GetCmpMask(tags, p, TagOf[k])) :
             /\ realIndex[p + l] \notin DOMAIN keys
             /\ \A m \in Table!HitLanes(k, i) : l < m

-----------------------------------------------------------------------------
(* Resize.  w is the table as the caller leaves it: tags, realIndex, keys  *)
(* and count; a is the caller's answer: op, key, out and index.            *)

Stores(w) ==
  /\ tags' = w.tags /\ realIndex' = w.realIndex
  /\ keys' = w.keys /\ Count' = w.count

AsIs == [tags |-> tags, realIndex |-> realIndex, keys |-> keys, count |-> Count]

Sized(c) == Capacity' = c /\ CountGrowthLimit' = GrowthLimit(c, maxLoadFactor)

\* A mutant of SameSize: the table was resized if _Capacity says so.
SameCapacity(c, t) == c = Capacity

\* _Capacity == _tags.size(), after InitCapacity
SameSize(c, t) == DOMAIN t = 0..(c + LANES - 1)

\* assert(_Count == 0) of the mode, assert(size > _size) of EntryArray
Refused(c, w) ==
  \/ ResizeOnlyEmpty /\ w.count # 0
  \/ ~SameSize(c, w.tags) /\ c - 1 \in DOMAIN w.realIndex

\* A mutant of StartReinsert: the first key is taken for placed.
StartReinsertLate == status' = "rehash" /\ cursor' = 1

StartReinsert == status' = "rehash" /\ cursor' = 0

\* from InitCapacity on
ResizeTo(c, w, a) ==
  \/ /\ Refused(c, w)
     /\ Ends("aborted")
  \/ /\ ~Refused(c, w) /\ SameSize(c, w.tags)
     /\ Stores(w) /\ Sized(c)
     /\ Returns(a.op, a.key, a.out, a.index)
     /\ UNCHANGED <<maxLoadFactor, status, cursor, faults>>
  \/ /\ ~Refused(c, w) /\ ~SameSize(c, w.tags)
     /\ Throws                              \* realIndex.AdjustSize
     /\ Stores(w) /\ Sized(c)
     /\ Returns(a.op, a.key, "bad_alloc", a.index)
     /\ UNCHANGED <<maxLoadFactor, status, cursor>>
  \/ /\ ~Refused(c, w) /\ ~SameSize(c, w.tags)
     /\ Stores([w EXCEPT !.tags = Table!FreshTags(c),
                         !.realIndex = Pages(w.realIndex, c, 0)])
     /\ Sized(c)
     /\ Returns(a.op, a.key, a.out, a.index)
     /\ IF w.count # 0 THEN StartReinsert ELSE UNCHANGED <<status, cursor>>
     /\ UNCHANGED <<maxLoadFactor, faults>>

ResizeFrom(size, w, a) ==
  \/ /\ Capacity > AdjustCapacity(size)
     /\ Stores(w)
     /\ Returns(a.op, a.key, a.out, a.index)
     /\ UNCHANGED <<sizes, maxLoadFactor, status, cursor, faults>>
  \/ /\ Capacity <= AdjustCapacity(size)
     /\ ResizeTo(AdjustCapacity(size), w, a)

Resize(size) ==
  /\ status = "idle"
  /\ ResizeFrom(size, AsIs,
                [op |-> "Resize", key |-> None, out |-> None, index |-> None])

\* A mutant of Cleared: the tags are not initialised.
ClearedCount == [AsIs EXCEPT !.count = 0]

\* A mutant of Cleared: the keys are given up in place of the tags.
ClearedKeys == [AsIs EXCEPT !.keys = [i \in {} |-> None], !.count = 0]

\* TagArray::Init
Cleared == [AsIs EXCEPT !.tags = Table!FreshTags(TagsSize), !.count = 0]

\* A mutant of Released: the count is kept.
ReleasedKept == [AsIs EXCEPT !.tags = Table!NoTags]

Released == [AsIs EXCEPT !.tags = Table!NoTags, !.count = 0]

\* Clear(size) of another capacity gives the tags up before it resizes.
Clear(size) ==
  LET c == AdjustCapacity(size)
      a == [op |-> "Clear", key |-> None, out |-> None, index |-> None]
  IN  /\ status = "idle"
      /\ \/ /\ size > 0 /\ c # Capacity
            /\ ResizeTo(c, Released, a)
         \/ /\ size = 0 \/ c = Capacity
            /\ TagsSize = 0                 \* writes through a null _ptr
            /\ Ends("wild")
         \/ /\ size = 0 \/ c = Capacity
            /\ TagsSize # 0
            /\ Stores(Cleared)
            /\ Returns("Clear", None, None, None)
            /\ UNCHANGED <<sizes, maxLoadFactor, status, cursor, faults>>

SetMaxLoadFactor(mlf) ==
  LET kept == IF mlf \in MIN_LOAD_FACTOR..MAX_LOAD_FACTOR
                THEN mlf ELSE maxLoadFactor
  IN  /\ status = "idle" /\ Usable
      /\ maxLoadFactor' = kept
      /\ CountGrowthLimit' = GrowthLimit(Capacity, kept)
      /\ Returns("max_load_factor", None, None, None)
      /\ UNCHANGED <<slots, keys, Capacity, Count, status, cursor, faults>>

-----------------------------------------------------------------------------
(* The calls on a key.                                                     *)

\* Contains and TryGetIndex
TryGetIndex(k) ==
  LET stops == Table!EmptySteps(k)
  IN  /\ status = "idle" /\ Usable
      /\ \/ /\ Wild(k, stops)
            /\ Ends("wild")
         \/ /\ ~Wild(k, stops) /\ Table!Hangs(k, stops)
            /\ Ends("hung")
         \/ /\ ~Wild(k, stops) /\ Table!Hits(k, stops)
            /\ Returns("TryGetIndex", k, "true", realIndex[Table!HitSlot(k)])
            /\ Reads
         \/ /\ ~Wild(k, stops)
            /\ ~Table!Hangs(k, stops) /\ ~Table!Hits(k, stops)
            /\ Returns("TryGetIndex", k, "false", None)
            /\ Reads

\* A mutant of NewPage: the array has one key more than it holds.
NewPageLate == Count = Cardinality(DOMAIN keys) + 1

\* realIndex == _entries.size()
NewPage == Count = Cardinality(DOMAIN keys)

\* Only TryAdd, of Add<false, true>, tells the index.
Told(op, index) == IF op = "TryAdd" THEN index ELSE None

\* The tail of Add: the tag and the position are written before the page of
\* the key is there.
Insert(op, k) ==
  LET s == Table!VacantSlot(k)
      w == [AsIs EXCEPT !.tags[s] = TagOf[k], !.realIndex[s] = Count]
      a == [op |-> op, key |-> k, out |-> "true", index |-> Told(op, Count)]
      grown == IF NewPage THEN Pages(keys, Count + 1, None) ELSE keys
      full  == [w EXCEPT !.keys = [grown EXCEPT ![Count] = k],
                         !.count = Count + 1]
  IN  \/ /\ NewPage /\ Throws              \* _entries.AdjustSize
         /\ Stores(w)
         /\ Returns(op, k, "bad_alloc", None)
         /\ UNCHANGED <<sizes, maxLoadFactor, status, cursor>>
      \/ /\ Count + 1 = CountGrowthLimit
         /\ ResizeFrom(Capacity + 1, full, a)
      \/ /\ Count + 1 # CountGrowthLimit
         /\ Stores(full)
         /\ Returns(op, k, "true", a.index)
         /\ UNCHANGED <<sizes, maxLoadFactor, status, cursor, faults>>

\* Add<false, false> and, as TryAdd, Add<false, true>
AddChecked(op, k) ==
  LET stops == Table!VacantSteps(k)
  IN  /\ status = "idle" /\ Usable
      /\ \/ /\ Wild(k, stops)
            /\ Ends("wild")
         \/ /\ ~Wild(k, stops) /\ Table!Hangs(k, stops)
            /\ Ends("hung")
         \/ /\ ~Wild(k, stops) /\ Table!Hits(k, stops)
            /\ Returns(op, k, "false", Told(op, realIndex[Table!HitSlot(k)]))
            /\ Reads
         \/ /\ ~Wild(k, stops)
            /\ ~Table!Hangs(k, stops) /\ ~Table!Hits(k, stops)
            /\ Insert(op, k)

\* Add<true, false>: the caller vouches that k is not in the index
AddUnique(k) ==
  /\ status = "idle" /\ Usable
  /\ \A i \in 0..(Count - 1) : KeyAt(i) # k
  /\ \/ /\ Table!VacantSteps(k) = {}
        /\ Ends("hung")
     \/ /\ Table!VacantSteps(k) # {}
        /\ Insert("AddUnique", k)

-----------------------------------------------------------------------------
(* RehashInternal of an Index.                                             *)

Reinsert ==
  /\ status = "rehash" /\ cursor < Count
  /\ IF Table!EmptySteps(keys[cursor]) = {}
       THEN Ends("hung")
       ELSE LET s == Table!FindEmpty(keys[cursor])
            IN  /\ tags' = [tags EXCEPT ![s] = TagOf[keys[cursor]]]
                /\ realIndex' = [realIndex EXCEPT ![s] = cursor]
                /\ cursor' = cursor + 1
                /\ UNCHANGED <<keys, sizes, Count, maxLoadFactor, status,
                               faults, ret>>

ReinsertDone ==
  /\ status = "rehash" /\ cursor = Count
  /\ status' = "idle" /\ cursor' = 0
  /\ UNCHANGED <<slots, keys, sizes, Count, maxLoadFactor, faults, ret>>

-----------------------------------------------------------------------------
Init ==
  /\ Capacity = AdjustCapacity(MIN_SIZE)
  /\ CountGrowthLimit = GrowthLimit(Capacity, DEF_LOAD_FACTOR)
  /\ tags = Table!FreshTags(Capacity)
  /\ realIndex = [s \in 0..(Capacity - 1) |-> 0]
  /\ keys = [i \in {} |-> None]
  /\ Count = 0
  /\ maxLoadFactor = DEF_LOAD_FACTOR
  /\ status = "idle" /\ cursor = 0 /\ faults = 0
  /\ ret = [op |-> "Core", key |-> None, out |-> None, index |-> None]

Next ==
  \/ \E k \in Keys : AddChecked("Add", k)
  \/ \E k \in Keys : "TryAdd" \in Calls /\ AddChecked("TryAdd", k)
  \/ \E k \in Keys : "AddUnique" \in Calls /\ AddUnique(k)
  \/ \E k \in Keys : "TryGetIndex" \in Calls /\ TryGetIndex(k)
  \/ \E size \in Sizes : Resize(size)
  \/ \E size \in Sizes : "Clear" \in Calls /\ Clear(size)
  \/ \E mlf \in LoadFactors : SetMaxLoadFactor(mlf)
  \/ Reinsert
  \/ ReinsertDone

Spec == Init /\ [][Next]_vars

-----------------------------------------------------------------------------
(* Properties.                                                             *)

StoredIndices == 0..(Count - 1)

Abstract == INSTANCE IndexSpec WITH
  order <- [i \in 1..Count |-> keys[i - 1]]

\* Every call answers as the list of the keys in the order of their arrival
\* does: an index once told stays that key's through growth, and a failed
\* allocation costs at most the key that was being added.
ImplementsIndex == Abstract!Spec

\* The state of the index; the positions and the pages only grow, the tags may
\* lag behind _Capacity after a failed Resize.
TypeOK ==
  /\ Capacity \in Capacities /\ TagsSize \in Capacities \cup {0}
  /\ tags \in [DOMAIN tags -> Tags]
  /\ realIndex \in [DOMAIN realIndex -> Nat]
  /\ 0..(TagsSize - 1) \subseteq DOMAIN realIndex
  /\ keys \in [DOMAIN keys -> Keys \cup {None}]
  /\ Cardinality(DOMAIN keys) % PAGE = 0
  /\ \A i \in StoredIndices : i \in DOMAIN keys /\ keys[i] \in Keys
  /\ status \in {"idle", "rehash", "hung", "aborted", "wild"}
  /\ cursor \in 0..Count

\* A search for a stored key finds its index, through growth and failed
\* allocations, unless it first compares a slot that a failed Add left behind.
IndexFound ==
  status = "idle" /\ Usable =>
    \A i \in StoredIndices :
      LET stops == Table!EmptySteps(keys[i])
      IN  \/ Wild(keys[i], stops)
          \/ Table!Hits(keys[i], stops)
             /\ realIndex[Table!HitSlot(keys[i])] = i

\* Without a failed allocation the slots in use and the keys are one to one.
\* A failed Add leaves a slot whose position is that of the next key: it leads
\* nowhere only until that key arrives.
SlotsLeadToKeys ==
  LET used == {s \in 0..(TagsSize - 1) : IsFull(tags[s])}
  IN  /\ status = "idle" /\ Usable /\ faults = 0
           => Cardinality(used) = Count
              /\ {realIndex[s] : s \in used} = StoredIndices
      /\ \A s \in used : realIndex[s] > Count - 1
           => realIndex[s] = Count /\ faults > 0

\* Reading outside the pages of keys takes an Add that could not allocate the
\* page of its key, or a Clear that could not allocate the positions.
WildOnlyAfterFault == status = "wild" => faults > 0

\* Calling Resize again after it threw repairs the table: _Capacity and the
\* tags agree, and (IndexFound) every key is found in it.  A size below the
\* _Capacity that was set returns early and repairs nothing.
RetryRepairs ==
  [][\A size \in Sizes :
       Resize(size) /\ AdjustCapacity(size) >= Capacity
         /\ status' # "aborted" /\ ret'.out # "bad_alloc"
       => TagsSize' = Capacity']_vars
=============================================================================
