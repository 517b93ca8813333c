-------------------------- MODULE SimdHashIterator --------------------------
(***************************************************************************)
(* ConstIterator of SimdHash.h over a Map or Set, in a loop whose body     *)
(* calls the table it walks.                                               *)
(*                                                                         *)
(* The iterator keeps the mask of the vector it is in, and walks its bits; *)
(* it knows neither of removals nor of a rehash behind its back.  The loop *)
(* is a range-for, which computes end() once, or it compares with end()    *)
(* each time.  It leaves when the two positions are equal; beyond the last *)
(* slot without that, it reads outside the table: "wild".                  *)
(***************************************************************************)
EXTENDS SimdHashMap

CONSTANT VECTOR   \* TagVectorIterator::SIZE: 16, 32 or 64 in the source

VisitBound == 2   \* visits of a key are counted up to here

\* a loop, as it is kept in `it`
Loops ==
  [idx : Nat, base : Nat, mask : SUBSET (0..(VECTOR - 1)),
   last : Nat \cup {None},
   visits : UNION {[K -> 0..VisitBound] : K \in SUBSET Keys},
   everIn : SUBSET Keys]

ASSUME VectorAssumption ==
  /\ VECTOR \in Nat \ {0} /\ \A c \in Capacities : c % VECTOR = 0
  /\ None \notin Nat \cup Loops

VARIABLE it   \* the loop, None outside of one: the iterator's idx, base and
              \* mask, the loop's end (None if it asks each time), and its
              \* history: how often the entries that have stayed in their
              \* slots were visited, and the keys held since it began

iterVars == <<mapVars, it>>

\* A mutant of CalcMask: a tombstone counts as an entry.
CalcMaskUsed(b) == {l \in 0..(VECTOR - 1) : tags[b + l] # EMPTY}

\* GetNonEmptyMask of the vector at b
CalcMask(b) == {l \in 0..(VECTOR - 1) : IsFull(tags[b + l])}

\* A mutant of Bases: the iterator's vector is one of the table's.
BasesShort(b) == {x \in b..(Capacity + VECTOR) : (x - b) % LANES = 0}

\* A mutant of Bases: every second vector is left out.
BasesWide(b) == {x \in b..(Capacity + 2 * VECTOR) : (x - b) % (2 * VECTOR) = 0}

\* What _base comes to, from b on: the vectors of the table and the first one
\* behind it.
Bases(b) == {x \in b..(Capacity + VECTOR) : (x - b) % VECTOR = 0}

\* A mutant of LanesLeft: the bit of the entry is not reset.
LanesKept(mask) == mask

\* ResetLowestSetBit
LanesLeft(mask) == mask \ {Min(mask)}

At(b, mask) == [idx |-> b + Min(mask), base |-> b, mask |-> LanesLeft(mask)]

\* The loop of Seek over these bases: the first vector that holds an entry, or
\* the first position that is not in the table.
SeekFrom(bases) ==
  LET b == Min({x \in bases : x >= Capacity \/ CalcMask(x) # {}})
  IN  IF b >= Capacity THEN [idx |-> b, base |-> b, mask |-> {}]
                       ELSE At(b, CalcMask(b))

Seek(i) ==
  IF i.mask # {} THEN At(i.base, i.mask) ELSE SeekFrom(Bases(i.base) \ {i.base})

\* The constructor of begin()
BeginAt ==
  IF Count # 0 THEN SeekFrom(Bases(0)) ELSE [idx |-> 0, base |-> 0, mask |-> {}]

\* end()
EndIdx == IF Count # 0 THEN Capacity ELSE 0

\* The test of the loop and, when it goes on, *it: i is the new position of a
\* loop with end last and history h.
Visit(i, last, h) ==
  LET k    == entries[i.idx].key
      stop == IF last = None THEN EndIdx ELSE last
  IN  \/ /\ i.idx = stop
         /\ it' = None
         /\ UNCHANGED mapVars
      \/ /\ i.idx # stop /\ i.idx \in DOMAIN entries
         /\ it' = [idx |-> i.idx, base |-> i.base, mask |-> i.mask, last |-> last,
                   visits |-> [x \in DOMAIN h.visits |->
                                 IF x = k THEN Min({h.visits[x] + 1, VisitBound})
                                          ELSE h.visits[x]],
                   everIn |-> h.everIn]
         /\ UNCHANGED mapVars
      \/ /\ i.idx # stop /\ i.idx \notin DOMAIN entries
         /\ status' = "wild"
         /\ UNCHANGED <<table, maxLoadFactor, loop, ret, fresh, it>>

Begin(last) ==
  /\ status = "idle" /\ it = None
  /\ Visit(BeginAt, last, [visits |-> [k \in HeldKeys |-> 0], everIn |-> HeldKeys])

\* operator++, the test and operator*
Advance ==
  /\ status = "idle" /\ it # None
  /\ Visit(Seek(it), it.last, it)

\* The history of a loop through a step of the table.
Remember ==
  LET stayed == IF status' = "rehash" THEN {} ELSE DOMAIN it.visits \cap HeldKeys'
  IN  it' = IF it = None THEN None
            ELSE [it EXCEPT !.visits = [k \in stayed |-> it.visits[k]],
                            !.everIn = @ \cup HeldKeys']

\* A call of the loop's body, or of the client between two loops.
Call == MapNext /\ Remember

IterInit == MapInit /\ it = None

IterNext ==
  \/ Begin(EndIdx)
  \/ Begin(None)
  \/ Advance
  \/ Call

\* The body of a loop makes finitely many calls before the loop goes on, and a
\* rehash runs until it ends.
IterSpec ==
  /\ IterInit /\ [][IterNext]_iterVars
  /\ SF_iterVars(Advance)
  /\ WF_iterVars(RehashLoop /\ UNCHANGED fresh /\ Remember)

-----------------------------------------------------------------------------
\* A loop that leaves at its end has visited every entry that stayed in its
\* slot exactly once, whatever was added and removed meanwhile (begin, Seek
\* and end, lines 1131 to 1221); only a rehash moves entries.
VisitsEachOnce ==
  [][it # None /\ it' = None => \A k \in DOMAIN it.visits : it.visits[k] = 1]_iterVars

\* Stale as the mask may be, the loop never shows an entry that has not been
\* in the table since it began: removed ones and moved ones, but none older.
VisitsOnlyHeld ==
  [][it # None /\ it' # None /\ <<it'.idx, it'.mask>> # <<it.idx, it.mask>>
       => entries[it'.idx].key \in it.everIn]_iterVars

\* A range-for runs past the table only if the table has grown in its body;
\* one that asks for end() each time, only when the last entry was removed.
WildOnlyByGrowthOrEmptying ==
  status = "wild" => \/ it.last # None /\ it.last < Capacity
                     \/ it.last = None /\ Count = 0

\* Every loop comes to an end although its body adds, removes, rehashes and
\* grows the table without limit, for each vector is looked at once (Seek, lines
\* 1179 to 1207): at its end, past the table, or in a call that does not return.
LoopEnds == it # None ~> it = None \/ status = "wild" \/ status = "hung"
=============================================================================
