---------------------------- MODULE SimdHashMap ----------------------------
(***************************************************************************)
(* The table of SimdHashCore with a client that keeps to what Add relies   *)
(* on, and the claim that the table is a dictionary (MapSpec) then.        *)
(*                                                                         *)
(* Add stops at the first vector with a tombstone, so it does not see a    *)
(* copy of its key further on: the client adds a key that may be stored    *)
(* only if it has not removed a key since it added that one, or if there   *)
(* is no tombstone (after Rehash, Clear or growth).  AddUnique is for keys *)
(* that are not stored.  Bench of BenchHash.h is such a client: TEST2      *)
(* adds again only keys it has added since its last removal.               *)
(***************************************************************************)
EXTENDS SimdHashCore

VARIABLE fresh   \* the client's: the keys added since its last removal

Tombstones == {s \in DOMAIN tags : tags[s] = TOMBSTONE}

MayAdd(k) == k \in StoredKeys => k \in fresh \/ Tombstones = {}

MapInit == Init /\ fresh = {}

MapNext ==
  \/ \E k \in Keys, v \in Values :
       /\ MayAdd(k) /\ CheckedAdds(k, v)
       /\ fresh' = fresh \cup {k}
  \/ \E k \in Keys, v \in Values :
       /\ k \notin StoredKeys /\ UniqueAdds(k, v)
       /\ fresh' = fresh \cup {k}
  \/ OtherCalls /\ fresh' = IF ret'.op = "Remove" THEN {} ELSE fresh
  \/ RehashLoop /\ UNCHANGED fresh

mapVars == <<vars, fresh>>

MapSpecification == MapInit /\ [][MapNext]_mapVars

-----------------------------------------------------------------------------
HeldKeys == {e.key : e \in Contents}

Dictionary ==
  [k \in HeldKeys |-> (CHOOSE e \in Contents : e.key = k).value]

Abstract == INSTANCE MapSpec WITH dict <- Dictionary

\* Every call answers as the dictionary does, and a rehash in progress is not
\* visible in it.
ImplementsMap == Abstract!Spec

\* No key is in the table twice, in the slots in use, in the ones a rehash
\* has not moved yet and in the entry it carries taken together.
NoDuplicates ==
  /\ \A s, t \in FullSlots : entries[s].key = entries[t].key => s = t
  /\ \A s, t \in PendingSlots : entries[s].key = entries[t].key => s = t
  /\ \A s \in FullSlots, t \in PendingSlots : entries[s].key # entries[t].key
  /\ carried # None =>
       \A s \in FullSlots \cup PendingSlots :
         entries[s].key # carried.entry.key
=============================================================================
