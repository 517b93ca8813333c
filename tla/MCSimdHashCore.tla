--------------------------- MODULE MCSimdHashCore ---------------------------
(***************************************************************************)
(* Instances of SimdHashCore for TLC.  Keys come in four groups of keys    *)
(* with equal hash values, so the keys of a group can be exchanged: those  *)
(* of GroupA and GroupB meet in every table of a power of two, those of    *)
(* GroupB, GroupC and GroupD have one tag, and GroupC and GroupD start in  *)
(* other vectors.  GroupD has one home in tables of 4, 6 and 8: keys that  *)
(* fill slots 2, 3 and 0 of a table of 4 are moved, in place or for a      *)
(* larger one, each to the slot of the next.                               *)
(***************************************************************************)
EXTENDS SimdHashCore, TLC

CONSTANTS GroupA, GroupB, GroupC, GroupD

MCKeys == GroupA \cup GroupB \cup GroupC \cup GroupD

HashOf(k) ==
  CASE k \in GroupA -> 1  [] k \in GroupB -> 33
    [] k \in GroupC -> 6  [] k \in GroupD -> 26

MCHome == [k \in Keys |-> [c \in Capacities |-> HashOf(k) % c]]

MCTagOf == [k \in Keys |-> IF k \in GroupA THEN 5 ELSE 6]

Symmetry ==
  Permutations(GroupA) \cup Permutations(GroupB)
    \cup Permutations(GroupC) \cup Permutations(GroupD)

\* What the next steps depend on: a result is never read again, nor is the
\* entry of a slot that is not in use.
View ==
  <<tags, [s \in FullSlots |-> entries[s]],
    [s \in PendingSlots |-> entries[s]],
    Capacity, Count, CountGrowthLimit, maxLoadFactor, status, loop>>
=============================================================================
