-------------------------- MODULE MCSimdHashIndex --------------------------
(***************************************************************************)
(* Instances of SimdHashIndex for TLC: the keys of a group have equal hash *)
(* values, those of all groups meet in every table, and GroupB shares its  *)
(* tag with GroupA.                                                        *)
(***************************************************************************)
EXTENDS SimdHashIndex, TLC

CONSTANTS GroupA, GroupB, GroupC

MCKeys == GroupA \cup GroupB \cup GroupC

HashOf(k) == CASE k \in GroupA -> 1 [] k \in GroupB -> 7 [] k \in GroupC -> 6

MCHome == [k \in Keys |-> [c \in Capacities |-> HashOf(k) % c]]

MCTagOf == [k \in Keys |-> IF k \in GroupC THEN 6 ELSE 5]

Symmetry ==
  Permutations(GroupA) \cup Permutations(GroupB) \cup Permutations(GroupC)

\* What the next steps depend on: not the last answer, nor the positions in
\* slots that are not in use, nor the keys beyond the count.
View ==
  <<tags, [s \in {s \in 0..(TagsSize - 1) : IsFull(tags[s])} |-> realIndex[s]],
    DOMAIN realIndex, [i \in StoredIndices |-> KeyAt(i)], DOMAIN keys,
    sizes, Count, maxLoadFactor, status, cursor, faults>>
=============================================================================
