------------------------- MODULE MCSimdHashIterator -------------------------
(* Instances of SimdHashIterator for TLC, with the keys of MCSimdHashCore. *)
EXTENDS SimdHashIterator, MCSimdHashMap

\* As MapView, with the loop and the entries its mask still leads to.
IterView ==
  <<MapView, it,
    IF it = None THEN {}
                 ELSE [s \in {it.base + l : l \in it.mask} |-> entries[s]]>>
=============================================================================
