------------------------------ MODULE MapSpec ------------------------------
(***************************************************************************)
(* What MZ::SimdHash::Map promises: a dictionary.  Capacity, load factor,  *)
(* tags, tombstones and rehashes are not visible here; a call that changes *)
(* only them changes nothing.  A call whose search never ends, or that     *)
(* aborts, is no step.                                                     *)
(***************************************************************************)
CONSTANTS Keys, Values, None

VARIABLES
  dict,   \* [a subset of Keys -> Values]
  ret     \* the last call, its arguments and its result

vars == <<dict, ret>>

Stored(k) == k \in DOMAIN dict

With(k, v) == [x \in DOMAIN dict \cup {k} |-> IF x = k THEN v ELSE dict[x]]

Without(k) == [x \in DOMAIN dict \ {k} |-> dict[x]]

Answer(op, k, v, out) ==
  ret' = [op |-> op, key |-> k, value |-> v, out |-> out]

TypeOK == dict \in UNION {[D -> Values] : D \in SUBSET Keys}

Init ==
  /\ dict = [k \in {} |-> None]
  /\ ret = [op |-> "Core", key |-> None, value |-> None, out |-> None]

\* A stored key is refused, and keeps its value.
Add(k, v) ==
  /\ Answer("Add", k, v, ~Stored(k))
  /\ dict' = IF Stored(k) THEN dict ELSE With(k, v)

AddOrUpdate(k, v) ==
  /\ Answer("AddOrUpdate", k, v, ~Stored(k))
  /\ dict' = With(k, v)

AddUnique(k, v) ==
  /\ ~Stored(k)
  /\ Answer("AddUnique", k, v, TRUE)
  /\ dict' = With(k, v)

Find(k) ==
  /\ Answer("Find", k, None, IF Stored(k) THEN dict[k] ELSE None)
  /\ UNCHANGED dict

Remove(k) ==
  /\ Answer("Remove", k, None, Stored(k))
  /\ dict' = Without(k)

Clear ==
  /\ Answer("Clear", None, None, None)
  /\ dict' = [k \in {} |-> None]

Housekeeping ==
  /\ \E op \in {"Rehash", "Resize", "max_load_factor"} :
       Answer(op, None, None, None)
  /\ UNCHANGED dict

Next ==
  \/ \E k \in Keys, v \in Values :
       Add(k, v) \/ AddOrUpdate(k, v) \/ AddUnique(k, v)
  \/ \E k \in Keys : Find(k) \/ Remove(k)
  \/ Clear
  \/ Housekeeping

Spec == Init /\ [][Next]_vars
=============================================================================
