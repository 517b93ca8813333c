----------------------------- MODULE IndexSpec -----------------------------
(***************************************************************************)
(* What MZ::SimdHash::Index promises: the keys in the order of their       *)
(* arrival, each with its position in that order as its index.  A key      *)
(* keeps its index until Clear.  An allocation that fails ends a call with *)
(* an exception: the key of an Add is then in the index or it is not, and  *)
(* nothing else has changed.                                               *)
(***************************************************************************)
EXTENDS Naturals, Sequences

CONSTANTS Keys, None

VARIABLES
  order,   \* the keys, oldest first
  ret      \* the last call, its argument and its results

vars == <<order, ret>>

Stored(k) == \E i \in DOMAIN order : order[i] = k

IndexOf(k) == (CHOOSE i \in DOMAIN order : order[i] = k) - 1

Answer(op, k, out, index) ==
  ret' = [op |-> op, key |-> k, out |-> out, index |-> index]

Init ==
  /\ order = <<>>
  /\ ret = [op |-> "Core", key |-> None, out |-> None, index |-> None]

\* Only TryAdd tells the index.
Told(op, index) == IF op = "TryAdd" THEN index ELSE None

Known(op, k) ==
  /\ op # "AddUnique" /\ Stored(k)
  /\ Answer(op, k, "false", Told(op, IndexOf(k)))
  /\ UNCHANGED order

New(op, k) ==
  /\ ~Stored(k)
  /\ Answer(op, k, "true", Told(op, Len(order)))
  /\ order' = Append(order, k)

Failed(op, k) ==
  /\ ~Stored(k)
  /\ \/ /\ Answer(op, k, "bad_alloc", None)
        /\ UNCHANGED order
     \/ /\ Answer(op, k, "bad_alloc", Told(op, Len(order)))
        /\ order' = Append(order, k)

TryGetIndex(k) ==
  /\ Answer("TryGetIndex", k, IF Stored(k) THEN "true" ELSE "false",
            IF Stored(k) THEN IndexOf(k) ELSE None)
  /\ UNCHANGED order

Clear ==
  /\ \E out \in {None, "bad_alloc"} : Answer("Clear", None, out, None)
  /\ order' = <<>>

Housekeeping ==
  /\ \E op \in {"Resize", "max_load_factor"}, out \in {None, "bad_alloc"} :
       Answer(op, None, out, None)
  /\ UNCHANGED order

Next ==
  \/ \E op \in {"Add", "AddUnique", "TryAdd"}, k \in Keys :
       Known(op, k) \/ New(op, k) \/ Failed(op, k)
  \/ \E k \in Keys : TryGetIndex(k)
  \/ Clear
  \/ Housekeeping

Spec == Init /\ [][Next]_vars
=============================================================================
