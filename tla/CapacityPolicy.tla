--------------------------- MODULE CapacityPolicy ---------------------------
(***************************************************************************)
(* How large the table is made and how full it may get.                    *)
(*                                                                         *)
(* A Mode of the source is the set of the capacities its AdjustCapacity    *)
(* can return, and the room ResizeOnlyEmpty adds; CapacityModes checks     *)
(* this reading against the arithmetic of every mode.                      *)
(***************************************************************************)
EXTENDS Integers, FiniteSetsExt

CONSTANTS
  Capacities,       \* what AdjustCapacity can return in this Mode
  ResizeOnlyEmpty,  \* mode == Mode::ResizeOnlyEmpty
  LoadFactors       \* the load factors given to max_load_factor, * LF_UNIT

LF_UNIT == 10000
DEF_LOAD_FACTOR == 9766
MIN_LOAD_FACTOR == 7500
MAX_LOAD_FACTOR == 9900

MIN_SIZE == Min(Capacities)
MAX_SIZE == Max(Capacities)

ASSUME CapacityAssumption ==
  /\ Capacities \subseteq Nat \ {0}
  /\ \E m \in Capacities : \A c \in Capacities : c <= m
  /\ ResizeOnlyEmpty \in BOOLEAN
  /\ LoadFactors \subseteq Nat

\* The number of slots a caller's size asks for.
Required(size) ==
  IF ResizeOnlyEmpty /\ size > MIN_SIZE
    THEN (size * LF_UNIT) \div MAX_LOAD_FACTOR
    ELSE size

AdjustCapacity(size) ==
  IF Required(size) >= MAX_SIZE
    THEN MAX_SIZE
    ELSE Min({c \in Capacities : c >= Required(size)})

\* A mutant of GrowthLimit: every slot may be used.
GrowthLimitFull(c, loadFactor) == c

GrowthLimit(c, loadFactor) ==
  IF c < MAX_SIZE THEN (c * loadFactor) \div LF_UNIT ELSE MAX_SIZE

=============================================================================
