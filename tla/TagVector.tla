----------------------------- MODULE TagVector -----------------------------
(***************************************************************************)
(* One SIMD vector of tags: the tag bytes, the masks the table computes    *)
(* from LANES consecutive tags, and the walk over the bits of a mask.      *)
(*                                                                         *)
(* A mask is the set of the lanes whose bit is set.  That the byte tricks  *)
(* of the source (and with FORBIDDEN, compare with EMPTY) select exactly   *)
(* these lanes is checked over all the bytes in TagBits.                   *)
(***************************************************************************)
EXTENDS Integers, FiniteSetsExt

CONSTANTS
  LANES,            \* TagVector::SIZE: 16 in the table, small in the models
  MistestedLanes    \* lanes whose bit TrailingZeroCount tests wrongly:
                    \* {12} in the bFix build, {} in the default one

ASSUME LanesAssumption ==
  /\ LANES \in Nat \ {0}
  /\ MistestedLanes \subseteq 0..(LANES - 1)

Lanes == 0..(LANES - 1)

EMPTY     == 128   \* 0x80, never used since the last Init
TOMBSTONE == 129   \* 0x81, used and removed
FORBIDDEN == 130   \* 0x82, the sentinel behind the last slot

HashTags == 0..127 \* the 7 bits HashToTag keeps: a slot in use

Tags == HashTags \cup {EMPTY, TOMBSTONE, FORBIDDEN}

\* ~(tag & EMPTY), the test RehashInternal and the iterator use
IsFull(tag) == tag \in HashTags

\* The masks of the vector loaded at tags + p.
GetCmpMask(tags, p, tag) == {l \in Lanes : tags[p + l] = tag}

GetEmptyMask(tags, p) == {l \in Lanes : tags[p + l] = EMPTY}

\* A mutant of GetEmptyOrTomeStoneMask: tested by the sign bit alone.
GetNotFullMask(tags, p) == {l \in Lanes : ~IsFull(tags[p + l])}

GetEmptyOrTomeStoneMask(tags, p) ==
  {l \in Lanes : tags[p + l] \in {EMPTY, TOMBSTONE}}

(***************************************************************************)
(* The bFix chain tests bit 11 a second time where it should test bit 12,  *)
(* so when lane 12 is the lowest lane of the mask and a higher one follows *)
(* it answers the higher one; alone, lane 12 falls through to _tzcnt_u32,  *)
(* which finds it.                                                         *)
(***************************************************************************)
TrailingZeroCount(mask) ==
  LET lowest == Min(mask)
      rest   == mask \ {lowest}
  IN  IF lowest \in MistestedLanes /\ rest # {} THEN Min(rest) ELSE lowest

(***************************************************************************)
(* while (mask) { lane = TrailingZeroCount(mask); ...;                     *)
(*                mask = ResetLowestSetBit(mask); }                        *)
(* visits every lane of the mask in increasing order, but a mistested lane *)
(* with a higher one behind it: there it visits the higher one twice.      *)
(***************************************************************************)
\* A mutant of VisitedLanes: if instead of while.
FirstLaneOnly(mask) == {l \in mask : \A m \in mask : l <= m}

VisitedLanes(mask) ==
  {l \in mask : l \in MistestedLanes => \A m \in mask : m <= l}

=============================================================================
