------------------------------ MODULE TagBits ------------------------------
(***************************************************************************)
(* The bits behind TagVector: the byte tests the masks are computed with,  *)
(* and the loop over the set bits of a comparison mask,                    *)
(*                                                                         *)
(*   while (resultMask) { ... TrailingZeroCount<bFix>(resultMask) ...      *)
(*                        resultMask = ResetLowestSetBit(resultMask); }    *)
(*                                                                         *)
(* as FindEntry and Add run it, with masks as numbers.  TagVector states   *)
(* what of this the table's model uses; the properties relate the two.     *)
(***************************************************************************)
EXTENDS TagVector, Bitwise

CONSTANTS
  bFix,      \* the template parameter of TrailingZeroCount
  MaxLanes   \* a mask of at most so many lanes is walked

VARIABLES
  byte,      \* one stored tag
  hits,      \* the lanes that compare equal
  mask,      \* resultMask
  visited    \* the lanes looked at so far

vars == <<byte, hits, mask, visited>>

Bit(l) == 2^l

MaskOf(lanes) == FoldSet(LAMBDA l, sum : Bit(l) + sum, 0, lanes)

ResetLowestSetBit(m) == m & (m - 1)

\* _tzcnt_u32 of a mask that is not 0
tzcnt(m) == Min({l \in Lanes : (m & Bit(l)) # 0})

\* A mutant of FixChain: bit 12 is tested where the answer is 12.
StraightChain == [i \in 0..15 |-> <<Bit(i), i>>]

\* The chain of tests of the bFix build, in its order: <<bit, answer>>.
FixChain ==
  [i \in 0..15 |-> IF i = 12 THEN <<Bit(11), 12>> ELSE <<Bit(i), i>>]

BitOfMask(m) ==
  LET taken == {i \in 0..15 : (m & FixChain[i][1]) # 0}
  IN  IF bFix /\ taken # {} THEN FixChain[Min(taken)][2] ELSE tzcnt(m)

Init ==
  /\ \/ byte \in Tags /\ hits = {0}
     \/ byte = EMPTY /\ hits \in UNION {kSubset(n, Lanes) : n \in 1..MaxLanes}
  /\ mask = MaskOf(hits)
  /\ visited = {}

\* one round of the loop
Next ==
  /\ mask # 0
  /\ visited' = visited \cup {BitOfMask(mask)}
  /\ mask' = ResetLowestSetBit(mask)
  /\ UNCHANGED <<byte, hits>>

Spec == Init /\ [][Next]_vars

-----------------------------------------------------------------------------
\* The byte tests of GetEmptyMask, GetEmptyOrTomeStoneMask, GetNonEmptyMask
\* and RehashInternal select the lanes that the masks of TagVector are
\* defined by, for every tag the table stores, the sentinel included.
ByteTests ==
  LET tags == [s \in Lanes |-> byte]
      All(selected) == IF selected THEN Lanes ELSE {}
  IN  /\ GetEmptyMask(tags, 0) = All(byte = EMPTY)
      /\ GetEmptyOrTomeStoneMask(tags, 0) = All((FORBIDDEN & byte) = EMPTY)
      /\ IsFull(byte) <=> (EMPTY & byte) = 0

\* When the loop has ended, it has looked at every lane that compares equal
\* (lines 925 to 963): an entry in any of them is found.
VisitsEveryHit == mask = 0 => visited = hits

\* The loop looks at the lanes that VisitedLanes of TagVector names, and its
\* next lane is the one that TrailingZeroCount of TagVector names.
WalkAsModelled ==
  /\ mask = 0 => visited = VisitedLanes(hits)
  /\ mask # 0 => BitOfMask(mask)
                   = TrailingZeroCount({l \in Lanes : (mask & Bit(l)) # 0})
=============================================================================
