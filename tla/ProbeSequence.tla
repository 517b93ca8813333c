--------------------------- MODULE ProbeSequence ---------------------------
(***************************************************************************)
(* The positions a probe loop loads its vectors from.                      *)
(*                                                                         *)
(*   tupleIndex = AdjustTupleIndex(tupleIndex + (jump += SIZE));           *)
(*                                                                         *)
(* with jump a uint8_t: it counts LANES, 2*LANES, ... and wraps to 0 after *)
(* JUMP_WRAP / LANES steps, so the step is triangular within one wrap of   *)
(* jump and periodic over the wraps.  TotalJump is that sum in closed      *)
(* form; ProbeLoop runs the loop beside it.                                *)
(***************************************************************************)
EXTENDS TagVector

CONSTANT
  JUMP_WRAP   \* 2^8, the values of jump

ASSUME JumpAssumption ==
  /\ JUMP_WRAP \in Nat \ {0}
  /\ JUMP_WRAP % LANES = 0

StepsPerWrap == JUMP_WRAP \div LANES

Jump(i) == (i * LANES) % JUMP_WRAP

\* A mutant of TotalJump: jump as wide as the index, never wrapping.
TotalJumpWide(i) == LANES * ((i * (i + 1)) \div 2)

\* A mutant of TotalJump: jump += 2 * SIZE.
TotalJumpDouble(i) == 2 * LANES * ((i * (i + 1)) \div 2)

\* Jump(1) + ... + Jump(i)
TotalJump(i) ==
  LET wraps == i \div StepsPerWrap
      steps == i % StepsPerWrap
  IN  LANES * (  wraps * ((StepsPerWrap * (StepsPerWrap - 1)) \div 2)
               + (steps * (steps + 1)) \div 2)

\* The i-th position of a probe that starts at home: x % c is what
\* AdjustTupleIndex gives for an index x below 2^32, by mask or by the
\* multiplication with _CapacityMultiplier.
ProbeAt(home, i, c) == (home + TotalJump(i)) % c

\* After this many steps position and jump are back where they started.
ProbeSteps(c) == 0..(StepsPerWrap * (c \div LANES) - 1)

=============================================================================
