----------------------------- MODULE ProbeLoop -----------------------------
(***************************************************************************)
(* A probe loop that meets nothing to stop at, run step by step with the   *)
(* 8-bit jump of the source, beside the closed form of ProbeSequence.      *)
(***************************************************************************)
EXTENDS ProbeSequence

CONSTANTS
  Capacities,   \* table sizes to probe
  Homes         \* first positions of the probes

ASSUME LoopAssumption ==
  /\ Capacities \subseteq Nat \ {0}
  /\ \A c \in Capacities : c % LANES = 0
  /\ Homes \subseteq Nat

VARIABLES
  capacity, home,
  tupleIndex, jump,   \* as in FindEntry, Add and FindEmpty
  step,               \* how often the loop has gone round
  reached             \* the slots of the vectors loaded so far

vars == <<capacity, home, tupleIndex, jump, step, reached>>

\* the slots of the vector at p, the sentinel left out
Loaded(p) == {s \in p..(p + LANES - 1) : s < capacity}

Init ==
  /\ capacity \in Capacities
  /\ home \in {h \in Homes : h < capacity}
  /\ tupleIndex = home /\ jump = 0 /\ step = 0
  /\ reached = Loaded(home)

\* A mutant of NextJump: linear probing.
NextJumpLinear == LANES

\* jump += TagVector::SIZE, in a uint8_t
NextJump == (jump + LANES) % JUMP_WRAP

\* tupleIndex = AdjustTupleIndex(tupleIndex + (jump += TagVector::SIZE))
Next ==
  /\ step \in ProbeSteps(capacity)
  /\ jump' = NextJump
  /\ tupleIndex' = (tupleIndex + NextJump) % capacity
  /\ step' = step + 1
  /\ reached' = reached \cup Loaded(tupleIndex')
  /\ UNCHANGED <<capacity, home>>

Spec == Init /\ [][Next]_vars

-----------------------------------------------------------------------------
Full == step \notin ProbeSteps(capacity)

Groups == capacity \div LANES

Coprime(a, b) == \A d \in 2..b : ~(a % d = 0 /\ b % d = 0)

\* The closed form is the position of the loop after every step, through the
\* wraps of jump, and ProbeSteps is a whole period: at its end the loop is
\* back where it started.
ClosedForm ==
  /\ tupleIndex = ProbeAt(home, step, capacity)
  /\ Full => tupleIndex = home /\ jump = 0

\* Every slot that a vector at this offset can hold is loaded in the end,
\* exactly in the tables whose number of vectors has no divisor in common
\* with StepsPerWrap - 1 (15 in the source).  A power of two never has one:
\* in Mode::Fast no probe misses an EMPTY slot it could see.
CoversTable ==
  Full => (reached = (home % LANES)..(capacity - 1)
             <=> Coprime(Groups, StepsPerWrap - 1))
=============================================================================
