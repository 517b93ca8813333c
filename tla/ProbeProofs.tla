---------------------------- MODULE ProbeProofs ----------------------------
(***************************************************************************)
(* Facts about tags, probe positions and table sizes that the proofs about *)
(* Map, Set and Index share.                                               *)
(***************************************************************************)
EXTENDS ProbeSequence, CapacityPolicy, WellFoundedInduction, TLAPS

-----------------------------------------------------------------------------
(* Arithmetic and least elements.                                          *)

LEMMA Divided ==
  ASSUME NEW d \in Nat \ {0}, NEW x \in Nat
  PROVE  x = d * (x \div d) + (x % d) /\ x % d \in 0..(d - 1) /\ x \div d \in Nat
OBVIOUS

LEMMA Parts ==
  ASSUME NEW d \in Nat \ {0}, NEW q \in Nat, NEW r \in 0..(d - 1)
  PROVE  (d * q + r) % d = r /\ (d * q + r) \div d = q
OBVIOUS

\* Min of the community modules is the least element of a set of numbers.
LEMMA MinNat ==
  ASSUME NEW S \in SUBSET Nat, S # {}
  PROVE  Min(S) \in S /\ \A x \in S : Min(S) <= x
<1> DEFINE R == {p \in Nat \X Nat : p[1] < p[2]}
<1>1. IsWellFoundedOn(R, Nat)
  BY NatLessThanWellFounded, Zenon DEF OpToRel
<1> HIDE DEF R
<1>2. \E x \in S : \A y \in S : ~(<<y, x>> \in R)
  BY <1>1, WFMin, Zenon
<1>3. \A x, y \in Nat : <<y, x>> \in R <=> y < x
  BY DEF R
<1>4. PICK x \in S : \A y \in S : ~(<<y, x>> \in R)
  BY <1>2
<1>5. \A y \in S : ~(y < x)
  <2> TAKE y \in S
  <2>1. x \in Nat /\ y \in Nat
    OBVIOUS
  <2>2. ~(<<y, x>> \in R)
    BY <1>4
  <2> QED
    BY <1>3, <2>1, <2>2
<1>6. \A y \in S : x <= y
  BY <1>5
<1> QED
  BY <1>6 DEF Min

\* The capacities have a least and a greatest element among them.
LEMMA CapacityBounds ==
  /\ Capacities \subseteq Nat \ {0}
  /\ MIN_SIZE \in Capacities
  /\ MAX_SIZE \in Capacities /\ \A c \in Capacities : c <= MAX_SIZE
<1>1. Capacities \subseteq Nat \ {0}
  BY CapacityAssumption
<1>2. PICK m \in Capacities : \A c \in Capacities : c <= m
  BY CapacityAssumption
<1>3. MAX_SIZE \in Capacities /\ \A c \in Capacities : c <= MAX_SIZE
  BY <1>1, <1>2 DEF MAX_SIZE, Max
<1>4. MIN_SIZE \in Capacities
  BY <1>1, <1>2, MinNat DEF MIN_SIZE
<1> QED
  BY <1>1, <1>3, <1>4

\* AdjustCapacity answers a table size, whatever is asked for.
LEMMA AdjustCapacityTyped ==
  ASSUME NEW size \in Nat
  PROVE  AdjustCapacity(size) \in Capacities
<1>1. Required(size) \in Nat
  <2>1. (size * LF_UNIT) \div MAX_LOAD_FACTOR \in Nat
    BY DEF LF_UNIT, MAX_LOAD_FACTOR
  <2> QED
    BY <2>1 DEF Required
<1> DEFINE fitting == {c \in Capacities : c >= Required(size)}
<1>2. CASE Required(size) >= MAX_SIZE
  BY <1>2, CapacityBounds DEF AdjustCapacity
<1>3. CASE ~(Required(size) >= MAX_SIZE)
  <2>1. fitting \in SUBSET Nat
    BY CapacityBounds
  <2>2. MAX_SIZE \in fitting
    <3>1. MAX_SIZE \in Nat
      BY CapacityBounds
    <3>2. MAX_SIZE >= Required(size)
      BY <1>1, <1>3, <3>1
    <3> QED
      BY <3>2, CapacityBounds
  <2>3. fitting # {}
    BY <2>2
  <2>4. Min(fitting) \in fitting
    BY <2>1, <2>3, MinNat
  <2> QED
    BY <1>3, <2>4 DEF AdjustCapacity
<1> QED
  BY <1>2, <1>3

\* The growth limit is a number.
LEMMA GrowthLimitTyped ==
  ASSUME NEW c \in Capacities, NEW mlf \in Nat
  PROVE  GrowthLimit(c, mlf) \in Nat
<1>1. c \in Nat /\ MAX_SIZE \in Nat
  BY CapacityBounds
<1>2. c * mlf \in Nat
  BY <1>1
<1>3. (c * mlf) \div LF_UNIT \in Nat
  BY <1>2 DEF LF_UNIT
<1> QED
  BY <1>1, <1>3 DEF GrowthLimit

\* A probe stays within the table.
LEMMA ProbeAtTyped ==
  ASSUME NEW home \in Nat, NEW i \in Nat, NEW c \in Nat \ {0}
  PROVE  ProbeAt(home, i, c) \in 0..(c - 1)
<1> DEFINE W == StepsPerWrap
<1>1. LANES \in Nat \ {0} /\ JUMP_WRAP \in Nat \ {0} /\ JUMP_WRAP % LANES = 0
  BY LanesAssumption, JumpAssumption
<1>2. W \in Nat \ {0}
  BY <1>1 DEF StepsPerWrap
<1> HIDE DEF W
<1>3. i \div W \in Nat /\ i % W \in Nat
  BY <1>2
<1>4. W * (W - 1) \in Nat /\ (i % W) * ((i % W) + 1) \in Nat
  BY <1>2, <1>3
<1>5. (W * (W - 1)) \div 2 \in Nat /\ ((i % W) * ((i % W) + 1)) \div 2 \in Nat
  BY <1>4
<1>6. (i \div W) * ((W * (W - 1)) \div 2) \in Nat
  BY <1>3, <1>5
<1>7. TotalJump(i) \in Nat
  BY <1>1, <1>5, <1>6 DEF TotalJump, W
<1> QED
  BY <1>7 DEF ProbeAt

\* The steps of a probe are numbers.
LEMMA ProbeStepsTyped == \A c : ProbeSteps(c) \subseteq Nat
BY DEF ProbeSteps

-----------------------------------------------------------------------------
(* Lanes and slots.                                                        *)

\* The lanes of a vector are numbers.
LEMMA LanesTyped == LANES \in Nat \ {0} /\ Lanes \subseteq Nat
BY LanesAssumption DEF Lanes

\* TrailingZeroCount answers a lane of the mask, in the bFix build too.
LEMMA TrailingZeroCountTyped ==
  ASSUME NEW mask \in SUBSET Lanes, mask # {}
  PROVE  TrailingZeroCount(mask) \in mask
<1> DEFINE rest == mask \ {Min(mask)}
<1>1. mask \in SUBSET Nat /\ rest \in SUBSET Nat
  BY LanesTyped
<1>2. Min(mask) \in mask
  BY <1>1, MinNat
<1>3. rest # {} => Min(rest) \in rest
  BY <1>1, MinNat
<1> QED
  BY <1>2, <1>3 DEF TrailingZeroCount

\* What an EMPTY, a used and a buried tag have to do with each other.
LEMMA TagKinds ==
  /\ HashTags \subseteq Tags /\ {EMPTY, TOMBSTONE, FORBIDDEN} \subseteq Tags
  /\ EMPTY \notin HashTags /\ TOMBSTONE \notin HashTags /\ FORBIDDEN \notin HashTags
  /\ EMPTY # TOMBSTONE /\ EMPTY # FORBIDDEN /\ TOMBSTONE # FORBIDDEN
BY DEF HashTags, Tags, EMPTY, TOMBSTONE, FORBIDDEN
=============================================================================
