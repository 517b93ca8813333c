-------------------------- MODULE ProbeLoopProofs --------------------------
(***************************************************************************)
(* The probe positions of ProbeSequence are those of the loop, for every   *)
(* vector width, wrap of jump and table size.                              *)
(***************************************************************************)
EXTENDS ProbeLoop, TLAPS

-----------------------------------------------------------------------------
(* Quotients and products.                                                 *)

LEMMA Divided ==
  ASSUME NEW d \in Nat \ {0}, NEW x \in Nat
  PROVE  x = d * (x \div d) + (x % d) /\ x % d \in 0..(d - 1) /\ x \div d \in Nat
OBVIOUS

LEMMA Parts ==
  ASSUME NEW d \in Nat \ {0}, NEW q \in Nat, NEW r \in 0..(d - 1)
  PROVE  (d * q + r) % d = r /\ (d * q + r) \div d = q
OBVIOUS

LEMMA Distributes ==
  ASSUME NEW a \in Int, NEW b \in Int, NEW c \in Int
  PROVE  a * (b + c) = a * b + a * c /\ (b + c) * a = b * a + c * a
OBVIOUS

LEMMA Associates ==
  ASSUME NEW a \in Int, NEW b \in Int, NEW c \in Int
  PROVE  a * (b * c) = (a * b) * c /\ a * b = b * a
OBVIOUS

LEMMA Product ==
  ASSUME NEW a \in Nat, NEW b \in Nat
  PROVE  a * b \in Nat
OBVIOUS

\* 1 + 2 + ... + x
Triangle(x) == (x * (x + 1)) \div 2

\* One of two numbers that follow each other is even.
LEMMA TriangleWhole ==
  ASSUME NEW x \in Nat
  PROVE  2 * Triangle(x) = x * (x + 1) /\ Triangle(x) \in Nat
<1> DEFINE q == x \div 2
<1>1. q \in Nat /\ (x = 2 * q \/ x = 2 * q + 1)
  OBVIOUS
<1>2. \E m \in Nat : x * (x + 1) = 2 * m
  <2>1. CASE x = 2 * q
    <3>1. x * (x + 1) = 2 * (q * (x + 1))
      BY <1>1, <2>1, Associates
    <3>2. q * (x + 1) \in Nat
      BY <1>1, Product
    <3> QED
      BY <3>1, <3>2
  <2>2. CASE x = 2 * q + 1
    <3>1. x + 1 = 2 * (q + 1)
      BY <1>1, <2>2
    <3>2. x * (2 * (q + 1)) = 2 * (x * (q + 1))
      BY <1>1, Associates
    <3>3. x * (q + 1) \in Nat
      BY <1>1, Product
    <3> QED
      BY <3>1, <3>2, <3>3
  <2> QED
    BY <1>1, <2>1, <2>2
<1>3. PICK m \in Nat : x * (x + 1) = 2 * m
  BY <1>2
<1> QED
  BY <1>3 DEF Triangle

LEMMA TriangleNext ==
  ASSUME NEW x \in Nat
  PROVE  Triangle(x + 1) = Triangle(x) + (x + 1)
<1>1. 2 * Triangle(x) = x * (x + 1) /\ Triangle(x) \in Nat
  BY TriangleWhole
<1>2. 2 * Triangle(x + 1) = (x + 1) * (x + 2) /\ Triangle(x + 1) \in Nat
  <2>1. (x + 1) + 1 = x + 2 /\ x + 1 \in Nat
    OBVIOUS
  <2> QED
    BY <2>1, TriangleWhole
<1>3. (x + 1) * (x + 2) = (x + 1) * x + (x + 1) * 2 /\ (x + 1) * x = x * (x + 1)
  BY Distributes, Associates
<1>4. x * (x + 1) \in Nat
  BY Product
<1> QED
  BY <1>1, <1>2, <1>3, <1>4

-----------------------------------------------------------------------------
(* The sum of the jumps.                                                   *)

LEMMA WrapWhole ==
  /\ LANES \in Nat \ {0} /\ JUMP_WRAP \in Nat \ {0}
  /\ StepsPerWrap \in Nat \ {0} /\ JUMP_WRAP = LANES * StepsPerWrap
<1>1. LANES \in Nat \ {0} /\ JUMP_WRAP \in Nat \ {0} /\ JUMP_WRAP % LANES = 0
  BY LanesAssumption, JumpAssumption
<1>2. JUMP_WRAP = LANES * StepsPerWrap /\ StepsPerWrap \in Nat
  BY <1>1, Divided DEF StepsPerWrap
<1> QED
  BY <1>1, <1>2

\* jump depends on the step within its wrap only.
LEMMA JumpInWrap ==
  ASSUME NEW i \in Nat
  PROVE  Jump(i) = LANES * (i % StepsPerWrap)
<1> DEFINE q == i \div StepsPerWrap
           r == i % StepsPerWrap
<1>1. i = StepsPerWrap * q + r /\ r \in 0..(StepsPerWrap - 1) /\ q \in Nat
  BY WrapWhole, Divided
<1> HIDE DEF q, r
<1>2. i * LANES = JUMP_WRAP * q + LANES * r
  <2>1. i * LANES = (StepsPerWrap * q) * LANES + r * LANES
    BY <1>1, WrapWhole, Product, Distributes
  <2>2. (StepsPerWrap * q) * LANES = LANES * (StepsPerWrap * q)
    BY <1>1, WrapWhole, Product, Associates
  <2>3. LANES * (StepsPerWrap * q) = (LANES * StepsPerWrap) * q
    BY <1>1, WrapWhole, Associates
  <2>4. r * LANES = LANES * r
    BY <1>1, WrapWhole, Associates
  <2> QED
    BY <2>1, <2>2, <2>3, <2>4, WrapWhole
<1>3. LANES * r \in 0..(JUMP_WRAP - 1)
  <2>1. LANES * r \in Nat
    BY <1>1, WrapWhole, Product
  <2>2. LANES * (r + 1) = LANES * r + LANES
    BY <1>1, WrapWhole, Distributes
  <2>3. LANES * (r + 1) <= LANES * StepsPerWrap
    <3>1. StepsPerWrap = (r + 1) + (StepsPerWrap - (r + 1)) /\ StepsPerWrap - (r + 1) \in Nat
      BY <1>1, WrapWhole
    <3>2. LANES * StepsPerWrap = LANES * (r + 1) + LANES * (StepsPerWrap - (r + 1))
      BY <1>1, <3>1, WrapWhole, Distributes
    <3>3. LANES * (StepsPerWrap - (r + 1)) \in Nat /\ LANES * (r + 1) \in Nat
      BY <1>1, <3>1, WrapWhole, Product
    <3> QED
      BY <3>2, <3>3
  <2> QED
    BY <2>1, <2>2, <2>3, WrapWhole
<1>4. (JUMP_WRAP * q + LANES * r) % JUMP_WRAP = LANES * r
  BY <1>1, <1>3, WrapWhole, Parts
<1> QED
  BY <1>2, <1>4 DEF Jump, r

LEMMA TotalJumpForm ==
  ASSUME NEW i \in Nat
  PROVE  /\ TotalJump(i) = LANES * ((i \div StepsPerWrap) * Triangle(StepsPerWrap - 1)
                                     + Triangle(i % StepsPerWrap))
         /\ TotalJump(i) \in Nat
<1> DEFINE W == StepsPerWrap
<1>1. /\ W \in Nat \ {0} /\ LANES \in Nat /\ i % W \in Nat /\ i \div W \in Nat
      /\ W - 1 \in Nat
  BY WrapWhole, Divided
<1> HIDE DEF W
<1>2. Triangle(W - 1) = (W * (W - 1)) \div 2
  <2>1. (W - 1) + 1 = W /\ (W - 1) * W = W * (W - 1)
    BY <1>1, Associates
  <2> QED
    BY <2>1 DEF Triangle
<1>3. Triangle(W - 1) \in Nat /\ Triangle(i % W) \in Nat
  BY <1>1, TriangleWhole
<1>4. (i \div W) * Triangle(W - 1) \in Nat
  BY <1>1, <1>3, Product
<1>5. LANES * ((i \div W) * Triangle(W - 1) + Triangle(i % W)) \in Nat
  BY <1>1, <1>3, <1>4, Product
<1> QED
  BY <1>2, <1>5 DEF TotalJump, Triangle, W

\* The closed form grows by the jump of the step, through the wraps of jump.
LEMMA TotalJumpNext ==
  ASSUME NEW i \in Nat
  PROVE  TotalJump(i + 1) = TotalJump(i) + Jump(i + 1)
<1> DEFINE W == StepsPerWrap
           q == i \div W
           r == i % W
           T == Triangle(W - 1)
<1>1. /\ W \in Nat \ {0} /\ LANES \in Nat /\ i = W * q + r
      /\ r \in 0..(W - 1) /\ q \in Nat
  BY WrapWhole, Divided
<1>2. TotalJump(i) = LANES * (q * T + Triangle(r))
  BY TotalJumpForm
<1>3. /\ TotalJump(i + 1) = LANES * (((i + 1) \div W) * T + Triangle((i + 1) % W))
      /\ Jump(i + 1) = LANES * ((i + 1) % W)
  BY TotalJumpForm, JumpInWrap
<1>4. T \in Nat /\ Triangle(r) \in Nat /\ r \in Nat
  BY <1>1, TriangleWhole
<1> HIDE DEF W, q, r, T
<1>5. q * T \in Nat
  BY <1>1, <1>4, Product
<1>6. CASE r + 1 < W
  <2>1. r + 1 \in 0..(W - 1) /\ i + 1 = W * q + (r + 1)
    <3>1. W * q \in Nat
      BY <1>1, Product
    <3> QED
      BY <1>1, <1>6, <3>1
  <2>2. (i + 1) \div W = q /\ (i + 1) % W = r + 1
    BY <1>1, <2>1, Parts
  <2>3. Triangle(r + 1) = Triangle(r) + (r + 1)
    BY <1>4, TriangleNext
  <2>4. q * T + Triangle(r + 1) = (q * T + Triangle(r)) + (r + 1)
    BY <1>4, <1>5, <2>3
  <2>5. LANES * ((q * T + Triangle(r)) + (r + 1))
          = LANES * (q * T + Triangle(r)) + LANES * (r + 1)
    BY <1>1, <1>4, <1>5, Distributes
  <2> QED
    BY <1>2, <1>3, <2>2, <2>4, <2>5
<1>7. CASE r + 1 = W
  <2>1. i + 1 = W * (q + 1) + 0 /\ 0 \in 0..(W - 1) /\ q + 1 \in Nat
    <3>1. W * (q + 1) = W * q + W /\ W * q \in Nat
      BY <1>1, Distributes, Product
    <3> QED
      BY <1>1, <1>7, <3>1
  <2>2. (i + 1) \div W = q + 1 /\ (i + 1) % W = 0
    BY <1>1, <2>1, Parts
  <2>3. Triangle(r) = T
    <3>1. r = W - 1
      BY <1>1, <1>7
    <3> QED
      BY <3>1 DEF T
  <2>4. Triangle(0) = 0
    BY DEF Triangle
  <2>5. (q + 1) * T + 0 = q * T + T
    BY <1>1, <1>4, <1>5, Distributes
  <2>6. LANES * 0 = 0 /\ LANES * (q * T + T) \in Nat
    BY <1>1, <1>4, <1>5, Product
  <2> QED
    BY <1>2, <1>3, <2>2, <2>3, <2>4, <2>5, <2>6
<1> QED
  BY <1>1, <1>6, <1>7

-----------------------------------------------------------------------------
(* Positions.                                                              *)

\* A sum may be reduced before the next number is added.
LEMMA ReducedSum ==
  ASSUME NEW c \in Nat \ {0}, NEW x \in Nat, NEW y \in Nat
  PROVE  ((x % c) + y) % c = (x + y) % c
<1> DEFINE q == x \div c
           r == x % c
           u == (r + y) \div c
           t == (r + y) % c
<1>1. x = c * q + r /\ r \in Nat /\ q \in Nat
  BY Divided
<1>2. r + y \in Nat
  BY <1>1
<1>3. r + y = c * u + t /\ t \in 0..(c - 1) /\ u \in Nat
  BY <1>2, Divided
<1> HIDE DEF q, r, u, t
<1>4. c * (q + u) = c * q + c * u /\ c * q \in Nat /\ c * u \in Nat
  BY <1>1, <1>3, Distributes, Product
<1>5. x + y = c * (q + u) + t /\ q + u \in Nat
  BY <1>1, <1>3, <1>4
<1>6. (x + y) % c = t
  BY <1>3, <1>5, Parts
<1> QED
  BY <1>6 DEF t, r

\* Whole tables do not count.
LEMMA WholeTurns ==
  ASSUME NEW c \in Nat \ {0}, NEW h \in 0..(c - 1), NEW m \in Nat
  PROVE  (h + c * m) % c = h
<1>1. c * m \in Nat
  BY Product
<1>2. h + c * m = c * m + h
  BY <1>1
<1> QED
  BY <1>2, Parts

\* A whole period of steps goes round the table some number of times, and
\* takes jump back to 0.
LEMMA WholePeriod ==
  ASSUME NEW c \in Nat \ {0}, c % LANES = 0, NEW h \in 0..(c - 1),
         NEW i, i = StepsPerWrap * (c \div LANES)
  PROVE  i \in Nat /\ ProbeAt(h, i, c) = h /\ Jump(i) = 0
<1> DEFINE W == StepsPerWrap
           G == c \div LANES
           T == Triangle(W - 1)
<1>1. W \in Nat \ {0} /\ LANES \in Nat \ {0} /\ G \in Nat /\ c = LANES * G
  BY WrapWhole, Divided
<1>2. T \in Nat
  BY <1>1, TriangleWhole
<1> HIDE DEF W, G, T
<1>3. i = W * G + 0 /\ i \in Nat /\ 0 \in 0..(W - 1)
  <2>1. W * G \in Nat
    BY <1>1, Product
  <2> QED
    BY <1>1, <2>1 DEF W, G
<1>4. i \div W = G /\ i % W = 0
  <2>1. (W * G + 0) \div W = G /\ (W * G + 0) % W = 0
    BY <1>1, <1>3, Parts
  <2> QED
    BY <1>3, <2>1
<1>5. TotalJump(i) = LANES * (G * T + Triangle(0))
  BY <1>3, <1>4, TotalJumpForm DEF W, T
<1>6. Triangle(0) = 0 /\ G * T \in Nat
  BY <1>1, <1>2, Product DEF Triangle
<1>7. TotalJump(i) = LANES * (G * T)
  BY <1>5, <1>6
<1>8. TotalJump(i) = c * T
  BY <1>1, <1>2, <1>7, Associates
<1>9. ProbeAt(h, i, c) = h
  <2>1. (h + c * T) % c = h
    BY <1>2, WholeTurns
  <2> QED
    BY <1>8, <2>1 DEF ProbeAt
<1>10. Jump(i) = 0
  BY <1>1, <1>3, <1>4, JumpInWrap DEF W
<1> QED
  BY <1>3, <1>9, <1>10

-----------------------------------------------------------------------------
(* The loop.                                                               *)

\* The loop is at the step it counts, jump included.
LoopInv ==
  /\ capacity \in Capacities /\ home \in 0..(capacity - 1)
  /\ step \in 0..(StepsPerWrap * Groups)
  /\ jump = Jump(step)
  /\ tupleIndex = ProbeAt(home, step, capacity)

LEMMA GroupsTyped ==
  ASSUME capacity \in Capacities
  PROVE  /\ capacity \in Nat \ {0} /\ capacity % LANES = 0
         /\ Groups \in Nat /\ StepsPerWrap * Groups \in Nat
<1>1. capacity \in Nat \ {0} /\ capacity % LANES = 0
  BY LoopAssumption
<1>2. Groups \in Nat
  BY <1>1, WrapWhole, Divided DEF Groups
<1> QED
  BY <1>1, <1>2, WrapWhole, Product

LEMMA LoopInit ==
  ASSUME Init
  PROVE  LoopInv
<1>1. capacity \in Capacities /\ home \in Nat /\ home < capacity
  BY LoopAssumption DEF Init
<1>2. /\ capacity \in Nat \ {0} /\ home \in 0..(capacity - 1)
      /\ 0 \in 0..(StepsPerWrap * Groups)
  BY <1>1, GroupsTyped
<1>3. 0 % StepsPerWrap = 0 /\ 0 \div StepsPerWrap = 0
  BY WrapWhole
<1>4. TotalJump(0) = 0 /\ Jump(0) = 0
  <2>1. Triangle(0) = 0 /\ Triangle(StepsPerWrap - 1) \in Nat
    <3>1. StepsPerWrap - 1 \in Nat
      BY WrapWhole
    <3> QED
      BY <3>1, TriangleWhole DEF Triangle
  <2>2. TotalJump(0) = LANES * (0 * Triangle(StepsPerWrap - 1) + Triangle(0))
    BY <1>3, TotalJumpForm
  <2>3. Jump(0) = LANES * 0
    BY <1>3, JumpInWrap
  <2> QED
    BY <2>1, <2>2, <2>3, WrapWhole
<1>5. ProbeAt(home, 0, capacity) = home
  BY <1>2, <1>4 DEF ProbeAt
<1> QED
  BY <1>1, <1>2, <1>4, <1>5 DEF Init, LoopInv

LEMMA LoopStep ==
  ASSUME LoopInv, [Next]_vars
  PROVE  LoopInv'
<1>1. CASE UNCHANGED vars
  BY <1>1 DEF vars, LoopInv, Groups
<1>2. CASE Next
  <2>1. /\ capacity \in Nat \ {0} /\ StepsPerWrap * Groups \in Nat /\ home \in Nat
        /\ step \in Nat
    BY GroupsTyped DEF LoopInv
  <2>2. step + 1 \in 0..(StepsPerWrap * Groups)
    <3>1. step \in 0..(StepsPerWrap * Groups - 1)
      BY <1>2 DEF Next, ProbeSteps, Groups
    <3> QED
      BY <2>1, <3>1
  <2>3. NextJump = Jump(step + 1)
    <3>1. step * LANES \in Nat /\ (step + 1) * LANES = step * LANES + LANES
      BY <2>1, WrapWhole, Product, Distributes
    <3>2. (((step * LANES) % JUMP_WRAP) + LANES) % JUMP_WRAP
            = (step * LANES + LANES) % JUMP_WRAP
      BY <3>1, WrapWhole, ReducedSum
    <3> QED
      BY <3>1, <3>2 DEF NextJump, Jump, LoopInv
  <2>4. (tupleIndex + NextJump) % capacity = ProbeAt(home, step + 1, capacity)
    <3>1. /\ TotalJump(step) \in Nat /\ Jump(step + 1) \in Nat
          /\ TotalJump(step + 1) = TotalJump(step) + Jump(step + 1)
      <4>1. (step + 1) * LANES \in Nat
        BY <2>1, WrapWhole, Product
      <4>2. Jump(step + 1) \in Nat
        BY <4>1, WrapWhole, Divided DEF Jump
      <4> QED
        BY <2>1, <4>2, TotalJumpForm, TotalJumpNext
    <3>2. home + TotalJump(step) \in Nat
      BY <2>1, <3>1
    <3>3. (tupleIndex + NextJump) % capacity
            = ((home + TotalJump(step)) + Jump(step + 1)) % capacity
      BY <2>1, <2>3, <3>1, <3>2, ReducedSum DEF LoopInv, ProbeAt
    <3>4. (home + TotalJump(step)) + Jump(step + 1) = home + TotalJump(step + 1)
      BY <2>1, <3>1
    <3> QED
      BY <3>3, <3>4 DEF ProbeAt
  <2> QED
    BY <1>2, <2>2, <2>3, <2>4 DEF Next, LoopInv, Groups
<1> QED
  BY <1>1, <1>2

\* In a table of any number of vectors, and with any wrap of jump, the i-th
\* vector the loop loads is where TotalJump says, and the loop is back where it
\* started once ProbeSteps are over: what the models of Find, Add and FindEmpty
\* leave out of a probe that runs on is a repetition.
THEOREM ClosedFormHolds == Spec => []ClosedForm
<1>1. LoopInv => ClosedForm
  <2> SUFFICES ASSUME LoopInv PROVE ClosedForm
    OBVIOUS
  <2>1. capacity \in Nat \ {0} /\ capacity % LANES = 0 /\ StepsPerWrap * Groups \in Nat
    BY GroupsTyped DEF LoopInv
  <2>2. ASSUME Full PROVE step = StepsPerWrap * (capacity \div LANES)
    BY <2>1, <2>2 DEF Full, ProbeSteps, LoopInv, Groups
  <2>3. ASSUME Full PROVE tupleIndex = home /\ jump = 0
    BY <2>1, <2>2, <2>3, WholePeriod DEF LoopInv
  <2> QED
    BY <2>3 DEF ClosedForm, LoopInv
<1> QED
  BY <1>1, LoopInit, LoopStep, PTL DEF Spec
=============================================================================
