--------------------------- MODULE CapacityModes ---------------------------
(***************************************************************************)
(* AdjustCapacity of the modes Fast, FastDivMod and SaveMemory*, which     *)
(* round a requested size up to a table size, at the sizes of the source.  *)
(*                                                                         *)
(* Sizes are counted in pages of 4096 slots: every table size is a whole   *)
(* number of pages, and a size within a page is rounded as the whole page  *)
(* is, so nothing is lost and 2^31 slots stay within TLC's integers.       *)
(*                                                                         *)
(* The state is a table that clients resize and that grows at its limit.   *)
(***************************************************************************)
EXTENDS Integers, FiniteSetsExt

CONSTANT Modes   \* the values of mode, of {1, 2, 4, 8}

Fast          == 1   \* Mode::Fast, and FastDivMod, which differs elsewhere
SaveMemoryOpt == 4
SaveMemoryMax == 8

ASSUME ModesAssumption == Modes \subseteq {Fast, 2, SaveMemoryOpt, SaveMemoryMax}

MIN_SIZE == 1
MAX_SIZE == 2^19
Million  == 2^8    \* 1024 * 1024 slots

VARIABLES
  mode,
  size,      \* the last size asked for
  Capacity   \* _Capacity

vars == <<mode, size, Capacity>>

PowersOf2 == {2^n : n \in 0..19}

RoundUpToPowerOf2(s) == Min({p \in PowersOf2 : p >= s})

\* A mutant of Parts: SaveMemoryMax cuts every half into 8.
PartsByMode(ph) == mode

\* pi: the half below the power of two ph is cut into so many parts
Parts(ph) ==
  CASE mode = SaveMemoryMax /\ ph <= 64 * Million -> SaveMemoryOpt
    [] mode = SaveMemoryMax /\ ph > 64 * Million  -> (mode * (ph \div Million)) \div 128
    [] OTHER                                      -> mode

\* new_size of round i
NewSize(ph, i) == ((ph \div 2) * i) \div Parts(ph) + ph \div 2

\* A mutant of Fits: < for <=.
FitsBelow(s, newSize) == s < newSize

\* A mutant of Fits: a size that is one too large is taken to fit.
FitsAbove(s, newSize) == s <= newSize + 1

Fits(s, newSize) == s <= newSize

AdjustCapacity(s) ==
  LET ph      == RoundUpToPowerOf2(s)
      fitting == {i \in 1..(Parts(ph) - 1) : Fits(s, NewSize(ph, i))}
  IN  CASE s <= MIN_SIZE -> MIN_SIZE
        [] s >= MAX_SIZE -> MAX_SIZE
        [] s > MIN_SIZE /\ s < MAX_SIZE ->
             IF mode = Fast \/ ph <= 16 * Million \/ fitting = {}
               THEN ph ELSE NewSize(ph, Min(fitting))

\* Every size a table of the mode can have.
TableSizes ==
  PowersOf2 \cup
    UNION {{NewSize(ph, i) : i \in 1..(Parts(ph) - 1)} :
             ph \in {p \in PowersOf2 : p > 16 * Million}}

\* Around each table size the answer changes.
Requests == UNION {{c - 1, c, c + 1} : c \in TableSizes}

Init ==
  /\ mode \in Modes
  /\ size = MIN_SIZE
  /\ Capacity = MIN_SIZE

Resize(s) ==
  /\ AdjustCapacity(s) >= Capacity
  /\ size' = s
  /\ Capacity' = AdjustCapacity(s)
  /\ UNCHANGED mode

\* Add at the growth limit
Grow == Resize(Capacity + 1)

Next == Grow \/ \E s \in Requests : Resize(s)

Spec == Init /\ [][Next]_vars

-----------------------------------------------------------------------------
\* AdjustCapacity answers the least table size that holds what is asked for:
\* this is how CapacityPolicy defines it.
RoundsUp ==
  /\ Capacity \in TableSizes
  /\ size <= MAX_SIZE => AdjustCapacity(size)
                           = Min({c \in TableSizes : c >= size})

\* Resize(_Capacity + 1), with which Add makes room, makes the table larger
\* until it has its largest size; a size of its own the table keeps, so that
\* Clear(Capacity()) does not reallocate.
GrowthNeverStalls ==
  /\ Capacity < MAX_SIZE => AdjustCapacity(Capacity + 1) > Capacity
  /\ AdjustCapacity(Capacity) = Capacity

\* What the modes are for: no table of more than 16M slots grows by more than
\* its mode's part of the half it is in, and one of SaveMemoryMax by no more
\* than 8M slots.
SavesMemory ==
  LET grown == AdjustCapacity(Capacity + 1)
  IN  Capacity >= 16 * Million /\ Capacity < MAX_SIZE =>
        IF mode = SaveMemoryMax
          THEN grown - Capacity <= 8 * Million
          ELSE (grown - Capacity) * mode <= RoundUpToPowerOf2(Capacity + 1) \div 2
=============================================================================
