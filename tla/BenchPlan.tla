----------------------------- MODULE BenchPlan -----------------------------
(***************************************************************************)
(* The sizes of the benchmark: how many values a data set has, and which   *)
(* loads main and Bench make of it and of the arguments.  Loads are in     *)
(* keys: the arguments of the command line, in millions, are given times   *)
(* MILLION; Absent is one that is missing or is not a number.              *)
(***************************************************************************)
EXTENDS Integers

CONSTANTS
  DataSizes,   \* vector_data_set_size: {32, 64, 128, 256}
  UNIT,        \* 1024 * 1024
  MARGIN,      \* values on top of the size, test_vector_size: 2 * UNIT
  MILLION,     \* 1'000'000
  SAMPLE,      \* one key of SAMPLE is in a test vector: 100
  WINDOW       \* one key of WINDOW is looked up at once: 20

ASSUME PlanAssumption ==
  /\ \A c \in {UNIT, MARGIN, MILLION, SAMPLE, WINDOW} : c \in Nat \ {0}
  /\ DataSizes \subseteq Nat \ {0}
  /\ MILLION <= UNIT

Absent == -1

\* What GenerateDataSet is asked for, and adds to it.
Values(s) == s * UNIT + MARGIN

\* The size in a data set of n values, in units
Units(n) == (n - MARGIN) \div UNIT

\* maxLoad
MaxLoad(n, arg) == (IF arg \in 1..Units(n) THEN arg ELSE Units(n)) * MILLION

\* startLoad; an argument below a millionth is a load of 0
StartLoad(arg, max) ==
  IF arg # Absent /\ (arg \div MILLION) * MILLION <= max THEN arg ELSE MILLION

\* stepLoad
StepLoad(arg) == IF arg # Absent /\ arg <= 10 * MILLION THEN arg ELSE MILLION

\* test_load
TestLoad(load) == load \div SAMPLE

\* size of TEST3 and TEST4
Window(load) == load \div WINDOW
=============================================================================
