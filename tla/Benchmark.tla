----------------------------- MODULE Benchmark -----------------------------
(***************************************************************************)
(* `rnd` and `run` of the benchmark program: the data set of DataSet, the  *)
(* loop over the tables and their hashes (main), over the loads (Bench)    *)
(* and the tests of BenchHash.h, which are calls of the table on parts of  *)
(* the data set with the answer that is asserted.                          *)
(*                                                                         *)
(* The table is the set of keys it holds, which is what MapSpec and        *)
(* IndexSpec promise of it; `fresh` and `tombstones` are what SimdHashMap  *)
(* asks of a client that adds.  A vector is a set of positions in data_set *)
(* (std::sample keeps the order, and no answer depends on it).  Sizes that *)
(* are only reserved do not show.                                          *)
(***************************************************************************)
EXTENDS DataSet

CONSTANTS
  CommandLines,   \* the runs that are started: the tables (types), hashes,
                  \* tests, flags and arguments that main finds in argv
  None

Flags ==
  [types : SUBSET {"map", "index", "set", "other", "mapfix"} \ {{}},
   hashes : SUBSET {1, 2, 4, 8}, tests : SUBSET (2..5),
   reuse : BOOLEAN, unique : BOOLEAN, b32 : BOOLEAN, shuffle : BOOLEAN,
   seq : 0..3, max : Int, start : Int, step : Int]

ASSUME CommandLinesAssumption == CommandLines \subseteq Flags

VARIABLES
  cmd,      \* the command line of the run
  jobs,     \* the tables it has still to bench, the one at work first
  load,     \* load
  object,   \* the table, or None
  script    \* the statements of the test that are left

bench == <<cmd, jobs, load, object, script>>
vars == <<dataVars, bench>>

-----------------------------------------------------------------------------
(* The order in which main and the Bench functions go through the flags.   *)

\* iType: 1, 2, 4, then those of other libraries, then 2048
TypeOrder == <<"map", "index", "set", "other", "mapfix">>
HashOrder == <<8, 2, 4, 1>>

Hashes(c) == IF c.hashes = {} THEN {4} ELSE c.hashes

\* One for every table and hash: the table starts anew for each.
Jobs(c) ==
  LET types  == SelectSeq(TypeOrder, LAMBDA t : t \in c.types)
      hashes == SelectSeq(HashOrder, LAMBDA h : h \in Hashes(c))
  IN  FlattenSeq([i \in DOMAIN types |-> [j \in DOMAIN hashes |-> types[i]]])

\* tt, by the first of the flags in the order 2, 3, 4, 5
Test == IF cmd.tests = {} THEN 1 ELSE Min(cmd.tests)

Top == MaxLoad(Len(data_set), cmd.max)

\* A mutant of NextLoad: the last load is the largest there is.
NextLoadCapped == Min({load + StepLoad(cmd.step), Top})

NextLoad == load + StepLoad(cmd.step)

-----------------------------------------------------------------------------
(* The table.                                                              *)

Created == [held |-> {}, fresh |-> {}, tombstones |-> FALSE]

\* Init of the wrapper
Initialised ==
  IF cmd.reuse /\ object # None /\ Test # 1 THEN object ELSE Created

\* static_cast<TKey>
Key(p) ==
  LET w == data_set[p] IN IF cmd.b32 THEN low(w) ELSE HALF * high(w) + low(w)

KeysAt(ps) == {Key(p) : p \in ps}

Distinct(ps) == Cardinality(KeysAt(ps)) = Cardinality(ps)

\* The answer of a statement: that every call on its positions returned true
Answer(s) ==
  CASE s.op = "Add"       -> KeysAt(s.on) \cap object.held = {} /\ Distinct(s.on)
    [] s.op = "AddUnique" -> TRUE
    [] s.op = "Remove"    -> KeysAt(s.on) \subseteq object.held /\ Distinct(s.on)
    [] s.op \in {"Contains", "Reverse"} -> KeysAt(s.on) \subseteq object.held
    [] s.op = "Count"     -> Cardinality(object.held) = Cardinality(s.on)
    [] s.op = "Iterate"   -> TRUE

\* The table after it
After(s) ==
  CASE s.op \in {"Add", "AddUnique"} ->
         [object EXCEPT !.held = @ \cup KeysAt(s.on),
                        !.fresh = @ \cup KeysAt(s.on)]
    [] s.op = "Remove" ->
         [held |-> object.held \ KeysAt(s.on), fresh |-> {},
          tombstones |-> \/ object.tombstones
                         \/ KeysAt(s.on) \cap object.held # {}]
    [] OTHER -> object

-----------------------------------------------------------------------------
(* The tests of Bench of the wrapper.                                      *)

Statement(op, of, on, expect) ==
  [op |-> op, of |-> of, on |-> on, expect |-> expect]

TestAdd(of, on, unique, expect) ==
  Statement(IF unique /\ Head(jobs) # "other" THEN "AddUnique" ELSE "Add",
            of, on, expect)

TestRemove(on, expect) == Statement("Remove", "erase", on, expect)

TestContains(of, on, expect) == Statement("Contains", of, on, expect)

\* A mutant of Fill: the table that is used again is filled from the start.
FillAll(o) == TestAdd("data", 1..load, cmd.unique, TRUE)

\* The keys up to load that o does not hold yet
Fill(o) ==
  TestAdd("data", (Cardinality(o.held) + 1)..load, cmd.unique, TRUE)

\* A mutant of AddAgain: with the flag of the other calls.
AddAgainUnique(on) == TestAdd("add", on, cmd.unique, FALSE)

AddAgain(on) == TestAdd("add", on, FALSE, FALSE)

\* The part of TEST2 that Index leaves out; add_vector is all of erase_vector.
Removals(erase, find, unknown) ==
  << TestRemove(erase, TRUE), TestRemove(erase, FALSE),
     TestContains("erase", erase, FALSE), TestContains("add", erase, FALSE),
     TestContains("unknown", unknown, FALSE),
     TestAdd("add", erase, cmd.unique, TRUE), AddAgain(erase),
     TestContains("find", find, TRUE),
     TestRemove(erase, TRUE), TestRemove(erase, FALSE),
     TestAdd("add", erase, cmd.unique, TRUE), AddAgain(erase) >>

Lookups(erase, find, unknown) ==
  << TestContains("erase", erase, TRUE), TestContains("add", erase, TRUE),
     TestContains("find", find, TRUE),
     TestContains("unknown", unknown, FALSE) >>

\* The first, the middle and the last keys
Windows(op) ==
  LET w     == Window(load)
      at(i) == Statement(op, "data", (i + 1)..(i + w), TRUE)
  IN  << at(0), at(load \div 2 - w \div 2), at(load - w) >>

TestScript(erase, find, unknown) ==
  CASE Test = 1 -> << >>
    [] Test = 2 /\ Head(jobs) = "index" -> Lookups(erase, find, unknown)
    [] Test = 2 /\ Head(jobs) # "index" -> Removals(erase, find, unknown)
                                            \o Lookups(erase, find, unknown)
    [] Test = 3 -> Windows("Contains")
    [] Test = 4 -> Windows("Reverse")
    [] Test = 5 -> << Statement("Iterate", "data", 1..load, TRUE) >>

\* opCounter at the end of the test
OpCounter ==
  CASE Test = 1 -> Cardinality(object.held)
    [] Test = 2 -> (IF Head(jobs) = "index" THEN 4 ELSE 16) * TestLoad(load)
    [] Test \in {3, 4} -> 3 * Window(load)
    [] Test = 5 -> 10 * Cardinality(object.held)

-----------------------------------------------------------------------------
(* The program.                                                            *)

\* The process ends, by return, exit, abort or an exception.
Ended(how) ==
  /\ Exit(how)
  /\ cmd' = None /\ jobs' = <<>> /\ load' = 0
  /\ object' = None /\ script' = <<>>
  /\ UNCHANGED disk

Init ==
  /\ DataInit
  /\ cmd = None /\ jobs = <<>> /\ load = 0 /\ object = None /\ script = <<>>

\* `rnd`
Rnd(s, g) == Generate(s, g) /\ UNCHANGED bench

\* `run`, up to the loop over the tables
Run(c) ==
  /\ phase = "shell"
  /\ \E n \in Headers :
       \/ /\ Rejects(n, c.seq)
          /\ result' = "failed"
          /\ UNCHANGED <<phase, disk, gen, data_set, bench>>
       \/ /\ ~Rejects(n, c.seq)
          /\ phase' = "bench" /\ result' = "running"
          /\ GetDataSet(n, c.seq, c.shuffle)
          /\ cmd' = c /\ jobs' = Jobs(c)
          /\ load' = StartLoad(c.start, MaxLoad(n, c.max))
          /\ UNCHANGED <<disk, gen, object, script>>

\* The loop over the loads is left: the next table, if there is one.
NextJob ==
  /\ phase = "bench" /\ load > Top
  /\ \/ /\ Tail(jobs) # <<>>
        /\ jobs' = Tail(jobs) /\ load' = StartLoad(cmd.start, Top)
        /\ object' = None
        /\ UNCHANGED <<dataVars, cmd, script>>
     \/ Tail(jobs) = <<>> /\ Ended("done")

\* The assertions of MakeTestVector
VectorsFit == load <= Len(data_set) /\ TestLoad(load) <= MARGIN

\* Init, MakeTestVector and the start of Bench, at one load.  The generator
\* of the samples is seeded, but it may be any of them.
Round ==
  LET Sample(ps) == kSubset(Min({TestLoad(load), Cardinality(ps)}), ps)
  IN  /\ phase = "bench" /\ load <= Top
      /\ \/ ~VectorsFit /\ Ended("aborted")
         \/ /\ VectorsFit
            /\ phase' = "test"
            /\ object' = Initialised
            /\ \E erase \in Sample(1..load), find \in Sample(1..load),
                  unknown \in Sample((TestLoad(load) + 1)..Len(data_set)) :
                 script' = << Fill(Initialised),
                              Statement("Count", "data", 1..load, TRUE) >>
                             \o TestScript(erase, find, unknown)
            /\ UNCHANGED <<result, disk, gen, data_set, cmd, jobs, load>>

\* One assertion of the test.  Backwards from the last of no keys, the index
\* is 2^32 - 1: "wild".
Step ==
  LET s == Head(script)
  IN  /\ phase = "test" /\ script # <<>>
      /\ \/ s.op = "Reverse" /\ s.on = {} /\ Ended("wild")
         \/ /\ ~(s.op = "Reverse" /\ s.on = {})
            /\ Answer(s) # s.expect /\ Ended("aborted")
         \/ /\ ~(s.op = "Reverse" /\ s.on = {})
            /\ Answer(s) = s.expect
            /\ object' = After(s) /\ script' = Tail(script)
            /\ UNCHANGED <<dataVars, cmd, jobs, load>>

\* _KeysSum == KeysSum(), in 64 bits
SumsAgree ==
  LET Itself(k) == k
  IN  MapThenSumSet(Key, 1..load) % (HALF * HALF)
        = MapThenSumSet(Itself, object.held) % (HALF * HALF)

\* Integer divisions of the report; TEST5 divides a double by opCounter.
DividesByZero == load = 0 \/ (Test # 5 /\ OpCounter = 0)

\* What the end of Bench comes to
Verdict ==
  IF ~SumsAgree THEN "aborted"
  ELSE IF DividesByZero THEN "divided by zero" ELSE "reported"

\* The end of Bench and the step of the loop over the loads
Report ==
  /\ phase = "test" /\ script = <<>>
  /\ \/ Verdict # "reported" /\ Ended(Verdict)
     \/ /\ Verdict = "reported"
        /\ phase' = "bench" /\ load' = NextLoad
        /\ UNCHANGED <<result, disk, gen, data_set, cmd, jobs, object, script>>

\* What the process does by itself
Program ==
  \/ (Draw \/ Finish) /\ UNCHANGED bench
  \/ NextJob
  \/ Round
  \/ Step
  \/ Report

Next ==
  \/ \E s \in DataSizes, g \in Generators : Rnd(s, g)
  \/ \E c \in CommandLines : Run(c)
  \/ Killed /\ UNCHANGED bench
  \/ Program

\* A process that is started runs.
Spec == Init /\ [][Next]_vars /\ WF_vars(Program)

-----------------------------------------------------------------------------
Running == phase \in {"bench", "test"}

Failures == {"aborted", "divided by zero", "wild"}

Random == Running /\ cmd.seq = 0

\* In a random data set that GetDataSet has taken, no half of a value occurs
\* again in another or in the other half, so that 32-bit keys are as distinct
\* as 64-bit ones: though the low half of a value that GenerateDataSet threw
\* away stays marked, whatever was killed, truncated or shuffled.
HalvesDistinct ==
  Random => \A i, j \in DOMAIN data_set :
              /\ low(data_set[i]) # high(data_set[j])
              /\ i # j => /\ low(data_set[i]) # low(data_set[j])
                          /\ high(data_set[i]) # high(data_set[j])

\* A random data set in use has the values of one whole generation and no
\* others: a file cut short by a full disk or a killed `rnd` is rejected.
WholeOrRejected ==
  Random => \E s \in DataSizes, g \in Generators :
              Len(data_set) = Values(s) /\ Range(data_set) \subseteq Range(g)

\* What Map asks of a client that adds (MayAdd of SimdHashMap): with tests,
\* reuse of the table and AddUnique in any combination, Bench adds a key that
\* the table holds only if it has not removed any since it added that one,
\* and never with AddUnique.
KeepsContract ==
  phase = "test" /\ script # <<>> =>
    LET s == Head(script)
    IN  /\ s.op = "Add" => \A k \in KeysAt(s.on) \cap object.held :
                             k \in object.fresh \/ ~object.tombstones
        /\ s.op = "AddUnique" => /\ KeysAt(s.on) \cap object.held = {}
                                 /\ Distinct(s.on)

\* The benchmark fails at the edges of its sizes and nowhere else: when a
\* sample or a window has no key, when a sample is larger than the values on
\* top (line 121), or when all of unknown_vector happens to be stored, for it
\* is sampled behind the first test_load values and not behind load (136).
FailsOnlyAtTheEdges ==
  [][result = "running" /\ result' \in Failures =>
       \/ load = 0
       \/ Test = 2 /\ TestLoad(load) = 0
       \/ Test \in {3, 4} /\ Window(load) = 0
       \/ TestLoad(load) > MARGIN
       \/ /\ script # <<>> /\ Head(script).of = "unknown"
          /\ Head(script).on \subseteq 1..load]_vars

\* Every process ends, unless it is a run that steps its load by 0.
BenchEnds ==
  phase = "generate" \/ (Running /\ StepLoad(cmd.step) > 0) ~> phase = "shell"
=============================================================================
