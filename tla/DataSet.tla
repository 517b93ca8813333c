------------------------------ MODULE DataSet ------------------------------
(***************************************************************************)
(* The data set of the benchmark: GenerateDataSet writes a file of random  *)
(* values whose 32-bit halves are all different, GetDataSet reads it back. *)
(*                                                                         *)
(* A word is the pair <<low half, high half>>; the file is the sequence of *)
(* the words that reached the disk, the number of values first.  The       *)
(* generator and the shuffle are seeded with constants, so each run makes  *)
(* the same draws; Generators and Shuffle stand for them.                  *)
(*                                                                         *)
(* A write may fail (the disk is full): the stream is bad from then on and *)
(* drops what follows, and nobody looks.  The process may be killed while  *)
(* it generates.                                                           *)
(***************************************************************************)
EXTENDS BenchPlan, SequencesExt

CONSTANTS
  Generators,     \* beginnings of what mt19937_64(1) may give, each with as
                  \* many new values as the largest data set needs
  Shuffle(_),     \* Shuffle(n)[i]: where std::shuffle takes value i of n from
  ALIGN,          \* what the size is checked to be a multiple of: 1024
  CHUNK,          \* values read at once: 128 * 1024 / sizeof(uint64_t)
  BUFFER,         \* words written at once: 128 * 1024
  HALF,           \* 2^32, the values of a half
  Uninitialised   \* what data_set_size may be if the file is too short for it

\* uint64_t, as two halves
Words == (0..(HALF - 1)) \X (0..(HALF - 1))

ASSUME DataSetAssumption ==
  /\ {ALIGN, CHUNK, BUFFER, HALF} \subseteq Nat \ {0}
  /\ Uninitialised \subseteq Nat
  /\ Generators \subseteq Seq(Words)
  /\ \A s \in DataSizes : Values(s) % CHUNK = 0
  /\ \A n \in {Values(s) : s \in DataSizes} \cup Uninitialised :
       Units(n) \in DataSizes =>
         /\ n < HALF
         /\ IsInjective(Shuffle(n)) /\ Shuffle(n) \in [1..n -> 1..n]

VARIABLES
  phase,      \* what the program is doing; "shell" when it is not running
  result,     \* how it ended, or that it is running
  exists,     \* there is a file SimdHash.dat
  file,       \* the words in it
  rnds,       \* the values the generator has still to give
  judy,       \* JArrayMain
  size,       \* data_set_size
  count,      \* count
  buffer,     \* buffer
  bad,        \* the stream has failed
  data_set    \* data_set

disk == <<exists, file>>
gen  == <<rnds, judy, size, count, buffer, bad>>
dataVars == <<phase, result, disk, gen, data_set>>

low(w)  == w[1]
high(w) == w[2]
Word(n) == <<n % HALF, n \div HALF>>

\* The program ends; all it leaves is the file.
Exit(how) ==
  /\ phase' = "shell" /\ result' = how
  /\ rnds' = <<>> /\ judy' = {} /\ size' = 0 /\ count' = 0
  /\ buffer' = <<>> /\ bad' = FALSE
  /\ data_set' = <<>>

DataInit ==
  /\ phase = "shell" /\ result = "none"
  /\ exists = FALSE /\ file = <<>>
  /\ rnds = <<>> /\ judy = {} /\ size = 0 /\ count = 0
  /\ buffer = <<>> /\ bad = FALSE
  /\ data_set = <<>>

-----------------------------------------------------------------------------
(* GenerateDataSet.                                                        *)

\* The file is opened and cut to nothing, or cannot be opened and stays.
Generate(s, g) ==
  /\ phase = "shell"
  /\ \/ /\ result' = "failed"
        /\ UNCHANGED <<phase, disk, gen, data_set>>
     \/ /\ phase' = "generate" /\ result' = "running"
        /\ exists' = TRUE /\ file' = <<>>
        /\ size' = Values(s) /\ count' = 0
        /\ buffer' = <<Word(Values(s))>>
        /\ rnds' = g /\ judy' = {} /\ bad' = FALSE
        /\ UNCHANGED data_set

\* The file and the state of the stream after outFile.write of w: what is
\* lost when a write fails is not written later.
AfterWrite(w) ==
  IF bad THEN {<<file, TRUE>>}
         ELSE {<<file \o w, FALSE>>}
                \cup {<<file \o p, TRUE>> : p \in Prefixes(w)}

\* A mutant of Fresh: the high half is not looked up.
FreshLow(w) == low(w) \notin judy

\* J1S says that both halves are new.
Fresh(w) == low(w) \notin judy /\ high(w) \notin judy \cup {low(w)}

\* The low half stays marked when the high half turns out to be known.
Marked(w) == IF low(w) \in judy THEN judy ELSE judy \cup {low(w), high(w)}

\* One turn of the loop; the generator does not run out of values.
Draw ==
  LET w    == Head(rnds)
      more == Append(buffer, w)
  IN  /\ phase = "generate" /\ count < size /\ rnds # <<>>
      /\ rnds' = Tail(rnds) /\ judy' = Marked(w)
      /\ \/ ~Fresh(w) /\ UNCHANGED <<count, buffer, file, bad>>
         \/ /\ Fresh(w)
            /\ count' = count + 1
            /\ \/ /\ Len(more) < BUFFER
                  /\ buffer' = more /\ UNCHANGED <<file, bad>>
               \/ /\ Len(more) = BUFFER
                  /\ buffer' = <<>>
                  /\ \E after \in AfterWrite(more) :
                       file' = after[1] /\ bad' = after[2]
      /\ UNCHANGED <<phase, result, exists, size, data_set>>

\* What is left in the buffer is written, and the file closed.
Finish ==
  /\ phase = "generate" /\ count = size
  /\ Exit("done")
  /\ \E after \in AfterWrite(buffer) : file' = after[1]
  /\ UNCHANGED exists

\* The process dies; of what it wrote, some is on the disk.
Killed ==
  /\ phase = "generate"
  /\ Exit("killed")
  /\ file' \in Prefixes(file)
  /\ UNCHANGED exists

-----------------------------------------------------------------------------
(* GetDataSet.                                                             *)

\* data_set_size as it is read, or as it was in memory
Headers == IF file = <<>> THEN Uninitialised ELSE {low(file[1])}

HeaderOK(n) ==
  Units(n) \in DataSizes /\ (n - UNIT) % ALIGN = 0

\* -seq, -rseq and -mseq
Sequential(n, type) ==
  LET last   == HALF * HALF - 1
      nth(i) == CASE type = 2 -> last - (i - 1)
                  [] type = 3 -> last \div 2 - n \div 2 - 1 + (i - 1)
                  [] OTHER    -> i - 1
  IN  [i \in 1..n |-> Word(nth(i))]

\* A mutant of ChunksRead: a chunk that is cut short is taken.
ChunksReadShort(n) == Len(file) - 1 > n - CHUNK

\* Every read of CHUNK values up to n succeeds.
ChunksRead(n) == Len(file) - 1 >= ((n + CHUNK - 1) \div CHUNK) * CHUNK

\* The values after the first word; data_set is zero where nothing was read.
FromFile(n) == [i \in 1..n |-> IF i < Len(file) THEN file[i + 1] ELSE Word(0)]

GetDataSet(n, type, shuffle) ==
  LET data == IF type > 0 THEN Sequential(n, type) ELSE FromFile(n)
  IN  data_set' = IF shuffle THEN [i \in 1..n |-> data[Shuffle(n)[i]]] ELSE data

\* exit(-1): no file, a first word that is no size, or a file that is short
Rejects(n, type) == ~exists \/ ~HeaderOK(n) \/ (type = 0 /\ ~ChunksRead(n))
=============================================================================
