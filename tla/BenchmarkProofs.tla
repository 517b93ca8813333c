-------------------------- MODULE BenchmarkProofs --------------------------
(***************************************************************************)
(* Theorems about Benchmark: the data set that is generated, written, cut  *)
(* short, read back and shuffled, and the calls of the table that the      *)
(* tests make with it.                                                     *)
(***************************************************************************)
EXTENDS Benchmark, SequenceTheorems, FiniteSetTheorems, TLAPS

-----------------------------------------------------------------------------
(* The words of a file.                                                    *)

\* The halves of the words of f at these positions are all different.
HalvesApart(f, positions) ==
  \A i, j \in positions :
    /\ low(f[i]) # high(f[j])
    /\ i # j => low(f[i]) # low(f[j]) /\ high(f[i]) # high(f[j])

\* f is what a generation of data set s from g has written, or the beginning
\* of it: the number of values, then values of g with new halves.
Sound(f, s, g) ==
  /\ f \in Seq(Words)
  /\ f # <<>> => f[1] = Word(Values(s))
  /\ \A i \in 2..Len(f) : f[i] \in Range(g)
  /\ HalvesApart(f, 2..Len(f))

\* the halves of the values in f are marked
AllMarked(f) ==
  \A i \in 2..Len(f) : low(f[i]) \in judy /\ high(f[i]) \in judy

\* What is on the disk is the beginning of a data set, also after a write that
\* failed and a process that was killed.
FileInv == file = <<>> \/ \E s \in DataSizes, g \in Generators : Sound(file, s, g)

\* As long as no write has failed, so is what is written and buffered taken
\* together, and all its halves are marked.
GenerateInv ==
  phase = "generate" =>
    \E s \in DataSizes, g \in Generators :
      /\ rnds \in Seq(Range(g)) /\ Sound(file, s, g)
      /\ buffer \in Seq(Words)
      /\ ~bad => /\ file \o buffer # <<>>
                 /\ Sound(file \o buffer, s, g) /\ AllMarked(file \o buffer)

\* The data set of a run with random keys is that of one generation.
RunInv ==
  Random =>
    \E s \in DataSizes, g \in Generators :
      /\ DOMAIN data_set = 1..Values(s) /\ Len(data_set) = Values(s)
      /\ Range(data_set) \subseteq Range(g)
      /\ HalvesApart(data_set, 1..Values(s))

DataInv ==
  /\ phase \in {"shell", "generate", "bench", "test"}
  /\ FileInv /\ GenerateInv /\ RunInv

\* A sequence and its beginnings.
LEMMA Beginning ==
  ASSUME NEW S, NEW f \in Seq(S), NEW p \in Prefixes(f)
  PROVE  /\ p \in Seq(S) /\ Len(p) <= Len(f)
         /\ \A i \in 1..Len(p) : p[i] = f[i]
<1>1. PICK l \in 0..Len(f) : p = SubSeq(f, 1, l)
  BY DEF Prefixes
<1>2. \A i \in 1..l : f[i] \in S
  BY <1>1, ElementOfSeq
<1>3. /\ p \in Seq(S) /\ Len(p) = IF 1 <= l THEN l - 1 + 1 ELSE 0
      /\ \A i \in 1..(l - 1 + 1) : p[i] = f[1 + i - 1]
  BY <1>1, <1>2, SubSeqProperties
<1>4. l \in Nat /\ l <= Len(f) /\ Len(f) \in Nat
  BY <1>1
<1> QED
  BY <1>3, <1>4

\* f and a beginning of w is a beginning of f and w.
LEMMA ConcatBeginning ==
  ASSUME NEW S, NEW f \in Seq(S), NEW w \in Seq(S), NEW p \in Prefixes(w)
  PROVE  f \o p \in Prefixes(f \o w)
<1>1. /\ p \in Seq(S) /\ Len(p) <= Len(w)
      /\ \A i \in 1..Len(p) : p[i] = w[i]
  BY Beginning
<1> DEFINE l == Len(f) + Len(p)
           q == SubSeq(f \o w, 1, l)
<1>2. /\ f \o w \in Seq(S) /\ Len(f \o w) = Len(f) + Len(w)
      /\ \A i \in 1..(Len(f) + Len(w)) :
           (f \o w)[i] = IF i <= Len(f) THEN f[i] ELSE w[i - Len(f)]
  BY ConcatProperties
<1>3. /\ f \o p \in Seq(S) /\ Len(f \o p) = l
      /\ \A i \in 1..l : (f \o p)[i] = IF i <= Len(f) THEN f[i] ELSE p[i - Len(f)]
  BY <1>1, ConcatProperties
<1>4. l \in 0..Len(f \o w) /\ l \in Int /\ Len(f) \in Nat /\ Len(p) \in Nat /\ Len(w) \in Nat
  BY <1>1, <1>2
<1>5. \A i \in 1..l : (f \o w)[i] \in S
  BY <1>2, <1>4, ElementOfSeq
<1>6. /\ q \in Seq(S) /\ Len(q) = IF 1 <= l THEN l - 1 + 1 ELSE 0
      /\ \A i \in 1..(l - 1 + 1) : q[i] = (f \o w)[1 + i - 1]
  BY <1>4, <1>5, SubSeqProperties
<1> HIDE DEF q
<1>7. Len(q) = l /\ \A i \in 1..l : q[i] = (f \o w)[i]
  BY <1>4, <1>6
<1>8. \A i \in 1..l : (f \o p)[i] = (f \o w)[i]
  <2> TAKE i \in 1..l
  <2>1. i \in 1..(Len(f) + Len(w))
    BY <1>1, <1>4
  <2>2. CASE i <= Len(f)
    BY <1>2, <1>3, <2>1, <2>2
  <2>3. CASE ~(i <= Len(f))
    <3>1. i - Len(f) \in 1..Len(p)
      BY <1>4, <2>3
    <3> QED
      BY <1>1, <1>2, <1>3, <2>1, <2>3, <3>1
  <2> QED
    BY <2>2, <2>3
<1>9. f \o p = q
  BY <1>3, <1>6, <1>7, <1>8, SeqEqual
<1> QED
  BY <1>4, <1>9 DEF Prefixes, q

\* A beginning of a sound file is sound.
LEMMA SoundBeginning ==
  ASSUME NEW s, NEW g, NEW f, Sound(f, s, g), NEW p \in Prefixes(f)
  PROVE  Sound(p, s, g)
<1>1. f \in Seq(Words)
  BY DEF Sound
<1>2. /\ p \in Seq(Words) /\ Len(p) <= Len(f)
      /\ \A i \in 1..Len(p) : p[i] = f[i]
  BY <1>1, Beginning
<1>3. Len(p) \in Nat /\ Len(f) \in Nat
  BY <1>1, <1>2
<1>4. p # <<>> => f # <<>> /\ p[1] = f[1]
  <2>1. p # <<>> => Len(p) # 0
    BY <1>2, EmptySeq
  <2>2. f = <<>> => Len(f) = 0
    OBVIOUS
  <2> QED
    BY <1>2, <1>3, <2>1, <2>2
<1>5. \A i \in 2..Len(p) : i \in 2..Len(f) /\ p[i] = f[i]
  BY <1>2, <1>3
<1> QED
  BY <1>2, <1>4, <1>5 DEF Sound, HalvesApart

\* A new value whose halves are not marked may follow.
LEMMA SoundMore ==
  ASSUME NEW s, NEW g, NEW f, Sound(f, s, g), f # <<>>, AllMarked(f),
         NEW w \in Words, w \in Range(g), Fresh(w)
  PROVE  /\ Sound(Append(f, w), s, g)
         /\ \A i \in 2..Len(Append(f, w)) :
              /\ low(Append(f, w)[i]) \in judy \cup {low(w), high(w)}
              /\ high(Append(f, w)[i]) \in judy \cup {low(w), high(w)}
<1> DEFINE more == Append(f, w)
           n == Len(f) + 1
<1>1. f \in Seq(Words) /\ Len(f) \in Nat
  BY DEF Sound
<1>2. /\ more \in Seq(Words) /\ Len(more) = n /\ more[n] = w
      /\ \A i \in 1..Len(f) : more[i] = f[i]
  BY <1>1, AppendProperties
<1>3. 1 \in 1..Len(f)
  BY <1>1, EmptySeq
<1> HIDE DEF more
<1>4. ASSUME NEW i \in 2..n
      PROVE  \/ i \in 2..Len(f) /\ more[i] = f[i]
             \/ i = n /\ more[i] = w
  BY <1>1, <1>2, <1>4
<1>5. \A i \in 2..n : more[i] \in Range(g)
  BY <1>4 DEF Sound
<1>6. low(w) # high(w) /\ low(w) \notin judy /\ high(w) \notin judy
  BY DEF Fresh
<1>7. HalvesApart(more, 2..n)
  <2> SUFFICES ASSUME NEW i \in 2..n, NEW j \in 2..n
               PROVE  /\ low(more[i]) # high(more[j])
                      /\ i # j => /\ low(more[i]) # low(more[j])
                                  /\ high(more[i]) # high(more[j])
    BY DEF HalvesApart
  <2>1. CASE i \in 2..Len(f) /\ j \in 2..Len(f)
    BY <1>1, <1>2, <1>4, <2>1 DEF Sound, HalvesApart
  <2>2. CASE i = n /\ j = n
    BY <1>2, <1>6, <2>2
  <2>3. CASE i = n /\ j \in 2..Len(f) /\ more[j] = f[j]
    BY <1>2, <1>6, <2>3 DEF AllMarked
  <2>4. CASE j = n /\ i \in 2..Len(f) /\ more[i] = f[i]
    BY <1>2, <1>6, <2>4 DEF AllMarked
  <2> QED
    BY <1>4, <2>1, <2>2, <2>3, <2>4
<1>8. ASSUME NEW i \in 2..n
      PROVE  /\ low(more[i]) \in judy \cup {low(w), high(w)}
             /\ high(more[i]) \in judy \cup {low(w), high(w)}
  BY <1>4 DEF AllMarked
<1>9. more[1] = Word(Values(s))
  BY <1>2, <1>3 DEF Sound
<1>10. Sound(more, s, g)
  BY <1>2, <1>5, <1>7, <1>9 DEF Sound
<1> QED
  BY <1>2, <1>8, <1>10 DEF more

-----------------------------------------------------------------------------
(* GenerateDataSet.                                                        *)

\* A write adds w to the file, or the stream is bad and the file sound still.
LEMMA WriteSound ==
  ASSUME NEW s, NEW g, Sound(file, s, g), NEW w \in Seq(Words),
         ~bad => Sound(file \o w, s, g), NEW after \in AfterWrite(w)
  PROVE  /\ Sound(after[1], s, g)
         /\ after[2] = TRUE \/ (~bad /\ after[1] = file \o w)
<1>1. file \in Seq(Words)
  BY DEF Sound
<1>2. CASE bad
  <2>1. after = <<file, TRUE>>
    BY <1>2 DEF AfterWrite
  <2> QED
    BY <2>1
<1>3. CASE ~bad /\ after = <<file \o w, FALSE>>
  BY <1>3
<1>4. CASE ~bad /\ \E p \in Prefixes(w) : after = <<file \o p, TRUE>>
  <2>1. PICK p \in Prefixes(w) : after = <<file \o p, TRUE>>
    BY <1>4
  <2>2. file \o p \in Prefixes(file \o w)
    BY <1>1, ConcatBeginning
  <2>3. Sound(file \o p, s, g)
    BY <1>4, <2>2, SoundBeginning
  <2> QED
    BY <2>1, <2>3
<1>5. ~bad => \/ after = <<file \o w, FALSE>>
              \/ \E p \in Prefixes(w) : after = <<file \o p, TRUE>>
  BY DEF AfterWrite
<1> QED
  BY <1>2, <1>3, <1>4, <1>5

\* The values a generator has still to give are its values.
LEMMA GeneratorSeq ==
  ASSUME NEW g \in Generators
  PROVE  g \in Seq(Range(g)) /\ Range(g) \subseteq Words
<1>1. g \in Seq(Words)
  BY DataSetAssumption
<1>2. g \in [1..Len(g) -> Words] /\ DOMAIN g = 1..Len(g) /\ Len(g) \in Nat
  BY <1>1, LenProperties
<1>3. g \in [1..Len(g) -> Range(g)]
  BY <1>2 DEF Range
<1>4. g \in Seq(Range(g))
  BY <1>2, <1>3, SeqDef
<1> QED
  BY <1>2, <1>4 DEF Range

\* The sizes that GenerateDataSet writes are ones that GetDataSet takes.
LEMMA TakenSizes ==
  /\ HALF \in Nat \ {0}
  /\ \A s \in DataSizes : Values(s) \in Nat /\ Units(Values(s)) = s
  /\ \A n \in {Values(s) : s \in DataSizes} \cup Uninitialised :
       Units(n) \in DataSizes =>
         /\ n \in Nat /\ n < HALF
         /\ Shuffle(n) \in [1..n -> 1..n]
         /\ \A a, b \in 1..n : Shuffle(n)[a] = Shuffle(n)[b] => a = b
  /\ \A s \in DataSizes : Values(s) < HALF
<1>1. HALF \in Nat \ {0} /\ Uninitialised \subseteq Nat
  BY DataSetAssumption
<1>2. ASSUME NEW s \in DataSizes
      PROVE  Values(s) \in Nat /\ Units(Values(s)) = s
  <2>1. s \in Nat /\ UNIT \in Nat \ {0} /\ MARGIN \in Nat
    BY PlanAssumption
  <2>2. s * UNIT \in Nat /\ (s * UNIT) \div UNIT = s
    BY <2>1
  <2> QED
    BY <2>1, <2>2 DEF Values, Units
<1>3. ASSUME NEW n \in {Values(s) : s \in DataSizes} \cup Uninitialised,
             Units(n) \in DataSizes
      PROVE  /\ n \in Nat /\ n < HALF
             /\ Shuffle(n) \in [1..n -> 1..n]
             /\ \A a, b \in 1..n : Shuffle(n)[a] = Shuffle(n)[b] => a = b
  <2>1. /\ n \in Nat /\ n < HALF
        /\ Shuffle(n) \in [1..n -> 1..n] /\ IsInjective(Shuffle(n))
    BY <1>1, <1>2, <1>3, DataSetAssumption
  <2> QED
    BY <2>1 DEF IsInjective
<1> QED
  BY <1>1, <1>2, <1>3

\* The number of values is the first word.
LEMMA HeaderSound ==
  ASSUME NEW s \in DataSizes, NEW g
  PROVE  /\ Sound(<<Word(Values(s))>>, s, g) /\ Sound(<<>>, s, g)
         /\ low(Word(Values(s))) = Values(s) /\ Values(s) \in Nat
<1>1. Values(s) \in Nat /\ HALF \in Nat \ {0} /\ Values(s) < HALF
  BY TakenSizes
<1>2. /\ Values(s) % HALF = Values(s) /\ Values(s) \div HALF = 0
  BY <1>1
<1>3. Word(Values(s)) \in Words /\ low(Word(Values(s))) = Values(s)
  BY <1>1, <1>2 DEF Word, Words, low
<1> DEFINE f == <<Word(Values(s))>>
<1>4. f \in Seq(Words) /\ Len(f) = 1 /\ f[1] = Word(Values(s))
  BY <1>3
<1>5. Len(<<>>) = 0 /\ <<>> \in Seq(Words)
  OBVIOUS
<1>6. 2..1 = {} /\ 2..0 = {}
  OBVIOUS
<1> HIDE DEF f
<1>7. Sound(f, s, g) /\ Sound(<<>>, s, g)
  BY <1>4, <1>5, <1>6 DEF Sound, HalvesApart
<1> QED
  BY <1>1, <1>3, <1>7 DEF f

\* `rnd` opens the file.
LEMMA GenerateKeeps ==
  ASSUME NEW s \in DataSizes, NEW g \in Generators, Generate(s, g),
         phase' = "generate"
  PROVE  FileInv' /\ GenerateInv'
<1>1. file' = <<>> /\ buffer' = <<Word(Values(s))>> /\ rnds' = g
  BY DEF Generate
<1>2. /\ Sound(<<Word(Values(s))>>, s, g) /\ Sound(<<>>, s, g)
  BY HeaderSound
<1>3. buffer' \in Seq(Words) /\ buffer' # <<>> /\ file' \o buffer' = buffer'
  <2>1. buffer' \in Seq(Words)
    BY <1>1, <1>2 DEF Sound
  <2> QED
    BY <1>1, <2>1, ConcatEmptySeq
<1>4. AllMarked(file \o buffer)'
  <2>1. Len(file' \o buffer') = 1 /\ 2..1 = {}
    BY <1>1, <1>3
  <2> QED
    BY <2>1 DEF AllMarked
<1>5. rnds' \in Seq(Range(g))
  BY <1>1, GeneratorSeq
<1> QED
  BY <1>1, <1>2, <1>3, <1>4, <1>5 DEF FileInv, GenerateInv

\* One turn of the loop of GenerateDataSet.
LEMMA DrawKeeps ==
  ASSUME GenerateInv, Draw
  PROVE  FileInv' /\ GenerateInv'
<1> DEFINE w == Head(rnds)
           f == file \o buffer
           more == Append(buffer, w)
<1>1. PICK s \in DataSizes, g \in Generators :
        /\ rnds \in Seq(Range(g)) /\ Sound(file, s, g)
        /\ buffer \in Seq(Words)
        /\ ~bad => f # <<>> /\ Sound(f, s, g) /\ AllMarked(f)
  BY DEF Draw, GenerateInv
<1>2. rnds # <<>> /\ rnds' = Tail(rnds) /\ judy' = Marked(w)
  BY DEF Draw
<1>3. w \in Range(g) /\ rnds' \in Seq(Range(g)) /\ w \in Words
  <2>1. Head(rnds) \in Range(g) /\ Tail(rnds) \in Seq(Range(g))
    BY <1>1, <1>2, HeadTailProperties
  <2> QED
    BY <1>2, <2>1, GeneratorSeq
<1>4. file \in Seq(Words) /\ more \in Seq(Words) /\ <<w>> \in Seq(Words)
  BY <1>1, <1>3 DEF Sound
<1>5. file \o more = Append(f, w)
  <2>1. more = buffer \o <<w>>
    BY <1>1, <1>3, AppendIsConcat
  <2>2. f \in Seq(Words) /\ Append(f, w) = f \o <<w>>
    BY <1>1, <1>3, <1>4, ConcatProperties, AppendIsConcat
  <2>3. (file \o buffer) \o <<w>> = file \o (buffer \o <<w>>)
    BY <1>1, <1>4, ConcatAssociative
  <2> QED
    BY <2>1, <2>2, <2>3
<1>6. judy \subseteq judy' /\ (Fresh(w) => judy' = judy \cup {low(w), high(w)})
  BY <1>2 DEF Marked, Fresh
<1>7. ASSUME Fresh(w), ~bad
      PROVE  /\ Sound(file \o more, s, g) /\ file \o more # <<>>
             /\ \A i \in 2..Len(file \o more) :
                  low((file \o more)[i]) \in judy' /\ high((file \o more)[i]) \in judy'
  <2>1. f # <<>> /\ Sound(f, s, g) /\ AllMarked(f)
    BY <1>1, <1>7
  <2> HIDE DEF f, w, more
  <2>2. f \in Seq(Words)
    BY <2>1 DEF Sound
  <2>3. Append(f, w) # <<>>
    BY <1>3, <2>2, AppendProperties
  <2> QED
    BY <1>3, <1>5, <1>6, <1>7, <2>1, <2>3, SoundMore
<1>8. CASE UNCHANGED <<buffer, file, bad>>
  <2>1. ~bad => AllMarked(f)'
    BY <1>1, <1>6, <1>8 DEF AllMarked
  <2> QED
    BY <1>1, <1>3, <1>8, <2>1 DEF FileInv, GenerateInv
<1>9. CASE Fresh(w) /\ buffer' = more /\ UNCHANGED <<file, bad>>
  <2>1. ~bad => /\ Sound(file' \o buffer', s, g) /\ file' \o buffer' # <<>>
                /\ AllMarked(file \o buffer)'
    BY <1>7, <1>9 DEF AllMarked
  <2> HIDE DEF more, w, f
  <2> QED
    BY <1>1, <1>3, <1>4, <1>9, <2>1 DEF FileInv, GenerateInv
<1>10. CASE /\ Fresh(w) /\ buffer' = <<>>
            /\ \E after \in AfterWrite(more) : file' = after[1] /\ bad' = after[2]
  <2>1. PICK after \in AfterWrite(more) : file' = after[1] /\ bad' = after[2]
    BY <1>10
  <2>2. ~bad => Sound(file \o more, s, g)
    BY <1>7, <1>10
  <2> HIDE DEF more, w, f
  <2>3. /\ Sound(file', s, g)
        /\ bad' = TRUE \/ (~bad /\ file' = file \o more)
    BY <1>1, <1>4, <2>1, <2>2, WriteSound
  <2>4. file' \o buffer' = file' /\ buffer' \in Seq(Words)
    <3>1. file' \in Seq(Words)
      BY <2>3 DEF Sound
    <3> QED
      BY <1>10, <3>1, ConcatEmptySeq, EmptySeq
  <2>5. ~bad' => /\ Sound(file' \o buffer', s, g) /\ file' \o buffer' # <<>>
                 /\ AllMarked(file \o buffer)'
    BY <1>7, <1>10, <2>3, <2>4 DEF AllMarked
  <2> QED
    BY <1>1, <1>3, <2>3, <2>4, <2>5 DEF FileInv, GenerateInv
<1> QED
  BY <1>8, <1>9, <1>10 DEF Draw

\* The file is closed, whole or not, or the process is killed.
LEMMA EndKeeps ==
  ASSUME FileInv, GenerateInv, Finish \/ Killed
  PROVE  FileInv' /\ GenerateInv'
<1>1. phase = "generate" /\ phase' = "shell"
  BY DEF Finish, Killed, Exit
<1>2. PICK s \in DataSizes, g \in Generators :
        /\ Sound(file, s, g) /\ buffer \in Seq(Words)
        /\ ~bad => Sound(file \o buffer, s, g)
  BY <1>1 DEF GenerateInv
<1>3. CASE Finish
  <2>1. PICK after \in AfterWrite(buffer) : file' = after[1]
    BY <1>3 DEF Finish
  <2>2. Sound(file', s, g)
    BY <1>2, <2>1, WriteSound
  <2> QED
    BY <1>1, <2>2 DEF FileInv, GenerateInv
<1>4. CASE Killed
  <2>1. Sound(file', s, g)
    BY <1>2, <1>4, SoundBeginning DEF Killed
  <2> QED
    BY <1>1, <2>1 DEF FileInv, GenerateInv
<1> QED
  BY <1>3, <1>4

-----------------------------------------------------------------------------
(* GetDataSet.                                                             *)

\* Chunks that hold n values hold at least n.
LEMMA ChunksHold ==
  ASSUME NEW n \in Nat, NEW c \in Nat \ {0}
  PROVE  ((n + c - 1) \div c) * c >= n
<1> DEFINE x == n + c - 1
           q == x \div c
<1>1. x \in Nat
  OBVIOUS
<1> HIDE DEF x
<1>2. x = c * q + (x % c) /\ x % c \in 0..(c - 1) /\ q \in Nat
  BY <1>1
<1>3. q * c = c * q /\ c * q \in Nat
  BY <1>2
<1> HIDE DEF q
<1>4. q * c >= n
  BY <1>2, <1>3 DEF x
<1> QED
  BY <1>4 DEF q, x

\* The file that GetDataSet takes is all that a generation has written of the
\* number of values it begins with.
LEMMA TakenWhole ==
  ASSUME FileInv, NEW n \in Headers, ~Rejects(n, 0)
  PROVE  \E s \in DataSizes, g \in Generators :
           n = Values(s) /\ n \in Nat /\ n < Len(file) /\ Sound(file, s, g)
<1>1. ChunksRead(n)
  BY DEF Rejects
<1>2. CHUNK \in Nat \ {0} /\ Uninitialised \subseteq Nat
  BY DataSetAssumption
<1>3. file # <<>>
  <2>1. ASSUME file = <<>> PROVE FALSE
    <3>1. n \in Nat
      BY <1>2, <2>1 DEF Headers
    <3>2. Len(file) = 0
      BY <2>1
    <3>3. ((n + CHUNK - 1) \div CHUNK) * CHUNK >= n
      BY <1>2, <3>1, ChunksHold
    <3>4. (n + CHUNK - 1) \div CHUNK \in Int
      BY <1>2, <3>1
    <3>5. ((n + CHUNK - 1) \div CHUNK) * CHUNK \in Int
      BY <1>2, <3>4
    <3>6. 0 - 1 >= ((n + CHUNK - 1) \div CHUNK) * CHUNK
      BY <1>1, <3>2 DEF ChunksRead
    <3> HIDE <3>4
    <3> QED
      BY <3>1, <3>3, <3>5, <3>6
  <2> QED
    BY <2>1
<1>4. PICK s \in DataSizes, g \in Generators : Sound(file, s, g)
  BY <1>3 DEF FileInv
<1>5. n = Values(s) /\ n \in Nat
  <2>1. n = low(file[1])
    BY <1>3 DEF Headers
  <2>2. file[1] = Word(Values(s))
    BY <1>3, <1>4 DEF Sound
  <2> QED
    BY <2>1, <2>2, HeaderSound
<1>6. n < Len(file)
  <2>1. Len(file) \in Nat
    BY <1>4 DEF Sound
  <2>2. ((n + CHUNK - 1) \div CHUNK) * CHUNK >= n
    BY <1>2, <1>5, ChunksHold
  <2>3. (n + CHUNK - 1) \div CHUNK \in Int
    BY <1>2, <1>5
  <2>4. ((n + CHUNK - 1) \div CHUNK) * CHUNK \in Int
    BY <1>2, <2>3
  <2>5. Len(file) - 1 >= ((n + CHUNK - 1) \div CHUNK) * CHUNK
    BY <1>1 DEF ChunksRead
  <2> QED
    BY <1>5, <2>1, <2>2, <2>4, <2>5
<1> QED
  BY <1>4, <1>5, <1>6

\* The values of a sound file, in the order of the file or shuffled.
LEMMA ReadApart ==
  ASSUME NEW s \in DataSizes, NEW g \in Generators, Sound(file, s, g),
         NEW n \in Nat, n = Values(s), n < Len(file),
         NEW shuffle, GetDataSet(n, 0, shuffle)
  PROVE  /\ DOMAIN data_set' = 1..n /\ Len(data_set') = n
         /\ Range(data_set') \subseteq Range(g)
         /\ HalvesApart(data_set', 1..n)
<1> DEFINE data == FromFile(n)
           by(i) == IF shuffle THEN Shuffle(n)[i] ELSE i
<1>1. /\ Shuffle(n) \in [1..n -> 1..n]
      /\ \A a, b \in 1..n : Shuffle(n)[a] = Shuffle(n)[b] => a = b
  BY TakenSizes
<1>2. Len(file) \in Nat
  BY DEF Sound
<1>3. \A i \in 1..n : by(i) \in 1..n
  BY <1>1
<1>4. \A i, j \in 1..n : by(i) = by(j) => i = j
  BY <1>1
<1>5. \A i \in 1..n : data[i] = file[i + 1] /\ i + 1 \in 2..Len(file)
  BY <1>2 DEF FromFile
<1>6. data_set' = [i \in 1..n |-> data[by(i)]]
  BY DEF GetDataSet, FromFile
<1> HIDE DEF by, data
<1>7. \A i \in 1..n : data_set'[i] = file[by(i) + 1] /\ by(i) + 1 \in 2..Len(file)
  BY <1>3, <1>5, <1>6
<1>8. DOMAIN data_set' = 1..n /\ Len(data_set') = n
  BY <1>6
<1>9. \A i \in 1..n : data_set'[i] \in Range(g)
  BY <1>7 DEF Sound
<1>10. \A i, j \in 1..n : i # j => by(i) + 1 # by(j) + 1
  BY <1>3, <1>4
<1>11. HalvesApart(data_set', 1..n)
  <2> SUFFICES ASSUME NEW i \in 1..n, NEW j \in 1..n
               PROVE  /\ low(data_set'[i]) # high(data_set'[j])
                      /\ i # j => /\ low(data_set'[i]) # low(data_set'[j])
                                  /\ high(data_set'[i]) # high(data_set'[j])
    BY DEF HalvesApart
  <2> QED
    BY <1>7, <1>10 DEF Sound, HalvesApart
<1>12. Range(data_set') \subseteq Range(g)
  BY <1>8, <1>9 DEF Range
<1> QED
  BY <1>8, <1>11, <1>12

\* `run` takes a file, or fails.
LEMMA RunKeeps ==
  ASSUME DataInv, NEW c \in CommandLines, Run(c)
  PROVE  DataInv'
<1>1. phase = "shell" /\ FileInv /\ UNCHANGED <<exists, file>>
  BY DEF DataInv, Run, disk
<1>2. FileInv'
  BY <1>1 DEF FileInv
<1>3. PICK n \in Headers :
        \/ UNCHANGED phase
        \/ /\ ~Rejects(n, c.seq) /\ phase' = "bench"
           /\ GetDataSet(n, c.seq, c.shuffle) /\ cmd' = c
  BY DEF Run
<1>4. CASE UNCHANGED phase
  BY <1>1, <1>2, <1>4 DEF DataInv, GenerateInv, RunInv, Random, Running
<1>5. CASE /\ ~Rejects(n, c.seq) /\ phase' = "bench"
           /\ GetDataSet(n, c.seq, c.shuffle) /\ cmd' = c
  <2>1. RunInv'
    <3> SUFFICES ASSUME c.seq = 0 PROVE RunInv'
      BY <1>5 DEF RunInv, Random
    <3>1. PICK s \in DataSizes, g \in Generators :
            n = Values(s) /\ n \in Nat /\ n < Len(file) /\ Sound(file, s, g)
      BY <1>1, <1>5, TakenWhole
    <3>2. /\ DOMAIN data_set' = 1..n /\ Len(data_set') = n
          /\ Range(data_set') \subseteq Range(g)
          /\ HalvesApart(data_set', 1..n)
      BY <1>5, <3>1, ReadApart
    <3> QED
      BY <3>1, <3>2 DEF RunInv
  <2> QED
    BY <1>2, <1>5, <2>1 DEF DataInv, GenerateInv
<1> QED
  BY <1>3, <1>4, <1>5

\* The bench leaves file and data set alone, and the process ends.
LEMMA BenchKeeps ==
  ASSUME DataInv, NextJob \/ Round \/ Step \/ Report
  PROVE  DataInv'
<1>1. phase \in {"bench", "test"}
  BY DEF NextJob, Round, Step, Report
<1>2. UNCHANGED file
  BY DEF NextJob, Round, Step, Report, Ended, disk, dataVars
<1>3. \/ phase' = "shell"
      \/ phase' \in {"bench", "test"} /\ UNCHANGED <<data_set, cmd>>
  BY <1>1 DEF NextJob, Round, Step, Report, Ended, Exit, dataVars
<1>4. FileInv'
  BY <1>2 DEF DataInv, FileInv
<1> QED
  BY <1>1, <1>3, <1>4 DEF DataInv, GenerateInv, RunInv, Random, Running

\* The invariant of the data set.
LEMMA DataInvariant == Spec => []DataInv
<1>1. Init => DataInv
  BY DEF Init, DataInit, DataInv, FileInv, GenerateInv, RunInv, Random, Running
<1>2. DataInv /\ [Next]_vars => DataInv'
  <2> SUFFICES ASSUME DataInv, [Next]_vars PROVE DataInv'
    OBVIOUS
  <2>1. ASSUME NEW s \in DataSizes, NEW g \in Generators, Rnd(s, g) PROVE DataInv'
    <3>1. CASE phase' = "generate"
      <4>1. FileInv' /\ GenerateInv'
        BY <2>1, <3>1, GenerateKeeps DEF Rnd
      <4> QED
        BY <3>1, <4>1 DEF DataInv, RunInv, Random, Running
    <3>2. CASE UNCHANGED <<phase, disk, gen, data_set>>
      BY <2>1, <3>2 DEF Rnd, bench, disk, gen, DataInv, FileInv, GenerateInv, RunInv,
         Random, Running, AllMarked
    <3> QED
      BY <2>1, <3>1, <3>2 DEF Rnd, Generate
  <2>2. ASSUME NEW c \in CommandLines, Run(c) PROVE DataInv'
    BY <2>2, RunKeeps
  <2>3. CASE Draw
    <3>1. phase' = "generate"
      BY <2>3 DEF Draw
    <3>2. FileInv' /\ GenerateInv'
      BY <2>3, DrawKeeps DEF DataInv
    <3> QED
      BY <3>1, <3>2 DEF DataInv, RunInv, Random, Running
  <2>4. CASE Finish \/ Killed
    <3>1. phase' = "shell"
      BY <2>4 DEF Finish, Killed, Exit
    <3>2. FileInv' /\ GenerateInv'
      BY <2>4, EndKeeps DEF DataInv
    <3> QED
      BY <3>1, <3>2 DEF DataInv, RunInv, Random, Running
  <2>5. CASE NextJob \/ Round \/ Step \/ Report
    BY <2>5, BenchKeeps
  <2>6. CASE UNCHANGED vars
    BY <2>6 DEF vars, dataVars, disk, gen, bench, DataInv, FileInv, GenerateInv, RunInv,
       Random, Running, AllMarked
  <2> QED
    BY <2>1, <2>2, <2>3, <2>4, <2>5, <2>6 DEF Next, Program
<1> QED
  BY <1>1, <1>2, PTL DEF Spec

\* HalvesDistinct: in a random data set in use no 32-bit half occurs twice,
\* whatever files were generated, cut short and shuffled before
\* (GenerateDataSet and GetDataSet, DataSet.cpp lines 20 to 175).
THEOREM HalvesOccurOnce == Spec => []HalvesDistinct
<1>1. DataInv => HalvesDistinct
  BY DEF DataInv, RunInv, HalvesDistinct, HalvesApart
<1> QED
  BY <1>1, DataInvariant, PTL

\* WholeOrRejected: a random data set in use is that of one whole generation
\* (GetDataSet rejects a short file, DataSet.cpp lines 26 to 85).
THEOREM ShortFilesRejected == Spec => []WholeOrRejected
<1>1. DataInv => WholeOrRejected
  BY DEF DataInv, RunInv, WholeOrRejected
<1> QED
  BY <1>1, DataInvariant, PTL

-----------------------------------------------------------------------------
(* The keys of a data set.                                                 *)

\* No key occurs twice in the data set.
KeysDiffer ==
  /\ Len(data_set) \in Nat /\ DOMAIN data_set = 1..Len(data_set)
  /\ \A i, j \in 1..Len(data_set) : Key(i) = Key(j) => i = j

\* A number in halves.
LEMMA Halves ==
  ASSUME NEW d \in Nat \ {0}, NEW x \in Int
  PROVE  /\ x = d * (x \div d) + (x % d) /\ x % d \in 0..(d - 1) /\ x \div d \in Int
OBVIOUS

\* Numbers that are less than HALF apart differ in the low half.
LEMMA NearDiffer ==
  ASSUME NEW d \in Nat \ {0}, NEW x \in Int, NEW y \in Int,
         x < y, y - x < d
  PROVE  x % d # y % d
<1> DEFINE p == x \div d
           q == y \div d
<1>1. x = d * p + (x % d) /\ p \in Int /\ x % d \in 0..(d - 1)
  BY Halves
<1>2. y = d * q + (y % d) /\ q \in Int /\ y % d \in 0..(d - 1)
  BY Halves
<1> HIDE DEF p, q
<1>3. ASSUME x % d = y % d PROVE FALSE
  <2>1. d * q - d * p = y - x /\ d * q \in Int /\ d * p \in Int
    BY <1>1, <1>2, <1>3
  <2>2. q - p \in Int /\ d * (q - p) = y - x
    BY <1>1, <1>2, <2>1
  <2>3. CASE q - p >= 1
    <3>1. d * (q - p) >= d
      BY <2>2, <2>3
    <3> QED
      BY <2>2, <3>1
  <2>4. CASE q - p <= 0
    <3>1. d * (q - p) <= 0
      BY <2>2, <2>4
    <3> QED
      BY <2>2, <3>1
  <2> QED
    BY <2>2, <2>3, <2>4
<1> QED
  BY <1>3

\* The keys of words that are near each other differ, 32 bits of them or all 64.
LEMMA SequentialKeys ==
  ASSUME HALF \in Nat \ {0}, NEW x \in Int, NEW y \in Int,
         x # y, x - y < HALF, y - x < HALF
  PROVE  /\ low(Word(x)) # low(Word(y))
         /\ HALF * high(Word(x)) + low(Word(x)) # HALF * high(Word(y)) + low(Word(y))
<1>1. CASE x < y
  <2>1. x % HALF # y % HALF
    BY <1>1, NearDiffer
  <2>2. x = HALF * (x \div HALF) + (x % HALF) /\ y = HALF * (y \div HALF) + (y % HALF)
    BY Halves
  <2> QED
    BY <2>1, <2>2 DEF Word, low, high
<1>2. CASE y < x
  <2>1. y % HALF # x % HALF
    BY <1>2, NearDiffer
  <2>2. x = HALF * (x \div HALF) + (x % HALF) /\ y = HALF * (y \div HALF) + (y % HALF)
    BY Halves
  <2> QED
    BY <2>1, <2>2 DEF Word, low, high
<1> QED
  BY <1>1, <1>2

\* So do those of words whose low halves differ.
LEMMA WordKeys ==
  ASSUME NEW v \in Words, NEW w \in Words, low(v) # low(w), HALF \in Nat \ {0}
  PROVE  HALF * high(v) + low(v) # HALF * high(w) + low(w)
<1>1. PICK a \in 0..(HALF - 1), b \in 0..(HALF - 1), c \in 0..(HALF - 1),
           d \in 0..(HALF - 1) :
        low(v) = a /\ high(v) = b /\ low(w) = c /\ high(w) = d
  BY DEF Words, low, high
<1>2. (HALF * b + a) % HALF = a /\ (HALF * d + c) % HALF = c
  OBVIOUS
<1> QED
  BY <1>1, <1>2

\* A key for each position.
LEMMA KeysImage ==
  ASSUME KeysDiffer, NEW ps \in SUBSET (1..Len(data_set))
  PROVE  /\ IsFiniteSet(KeysAt(ps)) /\ Distinct(ps)
         /\ \A qs \in SUBSET (1..Len(data_set)) :
              ps \cap qs = {} => KeysAt(ps) \cap KeysAt(qs) = {}
<1> DEFINE f == [p \in ps |-> Key(p)]
<1>1. f \in Bijection(ps, KeysAt(ps))
  <2>1. f \in [ps -> KeysAt(ps)] /\ \A t \in KeysAt(ps) : \E p \in ps : f[p] = t
    BY DEF KeysAt
  <2>2. \A p, q \in ps : f[p] = f[q] => p = q
    BY DEF KeysDiffer
  <2> HIDE DEF f
  <2> QED
    BY <2>1, <2>2 DEF Bijection, Injection, IsInjective, Surjection
<1>2. IsFiniteSet(ps)
  <2>1. IsFiniteSet(1..Len(data_set))
    BY FS_Interval DEF KeysDiffer
  <2> QED
    BY <2>1, FS_Subset
<1>3. IsFiniteSet(KeysAt(ps)) /\ Cardinality(KeysAt(ps)) = Cardinality(ps)
  <2>1. ExistsBijection(ps, KeysAt(ps))
    BY <1>1 DEF ExistsBijection
  <2> QED
    BY <1>2, <2>1, FS_Bijection
<1>4. \A qs \in SUBSET (1..Len(data_set)) :
        ps \cap qs = {} => KeysAt(ps) \cap KeysAt(qs) = {}
  BY DEF KeysAt, KeysDiffer
<1> QED
  BY <1>3, <1>4 DEF Distinct

\* -seq, -rseq and -mseq: the words are near each other.
LEMMA SequentialNear ==
  ASSUME HALF \in Nat \ {0}, NEW n \in Nat, n < HALF, NEW type \in 1..3,
         NEW i \in 1..n, NEW j \in 1..n, i # j
  PROVE  \E x, y \in Int :
           /\ Sequential(n, type)[i] = Word(x) /\ Sequential(n, type)[j] = Word(y)
           /\ x # y /\ x - y < HALF /\ y - x < HALF
<1> DEFINE last == HALF * HALF - 1
           first == last \div 2 - n \div 2 - 1
<1>1. HALF * HALF \in Int
  OBVIOUS
<1>2. last \in Int
  BY <1>1
<1>3. first \in Int
  <2> HIDE DEF last
  <2> QED
    BY <1>2
<1>4. /\ i - j < HALF /\ j - i < HALF /\ i - j # 0
  OBVIOUS
<1>5. CASE type = 2
  <2>1. /\ Sequential(n, type)[i] = Word(last - (i - 1))
        /\ Sequential(n, type)[j] = Word(last - (j - 1))
    BY <1>5 DEF Sequential
  <2> HIDE DEF last
  <2>2. last - (i - 1) \in Int /\ last - (j - 1) \in Int
    BY <1>2
  <2>3. /\ (last - (i - 1)) - (last - (j - 1)) = j - i
        /\ (last - (j - 1)) - (last - (i - 1)) = i - j
    BY <1>2
  <2>4. last - (i - 1) # last - (j - 1)
    BY <1>2
  <2> QED
    BY <1>4, <2>1, <2>2, <2>3, <2>4
<1>6. CASE type = 3
  <2>1. /\ Sequential(n, type)[i] = Word(first + (i - 1))
        /\ Sequential(n, type)[j] = Word(first + (j - 1))
    BY <1>6 DEF Sequential
  <2> HIDE DEF first
  <2>2. first + (i - 1) \in Int /\ first + (j - 1) \in Int
    BY <1>3
  <2>3. /\ (first + (i - 1)) - (first + (j - 1)) = i - j
        /\ (first + (j - 1)) - (first + (i - 1)) = j - i
    BY <1>3
  <2>4. first + (i - 1) # first + (j - 1)
    BY <1>3
  <2> QED
    BY <1>4, <2>1, <2>2, <2>3, <2>4
<1>7. CASE type = 1
  <2>1. /\ Sequential(n, type)[i] = Word(i - 1)
        /\ Sequential(n, type)[j] = Word(j - 1)
    BY <1>7 DEF Sequential
  <2>2. i - 1 \in Int /\ j - 1 \in Int /\ (i - 1) - (j - 1) = i - j
        /\ (j - 1) - (i - 1) = j - i /\ i - 1 # j - 1
    OBVIOUS
  <2> QED
    BY <1>4, <2>1, <2>2
<1> QED
  BY <1>5, <1>6, <1>7

\* The key that a command line makes of a word
KeyOf(c, w) == IF c.b32 THEN low(w) ELSE HALF * high(w) + low(w)

\* The sizes that GetDataSet takes.
LEMMA TakenSize ==
  ASSUME FileInv, NEW n \in Headers, HeaderOK(n)
  PROVE  /\ n \in Nat /\ n < HALF
         /\ Shuffle(n) \in [1..n -> 1..n]
         /\ \A a, b \in 1..n : Shuffle(n)[a] = Shuffle(n)[b] => a = b
<1>1. n \in {Values(s) : s \in DataSizes} \cup Uninitialised
  <2>1. CASE file = <<>>
    BY <2>1 DEF Headers
  <2>2. CASE file # <<>>
    <3>1. PICK s \in DataSizes, g \in Generators : Sound(file, s, g)
      BY <2>2 DEF FileInv
    <3>2. n = low(file[1]) /\ file[1] = Word(Values(s))
      BY <2>2, <3>1 DEF Headers, Sound
    <3> QED
      BY <3>2, HeaderSound
  <2> QED
    BY <2>1, <2>2
<1> QED
  BY <1>1, TakenSizes DEF HeaderOK

\* Whatever data set GetDataSet makes, its keys differ.
LEMMA ReadDiffer ==
  ASSUME FileInv, NEW n \in Headers, NEW c \in CommandLines, ~Rejects(n, c.seq),
         GetDataSet(n, c.seq, c.shuffle), cmd' = c
  PROVE  KeysDiffer'
<1>1. HALF \in Nat \ {0} /\ c.seq \in 0..3
  BY TakenSizes, CommandLinesAssumption DEF Flags
<1>2. /\ n \in Nat /\ n < HALF
      /\ Shuffle(n) \in [1..n -> 1..n]
      /\ \A a, b \in 1..n : Shuffle(n)[a] = Shuffle(n)[b] => a = b
  BY TakenSize DEF Rejects
<1>3. ASSUME c.seq > 0
      PROVE  /\ DOMAIN data_set' = 1..n /\ Len(data_set') = n
             /\ \A i, j \in 1..n :
                  i # j => KeyOf(c, data_set'[i]) # KeyOf(c, data_set'[j])
  <2> DEFINE by(i) == IF c.shuffle THEN Shuffle(n)[i] ELSE i
             data == Sequential(n, c.seq)
  <2>1. data_set' = [i \in 1..n |-> data[by(i)]]
    <3>1. data_set' = IF c.shuffle THEN [i \in 1..n |-> data[Shuffle(n)[i]]] ELSE data
      BY <1>3 DEF GetDataSet
    <3>2. data = [i \in 1..n |-> data[i]]
      BY DEF Sequential
    <3> QED
      BY <3>1, <3>2
  <2>2. \A i \in 1..n : by(i) \in 1..n
    BY <1>2
  <2>3. \A i, j \in 1..n : i # j => by(i) # by(j)
    BY <1>2
  <2> HIDE DEF by, data
  <2>4. ASSUME NEW i \in 1..n, NEW j \in 1..n, i # j
        PROVE  KeyOf(c, data[i]) # KeyOf(c, data[j])
    <3>1. PICK x, y \in Int :
            /\ data[i] = Word(x) /\ data[j] = Word(y)
            /\ x # y /\ x - y < HALF /\ y - x < HALF
      <4>1. PICK type \in 1..3 : type = c.seq
        BY <1>1, <1>3
      <4>2. HALF \in Nat \ {0} /\ n \in Nat /\ n < HALF /\ i # j
        BY <1>1, <1>2, <2>4
      <4>3. \E x, y \in Int :
              /\ Sequential(n, type)[i] = Word(x) /\ Sequential(n, type)[j] = Word(y)
              /\ x # y /\ x - y < HALF /\ y - x < HALF
        BY <4>2, SequentialNear
      <4> QED
        BY <4>1, <4>3 DEF data
    <3> QED
      BY <1>1, <3>1, SequentialKeys DEF KeyOf
  <2>5. \A i \in 1..n : data_set'[i] = data[by(i)]
    BY <2>1
  <2>6. DOMAIN data_set' = 1..n /\ Len(data_set') = n
    BY <1>2, <2>1
  <2> QED
    BY <2>2, <2>3, <2>4, <2>5, <2>6
<1>4. ASSUME c.seq = 0
      PROVE  /\ DOMAIN data_set' = 1..n /\ Len(data_set') = n
             /\ \A i, j \in 1..n :
                  i # j => KeyOf(c, data_set'[i]) # KeyOf(c, data_set'[j])
  <2>1. PICK s \in DataSizes, g \in Generators :
          n = Values(s) /\ n < Len(file) /\ Sound(file, s, g)
    BY <1>4, TakenWhole
  <2>2. /\ DOMAIN data_set' = 1..n /\ Len(data_set') = n
        /\ Range(data_set') \subseteq Range(g)
        /\ HalvesApart(data_set', 1..n)
    BY <1>2, <1>4, <2>1, ReadApart
  <2>3. \A i \in 1..n : data_set'[i] \in Words
    BY <2>2, GeneratorSeq DEF Range
  <2>4. ASSUME NEW i \in 1..n, NEW j \in 1..n, i # j
        PROVE  KeyOf(c, data_set'[i]) # KeyOf(c, data_set'[j])
    <3>1. low(data_set'[i]) # low(data_set'[j])
      BY <2>2, <2>4 DEF HalvesApart
    <3> QED
      BY <1>1, <2>3, <3>1, WordKeys DEF KeyOf
  <2> QED
    BY <2>2, <2>4
<1>5. /\ DOMAIN data_set' = 1..n /\ Len(data_set') = n
      /\ \A i, j \in 1..n :
           i # j => KeyOf(c, data_set'[i]) # KeyOf(c, data_set'[j])
  BY <1>1, <1>3, <1>4
<1>6. \A i : Key(i)' = KeyOf(c, data_set'[i])
  BY DEF Key, KeyOf
<1> QED
  BY <1>2, <1>5, <1>6 DEF KeysDiffer

-----------------------------------------------------------------------------
(* The statements of a test.                                               *)

Statements ==
  [op : {"Add", "AddUnique", "Remove", "Contains", "Reverse", "Count", "Iterate"},
   of : {"data", "add", "erase", "find", "unknown"},
   on : SUBSET Int, expect : BOOLEAN]

\* What the table holds as a test goes on: not filled yet, all the keys, all but
\* those of erase_vector, or these too, added since a key was last removed.
Modes == {"start", "filled", "gone", "back"}

\* A statement that may be executed in mode a, and leads to b
Follows(a, st, b, erase) ==
  \/ /\ st.op \in {"Add", "AddUnique"}
     /\ a = "start" /\ b = "filled"
  \/ /\ st.op \in {"Add", "AddUnique"} /\ st.on = erase
     /\ a = "gone" /\ b = "back"
  \/ /\ st.op = "Add" /\ st.on = erase
     /\ a = "back" /\ b = "back"
  \/ /\ st.op = "Remove" /\ st.on = erase
     /\ a # "start" /\ b = "gone"
  \/ /\ st.op \in {"Contains", "Reverse", "Count", "Iterate"}
     /\ a # "start" /\ b = a

\* The statements t lead from mode a to b.
Leads(t, a, b, erase) ==
  \E mode \in [1..(Len(t) + 1) -> Modes] :
    /\ mode[1] = a /\ mode[Len(t) + 1] = b
    /\ \A i \in 1..Len(t) : Follows(mode[i], t[i], mode[i + 1], erase)

\* What the table o holds in mode a, of the first m keys.
Stands(o, t, a, m, erase) ==
  /\ o = [held |-> o.held, fresh |-> o.fresh, tombstones |-> o.tombstones]
  /\ a = "start" => /\ t # <<>>
                    /\ \E k \in 0..m : o.held = KeysAt(1..k) /\ t[1].on = (k + 1)..m
  /\ a = "filled" => o.held = KeysAt(1..m)
  /\ a = "gone" => /\ o.held \cap KeysAt(erase) = {}
                   /\ o.held \cup KeysAt(erase) = KeysAt(1..m)
  /\ a = "back" => o.held = KeysAt(1..m) /\ KeysAt(erase) \subseteq o.fresh

\* Nothing but the mode has to be known of a test that runs.
TestInv ==
  phase = "test" =>
    \E m \in 0..Len(data_set), a \in Modes, b \in {"filled", "back"} :
      \E erase \in SUBSET (1..m) :
        /\ script \in Seq(Statements)
        /\ Leads(script, a, b, erase) /\ Stands(object, script, a, m, erase)

\* The table that is used again in the next test holds the first keys.
BenchInv ==
  /\ phase \in {"shell", "generate"} => object = None
  /\ Running => KeysDiffer /\ cmd \in CommandLines /\ load \in Int
  /\ phase = "bench" /\ object # None =>
       /\ object = [held |-> object.held, fresh |-> object.fresh,
                    tombstones |-> object.tombstones]
       /\ \E m \in 0..Len(data_set) : object.held = KeysAt(1..m)
  /\ TestInv

\* No statement is left.
LEMMA LeadsEnd ==
  ASSUME NEW a, NEW b, NEW erase, Leads(<<>>, a, b, erase)
  PROVE  a = b
<1>1. Len(<<>>) = 0 /\ 0 + 1 = 1
  OBVIOUS
<1> QED
  BY <1>1 DEF Leads

\* The first statement, and the ones behind it.
LEMMA LeadsStep ==
  ASSUME NEW t \in Seq(Statements), t # <<>>, NEW a, NEW b, NEW erase,
         Leads(t, a, b, erase)
  PROVE  /\ Head(t) = t[1] /\ Head(t) \in Statements /\ Tail(t) \in Seq(Statements)
         /\ \E c \in Modes : Follows(a, Head(t), c, erase) /\ Leads(Tail(t), c, b, erase)
<1>1. /\ Head(t) \in Statements /\ Tail(t) \in Seq(Statements)
      /\ Len(Tail(t)) = Len(t) - 1
      /\ \A i \in 1..Len(Tail(t)) : Tail(t)[i] = t[i + 1]
  BY HeadTailProperties
<1>2. Len(t) \in Nat \ {0} /\ Head(t) = t[1]
  BY EmptySeq
<1>3. PICK mode \in [1..(Len(t) + 1) -> Modes] :
        /\ mode[1] = a /\ mode[Len(t) + 1] = b
        /\ \A i \in 1..Len(t) : Follows(mode[i], t[i], mode[i + 1], erase)
  BY DEF Leads
<1> DEFINE next == [i \in 1..(Len(Tail(t)) + 1) |-> mode[i + 1]]
<1>4. next \in [1..(Len(Tail(t)) + 1) -> Modes]
  BY <1>1, <1>2, <1>3
<1>5. /\ next[1] = mode[1 + 1] /\ next[Len(Tail(t)) + 1] = b
      /\ \A i \in 1..(Len(Tail(t)) + 1) : next[i] = mode[i + 1]
  BY <1>1, <1>2, <1>3
<1>6. \A i \in 1..Len(Tail(t)) : Follows(next[i], Tail(t)[i], next[i + 1], erase)
  <2> TAKE i \in 1..Len(Tail(t))
  <2>1. i + 1 \in 1..Len(t) /\ i + 1 \in 1..(Len(Tail(t)) + 1) /\ i \in 1..(Len(Tail(t)) + 1)
    BY <1>1, <1>2
  <2>2. Follows(mode[i + 1], t[i + 1], mode[i + 1 + 1], erase)
    BY <1>3, <2>1
  <2> HIDE DEF next
  <2> QED
    BY <1>1, <1>5, <2>1, <2>2
<1> HIDE DEF next
<1>7. Leads(Tail(t), next[1], b, erase)
  BY <1>4, <1>5, <1>6 DEF Leads
<1>8. next[1] \in Modes /\ Follows(a, t[1], next[1], erase)
  <2>1. 1 \in 1..Len(t) /\ 1 \in 1..(Len(Tail(t)) + 1)
    BY <1>1, <1>2
  <2> QED
    BY <1>3, <1>4, <1>5, <2>1
<1> QED
  BY <1>1, <1>2, <1>7, <1>8

\* Statements that lead from a to b, and on to c.
LEMMA LeadsJoin ==
  ASSUME NEW t \in Seq(Statements), NEW u \in Seq(Statements),
         NEW a, NEW b, NEW c, NEW erase,
         Leads(t, a, b, erase), Leads(u, b, c, erase)
  PROVE  Leads(t \o u, a, c, erase)
<1>1. Len(t) \in Nat /\ Len(u) \in Nat
  OBVIOUS
<1>2. /\ Len(t \o u) = Len(t) + Len(u)
      /\ \A i \in 1..(Len(t) + Len(u)) :
           (t \o u)[i] = IF i <= Len(t) THEN t[i] ELSE u[i - Len(t)]
  BY ConcatProperties
<1>3. PICK p \in [1..(Len(t) + 1) -> Modes] :
        /\ p[1] = a /\ p[Len(t) + 1] = b
        /\ \A i \in 1..Len(t) : Follows(p[i], t[i], p[i + 1], erase)
  BY DEF Leads
<1>4. PICK q \in [1..(Len(u) + 1) -> Modes] :
        /\ q[1] = b /\ q[Len(u) + 1] = c
        /\ \A i \in 1..Len(u) : Follows(q[i], u[i], q[i + 1], erase)
  BY DEF Leads
<1> DEFINE n == Len(t) + Len(u)
           mode == [i \in 1..(n + 1) |-> IF i <= Len(t) THEN p[i] ELSE q[i - Len(t)]]
<1>5. mode \in [1..(n + 1) -> Modes]
  <2>1. ASSUME NEW i \in 1..(n + 1)
        PROVE  (IF i <= Len(t) THEN p[i] ELSE q[i - Len(t)]) \in Modes
    <3>1. i <= Len(t) => i \in 1..(Len(t) + 1)
      BY <1>1
    <3>2. ~(i <= Len(t)) => i - Len(t) \in 1..(Len(u) + 1)
      BY <1>1
    <3> QED
      BY <1>3, <1>4, <3>1, <3>2
  <2> QED
    BY <2>1
<1>6. \A i \in 1..(n + 1) : mode[i] = IF i <= Len(t) THEN p[i] ELSE q[i - Len(t)]
  OBVIOUS
<1> HIDE DEF mode
<1>7. \A i \in 1..(Len(t) + 1) : i \in 1..(n + 1) /\ mode[i] = p[i]
  <2> TAKE i \in 1..(Len(t) + 1)
  <2>1. i \in 1..(n + 1)
    BY <1>1
  <2>2. CASE i <= Len(t)
    BY <1>6, <2>1, <2>2
  <2>3. CASE ~(i <= Len(t))
    <3>1. i = Len(t) + 1 /\ i - Len(t) = 1
      BY <1>1, <2>3
    <3> QED
      BY <1>3, <1>4, <1>6, <2>1, <2>3, <3>1
  <2> QED
    BY <2>1, <2>2, <2>3
<1>8. \A i \in 1..(Len(u) + 1) :
        Len(t) + i \in 1..(n + 1) /\ mode[Len(t) + i] = q[i]
  BY <1>1, <1>6
<1>9. mode[1] = a /\ mode[n + 1] = c
  <2>1. 1 \in 1..(Len(t) + 1) /\ Len(u) + 1 \in 1..(Len(u) + 1)
        /\ n + 1 = Len(t) + (Len(u) + 1)
    BY <1>1
  <2> QED
    BY <1>3, <1>4, <1>7, <1>8, <2>1
<1>10. \A i \in 1..n : Follows(mode[i], (t \o u)[i], mode[i + 1], erase)
  <2> TAKE i \in 1..n
  <2>1. CASE i <= Len(t)
    <3>1. i \in 1..Len(t) /\ i \in 1..(Len(t) + 1) /\ i + 1 \in 1..(Len(t) + 1)
      BY <1>1, <2>1
    <3> QED
      BY <1>2, <1>3, <1>7, <2>1, <3>1
  <2>2. CASE ~(i <= Len(t))
    <3>1. PICK k \in 1..Len(u) : i = Len(t) + k
      <4>1. i - Len(t) \in 1..Len(u) /\ i = Len(t) + (i - Len(t))
        BY <1>1, <2>2
      <4> QED
        BY <4>1
    <3>2. /\ k \in 1..(Len(u) + 1) /\ k + 1 \in 1..(Len(u) + 1)
          /\ i + 1 = Len(t) + (k + 1) /\ i - Len(t) = k
      BY <1>1, <3>1
    <3>3. mode[i] = q[k] /\ mode[i + 1] = q[k + 1] /\ (t \o u)[i] = u[k]
      BY <1>2, <1>8, <2>2, <3>1, <3>2
    <3> QED
      BY <1>4, <3>3
  <2> QED
    BY <2>1, <2>2
<1> HIDE DEF n
<1>11. Len(t \o u) = n
  BY <1>2 DEF n
<1> QED
  BY <1>5, <1>9, <1>10, <1>11 DEF Leads

\* Statements that change nothing.
LEMMA LeadsNowhere ==
  ASSUME NEW t \in Seq(Statements), NEW a \in Modes, a # "start", NEW erase,
         \A i \in 1..Len(t) : t[i].op \in {"Contains", "Reverse", "Count", "Iterate"}
  PROVE  Leads(t, a, a, erase)
<1> DEFINE mode == [i \in 1..(Len(t) + 1) |-> a]
<1>1. Len(t) \in Nat
  OBVIOUS
<1>2. mode \in [1..(Len(t) + 1) -> Modes] /\ \A i \in 1..(Len(t) + 1) : mode[i] = a
  OBVIOUS
<1>3. mode[1] = a /\ mode[Len(t) + 1] = a
  BY <1>1, <1>2
<1>4. \A i \in 1..Len(t) : mode[i] = a /\ mode[i + 1] = a
  BY <1>1, <1>2
<1> HIDE DEF mode
<1>5. \A i \in 1..Len(t) : Follows(mode[i], t[i], mode[i + 1], erase)
  BY <1>4 DEF Follows
<1> QED
  BY <1>2, <1>3, <1>5 DEF Leads

\* A single statement.
LEMMA LeadsOne ==
  ASSUME NEW st \in Statements, NEW a \in Modes, NEW b \in Modes, NEW erase,
         Follows(a, st, b, erase)
  PROVE  Leads(<<st>>, a, b, erase) /\ <<st>> \in Seq(Statements)
<1> DEFINE mode == <<a, b>>
<1>1. mode \in [1..2 -> Modes] /\ mode[1] = a /\ mode[2] = b
  OBVIOUS
<1>2. Len(<<st>>) = 1 /\ <<st>>[1] = st /\ <<st>> \in Seq(Statements)
  OBVIOUS
<1> HIDE DEF mode
<1>3. \A i \in 1..1 : Follows(mode[i], <<st>>[i], mode[i + 1], erase)
  BY <1>1, <1>2
<1>4. /\ mode \in [1..(Len(<<st>>) + 1) -> Modes] /\ mode[Len(<<st>>) + 1] = b
      /\ \A i \in 1..Len(<<st>>) : Follows(mode[i], <<st>>[i], mode[i + 1], erase)
  BY <1>1, <1>2, <1>3
<1> QED
  BY <1>1, <1>2, <1>4 DEF Leads

\* The table after a statement that leads from a to c.
LEMMA AfterStands ==
  ASSUME NEW m \in Nat, NEW erase \in SUBSET (1..m), NEW st \in Statements,
         NEW a \in Modes, NEW c \in Modes, Follows(a, st, c, erase),
         NEW t, t # <<>>, t[1] = st, Stands(object, t, a, m, erase), NEW u
  PROVE  Stands(After(st), u, c, m, erase)
<1> DEFINE E == KeysAt(erase)
           K == KeysAt(1..m)
<1>1. E \subseteq K
  BY DEF KeysAt
<1>2. object = [held |-> object.held, fresh |-> object.fresh,
                tombstones |-> object.tombstones]
  BY DEF Stands
<1>3. CASE st.op \in {"Add", "AddUnique"}
  <2>1. After(st) = [held |-> object.held \cup KeysAt(st.on),
                     fresh |-> object.fresh \cup KeysAt(st.on),
                     tombstones |-> object.tombstones]
    <3>1. After(st) = [object EXCEPT !.held = @ \cup KeysAt(st.on),
                                     !.fresh = @ \cup KeysAt(st.on)]
      BY <1>3 DEF After
    <3> QED
      BY <1>2, <3>1
  <2>2. CASE a = "start" /\ c = "filled"
    <3>1. PICK k \in 0..m : object.held = KeysAt(1..k) /\ st.on = (k + 1)..m
      BY <2>2 DEF Stands
    <3>2. KeysAt(1..k) \cup KeysAt((k + 1)..m) = K
      <4>1. \A p : p \in 1..m <=> p \in 1..k \/ p \in (k + 1)..m
        OBVIOUS
      <4> QED
        BY <4>1 DEF KeysAt
    <3> QED
      BY <2>1, <2>2, <3>1, <3>2 DEF Stands
  <2>3. CASE a = "gone" /\ c = "back" /\ st.on = erase
    BY <2>1, <2>3 DEF Stands
  <2>4. CASE a = "back" /\ c = "back" /\ st.on = erase
    BY <1>1, <2>1, <2>4 DEF Stands
  <2> QED
    BY <1>3, <2>2, <2>3, <2>4 DEF Follows
<1>4. CASE st.op = "Remove"
  <2>1. /\ After(st).held = object.held \ E
        /\ After(st) = [held |-> After(st).held, fresh |-> After(st).fresh,
                        tombstones |-> After(st).tombstones]
        /\ c = "gone" /\ a # "start"
    BY <1>4 DEF After, Follows
  <2>2. object.held \cup E = K
    BY <1>1, <2>1 DEF Stands, Modes
  <2>3. (object.held \ E) \cap E = {} /\ (object.held \ E) \cup E = K
    BY <2>2
  <2> HIDE DEF E, K
  <2> QED
    BY <2>1, <2>3 DEF Stands, E, K
<1>5. CASE st.op \notin {"Add", "AddUnique", "Remove"}
  <2>1. After(st) = object /\ c = a /\ a # "start"
    BY <1>5 DEF After, Follows
  <2> QED
    BY <2>1 DEF Stands
<1> QED
  BY <1>3, <1>4, <1>5

\* The keys of a run stay what they are.
LEMMA SameKeys ==
  ASSUME UNCHANGED <<data_set, cmd>>
  PROVE  /\ \A ps : KeysAt(ps)' = KeysAt(ps)
         /\ KeysDiffer => KeysDiffer'
<1>1. \A p : Key(p)' = Key(p)
  BY DEF Key
<1> QED
  BY <1>1 DEF KeysAt, KeysDiffer

\* A process that ends leaves no table.
LEMMA EndedBench ==
  ASSUME NEW how, Ended(how)
  PROVE  BenchInv'
BY DEF Ended, Exit, BenchInv, TestInv, Running

\* A statement of a test.
LEMMA StepBench ==
  ASSUME BenchInv, Step
  PROVE  BenchInv'
<1> DEFINE s == Head(script)
<1>1. CASE \E how : Ended(how)
  BY <1>1, EndedBench
<1>2. CASE /\ object' = After(s) /\ script' = Tail(script)
           /\ UNCHANGED <<dataVars, cmd, jobs, load>>
  <2>1. phase = "test" /\ script # <<>> /\ phase' = "test"
        /\ UNCHANGED <<data_set, cmd, load>>
    BY <1>2 DEF Step, dataVars
  <2>2. PICK m \in 0..Len(data_set), a \in Modes, b \in {"filled", "back"} :
          \E erase \in SUBSET (1..m) :
            /\ script \in Seq(Statements)
            /\ Leads(script, a, b, erase) /\ Stands(object, script, a, m, erase)
    BY <2>1 DEF BenchInv, TestInv
  <2>3. PICK erase \in SUBSET (1..m) :
          /\ script \in Seq(Statements)
          /\ Leads(script, a, b, erase) /\ Stands(object, script, a, m, erase)
    BY <2>2
  <2>4. /\ s = script[1] /\ s \in Statements /\ Tail(script) \in Seq(Statements)
        /\ \E c \in Modes : Follows(a, s, c, erase) /\ Leads(Tail(script), c, b, erase)
    BY <2>1, <2>3, LeadsStep
  <2>5. PICK c \in Modes : Follows(a, s, c, erase) /\ Leads(Tail(script), c, b, erase)
    BY <2>4
  <2>6. m \in Nat
    BY <2>1 DEF BenchInv, Running, KeysDiffer
  <2> HIDE DEF s
  <2>7. Stands(After(s), Tail(script), c, m, erase)
    BY <2>1, <2>3, <2>4, <2>5, <2>6, AfterStands
  <2>8. Stands(object, script, c, m, erase)'
    <3>1. object' = After(s) /\ script' = Tail(script) /\ c # "start"
      BY <1>2, <2>5 DEF s, Follows
    <3> QED
      BY <2>1, <2>7, <3>1, SameKeys DEF Stands
  <2>9. TestInv'
    BY <1>2, <2>1, <2>4, <2>5, <2>8 DEF TestInv
  <2> QED
    BY <2>1, <2>9, SameKeys DEF BenchInv, Running
<1> QED
  BY <1>1, <1>2 DEF Step

\* The end of a test: the table holds the first keys.
LEMMA ReportBench ==
  ASSUME BenchInv, Report
  PROVE  BenchInv'
<1>1. CASE \E how : Ended(how)
  BY <1>1, EndedBench
<1>2. CASE /\ phase' = "bench" /\ load' = NextLoad
           /\ UNCHANGED <<result, disk, gen, data_set, cmd, jobs, object, script>>
  <2>1. phase = "test" /\ script = <<>> /\ UNCHANGED <<data_set, cmd, object>>
    BY <1>2 DEF Report
  <2>2. PICK m \in 0..Len(data_set), a \in Modes, b \in {"filled", "back"} :
          \E erase \in SUBSET (1..m) :
            Leads(script, a, b, erase) /\ Stands(object, script, a, m, erase)
    BY <2>1 DEF BenchInv, TestInv
  <2>3. a = b
    BY <2>1, <2>2, LeadsEnd
  <2>4. /\ object.held = KeysAt(1..m)
        /\ object = [held |-> object.held, fresh |-> object.fresh,
                     tombstones |-> object.tombstones]
    BY <2>2, <2>3 DEF Stands
  <2>5. load' \in Int
    <3>1. load \in Int /\ cmd.step \in Int
      BY <2>1, CommandLinesAssumption DEF BenchInv, Running, Flags
    <3>2. StepLoad(cmd.step) \in Int
      BY <3>1, PlanAssumption DEF StepLoad
    <3> QED
      BY <1>2, <3>1, <3>2 DEF NextLoad
  <2> QED
    BY <1>2, <2>1, <2>4, <2>5, SameKeys DEF BenchInv, TestInv, Running
<1> QED
  BY <1>1, <1>2 DEF Report

\* The test is one of the five.
LEMMA TestTyped ==
  ASSUME cmd \in CommandLines
  PROVE  Test \in 1..5 /\ cmd.unique \in BOOLEAN
<1>1. cmd.tests \in SUBSET (2..5) /\ cmd.unique \in BOOLEAN
  BY CommandLinesAssumption DEF Flags
<1>2. CASE cmd.tests = {}
  BY <1>1, <1>2 DEF Test
<1>3. CASE cmd.tests # {}
  <2>1. \E x \in cmd.tests : \A y \in cmd.tests : x <= y
    <3>1. PICK x \in cmd.tests : TRUE
      BY <1>3
    <3>2. \A y \in cmd.tests : y \in {2, 3, 4, 5}
      BY <1>1
    <3>3. CASE 2 \in cmd.tests
      BY <3>2, <3>3
    <3>4. CASE 2 \notin cmd.tests /\ 3 \in cmd.tests
      BY <3>2, <3>4
    <3>5. CASE 2 \notin cmd.tests /\ 3 \notin cmd.tests /\ 4 \in cmd.tests
      BY <3>2, <3>5
    <3>6. CASE 2 \notin cmd.tests /\ 3 \notin cmd.tests /\ 4 \notin cmd.tests
      BY <3>1, <3>2, <3>6
    <3> QED
      BY <3>3, <3>4, <3>5, <3>6
  <2>2. Min(cmd.tests) \in cmd.tests
    BY <2>1 DEF Min
  <2> QED
    BY <1>1, <1>3, <2>2 DEF Test
<1> QED
  BY <1>1, <1>2, <1>3

\* The statements of a test are statements.
LEMMA ContainsTyped ==
  ASSUME NEW of \in {"data", "add", "erase", "find", "unknown"},
         NEW on \in SUBSET Int, NEW expect \in BOOLEAN
  PROVE  TestContains(of, on, expect) \in Statements /\ TestContains(of, on, expect).op = "Contains"
BY DEF TestContains, Statement, Statements

LEMMA RemoveTyped ==
  ASSUME NEW on \in SUBSET Int, NEW expect \in BOOLEAN
  PROVE  /\ TestRemove(on, expect) \in Statements
         /\ TestRemove(on, expect).op = "Remove" /\ TestRemove(on, expect).on = on
BY DEF TestRemove, Statement, Statements

\* The part of TEST2 that removes and adds leaves the keys added.
LEMMA RemovalsLead ==
  ASSUME cmd.unique \in BOOLEAN, NEW erase \in SUBSET Int, NEW find \in SUBSET Int,
         NEW unknown \in SUBSET Int
  PROVE  /\ Removals(erase, find, unknown) \in Seq(Statements)
         /\ Leads(Removals(erase, find, unknown), "filled", "back", erase)
<1> DEFINE r == Removals(erase, find, unknown)
           mode == << "filled", "gone", "gone", "gone", "gone", "gone",
                      "back", "back", "back", "gone", "gone", "back", "back" >>
<1>1. /\ Len(r) = 12
      /\ r[1] = TestRemove(erase, TRUE) /\ r[2] = TestRemove(erase, FALSE)
      /\ r[3] = TestContains("erase", erase, FALSE)
      /\ r[4] = TestContains("add", erase, FALSE)
      /\ r[5] = TestContains("unknown", unknown, FALSE)
      /\ r[6] = TestAdd("add", erase, cmd.unique, TRUE) /\ r[7] = AddAgain(erase)
      /\ r[8] = TestContains("find", find, TRUE)
      /\ r[9] = TestRemove(erase, TRUE) /\ r[10] = TestRemove(erase, FALSE)
      /\ r[11] = TestAdd("add", erase, cmd.unique, TRUE) /\ r[12] = AddAgain(erase)
  BY DEF Removals
<1>2. /\ \A e \in BOOLEAN : /\ TestRemove(erase, e) \in Statements
                            /\ TestRemove(erase, e).op = "Remove"
                            /\ TestRemove(erase, e).on = erase
      /\ TestContains("erase", erase, FALSE) \in Statements
      /\ TestContains("erase", erase, FALSE).op = "Contains"
      /\ TestContains("add", erase, FALSE) \in Statements
      /\ TestContains("add", erase, FALSE).op = "Contains"
      /\ TestContains("unknown", unknown, FALSE) \in Statements
      /\ TestContains("unknown", unknown, FALSE).op = "Contains"
      /\ TestContains("find", find, TRUE) \in Statements
      /\ TestContains("find", find, TRUE).op = "Contains"
  <2>1. \A e \in BOOLEAN : /\ TestRemove(erase, e) \in Statements
                           /\ TestRemove(erase, e).op = "Remove"
                           /\ TestRemove(erase, e).on = erase
    BY RemoveTyped
  <2>2. /\ TestContains("erase", erase, FALSE) \in Statements
        /\ TestContains("erase", erase, FALSE).op = "Contains"
    BY ContainsTyped
  <2>3. /\ TestContains("add", erase, FALSE) \in Statements
        /\ TestContains("add", erase, FALSE).op = "Contains"
    BY ContainsTyped
  <2>4. /\ TestContains("unknown", unknown, FALSE) \in Statements
        /\ TestContains("unknown", unknown, FALSE).op = "Contains"
    BY ContainsTyped
  <2>5. /\ TestContains("find", find, TRUE) \in Statements
        /\ TestContains("find", find, TRUE).op = "Contains"
    BY ContainsTyped
  <2> QED
    BY <2>1, <2>2, <2>3, <2>4, <2>5
<1>3. /\ TestAdd("add", erase, cmd.unique, TRUE) \in Statements
      /\ TestAdd("add", erase, cmd.unique, TRUE).op \in {"Add", "AddUnique"}
      /\ TestAdd("add", erase, cmd.unique, TRUE).on = erase
  BY DEF TestAdd, Statement, Statements
<1>4. /\ AddAgain(erase) \in Statements /\ AddAgain(erase).op = "Add"
      /\ AddAgain(erase).on = erase
  <2>1. AddAgain(erase) = TestAdd("add", erase, FALSE, FALSE)
    BY DEF AddAgain
  <2>2. /\ TestAdd("add", erase, FALSE, FALSE) \in Statements
        /\ TestAdd("add", erase, FALSE, FALSE).op = "Add"
        /\ TestAdd("add", erase, FALSE, FALSE).on = erase
    BY DEF TestAdd, Statement, Statements
  <2> QED
    BY <2>1, <2>2
<1>5. r \in Seq(Statements)
  <2>1. /\ TestRemove(erase, TRUE) \in Statements /\ TestRemove(erase, FALSE) \in Statements
    BY <1>2
  <2>2. r = [i \in 1..12 |-> r[i]]
    BY DEF Removals
  <2> HIDE DEF r
  <2>3. ASSUME NEW i \in 1..12 PROVE r[i] \in Statements
    <3>1. \/ i = 1 \/ i = 2 \/ i = 3 \/ i = 4 \/ i = 5 \/ i = 6
          \/ i = 7 \/ i = 8 \/ i = 9 \/ i = 10 \/ i = 11 \/ i = 12
      OBVIOUS
    <3> QED
      BY <1>1, <1>2, <1>3, <1>4, <2>1, <3>1
  <2> QED
    BY <2>2, <2>3
<1> HIDE DEF r
<1>6. /\ mode \in [1..13 -> Modes]
      /\ mode[1] = "filled" /\ mode[2] = "gone" /\ mode[3] = "gone" /\ mode[4] = "gone"
      /\ mode[5] = "gone" /\ mode[6] = "gone" /\ mode[7] = "back" /\ mode[8] = "back"
      /\ mode[9] = "back" /\ mode[10] = "gone" /\ mode[11] = "gone"
      /\ mode[12] = "back" /\ mode[13] = "back"
  BY DEF Modes
<1> HIDE DEF mode
<1>7. /\ Follows(mode[1], r[1], mode[2], erase) /\ Follows(mode[2], r[2], mode[3], erase)
      /\ Follows(mode[9], r[9], mode[10], erase) /\ Follows(mode[10], r[10], mode[11], erase)
  BY <1>1, <1>2, <1>6 DEF Follows
<1>8. /\ Follows(mode[3], r[3], mode[4], erase) /\ Follows(mode[4], r[4], mode[5], erase)
      /\ Follows(mode[5], r[5], mode[6], erase) /\ Follows(mode[8], r[8], mode[9], erase)
  BY <1>1, <1>2, <1>6 DEF Follows
<1>9. /\ Follows(mode[6], r[6], mode[7], erase) /\ Follows(mode[7], r[7], mode[8], erase)
      /\ Follows(mode[11], r[11], mode[12], erase) /\ Follows(mode[12], r[12], mode[13], erase)
  BY <1>1, <1>3, <1>4, <1>6 DEF Follows
<1>10. \A i \in 1..12 : Follows(mode[i], r[i], mode[i + 1], erase)
  <2> TAKE i \in 1..12
  <2>1. \/ i = 1 \/ i = 2 \/ i = 3 \/ i = 4 \/ i = 5 \/ i = 6
        \/ i = 7 \/ i = 8 \/ i = 9 \/ i = 10 \/ i = 11 \/ i = 12
    OBVIOUS
  <2> QED
    BY <1>7, <1>8, <1>9, <2>1
<1>11. Leads(r, "filled", "back", erase)
  BY <1>1, <1>6, <1>10 DEF Leads
<1> QED
  BY <1>5, <1>11 DEF r

\* The statements that look keys up change nothing.
LEMMA LookupsLead ==
  ASSUME cmd.unique \in BOOLEAN, NEW erase \in SUBSET Int, NEW find \in SUBSET Int,
         NEW unknown \in SUBSET Int, NEW a \in Modes, a # "start"
  PROVE  /\ Lookups(erase, find, unknown) \in Seq(Statements)
         /\ Leads(Lookups(erase, find, unknown), a, a, erase)
<1> DEFINE r == Lookups(erase, find, unknown)
<1>1. /\ TestContains("erase", erase, TRUE) \in Statements
      /\ TestContains("erase", erase, TRUE).op = "Contains"
  BY ContainsTyped
<1>2. /\ TestContains("add", erase, TRUE) \in Statements
      /\ TestContains("add", erase, TRUE).op = "Contains"
  BY ContainsTyped
<1>3. /\ TestContains("find", find, TRUE) \in Statements
      /\ TestContains("find", find, TRUE).op = "Contains"
  BY ContainsTyped
<1>4. /\ TestContains("unknown", unknown, FALSE) \in Statements
      /\ TestContains("unknown", unknown, FALSE).op = "Contains"
  BY ContainsTyped
<1>5. /\ Len(r) = 4
      /\ r[1] = TestContains("erase", erase, TRUE) /\ r[2] = TestContains("add", erase, TRUE)
      /\ r[3] = TestContains("find", find, TRUE)
      /\ r[4] = TestContains("unknown", unknown, FALSE)
  BY DEF Lookups
<1>6. r \in Seq(Statements)
  <2>1. r = [i \in 1..4 |-> r[i]]
    BY DEF Lookups
  <2> HIDE DEF r
  <2>2. ASSUME NEW i \in 1..4 PROVE r[i] \in Statements
    <3>1. i = 1 \/ i = 2 \/ i = 3 \/ i = 4
      OBVIOUS
    <3> QED
      BY <1>1, <1>2, <1>3, <1>4, <1>5, <3>1
  <2> QED
    BY <2>1, <2>2
<1> HIDE DEF r
<1>7. \A i \in 1..4 : r[i].op = "Contains"
  <2> TAKE i \in 1..4
  <2>1. i = 1 \/ i = 2 \/ i = 3 \/ i = 4
    OBVIOUS
  <2> QED
    BY <1>1, <1>2, <1>3, <1>4, <1>5, <2>1
<1> QED
  BY <1>5, <1>6, <1>7, LeadsNowhere DEF r

\* So do the windows.
LEMMA WindowsLead ==
  ASSUME NEW op \in {"Contains", "Reverse"}, NEW erase, cmd.unique \in BOOLEAN
  PROVE  Windows(op) \in Seq(Statements) /\ Leads(Windows(op), "filled", "filled", erase)
<1> DEFINE at(i) == Statement(op, "data", (i + 1)..(i + Window(load)), TRUE)
<1>1. \A i : at(i) \in Statements /\ at(i).op = op
  <2> TAKE i
  <2>1. (i + 1)..(i + Window(load)) \in SUBSET Int
    OBVIOUS
  <2> QED
    BY <2>1 DEF Statement, Statements
<1>2. Windows(op) = << at(0), at(load \div 2 - Window(load) \div 2), at(load - Window(load)) >>
  BY DEF Windows
<1> HIDE DEF at
<1>3. /\ Windows(op) \in Seq(Statements) /\ Len(Windows(op)) = 3
      /\ \A i \in 1..3 : Windows(op)[i].op = op
  BY <1>1, <1>2
<1> QED
  BY <1>3, LeadsNowhere DEF Modes

\* The test of a round.
LEMMA TestLeads ==
  ASSUME cmd \in CommandLines, NEW erase \in SUBSET Int, NEW find \in SUBSET Int,
         NEW unknown \in SUBSET Int
  PROVE  /\ TestScript(erase, find, unknown) \in Seq(Statements)
         /\ \E b \in {"filled", "back"} :
              Leads(TestScript(erase, find, unknown), "filled", b, erase)
<1> DEFINE t == TestScript(erase, find, unknown)
<1>1. Test \in 1..5 /\ cmd.unique \in BOOLEAN
  BY TestTyped
<1>2. "filled" \in Modes /\ "back" \in Modes
  BY DEF Modes
<1>3. CASE Test = 1
  <2>1. t = <<>> /\ t \in Seq(Statements) /\ Len(t) = 0
    BY <1>3 DEF TestScript
  <2> HIDE DEF t
  <2>2. \A i \in 1..Len(t) : t[i].op \in {"Contains", "Reverse", "Count", "Iterate"}
    BY <2>1
  <2>3. Leads(t, "filled", "filled", erase)
    BY <1>2, <2>1, <2>2, LeadsNowhere
  <2> QED
    BY <2>1, <2>3 DEF t
<1>4. CASE Test = 2 /\ Head(jobs) = "index"
  <2>1. t = Lookups(erase, find, unknown)
    BY <1>4 DEF TestScript
  <2> QED
    BY <1>1, <1>2, <2>1, LookupsLead
<1>5. CASE Test = 2 /\ Head(jobs) # "index"
  <2>1. t = Removals(erase, find, unknown) \o Lookups(erase, find, unknown)
    BY <1>5 DEF TestScript
  <2>2. /\ Removals(erase, find, unknown) \in Seq(Statements)
        /\ Leads(Removals(erase, find, unknown), "filled", "back", erase)
    BY <1>1, RemovalsLead
  <2>3. /\ Lookups(erase, find, unknown) \in Seq(Statements)
        /\ Leads(Lookups(erase, find, unknown), "back", "back", erase)
    BY <1>1, <1>2, LookupsLead
  <2> HIDE DEF t
  <2>4. t \in Seq(Statements) /\ Leads(t, "filled", "back", erase)
    BY <2>1, <2>2, <2>3, LeadsJoin, ConcatProperties
  <2> QED
    BY <2>4 DEF t
<1>6. CASE Test \in {3, 4}
  <2>1. t = Windows("Contains") \/ t = Windows("Reverse")
    <3>1. CASE Test = 3
      BY <3>1 DEF TestScript
    <3>2. CASE Test = 4
      BY <3>2 DEF TestScript
    <3> QED
      BY <1>6, <3>1, <3>2
  <2> QED
    BY <1>1, <2>1, WindowsLead
<1>7. CASE Test = 5
  <2> DEFINE st == Statement("Iterate", "data", 1..load, TRUE)
  <2>1. t = <<st>>
    <3>1. /\ Test # 1 /\ Test # 3 /\ Test # 4
          /\ ~(Test = 2 /\ Head(jobs) = "index") /\ ~(Test = 2 /\ Head(jobs) # "index")
      BY <1>7
    <3> QED
      BY <1>7, <3>1, Zenon DEF TestScript
  <2>2. st \in Statements /\ st.op = "Iterate"
    BY DEF Statement, Statements
  <2> HIDE DEF st, t
  <2>3. Follows("filled", st, "filled", erase)
    BY <2>2 DEF Follows
  <2>4. t \in Seq(Statements) /\ Leads(t, "filled", "filled", erase)
    BY <1>2, <2>1, <2>2, <2>3, LeadsOne
  <2> QED
    BY <2>4 DEF t
<1> QED
  BY <1>1, <1>3, <1>4, <1>5, <1>6, <1>7

\* Bench starts at a new load, with a new table or with the one it had.
LEMMA RoundBench ==
  ASSUME BenchInv, Round
  PROVE  BenchInv'
<1>1. CASE \E how : Ended(how)
  BY <1>1, EndedBench
<1>2. CASE ~ \E how : Ended(how)
  <2> DEFINE Sample(ps) == kSubset(Min({TestLoad(load), Cardinality(ps)}), ps)
             o == Initialised
             count0 == Statement("Count", "data", 1..load, TRUE)
  <2>1. /\ phase = "bench" /\ phase' = "test" /\ load <= Len(data_set)
        /\ object' = o /\ UNCHANGED <<data_set, cmd, load>>
        /\ \E erase \in Sample(1..load), find \in Sample(1..load),
              unknown \in Sample((TestLoad(load) + 1)..Len(data_set)) :
             script' = << Fill(o), count0 >> \o TestScript(erase, find, unknown)
    BY <1>2 DEF Round, VectorsFit
  <2>2. PICK erase \in SUBSET (1..load), find \in SUBSET Int, unknown \in SUBSET Int :
          script' = << Fill(o), count0 >> \o TestScript(erase, find, unknown)
    BY <2>1 DEF kSubset
  <2>3. /\ KeysDiffer /\ cmd \in CommandLines /\ load \in Int /\ Len(data_set) \in Nat
        /\ cmd.unique \in BOOLEAN
    BY <2>1, TestTyped DEF BenchInv, Running, KeysDiffer
  <2>4. /\ o = [held |-> o.held, fresh |-> o.fresh, tombstones |-> o.tombstones]
        /\ \E k \in 0..Len(data_set) : o.held = KeysAt(1..k)
    <3>1. CASE o = Created
      <4>1. 1..0 = {} /\ KeysAt({}) = {} /\ 0 \in 0..Len(data_set)
        BY <2>3 DEF KeysAt
      <4> QED
        BY <3>1, <4>1 DEF Created
    <3>2. CASE o = object /\ object # None
      BY <2>1, <3>2 DEF BenchInv
    <3> QED
      BY <3>1, <3>2 DEF Initialised
  <2>5. PICK k \in 0..Len(data_set) : o.held = KeysAt(1..k)
    BY <2>4
  <2>6. Cardinality(o.held) = k
    <3>1. 1..k \in SUBSET (1..Len(data_set))
      BY <2>3
    <3>2. Cardinality(KeysAt(1..k)) = Cardinality(1..k)
      BY <2>3, <3>1, KeysImage DEF Distinct
    <3>3. Cardinality(1..k) = k
      BY <2>3, FS_Interval
    <3> QED
      BY <2>5, <3>2, <3>3
  <2> HIDE DEF o
  <2>7. PICK m \in 0..Len(data_set) : k <= m /\ load <= m /\ (k + 1)..load = (k + 1)..m
    <3>1. CASE load <= k
      BY <2>3, <3>1
    <3>2. CASE k < load
      BY <2>1, <2>3, <3>2
    <3> QED
      BY <2>3, <3>1, <3>2
  <2>8. /\ Fill(o) \in Statements /\ Fill(o).op \in {"Add", "AddUnique"}
        /\ Fill(o).on = (k + 1)..m
    <3>1. Fill(o) = TestAdd("data", (k + 1)..m, cmd.unique, TRUE)
      BY <2>6, <2>7 DEF Fill
    <3>2. (k + 1)..m \in SUBSET Int
      OBVIOUS
    <3> QED
      BY <2>3, <3>1, <3>2 DEF TestAdd, Statement, Statements
  <2>9. count0 \in Statements /\ count0.op = "Count"
    BY DEF Statement, Statements
  <2> HIDE DEF count0
  <2>10. "start" \in Modes /\ "filled" \in Modes
    BY DEF Modes
  <2>11. /\ << Fill(o), count0 >> \in Seq(Statements)
         /\ Leads(<< Fill(o), count0 >>, "start", "filled", erase)
    <3>1. /\ Leads(<< Fill(o) >>, "start", "filled", erase)
          /\ Leads(<< count0 >>, "filled", "filled", erase)
          /\ << Fill(o) >> \in Seq(Statements) /\ << count0 >> \in Seq(Statements)
      <4>1. Follows("start", Fill(o), "filled", erase)
        BY <2>8 DEF Follows
      <4>2. Follows("filled", count0, "filled", erase)
        BY <2>9 DEF Follows
      <4> QED
        BY <2>8, <2>9, <2>10, <4>1, <4>2, LeadsOne
    <3>2. << Fill(o), count0 >> = << Fill(o) >> \o << count0 >>
      OBVIOUS
    <3>3. << Fill(o), count0 >> \in Seq(Statements)
      BY <2>8, <2>9
    <3>4. Leads(<< Fill(o) >> \o << count0 >>, "start", "filled", erase)
      BY <3>1, LeadsJoin
    <3> QED
      BY <3>2, <3>3, <3>4
  <2>12. erase \in SUBSET Int /\ erase \in SUBSET (1..m)
    BY <2>3, <2>7
  <2>13. PICK b \in {"filled", "back"} :
           /\ TestScript(erase, find, unknown) \in Seq(Statements)
           /\ Leads(TestScript(erase, find, unknown), "filled", b, erase)
    BY <2>3, <2>12, TestLeads
  <2>14. script' \in Seq(Statements) /\ Leads(script', "start", b, erase)
    BY <2>2, <2>11, <2>13, LeadsJoin, ConcatProperties
  <2>15. script' # <<>> /\ script'[1] = Fill(o)
    <3> DEFINE head == << Fill(o), count0 >>
               tail == TestScript(erase, find, unknown)
    <3>1. Len(head) = 2 /\ head[1] = Fill(o)
      OBVIOUS
    <3>2. head \in Seq(Statements) /\ tail \in Seq(Statements) /\ script' = head \o tail
      BY <2>2, <2>11, <2>13
    <3> HIDE DEF head, tail
    <3>3. Len(tail) \in Nat
      BY <3>2
    <3>4. (head \o tail)[1] = head[1] /\ Len(head \o tail) = 2 + Len(tail)
      <4>1. /\ Len(head \o tail) = Len(head) + Len(tail)
            /\ \A i \in 1..(Len(head) + Len(tail)) :
                 (head \o tail)[i] = IF i <= Len(head) THEN head[i] ELSE tail[i - Len(head)]
        BY <3>2, ConcatProperties
      <4>2. 1 \in 1..(Len(head) + Len(tail)) /\ 1 <= Len(head)
        BY <3>1, <3>3
      <4> QED
        BY <3>1, <4>1, <4>2
    <3>5. Len(script') > 0
      BY <3>2, <3>3, <3>4
    <3> QED
      BY <3>1, <3>2, <3>4, <3>5
  <2>16. Stands(object, script, "start", m, erase)'
    <3>1. k \in 0..m
      BY <2>3, <2>7
    <3> QED
      BY <2>1, <2>4, <2>5, <2>8, <2>15, <3>1, SameKeys DEF Stands
  <2>17. TestInv'
    BY <2>1, <2>10, <2>12, <2>13, <2>14, <2>16 DEF TestInv
  <2> QED
    BY <2>1, <2>3, <2>17, SameKeys DEF BenchInv, Running
<1> QED
  BY <1>1, <1>2

\* The next table starts anew.
LEMMA NextJobBench ==
  ASSUME BenchInv, NextJob
  PROVE  BenchInv'
<1>1. CASE \E how : Ended(how)
  BY <1>1, EndedBench
<1>2. CASE /\ load' = StartLoad(cmd.start, Top) /\ object' = None
           /\ UNCHANGED <<dataVars, cmd, script>>
  <2>1. phase = "bench" /\ phase' = "bench" /\ UNCHANGED <<data_set, cmd>>
    BY <1>2 DEF NextJob, dataVars
  <2>2. load' \in Int
    <3>1. cmd.start \in Int
      BY <2>1, CommandLinesAssumption DEF BenchInv, Running, Flags
    <3> QED
      BY <1>2, <3>1, PlanAssumption DEF StartLoad
  <2> QED
    BY <1>2, <2>1, <2>2, SameKeys DEF BenchInv, TestInv, Running
<1> QED
  BY <1>1, <1>2 DEF NextJob

\* `run` reads a data set whose keys differ.
LEMMA RunBench ==
  ASSUME BenchInv, FileInv, NEW c \in CommandLines, Run(c)
  PROVE  BenchInv'
<1>1. phase = "shell" /\ object = None
  BY DEF Run, BenchInv
<1>2. PICK n \in Headers :
        \/ UNCHANGED <<phase, bench>>
        \/ /\ ~Rejects(n, c.seq) /\ phase' = "bench" /\ cmd' = c
           /\ GetDataSet(n, c.seq, c.shuffle)
           /\ load' = StartLoad(c.start, MaxLoad(n, c.max))
           /\ UNCHANGED object
  BY DEF Run
<1>3. CASE UNCHANGED <<phase, bench>>
  BY <1>1, <1>3 DEF bench, BenchInv, TestInv, Running
<1>4. CASE /\ ~Rejects(n, c.seq) /\ phase' = "bench" /\ cmd' = c
           /\ GetDataSet(n, c.seq, c.shuffle)
           /\ load' = StartLoad(c.start, MaxLoad(n, c.max))
           /\ UNCHANGED object
  <2>1. KeysDiffer'
    BY <1>4, ReadDiffer
  <2>2. load' \in Int
    <3>1. c.start \in Int
      BY CommandLinesAssumption DEF Flags
    <3> QED
      BY <1>4, <3>1, PlanAssumption DEF StartLoad
  <2> QED
    BY <1>1, <1>4, <2>1, <2>2 DEF BenchInv, TestInv, Running
<1> QED
  BY <1>2, <1>3, <1>4

\* The invariant of a run.
LEMMA BenchInvariant == Spec => []BenchInv
<1>1. Init => BenchInv
  BY DEF Init, DataInit, BenchInv, TestInv, Running
<1>2. DataInv /\ BenchInv /\ [Next]_vars => BenchInv'
  <2> SUFFICES ASSUME DataInv, BenchInv, [Next]_vars PROVE BenchInv'
    OBVIOUS
  <2>1. ASSUME NEW s \in DataSizes, NEW g \in Generators, Rnd(s, g) PROVE BenchInv'
    <3>1. phase = "shell" /\ phase' \in {"shell", "generate"} /\ UNCHANGED object
      BY <2>1 DEF Rnd, Generate, bench
    <3> QED
      BY <3>1 DEF BenchInv, TestInv, Running
  <2>2. ASSUME NEW c \in CommandLines, Run(c) PROVE BenchInv'
    BY <2>2, RunBench DEF DataInv
  <2>3. CASE (Draw \/ Finish \/ Killed) /\ UNCHANGED bench
    <3>1. phase = "generate" /\ phase' \in {"generate", "shell"} /\ UNCHANGED object
      BY <2>3 DEF Draw, Finish, Killed, Exit, bench
    <3> QED
      BY <3>1 DEF BenchInv, TestInv, Running
  <2>4. CASE NextJob
    BY <2>4, NextJobBench
  <2>5. CASE Round
    BY <2>5, RoundBench
  <2>6. CASE Step
    BY <2>6, StepBench
  <2>7. CASE Report
    BY <2>7, ReportBench
  <2>8. CASE UNCHANGED vars
    <3>1. UNCHANGED <<phase, data_set, cmd, load, object, script>>
      BY <2>8 DEF vars, dataVars, bench
    <3>2. KeysDiffer => KeysDiffer'
      BY <3>1, SameKeys
    <3>3. \A ps : KeysAt(ps)' = KeysAt(ps)
      BY <3>1, SameKeys
    <3>4. TestInv'
      BY <3>1, <3>3 DEF BenchInv, TestInv, Stands
    <3> QED
      BY <3>1, <3>2, <3>3, <3>4 DEF BenchInv, Running
  <2> QED
    BY <2>1, <2>2, <2>3, <2>4, <2>5, <2>6, <2>7, <2>8 DEF Next, Program
<1> QED
  BY <1>1, <1>2, DataInvariant, PTL DEF Spec

\* KeepsContract: whatever the tests, the reuse of the table and AddUnique are
\* combined, Bench adds a key that is held only if none was removed since it was
\* added, and calls AddUnique only with keys that are new and different
\* (Bench of the wrapper, BenchHash.h lines 410 to 569; MayAdd of SimdHashMap).
THEOREM ClientContract == Spec => []KeepsContract
<1>1. BenchInv => KeepsContract
  <2> SUFFICES ASSUME BenchInv, phase = "test", script # <<>>
               PROVE  /\ Head(script).op = "Add" =>
                           \A k \in KeysAt(Head(script).on) \cap object.held :
                             k \in object.fresh \/ ~object.tombstones
                      /\ Head(script).op = "AddUnique" =>
                           /\ KeysAt(Head(script).on) \cap object.held = {}
                           /\ Distinct(Head(script).on)
    BY DEF KeepsContract
  <2>1. KeysDiffer /\ Len(data_set) \in Nat
    BY DEF BenchInv, Running, KeysDiffer
  <2>2. PICK m \in 0..Len(data_set), a \in Modes, b \in {"filled", "back"} :
          \E erase \in SUBSET (1..m) :
            /\ script \in Seq(Statements)
            /\ Leads(script, a, b, erase) /\ Stands(object, script, a, m, erase)
    BY DEF BenchInv, TestInv
  <2>3. PICK erase \in SUBSET (1..m) :
          /\ script \in Seq(Statements)
          /\ Leads(script, a, b, erase) /\ Stands(object, script, a, m, erase)
    BY <2>2
  <2> DEFINE s == Head(script)
  <2>4. s = script[1] /\ \E c \in Modes : Follows(a, s, c, erase)
    BY <2>3, LeadsStep
  <2> HIDE DEF s
  <2>5. CASE s.op \notin {"Add", "AddUnique"}
    BY <2>5 DEF s
  <2>6. CASE a = "start"
    <3>1. PICK k \in 0..m : object.held = KeysAt(1..k) /\ s.on = (k + 1)..m
      BY <2>3, <2>4, <2>6 DEF Stands
    <3>2. /\ 1..k \in SUBSET (1..Len(data_set)) /\ (k + 1)..m \in SUBSET (1..Len(data_set))
          /\ ((k + 1)..m) \cap (1..k) = {}
      BY <2>1
    <3>3. KeysAt(s.on) \cap object.held = {}
      BY <2>1, <3>1, <3>2, KeysImage
    <3>4. Distinct(s.on)
      BY <2>1, <3>1, <3>2, KeysImage
    <3> QED
      BY <3>3, <3>4 DEF s
  <2>7. CASE s.op \in {"Add", "AddUnique"} /\ a = "gone"
    <3>1. s.on = erase
      BY <2>4, <2>7 DEF Follows
    <3>2. KeysAt(s.on) \cap object.held = {}
      BY <2>3, <2>7, <3>1 DEF Stands
    <3>3. erase \in SUBSET (1..Len(data_set))
      BY <2>1
    <3>4. Distinct(s.on)
      BY <2>1, <3>1, <3>3, KeysImage
    <3> QED
      BY <3>2, <3>4 DEF s
  <2>8. CASE s.op \in {"Add", "AddUnique"} /\ a \notin {"start", "gone"}
    <3>1. s.op = "Add" /\ s.on = erase /\ a = "back"
      BY <2>4, <2>8 DEF Follows
    <3>2. KeysAt(s.on) \subseteq object.fresh
      BY <2>3, <3>1 DEF Stands
    <3> QED
      BY <3>1, <3>2 DEF s
  <2> QED
    BY <2>5, <2>6, <2>7, <2>8
<1> QED
  BY <1>1, BenchInvariant, PTL
=============================================================================
