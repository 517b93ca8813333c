# A TLA+ verification of SimdHash

SimdHash (`src/src/include/SimdHash.h`) is an open-addressing hash table for C++
that keeps one *tag* byte per slot and looks at 16 tags at a time with SIMD
instructions. The rest of the repository's own code is a benchmark around it
(`BenchHash.h`, `Application.cpp`, `DataSet.cpp`); everything else under
`src/src/include` and `src/libs` is third-party code the benchmark compares with.
Of the about 102 000 lines of source under `src/`, the repository's own are 3 366:
1 323 of `SimdHash.h`, 1 037 of `BenchHash.h`, 769 of `Application.cpp`, 175 of
`DataSet.cpp` and 62 of console and version output. These are what the project models.
The program is single-threaded: what is hard about it is not interleaving but the
in-place rehash, the open-ended probe loops, the life of tombstones, the corners
of the capacity arithmetic, and the long call sequences that bring them together.

Line numbers below are those of `src/src/include/SimdHash.h` unless a file is named.

## 1. Inventory

| Part | State | Operations | Hard behaviour | What makes it correct |
|---|---|---|---|---|
| Tag vector (25-69, 158-340) | none | load, compare masks, `TrailingZeroCount`, `ResetLowestSetBit` | byte tricks; the `bFix` replacement of `tzcnt` | a mask names exactly the lanes with the wanted tag, and the loop over its bits visits them all |
| Probing (850-861, 915, 967, 1034, 1047, 1100) | `tupleIndex`, 8-bit `jump` | the step of every probe loop | `jump` wraps; the vector at the end reaches over the table into the sentinel | the loop visits every vector it has to before it repeats |
| Capacity policy (612-661, 801-885) | `_Capacity`, `_max_load_factor`, `_CountGrowthLimit` | `AdjustCapacity`, `InitCapacity`, `max_load_factor` | rounding by mode; limit tested with `==` | sizes are rounded up, growth makes progress, and a table that may still grow keeps an EMPTY slot |
| `TagArray`, `EntryArray` (386-560) | `_tags` with sentinel, pages of entries | `AdjustSize`, `Init`, `Clear` | entries survive a resize in place; no shrinking | the two arrays and `_Capacity` agree |
| `Core` as `Map`, `Set` (590-1114, 1225-1286) | tags, entries, count, limits | `Contains`, `TryGetValue`, `Add`, `AddOrUpdate`, `Add<true>`, `Remove`, `Rehash`, `Resize`, `Clear` | the in-place rehash; tombstones; growth inside `Add`; searches without a bound | it is a dictionary, and every call returns |
| `Core` as `Index` (558-573, 677-693, 1055-1069, 1288-1321) | dense entries, `realIndex` | as above, without `Remove`; `TryGetIndex` | a second indirection rebuilt by a rehash | an index once given out stays that of its key |
| `ConstIterator` (1116-1221) | `_idx`, `_base`, `_mask` | `begin`, `end`, `++` | a cached mask; `end()` depends on the count | each entry once, and the walk ends |
| `Hash` (73-117) | none | `operator()` | none | any function will do |
| Benchmark (`BenchHash.h`) | table under test, sample vectors | `Init`, `MakeTestVector`, `Bench` (TEST1 to TEST5) | call sequences with asserted answers over reused tables | its assertions hold for a correct table |
| Data sets (`DataSet.cpp`) | file, Judy array | `GenerateDataSet`, `GetDataSet` | uniqueness by 32 bits, header check, buffers | keys differ, files read back |
| Command line (`Application.cpp`) | flags, table of objects | parsing, `TEST1`, self tests | which flags reach which object | what is asked for is run |
| `Version.cpp`, `Utils.cpp` | none | console, CPU and memory queries | none | pure I/O |

How they interact: `Add` calls `Resize` when the count meets the limit; `Resize`
asks the capacity policy, extends the entries and either initialises new tags or
runs `RehashInternal`, which calls `FindEmpty`, a probe loop; `FindEntry`, `Add`
and `FindEmpty` probe and walk masks; the iterator reads tags directly; the
benchmark and the command line call the public operations. There are no threads,
callbacks from outside or messages.

What can go wrong is listed, at its line, under `hazards` in `PROJECT.json`; each
hazard names the properties that would show it.

## 2. Modules

| Module | Models | Used by |
|---|---|---|
| `TagVector` | tags, the masks of a vector as sets of lanes, the bit walk | all |
| `TagBits` | the same at the level of bytes and bits, with the `bFix` chain | TLC only (it uses `Bitwise`) |
| `ProbeSequence` | the position of a probe after *i* steps, in closed form | the table |
| `ProbeLoop` | the loop `tupleIndex = AdjustTupleIndex(tupleIndex + (jump += SIZE))`, run literally | `ProbeLoopProofs` |
| `CapacityPolicy` | `AdjustCapacity` as the least table size that is large enough, and the growth limit | the table |
| `CapacityModes` | `AdjustCapacity` of the modes as written, at the sizes of the source | TLC only |
| `SimdHashCore` | `Core` for `Map` and `Set`: all its calls | everything below |
| `MapSpec` | the promise: a dictionary | |
| `SimdHashMap` | the table with a client that keeps to a contract; refines `MapSpec` | |
| `IndexSpec` | the promise of `Index`: the keys in the order of arrival, with their positions | |
| `SimdHashIndex` | `Core` for `Index`, with allocations that fail; probes through an instance of `SimdHashCore`; refines `IndexSpec` | |
| `SimdHashIterator` | `ConstIterator` in a loop whose body calls the table of `SimdHashMap` | |
| `BenchPlan` | sizes of data sets and loads, as arithmetic | `DataSet`, `Benchmark` |
| `DataSet` | `GenerateDataSet` and `GetDataSet`, with failing writes and a killed process | `Benchmark` |
| `Benchmark` | `rnd` and `run`: data set, loops over tables and loads, TEST1 to TEST5 over the abstract table | |
| `MCSimdHashCore`, `MCSimdHashMap`, `MCSimdHashIndex`, `MCSimdHashIterator`, `MCBenchmark` | instances for TLC: keys in groups of equal hash, symmetry, views, command lines | |
| `ProbeProofs` | lemmas about tags, masks, table sizes and probe positions | the next two |
| `SimdHashCoreProofs` | theorems about `SimdHashCore`: types, probe chain, searches, the count, contents through a rehash, aborts | `SimdHashCallProofs` |
| `SimdHashIndexProofs` | theorems about `SimdHashIndex`: types, positions, searches, repair, refinement of `IndexSpec` | |
| `SimdHashCallProofs` | theorems about single calls of `SimdHashCore`: resizes, the growth limit, copies, calls that do not return | `SimdHashMapProofs` |
| `SimdHashMapProofs` | theorems about `SimdHashMap`: no duplicates, refinement of `MapSpec` | `SimdHashIteratorProofs` |
| `SimdHashIteratorProofs` | theorems about `SimdHashIterator`: where a loop goes and what it shows | |
| `ProbeLoopProofs` | theorem about `ProbeLoop`: the closed form | |
| `BenchmarkProofs` | theorems about `DataSet` and `Benchmark`: the data set of a run, and the calls of the tests | |

Three of them exist to justify an abstraction of another: `TagBits` shows that the
sets of `TagVector` are what the byte tests compute, `ProbeLoop` that the closed
form of `ProbeSequence` is where the loop is, and `CapacityModes` that each mode's
arithmetic is the rounding that `CapacityPolicy` takes as its definition.

### How `SimdHashCore` corresponds to the code

* `tags`, `entries`, `Capacity`, `Count`, `CountGrowthLimit`, `maxLoadFactor` are the
  members of the same names. `tags` has `LANES` more places than the table, the
  sentinel of FORBIDDEN tags.
* `prevTags`, `prevSize`, `prevCount`, `cursor` and `carried` are the locals of
  `RehashInternal` (`prevTags`, its size, `prevCount`, `i`, and `prevTag` with
  `prevEntry` in the inner loop). `status` is `"rehash"` while it runs.
* A call is one step, since the program is sequential. `RehashInternal` is the
  exception: each round of its outer loop (`RehashSkip`, `RehashTake`) and of its
  inner one (`RehashDisplace`) is a step, so that invariants see every state in
  which an entry is out of place; `RehashDone` is its final assertion. No call
  starts before it is over.
* A probe loop is not run: the sets `HitSteps`, `EmptySteps` and `VacantSteps` name
  the rounds of one period of the loop at which something happens, and the first
  of them decides (`Hits`, `HitSlot`, `VacantSlot`, `FindEmpty`). A loop without any
  never ends; the call then leads to `status = "hung"`. A failed `assert`, which this
  header defines to call `abort()` in every build, leads to `"aborted"`. Both are
  final. A call that aborts gives no answer: `ret` stays that of the call before.
* `Insert` is the tail of `Add`: it stores, counts, and, when the count has become the
  limit, goes on as `Resize(_Capacity + 1)`. `ResizeFrom` and `Reallocate` are `Resize`
  for the tags, entries and count the caller left; `Clear(size)` uses them with an
  empty count.
* `EntryArray` keeps its pages when it grows, so `Extended` keeps the entries and adds
  places; that `AdjustSize` asserts growth is the guard of `Reallocate`.
* The hash function is the pair of constants `Home` (position per table size) and
  `TagOf`: any function, not a particular one.
* Load factors are counted in ten-thousandths; the `float` arithmetic of the
  source is exact in this range up to its own rounding.

### How `SimdHashIndex` corresponds to the code

* `realIndex` and `keys` are `_entries.realIndex` and `_entries`, both in whole pages of
  `PAGE` places. A slot's entry, as the probes of `SimdHashCore` see it, is the key its
  `realIndex` leads to (`SlotEntries`), so `Table!Hits`, `Table!HitSlot` and the others are
  the same loops over the second indirection.
* Every `new` may throw, at most `MaxFaults` times. `Add` has then written the tag and
  the position of its key but not the key; `Resize` has set `_Capacity` and the limit
  but neither positions nor tags. `AdjustSize` itself is safe: its `_size` is set last
  and the pages it had are in the new array. The client catches the exception and, as
  long as `_Capacity` and the tags disagree (`Usable`), calls only `Resize` and `Clear`.
* A probe that compares a slot whose key has no page reads outside of the pages:
  `"wild"`, a final state, for anything may follow. If the page exists already, the
  slot leads to a place that is not in use yet, and later to the key that comes to it.
* `Reinsert` is a round of the loop of `RehashInternal`, `Insert` the tail of `Add`.

### How `SimdHashIterator` corresponds to the code

`it` is the iterator of a loop: `idx`, `base` and `mask` are its members, `last` the end
that a range-for computes once, `None` for a loop that compares with `end()` each time.
`Advance` is `++`, the comparison and the dereference; in between, the body makes any
call that the client of `SimdHashMap` may make (`Call`). `visits` and `everIn` are the
history the properties speak of. The loop of `Seek` over the vectors is not run: `Bases`
are the values that `_base` takes, and `SeekFrom` goes to the least of them at which the
loop stops, for a vector with an entry or the end of the table. The iterator's vector
has `VECTOR` lanes, 16, 32 or 64 in the source, and is wider than the table's in the
instance as in the source.

### How `DataSet` and `Benchmark` correspond to the code

* A process is started from the shell, by `Rnd` or `Run`, and ends: by return, `exit(-1)`,
  `abort()`, a division by zero, or reading outside the data set (`result`). What stays
  is the file.
* The generator, the shuffle and the samples are seeded with constants: one fixed
  sequence each. The model takes any of `Generators`, one permutation, and any sample.
  A generator is as long as a data set needs; `Draw` bounds the model there
  (`rnds # <<>>`), and no run gets to that end.
* A word is the pair of its halves. `judy` is the one array in which the halves of all
  values are marked. `Draw` is one round of the loop, `AfterWrite` what a block write
  leaves on the disk.
* A file too short for its first word leaves `data_set_size` uninitialised: `Headers`
  is then any of `Uninitialised`, with sizes that pass the check among them.
* `jobs` is the order in which `main` goes through the bits of `TypeMask` and the `Bench`
  functions through those of the hashes; each gets a table of its own. Tables of other
  libraries are `"other"`: they ignore `-unique`.
* `script` is what is left of the statements of a test: the call, the vector it runs over
  as positions in `data_set`, and the answer that is asserted. The table is the set of keys
  it holds, as `MapSpec` and `IndexSpec` promise, and what `MayAdd` of `SimdHashMap` asks
  about: the keys added since the last removal, and whether there may be tombstones.

### Constants scaled down

The source has 16 lanes, a jump of 8 bits (16 steps to a wrap), pages and a
smallest table of 4096 slots. The models of the table use 2 lanes, a jump that
wraps after 4 steps, tables of 4, 8 and 16 slots (2, 4 and 8 for `Index`, with pages
of 2; 4 and 6 with a wrap after 2 steps in `core_calls`) and an iterator of 4 lanes;
`TagBits`, `ProbeLoop` and
`CapacityModes` use the real values. The theorems hold for all values. The benchmark
has data sets of 6 and 10 values where the source has 32 to 256 Mi and 2 Mi on top, loads
of up to 6, samples of a half and windows of a half of the load, written in blocks of 4
words and read in chunks of 2; as in the source, a million is less than the unit of a
data set, and the largest sample of the largest data set exceeds what is on top of it.

### The client of `SimdHashMap`

`Add` looks for its key only up to the first vector with a vacant slot, and a
tombstone is vacant (line 1032). After a removal it may therefore miss a copy of
its key that lies further on and store a second one. `SimdHashCore` models this as
it is. `SimdHashMap` adds what a client must keep to: a key that may be stored is
added only if no key has been removed since that key was added, or if the table has
no tombstone (after `Rehash`, `Clear` or growth). TEST2 of the benchmark
(`BenchHash.h` 439-483) is such a client: what it adds twice, it has added since its
last removal. For these clients the table is shown to be a dictionary.

## 3. Runs

All runs but `capacity_modes` and `benchmark` use `CHECK_DEADLOCK FALSE`: a client need
not call again, and `"hung"`, `"aborted"` and `"wild"` are final.

| Run | Checks | Bounds, and why they are enough |
|---|---|---|
| `tag_bits` | `ByteTests`, `WalkAsModelled` | every stored tag; every mask of up to 4 of the 16 lanes, so every pair of neighbours of lane 12 and every order occurs |
| `probe_loop` | `ClosedForm`, `CoversTable` | 16 lanes, the 8-bit jump, 14 table sizes with powers of two and multiples of 3, 5, 15 vectors, aligned and unaligned homes, a whole period |
| `capacity_modes` | `RoundsUp`, `GrowthNeverStalls`, `SavesMemory` | all four roundings; requests at, one below and one above every table size up to 2^31 slots (in pages of 4096, on which rounding acts) |
| `core_calls` | `TypeOK`, `ProbeChain`, `NeverMissesStored`, `CountIsFull`, `HangOnlyWhenExhausted`, `RehashKeepsContents`, `CopyOnlyPastTombstone`, `RehashEnds` | 4 keys: two with one hash, two that start elsewhere, one of these with the tag of the first two; tables of 4 and 6, and a jump that wraps after 2 steps, with which a probe covers 3 vectors; probes of several vectors, second copies and tombstones; chains of several displaced entries, in place and from 4 to 6 slots; tables of 6 that are full of keys and second copies, in which a rehash ends or hangs |
| `core_growth` | `NoHang`, `OverfullOnlyByLowering`, `AbortOnlyByShrinking` | 9 keys; tables of 8, 16 and 32: the limit of 7 of the smallest is passed, the one of 16 is a table that may grow again; load factors lowered, raised and refused, every kind of `Clear` |
| `core_only_empty` | `ResizesOnlyEmpty` | the mode whose `Resize` asserts an empty table, with sizes that do and do not fit |
| `map_calls` | `NoDuplicates`, `ImplementsMap` | 4 keys, 2 values, tables of 4 and 8, all calls a `Map` has, `Resize` and two load factors included |
| `index_calls` | `TypeOK`, `IndexFound`, `SlotsLeadToKeys`, `WildOnlyAfterFault`, `ImplementsIndex`, `RetryRepairs` | 4 keys of which some collide; two failed allocations, so that a second one hits what the first left; tables of 2, 4 and 8; growth, every kind of `Clear`, a changed load factor |
| `iterator_loops` | `WildOnlyByGrowthOrEmptying`, `VisitsEachOnce`, `VisitsOnlyHeld`, `LoopEnds` | 3 keys, 1 or 2 iterator vectors; both kinds of loop; adds, removals, rehashes and growth at every point of a loop (no rehash here has a chain of displaced entries; that rehashes end is a matter of `core_calls`) |
| `benchmark` | `HalvesDistinct`, `WholeOrRejected`, `KeepsContract`, `FailsOnlyAtTheEdges`, `BenchEnds` | 2 generators, one with every kind of value that is thrown away; both data sets; each write failing after any number of words; 14 command lines with every test, table, key width and order of values, loads of 0 and 1, a step of 0, arguments out of range |
| `removed_found` | violation of `RemovedIsGone` | see findings |
| `tag_bits_lane12` | violation of `VisitsEveryHit` | see findings |

`View` leaves out of the fingerprint what no later step reads: the last result and
the entries of slots that are neither in use nor waiting for the rehash. The keys
of a group have equal hashes, so exchanging them is a symmetry; no run with
symmetry checks liveness.

What the passing runs say, beside the theorems of section 4:

* *Rehashing in place* neither loses, alters nor doubles an entry, through chains of
  displacements and with the table at its old or at a larger size, and its final
  assertion holds. It ends (`RehashEnds`), also when it follows chains of displaced
  entries and when the table is nearly full. The exception is a table with fewer slots
  to spare than the `LANES - 1` that a probe may never load: the largest one, or one
  whose load factor was lowered and that has passed its limit. There a rehash may hang,
  and in the largest one of `core_calls` it does.
* *Searches end* in a table that may still grow, as long as nothing is removed
  (`NoHang`), the sentinel and the slots at the start that an unaligned probe never
  loads taken into account. In general a search hangs only if no EMPTY tag is
  left, those first `LANES - 1` slots apart (`HangOnlyWhenExhausted`).
* *Growth*: only a lowered load factor lets the count pass the limit unnoticed.
* *Coverage*: with the real 8-bit jump a probe reaches every vector exactly in the
  tables whose number of vectors has no divisor in common with 15. Mode::Fast
  has only powers of two and is safe; among the other modes' sizes, those with a
  number of vectors divisible by 3 or 5 (three quarters of a power of two, for
  one) leave vectors that a probe never loads. There a search still finds what is
  stored, since it was stored along the same probe, but a probe can run out of
  EMPTY slots earlier than the table does.
* *Capacity*: each mode answers the least of its sizes that is large enough.
* *Index* is the list of its keys: an index once told stays that key's, through growth
  and failed allocations. A failed `Add` leaves a slot behind that points to the place of
  the next key; a later probe that compares it before that key's page exists reads
  outside the pages (`WildOnlyAfterFault`: nothing else does). Calling `Resize` again with
  a size not below the `_Capacity` that was set repairs the table after a failed one.
* *Loops*: an entry that stays in its slot is visited exactly once, whatever the body
  adds and removes. What the body removes may still be shown, since the mask is kept.
  A range-for runs past the table only if the table grew in it, a loop that asks for
  `end()` each time only if the body removed the last entry; otherwise every loop ends, unless a call of its body hangs.
* *Data sets*: all halves differ, so `-32` works as `-64` does, and a random data set cut
  short by a full disk or a kill is never taken. The sequential modes read only the
  first word and run with such a file.
* *The benchmark* keeps the contract of `SimdHashMap` in all tests, with and without reuse
  and `AddUnique`, and its assertions fail only at the edges named under findings.

### Fairness

`FairSpec` of `SimdHashCore` assumes weak fairness of `RehashLoop`: a rehash that was entered
runs on, which a sequential program gives. `IterSpec` assumes weak fairness of the rehash loop, a `for` loop in a sequential program
that runs on once entered, and strong fairness of `Advance`: the body of a loop makes
finitely many calls before the loop goes on, though each of them may enter a rehash
during which it cannot. `Spec` of `Benchmark` assumes weak fairness of `Program`: a process
that was started runs. Nobody is assumed to start one, to call, or to begin a loop.

## 4. Theorems

The theorems hold for every number of lanes, jump width, set of table sizes, hash
function, set of keys and set of calls that the named assumptions allow
(`LanesAssumption`, `JumpAssumption`, `CapacityAssumption`, `HashAssumption`,
`IndexAssumption` for the Index, `LoopAssumption` for the probe loop, `VectorAssumption` for
the iterator, `PlanAssumption`, `DataSetAssumption` and `CommandLinesAssumption` for the
benchmark). TLC evaluates these in the runs. They say what the source has: whole vectors,
whole pages, a largest table, a position and a hash tag for every key; for the benchmark,
64-bit words from the generator, data sets of whole chunks and of less than 2^32 values
(the largest has 2^28 and some), a shuffle that is a permutation, and flags as `main` reads
them.

Some theorems have a hypothesis of their own, stated with ASSUME at the theorem:

| Hypothesis | Where | Why the code meets it |
|---|---|---|
| `MistestedLanes = {}` | what a search finds; the loops, whose body searches | the default build uses `tzcnt`; the `bFix` build does not meet it, see findings |
| `LANES > 1` | `OverfullByLowering` | there are 16 |
| `ProbesCover` | what hangs | a probe loads every slot but the first `LANES - 1`: so `CoversTable` finds it for the table sizes of Mode::Fast with the real jump; the instances of `map_calls` and `iterator_loops` evaluate it |
| `RoomLeft` | `HangsOnlyFull` | the limit is at most 0.99 of the table, at least 40 slots less than the smallest table of 4096, and a probe may miss 15; evaluated likewise |
| `"Remove" \notin Calls` | `HangsOnlyFull` | a client that removes nothing; with removals the claim is false |
| `"AddUnique" \notin Calls` | `CopiesOnlyPastTombstone` | `Add<true>` stores what it is given without a look |
| `ResizeOnlyEmpty` | `ResizedOnlyEmpty`, its negation in `AbortsOnlyByShrinking` | the mode of the table |

### Map and Set

* `TypeCorrect`: `Spec => []TypeOK`. `TypeOK` is inductive as it stands, because it says
  what the rehash needs of the state it works on: the sentinel is exactly the
  FORBIDDEN tags, every slot in use and every slot not yet moved has an entry, the
  scan is inside the old table while an entry is carried, and an idle table has no
  rehash left over. The tables a call builds before it decides to grow are
  described by `GoodTable`; there is a lemma per helper (`Keep`, `StartRehash`,
  `Reallocate`, `ResizeFrom`, `Insert`, `Settle`) and a step per action.
* `ChainUnbroken`: `Spec => []ProbeChain`. `TypeOK /\ ProbeChain` is inductive. The core is
  `ReachableStays`: a step that turns no tag EMPTY makes no probe stop earlier. `Insert`
  puts the entry in the first *vacant* vector, which is not behind the first EMPTY
  one; `Settle` puts it in the first EMPTY one; `Remove` writes a tombstone, not
  EMPTY; only fresh tags are EMPTY, and nothing is stored in them. `TagsMatch`, the
  part about the entries that wait and the one that is carried, is what makes
  the invariant hold inside a rehash.
* `SearchFinds`: in the default build (`MistestedLanes = {}`), `Spec => []NeverMissesStored`. A
  search for a stored key finds it. In the `bFix` build this is false, which is
  the finding about lane 12.

* `CountExact`: `Spec => []CountIsFull`. The inductive invariant is `CountInv`, that is
  `TypeOK /\ InOrder /\ CountIsFull`: `InOrder` says that no entry waits behind the scan of
  `RehashInternal`, and none in the slot it is at while an entry is carried.
  `PlacementMoves` reduces the two placing steps of the rehash to one move between sets
  of slots (`Moves`), `CallLeaves` reduces every call to the slots it leaves in use and
  the number it counts (`Leaves`); the counting is then `FiniteSetTheorems`.
* `RehashLosesNothing`: `Spec => RehashKeepsContents`, by `CountInv`. A move overwrites at most
  one entry that still waits, and that is the one it carries on; when the scan ends,
  `InOrder` leaves nothing waiting.
* `AbortsOnlyByShrinking`: in the modes that may grow with entries
  (`ResizeOnlyEmpty = FALSE`), `Spec => AbortOnlyByShrinking`, allocation failures (the
  assertion of line 468, which has no step in the model) apart. By `CountInv` the assertion at
  the end of `RehashInternal` holds; a Resize that gets as far as `EntryArray` grows it.

* `ResizedOnlyEmpty`: `Spec => ResizesOnlyEmpty`, from `CountInv`, which says that the count
  that `Resize` tests is the number of entries.
* `OverfullByLowering`: `Spec => OverfullOnlyByLowering`. The invariant is `CountInv` with
  `LimitCurrent`: the limit is always that of the capacity and the load factor. A call then
  raises the count by one at most, and the test for equality in `Add` cannot be jumped over.
  Short of the largest size a larger table has a larger limit (`LimitGrows`), since table
  sizes differ by whole vectors, and with `LANES > 1` by more than one slot.
* `CopiesOnlyPastTombstone`: `Spec => CopyOnlyPastTombstone`, from `ProbeChain`: the first copy is
  not behind an EMPTY tag, so what stopped the search before it was a tombstone.
* `HangsOnlyExhausted`: `Spec => []HangOnlyWhenExhausted`. A loop that never ends has met no
  EMPTY tag in any vector of its period, and by `ProbesCover` these are all.
* `HangsOnlyFull`: `Spec => []NoHang`. Without removals no tag is a tombstone (`Graveless`),
  so by the former a table in which a call hangs has all slots but `LANES - 1` in use; by
  `CountIsFull` and `LimitCurrent` the count has then reached the limit.

For the client of `SimdHashMap` (`MapIsCore`: what it does, a client of `SimdHashCore` may do):

* `KeysDistinct`: `MapSpecification => []NoDuplicates`. `NoDuplicates` alone is not inductive: an
  `Add` that stops before the copy it looks for breaks it. `MapInv` adds `FreshAhead`, that a
  key added since the last removal is where an `Add` sees it, before any vacant slot, and
  `NoGraves`, that a rehash works without tombstones; with `ProbeChain` and the client's
  contract `MayAdd`, a checked `Add` then finds a stored key (`CheckedOutcome`).
* `TableIsDictionary`: `MapSpecification => ImplementsMap`. The stored pairs are a function by
  `NoDuplicates` (`ContentsUnique`); each call maps to the step of `MapSpec` with its answer, a
  call that hangs or aborts and every step of `RehashInternal` to a stutter, the latter
  because the pairs in place, waiting and carried are always the same.

### Index

* `IndexTyped`, `WildAfterFault`, `LeadsToKeys`: `Spec => []TypeOK`, `[]WildOnlyAfterFault` and
  `[]SlotsLeadToKeys`. The inductive invariant is `IndexInv`: `Shape`, which is `TypeOK` with what
  the steps need (the tags are those of *some* table size, `_Capacity` may be ahead of them;
  the keys are whole pages, filled from the start), `Links` (where the slots in use lead, and
  that without a fault they are one to one with the keys, or with the keys placed so far
  inside `RehashInternal`), and `WildOnlyAfterFault`. What a call may hand to `Resize` is
  `Handed`.
* `RetryRepaired`: `Spec => RetryRepairs`, by cases of `Resize` under `IndexInv`.
* `IndexIsFound`: `Spec => []IndexFound`. The invariant is `FindInv`: each key is `Reached` by its
  probe before an EMPTY tag, in an idle usable table all of them and inside
  `RehashInternal` the first `cursor`; nothing is buried; no key is in the list twice; a slot
  that a failed `Add` left leads to a place without a page; and the tags never outgrow
  `_Capacity` (`Findable`). The last one is needed because `Resize` does nothing if the tags
  have the wanted size already: they must then be those of a table in which all keys
  are placed, not ones that a failed `Resize` left behind.
* `IndexIsList`: `Spec => ImplementsIndex`. The list is the keys below the count. A found key
  has the index of its place, as places and keys are one to one; an `Add` that inserts is
  `New`, or `Failed` with or without the key, depending on which allocation failed.

### Loops over a table

The three theorems share the invariant `IterInv`. It has `MapInv`, that the table is one of a
client of `SimdHashMap`, as long as the loop has not left it, and `LoopInv` for the loop at
rest and inside a rehash: base and mask are those of a whole vector, the end is that of a
table no larger than the present one; every slot of the mask has an entry, in use or removed,
whose key is in `everIn` (`Faithful`); and every entry that stayed in its slot has been
visited once if its slot is behind the loop, and not at all if it is ahead.

* `LoopsStayInside`: `IterSpec => []WildOnlyByGrowthOrEmptying`. `SeekFrom` stops in the table or
  at its end, since table sizes are whole vectors (`SeekFromReaches`); it misses the loop's
  end only if that was computed for a smaller table, or is 0 for an empty one.
* `LoopsVisitOnce`: `IterSpec => VisitsEachOnce`. A call moves no entry (`CallSpares`), unless it
  ends in a rehash, which forgets who stayed; and between the old and the new position no
  vector holds an entry (`SeekReaches`).
* `LoopsShowHeld`: `IterSpec => VisitsOnlyHeld`. A slot of the mask may be empty by now, but
  what lies in it, or came to, was held since the loop began: calls write only slots whose
  new entry is then held (`Overwrites`).

### The benchmark

* `HalvesOccurOnce`, `ShortFilesRejected`: `Spec => []HalvesDistinct` and `Spec => []WholeOrRejected`.
  `DataInv` says that the file is always the beginning of one generation (`Sound`: the size
  first, then values of the generator with halves that differ), whichever writes failed and
  whenever the process was killed; that while a generation runs, file and buffer together
  are too, with all their halves marked, unless a write has failed; and that a random data
  set in use is a whole one. A value is new only if neither half is marked (`SoundMore`); a
  failed write leaves a beginning (`SoundBeginning`); a file that passes the header and chunk
  checks is as long as its first word says, because data sets are whole chunks (`TakenWhole`).
* `ClientContract`: `Spec => []KeepsContract`. With `DataInv` no two positions of a data set in
  use have one key, of 32 bits or of 64, random or sequential, shuffled or not (`ReadDiffer`;
  for the sequential ones because they are fewer than 2^32). `BenchInv` says what the table
  holds between two tests, the first keys, and during one, by the mode the test is in
  (`Stands`): not filled yet, filled, without the keys of `erase_vector`, or with these back
  and added since the last removal. `Leads` says that the statements that are left form a way
  through the modes (`Follows`); the scripts of all five tests are such a way (`TestLeads`),
  and each statement keeps to it (`AfterStands`). So the benchmark is a client for which
  `TableIsDictionary` holds.

### The probe loop

* `ClosedFormHolds`: `Spec => []ClosedForm`. The invariant `LoopInv` says that jump and index are
  those of the step: the jump is a sawtooth and the sum of the jumps is made of whole teeth
  and a triangle number (`TotalJumpNext`), taken modulo the table (`ReducedSum`). At the end of
  the period the loop is where it began (`WholePeriod`). With this the position that
  `SimdHashCore` uses is that of the code for every width of vector and of jump.

### Model-checked only

* `TagBits` (`ByteTests`, `WalkAsModelled`): `Bitwise` is recursive, and a module that uses it
  cannot be proved about.
* `CapacityModes` (`RoundsUp`, `GrowthNeverStalls`, `SavesMemory`) and `CoversTable` of `ProbeLoop`:
  statements about powers of two, their divisors and the sizes of the source, which need
  induction over the exponent. In the theorems `ProbesCover` stands for the latter, and
  `CapacityAssumption` for the former.
* `FailsOnlyAtTheEdges`: its check of the sums needs what a fold over a set of keys computes,
  by induction over the set.
* Liveness (`RehashEnds`, `LoopEnds`, `BenchEnds`), which is outside what the proof system handles.

## 5. Findings

* **A removed key can still be there** (`removed_found`). After another key with the same
  first vectors was removed, adding a stored key stores it twice; `Remove` then
  takes one copy away and `Contains` still answers true.
* **Lane 12 of the bFix build** (`tag_bits_lane12`). The chain tests 0x0800 twice; with
  a mask whose lowest lane is 12 and that has a higher one, lane 12 is skipped.

Shown by passing runs, whose properties state exactly when they happen:

* *Tombstones use up the table* (`HangOnlyWhenExhausted`). Slots become EMPTY again only by
  `Rehash`, `Clear` or growth, and growth is triggered by the count alone; after enough
  adds and removals a search for an absent key does not return.
* *ResizeOnlyEmpty aborts in TEST1* (`ResizesOnlyEmpty`). The table is reserved for a load
  of 0.99 and grows at 0.9766, and growing with entries in the table fails an
  assertion; TEST1 of `Application.cpp` adds more than it reserves.
* *The 256 data set aborts* (`FailsOnlyAtTheEdges`). `run` without arguments goes up to a
  load of 256'000'000, but from 210'000'000 on the sample, a hundredth of it, is larger
  than `test_vector_size`, 2'097'152, and `assert(test_load <= test_vector_size)`
  (`BenchHash.h` 121) fails. The help offers that size (`Application.cpp` 502).
* *Small loads* (`FailsOnlyAtTheEdges`). The smallest load is any number of millions above
  0: below 100 keys TEST2 fails its second assertion, below 20 TEST3 divides by zero and
  TEST4 reads at index 2^32 - 1; 0 divides by zero in every test. A step below a
  millionth is 0, and `run` does not end (`BenchEnds` excludes it).
* *Unknown keys that are stored* (`FailsOnlyAtTheEdges`). `unknown_vector` is sampled from
  what follows the first `test_load` values, where most of the stored keys are; the
  assertion holds as long as one sampled key is not stored.

Met on the way: `Clear(size)` with less than the table has always
aborts (`AbortOnlyByShrinking` states that nothing else does); the comment at line 834
lists 8, 16, 32, 64 where the largest sizes give 128 parts; `Map::Update` and
`Index::GetIndex` cannot be instantiated; `-tslrs`, `-abslfhs`, `-64` and `-test1` are in the
help and nowhere else; the memory mode has no effect with `-32`, `-simdhs` and `-simdhi`.

## 6. Not modelled

* The iterator of `Index`: `idx` counts from 0 to the count, over keys that never move.
* Allocation failure in `Map` and `Set`. Their `Resize` has the same order of steps as that
  of `Index`, which is modelled; the program catches no exception.
* Parsing of `argv`, help, names and titles, times and memory figures, reserved sizes, and
  the self tests: fixed calls with asserted answers, which the promises of `MapSpec` and
  `IndexSpec` contain.
* `Hash` and the exact reduction of a 64-bit hash to a position by `__umulh`: any
  function below the capacity is covered by the constant `Home`.
* Alignment, prefetching, streaming stores: they change no value.
* The vendored tables and libraries, `Version.cpp` and `Utils.cpp`.

## 7. Plan

1. Done: tag vector, probing, capacity, `Core` for `Map`, `Set` and `Index`, their promises,
   the iterator, the data sets, the benchmark; every safety property of the table, the
   iterator and the data sets, the benchmark's contract, the two refinements and the closed
   form of the probe as theorems.
2. Open: the iterator of `Index` beside `SimdHashIndex`, failing allocations in `SimdHashCore`,
   and `ProbesCover` for the sizes of Mode::Fast from the arithmetic of the jump.
