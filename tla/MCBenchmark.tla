---------------------------- MODULE MCBenchmark ----------------------------
(* Instances of Benchmark for TLC.                                         *)
EXTENDS Benchmark

\* Ten values that are new among ones that are not: the low half was a low
\* or a high half before, so was the high half, or both are the same; the 5
\* is marked by a value that is thrown away.
MCGenerators ==
  { << <<1, 2>>, <<1, 3>>, <<5, 2>>, <<4, 5>>, <<2, 7>>, <<8, 8>>, <<9, 6>>,
       <<10, 11>>, <<11, 12>>, <<13, 10>>, <<0, 20>>, <<30, 31>>, <<32, 33>>,
       <<34, 35>>, <<36, 37>>, <<38, 39>>, <<40, 41>>, <<42, 43>> >>,
    [i \in 1..12 |-> <<i, 30 - i>>] }

MCShuffle(n) == [i \in 1..n |-> ((i + n \div 2) % n) + 1]

Plain ==
  [types |-> {"map"}, hashes |-> {}, tests |-> {}, reuse |-> FALSE,
   unique |-> FALSE, b32 |-> FALSE, seq |-> 0, shuffle |-> FALSE,
   max |-> Absent, start |-> Absent, step |-> Absent]

\* Each test, at loads that have keys for it and at loads that have none
MCCommandLines ==
  { [Plain EXCEPT !.types = {"map", "other"}, !.hashes = {8, 1},
                  !.unique = TRUE, !.shuffle = TRUE],
    [Plain EXCEPT !.reuse = TRUE, !.unique = TRUE, !.b32 = TRUE, !.start = 2,
                  !.step = 1],
    [Plain EXCEPT !.tests = {2}, !.reuse = TRUE, !.unique = TRUE, !.b32 = TRUE,
                  !.start = 2, !.step = 2],
    [Plain EXCEPT !.tests = {2, 3}, !.types = {"index", "set"}, !.max = 1],
    [Plain EXCEPT !.tests = {2, 4}, !.start = 1, !.seq = 1],
    [Plain EXCEPT !.tests = {3}, !.types = {"other"}, !.reuse = TRUE,
                  !.b32 = TRUE, !.start = 2, !.step = 1],
    [Plain EXCEPT !.tests = {3}, !.start = 1, !.seq = 2],
    [Plain EXCEPT !.tests = {4}, !.start = 3, !.step = 2, !.seq = 3,
                  !.b32 = TRUE],
    [Plain EXCEPT !.tests = {4}, !.start = 1, !.seq = 2, !.shuffle = TRUE],
    [Plain EXCEPT !.tests = {5}, !.types = {"mapfix"}, !.start = 0, !.seq = 3],
    [Plain EXCEPT !.tests = {5}, !.reuse = TRUE, !.start = 2, !.step = 1],
    [Plain EXCEPT !.reuse = TRUE, !.step = 0, !.seq = 1],
    [Plain EXCEPT !.max = 9, !.start = 40, !.step = 40, !.seq = 1],
    [Plain EXCEPT !.max = 1, !.start = 5] }
=============================================================================
