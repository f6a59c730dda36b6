----------------------------- MODULE MCKernels -----------------------------
(***************************************************************************)
(* Small graphs for TLC: symmetric graphs of different shapes, with their  *)
(* neighbour lists in order and backwards, and a path that leads one way.  *)
(***************************************************************************)
EXTENDS KernelsProperties

Cycle == {{0, 1}, {1, 2}, {2, 3}, {3, 0}}

Shapes ==
    { {{0, 2}, {1, 3}},                            \* two components
      {{2, 3}, {3, 1}},                            \* the source is alone
      {{0, 3}, {3, 1}, {1, 2}},                    \* a path
      {{3, 0}, {3, 1}, {3, 2}},                    \* a star
      {{0, 1}, {1, 2}, {2, 0}, {0, 3}},            \* a triangle with a tail
      Cycle, Cycle \cup {{1, 3}}, Cycle \cup {{1, 3}, {0, 2}} }

Stored(n, es, up) ==
    [v \in 0 .. (n - 1) |-> SetToSortSeq({u \in 0 .. (n - 1) : {u, v} \in es},
                                         LAMBDA a, b : IF up THEN a < b ELSE a > b)]

OneWay == [v \in 0 .. 3 |-> IF v < 3 THEN <<v + 1>> ELSE <<>>]

\* The frontier of a search from 0 shrinks while there are vertices to find.
Kite == {{0, 1}, {0, 2}, {1, 3}, {3, 4}, {4, 5}}

GraphsSmall == {Stored(4, es, up) : es \in Shapes, up \in BOOLEAN}
               \cup {OneWay, Stored(6, Kite, TRUE)}

Costs(long, w) == [e \in (0 .. 5) \X (0 .. 5) |-> IF ToSet(e) \in long THEN w ELSE 1]

\* All edges alike; direct edges that are longer than the way round; and two
\* ways of different length, found in the same bin by different threads.
WeightsSmall ==
    { Costs({}, 1), Costs({{0, 1}, {0, 3}}, 4), Costs({{0, 1}, {0, 3}, {3, 2}}, 2) }

PlacesSmall == {[v \in 0 .. (n - 1) |-> v] : n \in {4, 6}} \cup {[v \in 0 .. 3 |-> 3 - v]}

\* A vertex with many neighbours is found twice, and both times its neighbours
\* get distances of the same bin.  Weights are in halves, Delta = 4 is 2.0.
Fan == {{0, 1}, {0, 2}, {1, 2}} \cup {{1, v} : v \in 3 .. 6}
FanGraphs == {Stored(7, Fan, TRUE)}
FanWeights ==
    { [e \in (0 .. 6) \X (0 .. 6) |->
        IF ToSet(e) = {0, 1} THEN 7 ELSE IF ToSet(e) = {0, 2} THEN 4 ELSE IF ToSet(e) = {1, 2} THEN 2 ELSE 10] }
FanPlaces == {[v \in 0 .. 6 |-> v]}
=============================================================================
