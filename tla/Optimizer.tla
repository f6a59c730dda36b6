------------------------------ MODULE Optimizer ------------------------------
(***************************************************************************)
(* The dynamic programme that finds the fanout of each level of SORT       *)
(* (src/src/sort.cpp, OptimalFanout; the same code is the stand-alone      *)
(* src/optimizer.cpp).                                                     *)
(*                                                                         *)
(* A tree of l levels that consume a[1], ..., a[l] bits of an ID of B bits *)
(* has 2^a[i] pointers in a node of level i.  The cost of a level is the   *)
(* expected number of its pointers when n distinct IDs are drawn at        *)
(* random.  The code computes with doubles; here a cost is an integer, the *)
(* exact cost times Unit(n, B), so that there is no rounding.              *)
(*                                                                         *)
(* A definition D_Fault before a definition D is D with a plausible bug;   *)
(* nothing uses it but mutation testing of the properties (PROJECT.json).  *)
(***************************************************************************)
EXTENDS Integers, Sequences, FiniteSets, FiniteSetsExt

\* u (u - 1) ... (u - n + 1), the number of ways to draw n IDs in order.
Falling(u, n) ==
    LET f[i \in 0 .. n] == IF i = 0 THEN 1 ELSE f[i - 1] * (u - n + i) IN f[n]

Unit(n, B) == Falling(2 ^ B, n) * (2 ^ B) ^ n

\* prob(u, n, desc): the draws that miss a given set of desc IDs.
Missing(u, n, desc) == IF u - desc < n THEN 0 ELSE Falling(u - desc, n)

\* Expected pointers of the level that consumes the bits after the first k up to
\* the j-th, if IDs could be drawn twice: cheap, and never more than Cost.
Estimate(n, B, k, j) ==
    ((2 ^ B) ^ n - (2 ^ B - 2 ^ (B - k)) ^ n) * Falling(2 ^ B, n) * 2 ^ j

\* The same for distinct IDs.
Cost_SmallSubtree(n, B, k, j) ==
    (Falling(2 ^ B, n) - Missing(2 ^ B, n, 2 ^ k)) * (2 ^ B) ^ n * 2 ^ j

Cost(n, B, k, j) ==
    (Falling(2 ^ B, n) - Missing(2 ^ B, n, 2 ^ (B - k))) * (2 ^ B) ^ n * 2 ^ j

\* OptimalFanout(n, bit_length, l).  best[i, j, k] is g[i][j] and pre[i][j] after
\* the candidates 0 .. k for the bits consumed above level i; i counts from 0.
OptimalFanout(n, B, l) ==
    LET best[i \in 0 .. (l - 1), j \in 0 .. B, k \in -1 .. B] ==
            IF i = 0 THEN [cost |-> Unit(n, B) * 2 ^ j, pre |-> -1]
            ELSE IF k = -1 THEN [cost |-> -1, pre |-> -1]
            ELSE LET sofar == best[i, j, k - 1]
                     above == best[i - 1, k, k].cost
                     Better(c) == sofar.pre = -1 \/ above + c < sofar.cost
                 IN  IF Better(Estimate(n, B, k, j)) /\ Better(Cost(n, B, k, j))
                     THEN [cost |-> above + Cost(n, B, k, j), pre |-> k]
                     ELSE sofar
        now[i \in 0 .. (l - 1)] ==
            IF i = l - 1 THEN B ELSE best[i + 1, now[i + 1], now[i + 1]].pre
    IN  [i \in 1 .. l |-> IF i = 1 THEN now[0] ELSE now[i - 1] - now[i - 2]]

Prune(a) == SelectSeq(a, LAMBDA x : x # 0)

\* ceil(log2(x)) for x > 0.
CeilLog2(x) == CHOOSE c \in 0 .. x : 2 ^ c >= x /\ (c = 0 \/ 2 ^ (c - 1) < x)

\* The number of levels that RadixGraph asks for.
Layers(B) == IF CeilLog2(B) = 0 THEN 1 ELSE CeilLog2(B)

\* What optimizer.cpp saves for a file of IDs.
Settings(ids, l) == OptimalFanout(Cardinality(ids), CeilLog2(Max(ids) + 1), l)
=============================================================================
