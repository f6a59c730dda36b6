----------------------------- MODULE GraphView -----------------------------
(***************************************************************************)
(* What an analytics kernel sees of the store while it runs: a graph that  *)
(* does not change, read with GetNeighboursByOffset, and the threads of    *)
(* the OpenMP team that runs the kernel.                                   *)
(***************************************************************************)
EXTENDS Integers, Sequences, FiniteSets, FiniteSetsExt, SequencesExt

CONSTANTS
    GraphSet,    \* adjacency: internal ID -> the list of its neighbours
    Source,      \* internal ID of the source of a search
    Teams        \* the teams that OpenMP may form

\* {0, ..., n - 1} for some n > 0
Numbered(S) == IsFiniteSet(S) /\ S # {} /\ S = 0 .. (Cardinality(S) - 1)

ASSUME GraphViewAssumption ==
    /\ \A g \in GraphSet : Numbered(DOMAIN g) /\ g \in [DOMAIN g -> Seq(DOMAIN g)] /\ Source \in DOMAIN g
    /\ \A T \in Teams : Numbered(T)

VARIABLES
    kernel,     \* the kernel that runs
    adj,        \* the graph
    team        \* numbers of the threads in the team

Vertices == DOMAIN adj
N == Cardinality(Vertices)

view == <<kernel, adj, team>>

Neighbours(v) == ToSet(adj[v])
Symmetric == \A u, v \in Vertices : v \in Neighbours(u) <=> u \in Neighbours(v)

\* The numbers in S, in order.
InOrder(S) ==
    [i \in 1 .. Cardinality(S) |-> CHOOSE x \in S : Cardinality({y \in S : y < x}) = i - 1]

\* The vertices within k steps of v along E(_).
Within(v, E(_), k) ==
    LET f[i \in 0 .. k] == IF i = 0 THEN {v} ELSE f[i - 1] \cup UNION {E(u) : u \in f[i - 1]}
    IN  f[k]

Distance(u, v) == Min({k \in 0 .. N : k = N \/ v \in Within(u, Neighbours, k)})

\* A static schedule: the iterations 0 .. n-1 in blocks, in the order of the threads.
Share(t, n) ==
    LET size == (n + Cardinality(team) - 1) \div Cardinality(team)
    IN  {i \in 0 .. (n - 1) : i \div size = t}
=============================================================================
