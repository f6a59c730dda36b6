----------------------------- MODULE Triangles -----------------------------
(***************************************************************************)
(* Triangle counting (OrderedCount in src/src/GAPBS/tc.cc).  A vertex's    *)
(* neighbours are merged with those of each smaller neighbour; the merge   *)
(* needs both lists in order, and they are sorted unless the store says    *)
(* that its arrays are (RadixGraph.is_sorted).                             *)
(***************************************************************************)
EXTENDS GraphView

VARIABLE total        \* the result

Lists_AsStored(sorted) == adj

\* The neighbour lists the count works on.
Lists(sorted) == IF sorted THEN adj ELSE [v \in Vertices |-> SortSeq(adj[v], <)]

\* The elements of s before the first one above v.
Prefix(s, v) == SubSeq(s, 1, Min({i \in 1 .. (Len(s) + 1) : i > Len(s) \/ s[i] > v}) - 1)

\* What the merge counts: every w in ws that the cursor into vs, which never
\* goes back, stands on once it has passed the smaller ones.
Merged(ws, vs) ==
    LET Skip(i, w) == Min({j \in i .. (Len(vs) + 1) : j > Len(vs) \/ vs[j] >= w})
        Meet(c, w) == LET j == Skip(c.at, w)
                      IN  [at |-> j, total |-> IF j <= Len(vs) /\ vs[j] = w THEN c.total + 1 ELSE c.total]
    IN  FoldLeft(Meet, [at |-> 1, total |-> 0], ws).total

Total(s) == FoldLeft(LAMBDA x, y : x + y, 0, s)

OrderedCount(sorted) ==
    LET list == Lists(sorted)
        Below(u) == Prefix(list[u], u)
        OfVertex(u) == Total([i \in DOMAIN Below(u) |->
                           Merged(Prefix(list[u], Below(u)[i]), list[Below(u)[i]])])
    IN  Total([i \in 1 .. N |-> OfVertex(i - 1)])

Uncounted == -1

TrianglesInit == total = Uncounted

\* is_sorted may be set when every list is in order (RadixGraph!SortedWhenFlagged).
Count ==
    /\ total = Uncounted
    /\ \E sorted \in BOOLEAN :
          /\ sorted => \A v \in Vertices : adj[v] = SortSeq(adj[v], <)
          /\ total' = OrderedCount(sorted)
=============================================================================
