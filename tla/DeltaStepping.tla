--------------------------- MODULE DeltaStepping ---------------------------
(***************************************************************************)
(* Single-source shortest paths by delta-stepping (DeltaStep in            *)
(* src/src/GAPBS/sssp.cc, RelaxEdges in sssp.h).                           *)
(*                                                                         *)
(* Each thread relaxes edges into bins of its own; the team agrees on the  *)
(* lowest bin in use and copies it to the shared frontier.  As in Bfs,     *)
(* compare_and_swap and fetch_and_add are a read and a write that other    *)
(* threads may come between.  Only the number of entries of the frontier   *)
(* is limited: a copy that runs over its end is undefined (stage "lost").  *)
(***************************************************************************)
EXTENDS GraphView

CONSTANTS
    WeightSet,   \* functions: edge <<u, v>> -> weight
    Delta,       \* width of a bin
    Chunk,       \* entries of the frontier handed out at a time (64 in the code)
    Fusible      \* kBinSizeThreshold (1000 in the code)

ASSUME DeltaSteppingAssumption ==
    /\ \A w \in WeightSet : \A e \in DOMAIN w : w[e] \in Nat
    /\ \A w \in WeightSet : \A g \in GraphSet : (DOMAIN g) \X (DOMAIN g) \subseteq DOMAIN w
    /\ Delta \in Nat \ {0} /\ Chunk \in Nat \ {0} /\ Fusible \in Nat

kDistInf == 1000
kMaxBin == kDistInf

VARIABLES
    weight,      \* the weights of the edges
    dist,        \* the result
    frontier,    \* the entries below curr_frontier_tail, and those that follow
    tail,        \* [curr, next], of frontier_tails
    bin,         \* [curr, next], of shared_indexes
    taken,       \* entries of the frontier handed out in this iteration
    stage,       \* "relax", "copy", or "done", "lost"
    dw           \* thread -> its local state

sssp == <<weight, dist, frontier, tail, bin, taken, stage, dw>>

NumEdges == Cardinality(UNION {{v} \X DOMAIN adj[v] : v \in Vertices}) \div 2

Idle == [pc |-> "take", us |-> <<>>, es |-> <<>>, fused |-> FALSE,
         old |-> 0, new |-> 0, bins |-> <<>>, base |-> 0]

\* Callers pass the number of lines of the graph file, each of which is stored twice.
SsspInit ==
    /\ weight \in WeightSet
    /\ dist = [v \in Vertices |-> IF v = Source THEN 0 ELSE kDistInf]
    /\ frontier = [i \in 1 .. NumEdges |-> Source]
    /\ tail = [curr |-> 1, next |-> 0] /\ bin = [curr |-> 0, next |-> kMaxBin]
    /\ taken = 0 /\ stage = "relax"
    /\ dw = [t \in team |-> Idle]

Put(t, r) == dw' = [dw EXCEPT ![t] = r]
At(t, p) == stage = "relax" /\ dw[t].pc = p

\* local_bins[b] of a thread, empty if it has no such bin.
Entries(t, b) == IF b < Len(dw[t].bins) THEN dw[t].bins[b + 1] ELSE <<>>

\* Some entries of the frontier, or, when all are handed out, the fused bins.
TakeChunk(t) ==
    /\ At(t, "take")
    /\ IF taken < tail.curr
       THEN /\ taken' = Min({taken + Chunk, tail.curr})
            /\ Put(t, [dw[t] EXCEPT !.pc = "vertex", !.us = SubSeq(frontier, taken + 1, taken')])
       ELSE UNCHANGED taken /\ Put(t, [dw[t] EXCEPT !.pc = "fuse", !.fused = TRUE])
    /\ UNCHANGED <<weight, dist, frontier, tail, bin, stage>>

\* A vertex of a lower bin has been relaxed before; fused bins are not asked.
Current(t, u) == dw[t].fused \/ dist[u] >= Delta * bin.curr

NextVertex(t) ==
    /\ At(t, "vertex")
    /\ LET w == dw[t]
       IN  Put(t, IF w.us = <<>> THEN [w EXCEPT !.pc = IF w.fused THEN "fuse" ELSE "take"]
                  ELSE IF Current(t, Head(w.us)) THEN [w EXCEPT !.pc = "edge", !.es = adj[Head(w.us)]]
                  ELSE [w EXCEPT !.us = Tail(@)])
    /\ UNCHANGED <<weight, dist, frontier, tail, bin, taken, stage>>

\* RelaxEdges: old_dist is read, ...
NextEdge(t) ==
    /\ At(t, "edge")
    /\ Put(t, IF dw[t].es = <<>> THEN [dw[t] EXCEPT !.pc = "vertex", !.us = Tail(@)]
              ELSE [dw[t] EXCEPT !.pc = "reach", !.old = dist[Head(dw[t].es)]])
    /\ UNCHANGED <<weight, dist, frontier, tail, bin, taken, stage>>

Shorter(t, old, new) ==
    Put(t, IF new < old THEN [dw[t] EXCEPT !.pc = "compare", !.old = old, !.new = new]
           ELSE [dw[t] EXCEPT !.pc = "edge", !.es = Tail(@)])

Through(t) == dist[Head(dw[t].us)] + weight[<<Head(dw[t].us), Head(dw[t].es)>>]

\* ... then new_dist is computed, ...
Reach(t) ==
    /\ At(t, "reach")
    /\ Shorter(t, dw[t].old, Through(t))
    /\ UNCHANGED <<weight, dist, frontier, tail, bin, taken, stage>>

\* ... the distance is compared with old_dist, and read again if it differs, ...
Compare(t) ==
    /\ At(t, "compare")
    /\ LET now == dist[Head(dw[t].es)]
       IN  IF now = dw[t].old THEN Put(t, [dw[t] EXCEPT !.pc = "swap"])
                              ELSE Shorter(t, now, dw[t].new)
    /\ UNCHANGED <<weight, dist, frontier, tail, bin, taken, stage>>

\* bins with v appended to bin b
Filed(bins, b, v) ==
    [i \in 1 .. Max({Len(bins), b + 1}) |->
        (IF i <= Len(bins) THEN bins[i] ELSE <<>>) \o (IF i = b + 1 THEN <<v>> ELSE <<>>)]

\* ... and written; the vertex goes into the bin of its new distance.
SwapDist(t) ==
    /\ At(t, "swap")
    /\ LET v == Head(dw[t].es)
           new == dw[t].new
       IN  /\ dist' = [dist EXCEPT ![v] = new]
           /\ Put(t, [dw[t] EXCEPT !.pc = "edge", !.es = Tail(@),
                                   !.bins = Filed(@, new \div Delta, v)])
    /\ UNCHANGED <<weight, frontier, tail, bin, taken, stage>>

\* The thread's own part of the current bin is relaxed at once, unless it is
\* large; then the thread votes for the next bin.
Fuse(t) ==
    /\ At(t, "fuse")
    /\ LET w == dw[t]
           own == Entries(t, bin.curr)
           used == {b \in bin.curr .. (Len(w.bins) - 1) : Entries(t, b) # <<>>}
       IN  IF own # <<>> /\ Len(own) < Fusible
           THEN Put(t, [w EXCEPT !.pc = "vertex", !.us = own, !.bins[bin.curr + 1] = <<>>])
                /\ UNCHANGED bin
           ELSE Put(t, [w EXCEPT !.pc = "voted"]) /\ bin' = [bin EXCEPT !.next = Min({@} \cup used)]
    /\ UNCHANGED <<weight, dist, frontier, tail, taken, stage>>

EndRelax ==
    /\ stage = "relax" /\ \A t \in team : dw[t].pc = "voted"
    /\ stage' = "copy" /\ bin' = [bin EXCEPT !.curr = kMaxBin] /\ tail' = [tail EXCEPT !.curr = 0]
    /\ dw' = [t \in team |-> [dw[t] EXCEPT !.pc = IF bin.next < Len(dw[t].bins) THEN "fetch" ELSE "copied"]]
    /\ UNCHANGED <<weight, dist, frontier, taken>>

\* fetch_and_add on the tail of the next frontier, and the copy.
FetchTail(t) ==
    /\ stage = "copy" /\ dw[t].pc = "fetch"
    /\ Put(t, [dw[t] EXCEPT !.pc = "add", !.base = tail.next])
    /\ UNCHANGED <<weight, dist, frontier, tail, bin, taken, stage>>

Grown_Not(t) == dw[t].base

Grown(t) == dw[t].base + Len(Entries(t, bin.next))

AddTail(t) ==
    /\ stage = "copy" /\ dw[t].pc = "add"
    /\ tail' = [tail EXCEPT !.next = Grown(t)]
    /\ Put(t, [dw[t] EXCEPT !.pc = "copy"])
    /\ UNCHANGED <<weight, dist, frontier, bin, taken, stage>>

CopyBin(t) ==
    /\ stage = "copy" /\ dw[t].pc = "copy"
    /\ LET base == dw[t].base
           own == Entries(t, bin.next)
       IN  IF base + Len(own) > NumEdges THEN stage' = "lost" /\ UNCHANGED <<frontier, dw>>
           ELSE /\ frontier' = [i \in DOMAIN frontier |-> IF i \in (base + 1) .. (base + Len(own))
                                                         THEN own[i - base] ELSE frontier[i]]
                /\ Put(t, [dw[t] EXCEPT !.pc = "copied", !.bins[bin.next + 1] = <<>>])
                /\ UNCHANGED stage
    /\ UNCHANGED <<weight, dist, tail, bin, taken>>

EndCopy ==
    /\ stage = "copy" /\ \A t \in team : dw[t].pc = "copied"
    /\ stage' = IF bin.next = kMaxBin THEN "done" ELSE "relax"
    /\ bin' = [curr |-> bin.next, next |-> kMaxBin]
    /\ tail' = [curr |-> tail.next, next |-> 0] /\ taken' = 0
    /\ dw' = [t \in team |-> [Idle EXCEPT !.bins = dw[t].bins]]
    /\ UNCHANGED <<weight, dist, frontier>>

SsspStep(t) ==
    \/ TakeChunk(t) \/ NextVertex(t) \/ NextEdge(t) \/ Reach(t) \/ Compare(t) \/ SwapDist(t)
    \/ Fuse(t) \/ FetchTail(t) \/ AddTail(t) \/ CopyBin(t)

SsspNext == EndRelax \/ EndCopy \/ \E t \in team : SsspStep(t)
=============================================================================
