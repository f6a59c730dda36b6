------------------------ MODULE RadixGraphProperties ------------------------
(***************************************************************************)
(* What makes the interface of the graph store right.                      *)
(***************************************************************************)
EXTENDS RadixGraph

Offsets == 0 .. (Len(table) - 1)
Pcs == {"idle", "src", "des", "append", "mark", "find", "pin", "scan", "clear", "done"}

\* Every variable has its type, and no array holds more than its capacity.
TypeOK ==
    /\ clock \in Nat /\ numThreads \in 1 .. Cardinality(Threads)
    /\ {mixed, isSorted, dirty} \subseteq BOOLEAN
    /\ DOMAIN bitmap = 0 .. (numThreads - 1)
    /\ index \in [Ids -> Offsets \cup {NoVertex}]
    /\ \A v \in Offsets :
          /\ Vertex(v).node \in Ids /\ Vertex(v).del \in {NoTime} \cup 0 .. clock
          /\ LET a == Vertex(v).arr
             IN  /\ a.snapDeg <= Len(a.log) /\ Len(a.log) <= a.cap
                 /\ a.deg \in Int /\ a.snapTs \in 0 .. clock /\ a.stamped \in BOOLEAN
    /\ \A t \in Threads : th[t].pc \in Pcs /\ th[t].v \in Offsets \cup {NoVertex}

\* A bit of a duplicate checker is set only while its thread scans, and it is the bit
\* of an entry of the log segment that the scan has passed; bits that are set are
\* inside the bitmap, however it had to grow (utils.h:122-145).
BitmapsClean ==
    \A n \in DOMAIN bitmap :
        /\ \A d \in bitmap[n].bits : d < Size(bitmap[n], L)
        /\ bitmap[n].bits =
              IF n \notin Threads \/ th[n].pc \notin {"scan", "clear"} THEN {}
              ELSE {th[n].arr.log[i].idx :
                       i \in {j \in (th[n].arr.snapDeg + 1) .. th[n].cnt : j > th[n].pos}}

\* No array and no bitmap is used beyond its end, and no scan leaves a trace in the
\* bitmap that the next scan of the thread starts from.
BuffersSound == TypeOK /\ BitmapsClean

-----------------------------------------------------------------------------
(* What a read returns. *)

\* The edges that the appends log[i], i in I, leave behind.
EdgesOf(log, I) ==
    {<<log[i].idx, log[i].weight>> :
        i \in {k \in I : log[k].weight # 0 /\ \A j \in I : j > k => log[j].idx # log[k].idx}}

IsEdgeList(got, edges) ==
    /\ {<<got[i].idx, got[i].weight>> : i \in DOMAIN got} = edges
    /\ \A i, j \in DOMAIN got : got[i].idx = got[j].idx => i = j

\* A read that is not refused returns each edge once, with the weight it had at the
\* time asked for (or, without timestamps, at the start of the scan), whatever was
\* compacted, snapshotted, sorted or scanned by others in between.
ReadsAsOf ==
    \A t \in Threads : (th[t].pc = "done" /\ th[t].v \notin sloppy) =>
        LET log == hist[th[t].v + 1]
        IN  IsEdgeList(th[t].got,
                EdgesOf(log, {i \in 1 .. th[t].seen : th[t].arr.stamped => log[i].at <= th[t].ts}))

\* A (vertex, time) that a read was refused is refused ever after: neither an insertion
\* at a deleted vertex (sort.cpp:237) nor a compaction makes it readable again.
\* Vertices deleted twice are left out: the second DeleteVertex moves del_time.
RefusedForGood ==
    \A t \in Threads : th[t].pc = "done" => ~th[t].late \/ th[t].v \in twice

-----------------------------------------------------------------------------
(* What compaction and the counters rely on. *)

\* While callers insert only absent edges and change only present ones, deg is the
\* number of edges, so that the fast path of LogCompaction (radixgraph.cpp:206) and the
\* capacity of the next array are right, and the snapshot segment is the vertex's edges
\* at the time of the snapshot, each once.
DegreesExact ==
    \A v \in Offsets \ sloppy :
        LET a == Vertex(v).arr
            log == hist[v + 1]
            n == Len(log) - (Len(a.log) - a.snapDeg)
        IN  /\ a.deg = Cardinality(EdgesOf(log, 1 .. Len(log)))
            /\ IsEdgeList(SubSeq(a.log, 1, a.snapDeg), EdgesOf(log, 1 .. n))

\* is_sorted tells the truth until the next append: after CreateSnapshots(true) every
\* list is in the order of internal IDs, which triangle counting needs.
SortedWhenFlagged ==
    (isSorted /\ ~dirty) =>
        \A v \in Offsets : LET log == Vertex(v).arr.log
                           IN  \A i \in 1 .. (Len(log) - 1) : log[i].idx <= log[i + 1].idx

-----------------------------------------------------------------------------
(* Vertices and their names. *)

\* An update or deletion of an edge that started after one of its vertices was deleted
\* appends nothing, wherever DeleteVertex and the two lookups fell.
UpdatesFindLive ==
    [][\A t \in Threads :
          (th[t].pc = "append" /\ th'[t].pc # "append" /\ th[t].op # "insert") => ~th[t].late]_vars

\* Every edge leads to the vertex whose ID the caller gave, and the ID functions are
\* inverse to each other.
NamesRoundTrip ==
    /\ \A v \in Offsets : \A i \in DOMAIN hist[v + 1] :
          GetExternalID(hist[v + 1][i].idx) = hist[v + 1][i].id
    /\ \A id \in Ids : GetInternalID(id) # NoVertex =>
          GetInternalID(id) < GetNumVertices /\ GetExternalID(GetInternalID(id)) = id
=============================================================================
