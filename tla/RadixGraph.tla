----------------------------- MODULE RadixGraph -----------------------------
(***************************************************************************)
(* The interface of the graph store (src/src/radixgraph.cpp: InsertEdge,   *)
(* UpdateEdge, DeleteEdge, GetNeighbours and GetNeighboursByOffset with    *)
(* the scan of the log, LogCompaction, CreateSnapshots, the ID functions,  *)
(* SetNumThreads; src/src/sort.cpp: DeleteVertex), called by several       *)
(* threads.                                                                *)
(*                                                                         *)
(* It composes the two parts that have detailed modules.  A lookup in the  *)
(* vertex index is one step, as VertexMap allows and SortIndex implements; *)
(* a compaction is one step and an append to an edge array is one step, as *)
(* AdjacencyMap allows and EdgeArray implements for callers that keep the  *)
(* contract.  A call takes several such steps, and a scan works entry by   *)
(* entry with the bitmap of its thread.  Offsets are sequence positions    *)
(* less one; a vertex is known by its offset.                              *)
(*                                                                         *)
(* A definition D_Fault before a definition D is D with a plausible bug;   *)
(* nothing uses it but mutation testing of the properties (PROJECT.json).  *)
(***************************************************************************)
EXTENDS SegmentedBitmap, Sequences, FiniteSets, FiniteSetsExt, SequencesExt

CONSTANTS
    Threads,     \* the callers, by the number of their bitmap (thread_id_local)
    Sources,     \* external IDs that edges start from
    Targets,     \* external IDs that edges lead to
    InitCap,     \* capacity of the first array (8, src/src/sort.cpp:174)
    Slack,       \* the constant 8 of radixgraph.cpp:32,225,298
    ExpandRate,  \* RadixGraph.expand_rate, which SetExpandRate keeps above 1
    Times,       \* past timestamps that reads ask for
    L,           \* bits of a bitmap segment
    MaxCalls,    \* bound: number of calls by threads
    MaxAdmin     \* bound: number of exclusive calls

Ids == Sources \cup Targets

ASSUME RadixGraphAssumption ==
    /\ Threads \subseteq Nat /\ IsFiniteSet(Threads) /\ 0 \in Threads
    /\ Ids \subseteq Nat /\ InitCap \in Nat /\ Slack \in Nat \ {0} /\ ExpandRate \in Nat \ {0}
    /\ Times \subseteq Nat /\ L \in Nat \ {0} /\ MaxCalls \in Nat /\ MaxAdmin \in Nat

NoVertex == -1                   \* no vertex, and the internal ID for "not found"
NoTime == -1                     \* del_time of a vertex that is not deleted
NoStamp == -1                    \* an entry without timestamp
Forever == 2147483647            \* the default timestamp of a read

VARIABLES
    clock,       \* global_info.global_timestamp
    mixed,       \* global_info.is_mixed_workloads
    isSorted,    \* RadixGraph.is_sorted
    numThreads,  \* RadixGraph.num_threads
    bitmap,      \* RadixGraph.bitmap: thread number -> SegmentedBitmap
    index,       \* external ID -> offset of its vertex
    table,       \* vertex_table: the vertices with their current edge arrays
    th,          \* thread -> its local state
    calls, admin, \* numbers of calls made
    hist,        \* ghost: offset -> every append, with its time
    sloppy,      \* ghost: offsets with an insertion of a present edge or the like
    twice,       \* ghost: offsets that were deleted more than once
    refused,     \* ghost: <<offset, timestamp>> of the reads that were refused
    dirty        \* ghost: something was appended since the last CreateSnapshots

vars == <<clock, mixed, isSorted, numThreads, bitmap, index, table, th, calls,
          admin, hist, sloppy, twice, refused, dirty>>
settings == <<mixed, isSorted, numThreads, admin>>
ghosts == <<hist, sloppy, twice, refused, dirty>>

NewArray == [log |-> <<>>, snapDeg |-> 0, deg |-> 0, cap |-> InitCap, snapTs |-> 0,
             stamped |-> mixed]

Idle == [pc |-> "idle", op |-> "none", src |-> 0, des |-> 0, v |-> NoVertex, d |-> NoVertex,
         ts |-> Forever, arr |-> <<>>, cnt |-> 0, pos |-> 0, got |-> <<>>,
         seen |-> 0, late |-> FALSE]

Init ==
    /\ clock = 0 /\ mixed \in BOOLEAN /\ isSorted = FALSE
    /\ numThreads = Cardinality(Threads)
    /\ bitmap = [n \in 0 .. (numThreads - 1) |-> NewBitmap(0, L)]
    /\ index = [id \in Ids |-> NoVertex] /\ table = <<>>
    /\ th = [t \in Threads |-> Idle]
    /\ calls = 0 /\ admin = 0
    /\ hist = <<>> /\ sloppy = {} /\ twice = {} /\ refused = {} /\ dirty = FALSE

-----------------------------------------------------------------------------
Vertex(v) == table[v + 1]
Live(v) == v # NoVertex /\ Vertex(v).del = NoTime

\* The ID functions of the interface.
GetNumVertices == Len(table)
GetInternalID(id) == IF Live(index[id]) THEN index[id] ELSE NoVertex
GetExternalID(i) == IF i >= GetNumVertices THEN NoVertex ELSE Vertex(i).node

\* What the appends so far say of the edge from v to d: its weight, 0 for none.
Latest(log, d) ==
    LET I == {i \in DOMAIN log : log[i].idx = d}
    IN  IF I = {} THEN 0 ELSE log[Max(I)].weight

BitmapOf_Shared(t) == 0

\* bitmap[thread_id]: a number of its own for each thread.
BitmapOf(t) == t

AllIdle == \A t \in Threads : th[t].pc = "idle"
Reading(t) == th[t].pc \in {"find", "pin", "scan", "clear", "done"}

\* Outside mixed mode reads and changes do not overlap (README).
MayStart(t, read) ==
    /\ th[t].pc = "idle" /\ BitmapOf(t) < numThreads /\ calls < MaxCalls
    /\ mixed \/ \A u \in Threads : th[u].pc = "idle" \/ (Reading(u) <=> read)

Goto(t, pc) == th' = [th EXCEPT ![t].pc = pc]

-----------------------------------------------------------------------------
(* LogCompaction. *)

FastPath(a) == Len(a.log) = a.deg

\* The entries that go into the new array: all of them if all are insertions, else
\* the last one for each destination unless it is a deletion.
Kept(a, b) ==
    IF FastPath(a) THEN DOMAIN a.log
    ELSE {i \in DOMAIN a.log :
            /\ a.log[i].weight # 0 /\ ~GetBit(b, a.log[i].idx, L)
            /\ \A j \in (a.snapDeg + 1) .. Len(a.log) : j > i => a.log[j].idx # a.log[i].idx}

Before(a, sorted, i, j) ==
    IF sorted /\ a.log[i].idx # a.log[j].idx THEN a.log[i].idx < a.log[j].idx
    ELSE IF FastPath(a) THEN i < j ELSE i > j

\* The members of K in the order in which they are written.
Arranged(K, a, sorted) ==
    CHOOSE s \in [1 .. Cardinality(K) -> K] :
        \A i, j \in DOMAIN s : i < j => Before(a, sorted, s[i], s[j])

\* The array is grown by Slack slots whenever an entry does not fit.
Grown(want, num) ==
    IF num <= want THEN want ELSE want + Slack * ((num - want + Slack - 1) \div Slack)

Compacted(a, b, want, sorted, now) ==
    LET kept == Arranged(Kept(a, b), a, sorted)
        num == Cardinality(Kept(a, b))
    IN  [log |-> [k \in 1 .. num |-> [a.log[kept[k]] EXCEPT !.stamp = NoStamp]],
         snapDeg |-> num, deg |-> num, cap |-> Grown(want, num), snapTs |-> now,
         stamped |-> mixed]

\* The destinations of the log entries up to the n-th.
Logged(a, n) == {a.log[i].idx : i \in (a.snapDeg + 1) .. n}

Unmarked_OneLeft(b, a, n) == ClearBits(b, Logged(a, n - 1), L)

\* The bits of the log entries up to the n-th are cleared again.
Unmarked(b, a, n) == ClearBits(b, Logged(a, n), L)

\* The bitmap after a compaction: marked by the log segment, then cleared.
Swept(b, a) ==
    IF FastPath(a) THEN b
    ELSE Unmarked(SetBits(b, Logged(a, Len(a.log)), L), a, Len(a.log))

AtLeastZero(n) == IF n < 0 THEN 0 ELSE n

-----------------------------------------------------------------------------
(* InsertEdge, UpdateEdge, DeleteEdge. *)

\* The caller enters with its arguments.  late: one of the vertices is deleted by now.
BeginWrite(t) ==
    /\ MayStart(t, FALSE)
    /\ \E op \in {"insert", "update", "delete"}, s \in Sources, d \in Targets :
          th' = [th EXCEPT ![t] = [Idle EXCEPT !.pc = "src", !.op = op, !.src = s, !.des = d,
                    !.late = \E id \in {s, d} : index[id] # NoVertex /\ ~Live(index[id])]]
    /\ calls' = calls + 1
    /\ UNCHANGED <<clock, settings, bitmap, index, table, ghosts>>

Made_ForTheSource(t, id) == [node |-> th[t].src, del |-> NoTime, arr |-> NewArray]

Made(t, id) == [node |-> id, del |-> NoTime, arr |-> NewArray]

Found_Revived(t, id) ==
    IF th[t].op = "insert" THEN [table EXCEPT ![index[id] + 1].del = NoTime] ELSE table

\* A vertex that is found stays as it is, deleted or not.
Found(t, id) == table

\* RetrieveVertex, which makes the vertex if the call is an insertion.
Retrieve(t, id) ==
    IF index[id] # NoVertex
    THEN table' = Found(t, id) /\ UNCHANGED <<index, hist>>
    ELSE IF th[t].op = "insert"
    THEN /\ index' = [index EXCEPT ![id] = Len(table)]
         /\ table' = Append(table, Made(t, id))
         /\ hist' = Append(hist, <<>>)
    ELSE UNCHANGED <<index, table, hist>>

Usable_Exists(t, v) == v # NoVertex

\* An update or deletion gives up if the vertex is missing or deleted; an insertion
\* goes on with a deleted vertex.
Usable(t, v) == th[t].op = "insert" \/ Live(v)

FindSrc(t) ==
    /\ th[t].pc = "src"
    /\ Retrieve(t, th[t].src)
    /\ th' = [th EXCEPT ![t] = IF Usable(t, index'[th[t].src])
                               THEN [@ EXCEPT !.pc = "des", !.v = index'[th[t].src]] ELSE Idle]
    /\ UNCHANGED <<clock, settings, bitmap, calls, sloppy, twice, refused, dirty>>

FindDes(t) ==
    /\ th[t].pc = "des"
    /\ Retrieve(t, th[t].des)
    /\ th' = [th EXCEPT ![t] = IF Usable(t, index'[th[t].des])
                               THEN [@ EXCEPT !.pc = "append", !.d = index'[th[t].des]] ELSE Idle]
    /\ UNCHANGED <<clock, settings, bitmap, calls, sloppy, twice, refused, dirty>>

\* The log entry of the call, and what it adds to deg.
Weight(t) == CASE th[t].op = "insert" -> 1 [] th[t].op = "update" -> 2 [] OTHER -> 0
Delta_UpdateCounts(t) == IF th[t].op = "delete" THEN -1 ELSE 1

Delta(t) == CASE th[t].op = "insert" -> 1 [] th[t].op = "update" -> 0 [] OTHER -> -1

\* Does the call keep the contract: insert absent edges, change present ones?
InContract(t) == (th[t].op = "insert") <=> (Latest(hist[th[t].v + 1], th[t].d) = 0)

\* A full array is replaced by a compacted one, in the next tick of the clock; with
\* calls outside the contract the new one can be full as well.
Compact(t) ==
    /\ th[t].pc = "append"
    /\ LET a == Vertex(th[t].v).arr
           b == bitmap[BitmapOf(t)]
           want == AtLeastZero(a.deg) * ExpandRate + (Len(a.log) + 1 - a.cap + 1) + Slack
       IN  /\ Len(a.log) >= a.cap
           /\ table' = [table EXCEPT ![th[t].v + 1].arr = Compacted(a, b, want, FALSE, clock)]
           /\ bitmap' = [bitmap EXCEPT ![BitmapOf(t)] = Swept(b, a)]
    /\ clock' = clock + 1
    /\ UNCHANGED <<settings, index, th, calls, ghosts>>

\* The entry goes into the next place, with a timestamp if the array has places for them.
Insert(t) ==
    /\ th[t].pc = "append"
    /\ LET v == th[t].v
           a == Vertex(v).arr
           e == [idx |-> th[t].d, weight |-> Weight(t),
                 stamp |-> IF a.stamped THEN clock ELSE NoStamp]
       IN  /\ Len(a.log) < a.cap
           /\ table' = [table EXCEPT ![v + 1].arr.log = Append(@, e),
                                     ![v + 1].arr.deg = @ + Delta(t)]
           /\ clock' = IF a.stamped THEN clock + 1 ELSE clock
           /\ hist' = [hist EXCEPT ![v + 1] =
                          Append(@, [idx |-> th[t].d, id |-> th[t].des, weight |-> Weight(t), at |-> clock])]
           /\ sloppy' = IF InContract(t) THEN sloppy ELSE sloppy \cup {v}
    /\ th' = [th EXCEPT ![t] = Idle]
    /\ dirty' = TRUE
    /\ UNCHANGED <<settings, bitmap, index, calls, twice, refused>>

-----------------------------------------------------------------------------
(* DeleteVertex: it reads the clock, then stores del_time. *)

BeginDelete(t) ==
    /\ MayStart(t, FALSE)
    /\ \E id \in Ids :
          th' = [th EXCEPT ![t] = IF index[id] = NoVertex THEN Idle
                                  ELSE [Idle EXCEPT !.pc = "mark", !.op = "delvertex",
                                                    !.v = index[id], !.ts = clock]]
    /\ calls' = calls + 1
    /\ UNCHANGED <<clock, settings, bitmap, index, table, ghosts>>

Mark(t) ==
    /\ th[t].pc = "mark"
    /\ table' = [table EXCEPT ![th[t].v + 1].del = th[t].ts]
    /\ twice' = IF Live(th[t].v) THEN twice ELSE twice \cup {th[t].v}
    /\ th' = [th EXCEPT ![t] = Idle]
    /\ UNCHANGED <<clock, settings, bitmap, index, calls, hist, sloppy, refused, dirty>>

-----------------------------------------------------------------------------
(* GetNeighbours and GetNeighboursByOffset. *)

\* The vertex is given by its ID (v is found from it) or by its offset.
BeginRead(t) ==
    /\ MayStart(t, TRUE)
    /\ \E s \in Sources, i \in 0 .. GetNumVertices, byOffset \in BOOLEAN,
          ts \in {u \in Times : u < clock} \cup {Forever} :
          /\ byOffset \/ i = 0
          /\ th' = [th EXCEPT ![t] = [Idle EXCEPT !.pc = "find", !.op = "read", !.ts = ts,
                       !.v = IF byOffset THEN (IF i < GetNumVertices THEN i ELSE NoVertex)
                             ELSE index[s]]]
    /\ calls' = calls + 1
    /\ UNCHANGED <<clock, settings, bitmap, index, table, ghosts>>

\* The ways to refuse a read end it here.
Refuse(t) ==
    /\ th' = [th EXCEPT ![t] = Idle]
    /\ refused' = refused \cup {<<th[t].v, th[t].ts>>}

FindVertex(t) ==
    /\ th[t].pc = "find"
    /\ \/ /\ th[t].v = NoVertex
          /\ th' = [th EXCEPT ![t] = Idle]
          /\ UNCHANGED refused
       \/ /\ th[t].v # NoVertex /\ ~Live(th[t].v) /\ th[t].ts >= Vertex(th[t].v).del
          /\ Refuse(t)
       \/ /\ th[t].v # NoVertex
          /\ Live(th[t].v) \/ th[t].ts < Vertex(th[t].v).del
          /\ th' = [th EXCEPT ![t].pc = "pin", ![t].late = <<th[t].v, th[t].ts>> \in refused]
          /\ UNCHANGED refused
    /\ UNCHANGED <<clock, settings, bitmap, index, table, calls, hist, sloppy, twice, dirty>>

\* The entries up to the last one with a timestamp that is old enough.
LastVisible(a, ts) ==
    IF ~a.stamped THEN Len(a.log)
    ELSE Max({a.snapDeg} \cup {i \in (a.snapDeg + 1) .. Len(a.log) : a.log[i].stamp <= ts})

\* The current version is pinned (older ones are in EdgeArray), so that neither it nor
\* the entries counted here change under the scan.
Pin(t) ==
    /\ th[t].pc = "pin"
    /\ LET a == Vertex(th[t].v).arr
           n == LastVisible(a, th[t].ts)
       IN  IF a.snapTs > th[t].ts THEN Refuse(t)
           ELSE /\ th' = [th EXCEPT ![t].arr = a, ![t].cnt = n, ![t].seen = Len(hist[th[t].v + 1]),
                     ![t].pc = IF n = a.snapDeg THEN "done" ELSE "scan",
                     ![t].pos = n,
                     ![t].got = IF n = a.snapDeg THEN SubSeq(a.log, 1, n) ELSE <<>>]
                /\ UNCHANGED refused
    /\ UNCHANGED <<clock, settings, bitmap, index, table, calls, hist, sloppy, twice, dirty>>

\* One entry, from the end: taken if its bit is clear and it is no deletion; only
\* entries of the log segment set their bit.
Scan(t) ==
    /\ th[t].pc = "scan"
    /\ LET n == BitmapOf(t)
           i == th[t].pos
           e == th[t].arr.log[i]
           new == ~GetBit(bitmap[n], e.idx, L)
       IN  /\ th' = [th EXCEPT ![t].got = IF new /\ e.weight # 0 THEN Append(@, e) ELSE @,
                               ![t].pos = i - 1, ![t].pc = IF i = 1 THEN "clear" ELSE "scan"]
           /\ bitmap' = IF new /\ i > th[t].arr.snapDeg
                        THEN [bitmap EXCEPT ![n] = SetBit(@, e.idx, L)] ELSE bitmap
    /\ UNCHANGED <<clock, settings, index, table, calls, ghosts>>

Clear(t) ==
    /\ th[t].pc = "clear"
    /\ bitmap' = [bitmap EXCEPT ![BitmapOf(t)] = Unmarked(@, th[t].arr, th[t].cnt)]
    /\ Goto(t, "done")
    /\ UNCHANGED <<clock, settings, index, table, calls, ghosts>>

ReturnEdges(t) ==
    /\ th[t].pc = "done"
    /\ th' = [th EXCEPT ![t] = Idle]
    /\ UNCHANGED <<clock, settings, bitmap, index, table, calls, ghosts>>

-----------------------------------------------------------------------------
(* Exclusive calls. *)

Exclusive ==
    /\ AllIdle /\ admin < MaxAdmin
    /\ admin' = admin + 1

Room(a, dense) == IF dense THEN AtLeastZero(a.deg) ELSE AtLeastZero(a.deg) * ExpandRate + Slack

Flag_AlwaysSorted(sorted) == TRUE

Flag(sorted) == sorted

\* CreateSnapshots compacts every vertex.  The threads of its team share the vertices;
\* one compaction leaves a bitmap as clear as it was, so a team of one stands for all.
\* When the graph is switched to mixed mode, it comes with the switch.
CreateSnapshots(switch, sorted, dense) ==
    /\ Exclusive
    /\ mixed' = (mixed \/ switch)
    /\ table' = [i \in DOMAIN table |-> [table[i] EXCEPT
                    !.arr = [Compacted(@, bitmap[0], Room(@, dense), sorted, clock + i - 1)
                                EXCEPT !.stamped = mixed']]]
    /\ bitmap' = [bitmap EXCEPT ![0] =
                     LET P == UNION {Logged(x.arr, Len(x.arr.log)) :
                                        x \in {y \in Range(table) : ~FastPath(y.arr)}}
                     IN  ClearBits(SetBits(@, P, L), P, L)]
    /\ clock' = clock + Len(table)
    /\ isSorted' = Flag(sorted)
    /\ dirty' = FALSE
    /\ UNCHANGED <<numThreads, index, th, calls, hist, sloppy, twice, refused>>

\* The bitmaps are made anew for another number of threads.
SetNumThreads(n) ==
    /\ Exclusive /\ n # numThreads
    /\ numThreads' = n
    /\ bitmap' = [k \in 0 .. (n - 1) |-> NewBitmap(0, L)]
    /\ UNCHANGED <<clock, mixed, isSorted, index, table, th, calls, ghosts>>

-----------------------------------------------------------------------------
Step(t) ==
    \/ FindSrc(t) \/ FindDes(t) \/ Compact(t) \/ Insert(t)
    \/ Mark(t)
    \/ FindVertex(t) \/ Pin(t) \/ Scan(t) \/ Clear(t) \/ ReturnEdges(t)

Done == calls = MaxCalls /\ AllIdle /\ UNCHANGED vars

Next ==
    \/ \E t \in Threads : BeginWrite(t) \/ BeginDelete(t) \/ BeginRead(t) \/ Step(t)
    \/ \E switch, sorted, dense \in BOOLEAN : CreateSnapshots(switch, sorted, dense)
    \/ \E n \in 1 .. Cardinality(Threads) : SetNumThreads(n)
    \/ Done

Spec == Init /\ [][Next]_vars
=============================================================================
