------------------------------ MODULE EdgeArray ------------------------------
(***************************************************************************)
(* The edge store of one source vertex (src/src/radixgraph.cpp, Insert,    *)
(* GetNeighbours, LogCompaction, CreateSnapshots; src/src/utils.h,         *)
(* WeightedEdge, WeightedEdgeArray, Vertex).                               *)
(*                                                                         *)
(* A vertex owns a chain of versions of its edge array.  A version is a    *)
(* snapshot segment (slots below snapDeg) followed by a log segment.       *)
(* Writers reserve a slot with an atomic fetch_add and fill it without a   *)
(* lock; the writer that overflows the array waits until it is completely  *)
(* written, compacts it into a new version and swings Vertex.next.         *)
(* Readers pin a version under the vertex's spin lock and scan it while    *)
(* writers go on.                                                          *)
(*                                                                         *)
(* Every step between two accesses to state another thread can see is an   *)
(* action of its own.  Accesses are taken in the order of the program: the *)
(* counters and the pointer are std::atomic with the default (sequentially *)
(* consistent) order, and the plain stores of the log entry are kept in    *)
(* order by x86.                                                           *)
(*                                                                         *)
(* A definition D_Fault before a definition D is D with a plausible bug;   *)
(* nothing uses it but mutation testing of the properties (PROJECT.json).  *)
(***************************************************************************)
EXTENDS Integers, FiniteSets, Sequences

CONSTANTS
    Writers,       \* threads that call InsertEdge, UpdateEdge, DeleteEdge
    Readers,       \* threads that call GetNeighbours
    NoThread,      \* no thread: the spin lock is clear
    Dest,          \* internal IDs of destination vertices
    Weights,       \* weights of live edges
    InitCap,       \* capacity of the first array (8, src/src/sort.cpp:174)
    Slack,         \* the constant 8 of radixgraph.cpp:32,225,298
    ExpandRate,    \* RadixGraph.expand_rate
    Mixed,         \* global_info.is_mixed_workloads
    AddressReuse,  \* may the allocator hand out the address of a freed array
    Contract,      \* do callers insert only absent edges and change present ones
    MaxCalls,      \* bound: number of write calls
    MaxReads,      \* bound: number of GetNeighbours calls
    MaxVersion     \* bound: number of versions after the first

ASSUME ConstantsAssumption ==
    /\ IsFiniteSet(Writers) /\ IsFiniteSet(Readers)
    /\ Writers \cap Readers = {} /\ NoThread \notin Writers \cup Readers
    /\ Dest \subseteq Nat /\ Weights \subseteq Nat \ {0}
    /\ InitCap \in Nat /\ Slack \in Nat \ {0} /\ ExpandRate \in Nat \ {0}
    /\ Mixed \in BOOLEAN /\ AddressReuse \in BOOLEAN /\ Contract \in BOOLEAN
    /\ MaxCalls \in Nat /\ MaxReads \in Nat /\ MaxVersion \in Nat

Versions == 0 .. MaxVersion
NoVersion == -1                     \* a null WeightedEdgeArray*
NoIdx == -1                         \* WeightedEdge.idx of an unwritten slot
NoStamp == -1                       \* an uninitialised timestamp cell
Forever == -1                       \* the default timestamp, 2147483647

(***************************************************************************)
(* A write call: what the log entry will hold and what it adds to deg.     *)
(***************************************************************************)
Insertion(d, w) == [idx |-> d, weight |-> w, delta |-> 1]
Update(d, w)    == [idx |-> d, weight |-> w, delta |-> 0]
Deletion(d)     == [idx |-> d, weight |-> 0, delta |-> -1]

Calls == [idx : Dest, weight : Weights \cup {0}, delta : {-1, 0, 1}]
NoCall == [idx |-> NoIdx, weight |-> 0, delta |-> 0]

VARIABLES
    arr,     \* version -> the header of its WeightedEdgeArray
    buf,     \* version -> its edge and timestamp buffers, slot by slot
    cur,     \* Vertex.next
    mtx,     \* Vertex.mtx: the thread that holds the spin lock, or NoThread
    clock,   \* global_info.global_timestamp
    wr,      \* writer -> its local state in Insert
    rd,      \* reader -> its local state in GetNeighbours
    ans,     \* reader -> the destinations it has seen and the edges it has got
    calls,   \* number of write calls made
    reads    \* number of read calls made

vars == <<arr, buf, cur, mtx, clock, wr, rd, ans, calls, reads>>

Cell == [idx |-> NoIdx, weight |-> 0, stamp |-> NoStamp]
NoBuffer == [i \in {} |-> Cell]

(***************************************************************************)
(* mem is the state of the allocation: "none" before it is made, "live",   *)
(* "shell" once edge and timestamp are deleted but not the array itself,   *)
(* "freed" after `delete`.  freedAt records the newest version there was    *)
(* then: only a version allocated later can have the same address.         *)
(***************************************************************************)
Unallocated ==
    [size |-> 0, cap |-> 0, phys |-> 0, deg |-> 0, snapDeg |-> 0, snapTs |-> 0,
     reads |-> 0, prev |-> NoVersion, next |-> NoVersion, mem |-> "none",
     freedAt |-> 0]

IdleWriter == [pc |-> "idle", arr |-> NoVersion, slot |-> 0, call |-> NoCall,
               stamp |-> NoStamp]

\* still is no variable of the code: the destinations that no write call has
\* touched since the version was pinned, for which the answer must be exact.
IdleReader == [pc |-> "idle", arr |-> NoVersion, ts |-> Forever, pos |-> 0,
               still |-> {}]
NoAnswer == [seen |-> {}, got |-> <<>>]

Init ==
    /\ arr = [v \in Versions |->
                IF v = 0 THEN [Unallocated EXCEPT !.cap = InitCap, !.mem = "live"]
                         ELSE Unallocated]
    /\ buf = [v \in Versions |->
                IF v = 0 THEN [i \in 0 .. (InitCap - 1) |-> Cell] ELSE NoBuffer]
    /\ cur = 0
    /\ mtx = NoThread
    /\ clock = 0
    /\ wr = [t \in Writers |-> IdleWriter]
    /\ rd = [r \in Readers |-> IdleReader]
    /\ ans = [r \in Readers |-> NoAnswer]
    /\ calls = 0
    /\ reads = 0

-----------------------------------------------------------------------------
(* What the log means. *)

\* The program counters at which a writer owns a slot it has not committed.
Writing == {"tick", "stamp", "idx", "weight", "commit"}
Holding(v) == {t \in Writers : wr[t].pc \in Writing /\ wr[t].arr = v}

\* The slots of version v that were handed out.
Reserved(v) == {i \in 0 .. (arr[v].cap - 1) : i < arr[v].size}

\* The entry slot i of v has, or is about to be given by the writer that owns it.
Entry(v, i) ==
    IF \E t \in Holding(v) : wr[t].slot = i
    THEN wr[CHOOSE t \in Holding(v) : wr[t].slot = i].call
    ELSE buf[v][i]

\* The weight of the latest log for d, or 0: the adjacency the vertex stands for.
View == [d \in Dest |->
            LET I == {i \in Reserved(cur) : Entry(cur, i).idx = d}
            IN  IF I = {} THEN 0
                ELSE Entry(cur, CHOOSE i \in I : \A j \in I : j <= i).weight]

-----------------------------------------------------------------------------
(* LogCompaction. *)

FastPath(v) == arr[v].phys = arr[v].deg

Kept_NoBitmap(v) == {i \in 0 .. (arr[v].phys - 1) : buf[v][i].weight # 0}

\* The slots of v that the compaction keeps: all of them when the counters say
\* that every log is an insertion; otherwise those that the scan from the end
\* meets before any log for the same destination, deletions excluded.
Kept(v) ==
    IF FastPath(v) THEN 0 .. (arr[v].phys - 1)
    ELSE {i \in 0 .. (arr[v].phys - 1) :
            /\ buf[v][i].weight # 0
            /\ \A j \in (i + 1) .. (arr[v].phys - 1) :
                  j >= arr[v].snapDeg => buf[v][j].idx # buf[v][i].idx}

\* Does kept slot j come before kept slot i in the new array?  The fast path
\* copies upwards, the scan runs downwards, and CreateSnapshots may sort by idx.
Precedes(v, sorted, j, i) ==
    IF sorted /\ buf[v][j].idx # buf[v][i].idx THEN buf[v][j].idx < buf[v][i].idx
    ELSE IF FastPath(v) THEN j < i
    ELSE j > i

Rank(v, sorted, i) == Cardinality({j \in Kept(v) : Precedes(v, sorted, j, i)})

GrownCap_NeverGrows(want, num) == want

\* The array that is grown by Slack slots whenever an entry does not fit.
GrownCap(want, num) ==
    IF num <= want THEN want
    ELSE want + Slack * ((num - want + Slack - 1) \div Slack)

Compacted_NoSnapshotTimestamp(v, want) ==
    LET num == Cardinality(Kept(v))
    IN  [Unallocated EXCEPT
            !.size = num, !.phys = num, !.deg = num, !.snapDeg = num,
            !.cap = GrownCap(want, num), !.prev = v, !.mem = "live"]

Compacted(v, want) ==
    LET num == Cardinality(Kept(v))
    IN  [Unallocated EXCEPT
            !.size = num, !.phys = num, !.deg = num, !.snapDeg = num,
            !.cap = GrownCap(want, num), !.snapTs = clock,
            !.prev = v, !.mem = "live"]

CompactedBuffer(v, want, sorted) ==
    LET num == Cardinality(Kept(v))
    IN  [k \in 0 .. (GrownCap(want, num) - 1) |->
            IF k < num
            THEN LET e == buf[v][CHOOSE i \in Kept(v) : Rank(v, sorted, i) = k]
                 IN  [idx |-> e.idx, weight |-> e.weight, stamp |-> NoStamp]
            ELSE Cell]

Delete_NextNotRelinked(a, v, newest) ==
    [u \in Versions |->
        IF u = v THEN [a[v] EXCEPT !.mem = "freed", !.freedAt = newest]
        ELSE IF u = a[v].prev THEN [a[u] EXCEPT !.next = a[v].next]
        ELSE a[u]]

\* ~WeightedEdgeArray: the array leaves the chain of versions.
Delete(a, v, newest) ==
    [u \in Versions |->
        IF u = v THEN [a[v] EXCEPT !.mem = "freed", !.freedAt = newest]
        ELSE IF u = a[v].next THEN [a[u] EXCEPT !.prev = a[v].prev]
        ELSE IF u = a[v].prev THEN [a[u] EXCEPT !.next = a[v].next]
        ELSE a[u]]

AtLeastZero(n) == IF n < 0 THEN 0 ELSE n

-----------------------------------------------------------------------------
(* Insert, called by InsertEdge, UpdateEdge and DeleteEdge. *)

SetWriter(t, pc) == wr' = [wr EXCEPT ![t].pc = pc]

\* What the documented use of the interface allows next: an insertion of an
\* absent edge, a change of a present one, and no two calls on one edge at once.
Allowed(c) ==
    /\ (c.delta = 1) <=> (View[c.idx] = 0)
    /\ \A t \in Writers : wr[t].pc # "idle" => wr[t].call.idx # c.idx

\* The caller enters Insert and loads src->next.
Call(t) ==
    /\ wr[t].pc = "idle"
    /\ calls < MaxCalls
    /\ \E d \in Dest, w \in Weights :
         \E c \in {Insertion(d, w), Update(d, w), Deletion(d)} :
            /\ Contract => Allowed(c)
            /\ wr' = [wr EXCEPT ![t] = [IdleWriter EXCEPT !.pc = "reserve",
                                                          !.arr = cur, !.call = c]]
            /\ rd' = [r \in Readers |-> [rd[r] EXCEPT !.still = @ \ {d}]]
    /\ calls' = calls + 1
    /\ UNCHANGED <<arr, buf, cur, mtx, clock, ans, reads>>

Beyond_OffByOne(v, slot) == slot > arr[v].cap

Beyond(v, slot) == slot >= arr[v].cap

\* A slot number was taken from version v: below cap it is the writer's own,
\* otherwise the writer has to see to it that the array is expanded.
TakeSlot(t, v) ==
    /\ arr' = [arr EXCEPT ![v].size = @ + 1]
    /\ wr' = [wr EXCEPT ![t].arr = v, ![t].slot = arr[v].size,
                        ![t].pc = IF Beyond(v, arr[v].size) THEN "lock"
                                  ELSE IF Mixed THEN "tick" ELSE "stamp"]

\* next->size.fetch_add(1) on the array loaded before, and the test of the loop.
Reserve(t) ==
    /\ wr[t].pc = "reserve"
    /\ arr[wr[t].arr].mem # "freed"
    /\ TakeSlot(t, wr[t].arr)
    /\ UNCHANGED <<buf, cur, mtx, clock, rd, ans, calls, reads>>

\* The same access when the array was deleted since it was loaded.  What a
\* program does after it is undefined; the model lets the thread stop here.
UseAfterFree(t) ==
    /\ wr[t].pc = "reserve"
    /\ arr[wr[t].arr].mem = "freed"
    /\ SetWriter(t, "fault")
    /\ UNCHANGED <<arr, buf, cur, mtx, clock, rd, ans, calls, reads>>

\* Could the pointer that t holds, of a deleted array, equal src->next again?
SameAddress(v) ==
    /\ AddressReuse
    /\ arr[v].mem = "freed"
    /\ cur > arr[v].freedAt

\* The spin lock is taken and the pointer loaded before is compared with next.
Lock(t) ==
    /\ wr[t].pc = "lock"
    /\ mtx = NoThread
    /\ mtx' = t
    /\ \/ /\ wr[t].arr = cur \/ SameAddress(wr[t].arr)
          /\ wr' = [wr EXCEPT ![t].pc = "wait", ![t].arr = cur]
       \/ /\ wr[t].arr # cur
          /\ SetWriter(t, "reload")
    /\ UNCHANGED <<arr, buf, cur, clock, rd, ans, calls, reads>>

Full_Reserved(v) == arr[v].size >= arr[v].cap
Full_OffByOne(v) == arr[v].phys > arr[v].cap

Full(v) == arr[v].phys = arr[v].cap

\* Every slot of the array is written: compact it into a new array and link the
\* two.  Nobody can reach the new array before it is published.
Compact(t) ==
    /\ wr[t].pc = "wait"
    /\ Full(cur)
    /\ cur < MaxVersion
    /\ LET want == AtLeastZero(arr[cur].deg) * ExpandRate
                     + (arr[cur].size - arr[cur].cap + 1) + Slack
       IN  /\ arr' = [arr EXCEPT ![cur + 1] = Compacted(cur, want),
                                 ![cur].next = cur + 1]
           /\ buf' = [buf EXCEPT ![cur + 1] = CompactedBuffer(cur, want, FALSE)]
    /\ clock' = clock + 1
    /\ SetWriter(t, "publish")
    /\ UNCHANGED <<cur, mtx, rd, ans, calls, reads>>

\* src->next.store(new_array).
Publish(t) ==
    /\ wr[t].pc = "publish"
    /\ cur' = cur + 1
    /\ SetWriter(t, "reclaim")
    /\ UNCHANGED <<arr, buf, mtx, clock, rd, ans, calls, reads>>

\* The retired array loses its buffers unless it is being read, and then the
\* array before it is deleted unless that one is being read.
Reclaim(t) ==
    LET old == wr[t].arr
        before == arr[old].prev
        purged == [arr EXCEPT ![old].mem = "shell"]
    IN  /\ wr[t].pc = "reclaim"
        /\ IF arr[old].reads # 0
           THEN UNCHANGED <<arr, buf>>
           ELSE IF before # NoVersion /\ arr[before].reads = 0
           THEN /\ arr' = Delete(purged, before, cur)
                /\ buf' = [buf EXCEPT ![old] = NoBuffer, ![before] = NoBuffer]
           ELSE /\ arr' = purged
                /\ buf' = [buf EXCEPT ![old] = NoBuffer]
        /\ SetWriter(t, "reload")
        /\ UNCHANGED <<cur, mtx, clock, rd, ans, calls, reads>>

\* Load src->next again, reserve a slot in it, release the lock.
Reload(t) ==
    /\ wr[t].pc = "reload"
    /\ TakeSlot(t, cur)
    /\ mtx' = NoThread
    /\ UNCHANGED <<buf, cur, clock, rd, ans, calls, reads>>

\* GetGlobalTimestamp() for the log entry.
Tick(t) ==
    /\ wr[t].pc = "tick"
    /\ wr' = [wr EXCEPT ![t].pc = "stamp", ![t].stamp = clock]
    /\ clock' = clock + 1
    /\ UNCHANGED <<arr, buf, cur, mtx, rd, ans, calls, reads>>

\* Store the timestamp, if the array has timestamps, and adjust the degree.
Stamp(t) ==
    /\ wr[t].pc = "stamp"
    /\ buf' = [buf EXCEPT ![wr[t].arr][wr[t].slot].stamp = wr[t].stamp]
    /\ arr' = [arr EXCEPT ![wr[t].arr].deg = @ + wr[t].call.delta]
    /\ SetWriter(t, "idx")
    /\ UNCHANGED <<cur, mtx, clock, rd, ans, calls, reads>>

\* next->edge[i] = {weight, des} is two stores; GCC emits idx before weight.
WriteIdx(t) ==
    /\ wr[t].pc = "idx"
    /\ buf' = [buf EXCEPT ![wr[t].arr][wr[t].slot].idx = wr[t].call.idx]
    /\ SetWriter(t, "weight")
    /\ UNCHANGED <<arr, cur, mtx, clock, rd, ans, calls, reads>>

WriteWeight(t) ==
    /\ wr[t].pc = "weight"
    /\ buf' = [buf EXCEPT ![wr[t].arr][wr[t].slot].weight = wr[t].call.weight]
    /\ SetWriter(t, "commit")
    /\ UNCHANGED <<arr, cur, mtx, clock, rd, ans, calls, reads>>

\* next->physical_size.fetch_add(1), and Insert returns.
Commit(t) ==
    /\ wr[t].pc = "commit"
    /\ arr' = [arr EXCEPT ![wr[t].arr].phys = @ + 1]
    /\ wr' = [wr EXCEPT ![t] = IdleWriter]
    /\ UNCHANGED <<buf, cur, mtx, clock, rd, ans, calls, reads>>

-----------------------------------------------------------------------------
(* GetNeighbours(Vertex*, neighbours, timestamp) in mixed mode. *)

\* The caller fixes a timestamp with GetGlobalTimestamp, or takes the default.
Ask(r) ==
    /\ Mixed
    /\ rd[r].pc = "idle"
    /\ reads < MaxReads
    /\ reads' = reads + 1
    /\ \E ts \in {clock, Forever} :
         /\ rd' = [rd EXCEPT ![r].pc = "lock", ![r].ts = ts]
         /\ clock' = IF ts = Forever THEN clock ELSE clock + 1
    /\ UNCHANGED <<arr, buf, cur, mtx, wr, ans, calls>>

LockForRead(r) ==
    /\ rd[r].pc = "lock"
    /\ mtx = NoThread
    /\ mtx' = r
    /\ rd' = [rd EXCEPT ![r].pc = "walk", ![r].arr = cur]
    /\ UNCHANGED <<arr, buf, cur, clock, wr, ans, calls, reads>>

Within(s, ts) == ts = Forever \/ s <= ts

Readable(v, ts) == arr[v].mem = "live" /\ Within(arr[v].snapTs, ts)

\* The version is too new or has lost its edges: go back to the one before it;
\* at the end of the chain GetNeighbours returns false.
WalkBack(r) ==
    /\ rd[r].pc = "walk"
    /\ ~Readable(rd[r].arr, rd[r].ts)
    /\ LET before == arr[rd[r].arr].prev
       IN  IF before # NoVersion
           THEN /\ rd' = [rd EXCEPT ![r].arr = before]
                /\ UNCHANGED mtx
           ELSE /\ rd' = [rd EXCEPT ![r] = IdleReader]
                /\ mtx' = NoThread
    /\ UNCHANGED <<arr, buf, cur, clock, wr, ans, calls, reads>>

\* The version is pinned before the lock is released.
Pin(r) ==
    /\ rd[r].pc = "walk"
    /\ Readable(rd[r].arr, rd[r].ts)
    /\ arr' = [arr EXCEPT ![rd[r].arr].reads = @ + 1]
    /\ rd' = [rd EXCEPT ![r].pc = "count",
                        ![r].still = {d \in Dest : \A t \in Writers :
                                         wr[t].pc # "idle" => wr[t].call.idx # d}]
    /\ mtx' = NoThread
    /\ UNCHANGED <<buf, cur, clock, wr, ans, calls, reads>>

\* The answer is the snapshot segment of the version.
CopySnapshot(r) ==
    LET v == rd[r].arr
    IN  /\ rd' = [rd EXCEPT ![r].pc = "unpin"]
        /\ ans' = [ans EXCEPT ![r].got =
                      [k \in 1 .. arr[v].snapDeg |->
                         [idx |-> buf[v][k - 1].idx, weight |-> buf[v][k - 1].weight]]]

LastSlot(n) == n - 1

\* cnt = physical_size: without logs the snapshot is the answer, otherwise the
\* log is searched from the end for the first entry that is old enough.
Count(r) ==
    LET v == rd[r].arr
        cnt == arr[v].phys
    IN  /\ rd[r].pc = "count"
        /\ IF cnt > arr[v].snapDeg
           THEN /\ rd' = [rd EXCEPT ![r].pc = "scan", ![r].pos = LastSlot(cnt)]
                /\ UNCHANGED ans
           ELSE CopySnapshot(r)
        /\ UNCHANGED <<arr, buf, cur, mtx, clock, wr, calls, reads>>

\* One timestamp cell.  A cell that is not written yet holds an arbitrary value.
Scan(r) ==
    LET v == rd[r].arr
        s == buf[v][rd[r].pos].stamp
    IN  /\ rd[r].pc = "scan"
        /\ \E visible \in BOOLEAN :
             /\ s # NoStamp => (visible <=> Within(s, rd[r].ts))
             /\ rd[r].ts = Forever => visible
             /\ \/ /\ visible
                   /\ rd' = [rd EXCEPT ![r].pc = "read"]
                   /\ UNCHANGED ans
                \/ /\ ~visible /\ rd[r].pos = arr[v].snapDeg
                   /\ CopySnapshot(r)
                \/ /\ ~visible /\ rd[r].pos # arr[v].snapDeg
                   /\ rd' = [rd EXCEPT ![r].pos = @ - 1]
                   /\ UNCHANGED ans
        /\ UNCHANGED <<arr, buf, cur, mtx, clock, wr, calls, reads>>

Fresh_NoBitmap(r, d) == d # NoIdx

\* An entry counts if it is written and no newer entry for d was met.
Fresh(r, d) == d # NoIdx /\ d \notin ans[r].seen

\* One edge, from the newest to the oldest.  An entry that stays unwritten for
\* the whole retry loop is passed over.
Read(r) ==
    LET v == rd[r].arr
        i == rd[r].pos
        e == [idx |-> buf[v][i].idx, weight |-> buf[v][i].weight]
        fresh == Fresh(r, e.idx)
    IN  /\ rd[r].pc = "read"
        /\ ans' = [ans EXCEPT
                     ![r].got = IF fresh /\ e.weight # 0 THEN Append(@, e) ELSE @,
                     ![r].seen = IF fresh /\ i >= arr[v].snapDeg
                                 THEN @ \cup {e.idx} ELSE @]
        /\ rd' = [rd EXCEPT ![r].pos = @ - 1,
                            ![r].pc = IF i = 0 THEN "unpin" ELSE @]
        /\ UNCHANGED <<arr, buf, cur, mtx, clock, wr, calls, reads>>

LastReader_Never(v) == FALSE
LastReader_Any(v) == v # cur

LastReader(v) == arr[v].reads = 1 /\ v # cur

\* threads_read-- under the lock; the last reader of a retired version deletes it.
Unpin(r) ==
    LET v == rd[r].arr
        left == [arr EXCEPT ![v].reads = @ - 1]
    IN  /\ rd[r].pc = "unpin"
        /\ mtx = NoThread
        /\ IF LastReader(v)
           THEN arr' = Delete(left, v, cur) /\ buf' = [buf EXCEPT ![v] = NoBuffer]
           ELSE arr' = left /\ UNCHANGED buf
        /\ rd' = [rd EXCEPT ![r] = IdleReader]
        /\ ans' = [ans EXCEPT ![r] = NoAnswer]
        /\ UNCHANGED <<cur, mtx, clock, wr, calls, reads>>

-----------------------------------------------------------------------------
(* CreateSnapshots, run while no other call is in progress. *)

AllIdle ==
    /\ \A t \in Writers : wr[t].pc = "idle"
    /\ \A r \in Readers : rd[r].pc = "idle"

\* The bound leaves a version for every write call that may still come.
CreateSnapshot(sorted, dense) ==
    LET deg == AtLeastZero(arr[cur].deg)
        want == IF dense THEN deg ELSE deg * ExpandRate + Slack
        linked == [arr EXCEPT ![cur + 1] = Compacted(cur, want),
                              ![cur].next = cur + 1]
    IN  /\ AllIdle
        /\ cur + (MaxCalls - calls) < MaxVersion
        /\ arr' = Delete(linked, cur, cur + 1)
        /\ buf' = [buf EXCEPT ![cur + 1] = CompactedBuffer(cur, want, sorted),
                              ![cur] = NoBuffer]
        /\ cur' = cur + 1
        /\ clock' = clock + 1
        /\ UNCHANGED <<mtx, wr, rd, ans, calls, reads>>

-----------------------------------------------------------------------------
WriterStep(t) ==
    \/ Reserve(t) \/ UseAfterFree(t) \/ Lock(t)
    \/ Compact(t) \/ Publish(t) \/ Reclaim(t) \/ Reload(t)
    \/ Tick(t) \/ Stamp(t) \/ WriteIdx(t) \/ WriteWeight(t) \/ Commit(t)

ReaderStep(r) ==
    \/ LockForRead(r) \/ WalkBack(r) \/ Pin(r) \/ Count(r) \/ Scan(r) \/ Read(r)
    \/ Unpin(r)

\* Every call that the bounds allow was made and has returned.
Done ==
    /\ calls = MaxCalls
    /\ reads = MaxReads \/ ~Mixed
    /\ \A t \in Writers : wr[t].pc \in {"idle", "fault"}
    /\ \A r \in Readers : rd[r].pc = "idle"
    /\ UNCHANGED vars

Next ==
    \/ \E t \in Writers : Call(t) \/ WriterStep(t)
    \/ \E r \in Readers : Ask(r) \/ ReaderStep(r)
    \/ \E sorted, dense \in BOOLEAN : CreateSnapshot(sorted, dense)
    \/ Done

Spec == Init /\ [][Next]_vars

\* A thread inside a call keeps running.
Fairness ==
    /\ \A t \in Writers : WF_vars(WriterStep(t))
    /\ \A r \in Readers : WF_vars(ReaderStep(r))

FairSpec == Spec /\ Fairness
=============================================================================
