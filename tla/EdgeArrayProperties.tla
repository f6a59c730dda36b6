------------------------ MODULE EdgeArrayProperties ------------------------
(***************************************************************************)
(* What makes the edge store of a vertex correct: EdgeArray's type         *)
(* invariant, its safety, action and liveness properties, and the mapping  *)
(* under which it implements AdjacencyMap.                                 *)
(***************************************************************************)
EXTENDS EdgeArray

WriterPcs == {"idle", "reserve", "lock", "wait", "publish", "reclaim", "reload",
              "tick", "stamp", "idx", "weight", "commit", "fault"}
ReaderPcs == {"idle", "lock", "walk", "count", "scan", "read", "unpin"}

\* The program counters at which a thread is inside its critical section, and
\* those at which a reader has a version pinned.
WriterInside == {"wait", "publish", "reclaim", "reload"}
Pinning == {"count", "scan", "read", "unpin"}

Pinned(v) == {r \in Readers : rd[r].pc \in Pinning /\ rd[r].arr = v}

Headers ==
    [size : Nat, cap : Nat, phys : Nat, deg : Int, snapDeg : Nat, snapTs : Nat,
     reads : Nat, prev : Versions \cup {NoVersion}, next : Versions \cup {NoVersion},
     mem : {"none", "live", "shell", "freed"}, freedAt : Nat]

WriterStates ==
    [pc : WriterPcs, arr : Versions \cup {NoVersion}, slot : Nat,
     call : Calls \cup {NoCall}, stamp : Nat \cup {NoStamp}]

ReaderStates ==
    [pc : ReaderPcs, arr : Versions \cup {NoVersion}, ts : Nat \cup {Forever},
     pos : Int, still : SUBSET Dest]

\* Every variable has its type; the buffers of a live version have cap slots.
TypeOK ==
    /\ arr \in [Versions -> Headers]
    /\ DOMAIN buf = Versions
    /\ \A v \in Versions :
          arr[v].mem = "live" => DOMAIN buf[v] = 0 .. (arr[v].cap - 1)
    /\ cur \in Versions
    /\ mtx \in Writers \cup Readers \cup {NoThread}
    /\ clock \in Nat
    /\ wr \in [Writers -> WriterStates]
    /\ rd \in [Readers -> ReaderStates]
    /\ DOMAIN ans = Readers
    /\ calls \in 0 .. MaxCalls /\ reads \in Nat

-----------------------------------------------------------------------------
(* Safety. *)

\* A writer fills its slot without the lock; nevertheless the array it writes
\* to is the current one and its buffers are there, whatever compactions,
\* purges and deletions other threads do meanwhile (radixgraph.cpp:27, the wait
\* for physical_size, against the deletions of lines 38-43 and 196).
WritersOnCurrent ==
    \A t \in Writers : wr[t].pc \in Writing =>
        /\ wr[t].arr = cur
        /\ arr[cur].mem = "live"
        /\ wr[t].slot < arr[cur].cap /\ wr[t].slot < arr[cur].size

\* No two writers own the same slot, and no writer owns a slot of the snapshot.
SlotsNotShared ==
    \A t \in Holding(cur) :
        /\ wr[t].slot >= arr[cur].snapDeg
        /\ \A u \in Holding(cur) : wr[t].slot = wr[u].slot => t = u

\* physical_size counts exactly the reserved slots that are completely written:
\* what the expander's wait for physical_size = cap relies on.
PhysicalSizeExact ==
    /\ arr[cur].phys + Cardinality(Holding(cur)) = Cardinality(Reserved(cur))
    /\ \A i \in Reserved(cur) :
          (\A t \in Holding(cur) : wr[t].slot # i) =>
              /\ buf[cur][i].idx # NoIdx
              /\ Mixed /\ i >= arr[cur].snapDeg => buf[cur][i].stamp # NoStamp

\* The spin lock is held by exactly the thread that is inside.
LockHeldInside ==
    /\ \A t \in Writers : wr[t].pc \in WriterInside <=> mtx = t
    /\ \A r \in Readers : rd[r].pc = "walk" <=> mtx = r

\* A version that a reader has pinned keeps its buffers, and threads_read is the
\* number of its readers (lines 136-137 and 190-198 against 37-46).
PinsHold ==
    /\ \A r \in Readers : rd[r].pc \in Pinning => arr[rd[r].arr].mem = "live"
    /\ \A v \in Versions : arr[v].reads = Cardinality(Pinned(v))

\* The versions that were allocated and not deleted.
Allocated == {v \in Versions : arr[v].mem \in {"live", "shell"}}
NearestBelow(v) ==
    LET S == {u \in Allocated : u < v}
    IN  IF S = {} THEN NoVersion ELSE CHOOSE u \in S : \A x \in S : x <= u

\* The prev_arr chain lists every allocated version, newest first, and nothing
\* else: a walk under the lock never meets a deleted array (utils.h:190-199).
ChainExact ==
    \A v \in Allocated :
        /\ arr[v].prev = NearestBelow(v)
        /\ arr[v].prev # NoVersion => arr[arr[v].prev].next = v

\* When the lock is free, every retired version whose edges are still in memory
\* has a reader: the purge of lines 37-39 and the last reader's delete of line
\* 196 between them leave no retired edge buffer behind.
RetiredBuffersReclaimed ==
    mtx = NoThread =>
        \A v \in Versions : v < cur /\ arr[v].mem = "live" => arr[v].reads > 0

\* Timestamps partition the log by version: what is stamped in a version is no
\* older than its snapshot and older than every later snapshot.  This is what
\* lets a reader choose a version by snapshot_timestamp alone.
VersionsPartitionTime ==
    Mixed => \A v \in Versions : arr[v].mem = "live" =>
        \A i \in DOMAIN buf[v] : buf[v][i].stamp # NoStamp =>
            /\ arr[v].snapTs <= buf[v][i].stamp
            /\ \A u \in Versions : u > v /\ arr[u].mem # "none" =>
                  buf[v][i].stamp < arr[u].snapTs

\* An answer lists no destination twice (the bitmap of lines 169-175, and the
\* uniqueness of the snapshot that LogCompaction establishes).
NoDuplicateNeighbours ==
    \A r \in Readers : rd[r].pc = "unpin" =>
        \A j, k \in DOMAIN ans[r].got : ans[r].got[j].idx = ans[r].got[k].idx => j = k

Answer(r) == {ans[r].got[k] : k \in DOMAIN ans[r].got}
Edges(D) == {[idx |-> d, weight |-> View[d]] : d \in {x \in D : View[x] # 0}}

\* A read at the default timestamp that no write call overlaps returns exactly
\* the edges of the vertex, whatever compactions came before.
QuietReadExact ==
    \A r \in Readers :
        rd[r].pc = "unpin" /\ rd[r].ts = Forever /\ rd[r].still = Dest =>
            Answer(r) = Edges(Dest)

\* GetNeighbours reads the timestamp and edge buffers only at indices they have.
ReadsInBounds ==
    \A r \in Readers :
        LET v == rd[r].arr
        IN  /\ rd[r].pc = "scan" =>
                  rd[r].pos >= arr[v].snapDeg /\ rd[r].pos < arr[v].cap
            /\ rd[r].pc = "read" => rd[r].pos >= 0 /\ rd[r].pos < arr[v].cap
            /\ rd[r].pc \in Pinning => arr[v].snapDeg <= arr[v].cap

-----------------------------------------------------------------------------
(* The inductive invariant behind WritersOnCurrent, PinsHold and ReadsInBounds. *)

\* Where the array pointers of the threads may point.
PointersInChain ==
    /\ \A t \in Writers : wr[t].pc # "idle" => wr[t].arr \in 0 .. cur
    /\ \A t \in Writers : wr[t].pc \in {"wait", "publish"} => wr[t].arr = cur
    /\ \A t \in Writers : wr[t].pc = "reclaim" => wr[t].arr < cur
    /\ \A r \in Readers : rd[r].pc = "walk" \/ rd[r].pc \in Pinning =>
                               rd[r].arr \in 0 .. cur

\* Every slot below cap that was taken from the current array is either
\* committed or still owned.
SlotsAccounted ==
    arr[cur].phys + Cardinality(Holding(cur)) =
        IF arr[cur].size < arr[cur].cap THEN arr[cur].size ELSE arr[cur].cap

\* A stale writer can only overflow a retired version.
RetiredOverfull ==
    \A v \in Versions : v < cur /\ arr[v].mem # "freed" => arr[v].size >= arr[v].cap

\* The array built by Compact is complete when it is published, the old one has no
\* writer left, and nobody but the expander takes the old one apart.
Handover ==
    /\ \A t \in Writers : wr[t].pc = "publish" =>
          /\ cur + 1 \in Versions
          /\ arr[cur].phys = arr[cur].cap
          /\ arr[cur + 1].mem = "live"
          /\ arr[cur + 1].phys = arr[cur + 1].size
          /\ arr[cur + 1].snapDeg = arr[cur + 1].size
          /\ arr[cur + 1].size <= arr[cur + 1].cap
    /\ \A t \in Writers : wr[t].pc = "reclaim" => arr[wr[t].arr].mem = "live"

VersionsSane ==
    /\ arr[cur].mem = "live"
    /\ \A v \in Versions :
          /\ arr[v].snapDeg <= arr[v].phys /\ arr[v].phys <= arr[v].cap
          /\ v > cur => arr[v].reads = 0 /\ arr[v].next = NoVersion
          /\ arr[v].prev < v
          /\ arr[v].next # NoVersion => v < arr[v].next

SlotsOfWriters ==
    /\ \A t \in Writers : wr[t].pc \in Writing =>
          /\ wr[t].arr = cur
          /\ wr[t].slot < arr[cur].cap /\ wr[t].slot < arr[cur].size
    /\ \A t, u \in Holding(cur) : wr[t].slot = wr[u].slot => t = u

IInv ==
    /\ TypeOK
    /\ LockHeldInside
    /\ PointersInChain
    /\ VersionsSane
    /\ SlotsOfWriters
    /\ SlotsAccounted
    /\ RetiredOverfull
    /\ Handover
    /\ PinsHold
    /\ ReadsInBounds

-----------------------------------------------------------------------------
(* Action properties. *)

\* A retired version is immutable: its buffers change only by being deleted.
RetiredFrozen ==
    [][\A v \in Versions : v < cur => buf'[v] \in {buf[v], NoBuffer}]_vars

-----------------------------------------------------------------------------
(* Liveness. *)

\* Every write call returns, unless the thread ran into a deleted array.
WritersReturn ==
    \A t \in Writers : wr[t].pc # "idle" ~> wr[t].pc \in {"idle", "fault"}

\* Every GetNeighbours returns.
ReadersReturn == \A r \in Readers : rd[r].pc # "idle" ~> rd[r].pc = "idle"

-----------------------------------------------------------------------------
(* The abstract specification: a write takes effect when its slot is taken. *)

Unplaced == {"reserve", "lock", "wait", "publish", "reclaim", "reload", "fault"}

Abstract == INSTANCE AdjacencyMap WITH
    adj <- View,
    pending <- [t \in Writers |->
                  IF wr[t].pc \in Unplaced
                  THEN {[idx |-> wr[t].call.idx, weight |-> wr[t].call.weight]}
                  ELSE {}]

\* Used as documented, the edge store implements an atomic map: compactions,
\* retirements and deletions change no edge, and each call changes exactly one.
ImplementsAdjacencyMap == Abstract!Spec

-----------------------------------------------------------------------------
(* Claims of the documentation that do not hold; each has a run of its own. *)

\* radixgraph.cpp:43, "But you can delete the previous version (snapshot)
\* safely": no thread still uses the array that is deleted.
DeletedArraysUnused == \A t \in Writers : wr[t].pc # "fault"

\* radixgraph.h:70, "read the latest snapshot at the timestamp": the version
\* that is pinned is the newest whose snapshot is old enough.
LatestVersionRead ==
    [][\A r \in Readers : Pin(r) =>
          \A v \in Versions : rd[r].arr < v /\ v <= cur =>
              ~Within(arr[v].snapTs, rd[r].ts)]_vars

\* examples/concurrent.cpp:29, "fix the timestamp for consistency": no entry
\* stamped after the fixed timestamp is part of the answer.
NoFutureEdges ==
    [][\A r \in Readers :
          /\ Read(r)
          /\ rd[r].pos >= arr[rd[r].arr].snapDeg
          /\ Len(ans'[r].got) > Len(ans[r].got)
          => Within(buf[rd[r].arr][rd[r].pos].stamp, rd[r].ts)]_vars

\* utils.h:156, "when it is 0, this edge is a delete log": an entry that is
\* taken for a deletion was written by a DeleteEdge.
NoPhantomDeletion ==
    [][\A r \in Readers :
          LET e == buf[rd[r].arr][rd[r].pos]
          IN  Read(r) /\ e.idx # NoIdx /\ e.weight = 0 =>
                  Entry(rd[r].arr, rd[r].pos).weight = 0]_vars

\* README.md:46, reads concurrent with writes "ensure consistency": a read at
\* the default timestamp reports every edge that is present when it starts and
\* that no write call touches until it ends.
SettledEdgesRead ==
    \A r \in Readers : rd[r].pc = "unpin" /\ rd[r].ts = Forever =>
        Edges(rd[r].still) \subseteq Answer(r)

\* radixgraph.cpp:26, "Array not expanded, start expanding": the array that the
\* expander waits for is one that ran out of slots.
ExpandsFullArray ==
    \A t \in Writers : wr[t].pc = "wait" => arr[cur].size > arr[cur].cap
=============================================================================
