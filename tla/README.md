# A TLA+ model of RadixGraph

RadixGraph is an in-memory store for weighted graphs. Threads insert, update and
delete edges, and read neighbour lists, without a global lock; analytics kernels
run on it with OpenMP. This directory holds TLA+ modules that model it, TLC
configurations that check them on small instances, and proofs that TLAPS checks.
Paths are those of the repository; `radixgraph.cpp:27` and the like, without a
directory, mean files of its `src/`.

## 1. The system

| Component | State | Operations |
|---|---|---|
| **Edge array of a vertex** (`radixgraph.cpp`, `utils.h`) | `Vertex.next`, the chain of `WeightedEdgeArray` versions (`prev_arr`, `next_arr`), each with `size`, `cap`, `physical_size`, `deg`, `snapshot_deg`, `snapshot_timestamp`, `threads_read`, edges and timestamps; the spin lock `Vertex.mtx`; the global timestamp | `Insert` (under `InsertEdge`, `UpdateEdge`, `DeleteEdge`), `GetNeighbours(Vertex*)`, `LogCompaction`, one vertex of `CreateSnapshots`, `~WeightedEdgeArray` |
| **SORT vertex index** (`sort.cpp`, `sort.h`) | radix tree of `SORTNode`s, one lock bit per child, `cnt`, `vertex_table` | `RetrieveVertex`, `InsertVertex`, `DeleteVertex`, `Transform`, `Size` |
| **Public interface** (`radixgraph.h`) | the index, one bitmap per thread, `is_sorted`, `expand_rate` | looks both vertices up, checks `del_time`, calls `Insert` or `GetNeighbours`; `CreateSnapshots` over all vertices; `SetNumThreads` |
| **ART, VertexArray** (`art.cpp`, `vertex_array.cpp`) | alternative vertex indexes, compiled out by default | the index interface again |
| **Optimizer** (`sort.cpp` and the stand-alone `optimizer.cpp`) | none | `OptimalFanout`, `Prune` |
| **Bitmaps** (`utils.h`) | `AtomicBitmap`, `SegmentedBitmap` | set, clear, test, `set_bit_atomic` |
| **GAPBS support** (`GAPBS/*.h`) | sliding queue, bitmap, wrappers of atomics | append through per-thread buffers, slide, set a bit, compare-and-swap |
| **GAPBS kernels** | the results, the frontier | BFS, SSSP, CC, TC, BC, PageRank over a fixed graph |
| **Memory probe, tests, benchmarks, examples, plots** | | drive and measure the library |

**How they interact.** A call of the interface resolves vertex IDs in the index;
an insertion may create the vertex, with an empty array of capacity 8. It then
works on one vertex's edge array only. The array shares with others the global
timestamp, and the bitmap of the calling thread. Writers, readers and compaction
of one vertex meet in the counters of its current array, in the version chain
and under `Vertex.mtx`. Threads that insert vertices meet in the lock bits of
the tree nodes, in `cnt` and in `vertex_table`. `CreateSnapshots` and
`Transform` are exclusive by documentation. Nothing is persisted and nothing is
sent over a network, so there are no crashes or lost messages to model.

**What is hard.** Slots are reserved with `fetch_add` on an array found without
the lock, which may be compacted away at any moment. Log entries are filled by
plain stores in any order while readers scan them. Old versions are freed by
expanders and by readers, with no count of the writers that hold their address.
The tree is read without locks and grown with double-checked locking; the vertex
array publishes a vertex by several plain stores; ART without a table lets
insertions race and deletes the losers. A scan shares its duplicate bitmap with
every other scan of the same thread number. The kernels' "atomics" are plain reads
and writes. The full list, with lines, is `hazards` in `PROJECT.json`.

**What makes each component correct.**
- *Edge array:* writers never write to a retired array; slots are unique;
  `physical_size` is exact; a pinned version keeps its buffers; the chain never
  reaches freed memory; retired buffers are reclaimed; timestamps separate
  versions; the log means a map from destinations to weights that only the calls
  change; quiet reads are exact; calls return.
- *Vertex indexes:* a linearizable map from IDs to vertices; no node or vertex is
  lost or made twice; internal IDs are unique and name table entries; calls return.
- *SORT over its life:* an ID keeps its vertex through `Transform`; no node is left
  behind; `Size` is exact.
- *Optimizer:* the fanouts add up to the length of the IDs, at minimal cost.
- *Interface:* a read returns the edges as of its time; a deleted vertex stays
  deleted; `deg` and the snapshots are exact; bitmaps come back clean.
- *GAPBS:* the queue and the frontier stay in bounds; the kernels agree with the
  definitions of distance, component and triangle, as far as their races allow.

## 2. Modules

| Module | Contents |
|---|---|
| `EdgeArray` | the edge array of one vertex: state, one action per step, fairness |
| `AdjacencyMap` | what it promises its writers: an atomic map |
| `EdgeArrayProperties`, `EdgeArrayProofs` | its properties, inductive invariant and refinement mapping; the proofs about threads, slots and pins |
| `EdgeArrayHistoryProofs` | the proofs about the version chain and its times, and about which slots are written |
| `EdgeArrayContentsProofs`, `EdgeArrayReadProofs` | the proofs about the edges the array stands for, and about the answers of reads |
| `SortIndex` | SORT: lookups, insertions, deletions of any number of threads |
| `VertexMap` | what every vertex index promises: a linearizable map with deletion marks |
| `SortIndexProperties`, `SortIndexProofs` | its properties, inductive invariant and refinement mapping; the proofs |
| `Optimizer` | the dynamic programme for the fanouts, as recursive functions |
| `SortTree`, `SortTreeProperties` | the shape of SORT from constructor to destructor, with `Transform` |
| `PlainIndex` | VertexArray, and ART with and without a vertex table |
| `PlainIndexProperties`, `PlainIndexProofs` | its properties, inductive invariant and refinement mapping; the proofs |
| `SegmentedBitmap` | the growing bitmap, as operators |
| `RadixGraph` | the public interface over several vertices, composed of index, edge arrays and bitmaps |
| `RadixGraphProperties`, `RadixGraphProofs` | its properties; the proofs |
| `GraphView` | what a kernel sees: a graph that does not change, and its OpenMP team |
| `Bfs`, `Components`, `DeltaStepping`, `Triangles` | one kernel each |
| `KernelsProperties`, `KernelsProofs` | the kernels side by side and their properties; the proofs |
| `MCEdgeArray`, `MCSortIndex`, `MCSortTree`, `MCKernels` | instances for TLC: symmetry, tree shapes, graphs |

How they compose: `EdgeArray` implements `AdjacencyMap`, and `SortIndex` and
`PlainIndex` implement `VertexMap` (checked as properties, and proved). `RadixGraph` is
written on the level of the two abstract modules: a lookup is one step, a
compaction is one step and an append is one step. `SortTree` is about trees as values and is used by one
thread at a time; every tree in it is designed by `Optimizer`. The kernels run over
what `GetNeighboursByOffset` returns while nobody writes.

A definition named `D_Fault` next to a definition `D` is `D` with a plausible
bug in it. Nothing uses it except mutation testing: for every property of a
passing run, `mutants` in `PROJECT.json` names a faulty definition under which
TLC finds the property violated.

### EdgeArray

Versions are numbered in the order of allocation; `arr[v]` is the header of
version `v`, `buf[v]` its slots (edge and timestamp together), `cur` is
`Vertex.next`. `wr[t]` and `rd[r]` hold the program counter and locals of a
thread in `Insert` and `GetNeighbours`. One action stands for the code between
two accesses that other threads can see:

| Code | Actions |
|---|---|
| `Insert`, 20-24 | `Call` (load `next`), `Reserve` (`size.fetch_add`, test against `cap`), `UseAfterFree` |
| 24-26 | `Lock` (spin lock, pointer comparison) |
| 27-36 | `Compact` (wait for `physical_size`, `LogCompaction`, link), `Publish` |
| 37-46 | `Reclaim` (purge the retired array, delete the one before) |
| 48-50 | `Reload` (reserve again, unlock) |
| 52-58 | `Tick`, `Stamp`, `WriteIdx`, `WriteWeight`, `Commit` |
| `GetNeighbours`, 121-138 | `Ask`, `LockForRead`, `WalkBack`, `Pin` |
| 139-188 | `Count`, `Scan`, `Read` (one slot each) |
| 190-202 | `Unpin` (drop the pin, delete a retired version) |
| `CreateSnapshots` | `CreateSnapshot` (one vertex, no other call in progress) |

Choices a reader should know:
- *Memory order.* The atomics use the default order; the plain stores of a log
  entry stay in order on x86. GCC at `-O3` stores `idx` before `weight`, hence
  `WriteIdx` before `WriteWeight`. `cap` never changes once an array is
  published, so its test is one step with the `fetch_add`.
- *Compaction is one step.* It runs under the lock on an array that nobody
  writes to (`WritersOnCurrent` with the wait, and `RetiredFrozen`, check this)
  into an array that nobody can reach. Readers see only the old buffers.
- *Uninitialised memory.* `timestamp` comes from `new int[n]`: a cell that is
  not stored yet compares either way (`Scan`). After a compaction the snapshot
  has no stamps.
- *Use after free* is undefined; the model lets the thread stop (`fault`). Its
  lost slot may then hold up others, which is why the liveness run is bounded to
  where no array is freed under a writer.
- *Address reuse.* `AddressReuse` lets a freed array's address come back as the
  current array, which the pointer comparison cannot tell apart (`SameAddress`).
- *Contract.* With `Contract`, callers insert only absent edges, change only
  present ones and never work on one edge from two threads; without it they do
  anything. Outside mixed mode the model has no readers, as `README.md:46` says.
- *Ghosts.* `still` (destinations untouched since a version was pinned) and
  `freedAt` (newest version at the time of a `delete`) are not in the code.
- *Timestamps* have cells for the log segment only (`new int[cap - num]`, used
  with the offset `snapshot_deg`, lines 53 and 145). The model indexes them by
  slot and clears those of the snapshot.
- *One vertex.* The call enters where both vertices are known; the timestamp
  draws of other vertices are left out, they only make the clock move faster.

### SortIndex

`nodes` are the tree nodes in the order of allocation, `root` and the children
are numbers of nodes (numbers of vertices at the leaves), `bits` the lock bits
that are set, `table` the vertex table, `th[t]` the locals of a thread.
`NumBits` is the fanout array; `Slot` is the index computation of
`sort.cpp:204-205`.

| Code | Actions |
|---|---|
| `RetrieveVertex` 188-202 | `Call`, `RootLock`, `RootNew`, `RootUnlock` |
| 203-228 | `Walk` (one level) |
| `DeleteVertex` | `Mark` after the lookup |
| `InsertVertex` 140-160 | `Insert` (one level), `SetBit` |
| 146-163 | `Check` (look again under the bit; an inner node is made here) |
| 171, 172-175, 176, 178, 179 | `Count`, `Grow`, `Store`, `Name`, `Clear` |

A pointer of the tree that is not null never changes (`WriteOnce`, checked), so
the two reads the code makes of it are one step. The contents of a new node or
vertex are private until the store that publishes them. `vertex_table` is TBB's
`concurrent_vector`: `grow_by` appends atomically and never moves an element.
Deletion times are abstracted to "deleted or not".

### Optimizer and SortTree

`OptimalFanout` is the code's programme with its arrays `g` and `pre` as one
recursive function `best`. The code works with doubles; a cost is here the exact
expected number of pointers times a common denominator, so nothing is rounded.
The first comparison with the cheap `Estimate` (lines 40-41) is kept, as it may prune.

`SortTree` names a node by the path of slots that leads to it: `inner` are the
paths of the nodes below the root, `leaf` maps the paths of the last level to
vertices. `Insert` is `RetrieveVertex` or `InsertSimpleVertex`; `Transform` builds
the list `frontiers` either by searching the old tree or from the `vertex_set`,
with the pair of the old root that the code leaves in front, and lets the first
claim to a slot win; `nodes` counts the allocated `SORTNode`s through `Transform`
and `Destroy`.

### PlainIndex

`variant` says how the library is built. In the array all vertices exist from the
start and a lookup tests `idx`; a new vertex is published by three stores, of which
`next` is atomic (`StoreField`: `next` first, the plain stores in either order).
ART with a table takes the mutex, looks again, draws the ID, grows the table and
inserts the key; without it, it makes the vertex first (`Make`), and the loser of
the key (`TryKey`) deletes its vertex and reads the winner's (`GetAgain`). The tree
is the external library unodb, whose `get` and `insert` are documented as
thread-safe and taken as atomic.

### RadixGraph

`table` holds the vertices with their current arrays, `index` the external IDs,
`bitmap` one `SegmentedBitmap` per thread. A call is a sequence of steps: two
lookups (`FindSrc`, `FindDes`, each with its check of `del_time`); `Compact`, the
whole of `LogCompaction`, as long as the array is full; `Insert`, with the timestamp draw,
once it has room. `BeginDelete` (reads the clock) and `Mark` (stores `del_time`); `FindVertex`,
`Pin`, `Scan` entry by entry with the bitmap of the thread, `Clear`. `CreateSnapshots`
and `SetNumThreads` are exclusive, as documented. `hist` is a ghost: every
append with its time, from which the properties compute what a read should return.
`sloppy` marks the vertices on which a caller broke the contract (an insertion of a
present edge or a change of a missing one), as `deg` is not exact there.
Old versions and their pins are left to `EdgeArray`.

`Compact` is an action of its own because it may take several: after a change of a
missing edge `deg` can be too small, and the array that `LogCompaction` sizes by it can
come out full, which is why the code stands in a loop (`while (i >= next->cap)`). An
earlier form of the model compacted once and appended in the same step; the attempt to
prove that no array holds more than its capacity (`ArraysFit`) showed that it could
write past the end where the code goes round again.

### The kernels

`team` is the OpenMP team, one of `Teams`; static schedules give each thread a block of the
vertices in order (`Share`, `InOrder`), dynamic ones hand out chunks. `platform_atomics.h` implements `compare_and_swap`
and `fetch_and_add` by plain reads and writes, so the read and the write are
separate steps in `Bfs` (`Look`/`Swap`, `FlushFetch`/`FlushAdd`/`FlushCopy`,
`MarkLoad`/`MarkCompare`/`MarkStore`) and in `DeltaStepping` (`NextEdge`, `Reach`,
`Compare`, `SwapDist`; `FetchTail`/`AddTail`/`CopyBin`). `BUStep` is one step: its chunks of 1024 vertices share no
word of the bitmap and a vertex stores its own parent only. `Components` takes
every read and write of `comp` as a step. `Triangles` is a pure function: the merge
with its cursor, over sorted lists or over lists taken as they are. A write past the
end of the queue or frontier ends the behaviour in a state `lost`.

## 3. What the runs check

| Run | Instance | Shows |
|---|---|---|
| `mixed` | 2 writers, 1 reader, 2 destinations, 4 writes, 1 read, up to 5 versions, mixed mode, documented use, address reuse | the safety properties of the edge array and `RetiredFrozen` |
| `misuse` | 1 writer, 2 readers, 1 destination, 3 writes, 2 reads, arbitrary calls | the inductive invariant and the pins survive duplicates, deletions of missing edges, and two readers that pin different versions |
| `implements` | 2 writers, 2 destinations, 2 weights, 4 writes, 5 versions, no readers | the array refines `AdjacencyMap`: each call changes one edge at the instant it takes its slot; compaction and `CreateSnapshots` change none |
| `live` | 2 writers, 1 reader, one compaction, fairness | every `Insert` and `GetNeighbours` returns |
| `tree` | 2 threads, 3 IDs, 2 levels of 1 bit, 3 calls of any kind, fairness | SORT refines `VertexMap`, loses nothing, numbers vertices once, never changes a pointer that is set, and every call returns |
| `index` | 3 threads, 2 IDs, 3 calls of any kind, all three variants, fairness | both plain indexes refine `VertexMap`; the invariant; exact offsets; no vertex leaks; calls return |
| `transform` | trees of 2 to 4 bits, designed or given by hand; 5 IDs of which 3 are inserted; 2 transforms | IDs keep their vertices, sizes are exact, no node is lost, the designs are optimal |
| `graph` | 2 threads, 2 IDs, 4 calls, 1 exclusive call, arrays of capacity 1, bitmap segments of 1 bit, both modes | reads are exact at their time, deletions last, bitmaps and counters are exact |
| `kernels` | 8 shapes of graph on 4 vertices with lists in both orders, a one-way path, one graph of 6 vertices; teams of 1 and 2; right and wrong `edge_num` | what each kernel returns, and that it returns |

**Why the bounds are enough to be interesting.** *Edge array:* the first array has
capacity 0 (`InitCap`, 1 in `live`) and the growth constants are 1 instead of 8 and
2, so that a few writes overflow, compact and retire several arrays; 4 writes with
two writers produce stale writers, double expansions, and versions that are
retired, purged and deleted while pinned. The reader's walk meets up to five
versions. *SORT:* the IDs 0 and 1 share a leaf of the tree and differ in the last
step, 2 lives under another leaf: two threads compete for the root, for an inner
node, and for one leaf slot. *Plain indexes:* three threads on two IDs race for one
key while a third draws the next offset. *SortTree:* the IDs are narrower and wider
than the trees, an ID is 0, arrays have an empty level, more and fewer bits, and a
wrong number of levels. *Interface:* an ID is source and target at once, the second
append of a vertex compacts, every new destination grows a bitmap, and the read
times lie before and after deletions and compactions. *Kernels:* the buffer size of
1 and chunks of 1 let two threads meet at every flush; the graph of 6 vertices is
the smallest where the search goes bottom-up, back to top-down, and bottom-up again.
`MaxCalls`, `MaxReads`, `MaxVersion`, `MaxAdmin`, `MaxIds` and `MaxTransforms` only
bound the length of behaviours. The proofs have no such bounds (section 5).

**Deadlock** is checked in every passing run: `Done` (`Return` in the kernels) is
enabled only when all calls the bound allows have returned.

**Fairness.** Each thread keeps running (weak fairness of its next step): the
operating system does not stop a thread for ever. The spin locks are not fair,
and the model gives no fairness to a single acquisition; weak fairness is enough
because the number of calls is bounded, so a lock is not taken away for ever.
What the liveness runs show is thus that no thread waits for something that will
not come: the expander's wait under the lock ends, and lock bits and the mutex of
ART are released on every path. The kernels have weak fairness of the team as a
whole, which is less than OpenMP gives: whichever thread runs, the loops end.

**Where the kernels' properties stop.** With a team of one they are exact
(`BfsExact`, and `SsspExact` as far as the frontier has room: the attempt to prove that it
has (`CopiesFit`) led to the counterexample of `Kernels_v_frontier` in section 4). With a
team of two the plain compare-and-swap lets two threads win the same vertex; it is queued twice, and the queue, which has one slot for
each vertex, may overflow; a distance may be replaced by a longer one. For two
threads the properties therefore state what stays true: every parent is a visited
neighbour and leads to the source, slots are written before they are read, no
distance is too short, no thread loops for ever. `Components` is exact for both.
`cc_sv.cc` looks vertices up by external ID and follows edges by internal ID;
the components are those of the graph it sees.

## 4. Disagreements with the code's own statements

A run must find a violation of what the comment, documentation or header says:

| Run | Statement | What happens |
|---|---|---|
| `stale_writer` | `radixgraph.cpp:43` "you can delete the previous version (snapshot) safely" | a writer that loaded `next` before two compactions increments `size` of an array deleted meanwhile |
| `sort_slot` | `utils.h:157` "vertex_table[e.idx] returns the DummyNode of the vertex" | `cnt.fetch_add` and `grow_by` of two insertions interleave: `idx` and table position are swapped for good |
| `zero` | `sort.h:79-82` transform "to another configuration" with the "set of current inserted vertices" | with a `vertex_set`, ID 0 is answered with the address of the old root node |

Five more disagreements of the edge array and one of the kernels have a configuration
beside the modules that is not listed among the runs;
`tlc -config EdgeArray_v_aba.cfg MCEdgeArray` and so on, and
`tlc -config Kernels_v_frontier.cfg MCKernels`, show the counterexamples:

| Configuration | Statement | What happens |
|---|---|---|
| `EdgeArray_v_aba` | `radixgraph.cpp:26` "Array not expanded, start expanding" | the freed array's address is the current array's: an array with room is expanded, and waited for under the lock |
| `EdgeArray_v_stale_version` | `radixgraph.h:70` "read the latest snapshot at the timestamp" | the right version was retired and purged, an older one is still pinned: the reader answers from the older one |
| `EdgeArray_v_future` | `examples/concurrent.cpp:29` "fix the timestamp for consistency" | slots are taken before stamps, so an entry with a later stamp lies below one that is old enough and is returned |
| `EdgeArray_v_torn` | `utils.h:156` weight 0 "is a delete log" | a half-written insertion (`idx` stored, `weight` not) is taken for a deletion |
| `EdgeArray_v_missed` | `README.md:46` reads "ensure consistency" | `physical_size` counts written slots, not a prefix: an edge whose insertion returned is not read |
| `Kernels_v_frontier` | `sssp.cc:27-28` "each thread copies its selected thread-local bin into the shared bin" | a vertex whose distance shrinks within its bin is relaxed twice and files its neighbours twice, and the copy (line 102) runs over the end of `frontier`, which has `num_edges` entries (line 58): 7 vertices, 7 edges and one thread are enough |

The passing properties are stated so that these do not hide others:
`WritersOnCurrent` still shows that a stale writer never *writes an entry* to an
array that is gone, since a retired array is full (`RetiredOverfull`);
`QuietReadExact` shows that a read no write overlaps is exact.

## 5. What is proved

Eight modules hold theorems, each for all values of its constants: any number of
threads, IDs, versions and calls. A property that a theorem states need not be
repeated by a run; those that runs check too are named in `theorems` in
`PROJECT.json`.

### EdgeArray

`EdgeArrayProofs` proves, for all finite sets of readers and writers, all
capacities and growth constants, in either mode, with or without address reuse
and documented use (assumption `ConstantsAssumption` only):

- `Inductive`: `Spec => []IInv`
- `TypeCorrect`, `WritersStayOnCurrent`, `PinsAreHeld`, `ReadsStayInBounds`:
  the type invariant and three safety invariants the runs check
- `RetiredVersionsFrozen`: `Spec => RetiredFrozen`
- `SlotsHaveOneOwner`: `Spec => []SlotsNotShared`
- `RetiredBuffersAreReclaimed`: `Spec => []RetiredBuffersReclaimed`

*The argument.* `WritersOnCurrent` alone is not inductive. A writer may only
keep its slot over another thread's `Compact` if there is no such writer, and
that follows from counting: `SlotsAccounted` says that committed plus owned slots
are the slots handed out, at most `cap`, so `physical_size = cap` at the wait
means that nobody owns a slot. That the array is still the right one at that
point needs the lock (`LockHeldInside`) and where pointers may point
(`PointersInChain`). A stale writer, which holds no lock, may still reserve a
slot number in a retired array: `RetiredOverfull` says the number is beyond the
capacity, so it never becomes an owned slot. `Handover` carries the facts about
the new array from `Compact` to `Publish` and `Reclaim`; `PinsHold` counts
readers, which is why `Reclaim` and `Unpin` take no pinned version apart;
`VersionsSane` orders the counters and the version chain. The proof has one lemma for
each action, and in it one step for each conjunct of `IInv` that the action can
disturb; finite-set facts about adding or removing a writer or reader from a set
are lemmas of their own.

The last two theorems need more than `IInv`. `SlotsHaveOneOwner` adds that
`snapshot_deg` of the current array never changes between two publications and
that `size` never falls below it, so that every slot handed out lies above the
snapshot segment. `RetiredBuffersAreReclaimed` strengthens its property to
`RetiredRead`, which also speaks of the time the lock is held: a retired array
that still has its buffers has a reader, or the writer that retired it stands at
`Reclaim` and is about to delete it.

`EdgeArrayHistoryProofs` adds, from the same assumption:

- `ChainIsExact`: `Spec => []ChainExact`
- `VersionsPartition`: `Spec => []VersionsPartitionTime`

*The argument.* `Chained` says of the headers alone that they form one doubly linked
list in the order of allocation; two lemmas, free of the program, show that linking a
new array behind the newest one (`ChainAppend`) and `~WeightedEdgeArray`
(`ChainDelete`) keep it so. `NewestKnown` says that only an expander between `Compact`
and `Publish` has an array above the current one; purging leaves the list alone. For
the times, `TimesApart` bounds every stamp by the snapshot of its version from below
and by the clock and every later snapshot from above. A writer that stamps an entry drew
the stamp while its array was current; that no later snapshot was taken in between
follows from `SlotsAccounted`: an expander passes its wait only when nobody owns a slot.

and, about the slots:

- `PhysicalSizeIsExact`: `Spec => []PhysicalSizeExact`

*The argument.* The count follows from `SlotsAccounted`. For the contents, `InProgress`
says what the owner of a slot has stored at each program counter, `Committed` that a
slot nobody owns was left complete, `SnapshotReady` the same of an array that waits to
be published. The new array of a compaction has no gap because the rank of a kept slot
among the kept ones is an injection into positions, hence onto them (`RankExact`).

The other two modules assume `Contract`, that the interface is used as documented:
insertions of absent edges, changes of present ones, no two calls on one edge at once.
`EdgeArray_misuse` shows what is lost without it. `EdgeArrayContentsProofs` adds:

- `EdgeArrayImplementsMap`: `Spec => ImplementsAdjacencyMap`, the refinement of the
  abstract map, step by step

*The argument.* A call takes effect at the `fetch_add` that hands out its slot: the
view of the vertex is what the log says if every reserved slot counts as holding what
its owner is about to write (`Entry`). Then no store of an entry changes an edge
(`LogSame`), and the new array of a compaction must say the same as the old one. It
does by either path of `LogCompaction`. The scan keeps the latest entry of each edge
that is there (`KeptIsLatest`). The fast path, taken when `physical_size = deg`, keeps
every entry, which is right only because `deg` is exact: `DegreeExact` says that `deg`
is the number of edges up to the writers that own a slot and have still to adjust it,
and the expander finds no such writer. As many edges as entries then means that each
entry is the latest of an edge that is there (`LatestCount`). That `deg` stays exact
needs `CallsLegal`: until it takes effect, a call in progress is still what the contract
allows, since no other call is about its edge (`CallsSound`). `NewArraySame` carries the
edges from `Compact` to `Publish`.

`EdgeArrayReadProofs` adds, from the same assumptions:

- `NoNeighbourTwice`: `Spec => []NoDuplicateNeighbours`, whatever writers do meanwhile
- `QuietReadsAreExact`: `Spec => []QuietReadExact`

*The argument.* For the first, `Gathering` says that what a reader has listed it has met
above its position, in its bitmap or in the snapshot segment, where nothing is marked but
no destination occurs twice (`SnapshotSound`). For the second, a read at the default
timestamp pins the current version (`WalkCurrent`, since publishing needs the lock the
walk holds), and as long as every destination is `still` no writer is inside a call
(`StillQuiet`). So the version stays current and its log the same, and at each position
the bitmap holds the destinations of the log entries above it and the answer the latest
ones (`QuietReads`); an entry is fresh exactly if it is the newest for its destination
(`FreshIsNewest`). Below slot 0 the answer is the set of edges (`EdgesOfLog`).

### SortIndex

`SortIndexProofs` proves, for every fanout array (assumptions `SortAssumption`,
`SlotAssumption` and `PathsAssumption`):

- `Inductive`: `Spec => []IInv`; `ShapeInductive`: `Spec => []SortInv`
- `BitsAreHeld`, `IdxAreUnique`: a lock bit has one owner, an internal ID one vertex
- `TreeIsSound`: `Spec => []TreeSound`, no node or vertex lost or made twice
- `QuietTableIsExact`: `Spec => []QuietTable`
- `ReadsStayTrue`: `Spec => WriteOnce`
- `SortImplementsMap`: `Spec => ImplementsVertexMap`, the refinement of the abstract map

*The argument.* A store to a slot is safe because only the thread with the bit of
that slot makes it, and only if its second look found the slot null. For an inner
node look and store are one step; for a vertex three steps lie between them, and
`StillMissing` says that the slot stays null meanwhile: another thread that
stores to it would have the same bit, against `BitsHeld`. The lock of the root works
alike (`RootHeld`). So no pointer that is set ever changes, which is what keeps the
threads without a lock in place: `Placed` says that each stands at a node of the
level it believes in, and `PointersLevelled` that a pointer leads one level down,
from a leaf to a vertex. IDs are unique since every drawn or written one is below
`cnt` (`DrawnBelowCnt`), which grows in the step that draws.

The rest is about paths. `Reached(id)`, the nodes that the descent for an ID passes, is a
recursive function of the level, and facts about it are proved by induction over the
levels: the library's induction theorems cannot be instantiated, but that a set of naturals
has a least element follows from its theorems on well-founded relations
(`LeastNatural`), and `LevelInduction` from that. What is reached stays reached
(`ReachedStays`), so a thread in the tree is on the path of its ID (`OnPath`), and what it
finds at a leaf is what the ID finds. `SortInv` adds to `IInv` that no two slots hold the
same node or vertex (`OneParent`), hence that an ID shares its vertex with no other
(`VertexOwner`); that every node hangs in the tree and every vertex too, unless its maker
is about to store it, which no other thread then knows (`Held`, `Fresh`); that a vertex
bears no ID but the one it is found under (`NamesRight`); and that a drawn internal ID is
in the table or in the hands of one thread (`IdsUsed`). A new node has null pointers and
changes what no ID finds (`MapAfterNode`). `Store` gives a vertex to the ID of its thread,
which found none, and to no other (`MapAfterStore`): that is the instant at which an
insertion enters the map. Every other call takes effect at its last read, or at the mark.

`SlotAssumption` says that the slot of an ID is one of the children, and
`PathsAssumption` that IDs whose slots agree at every level are equal. Both are arithmetic
of powers of two that follows from `SortAssumption`; the provers know nothing of
exponents, so they are assumed, and TLC evaluates them.

### PlainIndex

`PlainIndexProofs` proves, for each of the three variants:

- `Inductive`: `Spec => []IInv`
- `LocksAreHeld`: a bit or the mutex has one owner
- `FoundVerticesReady`: what a lookup finds has its array and its internal ID
- `OffsetsAreExact`: ART's vertex with internal ID i is entry i of the table
- `NothingIsLeaked`: the vertices of lost races, and only those, are deleted
- `PlainIndexImplementsMap`: `Spec => ImplementsVertexMap`

*The argument.* The lock admits one thread between the second look and the
unlock, so the key stays absent and at most one drawn ID waits for its place in the
table (`TableFollowsCnt`). Without a table several threads make vertices for one
key, but each owns the one it made until the tree takes it (`MakersOwn`), so every
vertex is in the tree, owned or deleted (`VerticesAccounted`). In the array the
three stores of `StoreField` are ordered where it matters: `next` before `idx`
(`NextBeforeIdx`), and lookups test `idx`.

For the refinement `CallPaths` says what a call has found out at each program counter:
which way it has taken and that the ID it is about to enter is still absent. A vertex that
is found stays found, so the look that finds it, the mark, the store to `idx` or the
insertion into the tree is the step of the map.

### RadixGraph

`RadixGraphProofs` proves every property of the interface that `RadixGraph_graph` checks,
for any number of threads, IDs and calls (assumption `RadixGraphAssumption` only):

- `TypeCorrect`, `NamesAgree`: `Spec => []TypeOK`, `Spec => []NamesRoundTrip`
- `RefusalsStand`, `UpdatesMeetLive`: a read that was refused is refused ever
  after, and an update begun after one of its vertices was deleted appends nothing
- `BuffersHold`: no scan writes past its buffer, and the bitmaps come back clean
- `SortedLists`, `DegreesCount`: lists flagged as sorted are, and `deg` is exact
- `ReadsRight`: a read returns the edges as of its time

*The argument.* `Shape` gives every variable its type, every thread what it carries from one
step of its call to the next, and every array room for its entries; it is inductive,
and with `VerticesStay` (offsets and names of vertices never change) everything else
rests on it. The other invariants are named for what they say:

- `Lateness`, with the step property `Refusals`: a deletion time that is set is never
  unset and an array only gets later snapshots, so what was too late stays too late.
- `Marks`: a bitmap holds the destinations of the log entries its thread has passed
  and no others, hence nothing between scans. `SetBits` and `ClearBits`, which fold
  single bits over a set, are unfolded one bit at a time (`OneBitMore`).
- `Ordered`: while `is_sorted` stands and nobody has written, every array is a snapshot
  in order.
- `Contents`: the snapshot segment is the edges after the first appends at the vertex,
  the log segment is the remaining appends one by one (`Mirrors`), and `deg` counts the
  edges. A compaction keeps this by either path (`KeptContent`). As in `EdgeArray`, the
  fast path is right only because `deg` is exact: as many edges as entries means that each
  entry is an edge of its own.
- `Readers`: an array that a read has pinned stands for the appends up to the pin, of
  which the read must see those up to its time (`Timely` orders them), and what it has
  listed is the edges among the entries it has passed (`ReadRight`).

`DegreesCount` and `ReadsRight` except the vertices on which callers broke the contract
(`sloppy`), and `RefusalsStand` those deleted twice (`twice`), as the
properties do: there the code promises nothing. The order of the entries in a new
array is a `CHOOSE`, and the last entry a read may see a `Max`; that both exist
needs that finite sets of numbers can be sorted (`Sortable`) and bounded ones have a
greatest member (`MaxOfBounded`), which follow from `LeastNatural`.

### The kernels

`KernelsProofs` proves, for all graphs, teams, weights and schedules (assumptions
`GraphViewAssumption`, `BfsAssumption`, `ComponentsAssumption` and
`DeltaSteppingAssumption`):

- `ComponentsAreRight`: `Spec => []ComponentsCorrect`
- `SearchIsRight`: `Spec => []BfsCorrect`
- `DistancesAreRight`: `Spec => []SsspCorrect`

*The argument, components.* A label is a number of the component of its vertex and not
above the vertex (`LabelsKept`), whichever writes are lost. The loop ends after an
iteration that left `change` clear. In such an iteration no label has changed, since
every hook sets `change`, whether its write survives or not; so an edge in label is still to be looked at (`HookingExact`), and at its end none is left (`NothingHooked`). The compression then ends at labels that point to themselves
(`CompressingExact`), and equal labels along edges are equal labels on components
(`DoneExact`).

*Search.* Two flushes may fetch the same place in the queue, and one of the increments may be
lost. `SearchInv` holds all the same: a slot below the window is written, and one from
there to `shared_in` is written or about to be written by a flush in progress
(`SlotsCovered`), and what is in the queue, a buffer or a frontier is visited
(`VisitedOnly`). That parents form a tree is stated by ranks: `TreeInv` says that there
are numbers, the step of the search in which each vertex was visited, that fall from
a vertex to its parent. A second thread that wins a vertex in the same step replaces its
parent by another of a lower rank, so a way up is always shorter than N. For a team of one
`LevelInv` says more: the visited vertices are those within so many steps of the source,
the last level of them is in the window of the queue or among the bits, whichever the
direction uses, and the other bits, left by an earlier bottom-up phase, are those of visited
vertices, whose neighbours are visited too. `Room` counts what is in the queue or on the way
to it against the visited vertices, so that it never overflows.

*Shortest paths.* `Shortest` relaxes all edges N times. That this is a fixed point
(`ShortestIsSettled`) is a pigeonhole argument: a vertex whose value changed in round N
has a neighbour whose value changed in round N - 1, and so on, which needs N + 1 different
vertices. Every function that is 0 at the source and that no edge makes less is at most
the distances found by rounds, so from below `PathsInv` suffices: no distance, and none
in the hands of a thread, is less than `Shortest`. For a team of one `ExactInv` says where the
work that is left must be: a vertex with an edge that would still make another distance
less is in the thread's hands, in the frontier, or in the bin of its distance, which is
not below the current one; at the end there is no such place, so no such vertex.
`ExactInv` was checked with TLC before it was proved.

`Within`, `Climb` and `Shortest` are recursive functions over `0 .. n`. The provers have no
induction, so what they compute is proved with `LeastNatural` again: a statement that
holds at 0 and goes from each number to the next holds up to n (`UpTo`), and such a
function exists (`IteratesExist`).

### Only model-checked

- Liveness and everything else that needs fairness.
- `SortTree` and `Optimizer`: their functions are recursive over data, sort sets of paths,
  fold sums and use powers of two, none of which the provers know.
- `TrianglesExact`: `Triangles` is the sort of the library and a fold over merged lists.

## 6. Not modelled

- *PageRank and betweenness:* their results are sums of floating-point scores, and
  a property of them would be about rounding. Betweenness searches as `Bfs` does,
  through the queue modelled there.
- *GAPBS support:* `pvector` is storage with a size, of which the queue and the
  bins use appending and indexing only; the generator, readers and timers of the
  driver programs are input and output.
- *Bitmaps:* words and shifts are left out, except where two threads meet in a
  word: a bitmap is the set of bits that are on, and `SegmentedBitmap` also keeps
  its segments.
- *ART:* `unodb` is not in the repository; its `get` and `insert` are taken as
  atomic. `SORT::InsertSimpleVertex` is in `SortTree`; ART's, which stores a text in
  place of a vertex for a benchmark, is not, nor is its garbage collection, which is
  compiled out.
- *`ENABLE_GARBAGE_COLLECTION`* is 0 in the build: slots of deleted vertices are not
  reused.
- *The destructor of `RadixGraph`* and `SetMaximumID` (a store to a global before
  the graph is built) change nothing a later call reads.
- *`optimizer.cpp`* runs the recurrence of `Optimizer` with parameters taken from a
  file of IDs; the reading of the file and the printing are left out.
- The memory probe, tests, benchmarks, examples and plots drive and measure the
  library.
- Weights are a small set, of which only zero is told apart.

## 7. What is left

1. *Proofs:* `SortTree`, by the induction of `LevelInduction` over the levels, with
   facts about powers of two stated first; `Triangles`, with facts about sorted sequences;
   the facts about numbers and finite sets that several proof modules state, in one place.
2. *Interface:* the edge arrays of `RadixGraph` replaced by `EdgeArray`, on a smaller
   instance.
3. *Kernels:* teams of three; betweenness with integer path counts, whose search
   has the races of `Bfs`.
