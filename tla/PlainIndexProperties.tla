------------------------ MODULE PlainIndexProperties ------------------------
(***************************************************************************)
(* What makes VertexArray and ART right, and the mapping under which they  *)
(* implement VertexMap, the promise of SORT as well.                       *)
(***************************************************************************)
EXTENDS PlainIndex

\* The program counters at which a thread holds its lock.
Inside == {"second", "fields", "count", "grow", "key", "unlock"}

Pcs == {"idle", "look", "mark", "return", "lock", "make", "try", "again"} \cup Inside

Vertex == [node : Ids \cup {NoId}, idx : Nat \cup {NoId}, next : BOOLEAN, del : BOOLEAN]
Fields == {"next", "node", "idx"}
Locals == [pc : Pcs, op : Ops, id : Ids, vertex : Nat, idx : Nat \cup {NoId}, todo : SUBSET Fields]

\* Every variable has its type, and a thread that stores to a vertex has one.
TypeOK ==
    /\ variant \in Variants
    /\ vertices \in Seq(Vertex)
    /\ freed \subseteq DOMAIN vertices
    /\ tree \in [Ids -> {Absent} \cup DOMAIN vertices]
    /\ table \in Seq(DOMAIN vertices)
    /\ cnt \in Nat /\ calls \in Nat
    /\ th \in [Threads -> Locals]
    /\ \A t \in Threads : th[t].pc \in {"mark", "fields", "key", "try"} => th[t].vertex \in DOMAIN vertices

\* A lock is held exactly while one thread is inside it.
LocksHeld ==
    /\ held = {Lock(t) : t \in {u \in Threads : th[u].pc \in Inside}}
    /\ \A t, u \in Threads :
          th[t].pc \in Inside /\ th[u].pc \in Inside /\ Lock(t) = Lock(u) => t = u

\* A vertex that can be found has its edge array and its internal ID, whether
\* idx or node was stored first (vertex_array.cpp:31-33), and was not deleted.
FoundIsReady ==
    \A id \in Ids : Find(id) # Absent =>
        /\ vertices[Find(id)].next
        /\ vertices[Find(id)].idx # NoId
        /\ Find(id) \notin freed

\* With the vertex table, internal ID i is entry i of the table at every moment:
\* ART draws the ID and grows the table under one mutex (art.cpp:55-76), SORT
\* does not (TableSlotMatchesIdx).
OffsetsExact ==
    variant = "art_table" =>
        /\ \A i \in DOMAIN table : vertices[table[i]].idx = i - 1
        /\ Len(table) <= cnt /\ (AllIdle => Len(table) = cnt)

\* Of the vertices that racing insertions make, one is found and the others are
\* deleted, once (art.cpp:79-92).
NothingLeaked ==
    (AllIdle /\ variant # "array") =>
        \A v \in DOMAIN vertices : v \in freed <=> \A id \in Ids : tree[id] # v

-----------------------------------------------------------------------------
(* Why: the inductive invariant. *)

\* Each variant has its way of inserting.
WaysApart ==
    \A t \in Threads :
        /\ variant = "array" => th[t].pc \notin {"count", "grow", "key", "make", "try", "again"}
        /\ variant = "art_table" => th[t].pc \notin {"fields", "make", "try", "again"}
        /\ variant = "art_plain" => th[t].pc \notin Inside \cup {"lock"}

\* The array: all vertices exist from the start, and next is stored before idx.
NextBeforeIdx ==
    variant = "array" =>
        /\ Len(vertices) = MaxId + 1 /\ freed = {}
        /\ \A v \in DOMAIN vertices : vertices[v].idx # NoId => vertices[v].next
        /\ \A t \in Threads : (th[t].pc = "fields" /\ "next" \notin th[t].todo) =>
              vertices[th[t].vertex].next

\* ART: a vertex is complete before its key is inserted, and is not deleted after.
TreeVerticesReady ==
    variant # "array" =>
        \A id \in Ids : tree[id] # Absent =>
            /\ vertices[tree[id]].next /\ vertices[tree[id]].idx # NoId
            /\ tree[id] \notin freed

\* The threads that hold a vertex which is not in the tree yet.
Makers == {t \in Threads : th[t].pc \in {"key", "try"}}

\* A new vertex is known to its maker alone.
MakersOwn ==
    variant # "array" =>
        /\ \A t \in Makers :
              /\ vertices[th[t].vertex].next /\ vertices[th[t].vertex].idx # NoId
              /\ th[t].vertex \notin freed
              /\ \A id \in Ids : tree[id] # th[t].vertex
        /\ \A t, u \in Makers : th[t].vertex = th[u].vertex => t = u

\* Every vertex is deleted, in the tree, or held by its maker.
VerticesAccounted ==
    variant # "array" =>
        \A v \in DOMAIN vertices :
            \/ v \in freed
            \/ \E id \in Ids : tree[id] = v
            \/ \E t \in Makers : th[t].vertex = v

\* Under the mutex, the ID has no key, and at most one drawn internal ID waits for
\* its place in the table.
TableFollowsCnt ==
    variant = "art_table" =>
        /\ \A t \in Threads : th[t].pc \in {"count", "grow", "key"} => tree[th[t].id] = Absent
        /\ \A i \in DOMAIN table : vertices[table[i]].idx = i - 1
        /\ \A t \in Threads : th[t].pc = "grow" => th[t].idx = Len(table) /\ cnt = Len(table) + 1
        /\ (\A t \in Threads : th[t].pc # "grow") => cnt = Len(table)

IInv ==
    /\ TypeOK /\ LocksHeld /\ WaysApart /\ NextBeforeIdx /\ TreeVerticesReady
    /\ MakersOwn /\ VerticesAccounted /\ TableFollowsCnt

-----------------------------------------------------------------------------
(* Liveness. *)

\* Every call returns.
CallsReturn == \A t \in Threads : th[t].pc # "idle" ~> th[t].pc = "idle"

-----------------------------------------------------------------------------
(* The abstract specification. *)

\* The answer of a call is settled from the read or the store that decides it.
Settled(t) ==
    th[t].pc \in {"return", "unlock"} \/ (th[t].pc = "fields" /\ "idx" \notin th[t].todo)

Abstract == INSTANCE VertexMap WITH
    index <- [id \in Ids |-> Find(id)],
    deleted <- {v \in DOMAIN vertices : vertices[v].del},
    request <- [t \in Threads |->
                  IF th[t].pc = "idle" THEN {} ELSE {[op |-> th[t].op, id |-> th[t].id]}],
    answer <- [t \in Threads |-> IF Settled(t) THEN {th[t].vertex} ELSE {}]

\* Both indexes are linearizable maps, like SORT.
ImplementsVertexMap == Abstract!Spec
=============================================================================
