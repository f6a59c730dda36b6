------------------------ MODULE SortIndexProperties ------------------------
(***************************************************************************)
(* What makes the vertex index correct, and the mapping under which it     *)
(* implements VertexMap.                                                   *)
(***************************************************************************)
EXTENDS SortIndex

\* The program counters at which a thread has set a bit.
Inside == {"check", "count", "grow", "store", "name", "clear"}

Pcs == {"idle", "rootlock", "rootnew", "rootunlock", "walk", "mark", "return",
        "insert", "bit"} \cup Inside

NodesAt(i) == [level : {i}, child : [Slots(i) -> Nat]]
Vertex == [node : Ids \cup {NoId}, idx : Nat, del : BOOLEAN]
Locals == [pc : Pcs, op : Ops, id : Ids \cup {0}, node : Nat, level : Levels,
           vertex : Nat, idx : Nat \cup {NoId}]

\* Every variable has its type.
TypeOK ==
    /\ nodes \in Seq({nodes[n] : n \in DOMAIN nodes})
    /\ \A n \in DOMAIN nodes : nodes[n].level \in Levels /\ nodes[n] \in NodesAt(nodes[n].level)
    /\ table \in Seq(Vertex)
    /\ root \in {Null} \cup DOMAIN nodes /\ rootBusy \in BOOLEAN
    /\ cnt \in Nat /\ calls \in Nat
    /\ th \in [Threads -> Locals]

-----------------------------------------------------------------------------
(* Safety. *)

\* A bit is set exactly while one thread works on its slot: the bits that share
\* a byte of the AtomicBitmap do not disturb each other (utils.h:68-79).
BitsHeld ==
    /\ bits = {Bit(t) : t \in {u \in Threads : th[u].pc \in Inside}}
    /\ \A t, u \in Threads :
          th[t].pc \in Inside /\ th[u].pc \in Inside /\ Bit(t) = Bit(u) => t = u

\* The slots that hold a pointer to p, at the leaves or above them.
Parents(p, leaf) ==
    {b \in UNION {{n} \X DOMAIN nodes[n].child : n \in DOMAIN nodes} :
        (nodes[b[1]].level = Depth - 1) = leaf /\ nodes[b[1]].child[b[2]] = p}

\* Nothing that was allocated is lost or shared: every node but the root has one
\* parent, and every vertex is in one leaf slot or still held by its maker
\* (the second look under the bit, sort.cpp:145 and 164).
NothingLost ==
    /\ \A n \in DOMAIN nodes \ {root} : Cardinality(Parents(n, FALSE)) = 1
    /\ \A p \in DOMAIN table :
          \/ Cardinality(Parents(p, TRUE)) = 1
          \/ /\ Parents(p, TRUE) = {}
             /\ \E t \in Threads : th[t].pc = "store" /\ th[t].vertex = p

\* No two vertices have the same internal ID, drawn or written.
IdxUnique ==
    /\ \A p, q \in DOMAIN table : table[p].idx = table[q].idx => p = q
    /\ \A p \in DOMAIN table : table[p].idx < cnt
    /\ \A t \in Threads : th[t].pc = "grow" =>
          /\ \A p \in DOMAIN table : table[p].idx # th[t].idx
          /\ \A u \in Threads : th[u].pc = "grow" /\ th[u].idx = th[t].idx => t = u

AllIdle == \A t \in Threads : th[t].pc = "idle"

\* The node that the descent for id reaches at level i, or Null; at level Depth
\* the vertex.
Reached(id) ==
    LET f[i \in 0 .. Depth] ==
            IF i = 0 THEN root
            ELSE IF f[i - 1] = Null THEN Null
            ELSE nodes[f[i - 1]].child[Slot(id, i - 1)]
    IN  f

VertexOf(id) == Reached(id)[Depth]

\* When no call is in progress, cnt is the size of the table, every internal ID
\* below it is in use, and every vertex knows the ID it is found under.
QuietTable ==
    AllIdle =>
        /\ cnt = Len(table)
        /\ {table[p].idx : p \in DOMAIN table} = 0 .. (cnt - 1)
        /\ \A id \in Ids : VertexOf(id) # Null => table[VertexOf(id)].node = id

-----------------------------------------------------------------------------
(* The inductive invariant. *)

\* A pointer leads one level down, and from a leaf to a vertex.
PointersLevelled ==
    /\ root # Null => nodes[root].level = 0
    /\ \A n \in DOMAIN nodes : \A s \in Slots(nodes[n].level) :
          nodes[n].child[s] # Null =>
              IF nodes[n].level = Depth - 1
              THEN nodes[n].child[s] \in DOMAIN table
              ELSE /\ nodes[n].child[s] \in DOMAIN nodes
                   /\ nodes[nodes[n].child[s]].level = nodes[n].level + 1

\* A thread in the tree knows the node it is at; one that leaves an inner node goes to
\* a child that exists.
Placed(t) ==
    /\ th[t].pc # "idle" => th[t].id \in Ids
    /\ th[t].pc \in {"rootlock", "rootnew", "rootunlock"} => th[t].level = 0
    /\ th[t].pc \in {"walk", "insert", "bit"} \cup Inside =>
          th[t].node \in DOMAIN nodes /\ nodes[th[t].node].level = th[t].level
    /\ th[t].pc \in {"mark", "store", "name"} => th[t].vertex \in DOMAIN table
    /\ th[t].pc \in {"count", "grow", "store", "name"} => AtLeaf(t)
    /\ th[t].pc = "clear" /\ ~AtLeaf(t) => Child(t) # Null

\* One thread at a time is inside the lock of the root, and leaves it with a root.
AtRoot == {"rootnew", "rootunlock"}

RootHeld ==
    /\ \A t \in Threads : th[t].pc \in AtRoot => rootBusy
    /\ \A t, u \in Threads : th[t].pc \in AtRoot /\ th[u].pc \in AtRoot => t = u
    /\ \A t \in Threads : th[t].pc = "rootunlock" => root # Null

\* What the second look under the bit has seen stays true until the store.
StillMissing == \A t \in Threads : th[t].pc \in {"count", "grow", "store"} => Child(t) = Null

\* An internal ID that was drawn is below cnt.
DrawnBelowCnt == \A t \in Threads : th[t].pc = "grow" => th[t].idx \in Nat /\ th[t].idx < cnt

IInv ==
    /\ TypeOK /\ PointersLevelled /\ (\A t \in Threads : Placed(t))
    /\ RootHeld /\ BitsHeld /\ StillMissing /\ DrawnBelowCnt /\ IdxUnique

\* The tree under any interleaving: IInv, and no node or vertex lost or made twice.
TreeSound == IInv /\ NothingLost

-----------------------------------------------------------------------------
(* Action property. *)

\* A pointer of the tree that is not null never changes again, nor do the root
\* and the ID of a vertex: what a lookup without a lock has read stays true.
PointersStay ==
    /\ root # Null => root' = root
    /\ \A n \in DOMAIN nodes : \A s \in DOMAIN nodes[n].child :
          nodes[n].child[s] # Null => nodes'[n].child[s] = nodes[n].child[s]

NamesStay ==
    \A p \in DOMAIN table :
        /\ table'[p].idx = table[p].idx
        /\ table[p].node # NoId => table'[p].node = table[p].node

WriteOnce == [][PointersStay /\ NamesStay]_vars

-----------------------------------------------------------------------------
(* Liveness. *)

\* Every call returns: no thread spins for ever on a bit or on the root.
CallsReturn == \A t \in Threads : th[t].pc # "idle" ~> th[t].pc = "idle"

-----------------------------------------------------------------------------
(* The abstract specification. *)

\* The answer of a call is settled from the read or the store that decides it.
Settled(t) == th[t].pc \in {"return", "name"} \/ (th[t].pc = "clear" /\ AtLeaf(t))

Abstract == INSTANCE VertexMap WITH
    index <- [id \in Ids |-> VertexOf(id)],
    deleted <- {p \in DOMAIN table : table[p].del},
    request <- [t \in Threads |->
                  IF th[t].pc = "idle" THEN {} ELSE {[op |-> th[t].op, id |-> th[t].id]}],
    answer <- [t \in Threads |-> IF Settled(t) THEN {th[t].vertex} ELSE {}]

\* The index is a linearizable map: two insertions of one ID, and a lookup that
\* starts after an insertion returned, agree on the vertex.
ImplementsVertexMap == Abstract!Spec

-----------------------------------------------------------------------------
(* A claim of the documentation that does not hold; it has a run of its own. *)

\* utils.h:157, "vertex_table[e.idx] returns the DummyNode of the vertex": once
\* all calls have returned, the vertex with internal ID i is entry i.
TableSlotMatchesIdx ==
    AllIdle => \A p \in DOMAIN table : table[p].idx = p - 1
=============================================================================
