--------------------------- MODULE SortIndexProofs ---------------------------
(***************************************************************************)
(* Proofs about SortIndex for any fanout array, any number of threads and  *)
(* any number of calls: IInv is inductive, and from it BitsHeld, IdxUnique *)
(* and that pointers of the tree are written once; SortInv is inductive,   *)
(* and from it TreeSound, QuietTable, WriteOnce and that SORT implements   *)
(* VertexMap.                                                              *)
(*                                                                         *)
(* The argument.  Only the thread that has set the bit of a slot stores to *)
(* it (BitsHeld), and only after a second look that found it null; an      *)
(* insertion of a vertex takes several steps between that look and the     *)
(* store, during which the slot stays null for the same reason             *)
(* (StillMissing).  So no pointer that a lookup without a lock has read is *)
(* ever changed, every thread in the tree stands at a node of its level    *)
(* (Placed), and the descent never leaves the tree.  Internal IDs are      *)
(* unique because cnt grows in the step that draws them.                   *)
(*                                                                         *)
(* What an ID finds is a function of the levels, so facts about it are     *)
(* proved by induction over the levels (LevelInduction, from the least     *)
(* element of a set of naturals).  A descent that has passed a node passes *)
(* it for good (ReachedStays), so every thread stays on the path of its ID *)
(* (OnPath).  No two slots hold the same node or vertex (OneParent), so    *)
(* two IDs share a vertex only if they share every slot (VertexOwner).  A  *)
(* new node has null pointers, so it changes what no ID finds              *)
(* (MapAfterNode); a stored vertex is found by the ID of its thread, which *)
(* found none, and by no other (MapAfterStore).  Hence a lookup answers    *)
(* from the map at the instant of its last read, and an insertion enters   *)
(* the map at the store.                                                   *)
(***************************************************************************)
EXTENDS SortIndexProperties, SequenceTheorems, WellFoundedInduction, FiniteSetTheorems, TLAPS

-----------------------------------------------------------------------------
(* The state and its types. *)

Node == UNION {NodesAt(i) : i \in Levels}

\* Levels and null pointers.
LEMMA LevelFacts ==
    /\ Depth \in Nat /\ Depth > 0 /\ 0 \in Levels /\ Levels \subseteq Nat
    /\ \A i \in Levels : i # Depth - 1 => i + 1 \in Levels
<1>1. Depth \in Nat /\ Depth > 0
    BY SortAssumption, LenProperties DEF SortAssumption, Depth
<1> QED BY <1>1 DEF Levels

\* A node has a level and the children of that level.
LEMMA NodeFields ==
    ASSUME NEW x
    PROVE  x \in Node <=> x.level \in Levels /\ x \in NodesAt(x.level)
<1>1. ASSUME x \in Node PROVE x.level \in Levels /\ x \in NodesAt(x.level)
  <2>1. PICK i \in Levels : x \in NodesAt(i)
      BY <1>1 DEF Node
  <2>2. x.level = i
      BY <2>1 DEF NodesAt
  <2> QED BY <2>1, <2>2
<1>2. ASSUME x.level \in Levels, x \in NodesAt(x.level) PROVE x \in Node
    BY <1>2 DEF Node
<1> QED BY <1>1, <1>2

\* The nodes form a sequence of nodes.
LEMMA NodesType ==
    ASSUME TypeOK
    PROVE  /\ nodes \in Seq(Node) /\ Len(nodes) \in Nat /\ DOMAIN nodes = 1 .. Len(nodes)
           /\ \A n \in DOMAIN nodes :
                 /\ nodes[n] \in Node /\ nodes[n].level \in Levels
                 /\ nodes[n].child \in [Slots(nodes[n].level) -> Nat]
<1>1. \A n \in DOMAIN nodes : nodes[n].level \in Levels /\ nodes[n] \in NodesAt(nodes[n].level)
    BY DEF TypeOK
<1>2. \A n \in DOMAIN nodes : nodes[n] \in Node
    BY <1>1, NodeFields
<1>3. nodes \in Seq({nodes[n] : n \in DOMAIN nodes}) /\ {nodes[n] : n \in DOMAIN nodes} \subseteq Node
    BY <1>2 DEF TypeOK
<1>4. nodes \in Seq(Node)
    BY <1>3, SeqMonotonic
<1>5. \A n \in DOMAIN nodes : nodes[n].child \in [Slots(nodes[n].level) -> Nat]
    BY <1>1 DEF NodesAt
<1> QED BY <1>1, <1>2, <1>4, <1>5, LenProperties

\* Conversely, a sequence of nodes has the type that TypeOK asks for.
LEMMA NodesTyped ==
    ASSUME NEW q \in Seq(Node)
    PROVE  /\ q \in Seq({q[n] : n \in DOMAIN q})
           /\ \A n \in DOMAIN q : q[n].level \in Levels /\ q[n] \in NodesAt(q[n].level)
<1>1. Len(q) \in Nat /\ DOMAIN q = 1 .. Len(q) /\ q \in [1 .. Len(q) -> Node]
    BY LenProperties
<1>2. q \in [1 .. Len(q) -> {q[n] : n \in DOMAIN q}]
    BY <1>1
<1>3. q \in Seq({q[n] : n \in DOMAIN q})
    BY <1>1, <1>2, SeqDef
<1>4. \A n \in DOMAIN q : q[n] \in Node
    BY <1>1
<1> QED BY <1>3, <1>4, NodeFields

\* The fields of a thread's state have their types.
LEMMA ThreadFields ==
    ASSUME TypeOK, NEW t \in Threads
    PROVE  /\ th[t] \in Locals
           /\ th[t].pc \in Pcs /\ th[t].op \in Ops /\ th[t].id \in Ids \cup {0}
           /\ th[t].node \in Nat /\ th[t].level \in Levels
           /\ th[t].vertex \in Nat /\ th[t].idx \in Nat \cup {NoId}
<1>1. th[t] \in Locals
    BY DEF TypeOK
<1> QED BY <1>1 DEF Locals

\* A thread in the tree looks at a slot of its node.
LEMMA AtSlot ==
    ASSUME TypeOK, NEW t \in Threads, Placed(t),
           th[t].pc \in {"walk", "insert", "bit"} \cup Inside
    PROVE  /\ th[t].node \in DOMAIN nodes /\ nodes[th[t].node].level = th[t].level
           /\ th[t].level \in Levels /\ th[t].id \in Ids
           /\ Here(t) \in Slots(nodes[th[t].node].level) /\ Child(t) \in Nat
<1>1. /\ th[t].node \in DOMAIN nodes /\ nodes[th[t].node].level = th[t].level
      /\ th[t].id \in Ids
    BY DEF Placed, Inside
<1>2. th[t].level \in Levels
    BY ThreadFields
<1>3. Here(t) \in Slots(th[t].level)
    BY <1>1, <1>2, SlotAssumption DEF SlotAssumption, Here
<1>4. nodes[th[t].node].child \in [Slots(th[t].level) -> Nat]
    BY <1>1, NodesType
<1> QED BY <1>1, <1>2, <1>3, <1>4 DEF Child

\* Goto changes the program counter of one thread and nothing else.
LEMMA GotoFields ==
    ASSUME TypeOK, NEW t \in Threads, NEW p \in Pcs, Goto(t, p)
    PROVE  /\ th' \in [Threads -> Locals]
           /\ th'[t].pc = p /\ th'[t].id = th[t].id /\ th'[t].op = th[t].op /\ th'[t].vertex = th[t].vertex
           /\ th'[t].node = th[t].node /\ th'[t].level = th[t].level /\ th'[t].idx = th[t].idx
           /\ \A u \in Threads : u # t => th'[u] = th[u]
<1>1. th \in [Threads -> Locals] /\ th[t] \in Locals
    BY DEF TypeOK
<1>2. th' = [th EXCEPT ![t] = [th[t] EXCEPT !.pc = p]]
    BY DEF Goto
<1>3. [th[t] EXCEPT !.pc = p] \in Locals
    BY <1>1 DEF Locals
<1>4. th'[t] = [th[t] EXCEPT !.pc = p]
    BY <1>1, <1>2
<1>5. /\ th'[t].pc = p /\ th'[t].id = th[t].id /\ th'[t].op = th[t].op /\ th'[t].vertex = th[t].vertex
      /\ th'[t].node = th[t].node /\ th'[t].level = th[t].level /\ th'[t].idx = th[t].idx
    BY <1>1, <1>4 DEF Locals
<1> QED BY <1>1, <1>2, <1>3, <1>5

\* Give changes the program counter of one thread, and its vertex.
LEMMA GiveFields ==
    ASSUME TypeOK, NEW t \in Threads, NEW p \in Pcs, NEW v \in Nat, Give(t, p, v)
    PROVE  /\ th' \in [Threads -> Locals]
           /\ th'[t].pc = p /\ th'[t].id = th[t].id /\ th'[t].op = th[t].op /\ th'[t].vertex = v
           /\ th'[t].node = th[t].node /\ th'[t].level = th[t].level /\ th'[t].idx = th[t].idx
           /\ \A u \in Threads : u # t => th'[u] = th[u]
<1>1. th \in [Threads -> Locals] /\ th[t] \in Locals
    BY DEF TypeOK
<1>2. th' = [th EXCEPT ![t] = [th[t] EXCEPT !.pc = p, !.vertex = v]]
    BY DEF Give
<1>3. [th[t] EXCEPT !.pc = p, !.vertex = v] \in Locals
    BY <1>1 DEF Locals
<1>4. th'[t] = [th[t] EXCEPT !.pc = p, !.vertex = v]
    BY <1>1, <1>2
<1>5. /\ th'[t].pc = p /\ th'[t].id = th[t].id /\ th'[t].op = th[t].op /\ th'[t].vertex = v
      /\ th'[t].node = th[t].node /\ th'[t].level = th[t].level /\ th'[t].idx = th[t].idx
    BY <1>1, <1>4 DEF Locals
<1> QED BY <1>1, <1>2, <1>3, <1>5

\* Descend moves one thread to the child of its node, one level down.
LEMMA DescendFields ==
    ASSUME TypeOK, NEW t \in Threads, NEW p \in Pcs, Descend(t, p), Child(t) \in Nat, ~AtLeaf(t)
    PROVE  /\ th' \in [Threads -> Locals]
           /\ th'[t].pc = p /\ th'[t].id = th[t].id /\ th'[t].op = th[t].op
           /\ th'[t].node = Child(t) /\ th'[t].level = th[t].level + 1 /\ th'[t].idx = th[t].idx
           /\ \A u \in Threads : u # t => th'[u] = th[u]
<1> DEFINE l == [th[t] EXCEPT !.pc = p, !.node = Child(t), !.level = th[t].level + 1]
<1>1. th \in [Threads -> Locals] /\ th[t] \in Locals
    BY DEF TypeOK
<1>2. th' = [th EXCEPT ![t] = l]
    BY DEF Descend
<1>3. th[t].level + 1 \in Levels
    BY ThreadFields, LevelFacts DEF AtLeaf
<1>4. l \in Locals
    BY <1>1, <1>3 DEF Locals
<1>5. /\ l.pc = p /\ l.id = th[t].id /\ l.op = th[t].op /\ l.node = Child(t) /\ l.level = th[t].level + 1
      /\ l.idx = th[t].idx
    BY <1>1 DEF Locals
<1> HIDE DEF l
<1> QED BY <1>1, <1>2, <1>4, <1>5

\* q is the sequence of nodes with c in slot s of node n.
StoredAt(q, n, s, c) ==
    /\ q \in Seq(Node) /\ Len(q) = Len(nodes) /\ DOMAIN q = DOMAIN nodes
    /\ \A m \in DOMAIN nodes : q[m].level = nodes[m].level
    /\ q[n].child[s] = c
    /\ \A m \in DOMAIN nodes : \A x \in Slots(nodes[m].level) :
          (m # n \/ x # s) => q[m].child[x] = nodes[m].child[x]

\* A store to one slot of one node leaves everything else as it is.
LEMMA SlotStored ==
    ASSUME TypeOK, NEW n \in DOMAIN nodes, NEW s \in Slots(nodes[n].level), NEW c \in Nat
    PROVE  StoredAt([nodes EXCEPT ![n].child[s] = c], n, s, c)
<1> DEFINE w == [nodes[n] EXCEPT !.child[s] = c]
           q == [nodes EXCEPT ![n].child[s] = c]
<1>1. /\ nodes \in Seq(Node) /\ DOMAIN nodes = 1 .. Len(nodes)
      /\ nodes[n].level \in Levels /\ nodes[n] \in NodesAt(nodes[n].level)
    BY NodesType DEF TypeOK
<1>2. w \in NodesAt(nodes[n].level) /\ w.level = nodes[n].level
    BY <1>1 DEF NodesAt
<1>3. \A x \in Slots(nodes[n].level) : w.child[x] = IF x = s THEN c ELSE nodes[n].child[x]
    BY <1>1 DEF NodesAt
<1>4. w \in Node
    BY <1>1, <1>2 DEF Node
<1>5. q = [nodes EXCEPT ![n] = w]
    OBVIOUS
<1> HIDE DEF w, q
<1>6. /\ q \in Seq(Node) /\ Len(q) = Len(nodes)
      /\ \A m \in 1 .. Len(nodes) : q[m] = IF m = n THEN w ELSE nodes[m]
    BY <1>1, <1>4, <1>5, ExceptSeq
<1>7. DOMAIN q = DOMAIN nodes
    BY <1>1, <1>6, LenProperties
<1>8. \A m \in DOMAIN nodes : q[m].level = nodes[m].level
    BY <1>1, <1>2, <1>6
<1>9. q[n].child[s] = c
    BY <1>1, <1>3, <1>6
<1>10. \A m \in DOMAIN nodes : \A x \in Slots(nodes[m].level) :
          (m # n \/ x # s) => q[m].child[x] = nodes[m].child[x]
    BY <1>1, <1>2, <1>3, <1>6
<1>11. StoredAt(q, n, s, c)
    BY <1>6, <1>7, <1>8, <1>9, <1>10 DEF StoredAt
<1> QED BY <1>11 DEF q

\* A new node has a null pointer in every slot.
LEMMA NewNodeType ==
    ASSUME NEW i \in Levels
    PROVE  /\ NewNode(i) \in Node /\ NewNode(i).level = i
           /\ \A s \in Slots(i) : NewNode(i).child[s] = Null
<1>1. NewNode(i) \in NodesAt(i) /\ NewNode(i).level = i
    BY DEF NewNode, NodesAt, Null
<1> QED BY <1>1 DEF Node, NewNode

-----------------------------------------------------------------------------
(* What a step leaves alone. *)

\* Nodes and vertices are only added, and pointers are only set.
Extends ==
    /\ nodes' \in Seq(Node) /\ table' \in Seq(Vertex)
    /\ DOMAIN nodes \subseteq DOMAIN nodes' /\ DOMAIN table \subseteq DOMAIN table'
    /\ root # Null => root' = root
    /\ \A n \in DOMAIN nodes :
          /\ nodes'[n].level = nodes[n].level
          /\ \A s \in Slots(nodes[n].level) :
                nodes[n].child[s] # Null => nodes'[n].child[s] = nodes[n].child[s]

\* A tree that is extended keeps its pointers.
LEMMA ExtendsPointersStay ==
    ASSUME TypeOK, Extends
    PROVE  PointersStay
<1>1. \A n \in DOMAIN nodes : DOMAIN nodes[n].child = Slots(nodes[n].level)
    BY NodesType
<1> QED BY <1>1 DEF Extends, PointersStay

\* A thread that does not move stays placed while others extend the tree.
LEMMA StaysPlaced ==
    ASSUME TypeOK, Extends, NEW u \in Threads, th'[u] = th[u], Placed(u)
    PROVE  Placed(u)'
<1>1. AtLeaf(u)' <=> AtLeaf(u)
    BY DEF AtLeaf
<1>2. CASE th[u].pc \in {"walk", "insert", "bit"} \cup Inside
  <2>1. /\ th[u].node \in DOMAIN nodes /\ nodes[th[u].node].level = th[u].level
        /\ Here(u) \in Slots(nodes[th[u].node].level)
      BY <1>2, AtSlot
  <2>2. Here(u)' = Here(u)
      BY DEF Here
  <2>3. Child(u) # Null => Child(u)' = Child(u)
      BY <2>1, <2>2 DEF Extends, Child
  <2> QED BY <1>1, <1>2, <2>1, <2>3 DEF Placed, Extends
<1>3. CASE th[u].pc \notin {"walk", "insert", "bit"} \cup Inside
    BY <1>1, <1>3 DEF Placed, Extends, Inside
<1> QED BY <1>2, <1>3

\* A thread that neither sets nor clears a bit leaves the bits as they are.
LEMMA BitsStay ==
    ASSUME BitsHeld, NEW t \in Threads, bits' = bits,
           \A u \in Threads : u # t => th'[u] = th[u],
           th'[t].pc \in Inside <=> th[t].pc \in Inside,
           th[t].pc \in Inside => /\ th'[t].id = th[t].id /\ th'[t].node = th[t].node
                                  /\ th'[t].level = th[t].level
    PROVE  BitsHeld'
<1>1. \A u \in Threads : th'[u].pc \in Inside <=> th[u].pc \in Inside
    OBVIOUS
<1>2. \A u \in Threads : th[u].pc \in Inside => Bit(u)' = Bit(u)
    BY DEF Bit, Here
<1>3. {Bit(u)' : u \in {w \in Threads : th'[w].pc \in Inside}} =
      {Bit(u) : u \in {w \in Threads : th[w].pc \in Inside}}
    BY <1>1, <1>2
<1>4. \A u, w \in Threads : th'[u].pc \in Inside /\ th'[w].pc \in Inside /\ Bit(u)' = Bit(w)' => u = w
    BY <1>1, <1>2 DEF BitsHeld
<1> QED BY <1>3, <1>4 DEF BitsHeld

\* A thread that does not touch the lock of the root leaves it as it is.
LEMMA RootStays ==
    ASSUME RootHeld, NEW t \in Threads, rootBusy' = rootBusy, root' = root,
           \A u \in Threads : u # t => th'[u] = th[u],
           th[t].pc \notin AtRoot, th'[t].pc \notin AtRoot
    PROVE  RootHeld'
BY DEF RootHeld, AtRoot

\* A step of one thread that changes neither the tree nor the internal IDs.
LEMMA QuietStep ==
    ASSUME IInv, NEW t \in Threads, UNCHANGED <<root, nodes, cnt>>,
           table' \in Seq(Vertex), DOMAIN table' = DOMAIN table,
           \A p \in DOMAIN table : table'[p].idx = table[p].idx,
           rootBusy' \in BOOLEAN, calls' \in Nat, th' \in [Threads -> Locals],
           \A u \in Threads : u # t => th'[u] = th[u],
           th'[t].pc # "grow",
           th'[t].pc \in {"count", "store"} => Child(t)' = Null,
           Placed(t)', RootHeld', BitsHeld'
    PROVE  IInv' /\ PointersStay
<1>1. nodes \in Seq(Node)
    BY NodesType DEF IInv
<1>2. Extends
    BY <1>1 DEF Extends
<1>3. TypeOK'
    BY DEF IInv, TypeOK
<1>4. PointersLevelled'
    BY DEF IInv, PointersLevelled
<1>5. \A u \in Threads : Placed(u)'
    BY <1>2, StaysPlaced DEF IInv
<1>6. StillMissing'
  <2>1. ASSUME NEW u \in Threads, th'[u].pc \in {"count", "grow", "store"}
        PROVE  Child(u)' = Null
    <3>1. CASE u = t
        BY <2>1, <3>1
    <3>2. CASE u # t
      <4>1. Child(u) = Null
          BY <2>1, <3>2 DEF IInv, StillMissing
      <4> QED BY <3>2, <4>1 DEF Child, Here
    <3> QED BY <3>1, <3>2
  <2> QED BY <2>1 DEF StillMissing
<1>7. DrawnBelowCnt'
    BY DEF IInv, DrawnBelowCnt
<1>8. IdxUnique'
    BY DEF IInv, IdxUnique
<1>9. PointersStay
    BY <1>2, ExtendsPointersStay DEF IInv
<1> QED BY <1>3, <1>4, <1>5, <1>6, <1>7, <1>8, <1>9 DEF IInv

\* The table does not change in most steps.
LEMMA SameTable ==
    ASSUME IInv, table' = table
    PROVE  /\ table' \in Seq(Vertex) /\ DOMAIN table' = DOMAIN table
           /\ \A p \in DOMAIN table : table'[p].idx = table[p].idx
BY DEF IInv, TypeOK

-----------------------------------------------------------------------------
(* The lookup. *)

LEMMA CallPreserves ==
    ASSUME IInv, NEW t \in Threads, Call(t)
    PROVE  IInv' /\ PointersStay
<1>1. PICK op \in Ops, id \in Ids :
          th' = [th EXCEPT ![t] = [Idle EXCEPT
                    !.pc = IF root = Null THEN "rootlock" ELSE "walk",
                    !.op = op, !.id = id, !.node = root]]
    BY DEF Call
<1> DEFINE l == [Idle EXCEPT !.pc = IF root = Null THEN "rootlock" ELSE "walk",
                             !.op = op, !.id = id, !.node = root]
<1>2. /\ th \in [Threads -> Locals] /\ th[t].pc = "idle" /\ calls' \in Nat /\ rootBusy' \in BOOLEAN
      /\ UNCHANGED <<root, rootBusy, nodes, bits, cnt, table>>
    BY DEF IInv, TypeOK, Call
<1>3. root \in Nat /\ (root # Null => root \in DOMAIN nodes /\ nodes[root].level = 0)
    BY NodesType DEF IInv, TypeOK, PointersLevelled, Null
<1>4. l \in Locals
    BY <1>3, LevelFacts DEF Idle, Locals, Pcs, Null
<1>5. /\ l.pc = (IF root = Null THEN "rootlock" ELSE "walk") /\ l.id = id /\ l.node = root /\ l.level = 0
    BY DEF Idle
<1> HIDE DEF l
<1>6. th' \in [Threads -> Locals] /\ th'[t] = l /\ \A u \in Threads : u # t => th'[u] = th[u]
    BY <1>1, <1>2, <1>4 DEF l
<1>7. Placed(t)'
    BY <1>2, <1>3, <1>5, <1>6 DEF Placed, Inside
<1>8. RootHeld' /\ BitsHeld'
    BY <1>2, <1>5, <1>6, RootStays, BitsStay DEF IInv, AtRoot, Inside
<1> QED BY <1>2, <1>5, <1>6, <1>7, <1>8, SameTable, QuietStep

LEMMA RootLockPreserves ==
    ASSUME IInv, NEW t \in Threads, RootLock(t)
    PROVE  IInv' /\ PointersStay
<1>1. /\ th[t].pc = "rootlock" /\ ~rootBusy /\ rootBusy' = TRUE /\ calls' \in Nat
      /\ UNCHANGED <<root, nodes, bits, cnt, table>>
    BY DEF RootLock, IInv, TypeOK
<1>2. /\ th' \in [Threads -> Locals] /\ th'[t].pc = "rootnew" /\ th'[t].id = th[t].id
      /\ th'[t].level = th[t].level
      /\ \A u \in Threads : u # t => th'[u] = th[u]
    BY GotoFields DEF RootLock, IInv, Pcs
<1>3. Placed(t)'
    BY <1>1, <1>2 DEF IInv, Placed, Inside
<1>4. RootHeld'
    BY <1>1, <1>2 DEF IInv, RootHeld, AtRoot
<1>5. BitsHeld'
    BY <1>1, <1>2, BitsStay DEF IInv, Inside
<1> QED BY <1>1, <1>2, <1>3, <1>4, <1>5, SameTable, QuietStep

LEMMA RootUnlockPreserves ==
    ASSUME IInv, NEW t \in Threads, RootUnlock(t)
    PROVE  IInv' /\ PointersStay
<1> DEFINE l == [th[t] EXCEPT !.pc = "walk", !.node = root]
<1>1. /\ th[t].pc = "rootunlock" /\ rootBusy' = FALSE /\ calls' \in Nat /\ th' = [th EXCEPT ![t] = l]
      /\ UNCHANGED <<root, nodes, bits, cnt, table>>
    BY DEF RootUnlock, IInv, TypeOK
<1>2. root # Null /\ root \in DOMAIN nodes /\ root \in Nat /\ nodes[root].level = 0
    BY <1>1, NodesType DEF IInv, TypeOK, RootHeld, PointersLevelled
<1>3. th \in [Threads -> Locals] /\ th[t] \in Locals
    BY DEF IInv, TypeOK
<1>4. l \in Locals /\ l.pc = "walk" /\ l.node = root /\ l.id = th[t].id /\ l.level = th[t].level
    BY <1>2, <1>3 DEF Locals, Pcs
<1> HIDE DEF l
<1>5. th' \in [Threads -> Locals] /\ th'[t] = l /\ \A u \in Threads : u # t => th'[u] = th[u]
    BY <1>1, <1>3, <1>4
<1>6. th[t].level = 0
    BY <1>1 DEF IInv, Placed
<1>7. Placed(t)'
    BY <1>1, <1>2, <1>4, <1>5, <1>6 DEF IInv, Placed, Inside
<1>8. RootHeld'
    BY <1>1, <1>4, <1>5 DEF IInv, RootHeld, AtRoot
<1>9. BitsHeld'
    BY <1>1, <1>4, <1>5, BitsStay DEF IInv, Inside
<1> QED BY <1>1, <1>4, <1>5, <1>7, <1>8, <1>9, SameTable, QuietStep

\* The types after a step that adds nodes.
LEMMA TypesAfter ==
    ASSUME TypeOK, nodes' \in Seq(Node), table' \in Seq(Vertex),
           root' \in {Null} \cup DOMAIN nodes', rootBusy' \in BOOLEAN,
           cnt' \in Nat, calls' \in Nat, th' \in [Threads -> Locals]
    PROVE  TypeOK'
<1>1. /\ nodes' \in Seq({nodes'[n] : n \in DOMAIN nodes'})
      /\ \A n \in DOMAIN nodes' : nodes'[n].level \in Levels /\ nodes'[n] \in NodesAt(nodes'[n].level)
    BY NodesTyped
<1> QED BY <1>1 DEF TypeOK

\* A step of one thread that may change the tree: it stores to the slot whose bit the
\* thread has set, or to none, so that what others wait to fill stays empty.
LEMMA TreeStep ==
    ASSUME IInv, NEW t \in Threads, Extends, TypeOK', PointersLevelled',
           \A n \in DOMAIN nodes : \A s \in Slots(nodes[n].level) :
              \/ nodes'[n].child[s] = nodes[n].child[s]
              \/ th[t].pc \in Inside /\ <<n, s>> = Bit(t),
           \A u \in Threads : u # t => th'[u] = th[u],
           th'[t].pc \in {"count", "grow", "store"} => Child(t)' = Null,
           Placed(t)', RootHeld', BitsHeld', DrawnBelowCnt', IdxUnique'
    PROVE  IInv' /\ PointersStay
<1>1. \A u \in Threads : Placed(u)'
    BY StaysPlaced DEF IInv
<1>2. StillMissing'
  <2>1. ASSUME NEW u \in Threads, th'[u].pc \in {"count", "grow", "store"}, u # t
        PROVE  Child(u)' = Null
    <3>1. th'[u] = th[u] /\ th[u].pc \in Inside /\ Child(u) = Null
        BY <2>1 DEF IInv, StillMissing, Inside
    <3>2. /\ th[u].node \in DOMAIN nodes /\ Here(u) \in Slots(nodes[th[u].node].level)
        BY <3>1, AtSlot DEF IInv
    <3>3. th[t].pc \in Inside => Bit(u) # Bit(t)
        BY <2>1, <3>1 DEF IInv, BitsHeld
    <3>4. nodes'[th[u].node].child[Here(u)] = nodes[th[u].node].child[Here(u)]
        BY <3>2, <3>3 DEF Bit
    <3> QED BY <3>1, <3>4 DEF Child, Here
  <2> QED BY <2>1 DEF StillMissing
<1>3. PointersStay
    BY ExtendsPointersStay DEF IInv
<1> QED BY <1>1, <1>2, <1>3 DEF IInv

\* What a new node at the end of the sequence leaves as it is.
LEMMA NodeAppended ==
    ASSUME NEW q \in Seq(Node), NEW i \in Levels
    PROVE  LET r == Append(q, NewNode(i))
           IN  /\ r \in Seq(Node) /\ Len(q) \in Nat /\ DOMAIN q = 1 .. Len(q)
               /\ DOMAIN r = 1 .. (Len(q) + 1)
               /\ \A n \in DOMAIN q : r[n] = q[n]
               /\ r[Len(q) + 1] = NewNode(i)
<1>1. NewNode(i) \in Node
    BY NewNodeType
<1> QED BY <1>1, AppendProperties, LenProperties

LEMMA RootNewPreserves ==
    ASSUME IInv, NEW t \in Threads, RootNew(t)
    PROVE  IInv' /\ PointersStay
<1>1. /\ th[t].pc = "rootnew" /\ calls' \in Nat /\ rootBusy' \in BOOLEAN
      /\ UNCHANGED <<rootBusy, bits, cnt, table>> /\ Goto(t, "rootunlock")
    BY DEF RootNew, IInv, TypeOK
<1>2. /\ th' \in [Threads -> Locals] /\ th'[t].pc = "rootunlock" /\ th'[t].id = th[t].id
      /\ th'[t].level = th[t].level
      /\ \A u \in Threads : u # t => th'[u] = th[u]
    BY <1>1, GotoFields DEF IInv, Pcs
<1>3. Placed(t)'
    BY <1>1, <1>2 DEF IInv, Placed, Inside
<1>4. BitsHeld'
    BY <1>1, <1>2, BitsStay DEF IInv, Inside
<1>5. CASE root # Null
  <2>1. UNCHANGED <<root, nodes>>
      BY <1>5 DEF RootNew, RootMissing
  <2>2. RootHeld'
      BY <1>1, <1>2, <1>5, <2>1 DEF IInv, RootHeld, AtRoot
  <2> QED BY <1>1, <1>2, <1>3, <1>4, <2>1, <2>2, SameTable, QuietStep
<1>6. CASE root = Null
  <2>1. nodes' = Append(nodes, NewNode(0)) /\ root' = Len(nodes) + 1
      BY <1>6 DEF RootNew, RootMissing
  <2>2. nodes \in Seq(Node) /\ 0 \in Levels
      BY NodesType, LevelFacts DEF IInv
  <2>3. /\ nodes' \in Seq(Node) /\ Len(nodes) \in Nat /\ DOMAIN nodes = 1 .. Len(nodes)
        /\ DOMAIN nodes' = 1 .. (Len(nodes) + 1)
        /\ \A n \in DOMAIN nodes : nodes'[n] = nodes[n]
        /\ nodes'[Len(nodes) + 1] = NewNode(0)
      BY <2>1, <2>2, NodeAppended
  <2>4. NewNode(0).level = 0 /\ \A s \in Slots(0) : NewNode(0).child[s] = Null
      BY <2>2, NewNodeType
  <2>5. RootHeld'
      BY <1>1, <1>2, <2>1, <2>3 DEF IInv, RootHeld, AtRoot, Null
  <2>6. Extends
      BY <1>1, <1>6, <2>3 DEF Extends, IInv, TypeOK
  <2>7. TypeOK'
      BY <1>1, <1>2, <2>1, <2>3, TypesAfter DEF IInv, TypeOK
  <2>8. PointersLevelled'
    <3>1. nodes'[root'].level = 0
        BY <2>1, <2>3, <2>4
    <3>2. ASSUME NEW n \in DOMAIN nodes', NEW s \in Slots(nodes'[n].level), nodes'[n].child[s] # Null
          PROVE  IF nodes'[n].level = Depth - 1
                 THEN nodes'[n].child[s] \in DOMAIN table'
                 ELSE /\ nodes'[n].child[s] \in DOMAIN nodes'
                      /\ nodes'[nodes'[n].child[s]].level = nodes'[n].level + 1
      <4>1. n \in DOMAIN nodes /\ nodes'[n] = nodes[n]
          BY <2>3, <2>4, <3>2
      <4>2. IF nodes[n].level = Depth - 1
            THEN nodes[n].child[s] \in DOMAIN table
            ELSE /\ nodes[n].child[s] \in DOMAIN nodes
                 /\ nodes[nodes[n].child[s]].level = nodes[n].level + 1
          BY <3>2, <4>1 DEF IInv, PointersLevelled
      <4> QED BY <1>1, <2>3, <4>1, <4>2
    <3> QED BY <3>1, <3>2 DEF PointersLevelled
  <2>9. DrawnBelowCnt' /\ IdxUnique'
      BY <1>1, <1>2 DEF IInv, DrawnBelowCnt, IdxUnique
  <2> QED BY <1>2, <1>3, <1>4, <2>3, <2>5, <2>6, <2>7, <2>8, <2>9, TreeStep
<1> QED BY <1>5, <1>6

\* A pointer that a thread follows leads to a node one level down, or to a vertex.
LEMMA ChildPlaced ==
    ASSUME IInv, NEW t \in Threads, th[t].pc \in {"walk", "insert", "bit"} \cup Inside,
           Child(t) # Null
    PROVE  /\ Child(t) \in Nat
           /\ AtLeaf(t) => Child(t) \in DOMAIN table
           /\ ~AtLeaf(t) => Child(t) \in DOMAIN nodes /\ nodes[Child(t)].level = th[t].level + 1
<1>1. /\ th[t].node \in DOMAIN nodes /\ nodes[th[t].node].level = th[t].level
      /\ Here(t) \in Slots(nodes[th[t].node].level) /\ Child(t) \in Nat
    BY AtSlot DEF IInv
<1>2. nodes[th[t].node].child[Here(t)] # Null
    BY DEF Child
<1>3. IF nodes[th[t].node].level = Depth - 1
      THEN nodes[th[t].node].child[Here(t)] \in DOMAIN table
      ELSE /\ nodes[th[t].node].child[Here(t)] \in DOMAIN nodes
           /\ nodes[nodes[th[t].node].child[Here(t)]].level = nodes[th[t].node].level + 1
    BY <1>1, <1>2 DEF IInv, PointersLevelled
<1> QED BY <1>1, <1>3 DEF AtLeaf, Child

\* A step that only moves a thread which is neither at the root nor inside a bit.
LEMMA MovePreserves ==
    ASSUME IInv, NEW t \in Threads, UNCHANGED <<root, rootBusy, nodes, bits, cnt, table, calls>>,
           th' \in [Threads -> Locals], \A u \in Threads : u # t => th'[u] = th[u],
           th[t].pc \notin AtRoot \cup Inside, th'[t].pc \notin AtRoot \cup Inside, Placed(t)'
    PROVE  IInv' /\ PointersStay
<1>1. RootHeld' /\ BitsHeld'
    BY RootStays, BitsStay DEF IInv
<1>2. calls' \in Nat /\ rootBusy' \in BOOLEAN
    BY DEF IInv, TypeOK
<1>3. th'[t].pc \notin {"count", "grow", "store"}
    BY DEF Inside
<1> QED BY <1>1, <1>2, <1>3, SameTable, QuietStep

LEMMA WalkPreserves ==
    ASSUME IInv, NEW t \in Threads, Walk(t)
    PROVE  IInv' /\ PointersStay
<1>1. /\ th[t].pc = "walk" /\ UNCHANGED <<root, rootBusy, nodes, bits, cnt, table, calls>>
      /\ TypeOK /\ Placed(t)
    BY DEF Walk, IInv
<1>2. /\ th[t].id \in Ids /\ Child(t) \in Nat
      /\ th[t].node \in DOMAIN nodes /\ nodes[th[t].node].level = th[t].level
    BY <1>1, AtSlot
<1>3. CASE Child(t) = Null /\ th[t].op = "insert"
  <2>1. Goto(t, "insert")
      BY <1>3 DEF Walk
  <2>2. /\ th' \in [Threads -> Locals] /\ th'[t].pc = "insert" /\ th'[t].id = th[t].id
        /\ th'[t].node = th[t].node /\ th'[t].level = th[t].level
        /\ \A u \in Threads : u # t => th'[u] = th[u]
      BY <1>1, <2>1, GotoFields DEF Pcs
  <2>3. Placed(t)'
      BY <1>1, <1>2, <2>2 DEF Placed, Inside
  <2> QED BY <1>1, <2>2, <2>3, MovePreserves DEF AtRoot, Inside
<1>4. CASE Child(t) = Null /\ th[t].op # "insert"
  <2>1. Give(t, "return", Null)
      BY <1>4 DEF Walk
  <2>2. /\ th' \in [Threads -> Locals] /\ th'[t].pc = "return" /\ th'[t].id = th[t].id
        /\ \A u \in Threads : u # t => th'[u] = th[u]
      BY <1>1, <2>1, GiveFields DEF Pcs, Null
  <2>3. Placed(t)'
      BY <1>2, <2>2 DEF Placed, Inside
  <2> QED BY <1>1, <2>2, <2>3, MovePreserves DEF AtRoot, Inside
<1>5. CASE Child(t) # Null /\ AtLeaf(t)
  <2> DEFINE p == IF th[t].op = "delete" THEN "mark" ELSE "return"
  <2>1. Give(t, p, Child(t)) /\ p \in Pcs /\ p \in {"mark", "return"}
      BY <1>5 DEF Walk, Pcs
  <2> HIDE DEF p
  <2>2. /\ th' \in [Threads -> Locals] /\ th'[t].pc = p /\ th'[t].id = th[t].id
        /\ th'[t].vertex = Child(t) /\ \A u \in Threads : u # t => th'[u] = th[u]
      BY <1>1, <1>2, <2>1, GiveFields
  <2>3. Child(t) \in DOMAIN table
      BY <1>1, <1>5, ChildPlaced
  <2>4. Placed(t)'
      BY <1>1, <1>2, <2>1, <2>2, <2>3 DEF Placed, Inside
  <2> QED BY <1>1, <2>1, <2>2, <2>4, MovePreserves DEF AtRoot, Inside
<1>6. CASE Child(t) # Null /\ ~AtLeaf(t)
  <2>1. Descend(t, "walk")
      BY <1>6 DEF Walk
  <2>2. /\ th' \in [Threads -> Locals] /\ th'[t].pc = "walk" /\ th'[t].id = th[t].id
        /\ th'[t].node = Child(t) /\ th'[t].level = th[t].level + 1
        /\ \A u \in Threads : u # t => th'[u] = th[u]
      BY <1>1, <1>2, <1>6, <2>1, DescendFields DEF Pcs
  <2>3. Child(t) \in DOMAIN nodes /\ nodes[Child(t)].level = th[t].level + 1
      BY <1>1, <1>6, ChildPlaced
  <2>4. Placed(t)'
      BY <1>1, <1>2, <2>2, <2>3 DEF Placed, Inside
  <2> QED BY <1>1, <2>2, <2>4, MovePreserves DEF AtRoot, Inside
<1> QED BY <1>3, <1>4, <1>5, <1>6

LEMMA InsertPreserves ==
    ASSUME IInv, NEW t \in Threads, Insert(t)
    PROVE  IInv' /\ PointersStay
<1>1. /\ th[t].pc = "insert" /\ UNCHANGED <<root, rootBusy, nodes, bits, cnt, table, calls>>
      /\ TypeOK /\ Placed(t)
    BY DEF Insert, IInv
<1>2. /\ th[t].id \in Ids /\ Child(t) \in Nat
      /\ th[t].node \in DOMAIN nodes /\ nodes[th[t].node].level = th[t].level
    BY <1>1, AtSlot
<1>3. CASE Child(t) = Null
  <2>1. Goto(t, "bit")
      BY <1>3 DEF Insert
  <2>2. /\ th' \in [Threads -> Locals] /\ th'[t].pc = "bit" /\ th'[t].id = th[t].id
        /\ th'[t].node = th[t].node /\ th'[t].level = th[t].level
        /\ \A u \in Threads : u # t => th'[u] = th[u]
      BY <1>1, <2>1, GotoFields DEF Pcs
  <2>3. Placed(t)'
      BY <1>1, <1>2, <2>2 DEF Placed, Inside
  <2> QED BY <1>1, <2>2, <2>3, MovePreserves DEF AtRoot, Inside
<1>4. CASE Child(t) # Null /\ AtLeaf(t)
  <2>1. Give(t, "return", Child(t))
      BY <1>4 DEF Insert
  <2>2. /\ th' \in [Threads -> Locals] /\ th'[t].pc = "return" /\ th'[t].id = th[t].id
        /\ \A u \in Threads : u # t => th'[u] = th[u]
      BY <1>1, <1>2, <2>1, GiveFields DEF Pcs
  <2>3. Placed(t)'
      BY <1>2, <2>2 DEF Placed, Inside
  <2> QED BY <1>1, <2>2, <2>3, MovePreserves DEF AtRoot, Inside
<1>5. CASE Child(t) # Null /\ ~AtLeaf(t)
  <2>1. Descend(t, "insert")
      BY <1>5 DEF Insert
  <2>2. /\ th' \in [Threads -> Locals] /\ th'[t].pc = "insert" /\ th'[t].id = th[t].id
        /\ th'[t].node = Child(t) /\ th'[t].level = th[t].level + 1
        /\ \A u \in Threads : u # t => th'[u] = th[u]
      BY <1>1, <1>2, <1>5, <2>1, DescendFields DEF Pcs
  <2>3. Child(t) \in DOMAIN nodes /\ nodes[Child(t)].level = th[t].level + 1
      BY <1>1, <1>5, ChildPlaced
  <2>4. Placed(t)'
      BY <1>1, <1>2, <2>2, <2>3 DEF Placed, Inside
  <2> QED BY <1>1, <2>2, <2>4, MovePreserves DEF AtRoot, Inside
<1> QED BY <1>3, <1>4, <1>5

\* A store to a vertex that leaves its internal ID leaves all internal IDs.
LEMMA VertexStored ==
    ASSUME TypeOK, NEW p \in DOMAIN table, NEW v \in Vertex, v.idx = table[p].idx
    PROVE  LET q == [table EXCEPT ![p] = v]
           IN  /\ q \in Seq(Vertex) /\ DOMAIN q = DOMAIN table
               /\ \A x \in DOMAIN table : q[x].idx = table[x].idx
<1> DEFINE q == [table EXCEPT ![p] = v]
<1>1. table \in Seq(Vertex) /\ DOMAIN table = 1 .. Len(table)
    BY LenProperties DEF TypeOK
<1>2. /\ q \in Seq(Vertex) /\ Len(q) = Len(table)
      /\ \A x \in 1 .. Len(table) : q[x] = IF x = p THEN v ELSE table[x]
    BY <1>1, ExceptSeq
<1>3. DOMAIN q = DOMAIN table
    BY <1>1, <1>2, LenProperties
<1>4. \A x \in DOMAIN table : q[x].idx = table[x].idx
    BY <1>1, <1>2
<1> HIDE DEF q
<1> QED BY <1>2, <1>3, <1>4 DEF q

LEMMA MarkPreserves ==
    ASSUME IInv, NEW t \in Threads, Mark(t)
    PROVE  IInv' /\ PointersStay
<1>1. /\ th[t].pc = "mark" /\ UNCHANGED <<root, rootBusy, nodes, bits, cnt, calls>>
      /\ TypeOK /\ Placed(t) /\ Goto(t, "return")
    BY DEF Mark, IInv
<1>2. /\ th' \in [Threads -> Locals] /\ th'[t].pc = "return" /\ th'[t].id = th[t].id
      /\ \A u \in Threads : u # t => th'[u] = th[u]
    BY <1>1, GotoFields DEF Pcs
<1>3. th[t].vertex \in DOMAIN table /\ th[t].id \in Ids
    BY <1>1 DEF Placed
<1> DEFINE v == [table[th[t].vertex] EXCEPT !.del = TRUE]
<1>4. table[th[t].vertex] \in Vertex
    BY <1>1, <1>3, LenProperties DEF TypeOK
<1>5. v \in Vertex /\ v.idx = table[th[t].vertex].idx
    BY <1>4 DEF Vertex
<1>6. table' = [table EXCEPT ![th[t].vertex] = v]
    BY DEF Mark
<1> HIDE DEF v
<1>7. /\ table' \in Seq(Vertex) /\ DOMAIN table' = DOMAIN table
      /\ \A x \in DOMAIN table : table'[x].idx = table[x].idx
    BY <1>1, <1>3, <1>5, <1>6, VertexStored
<1>8. Placed(t)'
    BY <1>2, <1>3 DEF Placed, Inside
<1>9. RootHeld' /\ BitsHeld' /\ calls' \in Nat /\ rootBusy' \in BOOLEAN
    BY <1>1, <1>2, RootStays, BitsStay DEF IInv, TypeOK, AtRoot, Inside
<1> QED BY <1>1, <1>2, <1>7, <1>8, <1>9, QuietStep

LEMMA ReturnPreserves ==
    ASSUME IInv, NEW t \in Threads, Return(t)
    PROVE  IInv' /\ PointersStay
<1>1. /\ th[t].pc = "return" /\ UNCHANGED <<root, rootBusy, nodes, bits, cnt, table, calls>>
      /\ th' = [th EXCEPT ![t] = Idle] /\ th \in [Threads -> Locals]
    BY DEF Return, IInv, TypeOK
<1>2. Idle \in Locals /\ Idle.pc = "idle"
    BY LevelFacts DEF Idle, Locals, Pcs, Ops, Null
<1>3. /\ th' \in [Threads -> Locals] /\ th'[t] = Idle
      /\ \A u \in Threads : u # t => th'[u] = th[u]
    BY <1>1, <1>2
<1>4. Placed(t)'
    BY <1>2, <1>3 DEF Placed, Inside
<1> QED BY <1>1, <1>2, <1>3, <1>4, MovePreserves DEF AtRoot, Inside

LEMMA SetBitPreserves ==
    ASSUME IInv, NEW t \in Threads, SetBit(t)
    PROVE  IInv' /\ PointersStay
<1>1. /\ th[t].pc = "bit" /\ UNCHANGED <<root, rootBusy, nodes, cnt, table, calls>>
      /\ Bit(t) \notin bits /\ bits' = bits \cup {Bit(t)} /\ TypeOK /\ Placed(t)
    BY DEF SetBit, IInv
<1>2. /\ th' \in [Threads -> Locals] /\ th'[t].pc = "check" /\ th'[t].id = th[t].id
      /\ th'[t].node = th[t].node /\ th'[t].level = th[t].level
      /\ \A u \in Threads : u # t => th'[u] = th[u]
    BY <1>1, GotoFields DEF SetBit, Pcs, Inside
<1>3. \A u \in Threads : Bit(u)' = Bit(u)
    BY <1>2 DEF Bit, Here
<1>4. \A u \in Threads : th'[u].pc \in Inside <=> u = t \/ th[u].pc \in Inside
    BY <1>1, <1>2 DEF Inside
<1>5. BitsHeld'
  <2>1. {Bit(u)' : u \in {w \in Threads : th'[w].pc \in Inside}} =
        {Bit(u) : u \in {w \in Threads : th[w].pc \in Inside}} \cup {Bit(t)}
      BY <1>3, <1>4
  <2>2. \A u, w \in Threads : th'[u].pc \in Inside /\ th'[w].pc \in Inside /\ Bit(u)' = Bit(w)' => u = w
      BY <1>1, <1>3, <1>4 DEF IInv, BitsHeld
  <2> QED BY <1>1, <2>1, <2>2 DEF IInv, BitsHeld
<1>6. Placed(t)'
    BY <1>1, <1>2 DEF Placed, Inside
<1>7. RootHeld' /\ calls' \in Nat /\ rootBusy' \in BOOLEAN
    BY <1>1, <1>2, RootStays DEF IInv, TypeOK, AtRoot
<1> QED BY <1>1, <1>2, <1>5, <1>6, <1>7, SameTable, QuietStep

-----------------------------------------------------------------------------
(* The insertion under a bit. *)

\* What every step under the bit may assume.
LEMMA UnderTheBit ==
    ASSUME IInv, NEW t \in Threads, th[t].pc \in Inside
    PROVE  /\ TypeOK /\ Placed(t) /\ th[t].id \in Ids /\ Child(t) \in Nat
           /\ th[t].node \in DOMAIN nodes /\ nodes[th[t].node].level = th[t].level
           /\ th[t].level \in Levels /\ Here(t) \in Slots(nodes[th[t].node].level)
           /\ th[t].pc \notin AtRoot
           /\ rootBusy \in BOOLEAN /\ calls \in Nat /\ cnt \in Nat
<1>1. TypeOK /\ Placed(t) /\ th[t].pc \notin AtRoot
    BY DEF IInv, AtRoot, Inside
<1> QED BY <1>1, AtSlot DEF TypeOK

\* A step under the bit that only moves the thread.
LEMMA MoveInside ==
    ASSUME IInv, NEW t \in Threads, UNCHANGED <<root, rootBusy, nodes, bits, cnt, table, calls>>,
           th[t].pc \in Inside, th'[t].pc \in Inside \ {"grow"}, th' \in [Threads -> Locals],
           th'[t].id = th[t].id, th'[t].node = th[t].node, th'[t].level = th[t].level,
           \A u \in Threads : u # t => th'[u] = th[u],
           th'[t].pc \in {"count", "store"} => Child(t) = Null,
           Placed(t)'
    PROVE  IInv' /\ PointersStay
<1>1. th[t].pc \notin AtRoot /\ th'[t].pc \notin AtRoot
    BY DEF AtRoot, Inside
<1>2. RootHeld' /\ BitsHeld'
    BY <1>1, RootStays, BitsStay DEF IInv
<1>3. calls' \in Nat /\ rootBusy' \in BOOLEAN
    BY DEF IInv, TypeOK
<1>4. Child(t)' = Child(t)
    BY DEF Child, Here
<1> QED BY <1>2, <1>3, <1>4, SameTable, QuietStep

\* r is the sequence of nodes with a new node of level i, number c, in slot s of node n.
AddedAt(r, n, s, i, c) ==
    /\ r \in Seq(Node) /\ DOMAIN r = DOMAIN nodes \cup {c} /\ c \in Nat /\ c # Null
    /\ \A m \in DOMAIN nodes : r[m].level = nodes[m].level
    /\ r[n].child[s] = c
    /\ \A m \in DOMAIN nodes : \A x \in Slots(nodes[m].level) :
          (m # n \/ x # s) => r[m].child[x] = nodes[m].child[x]
    /\ r[c].level = i
    /\ \A x \in Slots(i) : r[c].child[x] = Null

\* What an insertion does when it makes an inner node.
LEMMA NodeAdded ==
    ASSUME TypeOK, NEW n \in DOMAIN nodes, NEW s \in Slots(nodes[n].level), NEW i \in Levels
    PROVE  AddedAt(Append([nodes EXCEPT ![n].child[s] = Len(nodes) + 1], NewNode(i)),
                   n, s, i, Len(nodes) + 1)
<1> DEFINE c == Len(nodes) + 1
           q == [nodes EXCEPT ![n].child[s] = c]
           r == Append(q, NewNode(i))
<1>1. Len(nodes) \in Nat /\ DOMAIN nodes = 1 .. Len(nodes)
    BY NodesType
<1>2. c \in Nat /\ c # Null
    BY <1>1 DEF Null
<1>3. StoredAt(q, n, s, c)
    BY <1>2, SlotStored
<1> HIDE DEF q
<1>4. q \in Seq(Node) /\ Len(q) = Len(nodes) /\ DOMAIN q = DOMAIN nodes
    BY <1>3 DEF StoredAt
<1>5. /\ r \in Seq(Node) /\ DOMAIN q = 1 .. Len(q) /\ DOMAIN r = 1 .. (Len(q) + 1)
      /\ \A m \in DOMAIN q : r[m] = q[m]
      /\ r[Len(q) + 1] = NewNode(i)
    BY <1>4, NodeAppended
<1>6. NewNode(i).level = i /\ \A x \in Slots(i) : NewNode(i).child[x] = Null
    BY NewNodeType
<1>7. DOMAIN r = DOMAIN nodes \cup {c} /\ r[c] = NewNode(i) /\ \A m \in DOMAIN nodes : r[m] = q[m]
    BY <1>1, <1>4, <1>5
<1> HIDE DEF r, c
<1>8. AddedAt(r, n, s, i, c)
    BY <1>2, <1>3, <1>5, <1>6, <1>7 DEF AddedAt, StoredAt
<1> QED BY <1>8 DEF r, q, c

\* The second look finds an inner node missing: the node is made and stored.
LEMMA NodeMade ==
    ASSUME IInv, NEW t \in Threads, th[t].pc = "check", ~AtLeaf(t), Child(t) = Null,
           nodes' = Append([nodes EXCEPT ![th[t].node].child[Here(t)] = Len(nodes) + 1],
                           NewNode(th[t].level + 1)),
           Goto(t, "clear"), UNCHANGED <<root, rootBusy, bits, cnt, table, calls>>
    PROVE  IInv' /\ PointersStay
<1> DEFINE n == th[t].node
           s == Here(t)
           c == Len(nodes) + 1
           i == th[t].level + 1
<1>1. /\ TypeOK /\ Placed(t) /\ th[t].id \in Ids /\ th[t].pc \in Inside /\ th[t].pc \notin AtRoot
      /\ n \in DOMAIN nodes /\ nodes[n].level = th[t].level /\ s \in Slots(nodes[n].level)
      /\ th[t].level \in Levels
    BY UnderTheBit DEF Inside
<1>2. i \in Levels /\ Len(nodes) \in Nat 
    BY <1>1, LevelFacts, NodesType DEF AtLeaf, Null
<1>3. /\ th' \in [Threads -> Locals] /\ th'[t].pc = "clear" /\ th'[t].id = th[t].id
      /\ th'[t].node = n /\ th'[t].level = th[t].level
      /\ \A u \in Threads : u # t => th'[u] = th[u]
    BY <1>1, GotoFields DEF Pcs, Inside
<1>4. Child(t) = nodes[n].child[s] /\ Here(t)' = s /\ Bit(t) = <<n, s>>
    BY <1>3 DEF Child, Here, Bit
<1>5. AddedAt(nodes', n, s, i, c)
    BY <1>1, <1>2, NodeAdded
<1> HIDE DEF n, s, c, i
<1>7. nodes' \in Seq(Node) /\ DOMAIN nodes' = DOMAIN nodes \cup {c} /\ c \in Nat /\ c # Null
    BY <1>5 DEF AddedAt
<1>8. /\ \A m \in DOMAIN nodes : nodes'[m].level = nodes[m].level
      /\ nodes'[n].child[s] = c
      /\ \A m \in DOMAIN nodes : \A x \in Slots(nodes[m].level) :
            (m # n \/ x # s) => nodes'[m].child[x] = nodes[m].child[x]
      /\ nodes'[c].level = i
      /\ \A x \in Slots(i) : nodes'[c].child[x] = Null
    BY <1>5 DEF AddedAt
<1>9. Extends
    BY <1>1, <1>4, <1>7, <1>8 DEF Extends, TypeOK
<1>10. TypeOK'
    BY <1>1, <1>3, <1>7, <1>8, TypesAfter DEF TypeOK
<1>11. PointersLevelled'
  <2>1. root' # Null => nodes'[root'].level = 0
      BY <1>1, <1>7, <1>8 DEF IInv, PointersLevelled, TypeOK
  <2>2. ASSUME NEW m \in DOMAIN nodes', NEW x \in Slots(nodes'[m].level), nodes'[m].child[x] # Null
        PROVE  IF nodes'[m].level = Depth - 1
               THEN nodes'[m].child[x] \in DOMAIN table'
               ELSE /\ nodes'[m].child[x] \in DOMAIN nodes'
                    /\ nodes'[nodes'[m].child[x]].level = nodes'[m].level + 1
    <3>1. m \in DOMAIN nodes /\ x \in Slots(nodes[m].level)
        BY <1>7, <1>8, <2>2
    <3>2. CASE m = n /\ x = s
      <4>1. nodes'[m].child[x] = c /\ nodes'[m].level = th[t].level
          BY <1>1, <1>8, <3>1, <3>2
      <4>2. th[t].level # Depth - 1 /\ i = th[t].level + 1
          BY DEF AtLeaf, i
      <4> QED BY <1>7, <1>8, <4>1, <4>2
    <3>3. CASE ~(m = n /\ x = s)
      <4>1. nodes'[m].child[x] = nodes[m].child[x] /\ nodes'[m].level = nodes[m].level
          BY <1>8, <3>1, <3>3
      <4>2. IF nodes[m].level = Depth - 1
            THEN nodes[m].child[x] \in DOMAIN table
            ELSE /\ nodes[m].child[x] \in DOMAIN nodes
                 /\ nodes[nodes[m].child[x]].level = nodes[m].level + 1
          BY <2>2, <3>1, <4>1 DEF IInv, PointersLevelled
      <4> QED BY <1>7, <1>8, <4>1, <4>2
    <3> QED BY <3>2, <3>3
  <2> QED BY <2>1, <2>2 DEF PointersLevelled
<1>12. Child(t)' = c
    BY <1>1, <1>3, <1>4, <1>8 DEF Child, n
<1>13. Placed(t)'
    BY <1>1, <1>2, <1>3, <1>7, <1>8, <1>12 DEF Placed, Inside
<1>14. RootHeld' /\ BitsHeld'
    BY <1>1, <1>3, RootStays, BitsStay DEF IInv, AtRoot, Inside, n
<1>15. DrawnBelowCnt' /\ IdxUnique'
    BY <1>3 DEF IInv, DrawnBelowCnt, IdxUnique
<1>16. \A m \in DOMAIN nodes : \A x \in Slots(nodes[m].level) :
          \/ nodes'[m].child[x] = nodes[m].child[x]
          \/ th[t].pc \in Inside /\ <<m, x>> = Bit(t)
    BY <1>1, <1>4, <1>8
<1> QED BY <1>3, <1>9, <1>10, <1>11, <1>13, <1>14, <1>15, <1>16, TreeStep

LEMMA CheckPreserves ==
    ASSUME IInv, NEW t \in Threads, Check(t)
    PROVE  IInv' /\ PointersStay
<1>1. /\ th[t].pc = "check" /\ UNCHANGED <<root, rootBusy, bits, cnt, table, calls>>
    BY DEF Check
<1>2. /\ TypeOK /\ Placed(t) /\ th[t].id \in Ids /\ Child(t) \in Nat /\ th[t].pc \in Inside
      /\ th[t].node \in DOMAIN nodes /\ nodes[th[t].node].level = th[t].level
    BY <1>1, UnderTheBit DEF Inside
<1>3. CASE ~AtLeaf(t) /\ Child(t) = Null
    BY <1>1, <1>3, NodeMade DEF Check, Missing
<1>4. CASE ~AtLeaf(t) /\ Child(t) # Null
  <2>1. Goto(t, "clear") /\ UNCHANGED nodes
      BY <1>4 DEF Check, Missing
  <2>2. /\ th' \in [Threads -> Locals] /\ th'[t].pc = "clear" /\ th'[t].id = th[t].id
        /\ th'[t].node = th[t].node /\ th'[t].level = th[t].level
        /\ \A u \in Threads : u # t => th'[u] = th[u]
      BY <1>2, <2>1, GotoFields DEF Pcs, Inside
  <2>3. Child(t)' # Null
      BY <1>4, <2>1, <2>2 DEF Child, Here
  <2>4. Placed(t)'
      BY <1>2, <2>1, <2>2, <2>3 DEF Placed, Inside
  <2> QED BY <1>1, <1>2, <2>1, <2>2, <2>4, MoveInside DEF Inside
<1>5. CASE AtLeaf(t) /\ Child(t) = Null
  <2>1. Goto(t, "count") /\ UNCHANGED nodes
      BY <1>5 DEF Check, Missing
  <2>2. /\ th' \in [Threads -> Locals] /\ th'[t].pc = "count" /\ th'[t].id = th[t].id
        /\ th'[t].node = th[t].node /\ th'[t].level = th[t].level
        /\ \A u \in Threads : u # t => th'[u] = th[u]
      BY <1>2, <2>1, GotoFields DEF Pcs, Inside
  <2>3. AtLeaf(t)'
      BY <1>5, <2>2 DEF AtLeaf
  <2>4. Placed(t)'
      BY <1>2, <2>1, <2>2, <2>3 DEF Placed, Inside
  <2> QED BY <1>1, <1>2, <1>5, <2>1, <2>2, <2>4, MoveInside DEF Inside
<1>6. CASE AtLeaf(t) /\ Child(t) # Null
  <2>1. Give(t, "name", Child(t)) /\ UNCHANGED nodes
      BY <1>6 DEF Check, Missing
  <2>2. /\ th' \in [Threads -> Locals] /\ th'[t].pc = "name" /\ th'[t].id = th[t].id
        /\ th'[t].node = th[t].node /\ th'[t].level = th[t].level /\ th'[t].vertex = Child(t)
        /\ \A u \in Threads : u # t => th'[u] = th[u]
      BY <1>2, <2>1, GiveFields DEF Pcs, Inside
  <2>3. AtLeaf(t)' /\ Child(t) \in DOMAIN table
      BY <1>2, <1>6, <2>2, ChildPlaced DEF AtLeaf
  <2>4. Placed(t)'
      BY <1>1, <1>2, <2>1, <2>2, <2>3 DEF Placed, Inside
  <2> QED BY <1>1, <1>2, <2>1, <2>2, <2>4, MoveInside DEF Inside
<1> QED BY <1>3, <1>4, <1>5, <1>6

LEMMA CountPreserves ==
    ASSUME IInv, NEW t \in Threads, Count(t)
    PROVE  IInv' /\ PointersStay
<1> DEFINE l == [th[t] EXCEPT !.pc = "grow", !.idx = cnt]
<1>1. /\ th[t].pc = "count" /\ cnt' = cnt + 1 /\ th' = [th EXCEPT ![t] = l]
      /\ UNCHANGED <<root, rootBusy, nodes, bits, table, calls>>
    BY DEF Count, NextId
<1>2. /\ TypeOK /\ Placed(t) /\ th[t].id \in Ids /\ th[t].pc \in Inside /\ th[t].pc \notin AtRoot
      /\ th[t].node \in DOMAIN nodes /\ nodes[th[t].node].level = th[t].level
      /\ rootBusy \in BOOLEAN /\ calls \in Nat /\ cnt \in Nat
    BY <1>1, UnderTheBit DEF Inside
<1>3. th \in [Threads -> Locals] /\ th[t] \in Locals
    BY <1>2 DEF TypeOK
<1>4. l \in Locals
    BY <1>2, <1>3 DEF Locals, Pcs, Inside
<1>5. /\ l.pc = "grow" /\ l.idx = cnt /\ l.id = th[t].id /\ l.node = th[t].node
      /\ l.level = th[t].level
    BY <1>3 DEF Locals
<1> HIDE DEF l
<1>6. th' \in [Threads -> Locals] /\ th'[t] = l /\ \A u \in Threads : u # t => th'[u] = th[u]
    BY <1>1, <1>3, <1>4
<1>7. Extends
    BY <1>1, <1>2, NodesType DEF Extends, TypeOK
<1>8. TypeOK'
    BY <1>1, <1>2, <1>6, NodesType, TypesAfter DEF TypeOK
<1>9. PointersLevelled'
    BY <1>1 DEF IInv, PointersLevelled
<1>10. Child(t)' = Null
    BY <1>1, <1>5, <1>6 DEF IInv, StillMissing, Child, Here
<1>11. Placed(t)'
    BY <1>1, <1>2, <1>5, <1>6 DEF Placed, Inside, AtLeaf
<1>12. RootHeld' /\ BitsHeld'
    BY <1>1, <1>2, <1>5, <1>6, RootStays, BitsStay DEF IInv, AtRoot, Inside
<1>13. DrawnBelowCnt'
    BY <1>1, <1>2, <1>5, <1>6 DEF IInv, DrawnBelowCnt
<1>14. table \in [DOMAIN table -> Vertex] /\ \A p \in DOMAIN table : table[p].idx \in Nat
  <2>1. table \in [DOMAIN table -> Vertex]
      BY <1>2, LenProperties DEF TypeOK
  <2> QED BY <2>1 DEF Vertex
<1>15. IdxUnique'
  <2>1. /\ \A p, q \in DOMAIN table' : table'[p].idx = table'[q].idx => p = q
        /\ \A p \in DOMAIN table' : table'[p].idx < cnt'
      BY <1>1, <1>2, <1>14 DEF IInv, IdxUnique
  <2>2. ASSUME NEW u \in Threads, th'[u].pc = "grow"
        PROVE  /\ \A p \in DOMAIN table' : table'[p].idx # th'[u].idx
               /\ \A w \in Threads : th'[w].pc = "grow" /\ th'[w].idx = th'[u].idx => u = w
    <3>1. \A w \in Threads : w # t /\ th'[w].pc = "grow" => th'[w].idx \in Nat /\ th'[w].idx < cnt
        BY <1>6 DEF IInv, DrawnBelowCnt
    <3>2. CASE u = t
        BY <1>1, <1>2, <1>5, <1>6, <1>14, <3>1, <3>2 DEF IInv, IdxUnique
    <3>3. CASE u # t
        BY <1>1, <1>2, <1>5, <1>6, <2>2, <3>1, <3>3 DEF IInv, IdxUnique
    <3> QED BY <3>2, <3>3
  <2> QED BY <2>1, <2>2 DEF IdxUnique
<1> QED BY <1>1, <1>6, <1>7, <1>8, <1>9, <1>10, <1>11, <1>12, <1>13, <1>15, TreeStep

LEMMA GrowPreserves ==
    ASSUME IInv, NEW t \in Threads, Grow(t)
    PROVE  IInv' /\ PointersStay
<1> DEFINE v == [NewVertex EXCEPT !.idx = th[t].idx]
           p == Len(table) + 1
<1>1. /\ th[t].pc = "grow" /\ table' = Append(table, v) /\ Give(t, "store", p)
      /\ UNCHANGED <<root, rootBusy, nodes, bits, cnt, calls>>
    BY DEF Grow
<1>2. /\ TypeOK /\ Placed(t) /\ th[t].id \in Ids /\ th[t].pc \in Inside /\ th[t].pc \notin AtRoot
      /\ th[t].node \in DOMAIN nodes /\ nodes[th[t].node].level = th[t].level
      /\ rootBusy \in BOOLEAN /\ calls \in Nat /\ cnt \in Nat
    BY <1>1, UnderTheBit DEF Inside
<1>3. /\ table \in Seq(Vertex) /\ Len(table) \in Nat /\ DOMAIN table = 1 .. Len(table)
      /\ p \in Nat
    BY <1>2, LenProperties DEF TypeOK
<1>4. th[t].idx \in Nat /\ th[t].idx < cnt
    BY <1>1 DEF IInv, DrawnBelowCnt
<1>5. v \in Vertex /\ v.idx = th[t].idx
    BY <1>4 DEF NewVertex, Vertex
<1>6. /\ th' \in [Threads -> Locals] /\ th'[t].pc = "store" /\ th'[t].id = th[t].id
      /\ th'[t].node = th[t].node /\ th'[t].level = th[t].level /\ th'[t].vertex = p
      /\ \A u \in Threads : u # t => th'[u] = th[u]
    BY <1>1, <1>2, <1>3, GiveFields DEF Pcs, Inside
<1> HIDE DEF v
<1>7. /\ table' \in Seq(Vertex) /\ Len(table') = p /\ table'[p] = v
      /\ \A x \in 1 .. Len(table) : table'[x] = table[x]
    BY <1>1, <1>3, <1>5, AppendProperties
<1>8. DOMAIN table' = 1 .. p
    BY <1>7, LenProperties
<1>9. /\ DOMAIN table' = DOMAIN table \cup {p} /\ DOMAIN table \subseteq DOMAIN table'
      /\ p \in DOMAIN table' /\ \A x \in DOMAIN table : table'[x] = table[x]
    BY <1>3, <1>7, <1>8
<1> HIDE DEF p
<1>10. Extends
    BY <1>1, <1>2, <1>7, <1>9, NodesType DEF Extends
<1>11. TypeOK'
    BY <1>1, <1>2, <1>6, <1>7, NodesType, TypesAfter DEF TypeOK
<1>12. PointersLevelled'
    BY <1>1, <1>9 DEF IInv, PointersLevelled
<1>13. Child(t)' = Null
    BY <1>1, <1>6 DEF IInv, StillMissing, Child, Here
<1>14. Placed(t)'
    BY <1>1, <1>2, <1>6, <1>9 DEF Placed, Inside, AtLeaf
<1>15. RootHeld' /\ BitsHeld'
    BY <1>1, <1>2, <1>6, RootStays, BitsStay DEF IInv, AtRoot, Inside
<1>16. DrawnBelowCnt'
    BY <1>1, <1>6 DEF IInv, DrawnBelowCnt
<1>17. IdxUnique'
  <2>1. \A x \in DOMAIN table : table[x].idx # v.idx
      BY <1>1, <1>5 DEF IInv, IdxUnique
  <2>2. \A x, y \in DOMAIN table' : table'[x].idx = table'[y].idx => x = y
      BY <1>7, <1>9, <2>1 DEF IInv, IdxUnique
  <2>3. \A x \in DOMAIN table' : table'[x].idx < cnt'
      BY <1>1, <1>4, <1>5, <1>7, <1>9 DEF IInv, IdxUnique
  <2>4. ASSUME NEW u \in Threads, th'[u].pc = "grow"
        PROVE  /\ \A x \in DOMAIN table' : table'[x].idx # th'[u].idx
               /\ \A w \in Threads : th'[w].pc = "grow" /\ th'[w].idx = th'[u].idx => u = w
    <3>1. u # t /\ th'[u] = th[u]
        BY <1>6, <2>4
    <3>2. th[u].idx # th[t].idx
        BY <1>1, <2>4, <3>1 DEF IInv, IdxUnique
    <3>3. \A x \in DOMAIN table : table[x].idx # th[u].idx
        BY <2>4, <3>1 DEF IInv, IdxUnique
    <3>4. \A w \in Threads : th'[w].pc = "grow" /\ th'[w].idx = th'[u].idx => u = w
        BY <1>6, <2>4, <3>1 DEF IInv, IdxUnique
    <3> QED BY <1>5, <1>7, <1>9, <3>1, <3>2, <3>3, <3>4
  <2> QED BY <2>2, <2>3, <2>4 DEF IdxUnique
<1> QED BY <1>1, <1>6, <1>10, <1>11, <1>12, <1>13, <1>14, <1>15, <1>16, <1>17, TreeStep

LEMMA StorePreserves ==
    ASSUME IInv, NEW t \in Threads, Store(t)
    PROVE  IInv' /\ PointersStay
<1> DEFINE n == th[t].node
           s == Here(t)
           c == th[t].vertex
<1>1. /\ th[t].pc = "store" /\ nodes' = [nodes EXCEPT ![n].child[s] = c] /\ Goto(t, "name")
      /\ UNCHANGED <<root, rootBusy, bits, cnt, table, calls>>
    BY DEF Store
<1>2. /\ TypeOK /\ Placed(t) /\ th[t].id \in Ids /\ th[t].pc \in Inside /\ th[t].pc \notin AtRoot
      /\ n \in DOMAIN nodes /\ nodes[n].level = th[t].level /\ s \in Slots(nodes[n].level)
      /\ rootBusy \in BOOLEAN /\ calls \in Nat /\ cnt \in Nat
    BY <1>1, UnderTheBit DEF Inside
<1>3. c \in DOMAIN table /\ c \in Nat /\ AtLeaf(t) /\ Child(t) = Null
    BY <1>1, <1>2, ThreadFields DEF Placed, IInv, StillMissing
<1>4. /\ th' \in [Threads -> Locals] /\ th'[t].pc = "name" /\ th'[t].id = th[t].id
      /\ th'[t].node = n /\ th'[t].level = th[t].level /\ th'[t].vertex = c
      /\ \A u \in Threads : u # t => th'[u] = th[u]
    BY <1>1, <1>2, GotoFields DEF Pcs, Inside
<1>5. StoredAt(nodes', n, s, c)
    BY <1>1, <1>2, <1>3, SlotStored
<1>6. Child(t) = nodes[n].child[s] /\ Bit(t) = <<n, s>>
    BY DEF Child, Bit
<1> HIDE DEF n, s, c
<1>7. /\ nodes' \in Seq(Node) /\ DOMAIN nodes' = DOMAIN nodes
      /\ \A m \in DOMAIN nodes : nodes'[m].level = nodes[m].level
      /\ nodes'[n].child[s] = c
      /\ \A m \in DOMAIN nodes : \A x \in Slots(nodes[m].level) :
            (m # n \/ x # s) => nodes'[m].child[x] = nodes[m].child[x]
    BY <1>5 DEF StoredAt
<1>8. Extends
    BY <1>1, <1>2, <1>3, <1>6, <1>7 DEF Extends, TypeOK
<1>9. TypeOK'
    BY <1>1, <1>2, <1>4, <1>7, TypesAfter DEF TypeOK
<1>10. PointersLevelled'
  <2>1. root' # Null => nodes'[root'].level = 0
      BY <1>1, <1>2, <1>7 DEF IInv, PointersLevelled, TypeOK
  <2>2. ASSUME NEW m \in DOMAIN nodes', NEW x \in Slots(nodes'[m].level), nodes'[m].child[x] # Null
        PROVE  IF nodes'[m].level = Depth - 1
               THEN nodes'[m].child[x] \in DOMAIN table'
               ELSE /\ nodes'[m].child[x] \in DOMAIN nodes'
                    /\ nodes'[nodes'[m].child[x]].level = nodes'[m].level + 1
    <3>1. m \in DOMAIN nodes /\ x \in Slots(nodes[m].level) /\ nodes'[m].level = nodes[m].level
        BY <1>7, <2>2
    <3>2. CASE m = n /\ x = s
        BY <1>1, <1>2, <1>3, <1>7, <3>1, <3>2 DEF AtLeaf
    <3>3. CASE ~(m = n /\ x = s)
      <4>1. nodes'[m].child[x] = nodes[m].child[x]
          BY <1>7, <3>1, <3>3
      <4>2. IF nodes[m].level = Depth - 1
            THEN nodes[m].child[x] \in DOMAIN table
            ELSE /\ nodes[m].child[x] \in DOMAIN nodes
                 /\ nodes[nodes[m].child[x]].level = nodes[m].level + 1
          BY <2>2, <3>1, <4>1 DEF IInv, PointersLevelled
      <4> QED BY <1>1, <1>7, <3>1, <4>1, <4>2
    <3> QED BY <3>2, <3>3
  <2> QED BY <2>1, <2>2 DEF PointersLevelled
<1>11. Placed(t)'
    BY <1>1, <1>2, <1>3, <1>4, <1>7 DEF Placed, Inside, AtLeaf
<1>12. RootHeld' /\ BitsHeld'
    BY <1>1, <1>2, <1>4, RootStays, BitsStay DEF IInv, AtRoot, Inside, n
<1>13. DrawnBelowCnt' /\ IdxUnique'
    BY <1>1, <1>4 DEF IInv, DrawnBelowCnt, IdxUnique
<1>14. \A m \in DOMAIN nodes : \A x \in Slots(nodes[m].level) :
          \/ nodes'[m].child[x] = nodes[m].child[x]
          \/ th[t].pc \in Inside /\ <<m, x>> = Bit(t)
    BY <1>2, <1>6, <1>7
<1> QED BY <1>4, <1>8, <1>9, <1>10, <1>11, <1>12, <1>13, <1>14, TreeStep

LEMMA NamePreserves ==
    ASSUME IInv, NEW t \in Threads, Name(t)
    PROVE  IInv' /\ PointersStay
<1> DEFINE v == [table[th[t].vertex] EXCEPT !.node = th[t].id]
<1>1. /\ th[t].pc = "name" /\ table' = [table EXCEPT ![th[t].vertex] = v] /\ Goto(t, "clear")
      /\ UNCHANGED <<root, rootBusy, nodes, bits, cnt, calls>>
    BY DEF Name
<1>2. /\ TypeOK /\ Placed(t) /\ th[t].id \in Ids /\ th[t].pc \in Inside /\ th[t].pc \notin AtRoot
      /\ th[t].node \in DOMAIN nodes /\ nodes[th[t].node].level = th[t].level
      /\ rootBusy \in BOOLEAN /\ calls \in Nat /\ cnt \in Nat
    BY <1>1, UnderTheBit DEF Inside
<1>3. th[t].vertex \in DOMAIN table /\ AtLeaf(t)
    BY <1>1, <1>2 DEF Placed
<1>4. table[th[t].vertex] \in Vertex
    BY <1>2, <1>3, LenProperties DEF TypeOK
<1>5. v \in Vertex /\ v.idx = table[th[t].vertex].idx
    BY <1>2, <1>4 DEF Vertex
<1> HIDE DEF v
<1>6. /\ table' \in Seq(Vertex) /\ DOMAIN table' = DOMAIN table
      /\ \A x \in DOMAIN table : table'[x].idx = table[x].idx
    BY <1>1, <1>2, <1>3, <1>5, VertexStored
<1>7. /\ th' \in [Threads -> Locals] /\ th'[t].pc = "clear" /\ th'[t].id = th[t].id
      /\ th'[t].node = th[t].node /\ th'[t].level = th[t].level
      /\ \A u \in Threads : u # t => th'[u] = th[u]
    BY <1>1, <1>2, GotoFields DEF Pcs, Inside
<1>8. AtLeaf(t)'
    BY <1>3, <1>7 DEF AtLeaf
<1>9. Placed(t)'
    BY <1>1, <1>2, <1>7, <1>8 DEF Placed, Inside
<1>10. RootHeld' /\ BitsHeld'
    BY <1>1, <1>2, <1>7, RootStays, BitsStay DEF IInv, AtRoot, Inside
<1> QED BY <1>1, <1>2, <1>6, <1>7, <1>9, <1>10, QuietStep

LEMMA ClearPreserves ==
    ASSUME IInv, NEW t \in Threads, Clear(t)
    PROVE  IInv' /\ PointersStay
<1>1. /\ th[t].pc = "clear" /\ bits' = bits \ {Bit(t)}
      /\ UNCHANGED <<root, rootBusy, nodes, cnt, table, calls>>
    BY DEF Clear, Cleared
<1>2. /\ TypeOK /\ Placed(t) /\ th[t].id \in Ids /\ th[t].pc \in Inside /\ th[t].pc \notin AtRoot
      /\ th[t].node \in DOMAIN nodes /\ nodes[th[t].node].level = th[t].level /\ Child(t) \in Nat
      /\ rootBusy \in BOOLEAN /\ calls \in Nat /\ cnt \in Nat
    BY <1>1, UnderTheBit DEF Inside
<1>3. /\ th' \in [Threads -> Locals] /\ th'[t].pc \in {"return", "insert"} /\ Placed(t)'
      /\ \A u \in Threads : u # t => th'[u] = th[u]
  <2>1. CASE AtLeaf(t)
    <3>1. Goto(t, "return")
        BY <2>1 DEF Clear
    <3>2. /\ th' \in [Threads -> Locals] /\ th'[t].pc = "return" /\ th'[t].id = th[t].id
          /\ \A u \in Threads : u # t => th'[u] = th[u]
        BY <1>2, <3>1, GotoFields DEF Pcs
    <3> QED BY <1>2, <3>2 DEF Placed, Inside
  <2>2. CASE ~AtLeaf(t)
    <3>1. Descend(t, "insert")
        BY <2>2 DEF Clear
    <3>2. Child(t) # Null
        BY <1>1, <1>2, <2>2 DEF Placed
    <3>3. /\ th' \in [Threads -> Locals] /\ th'[t].pc = "insert" /\ th'[t].id = th[t].id
          /\ th'[t].node = Child(t) /\ th'[t].level = th[t].level + 1
          /\ \A u \in Threads : u # t => th'[u] = th[u]
        BY <1>2, <2>2, <3>1, DescendFields DEF Pcs
    <3>4. Child(t) \in DOMAIN nodes /\ nodes[Child(t)].level = th[t].level + 1
        BY <1>2, <2>2, <3>2, ChildPlaced
    <3>5. Placed(t)'
        BY <1>1, <1>2, <3>3, <3>4 DEF Placed, Inside
    <3> QED BY <3>3, <3>5
  <2> QED BY <2>1, <2>2
<1>4. BitsHeld'
  <2>1. \A u \in Threads : th'[u].pc \in Inside <=> u # t /\ th[u].pc \in Inside
      BY <1>3 DEF Inside
  <2>2. \A u \in Threads : u # t => Bit(u)' = Bit(u)
      BY <1>3 DEF Bit, Here
  <2>3. \A u \in Threads : u # t /\ th[u].pc \in Inside => Bit(u) # Bit(t)
      BY <1>2 DEF IInv, BitsHeld
  <2>4. {Bit(u)' : u \in {w \in Threads : th'[w].pc \in Inside}} =
        {Bit(u) : u \in {w \in Threads : th[w].pc \in Inside}} \ {Bit(t)}
      BY <1>2, <2>1, <2>2, <2>3
  <2>5. \A u, w \in Threads : th'[u].pc \in Inside /\ th'[w].pc \in Inside /\ Bit(u)' = Bit(w)' => u = w
      BY <2>1, <2>2 DEF IInv, BitsHeld
  <2> QED BY <1>1, <2>4, <2>5 DEF IInv, BitsHeld
<1>5. RootHeld'
    BY <1>1, <1>2, <1>3, RootStays DEF IInv, AtRoot
<1> QED BY <1>1, <1>2, <1>3, <1>4, <1>5, SameTable, QuietStep

-----------------------------------------------------------------------------
(* The whole specification. *)

LEMMA InitEstablishes ==
    ASSUME Init
    PROVE  IInv
<1>1. TypeOK
  <2>1. Idle \in Locals
      BY LevelFacts DEF Idle, Locals, Pcs, Ops, Null, NoId
  <2>2. DOMAIN nodes = {} /\ nodes \in Seq({nodes[n] : n \in DOMAIN nodes})
      BY EmptySeq DEF Init
  <2>3. table \in Seq(Vertex)
      BY EmptySeq DEF Init
  <2>4. th \in [Threads -> Locals]
      BY <2>1 DEF Init
  <2>5. cnt \in Nat /\ calls \in Nat /\ root = Null /\ rootBusy \in BOOLEAN
      BY DEF Init
  <2> QED BY <2>2, <2>3, <2>4, <2>5 DEF TypeOK
<1>2. PointersLevelled /\ \A t \in Threads : Placed(t)
    BY DEF Init, PointersLevelled, Placed, Idle, Inside
<1>3. RootHeld /\ StillMissing /\ DrawnBelowCnt /\ IdxUnique
    BY DEF Init, RootHeld, AtRoot, StillMissing, DrawnBelowCnt, IdxUnique, Idle
<1>4. BitsHeld
    BY DEF Init, BitsHeld, Idle, Inside
<1> QED BY <1>1, <1>2, <1>3, <1>4 DEF IInv

LEMMA StutterPreserves ==
    ASSUME IInv, UNCHANGED vars
    PROVE  IInv' /\ PointersStay
BY DEF vars, IInv, TypeOK, PointersLevelled, Placed, AtLeaf, Child, Here, RootHeld, BitsHeld,
       Bit, StillMissing, DrawnBelowCnt, IdxUnique, PointersStay

\* Every step preserves the invariant and the pointers of the tree.
LEMMA NextPreserves ==
    ASSUME IInv, [Next]_vars
    PROVE  IInv' /\ PointersStay
<1>1. CASE UNCHANGED vars
    BY <1>1, StutterPreserves
<1>2. CASE Done
    BY <1>2, StutterPreserves DEF Done
<1>3. ASSUME NEW t \in Threads, Call(t) \/ Step(t)
      PROVE  IInv' /\ PointersStay
  <2>1. CASE Call(t) \/ Walk(t) \/ Mark(t) \/ Return(t)
      BY <2>1, CallPreserves, WalkPreserves, MarkPreserves, ReturnPreserves
  <2>2. CASE RootLock(t) \/ RootNew(t) \/ RootUnlock(t)
      BY <2>2, RootLockPreserves, RootNewPreserves, RootUnlockPreserves
  <2>3. CASE Insert(t) \/ SetBit(t) \/ Check(t) \/ Clear(t)
      BY <2>3, InsertPreserves, SetBitPreserves, CheckPreserves, ClearPreserves
  <2>4. CASE Count(t) \/ Grow(t) \/ Store(t) \/ Name(t)
      BY <2>4, CountPreserves, GrowPreserves, StorePreserves, NamePreserves
  <2> QED BY <1>3, <2>1, <2>2, <2>3, <2>4 DEF Step
<1> QED BY <1>1, <1>2, <1>3 DEF Next

-----------------------------------------------------------------------------
(* The theorems. *)

\* The invariant holds in every reachable state of the tree, for any fanout array,
\* threads, IDs and number of calls.
THEOREM Inductive == Spec => []IInv
<1>1. Init => IInv
    BY InitEstablishes
<1>2. IInv /\ [Next]_vars => IInv'
    BY NextPreserves
<1> QED BY <1>1, <1>2, PTL DEF Spec

\* A bit of an AtomicBitmap is set exactly while one thread works on its slot
\* (set_bit_atomic and clear_bit, utils.h:68-79).
THEOREM BitsAreHeld == Spec => []BitsHeld
<1>1. IInv => BitsHeld
    BY DEF IInv
<1> QED BY <1>1, Inductive, PTL

\* No two vertices have the same internal ID, drawn from cnt or written (sort.cpp:168-172).
THEOREM IdxAreUnique == Spec => []IdxUnique
<1>1. IInv => IdxUnique
    BY DEF IInv
<1> QED BY <1>1, Inductive, PTL

\* A pointer that a lookup without a lock has read is still there when the lookup uses it:
\* the root and the pointers of the tree are written once (sort.cpp:192-226).
THEOREM PointersWrittenOnce == Spec => [][PointersStay]_vars
<1>1. IInv /\ [Next]_vars => [PointersStay]_vars
    BY NextPreserves
<1> QED BY <1>1, Inductive, PTL DEF Spec

-----------------------------------------------------------------------------
(* Induction, from the least element of a set of naturals. *)

\* A non-empty set of naturals has a least element.
LEMMA LeastNatural ==
    ASSUME NEW T \in SUBSET Nat, T # {}
    PROVE  \E m \in T : \A n \in T : m <= n
<1> DEFINE R == {ss \in Nat \X Nat : ss[1] < ss[2]}
<1>1. IsWellFoundedOn(R, Nat)
    BY NatLessThanWellFounded DEF OpToRel
<1> HIDE DEF R
<1>2. PICK m \in T : \A n \in T : <<n, m>> \notin R
    BY <1>1, WFMin
<1>3. ASSUME NEW n \in T
      PROVE  m <= n
  <2>1. <<n, m>> \notin R /\ m \in Nat /\ n \in Nat
      BY <1>2
  <2> QED BY <2>1 DEF R
<1> QED BY <1>3

\* A set that holds 0, and the successor of each level it holds, holds every level.
LEMMA LevelInduction ==
    ASSUME NEW S, 0 \in S, \A i \in Levels : i \in S => i + 1 \in S
    PROVE  \A i \in 0 .. Depth : i \in S
<1> DEFINE T == {i \in 0 .. Depth : i \notin S}
<1>1. Depth \in Nat
    BY LevelFacts
<1> SUFFICES ASSUME T # {}
             PROVE  FALSE
    OBVIOUS
<1>2. T \in SUBSET Nat
    BY <1>1
<1>3. PICK m \in T : \A n \in T : m <= n
    BY <1>2, LeastNatural
<1>4. m \in 0 .. Depth /\ m \notin S
    OBVIOUS
<1>5. m - 1 \in Levels /\ m - 1 \notin T
    BY <1>1, <1>3, <1>4 DEF Levels
<1>6. m - 1 \in S
    BY <1>1, <1>5 DEF Levels
<1> QED BY <1>1, <1>4, <1>5, <1>6

-----------------------------------------------------------------------------
(* The nodes that the descent for an ID reaches. *)

\* One level of the descent.
Below(id, i, n) == IF n = Null THEN Null ELSE nodes[n].child[Slot(id, i)]

\* Reached is the function that its definition describes: there is one.
LEMMA ReachedExists ==
    ASSUME NEW id
    PROVE  Reached(id) = [i \in 0 .. Depth |-> IF i = 0 THEN root ELSE Below(id, i - 1, Reached(id)[i - 1])]
<1> DEFINE Descends(f, d) == f = [i \in 0 .. d |-> IF i = 0 THEN root ELSE Below(id, i - 1, f[i - 1])]
           S == {d \in 0 .. Depth : \E f : Descends(f, d)}
<1>1. Depth \in Nat /\ Depth > 0
    BY LevelFacts
<1>2. 0 \in S
  <2>1. Descends([i \in 0 .. 0 |-> root], 0)
      OBVIOUS
  <2> HIDE DEF Descends
  <2>2. \E f : Descends(f, 0)
      BY <2>1
  <2> QED BY <1>1, <2>2
<1>3. ASSUME NEW d \in Levels, d \in S
      PROVE  d + 1 \in S
  <2>1. PICK f : Descends(f, d)
      BY <1>3
  <2>2. PICK g : g = [i \in 0 .. (d + 1) |-> IF i <= d THEN f[i] ELSE Below(id, d, f[d])]
      OBVIOUS
  <2>3. d \in Nat /\ d + 1 \in 0 .. Depth
      BY <1>1 DEF Levels
  <2>4. \A i \in 0 .. d : f[i] = IF i = 0 THEN root ELSE Below(id, i - 1, f[i - 1])
      BY <2>1
  <2>5. ASSUME NEW i \in 0 .. (d + 1)
        PROVE  g[i] = IF i = 0 THEN root ELSE Below(id, i - 1, g[i - 1])
    <3>1. CASE i <= d
      <4>1. i # 0 => i - 1 \in 0 .. (d + 1) /\ i - 1 <= d
          BY <2>3, <3>1
      <4>2. i # 0 => g[i - 1] = f[i - 1]
          BY <2>2, <4>1
      <4>3. g[i] = f[i] /\ i \in 0 .. d
          BY <2>2, <2>3, <3>1
      <4> QED BY <2>4, <4>2, <4>3
    <3>2. CASE ~(i <= d)
      <4>1. i = d + 1 /\ i # 0 /\ i - 1 = d /\ d \in 0 .. (d + 1) /\ d <= d
          BY <2>3, <3>2
      <4>2. g[d] = f[d] /\ g[i] = Below(id, d, f[d])
          BY <2>2, <3>2, <4>1
      <4> QED BY <4>1, <4>2
    <3> QED BY <3>1, <3>2
  <2>6. Descends(g, d + 1)
    <3> HIDE DEF Below
    <3> QED BY <2>2, <2>5
  <2> QED BY <2>3, <2>6
<1> HIDE DEF S
<1>4. Depth \in S
    BY <1>1, <1>2, <1>3, LevelInduction
<1>5. \E f : Descends(f, Depth)
    BY <1>4 DEF S
<1>6. Reached(id) = CHOOSE f : Descends(f, Depth)
    BY DEF Reached, Below
<1> HIDE DEF Descends
<1>7. Descends(Reached(id), Depth)
    BY <1>5, <1>6
<1> QED BY <1>7 DEF Descends

\* The descent starts at the root and follows a pointer at each level.
ReachedByLevel ==
    \A id \in Ids : /\ Reached(id)[0] = root
                    /\ \A i \in Levels : Reached(id)[i + 1] = Below(id, i, Reached(id)[i])

LEMMA ReachedFacts == ReachedByLevel
<1>1. Depth \in Nat
    BY LevelFacts
<1>2. ASSUME NEW id \in Ids
      PROVE  Reached(id)[0] = root
  <2>1. 0 \in 0 .. Depth
      BY <1>1
  <2> QED BY <2>1, ReachedExists
<1>3. ASSUME NEW id \in Ids, NEW i \in Levels
      PROVE  Reached(id)[i + 1] = Below(id, i, Reached(id)[i])
  <2>1. i + 1 \in 0 .. Depth /\ i + 1 # 0 /\ (i + 1) - 1 = i
      BY <1>1 DEF Levels
  <2> HIDE DEF Below
  <2> QED BY <2>1, ReachedExists
<1> QED BY <1>2, <1>3 DEF ReachedByLevel

\* A step that leaves the tree leaves what is reached in it.
LEMMA SameTree ==
    ASSUME nodes' = nodes, root' = root
    PROVE  \A id \in Ids : Reached(id)' = Reached(id) /\ VertexOf(id)' = VertexOf(id)
BY DEF Reached, VertexOf

\* The descent reaches at each level a node of that level, and at the end a vertex.
LEMMA ReachedType ==
    ASSUME IInv, NEW id \in Ids
    PROVE  /\ \A i \in Levels : Reached(id)[i] # Null =>
                 Reached(id)[i] \in DOMAIN nodes /\ nodes[Reached(id)[i]].level = i
           /\ VertexOf(id) # Null => VertexOf(id) \in DOMAIN table
<1> DEFINE r == Reached(id)
           S == {i \in 0 .. Depth : i \in Levels /\ r[i] # Null => r[i] \in DOMAIN nodes /\ nodes[r[i]].level = i}
<1>1. /\ r[0] = root
      /\ \A i \in Levels : r[i + 1] = IF r[i] = Null THEN Null ELSE nodes[r[i]].child[Slot(id, i)]
    BY ReachedFacts DEF ReachedByLevel, Below
<1>2. Depth \in Nat /\ Depth > 0 /\ \A i \in Levels : i \in 0 .. Depth /\ i + 1 \in 0 .. Depth
    BY LevelFacts DEF Levels
<1>3. VertexOf(id) = r[Depth]
    BY DEF VertexOf
<1> HIDE DEF r
<1>4. 0 \in S
    BY <1>1, <1>2 DEF IInv, TypeOK, PointersLevelled
<1>5. ASSUME NEW i \in Levels, i \in S
      PROVE  /\ i + 1 \in S
             /\ i = Depth - 1 /\ r[i + 1] # Null => r[i + 1] \in DOMAIN table
  <2>1. CASE r[i + 1] = Null
      BY <1>2, <2>1
  <2>2. CASE r[i + 1] # Null
    <3>1. r[i] # Null /\ r[i + 1] = nodes[r[i]].child[Slot(id, i)]
        BY <1>1, <2>2
    <3>2. r[i] \in DOMAIN nodes /\ nodes[r[i]].level = i
        BY <1>5, <3>1
    <3>3. Slot(id, i) \in Slots(nodes[r[i]].level)
        BY <3>2, SlotAssumption
    <3>4. IF i = Depth - 1 THEN r[i + 1] \in DOMAIN table
          ELSE r[i + 1] \in DOMAIN nodes /\ nodes[r[i + 1]].level = i + 1
        BY <2>2, <3>1, <3>2, <3>3 DEF IInv, PointersLevelled
    <3>5. i + 1 \in Levels => i # Depth - 1
        BY <1>2 DEF Levels
    <3> QED BY <1>2, <3>4, <3>5
  <2> QED BY <2>1, <2>2
<1>6. \A i \in 0 .. Depth : i \in S
  <2> HIDE DEF S
  <2> QED BY <1>4, <1>5, LevelInduction
<1>7. \A i \in Levels : r[i] # Null => r[i] \in DOMAIN nodes /\ nodes[r[i]].level = i
    BY <1>2, <1>6
<1>8. r[Depth] # Null => r[Depth] \in DOMAIN table
  <2>1. Depth - 1 \in Levels /\ (Depth - 1) + 1 = Depth
      BY <1>2 DEF Levels
  <2>2. Depth - 1 \in S
      BY <1>2, <1>6, <2>1
  <2> HIDE DEF S
  <2> QED BY <1>5, <2>1, <2>2
<1> QED BY <1>3, <1>7, <1>8 DEF r

\* What is reached stays reached.
LEMMA ReachedStays ==
    ASSUME IInv, PointersStay, NEW id \in Ids
    PROVE  \A i \in 0 .. Depth : Reached(id)[i] # Null => Reached(id)'[i] = Reached(id)[i]
<1>1. ReachedByLevel'
    BY ReachedFacts, PTL
<1>2. PICK r, q : r = Reached(id) /\ q = Reached(id)'
    OBVIOUS
<1>3. /\ r[0] = root
      /\ \A i \in Levels : r[i + 1] = IF r[i] = Null THEN Null ELSE nodes[r[i]].child[Slot(id, i)]
    BY <1>2, ReachedFacts DEF ReachedByLevel, Below
<1>4. /\ q[0] = root'
      /\ \A i \in Levels : q[i + 1] = IF q[i] = Null THEN Null ELSE nodes'[q[i]].child[Slot(id, i)]
    BY <1>1, <1>2 DEF ReachedByLevel, Below
<1> DEFINE S == {i \in 0 .. Depth : r[i] # Null => q[i] = r[i]}
<1>5. Depth \in Nat /\ Depth > 0 /\ \A i \in Levels : i \in 0 .. Depth /\ i + 1 \in 0 .. Depth
    BY LevelFacts DEF Levels
<1>6. 0 \in S
    BY <1>3, <1>4, <1>5 DEF PointersStay
<1>7. ASSUME NEW i \in Levels, i \in S
      PROVE  i + 1 \in S
  <2> SUFFICES ASSUME r[i + 1] # Null
               PROVE  q[i + 1] = r[i + 1]
      BY <1>5
  <2>1. r[i] # Null /\ r[i + 1] = nodes[r[i]].child[Slot(id, i)] /\ q[i] = r[i]
      BY <1>3, <1>7
  <2>2. r[i] \in DOMAIN nodes /\ nodes[r[i]].level = i
      BY <1>2, <2>1, ReachedType
  <2>3. Slot(id, i) \in DOMAIN nodes[r[i]].child
      BY <2>2, SlotAssumption, NodesType DEF IInv
  <2> QED BY <1>4, <2>1, <2>2, <2>3 DEF PointersStay
<1> HIDE DEF S
<1>8. \A i \in 0 .. Depth : i \in S
    BY <1>6, <1>7, LevelInduction
<1> QED BY <1>2, <1>8 DEF S

-----------------------------------------------------------------------------
(* The shape of the tree: what SortInv adds to IInv. *)

Leaf(n) == nodes[n].level = Depth - 1

\* A node has one parent at most, and so has a vertex.
OneParent ==
    \A m, n \in DOMAIN nodes : \A x \in Slots(nodes[m].level), s \in Slots(nodes[n].level) :
        /\ nodes[m].child[x] # Null /\ nodes[m].child[x] = nodes[n].child[s]
        /\ Leaf(m) <=> Leaf(n)
        => m = n /\ x = s

\* A node but the root has a parent; a vertex has one, or is still held by its maker.
NodeHeld(c) == \E n \in DOMAIN nodes : ~Leaf(n) /\ \E s \in Slots(nodes[n].level) : nodes[n].child[s] = c
VertexHeld(p) == \E n \in DOMAIN nodes : Leaf(n) /\ \E s \in Slots(nodes[n].level) : nodes[n].child[s] = p
Storing(p) == \E t \in Threads : th[t].pc = "store" /\ th[t].vertex = p

Held ==
    /\ \A c \in DOMAIN nodes : c # root => NodeHeld(c)
    /\ \A p \in DOMAIN table : VertexHeld(p) \/ Storing(p)

\* Until it is stored, a vertex is its maker's alone.
Fresh ==
    \A t \in Threads : th[t].pc = "store" =>
        /\ \A p \in DOMAIN table : p = th[t].vertex => ~VertexHeld(p)
        /\ \A u \in Threads : th[u].pc = "store" /\ th[u].vertex = th[t].vertex => u = t

\* A thread in the tree stands where the descent for its ID passes.
OnPath(t) ==
    th[t].pc \in {"walk", "insert", "bit"} \cup Inside =>
        \A id \in Ids : id = th[t].id => th[t].node = Reached(id)[th[t].level]

\* A deletion marks the vertex of its ID, and only an insertion gets to InsertVertex.
Chosen(t) ==
    /\ th[t].pc = "mark" => th[t].op = "delete"
    /\ th[t].pc \in {"insert", "bit"} \cup Inside => th[t].op = "insert"
    /\ th[t].pc \in {"mark", "name"} => \A id \in Ids : id = th[t].id => th[t].vertex = VertexOf(id)

\* A vertex that has an external ID is found under it, and one that is found has it or
\* is about to get it.
NamesRight ==
    /\ \A p \in DOMAIN table : table[p].node # NoId =>
          \A id \in Ids : id = table[p].node => VertexOf(id) = p
    /\ \A id \in Ids : VertexOf(id) # Null =>
          \/ table[VertexOf(id)].node = id
          \/ \E t \in Threads : th[t].pc = "name" /\ th[t].id = id

\* An internal ID that was drawn is that of a vertex or of a thread that makes one.
IdsUsed ==
    \A k \in 0 .. (cnt - 1) :
        \/ \E p \in DOMAIN table : table[p].idx = k
        \/ \E t \in Threads : th[t].pc = "grow" /\ th[t].idx = k

SortInv ==
    /\ IInv /\ OneParent /\ Held /\ Fresh
    /\ \A t \in Threads : OnPath(t) /\ Chosen(t)
    /\ NamesRight /\ IdsUsed

-----------------------------------------------------------------------------
(* IDs and their slots. *)

\* The same at two given slots.
LEMMA OneParentAt ==
    ASSUME OneParent, NEW m \in DOMAIN nodes, NEW n \in DOMAIN nodes,
           NEW x \in Slots(nodes[m].level), NEW s \in Slots(nodes[n].level),
           nodes[m].child[x] # Null, nodes[m].child[x] = nodes[n].child[s], Leaf(m) <=> Leaf(n)
    PROVE  m = n /\ x = s
BY DEF OneParent

\* Two descents that meet have taken the same slots.
LEMMA OnePath ==
    ASSUME IInv, OneParent, NEW id \in Ids, NEW other \in Ids
    PROVE  \A i \in Levels : Reached(id)[i] = Reached(other)[i] /\ Reached(id)[i] # Null =>
              \A l \in 0 .. (i - 1) : Slot(id, l) = Slot(other, l)
<1>1. PICK r, q : r = Reached(id) /\ q = Reached(other)
    OBVIOUS
<1>2. /\ \A i \in Levels : r[i + 1] = IF r[i] = Null THEN Null ELSE nodes[r[i]].child[Slot(id, i)]
      /\ \A i \in Levels : q[i + 1] = IF q[i] = Null THEN Null ELSE nodes[q[i]].child[Slot(other, i)]
    BY <1>1, ReachedFacts DEF ReachedByLevel, Below
<1>3. /\ \A i \in Levels : r[i] # Null => r[i] \in DOMAIN nodes /\ nodes[r[i]].level = i
      /\ \A i \in Levels : q[i] # Null => q[i] \in DOMAIN nodes /\ nodes[q[i]].level = i
    BY <1>1, ReachedType
<1>4. Depth \in Nat /\ Depth > 0 /\ Levels = 0 .. (Depth - 1)
    BY LevelFacts DEF Levels
<1> DEFINE Same(i) == r[i] = q[i] /\ r[i] # Null => \A l \in 0 .. (i - 1) : Slot(id, l) = Slot(other, l)
           S == {i \in 0 .. Depth : i \in Levels => Same(i)}
<1>5. 0 \in S
    BY <1>4
<1>6. ASSUME NEW i \in Levels, i \in S
      PROVE  i + 1 \in S
  <2> SUFFICES ASSUME i + 1 \in Levels, r[i + 1] = q[i + 1], r[i + 1] # Null
               PROVE  \A l \in 0 .. i : Slot(id, l) = Slot(other, l)
      BY <1>4
  <2>1. /\ r[i] # Null /\ r[i + 1] = nodes[r[i]].child[Slot(id, i)]
        /\ q[i] # Null /\ q[i + 1] = nodes[q[i]].child[Slot(other, i)]
      BY <1>2
  <2>2. /\ r[i] \in DOMAIN nodes /\ nodes[r[i]].level = i /\ q[i] \in DOMAIN nodes /\ nodes[q[i]].level = i
        /\ Slot(id, i) \in Slots(i) /\ Slot(other, i) \in Slots(i)
      BY <1>3, <2>1, SlotAssumption
  <2>3. r[i] = q[i] /\ Slot(id, i) = Slot(other, i)
    <3>1. PICK n, m \in DOMAIN nodes : n = r[i] /\ m = q[i]
        BY <2>2
    <3>2. nodes[n].level = i /\ nodes[m].level = i
        BY <2>2, <3>1
    <3>3. PICK x \in Slots(nodes[n].level), s \in Slots(nodes[m].level) : x = Slot(id, i) /\ s = Slot(other, i)
        BY <2>2, <3>2
    <3>4. nodes[n].child[x] # Null /\ nodes[n].child[x] = nodes[m].child[s]
        BY <2>1, <3>1, <3>3
    <3>5. Leaf(n) <=> Leaf(m)
        BY <3>2 DEF Leaf
    <3>6. n = m /\ x = s
        BY ONLY OneParent, <3>4, <3>5, OneParentAt
    <3> QED BY <3>1, <3>3, <3>6
  <2>4. \A l \in 0 .. (i - 1) : Slot(id, l) = Slot(other, l)
      BY <1>6, <2>1, <2>3
  <2> QED BY <1>4, <2>3, <2>4
<1> HIDE DEF S
<1>7. \A i \in 0 .. Depth : i \in S
    BY <1>5, <1>6, LevelInduction
<1> QED BY <1>1, <1>4, <1>7 DEF S

\* A slot of a leaf belongs to one ID.
LEMMA SlotOwner ==
    ASSUME IInv, OneParent, NEW id \in Ids, NEW other \in Ids,
           Reached(id)[Depth - 1] = Reached(other)[Depth - 1], Reached(id)[Depth - 1] # Null,
           Slot(id, Depth - 1) = Slot(other, Depth - 1)
    PROVE  id = other
<1>1. Depth \in Nat /\ Depth > 0 /\ Levels = 0 .. (Depth - 1) /\ Depth - 1 \in Levels
    BY LevelFacts DEF Levels
<1>2. \A l \in 0 .. ((Depth - 1) - 1) : Slot(id, l) = Slot(other, l)
    BY <1>1, OnePath
<1>3. \A l \in Levels : Slot(id, l) = Slot(other, l)
    BY <1>1, <1>2
<1> QED BY <1>3, PathsAssumption

\* The leaf that an ID with a vertex reaches.
LEMMA LeafOf ==
    ASSUME IInv, NEW id \in Ids
    PROVE  /\ Depth - 1 \in Levels
           /\ VertexOf(id) = Below(id, Depth - 1, Reached(id)[Depth - 1])
           /\ Reached(id)[Depth - 1] # Null =>
                 /\ Reached(id)[Depth - 1] \in DOMAIN nodes /\ Leaf(Reached(id)[Depth - 1])
                 /\ Slot(id, Depth - 1) \in Slots(nodes[Reached(id)[Depth - 1]].level)
<1>1. Depth \in Nat /\ Depth > 0 /\ Levels = 0 .. (Depth - 1) /\ Depth - 1 \in Levels
      /\ (Depth - 1) + 1 = Depth
    BY LevelFacts DEF Levels
<1>2. VertexOf(id) = Below(id, Depth - 1, Reached(id)[Depth - 1])
  <2> HIDE DEF Below
  <2> QED BY <1>1, ReachedFacts DEF ReachedByLevel, VertexOf
<1>3. Reached(id)[Depth - 1] # Null =>
          Reached(id)[Depth - 1] \in DOMAIN nodes /\ nodes[Reached(id)[Depth - 1]].level = Depth - 1
    BY <1>1, ReachedType
<1> QED BY <1>1, <1>2, <1>3, SlotAssumption DEF Leaf

\* A vertex belongs to one ID.
LEMMA VertexOwner ==
    ASSUME IInv, OneParent, NEW id \in Ids, NEW other \in Ids,
           VertexOf(id) = VertexOf(other), VertexOf(id) # Null
    PROVE  id = other
<1>1. PICK n, m : n = Reached(id)[Depth - 1] /\ m = Reached(other)[Depth - 1]
    OBVIOUS
<1>2. /\ n # Null /\ VertexOf(id) = nodes[n].child[Slot(id, Depth - 1)]
      /\ m # Null /\ VertexOf(other) = nodes[m].child[Slot(other, Depth - 1)]
    BY <1>1, LeafOf DEF Below
<1>3. /\ n \in DOMAIN nodes /\ Leaf(n) /\ Slot(id, Depth - 1) \in Slots(nodes[n].level)
      /\ m \in DOMAIN nodes /\ Leaf(m) /\ Slot(other, Depth - 1) \in Slots(nodes[m].level)
    BY <1>1, <1>2, LeafOf
<1>4. n = m /\ Slot(id, Depth - 1) = Slot(other, Depth - 1)
  <2>1. PICK k, l \in DOMAIN nodes : k = n /\ l = m
      BY <1>3
  <2>2. PICK x \in Slots(nodes[k].level), s \in Slots(nodes[l].level) :
            x = Slot(id, Depth - 1) /\ s = Slot(other, Depth - 1)
      BY <1>3, <2>1
  <2>3. nodes[k].child[x] # Null /\ nodes[k].child[x] = nodes[l].child[s]
      BY <1>2, <2>1, <2>2
  <2>4. Leaf(k) <=> Leaf(l)
      BY <1>3, <2>1
  <2>5. k = l /\ x = s
      BY ONLY OneParent, <2>3, <2>4, OneParentAt
  <2> QED BY <2>1, <2>2, <2>5
<1> QED BY <1>1, <1>2, <1>4, SlotOwner

-----------------------------------------------------------------------------
(* What a step does to the tree. *)

TreeSame == nodes' = nodes /\ root' = root

\* Every pointer but the one in slot s of node n stays; n is 0 if all do.
OthersStay(n, s) ==
    /\ \A m \in DOMAIN nodes : nodes'[m].level = nodes[m].level
    /\ \A m \in DOMAIN nodes : \A x \in Slots(nodes[m].level) :
          (m # n \/ x # s) => nodes'[m].child[x] = nodes[m].child[x]

\* The tree gets an inner node, or a root.
NodeGained(c) ==
    /\ c \notin DOMAIN nodes /\ c # Null /\ DOMAIN nodes' = DOMAIN nodes \cup {c}
    /\ \A x \in Slots(nodes'[c].level) : nodes'[c].child[x] = Null
    /\ \/ root = Null /\ root' = c /\ OthersStay(Null, 0)
       \/ /\ root' = root
          /\ \E n \in DOMAIN nodes : \E s \in Slots(nodes[n].level) :
                ~Leaf(n) /\ nodes[n].child[s] = Null /\ nodes'[n].child[s] = c /\ OthersStay(n, s)

\* A vertex gets its slot.
LeafStored(n, s, p) ==
    /\ root' = root /\ DOMAIN nodes' = DOMAIN nodes
    /\ n \in DOMAIN nodes /\ Leaf(n) /\ s \in Slots(nodes[n].level)
    /\ nodes[n].child[s] = Null /\ nodes'[n].child[s] = p /\ OthersStay(n, s)

LEMMA RootNewGains ==
    ASSUME IInv, NEW t \in Threads, RootNew(t)
    PROVE  TreeSame \/ \E c : NodeGained(c)
<1>1. CASE root # Null
    BY <1>1 DEF RootNew, RootMissing, TreeSame
<1>2. CASE root = Null
  <2>1. nodes' = Append(nodes, NewNode(0)) /\ root' = Len(nodes) + 1
      BY <1>2 DEF RootNew, RootMissing
  <2>2. nodes \in Seq(Node) /\ 0 \in Levels
      BY NodesType, LevelFacts DEF IInv
  <2>3. /\ Len(nodes) \in Nat /\ DOMAIN nodes = 1 .. Len(nodes)
        /\ DOMAIN nodes' = 1 .. (Len(nodes) + 1)
        /\ \A n \in DOMAIN nodes : nodes'[n] = nodes[n]
        /\ nodes'[Len(nodes) + 1] = NewNode(0)
      BY <2>1, <2>2, NodeAppended
  <2>4. NewNode(0).level = 0 /\ \A s \in Slots(0) : NewNode(0).child[s] = Null
      BY <2>2, NewNodeType
  <2>5. PICK c : c = Len(nodes) + 1
      OBVIOUS
  <2>6. c \notin DOMAIN nodes /\ c # Null /\ DOMAIN nodes' = DOMAIN nodes \cup {c}
      BY <2>3, <2>5 DEF Null
  <2>7. OthersStay(Null, 0)
      BY <2>3 DEF OthersStay
  <2>8. NodeGained(c)
      BY <1>2, <2>1, <2>3, <2>4, <2>5, <2>6, <2>7 DEF NodeGained
  <2> QED BY <2>8
<1> QED BY <1>1, <1>2

LEMMA CheckGains ==
    ASSUME IInv, NEW t \in Threads, Check(t)
    PROVE  TreeSame \/ \E c : NodeGained(c)
<1>1. root' = root
    BY DEF Check
<1>2. CASE nodes' = nodes
    BY <1>1, <1>2 DEF TreeSame
<1>3. CASE nodes' # nodes
  <2>1. PICK n, s, c, i : n = th[t].node /\ s = Here(t) /\ c = Len(nodes) + 1 /\ i = th[t].level + 1
      OBVIOUS
  <2>2. /\ ~AtLeaf(t) /\ Child(t) = Null
        /\ nodes' = Append([nodes EXCEPT ![n].child[s] = Len(nodes) + 1], NewNode(i))
      BY <1>3, <2>1 DEF Check, Missing
  <2>3. /\ TypeOK /\ n \in DOMAIN nodes /\ nodes[n].level = th[t].level /\ s \in Slots(nodes[n].level)
        /\ th[t].level \in Levels
      BY <2>1, UnderTheBit DEF Check, Inside
  <2>4. i \in Levels /\ Len(nodes) \in Nat /\ DOMAIN nodes = 1 .. Len(nodes)
      BY <2>1, <2>2, <2>3, LevelFacts, NodesType DEF AtLeaf
  <2>5. AddedAt(nodes', n, s, i, c)
      BY <2>1, <2>2, <2>3, <2>4, NodeAdded
  <2>6. c \notin DOMAIN nodes
      BY <2>1, <2>4
  <2>7. ~Leaf(n) /\ nodes[n].child[s] = Null
      BY <2>1, <2>2, <2>3 DEF Leaf, AtLeaf, Child
  <2>8. OthersStay(n, s) /\ nodes'[n].child[s] = c
      BY <2>5 DEF AddedAt, OthersStay
  <2>9. NodeGained(c)
      BY <1>1, <2>3, <2>5, <2>6, <2>7, <2>8 DEF AddedAt, NodeGained
  <2> QED BY <2>9
<1> QED BY <1>2, <1>3

LEMMA StoreFills ==
    ASSUME IInv, NEW t \in Threads, Store(t)
    PROVE  /\ LeafStored(th[t].node, Here(t), th[t].vertex)
           /\ th[t].vertex \in DOMAIN table /\ th[t].vertex # Null /\ th[t].level = Depth - 1
<1>1. PICK n, s, p : n = th[t].node /\ s = Here(t) /\ p = th[t].vertex
    OBVIOUS
<1>2. /\ th[t].pc = "store" /\ nodes' = [nodes EXCEPT ![n].child[s] = p] /\ root' = root
    BY <1>1 DEF Store
<1>3. /\ TypeOK /\ Placed(t) /\ n \in DOMAIN nodes /\ nodes[n].level = th[t].level
      /\ s \in Slots(nodes[n].level)
    BY <1>1, <1>2, UnderTheBit DEF Inside
<1>4. p \in DOMAIN table /\ p \in Nat /\ AtLeaf(t) /\ Child(t) = Null
    BY <1>1, <1>2, <1>3, ThreadFields DEF Placed, IInv, StillMissing
<1>5. p # Null
    BY <1>3, <1>4, LenProperties DEF TypeOK, Null
<1>6. StoredAt(nodes', n, s, p)
    BY <1>2, <1>3, <1>4, SlotStored
<1>7. OthersStay(n, s) /\ nodes'[n].child[s] = p /\ DOMAIN nodes' = DOMAIN nodes
    BY <1>6 DEF StoredAt, OthersStay
<1>8. nodes[n].child[s] = Null /\ Leaf(n) /\ th[t].level = Depth - 1
    BY <1>1, <1>3, <1>4 DEF Child, AtLeaf, Leaf
<1> QED BY <1>1, <1>2, <1>3, <1>4, <1>5, <1>7, <1>8 DEF LeafStored

\* The tree changes in RootNew, Check and Store alone.
LEMMA TreeEffect ==
    ASSUME IInv, NEW t \in Threads, Call(t) \/ Step(t), ~Store(t)
    PROVE  TreeSame \/ \E c : NodeGained(c)
<1>1. CASE RootNew(t) \/ Check(t)
    BY <1>1, RootNewGains, CheckGains
<1>2. CASE ~(RootNew(t) \/ Check(t))
  <2>1. TreeSame
      BY <1>2 DEF Call, Step, RootLock, RootUnlock, Walk, Mark, Return, Insert, SetBit, Count, Grow,
                  Name, Clear, TreeSame
  <2> QED BY <2>1
<1> QED BY <1>1, <1>2

-----------------------------------------------------------------------------
(* What a step does to the map. *)

MapStays == \A id \in Ids : VertexOf(id)' = VertexOf(id)

\* What ReachedType says of every ID.
ReachedTyped ==
    \A id \in Ids : \A i \in Levels : Reached(id)[i] # Null =>
        Reached(id)[i] \in DOMAIN nodes /\ nodes[Reached(id)[i]].level = i

LEMMA TypedReach == IInv => ReachedTyped
BY ReachedType DEF ReachedTyped

\* One new node, seen from a slot.
LEMMA SlotsAfterNode ==
    ASSUME IInv, NEW c, NodeGained(c)
    PROVE  /\ root' = root \/ (root = Null /\ root' = c)
           /\ \A n \in DOMAIN nodes : \A s \in Slots(nodes[n].level) :
                 \/ nodes'[n].child[s] = nodes[n].child[s]
                 \/ ~Leaf(n) /\ nodes[n].child[s] = Null /\ nodes'[n].child[s] = c
<1>1. CASE root = Null /\ root' = c /\ OthersStay(Null, 0)
  <2>1. 0 \notin DOMAIN nodes
      BY NodesType DEF IInv
  <2> QED BY <1>1, <2>1 DEF OthersStay, Null
<1>2. CASE /\ root' = root
           /\ \E n \in DOMAIN nodes : \E s \in Slots(nodes[n].level) :
                 ~Leaf(n) /\ nodes[n].child[s] = Null /\ nodes'[n].child[s] = c /\ OthersStay(n, s)
    BY <1>2 DEF OthersStay
<1> QED BY <1>1, <1>2 DEF NodeGained

\* A new node is a dead end for the IDs that pass it: the map stays.
LEMMA MapAfterNode ==
    ASSUME IInv, IInv', NEW c, NodeGained(c)
    PROVE  MapStays
<1> SUFFICES ASSUME NEW id \in Ids
             PROVE  VertexOf(id)' = VertexOf(id)
    BY DEF MapStays
<1>1. ReachedByLevel' /\ ReachedTyped'
    BY ReachedFacts, TypedReach, PTL
<1>2. PICK r, q : r = Reached(id) /\ q = Reached(id)'
    OBVIOUS
<1>3. /\ r[0] = root
      /\ \A i \in Levels : r[i + 1] = IF r[i] = Null THEN Null ELSE nodes[r[i]].child[Slot(id, i)]
    BY <1>2, ReachedFacts DEF ReachedByLevel, Below
<1>4. /\ q[0] = root'
      /\ \A i \in Levels : q[i + 1] = IF q[i] = Null THEN Null ELSE nodes'[q[i]].child[Slot(id, i)]
    BY <1>1, <1>2 DEF ReachedByLevel, Below
<1>5. /\ \A i \in Levels : r[i] # Null => r[i] \in DOMAIN nodes /\ nodes[r[i]].level = i
      /\ \A i \in Levels : q[i] # Null => nodes'[q[i]].level = i
    BY <1>1, <1>2, ReachedType DEF ReachedTyped
<1> DEFINE S == {i \in 0 .. Depth : q[i] = r[i] \/ (i # Depth /\ r[i] = Null /\ q[i] = c)}
<1>6. Depth \in Nat /\ Depth > 0 /\ \A i \in Levels : i \in 0 .. Depth /\ i + 1 \in 0 .. Depth /\ (i + 1 = Depth <=> i = Depth - 1)
    BY LevelFacts DEF Levels
<1>7. c # Null /\ \A x \in Slots(nodes'[c].level) : nodes'[c].child[x] = Null
    BY DEF NodeGained
<1>8. 0 \in S
    BY <1>3, <1>4, <1>6, SlotsAfterNode
<1>9. ASSUME NEW i \in Levels, i \in S
      PROVE  i + 1 \in S
  <2>1. PICK x : x = Slot(id, i) /\ x \in Slots(i)
      BY SlotAssumption
  <2>2. CASE q[i] = r[i] /\ r[i] = Null
      BY <1>3, <1>4, <1>6, <2>2
  <2>3. CASE q[i] = r[i] /\ r[i] # Null
    <3>1. PICK n \in DOMAIN nodes : n = r[i] /\ nodes[n].level = i
        BY <1>5, <2>3
    <3>2. r[i + 1] = nodes[n].child[x] /\ q[i + 1] = nodes'[n].child[x]
        BY <1>3, <1>4, <2>1, <2>3, <3>1
    <3>3. \/ nodes'[n].child[x] = nodes[n].child[x]
          \/ ~Leaf(n) /\ nodes[n].child[x] = Null /\ nodes'[n].child[x] = c
        BY <2>1, <3>1, SlotsAfterNode
    <3>4. ~Leaf(n) => i + 1 # Depth
        BY <1>6, <3>1 DEF Leaf
    <3> QED BY <1>6, <3>2, <3>3, <3>4
  <2>4. CASE r[i] = Null /\ q[i] = c
    <3>1. nodes'[c].level = i
        BY <1>5, <1>7, <2>4
    <3>2. r[i + 1] = Null /\ q[i + 1] = nodes'[c].child[x] /\ nodes'[c].child[x] = Null
        BY <1>3, <1>4, <1>7, <2>1, <2>4, <3>1
    <3> QED BY <1>6, <3>2
  <2> QED BY <1>9, <2>2, <2>3, <2>4
<1>10. \A i \in 0 .. Depth : i \in S
  <2> HIDE DEF S
  <2> QED BY <1>8, <1>9, LevelInduction
<1>11. q[Depth] = r[Depth]
    BY <1>6, <1>10
<1> QED BY <1>2, <1>11 DEF VertexOf

\* Storing a vertex in a leaf that an ID reaches: the levels above stay, the ID gets the
\* vertex, the others keep theirs.
LEMMA ReachedAfterStore ==
    ASSUME IInv, NEW n, NEW s, NEW p, LeafStored(n, s, p), NEW id \in Ids
    PROVE  \A i \in Levels : Reached(id)'[i] = Reached(id)[i]
<1>1. ReachedByLevel'
    BY ReachedFacts, PTL
<1>2. PICK r, q : r = Reached(id) /\ q = Reached(id)'
    OBVIOUS
<1>3. /\ r[0] = root
      /\ \A i \in Levels : r[i + 1] = IF r[i] = Null THEN Null ELSE nodes[r[i]].child[Slot(id, i)]
    BY <1>2, ReachedFacts DEF ReachedByLevel, Below
<1>4. /\ q[0] = root'
      /\ \A i \in Levels : q[i + 1] = IF q[i] = Null THEN Null ELSE nodes'[q[i]].child[Slot(id, i)]
    BY <1>1, <1>2 DEF ReachedByLevel, Below
<1>5. \A i \in Levels : r[i] # Null => r[i] \in DOMAIN nodes /\ nodes[r[i]].level = i
    BY <1>2, ReachedType
<1> DEFINE S == {i \in 0 .. Depth : i \in Levels => q[i] = r[i]}
<1>6. Depth \in Nat /\ Depth > 0 /\ Levels = 0 .. (Depth - 1)
    BY LevelFacts DEF Levels
<1>7. 0 \in S
    BY <1>3, <1>4, <1>6 DEF LeafStored
<1>8. ASSUME NEW i \in Levels, i \in S
      PROVE  i + 1 \in S
  <2> SUFFICES ASSUME i + 1 \in Levels
               PROVE  q[i + 1] = r[i + 1]
      BY <1>6
  <2>1. CASE r[i] = Null
      BY <1>3, <1>4, <1>8, <2>1
  <2>2. CASE r[i] # Null
    <3>1. PICK m \in DOMAIN nodes : m = r[i] /\ nodes[m].level = i
        BY <1>5, <2>2
    <3>2. PICK x \in Slots(nodes[m].level) : x = Slot(id, i)
        BY <3>1, SlotAssumption
    <3>3. ~Leaf(m)
        BY <1>6, <3>1 DEF Leaf
    <3>4. nodes'[m].child[x] = nodes[m].child[x]
        BY <3>3 DEF LeafStored, OthersStay
    <3> QED BY <1>3, <1>4, <1>8, <2>2, <3>1, <3>2, <3>4
  <2> QED BY <2>1, <2>2
<1>9. \A i \in 0 .. Depth : i \in S
  <2> HIDE DEF S
  <2> QED BY <1>7, <1>8, LevelInduction
<1> QED BY <1>2, <1>6, <1>9

LEMMA MapAfterStore ==
    ASSUME IInv, OneParent, NEW n, NEW s, NEW p, LeafStored(n, s, p), NEW id \in Ids,
           Reached(id)[Depth - 1] = n, Slot(id, Depth - 1) = s
    PROVE  /\ VertexOf(id) = Null /\ VertexOf(id)' = p
           /\ \A other \in Ids : other # id => VertexOf(other)' = VertexOf(other)
<1>1. /\ Depth - 1 \in Levels
      /\ \A other \in Ids : VertexOf(other) = Below(other, Depth - 1, Reached(other)[Depth - 1])
    BY LeafOf
<1>2. \A other \in Ids : VertexOf(other)' = IF Reached(other)'[Depth - 1] = Null THEN Null
                                            ELSE nodes'[Reached(other)'[Depth - 1]].child[Slot(other, Depth - 1)]
  <2>1. ReachedByLevel'
      BY ReachedFacts, PTL
  <2>2. (Depth - 1) + 1 = Depth
      BY LevelFacts
  <2> QED BY <1>1, <2>1, <2>2 DEF ReachedByLevel, Below, VertexOf
<1>3. \A other \in Ids : Reached(other)'[Depth - 1] = Reached(other)[Depth - 1]
    BY <1>1, ReachedAfterStore
<1>4. n \in DOMAIN nodes /\ n # Null /\ nodes[n].child[s] = Null /\ nodes'[n].child[s] = p
  <2>1. 0 \notin DOMAIN nodes
      BY NodesType DEF IInv
  <2> QED BY <2>1 DEF LeafStored, Null
<1>5. VertexOf(id) = Null /\ VertexOf(id)' = p
    BY <1>1, <1>2, <1>3, <1>4 DEF Below
<1>6. ASSUME NEW other \in Ids, other # id
      PROVE  VertexOf(other)' = VertexOf(other)
  <2>1. PICK m : m = Reached(other)[Depth - 1]
      OBVIOUS
  <2>2. CASE m = Null
      BY <1>1, <1>2, <1>3, <2>1, <2>2 DEF Below
  <2>3. CASE m # Null
    <3>1. m \in DOMAIN nodes /\ Slot(other, Depth - 1) \in Slots(nodes[m].level)
        BY <2>1, <2>3, LeafOf
    <3>2. PICK x \in Slots(nodes[m].level) : x = Slot(other, Depth - 1)
        BY <3>1
    <3>3. ~(m = n /\ x = s)
        BY <1>4, <1>6, <2>1, <3>2, SlotOwner
    <3>4. nodes'[m].child[x] = nodes[m].child[x]
        BY <3>1, <3>3 DEF LeafStored, OthersStay
    <3> QED BY <1>1, <1>2, <1>3, <2>1, <2>3, <3>2, <3>4 DEF Below
  <2> QED BY <2>2, <2>3
<1> QED BY <1>5, <1>6

-----------------------------------------------------------------------------
(* The shape of the tree is preserved. *)

\* A tree with one more inner node.
LEMMA OneParentAfterNode ==
    ASSUME IInv, OneParent, NEW c, NodeGained(c)
    PROVE  OneParent'
<1> SUFFICES ASSUME NEW m \in DOMAIN nodes', NEW n \in DOMAIN nodes',
                    NEW x \in Slots(nodes'[m].level), NEW s \in Slots(nodes'[n].level),
                    nodes'[m].child[x] # Null, nodes'[m].child[x] = nodes'[n].child[s],
                    Leaf(m)' <=> Leaf(n)'
             PROVE  m = n /\ x = s
    BY DEF OneParent
<1>1. m \in DOMAIN nodes /\ n \in DOMAIN nodes
    BY DEF NodeGained
<1>2. \A k \in DOMAIN nodes : nodes'[k].level = nodes[k].level
    BY DEF NodeGained, OthersStay
<1>3. x \in Slots(nodes[m].level) /\ s \in Slots(nodes[n].level) /\ (Leaf(m) <=> Leaf(n))
    BY <1>1, <1>2 DEF Leaf
<1>4. CASE nodes'[m].child[x] = nodes[m].child[x] /\ nodes'[n].child[s] = nodes[n].child[s]
  <2>1. nodes[m].child[x] # Null /\ nodes[m].child[x] = nodes[n].child[s]
      BY <1>4
  <2> QED BY ONLY OneParent, <1>1, <1>3, <2>1, OneParentAt
<1>5. CASE ~(nodes'[m].child[x] = nodes[m].child[x] /\ nodes'[n].child[s] = nodes[n].child[s])
  <2>1. \A k \in DOMAIN nodes : \A y \in Slots(nodes[k].level) : ~Leaf(k) => nodes[k].child[y] # c
      BY DEF NodeGained, IInv, PointersLevelled, Leaf
  <2>2. ~Leaf(m) /\ nodes'[m].child[x] = c /\ nodes'[n].child[s] = c
      BY <1>1, <1>3, <1>5, SlotsAfterNode
  <2>3. nodes'[m].child[x] # nodes[m].child[x] /\ nodes'[n].child[s] # nodes[n].child[s]
      BY <1>1, <1>3, <2>1, <2>2
  <2>4. 0 \notin DOMAIN nodes
      BY NodesType DEF IInv
  <2>5. PICK k, y : OthersStay(k, y)
      BY DEF NodeGained
  <2>6. m = k /\ x = y /\ n = k /\ s = y
      BY <1>1, <1>3, <2>3, <2>5 DEF OthersStay
  <2> QED BY <2>6
<1> QED BY <1>4, <1>5

\* A tree in which one leaf slot is filled with a vertex that no other slot holds.
LEMMA OneParentAfterStore ==
    ASSUME OneParent, NEW k, NEW y, NEW p, LeafStored(k, y, p), ~VertexHeld(p)
    PROVE  OneParent'
<1> SUFFICES ASSUME NEW m \in DOMAIN nodes', NEW n \in DOMAIN nodes',
                    NEW x \in Slots(nodes'[m].level), NEW s \in Slots(nodes'[n].level),
                    nodes'[m].child[x] # Null, nodes'[m].child[x] = nodes'[n].child[s],
                    Leaf(m)' <=> Leaf(n)'
             PROVE  m = n /\ x = s
    BY DEF OneParent
<1>1. m \in DOMAIN nodes /\ n \in DOMAIN nodes
    BY DEF LeafStored
<1>2. \A i \in DOMAIN nodes : nodes'[i].level = nodes[i].level
    BY DEF LeafStored, OthersStay
<1>3. x \in Slots(nodes[m].level) /\ s \in Slots(nodes[n].level) /\ (Leaf(m) <=> Leaf(n))
    BY <1>1, <1>2 DEF Leaf
<1>4. \A i \in DOMAIN nodes : \A z \in Slots(nodes[i].level) :
          ~(i = k /\ z = y) => nodes'[i].child[z] = nodes[i].child[z]
    BY DEF LeafStored, OthersStay
<1>5. \A i \in DOMAIN nodes : \A z \in Slots(nodes[i].level) : Leaf(i) => nodes[i].child[z] # p
    BY DEF VertexHeld
<1>6. Leaf(k) /\ nodes'[k].child[y] = p
    BY DEF LeafStored
<1>7. CASE ~(m = k /\ x = y) /\ ~(n = k /\ s = y)
  <2>1. nodes[m].child[x] # Null /\ nodes[m].child[x] = nodes[n].child[s]
      BY <1>1, <1>3, <1>4, <1>7
  <2> QED BY ONLY OneParent, <1>1, <1>3, <2>1, OneParentAt
<1>8. CASE m = k /\ x = y
    BY <1>1, <1>3, <1>4, <1>5, <1>6, <1>8
<1>9. CASE n = k /\ s = y
    BY <1>1, <1>3, <1>4, <1>5, <1>6, <1>9
<1> QED BY <1>7, <1>8, <1>9

\* What hangs in the tree keeps hanging there.
LEMMA HeldStays ==
    ASSUME IInv, TreeSame \/ (\E c : NodeGained(c)) \/ (\E k, y, p : LeafStored(k, y, p))
    PROVE  /\ \A c \in DOMAIN nodes : NodeHeld(c) => NodeHeld(c)'
           /\ \A p \in DOMAIN table : VertexHeld(p) => VertexHeld(p)'
<1>1. /\ \A n \in DOMAIN nodes : n \in DOMAIN nodes' /\ nodes'[n].level = nodes[n].level
      /\ \A n \in DOMAIN nodes : \A s \in Slots(nodes[n].level) :
            nodes[n].child[s] # Null => nodes'[n].child[s] = nodes[n].child[s]
  <2>1. CASE TreeSame
      BY <2>1 DEF TreeSame
  <2>2. ASSUME NEW c, NodeGained(c)
        PROVE  /\ \A n \in DOMAIN nodes : n \in DOMAIN nodes' /\ nodes'[n].level = nodes[n].level
               /\ \A n \in DOMAIN nodes : \A s \in Slots(nodes[n].level) :
                     nodes[n].child[s] # Null => nodes'[n].child[s] = nodes[n].child[s]
      BY <2>2, SlotsAfterNode DEF NodeGained, OthersStay
  <2>3. ASSUME NEW k, NEW y, NEW p, LeafStored(k, y, p)
        PROVE  /\ \A n \in DOMAIN nodes : n \in DOMAIN nodes' /\ nodes'[n].level = nodes[n].level
               /\ \A n \in DOMAIN nodes : \A s \in Slots(nodes[n].level) :
                     nodes[n].child[s] # Null => nodes'[n].child[s] = nodes[n].child[s]
      BY <2>3 DEF LeafStored, OthersStay
  <2> QED BY <2>1, <2>2, <2>3
<1>2. 0 \notin DOMAIN nodes /\ 0 \notin DOMAIN table
    BY NodesType, LenProperties DEF IInv, TypeOK
<1> QED BY <1>1, <1>2 DEF NodeHeld, VertexHeld, Leaf, Null

-----------------------------------------------------------------------------
(* Where a thread stands after a step. *)

InTree == {"walk", "insert", "bit"} \cup Inside

\* A step of a thread leaves the others where they are.
LEMMA OthersStill ==
    ASSUME IInv, NEW t \in Threads, Call(t) \/ Step(t)
    PROVE  \A u \in Threads : u # t => th'[u] = th[u]
<1>1. th \in [Threads -> Locals]
    BY DEF IInv, TypeOK
<1>2. \E l : th' = [th EXCEPT ![t] = l]
  <2>1. CASE Call(t) \/ Return(t)
      BY <2>1 DEF Call, Return
  <2>2. CASE RootLock(t) \/ RootNew(t) \/ RootUnlock(t) \/ Walk(t) \/ Mark(t)
      BY <2>2 DEF RootLock, RootNew, RootUnlock, Walk, Mark, Goto, Give, Descend
  <2>3. CASE Insert(t) \/ SetBit(t) \/ Check(t) \/ Count(t)
      BY <2>3 DEF Insert, SetBit, Check, Count, Goto, Give, Descend
  <2>4. CASE Grow(t) \/ Store(t) \/ Name(t) \/ Clear(t)
      BY <2>4 DEF Grow, Store, Name, Clear, Goto, Give, Descend
  <2> QED BY <2>1, <2>2, <2>3, <2>4 DEF Step
<1>3. PICK l : th' = [th EXCEPT ![t] = l]
    BY <1>2
<1> QED BY <1>1, <1>3

\* The ways a thread can move in the tree.
Starts(t) == th'[t].id \in Ids /\ th'[t].level = 0 /\ th'[t].node = root'
Stands(t) ==
    /\ th[t].pc \in InTree
    /\ th'[t].id = th[t].id /\ th'[t].level = th[t].level /\ th'[t].node = th[t].node
Descends(t) ==
    /\ th[t].pc \in InTree /\ Child(t) # Null /\ ~AtLeaf(t)
    /\ th'[t].id = th[t].id /\ th'[t].level = th[t].level + 1 /\ th'[t].node = Child(t)
Moves(t) == th'[t].pc \in InTree => Starts(t) \/ Stands(t) \/ Descends(t)

\* What is at the slot of a thread on its path.
LEMMA ChildReached ==
    ASSUME IInv, NEW t \in Threads, OnPath(t), th[t].pc \in InTree
    PROVE  /\ th[t].id \in Ids /\ th[t].level \in Levels /\ th[t].node # Null
           /\ th[t].node = Reached(th[t].id)[th[t].level]
           /\ Child(t) = Reached(th[t].id)[th[t].level + 1]
           /\ AtLeaf(t) => Child(t) = VertexOf(th[t].id)
<1>1. /\ th[t].id \in Ids /\ th[t].level \in Levels /\ th[t].node \in DOMAIN nodes
      /\ th[t].node = Reached(th[t].id)[th[t].level]
    BY AtSlot DEF IInv, OnPath, InTree
<1>2. th[t].node # Null
    BY <1>1, NodesType DEF IInv, Null
<1>3. Child(t) = Reached(th[t].id)[th[t].level + 1]
  <2>1. Reached(th[t].id)[th[t].level + 1] = Below(th[t].id, th[t].level, Reached(th[t].id)[th[t].level])
    <3> HIDE DEF Below
    <3> QED BY <1>1, ReachedFacts DEF ReachedByLevel
  <2> QED BY <1>1, <1>2, <2>1 DEF Below, Child, Here
<1>4. AtLeaf(t) => th[t].level + 1 = Depth
    BY LevelFacts DEF AtLeaf
<1> QED BY <1>1, <1>2, <1>3, <1>4 DEF VertexOf

\* Moved, a thread on its path still is.
LEMMA PathKept ==
    ASSUME IInv, PointersStay, NEW t \in Threads, OnPath(t), Moves(t)
    PROVE  OnPath(t)'
<1> SUFFICES ASSUME th'[t].pc \in InTree, NEW id \in Ids, id = th'[t].id
             PROVE  th'[t].node = Reached(id)'[th'[t].level]
    BY DEF OnPath, InTree
<1>1. ReachedByLevel'
    BY ReachedFacts, PTL
<1>2. CASE Starts(t)
    BY <1>1, <1>2 DEF Starts, ReachedByLevel
<1>3. CASE Stands(t)
  <2>1. /\ id = th[t].id /\ th[t].level \in 0 .. Depth /\ Reached(id)[th[t].level] # Null
        /\ th[t].node = Reached(id)[th[t].level]
      BY <1>3, ChildReached, LevelFacts DEF Stands, Levels
  <2>2. Reached(id)'[th[t].level] = Reached(id)[th[t].level]
      BY <2>1, ReachedStays
  <2> QED BY <1>3, <2>1, <2>2 DEF Stands
<1>4. CASE Descends(t)
  <2>1. /\ id = th[t].id /\ th[t].level + 1 \in 0 .. Depth /\ Reached(id)[th[t].level + 1] # Null
        /\ Child(t) = Reached(id)[th[t].level + 1]
      BY <1>4, ChildReached, LevelFacts DEF Descends, Levels
  <2>2. Reached(id)'[th[t].level + 1] = Reached(id)[th[t].level + 1]
      BY <2>1, ReachedStays
  <2> QED BY <1>4, <2>1, <2>2 DEF Descends
<1> QED BY <1>2, <1>3, <1>4 DEF Moves

\* A step of a thread sends it to "mark" and into InsertVertex only as its operation says,
\* and with the vertex that it has found or stored.
Steered(t) ==
    /\ th'[t].pc = "mark" => th'[t].op = "delete"
    /\ th'[t].pc \in {"insert", "bit"} \cup Inside => th'[t].op = "insert"
    /\ th'[t].pc = "store" => Grow(t)
    /\ th'[t].pc \in {"mark", "name"} =>
          \/ Store(t)
          \/ /\ th[t].pc \in InTree /\ AtLeaf(t) /\ Child(t) # Null /\ TreeSame
             /\ th'[t].id = th[t].id /\ th'[t].vertex = Child(t)

LEMMA LookupMoves ==
    ASSUME IInv, NEW t \in Threads, Chosen(t),
           Call(t) \/ RootLock(t) \/ RootNew(t) \/ RootUnlock(t) \/ Walk(t) \/ Mark(t) \/ Return(t)
    PROVE  Moves(t) /\ Steered(t)
<1>1. TypeOK /\ Placed(t) /\ th \in [Threads -> Locals]
    BY DEF IInv, TypeOK
<1>2. CASE Call(t)
  <2>1. PICK op \in Ops, id \in Ids :
            th' = [th EXCEPT ![t] = [Idle EXCEPT
                      !.pc = IF root = Null THEN "rootlock" ELSE "walk",
                      !.op = op, !.id = id, !.node = root]]
      BY <1>2 DEF Call
  <2>2. /\ th'[t].pc \in {"rootlock", "walk"} /\ th'[t].id = id /\ th'[t].node = root
        /\ th'[t].level = 0 /\ root' = root
      BY <1>1, <1>2, <2>1 DEF Idle, Call
  <2> QED BY <2>2 DEF Moves, Starts, Steered, Inside
<1>3. CASE RootLock(t) \/ RootNew(t)
  <2>1. PICK p \in {"rootnew", "rootunlock"} : Goto(t, p)
      BY <1>3 DEF RootLock, RootNew
  <2>2. th'[t].pc = p
      BY <1>1, <2>1, GotoFields DEF Pcs
  <2> QED BY <2>2 DEF Moves, Steered, InTree, Inside
<1>4. CASE RootUnlock(t)
  <2>1. th[t].pc = "rootunlock" /\ th[t].id \in Ids /\ th[t].level = 0
      BY <1>1, <1>4 DEF RootUnlock, Placed
  <2>2. th' = [th EXCEPT ![t] = [th[t] EXCEPT !.pc = "walk", !.node = root]] /\ root' = root
      BY <1>4 DEF RootUnlock
  <2>3. th'[t] = [th[t] EXCEPT !.pc = "walk", !.node = root] /\ th[t] \in Locals
      BY <1>1, <2>2
  <2>4. th'[t].pc = "walk" /\ th'[t].id = th[t].id /\ th'[t].level = 0 /\ th'[t].node = root
      BY <2>1, <2>3 DEF Locals
  <2> QED BY <2>1, <2>2, <2>4 DEF Moves, Starts, Steered, Inside
<1>5. CASE Walk(t)
  <2>1. /\ th[t].pc = "walk" /\ th[t].pc \in InTree /\ Child(t) \in Nat /\ TreeSame
      BY <1>1, <1>5, AtSlot DEF Walk, InTree, TreeSame
  <2>2. CASE Goto(t, "insert") /\ th[t].op = "insert"
    <3>1. /\ th'[t].pc = "insert" /\ th'[t].op = "insert" /\ th'[t].id = th[t].id
          /\ th'[t].level = th[t].level /\ th'[t].node = th[t].node
        BY <1>1, <2>2, GotoFields DEF Pcs
    <3> QED BY <2>1, <3>1 DEF Moves, Stands, Steered, Inside
  <2>3. CASE Give(t, "return", Null)
    <3>1. th'[t].pc = "return"
        BY <1>1, <2>3, GiveFields DEF Pcs, Null
    <3> QED BY <3>1 DEF Moves, InTree, Steered, Inside
  <2>4. CASE Child(t) # Null /\ AtLeaf(t) /\ Give(t, IF th[t].op = "delete" THEN "mark" ELSE "return", Child(t))
    <3>1. PICK p \in {"mark", "return"} : Give(t, p, Child(t)) /\ (p = "mark" => th[t].op = "delete")
        BY <2>4
    <3>2. th'[t].pc = p /\ th'[t].op = th[t].op /\ th'[t].id = th[t].id /\ th'[t].vertex = Child(t)
        BY <1>1, <2>1, <3>1, GiveFields DEF Pcs
    <3> QED BY <2>1, <2>4, <3>1, <3>2 DEF Moves, InTree, Steered, Inside
  <2>5. CASE Child(t) # Null /\ ~AtLeaf(t) /\ Descend(t, "walk")
    <3>1. /\ th'[t].pc = "walk" /\ th'[t].id = th[t].id
          /\ th'[t].level = th[t].level + 1 /\ th'[t].node = Child(t)
        BY <1>1, <2>1, <2>5, DescendFields DEF Pcs
    <3> QED BY <2>1, <2>5, <3>1 DEF Moves, Descends, Steered, Inside
  <2> QED BY <1>5, <2>2, <2>3, <2>4, <2>5 DEF Walk
<1>6. CASE Mark(t)
  <2>1. th'[t].pc = "return"
      BY <1>1, <1>6, GotoFields DEF Mark, Pcs
  <2> QED BY <2>1 DEF Moves, InTree, Steered, Inside
<1>7. CASE Return(t)
  <2>1. th'[t].pc = "idle"
      BY <1>1, <1>7 DEF Return, Idle
  <2> QED BY <2>1 DEF Moves, InTree, Steered, Inside
<1> QED BY <1>2, <1>3, <1>4, <1>5, <1>6, <1>7

LEMMA InsertMoves ==
    ASSUME IInv, NEW t \in Threads, Chosen(t),
           Insert(t) \/ SetBit(t) \/ Check(t) \/ Count(t) \/ Grow(t) \/ Store(t) \/ Name(t) \/ Clear(t)
    PROVE  Moves(t) /\ Steered(t)
<1>1. /\ TypeOK /\ Placed(t) /\ th \in [Threads -> Locals]
      /\ th[t].pc \in InTree /\ th[t].op = "insert" /\ Child(t) \in Nat
  <2>1. TypeOK /\ Placed(t) /\ th \in [Threads -> Locals]
      BY DEF IInv, TypeOK
  <2>2. th[t].pc \in {"insert", "bit"} \cup Inside
      BY DEF Insert, SetBit, Check, Count, Grow, Store, Name, Clear, Inside
  <2> QED BY <2>1, <2>2, AtSlot DEF InTree, Chosen
<1>2. ASSUME NEW p \in {"bit", "check", "clear", "count"}, Goto(t, p)
      PROVE  Moves(t) /\ Steered(t)
  <2>1. /\ th'[t].pc = p /\ th'[t].op = "insert" /\ th'[t].id = th[t].id
        /\ th'[t].level = th[t].level /\ th'[t].node = th[t].node
      BY <1>1, <1>2, GotoFields DEF Pcs, Inside
  <2> QED BY <1>1, <2>1 DEF Moves, Stands, Steered, Inside
<1>3. ASSUME Give(t, "return", Child(t)) \/ Goto(t, "return")
      PROVE  Moves(t) /\ Steered(t)
  <2>1. th'[t].pc = "return"
      BY <1>1, <1>3, GotoFields, GiveFields DEF Pcs
  <2> QED BY <2>1 DEF Moves, InTree, Steered, Inside
<1>4. ASSUME Child(t) # Null, ~AtLeaf(t), Descend(t, "insert")
      PROVE  Moves(t) /\ Steered(t)
  <2>1. /\ th'[t].pc = "insert" /\ th'[t].op = "insert" /\ th'[t].id = th[t].id
        /\ th'[t].level = th[t].level + 1 /\ th'[t].node = Child(t)
      BY <1>1, <1>4, DescendFields DEF Pcs
  <2> QED BY <1>1, <1>4, <2>1 DEF Moves, Descends, Steered, Inside
<1>5. CASE Insert(t)
    BY <1>2, <1>3, <1>4, <1>5 DEF Insert
<1>6. CASE SetBit(t)
    BY <1>2, <1>6 DEF SetBit
<1>7. CASE Check(t)
  <2>1. CASE Goto(t, "clear") \/ Goto(t, "count")
      BY <1>2, <2>1
  <2>2. CASE AtLeaf(t) /\ ~Missing(t) /\ Give(t, "name", Child(t)) /\ UNCHANGED nodes
    <3>1. /\ th'[t].pc = "name" /\ th'[t].op = "insert" /\ th'[t].id = th[t].id
          /\ th'[t].level = th[t].level /\ th'[t].node = th[t].node /\ th'[t].vertex = Child(t)
        BY <1>1, <2>2, GiveFields DEF Pcs, Inside
    <3>2. TreeSame
        BY <1>7, <2>2 DEF Check, TreeSame
    <3> QED BY <1>1, <2>2, <3>1, <3>2 DEF Moves, Stands, Steered, Missing
  <2> QED BY <1>7, <2>1, <2>2 DEF Check
<1>8. CASE Count(t)
  <2>1. th' = [th EXCEPT ![t] = [th[t] EXCEPT !.pc = "grow", !.idx = cnt]]
      BY <1>8 DEF Count, NextId
  <2>2. th'[t] = [th[t] EXCEPT !.pc = "grow", !.idx = cnt] /\ th[t] \in Locals
      BY <1>1, <2>1
  <2>3. /\ th'[t].pc = "grow" /\ th'[t].op = "insert" /\ th'[t].id = th[t].id
        /\ th'[t].level = th[t].level /\ th'[t].node = th[t].node
      BY <1>1, <2>2 DEF Locals
  <2> QED BY <1>1, <2>3 DEF Moves, Stands, Steered
<1>9. CASE Grow(t)
  <2>1. Give(t, "store", Len(table) + 1) /\ Len(table) + 1 \in Nat
      BY <1>1, <1>9, LenProperties DEF Grow, TypeOK
  <2>2. /\ th'[t].pc = "store" /\ th'[t].op = "insert" /\ th'[t].id = th[t].id
        /\ th'[t].level = th[t].level /\ th'[t].node = th[t].node
      BY <1>1, <2>1, GiveFields DEF Pcs, Inside
  <2> QED BY <1>1, <1>9, <2>2 DEF Moves, Stands, Steered
<1>10. CASE Store(t)
  <2>1. /\ th'[t].pc = "name" /\ th'[t].op = "insert" /\ th'[t].id = th[t].id
        /\ th'[t].level = th[t].level /\ th'[t].node = th[t].node
      BY <1>1, <1>10, GotoFields DEF Store, Pcs, Inside
  <2> QED BY <1>1, <1>10, <2>1 DEF Moves, Stands, Steered
<1>11. CASE Name(t)
    BY <1>2, <1>11 DEF Name
<1>12. CASE Clear(t)
  <2>1. CASE AtLeaf(t)
      BY <1>3, <1>12, <2>1 DEF Clear
  <2>2. CASE ~AtLeaf(t)
      BY <1>1, <1>4, <1>12, <2>2 DEF Clear, Placed
  <2> QED BY <2>1, <2>2
<1> QED BY <1>5, <1>6, <1>7, <1>8, <1>9, <1>10, <1>11, <1>12

LEMMA StepMoves ==
    ASSUME IInv, NEW t \in Threads, Chosen(t), Call(t) \/ Step(t)
    PROVE  Moves(t) /\ Steered(t)
BY LookupMoves, InsertMoves DEF Step

-----------------------------------------------------------------------------
(* What a step does to the map and to the vertices. *)

\* A vertex that was found stays where it is.
LEMMA VertexStays ==
    ASSUME IInv, PointersStay, NEW id \in Ids, VertexOf(id) # Null
    PROVE  VertexOf(id)' = VertexOf(id)
<1>1. Depth \in 0 .. Depth
    BY LevelFacts
<1> QED BY <1>1, ReachedStays DEF VertexOf

\* Every step but Store leaves the map.
LEMMA MapKept ==
    ASSUME IInv, IInv', NEW t \in Threads, Call(t) \/ Step(t), ~Store(t)
    PROVE  MapStays
<1>1. CASE TreeSame
    BY <1>1, SameTree DEF TreeSame, MapStays
<1>2. CASE \E c : NodeGained(c)
    BY <1>2, MapAfterNode
<1> QED BY <1>1, <1>2, TreeEffect

\* Store gives the ID of its thread, which had no vertex, the vertex of its thread.
LEMMA StoreMaps ==
    ASSUME IInv, OneParent, NEW t \in Threads, OnPath(t), Store(t)
    PROVE  /\ th[t].id \in Ids
           /\ \A id \in Ids : id = th[t].id => VertexOf(id) = Null /\ VertexOf(id)' = th[t].vertex
           /\ \A id \in Ids : id # th[t].id => VertexOf(id)' = VertexOf(id)
<1>1. LeafStored(th[t].node, Here(t), th[t].vertex) /\ th[t].level = Depth - 1
    BY StoreFills
<1>2. th[t].id \in Ids /\ th[t].node = Reached(th[t].id)[th[t].level]
    BY ChildReached DEF Store, InTree, Inside
<1>3. PICK id \in Ids : id = th[t].id
    BY <1>2
<1>4. PICK n, s, p : n = th[t].node /\ s = Here(t) /\ p = th[t].vertex
    OBVIOUS
<1>5. LeafStored(n, s, p) /\ Reached(id)[Depth - 1] = n /\ Slot(id, Depth - 1) = s
    BY <1>1, <1>2, <1>3, <1>4 DEF Here
<1>6. /\ VertexOf(id) = Null /\ VertexOf(id)' = p
      /\ \A other \in Ids : other # id => VertexOf(other)' = VertexOf(other)
    BY <1>5, MapAfterStore
<1> QED BY <1>3, <1>4, <1>6

\* The vertices after a step.
TableKept == \A p \in DOMAIN table : p \in DOMAIN table' /\ table'[p].idx = table[p].idx

LEMMA TableEffect ==
    ASSUME IInv, NEW t \in Threads, Call(t) \/ Step(t), ~Mark(t), ~Name(t), ~Grow(t)
    PROVE  table' = table
BY DEF Call, Step, RootLock, RootNew, RootUnlock, Walk, Return, Insert, SetBit, Check, Count, Store, Clear

LEMMA MarkEffect ==
    ASSUME IInv, NEW t \in Threads, Mark(t)
    PROVE  /\ TableKept /\ DOMAIN table' = DOMAIN table /\ th[t].vertex \in DOMAIN table
           /\ \A p \in DOMAIN table :
                 /\ table'[p].node = table[p].node
                 /\ table'[p].del = IF p = th[t].vertex THEN TRUE ELSE table[p].del
<1>1. /\ th[t].vertex \in DOMAIN table /\ table \in Seq(Vertex)
      /\ table' = [table EXCEPT ![th[t].vertex] = [table[th[t].vertex] EXCEPT !.del = TRUE]]
    BY DEF Mark, IInv, TypeOK, Placed
<1>2. PICK v : v = [table[th[t].vertex] EXCEPT !.del = TRUE]
    OBVIOUS
<1>3. table[th[t].vertex] \in Vertex
    BY <1>1, ElementOfSeq, LenProperties
<1>4. v.node = table[th[t].vertex].node /\ v.idx = table[th[t].vertex].idx /\ v.del = TRUE
    BY <1>2, <1>3 DEF Vertex
<1>5. \A p \in DOMAIN table : table'[p] = IF p = th[t].vertex THEN v ELSE table[p]
    BY <1>1, <1>2
<1> QED BY <1>1, <1>4, <1>5 DEF TableKept

LEMMA NameEffect ==
    ASSUME IInv, NEW t \in Threads, Name(t)
    PROVE  /\ TableKept /\ DOMAIN table' = DOMAIN table /\ th[t].vertex \in DOMAIN table
           /\ \A p \in DOMAIN table :
                 /\ table'[p].node = IF p = th[t].vertex THEN th[t].id ELSE table[p].node
                 /\ table'[p].del = table[p].del
<1>1. /\ th[t].vertex \in DOMAIN table /\ table \in Seq(Vertex)
      /\ table' = [table EXCEPT ![th[t].vertex] = [table[th[t].vertex] EXCEPT !.node = th[t].id]]
    BY DEF Name, IInv, TypeOK, Placed
<1>2. PICK v : v = [table[th[t].vertex] EXCEPT !.node = th[t].id]
    OBVIOUS
<1>3. table[th[t].vertex] \in Vertex
    BY <1>1, ElementOfSeq, LenProperties
<1>4. v.node = th[t].id /\ v.idx = table[th[t].vertex].idx /\ v.del = table[th[t].vertex].del
    BY <1>2, <1>3 DEF Vertex
<1>5. \A p \in DOMAIN table : table'[p] = IF p = th[t].vertex THEN v ELSE table[p]
    BY <1>1, <1>2
<1> QED BY <1>1, <1>4, <1>5 DEF TableKept

LEMMA GrowEffect ==
    ASSUME IInv, NEW t \in Threads, Grow(t)
    PROVE  /\ TableKept /\ Len(table) \in Nat /\ DOMAIN table = 1 .. Len(table)
           /\ DOMAIN table' = 1 .. (Len(table) + 1)
           /\ \A p \in DOMAIN table : table'[p] = table[p]
           /\ table'[Len(table) + 1].node = NoId /\ table'[Len(table) + 1].idx = th[t].idx
           /\ table'[Len(table) + 1].del = FALSE
           /\ th'[t].pc = "store" /\ th'[t].vertex = Len(table) + 1
<1>1. /\ table \in Seq(Vertex) /\ table' = Append(table, [NewVertex EXCEPT !.idx = th[t].idx])
      /\ Give(t, "store", Len(table) + 1) /\ TypeOK
    BY DEF Grow, IInv, TypeOK
<1>2. Len(table) \in Nat /\ DOMAIN table = 1 .. Len(table)
    BY <1>1, LenProperties
<1>3. th'[t].pc = "store" /\ th'[t].vertex = Len(table) + 1
    BY <1>1, <1>2, GiveFields DEF Pcs, Inside
<1>4. PICK v : v = [NewVertex EXCEPT !.idx = th[t].idx]
    OBVIOUS
<1>5. v.node = NoId /\ v.idx = th[t].idx /\ v.del = FALSE
    BY <1>4 DEF NewVertex
<1>6. /\ DOMAIN table' = 1 .. (Len(table) + 1)
      /\ \A p \in DOMAIN table : table'[p] = table[p]
      /\ table'[Len(table) + 1] = v
    BY <1>1, <1>2, <1>4
<1> QED BY <1>2, <1>3, <1>5, <1>6 DEF TableKept

-----------------------------------------------------------------------------
(* SortInv is inductive. *)

\* Null is neither a node nor a vertex.
LEMMA NullNowhere == ASSUME IInv PROVE Null \notin DOMAIN nodes /\ Null \notin DOMAIN table
BY NodesType, LenProperties DEF IInv, TypeOK, Null

\* The tree after any step of a thread.
LEMMA TreeStepCases ==
    ASSUME IInv, NEW t \in Threads, Call(t) \/ Step(t)
    PROVE  \/ ~Store(t) /\ (TreeSame \/ \E c : NodeGained(c))
           \/ Store(t) /\ LeafStored(th[t].node, Here(t), th[t].vertex)
BY TreeEffect, StoreFills

LEMMA OneParentKept ==
    ASSUME IInv, OneParent, Fresh, NEW t \in Threads, Call(t) \/ Step(t)
    PROVE  OneParent'
<1>1. CASE TreeSame
    BY <1>1 DEF TreeSame, OneParent, Leaf
<1>2. CASE \E c : NodeGained(c)
    BY <1>2, OneParentAfterNode
<1>3. CASE Store(t) /\ LeafStored(th[t].node, Here(t), th[t].vertex)
  <2>1. PICK n, s, p : n = th[t].node /\ s = Here(t) /\ p = th[t].vertex
      OBVIOUS
  <2>2. p \in DOMAIN table
      BY <1>3, <2>1, StoreFills
  <2>3. LeafStored(n, s, p) /\ ~VertexHeld(p)
      BY <1>3, <2>1, <2>2 DEF Fresh, Store
  <2> QED BY <2>3, OneParentAfterStore
<1> QED BY <1>1, <1>2, <1>3, TreeStepCases

LEMMA HeldKept ==
    ASSUME IInv, Held, NEW t \in Threads, Call(t) \/ Step(t)
    PROVE  Held'
<1>1. /\ \A c \in DOMAIN nodes : NodeHeld(c) => NodeHeld(c)'
      /\ \A p \in DOMAIN table : VertexHeld(p) => VertexHeld(p)'
  <2>1. TreeSame \/ (\E c : NodeGained(c)) \/ (\E k, y, p : LeafStored(k, y, p))
      BY TreeStepCases
  <2> QED BY <2>1, HeldStays
<1>2. ASSUME NEW c \in DOMAIN nodes', c # root'
      PROVE  NodeHeld(c)'
  <2>1. CASE TreeSame
      BY <1>1, <1>2, <2>1 DEF TreeSame, Held
  <2>2. CASE Store(t) /\ LeafStored(th[t].node, Here(t), th[t].vertex)
      BY <1>1, <1>2, <2>2 DEF LeafStored, Held
  <2>3. ASSUME NEW d, NodeGained(d)
        PROVE  NodeHeld(c)'
    <3>1. CASE c # d
      <4>1. c \in DOMAIN nodes /\ c # root
          BY <1>2, <2>3, <3>1, NullNowhere DEF NodeGained
      <4> QED BY <1>1, <4>1 DEF Held
    <3>2. CASE c = d
      <4>1. PICK n \in DOMAIN nodes : \E s \in Slots(nodes[n].level) :
                ~Leaf(n) /\ nodes[n].child[s] = Null /\ nodes'[n].child[s] = d /\ OthersStay(n, s)
          BY <1>2, <2>3, <3>2 DEF NodeGained
      <4>2. PICK s \in Slots(nodes[n].level) :
                ~Leaf(n) /\ nodes[n].child[s] = Null /\ nodes'[n].child[s] = d /\ OthersStay(n, s)
          BY <4>1
      <4>3. n \in DOMAIN nodes' /\ nodes'[n].level = nodes[n].level
          BY <2>3, <4>2 DEF NodeGained, OthersStay
      <4> QED BY <3>2, <4>2, <4>3 DEF NodeHeld, Leaf
    <3> QED BY <3>1, <3>2
  <2> QED BY <2>1, <2>2, <2>3, TreeStepCases
<1>3. ASSUME NEW p \in DOMAIN table'
      PROVE  VertexHeld(p)' \/ Storing(p)'
  <2>1. CASE p \in DOMAIN table /\ VertexHeld(p)
      BY <1>1, <2>1
  <2>2. CASE p \in DOMAIN table /\ ~VertexHeld(p)
    <3>1. PICK u \in Threads : th[u].pc = "store" /\ th[u].vertex = p
        BY <2>2 DEF Held, Storing
    <3>2. CASE u # t
        BY <3>1, <3>2, OthersStill DEF Storing
    <3>3. CASE u = t
      <4>1. Store(t)
          BY <3>1, <3>3 DEF Call, Step, RootLock, RootNew, RootUnlock, Walk, Mark, Return, Insert,
                            SetBit, Check, Count, Grow, Name, Clear
      <4>2. LeafStored(th[t].node, Here(t), p)
          BY <3>1, <3>3, <4>1, TreeStepCases
      <4>3. PICK n, s : LeafStored(n, s, p)
          BY <4>2
      <4>4. n \in DOMAIN nodes' /\ nodes'[n].level = nodes[n].level
          BY <4>3 DEF LeafStored, OthersStay
      <4> QED BY <4>3, <4>4 DEF LeafStored, VertexHeld, Leaf
    <3> QED BY <3>2, <3>3
  <2>3. CASE p \notin DOMAIN table
    <3>1. Grow(t)
        BY <1>3, <2>3, TableEffect, MarkEffect, NameEffect
    <3>2. PICK n \in Nat : n = Len(table)
        BY <3>1, GrowEffect
    <3>3. /\ DOMAIN table = 1 .. n /\ DOMAIN table' = 1 .. (n + 1)
          /\ th'[t].pc = "store" /\ th'[t].vertex = n + 1
        BY <3>1, <3>2, GrowEffect
    <3>4. p = n + 1
        BY <1>3, <2>3, <3>3
    <3> QED BY <3>3, <3>4 DEF Storing
  <2> QED BY <2>1, <2>2, <2>3
<1> QED BY <1>2, <1>3 DEF Held

\* Only Grow brings a thread to "store", and with a vertex that nobody knows.
LEMMA FreshKept ==
    ASSUME IInv, Fresh, NEW t \in Threads, Chosen(t), Call(t) \/ Step(t)
    PROVE  Fresh'
<1>1. \A u \in Threads : u # t => th'[u] = th[u]
    BY OthersStill
<1>2. th'[t].pc = "store" => Grow(t)
    BY StepMoves DEF Steered
<1>3. \A p : VertexHeld(p) => p = Null \/ p \in DOMAIN table
    BY DEF VertexHeld, IInv, PointersLevelled, Leaf
<1>4. \A u \in Threads : th[u].pc = "store" => th[u].vertex \in DOMAIN table
    BY DEF IInv, Placed
<1>5. \A p \in DOMAIN table : VertexHeld(p)' /\ ~VertexHeld(p) => Store(t) /\ p = th[t].vertex
  <2>1. CASE TreeSame
      BY <2>1 DEF TreeSame, VertexHeld, Leaf
  <2>2. ASSUME NEW c, NodeGained(c), NEW p \in DOMAIN table, VertexHeld(p)'
        PROVE  VertexHeld(p)
    <3>1. PICK n \in DOMAIN nodes' : Leaf(n)' /\ \E s \in Slots(nodes'[n].level) : nodes'[n].child[s] = p
        BY <2>2 DEF VertexHeld
    <3>2. PICK s \in Slots(nodes'[n].level) : nodes'[n].child[s] = p
        BY <3>1
    <3>3. p # Null
        BY NullNowhere
    <3>4. n \in DOMAIN nodes /\ Leaf(n) /\ s \in Slots(nodes[n].level)
        BY <2>2, <3>1, <3>2, <3>3 DEF NodeGained, OthersStay, Leaf
    <3>5. nodes[n].child[s] = p
        BY <2>2, <3>2, <3>4, SlotsAfterNode
    <3> QED BY <3>4, <3>5 DEF VertexHeld
  <2>3. CASE Store(t) /\ LeafStored(th[t].node, Here(t), th[t].vertex)
    <3>1. PICK k, y, v : LeafStored(k, y, v) /\ v = th[t].vertex
        BY <2>3
    <3>2. ASSUME NEW p \in DOMAIN table, VertexHeld(p)', p # v
          PROVE  VertexHeld(p)
      <4>1. PICK n \in DOMAIN nodes' : Leaf(n)' /\ \E s \in Slots(nodes'[n].level) : nodes'[n].child[s] = p
          BY <3>2 DEF VertexHeld
      <4>2. PICK s \in Slots(nodes'[n].level) : nodes'[n].child[s] = p
          BY <4>1
      <4>3. n \in DOMAIN nodes /\ Leaf(n) /\ s \in Slots(nodes[n].level)
          BY <3>1, <4>1, <4>2 DEF LeafStored, OthersStay, Leaf
      <4>4. nodes[n].child[s] = p
          BY <3>1, <3>2, <4>2, <4>3 DEF LeafStored, OthersStay
      <4> QED BY <4>3, <4>4 DEF VertexHeld
    <3> QED BY <2>3, <3>1, <3>2
  <2> QED BY <2>1, <2>2, <2>3, TreeStepCases
<1>6. CASE Grow(t)
  <2>1. PICK n \in Nat : n = Len(table)
      BY <1>6, GrowEffect
  <2>2. /\ DOMAIN table = 1 .. n /\ th'[t].pc = "store" /\ th'[t].vertex = n + 1
      BY <1>6, <2>1, GrowEffect
  <2>3. n + 1 \notin DOMAIN table /\ n + 1 # Null
      BY <2>2 DEF Null
  <2>4. \A p : VertexHeld(p)' <=> VertexHeld(p)
      BY <1>6 DEF Grow, VertexHeld, Leaf
  <2>5. ~VertexHeld(n + 1)
      BY <1>3, <2>3
  <2> SUFFICES ASSUME NEW u \in Threads, th'[u].pc = "store"
               PROVE  /\ ~VertexHeld(th'[u].vertex)
                      /\ \A w \in Threads : th'[w].pc = "store" /\ th'[w].vertex = th'[u].vertex => w = u
      BY <2>4 DEF Fresh
  <2>6. \A w \in Threads : w # t /\ th'[w].pc = "store" => th[w].pc = "store" /\ th'[w].vertex # n + 1
      BY <1>1, <1>4, <2>3
  <2>7. u # t => ~VertexHeld(th'[u].vertex)
      BY <1>1, <1>4, <2>6 DEF Fresh
  <2> QED BY <1>1, <2>2, <2>5, <2>6, <2>7 DEF Fresh
<1>7. CASE ~Grow(t)
  <2>1. \A w \in Threads : th'[w].pc = "store" => w # t /\ th'[w] = th[w] /\ th[w].pc = "store"
      BY <1>1, <1>2, <1>7
  <2>2. ASSUME NEW u \in Threads, th'[u].pc = "store", NEW p \in DOMAIN table', p = th'[u].vertex
        PROVE  ~VertexHeld(p)'
    <3>1. u # t /\ th[u].pc = "store" /\ p = th[u].vertex /\ p \in DOMAIN table
        BY <1>4, <2>1, <2>2
    <3>2. ~VertexHeld(p) /\ ~(Store(t) /\ p = th[t].vertex)
        BY <3>1 DEF Fresh, Store
    <3> QED BY <1>5, <3>1, <3>2
  <2>3. ASSUME NEW u \in Threads, NEW w \in Threads, th'[u].pc = "store",
               th'[w].pc = "store", th'[w].vertex = th'[u].vertex
        PROVE  w = u
      BY <2>1, <2>3 DEF Fresh
  <2> QED BY <2>2, <2>3 DEF Fresh
<1> QED BY <1>6, <1>7

LEMMA ThreadsKept ==
    ASSUME IInv, IInv', PointersStay, OneParent, \A u \in Threads : OnPath(u) /\ Chosen(u),
           NEW t \in Threads, Call(t) \/ Step(t)
    PROVE  \A u \in Threads : OnPath(u)' /\ Chosen(u)'
<1>1. \A u \in Threads : u # t => th'[u] = th[u]
    BY OthersStill
<1>2. Moves(t) /\ Steered(t)
    BY StepMoves
<1>3. ASSUME NEW u \in Threads
      PROVE  OnPath(u)'
  <2>1. Moves(u)
      BY <1>1, <1>2 DEF Moves, Stands
  <2> QED BY <2>1, PathKept
<1>4. ASSUME NEW u \in Threads, u # t
      PROVE  Chosen(u)'
  <2> SUFFICES ASSUME th[u].pc \in {"mark", "name"}, NEW id \in Ids, id = th[u].id
               PROVE  th[u].vertex = VertexOf(id)'
      BY <1>1, <1>4 DEF Chosen
  <2>1. th[u].vertex = VertexOf(id) /\ th[u].vertex \in DOMAIN table
      BY DEF Chosen, IInv, Placed
  <2> QED BY <2>1, NullNowhere, VertexStays
<1>5. Chosen(t)'
  <2> SUFFICES ASSUME th'[t].pc \in {"mark", "name"}, NEW id \in Ids, id = th'[t].id
               PROVE  th'[t].vertex = VertexOf(id)'
      BY <1>2 DEF Chosen, Steered
  <2>1. CASE Store(t)
    <3>1. th'[t].id = th[t].id /\ th'[t].vertex = th[t].vertex
        BY <2>1, GotoFields DEF Store, IInv, Pcs, Inside
    <3> QED BY <2>1, <3>1, StoreMaps
  <2>2. CASE /\ th[t].pc \in InTree /\ AtLeaf(t) /\ Child(t) # Null /\ TreeSame
             /\ th'[t].id = th[t].id /\ th'[t].vertex = Child(t)
    <3>1. Child(t) = VertexOf(id)
        BY <2>2, ChildReached
    <3>2. VertexOf(id)' = VertexOf(id)
        BY <2>2, SameTree DEF TreeSame
    <3> QED BY <2>2, <3>1, <3>2
  <2> QED BY <1>2, <2>1, <2>2 DEF Steered
<1> QED BY <1>1, <1>3, <1>4, <1>5

LEMMA NamesKept ==
    ASSUME IInv, IInv', PointersStay, OneParent, \A u \in Threads : OnPath(u) /\ Chosen(u),
           NamesRight, NEW t \in Threads, Call(t) \/ Step(t)
    PROVE  NamesRight'
<1>1. \A u \in Threads : u # t => th'[u] = th[u]
    BY OthersStill
<1>2. \A id \in Ids : VertexOf(id) # Null => VertexOf(id) \in DOMAIN table
    BY ReachedType
<1>3. ASSUME NEW p \in DOMAIN table', NEW id \in Ids, id = table'[p].node, table'[p].node # NoId
      PROVE  VertexOf(id)' = p
  <2>1. VertexOf(id) = p /\ p \in DOMAIN table
    <3>1. CASE Name(t)
      <4>1. CASE p = th[t].vertex
        <5>1. id = th[t].id /\ p \in DOMAIN table
            BY <1>3, <3>1, <4>1, NameEffect
        <5> QED BY <3>1, <4>1, <5>1 DEF Chosen, Name
      <4>2. CASE p # th[t].vertex
          BY <1>3, <3>1, <4>2, NameEffect DEF NamesRight
      <4> QED BY <4>1, <4>2
    <3>2. CASE Mark(t)
        BY <1>3, <3>2, MarkEffect DEF NamesRight
    <3>3. CASE Grow(t)
      <4>1. PICK n \in Nat : n = Len(table)
          BY <3>3, GrowEffect
      <4>2. /\ DOMAIN table = 1 .. n /\ DOMAIN table' = 1 .. (n + 1) /\ table'[n + 1].node = NoId
            /\ \A x \in DOMAIN table : table'[x] = table[x]
          BY <3>3, <4>1, GrowEffect
      <4>3. p \in DOMAIN table /\ table'[p] = table[p]
          BY <1>3, <4>2
      <4> QED BY <1>3, <4>3 DEF NamesRight
    <3>4. CASE table' = table
        BY <1>3, <3>4 DEF NamesRight
    <3> QED BY <3>1, <3>2, <3>3, <3>4, TableEffect
  <2> QED BY <2>1, NullNowhere, VertexStays
<1>4. ASSUME NEW id \in Ids, VertexOf(id)' # Null
      PROVE  \/ table'[VertexOf(id)'].node = id
             \/ \E u \in Threads : th'[u].pc = "name" /\ th'[u].id = id
  <2>1. CASE Store(t) /\ id = th[t].id
    <3>1. th'[t].pc = "name" /\ th'[t].id = th[t].id
        BY <2>1, GotoFields DEF Store, IInv, Pcs, Inside
    <3> QED BY <2>1, <3>1
  <2>2. CASE ~(Store(t) /\ id = th[t].id)
    <3>1. VertexOf(id)' = VertexOf(id)
        BY <2>2, MapKept, StoreMaps DEF MapStays
    <3>2. PICK p \in DOMAIN table : p = VertexOf(id)
        BY <1>2, <1>4, <3>1
    <3>3. CASE Name(t) /\ p = th[t].vertex
      <4>1. p = VertexOf(th[t].id) /\ th[t].id \in Ids
          BY <3>3 DEF Name, Chosen, IInv, Placed
      <4>2. id = th[t].id
          BY <3>2, <4>1, NullNowhere, VertexOwner
      <4> QED BY <3>1, <3>2, <3>3, <4>2, NameEffect
    <3>4. CASE ~(Name(t) /\ p = th[t].vertex)
      <4>1. table'[p].node = table[p].node
          BY <3>4, TableEffect, NameEffect, MarkEffect, GrowEffect
      <4>2. CASE table[p].node = id
          BY <3>1, <3>2, <4>1, <4>2
      <4>3. CASE table[p].node # id
        <5>1. PICK u \in Threads : th[u].pc = "name" /\ th[u].id = id
            BY <1>4, <3>1, <3>2, <4>3 DEF NamesRight
        <5>2. th[u].vertex = p
            BY <3>2, <5>1 DEF Chosen
        <5>3. u # t
          <6>1. u = t => Name(t)
              BY <5>1 DEF Call, Step, RootLock, RootNew, RootUnlock, Walk, Mark, Return, Insert,
                          SetBit, Check, Count, Grow, Store, Clear
          <6> QED BY <3>4, <5>2, <6>1
        <5> QED BY <1>1, <5>1, <5>3
      <4> QED BY <4>2, <4>3
    <3> QED BY <3>3, <3>4
  <2> QED BY <2>1, <2>2
<1> QED BY <1>3, <1>4 DEF NamesRight

LEMMA IdsKept ==
    ASSUME IInv, IdsUsed, NEW t \in Threads, Call(t) \/ Step(t)
    PROVE  IdsUsed'
<1>1. (\A u \in Threads : u # t => th'[u] = th[u]) /\ cnt \in Nat /\ th \in [Threads -> Locals]
    BY OthersStill DEF IInv, TypeOK
<1>2. TableKept
    BY TableEffect, MarkEffect, NameEffect, GrowEffect DEF TableKept
<1>3. CASE Count(t)
  <2>1. th' = [th EXCEPT ![t] = [th[t] EXCEPT !.pc = "grow", !.idx = cnt]] /\ cnt' = cnt + 1 /\ th[t].pc = "count"
      BY <1>3 DEF Count, NextId
  <2>2. th'[t] = [th[t] EXCEPT !.pc = "grow", !.idx = cnt] /\ th[t] \in Locals
      BY <1>1, <2>1
  <2>3. th'[t].pc = "grow" /\ th'[t].idx = cnt
      BY <2>2 DEF Locals
  <2> SUFFICES ASSUME NEW k \in 0 .. (cnt' - 1)
               PROVE  \/ \E p \in DOMAIN table' : table'[p].idx = k
                      \/ \E u \in Threads : th'[u].pc = "grow" /\ th'[u].idx = k
      BY DEF IdsUsed
  <2>4. CASE k = cnt
      BY <2>3, <2>4
  <2>5. CASE k \in 0 .. (cnt - 1)
    <3>1. CASE \E p \in DOMAIN table : table[p].idx = k
        BY <1>2, <3>1 DEF TableKept
    <3>2. CASE \E u \in Threads : th[u].pc = "grow" /\ th[u].idx = k
        BY <1>1, <2>1, <3>2
    <3> QED BY <2>5, <3>1, <3>2 DEF IdsUsed
  <2> QED BY <1>1, <2>1, <2>4, <2>5
<1>4. CASE ~Count(t)
  <2>1. cnt' = cnt
      BY <1>4 DEF Call, Step, RootLock, RootNew, RootUnlock, Walk, Mark, Return, Insert,
                  SetBit, Check, Grow, Store, Name, Clear
  <2> SUFFICES ASSUME NEW k \in 0 .. (cnt - 1)
               PROVE  \/ \E p \in DOMAIN table' : table'[p].idx = k
                      \/ \E u \in Threads : th'[u].pc = "grow" /\ th'[u].idx = k
      BY <2>1 DEF IdsUsed
  <2>2. CASE \E p \in DOMAIN table : table[p].idx = k
      BY <1>2, <2>2 DEF TableKept
  <2>3. ASSUME NEW u \in Threads, th[u].pc = "grow", th[u].idx = k
        PROVE  \/ \E p \in DOMAIN table' : table'[p].idx = k
               \/ \E w \in Threads : th'[w].pc = "grow" /\ th'[w].idx = k
    <3>1. CASE u # t
        BY <1>1, <2>3, <3>1
    <3>2. CASE u = t
      <4>1. Grow(t)
          BY <1>4, <2>3, <3>2 DEF Call, Step, RootLock, RootNew, RootUnlock, Walk, Mark, Return, Insert,
                                  SetBit, Check, Store, Name, Clear
      <4>2. PICK n \in Nat : n = Len(table)
          BY <4>1, GrowEffect
      <4>3. DOMAIN table' = 1 .. (n + 1) /\ table'[n + 1].idx = k
          BY <2>3, <3>2, <4>1, <4>2, GrowEffect
      <4>4. n + 1 \in DOMAIN table'
          BY <4>3
      <4> QED BY <4>3, <4>4
    <3> QED BY <3>1, <3>2
  <2> QED BY <2>2, <2>3 DEF IdsUsed
<1> QED BY <1>3, <1>4

LEMMA SortInvInit ==
    ASSUME Init
    PROVE  SortInv
<1>1. IInv
    BY InitEstablishes
<1>2. nodes = <<>> /\ table = <<>> /\ root = Null /\ cnt = 0 /\ \A t \in Threads : th[t] = Idle
    BY DEF Init
<1>3. DOMAIN nodes = {} /\ DOMAIN table = {}
    BY <1>2
<1>4. OneParent /\ Held
    BY <1>3 DEF OneParent, Held
<1>5. /\ \A t \in Threads : th[t].pc = "idle"
      /\ Fresh /\ \A t \in Threads : OnPath(t) /\ Chosen(t)
    BY <1>2 DEF Idle, Fresh, OnPath, Chosen, Inside
<1>6. \A id \in Ids : VertexOf(id) = Null
    BY <1>1, <1>3, ReachedType
<1>7. NamesRight /\ IdsUsed
    BY <1>2, <1>3, <1>6 DEF NamesRight, IdsUsed
<1> QED BY <1>1, <1>4, <1>5, <1>7 DEF SortInv

LEMMA SortInvStutter ==
    ASSUME SortInv, UNCHANGED vars
    PROVE  SortInv'
<1>1. IInv' /\ nodes' = nodes /\ root' = root /\ table' = table /\ th' = th /\ cnt' = cnt
    BY StutterPreserves DEF SortInv, vars
<1>2. \A id \in Ids : Reached(id)' = Reached(id) /\ VertexOf(id)' = VertexOf(id)
    BY <1>1, SameTree
<1>3. OneParent' /\ Held' /\ Fresh'
    BY <1>1 DEF SortInv, OneParent, Held, Fresh, NodeHeld, VertexHeld, Storing, Leaf
<1>4. \A t \in Threads : OnPath(t)' /\ Chosen(t)'
    BY <1>1, <1>2 DEF SortInv, OnPath, Chosen
<1>5. NamesRight' /\ IdsUsed'
    BY <1>1, <1>2 DEF SortInv, NamesRight, IdsUsed
<1> QED BY <1>1, <1>3, <1>4, <1>5 DEF SortInv

LEMMA SortInvNext ==
    ASSUME SortInv, [Next]_vars
    PROVE  SortInv'
<1>1. CASE UNCHANGED vars
    BY <1>1, SortInvStutter
<1>2. CASE Done
    BY <1>2, SortInvStutter DEF Done
<1>3. ASSUME NEW t \in Threads, Call(t) \/ Step(t)
      PROVE  SortInv'
  <2>1. IInv' /\ PointersStay
      BY NextPreserves DEF SortInv
  <2>2. OneParent' /\ Held' /\ Fresh'
      BY <1>3, OneParentKept, HeldKept, FreshKept DEF SortInv
  <2>3. \A u \in Threads : OnPath(u)' /\ Chosen(u)'
      BY <1>3, <2>1, ThreadsKept DEF SortInv
  <2>4. NamesRight' /\ IdsUsed'
      BY <1>3, <2>1, NamesKept, IdsKept DEF SortInv
  <2> QED BY <2>1, <2>2, <2>3, <2>4 DEF SortInv
<1> QED BY <1>1, <1>2, <1>3 DEF Next

-----------------------------------------------------------------------------
(* The theorems about the shape of the tree. *)

\* The tree has the shape and the vertices the names of SortInv in every reachable state.
THEOREM ShapeInductive == Spec => []SortInv
<1>1. Init => SortInv
    BY SortInvInit
<1>2. SortInv /\ [Next]_vars => SortInv'
    BY SortInvNext
<1> QED BY <1>1, <1>2, PTL DEF Spec

\* The slots that hold a node, or a vertex, are one slot at most.
LEMMA OneSlot ==
    ASSUME IInv, OneParent, NEW p, p # Null, NEW leaf \in BOOLEAN,
           NEW n \in DOMAIN nodes, NEW s \in Slots(nodes[n].level),
           Leaf(n) <=> leaf, nodes[n].child[s] = p
    PROVE  Cardinality(Parents(p, leaf)) = 1
<1>1. \A m \in DOMAIN nodes : DOMAIN nodes[m].child = Slots(nodes[m].level)
    BY NodesType DEF IInv
<1>2. <<n, s>> \in Parents(p, leaf)
  <2>1. <<n, s>> \in {n} \X DOMAIN nodes[n].child
      BY <1>1
  <2> QED BY <2>1 DEF Parents, Leaf
<1>3. ASSUME NEW b \in Parents(p, leaf)
      PROVE  b = <<n, s>>
  <2>1. PICK m \in DOMAIN nodes : b \in {m} \X DOMAIN nodes[m].child
      BY DEF Parents
  <2>2. PICK x \in Slots(nodes[m].level) : b = <<m, x>>
      BY <1>1, <2>1
  <2>3. (Leaf(m) <=> leaf) /\ nodes[m].child[x] = p
      BY <2>2 DEF Parents, Leaf
  <2>4. nodes[m].child[x] # Null /\ nodes[m].child[x] = nodes[n].child[s] /\ (Leaf(m) <=> Leaf(n))
      BY <2>3
  <2>5. m = n /\ x = s
      BY ONLY OneParent, <2>4, OneParentAt
  <2> QED BY <2>2, <2>5
<1>4. Parents(p, leaf) = {<<n, s>>}
    BY <1>2, <1>3
<1> QED BY <1>4, FS_Singleton

LEMMA ShapeNothingLost ==
    ASSUME SortInv
    PROVE  NothingLost
<1>1. IInv /\ OneParent /\ Held /\ Null \notin DOMAIN nodes /\ Null \notin DOMAIN table
    BY NullNowhere DEF SortInv
<1>2. ASSUME NEW c \in DOMAIN nodes, c # root
      PROVE  Cardinality(Parents(c, FALSE)) = 1
  <2>1. PICK n \in DOMAIN nodes : ~Leaf(n) /\ \E s \in Slots(nodes[n].level) : nodes[n].child[s] = c
      BY <1>1, <1>2 DEF Held, NodeHeld
  <2>2. PICK s \in Slots(nodes[n].level) : nodes[n].child[s] = c
      BY <2>1
  <2> QED BY <1>1, <2>1, <2>2, OneSlot
<1>3. ASSUME NEW p \in DOMAIN table, VertexHeld(p)
      PROVE  Cardinality(Parents(p, TRUE)) = 1
  <2>1. PICK n \in DOMAIN nodes : Leaf(n) /\ \E s \in Slots(nodes[n].level) : nodes[n].child[s] = p
      BY <1>3 DEF VertexHeld
  <2>2. PICK s \in Slots(nodes[n].level) : nodes[n].child[s] = p
      BY <2>1
  <2> QED BY <1>1, <2>1, <2>2, OneSlot
<1>4. ASSUME NEW p \in DOMAIN table, ~VertexHeld(p)
      PROVE  /\ Parents(p, TRUE) = {}
             /\ \E t \in Threads : th[t].pc = "store" /\ th[t].vertex = p
  <2>1. \A m \in DOMAIN nodes : DOMAIN nodes[m].child = Slots(nodes[m].level)
      BY <1>1, NodesType DEF IInv
  <2>2. ASSUME NEW b \in Parents(p, TRUE)
        PROVE  FALSE
    <3>1. PICK m \in DOMAIN nodes : b \in {m} \X DOMAIN nodes[m].child
        BY DEF Parents
    <3>2. PICK x \in Slots(nodes[m].level) : b = <<m, x>>
        BY <2>1, <3>1
    <3> QED BY <1>4, <3>2 DEF Parents, VertexHeld, Leaf
  <2> QED BY <1>1, <1>4, <2>2 DEF Held, Storing
<1> QED BY <1>2, <1>3, <1>4 DEF NothingLost

\* Every node but the root has one parent, every vertex one leaf slot or a thread that is
\* about to store it: no interleaving loses or shares what was allocated (sort.cpp:145,
\* 164).
THEOREM TreeIsSound == Spec => []TreeSound
<1>1. SortInv => TreeSound
    BY ShapeNothingLost DEF SortInv, TreeSound
<1> QED BY <1>1, ShapeInductive, PTL

\* The vertices and the drawn internal IDs correspond when no thread is between the two.
LEMMA ShapeQuietTable ==
    ASSUME SortInv
    PROVE  QuietTable
<1> SUFFICES ASSUME AllIdle
             PROVE  /\ cnt = Len(table)
                    /\ {table[p].idx : p \in DOMAIN table} = 0 .. (cnt - 1)
                    /\ \A id \in Ids : VertexOf(id) # Null => table[VertexOf(id)].node = id
    BY DEF QuietTable
<1>1. /\ table \in Seq(Vertex) /\ cnt \in Nat /\ IdxUnique /\ IdsUsed /\ NamesRight
      /\ \A t \in Threads : th[t].pc = "idle"
    BY DEF SortInv, IInv, TypeOK, AllIdle
<1>2. Len(table) \in Nat /\ DOMAIN table = 1 .. Len(table) /\ \A p \in DOMAIN table : table[p] \in Vertex
    BY <1>1, LenProperties, ElementOfSeq
<1>3. \A p \in DOMAIN table : table[p].idx \in 0 .. (cnt - 1)
    BY <1>1, <1>2 DEF IdxUnique, Vertex
<1>4. \A k \in 0 .. (cnt - 1) : \E p \in DOMAIN table : table[p].idx = k
    BY <1>1 DEF IdsUsed
<1>5. {table[p].idx : p \in DOMAIN table} = 0 .. (cnt - 1)
    BY <1>3, <1>4
<1>6. cnt = Len(table)
  <2>1. PICK n \in Nat : n = Len(table)
      BY <1>2
  <2>2. PICK f : f = [p \in 1 .. n |-> table[p].idx]
      OBVIOUS
  <2>3. f \in [1 .. n -> 0 .. (cnt - 1)]
      BY <1>2, <1>3, <2>1, <2>2
  <2>4. \A p, q \in 1 .. n : f[p] = f[q] => p = q
      BY <1>1, <1>2, <2>1, <2>2 DEF IdxUnique
  <2>5. \A k \in 0 .. (cnt - 1) : \E p \in 1 .. n : f[p] = k
      BY <1>2, <1>4, <2>1, <2>2
  <2>6. ExistsBijection(1 .. n, 0 .. (cnt - 1))
    <3>1. f \in Injection(1 .. n, 0 .. (cnt - 1))
        BY <2>3, <2>4 DEF Injection, IsInjective
    <3>2. f \in Surjection(1 .. n, 0 .. (cnt - 1))
        BY <2>3, <2>5 DEF Surjection
    <3> QED BY <3>1, <3>2 DEF ExistsBijection, Bijection
  <2>7. Cardinality(0 .. (cnt - 1)) = n
      BY <2>6, FS_CountingElements
  <2>8. Cardinality(0 .. (cnt - 1)) = cnt
    <3>1. 0 \in Int /\ cnt - 1 \in Int
        BY <1>1
    <3>2. Cardinality(0 .. (cnt - 1)) = IF 0 > cnt - 1 THEN 0 ELSE (cnt - 1) - 0 + 1
        BY <3>1, FS_Interval
    <3> QED BY <1>1, <3>2
  <2> QED BY <2>1, <2>7, <2>8
<1>7. \A id \in Ids : VertexOf(id) # Null => table[VertexOf(id)].node = id
    BY <1>1 DEF NamesRight
<1> QED BY <1>5, <1>6, <1>7

\* When no call is in progress, cnt is the size of vertex_table, the internal IDs below it
\* are those of its entries, and each vertex has the ID it is found under.
THEOREM QuietTableIsExact == Spec => []QuietTable
<1>1. SortInv => QuietTable
    BY ShapeQuietTable
<1> QED BY <1>1, ShapeInductive, PTL

\* A vertex keeps its internal ID, and its external ID once it has one.
LEMMA NamesStayAt ==
    ASSUME SortInv, NEW t \in Threads, Call(t) \/ Step(t)
    PROVE  NamesStay
<1>1. IInv /\ OneParent /\ NamesRight /\ Chosen(t)
    BY DEF SortInv
<1>2. TableKept
    BY <1>1, TableEffect, MarkEffect, NameEffect, GrowEffect DEF TableKept
<1>3. ASSUME NEW p \in DOMAIN table, table[p].node # NoId
      PROVE  table'[p].node = table[p].node
  <2>1. CASE Name(t) /\ p = th[t].vertex
    <3>1. th[t].id \in Ids /\ p = VertexOf(th[t].id)
        BY <1>1, <2>1 DEF Name, IInv, Placed, Chosen
    <3>2. table[p].node \in Ids
      <4>1. table[p] \in Vertex
          BY <1>1, ElementOfSeq, LenProperties DEF IInv, TypeOK
      <4> QED BY <1>3, <4>1 DEF Vertex
    <3>3. VertexOf(table[p].node) = p
        BY <1>1, <1>3, <3>2 DEF NamesRight
    <3>4. table[p].node = th[t].id
        BY <1>1, <3>1, <3>2, <3>3, NullNowhere, VertexOwner
    <3> QED BY <1>1, <2>1, <3>4, NameEffect
  <2>2. CASE ~(Name(t) /\ p = th[t].vertex)
      BY <1>1, <2>2, TableEffect, MarkEffect, NameEffect, GrowEffect
  <2> QED BY <2>1, <2>2
<1> QED BY <1>2, <1>3 DEF NamesStay, TableKept

\* What a lookup without a lock has read stays true: a pointer that is not null, the root,
\* and the IDs of a vertex never change (sort.cpp:192-226).
THEOREM ReadsStayTrue == Spec => WriteOnce
<1>1. SortInv /\ [Next]_vars => [PointersStay /\ NamesStay]_vars
  <2> SUFFICES ASSUME SortInv, [Next]_vars, vars' # vars
               PROVE  PointersStay /\ NamesStay
      OBVIOUS
  <2>1. PICK t \in Threads : Call(t) \/ Step(t)
      BY DEF Next, Done
  <2> QED BY <2>1, NextPreserves, NamesStayAt DEF SortInv
<1> QED BY <1>1, ShapeInductive, PTL DEF Spec, WriteOnce

-----------------------------------------------------------------------------
(* SORT implements VertexMap. *)

Found == [id \in Ids |-> VertexOf(id)]
Marked == {p \in DOMAIN table : table[p].del}

\* Below a null pointer there is no vertex.
LEMMA NullBelow ==
    ASSUME NEW id \in Ids, NEW k \in 0 .. Depth, Reached(id)[k] = Null
    PROVE  VertexOf(id) = Null
<1> DEFINE S == {i \in 0 .. Depth : i >= k => Reached(id)[i] = Null}
<1>1. Depth \in Nat /\ Levels = 0 .. (Depth - 1)
    BY LevelFacts DEF Levels
<1>2. 0 \in S
    BY <1>1
<1>3. ASSUME NEW i \in Levels, i \in S
      PROVE  i + 1 \in S
  <2>1. i + 1 >= k => i + 1 = k \/ i >= k
      BY <1>1
  <2>2. i >= k => Reached(id)[i + 1] = Null
      BY <1>3, ReachedFacts DEF ReachedByLevel, Below
  <2> QED BY <1>1, <2>1, <2>2
<1> HIDE DEF S
<1>4. Depth \in S
    BY <1>1, <1>2, <1>3, LevelInduction
<1> QED BY <1>1, <1>4 DEF S, VertexOf

\* A vertex that is found hangs in the tree.
LEMMA FoundHeld ==
    ASSUME IInv, NEW id \in Ids, VertexOf(id) # Null
    PROVE  VertexHeld(VertexOf(id))
<1>1. PICK n, s : n = Reached(id)[Depth - 1] /\ s = Slot(id, Depth - 1)
    OBVIOUS
<1>2. /\ n # Null /\ n \in DOMAIN nodes /\ Leaf(n) /\ s \in Slots(nodes[n].level)
      /\ nodes[n].child[s] = VertexOf(id)
    BY <1>1, LeafOf DEF Below
<1> QED BY <1>2 DEF VertexHeld

\* A thread that stays in its call keeps what it was asked.
LEMMA CallKept ==
    ASSUME IInv, NEW t \in Threads, Step(t), ~Return(t)
    PROVE  /\ \A u \in Threads : u # t => th'[u] = th[u]
           /\ th[t].pc # "idle" /\ th'[t].pc # "idle" /\ th'[t].op = th[t].op /\ th'[t].id = th[t].id
           /\ ~Walk(t) /\ ~Insert(t) /\ ~Clear(t) => th'[t].level = th[t].level
           /\ ~Walk(t) /\ ~Insert(t) /\ ~Check(t) /\ ~Grow(t) /\ ~Clear(t) => th'[t].vertex = th[t].vertex
<1>1. th \in [Threads -> Locals] /\ th[t] \in Locals
    BY DEF IInv, TypeOK
<1>2. \A u \in Threads : u # t => th'[u] = th[u]
    BY OthersStill
<1>3. CASE RootLock(t) \/ RootNew(t) \/ RootUnlock(t) \/ Walk(t) \/ Mark(t)
    BY <1>1, <1>2, <1>3 DEF RootLock, RootNew, RootUnlock, Walk, Mark, Goto, Give, Descend, Locals
<1>4. CASE Insert(t) \/ SetBit(t) \/ Check(t) \/ Count(t)
    BY <1>1, <1>2, <1>4 DEF Insert, SetBit, Check, Count, Goto, Give, Descend, Locals
<1>5. CASE Grow(t) \/ Store(t) \/ Name(t) \/ Clear(t)
    BY <1>1, <1>2, <1>5 DEF Grow, Store, Name, Clear, Goto, Give, Descend, Locals
<1> QED BY <1>3, <1>4, <1>5 DEF Step

\* Only Store changes what is found, and only Mark what is marked.
LEMMA FoundKept ==
    ASSUME IInv, IInv', NEW t \in Threads, Call(t) \/ Step(t), ~Store(t)
    PROVE  Found' = Found
BY MapKept DEF MapStays, Found

LEMMA MarkedKept ==
    ASSUME IInv, NEW t \in Threads, Call(t) \/ Step(t), ~Mark(t)
    PROVE  Marked' = Marked
<1>1. CASE Name(t)
    BY <1>1, NameEffect DEF Marked
<1>2. CASE Grow(t)
  <2>1. PICK n \in Nat : n = Len(table)
      BY <1>2, GrowEffect
  <2>2. /\ DOMAIN table = 1 .. n /\ DOMAIN table' = 1 .. (n + 1) /\ table'[n + 1].del = FALSE
        /\ \A p \in DOMAIN table : table'[p] = table[p]
      BY <1>2, <2>1, GrowEffect
  <2>3. \A p \in DOMAIN table' : p \notin DOMAIN table => p = n + 1
      BY <2>2
  <2>4. DOMAIN table \subseteq DOMAIN table'
      BY <2>2
  <2> QED BY <2>2, <2>3, <2>4 DEF Marked
<1>3. CASE table' = table
    BY <1>3 DEF Marked
<1> QED BY <1>1, <1>2, <1>3, TableEffect

\* What VertexMap sees of a thread.
Requested(t) == IF th[t].pc = "idle" THEN {} ELSE {[op |-> th[t].op, id |-> th[t].id]}
Answered(t) == IF Settled(t) THEN {th[t].vertex} ELSE {}

\* The threads that do not take the step have the same requests and answers.
LEMMA OthersSame ==
    ASSUME NEW u \in Threads, th'[u] = th[u]
    PROVE  Requested(u)' = Requested(u) /\ Answered(u)' = Answered(u)
BY DEF Requested, Answered, Settled, AtLeaf

\* A step that decides nothing.
LEMMA NoStepOfMap ==
    ASSUME NEW t \in Threads, \A u \in Threads : u # t => th'[u] = th[u],
           Found' = Found, Marked' = Marked,
           Requested(t)' = Requested(t), Answered(t)' = Answered(t)
    PROVE  UNCHANGED Abstract!ivars
<1>1. \A u \in Threads : Requested(u)' = Requested(u) /\ Answered(u)' = Answered(u)
    BY OthersSame
<1> QED BY <1>1 DEF Abstract!ivars, Found, Marked, Requested, Answered

\* A step that decides a call, and does not change the map.
LEMMA LookOfMap ==
    ASSUME NEW t \in Threads, \A u \in Threads : u # t => th'[u] = th[u],
           Found' = Found, th[t].id \in Ids,
           th[t].pc # "idle", th'[t].pc # "idle", th'[t].op = th[t].op, th'[t].id = th[t].id,
           ~Settled(t), Settled(t)', th'[t].vertex = VertexOf(th[t].id),
           th[t].op = "insert" => VertexOf(th[t].id) # Null,
           Marked' = IF th[t].op = "delete" /\ VertexOf(th[t].id) # Null
                     THEN Marked \cup {VertexOf(th[t].id)} ELSE Marked
    PROVE  Abstract!Look(t)
<1> DEFINE q == [op |-> th[t].op, id |-> th[t].id]
           Requests == [u \in Threads |-> Requested(u)]
           Answers == [u \in Threads |-> Answered(u)]
<1>1. \A u \in Threads : u # t => Requested(u)' = Requested(u) /\ Answered(u)' = Answered(u)
    BY OthersSame
<1>2. Requested(t) = {q} /\ Requested(t)' = {q} /\ Answered(t) = {} /\ Answered(t)' = {VertexOf(th[t].id)}
    BY DEF Requested, Answered
<1>3. q.op = th[t].op /\ q.id = th[t].id /\ Found[q.id] = VertexOf(th[t].id)
    BY DEF Found
<1> HIDE DEF q
<1>4. Requests' = Requests /\ Answers' = [Answers EXCEPT ![t] = {Found[q.id]}]
    BY <1>1, <1>2, <1>3
<1>5. Requests[t] = {q} /\ Answers[t] = {}
    BY <1>2
<1>6. /\ q.op = "insert" => Found[q.id] # Abstract!Absent
      /\ Marked' = IF q.op = "delete" /\ Found[q.id] # Abstract!Absent
                   THEN Marked \cup {Found[q.id]} ELSE Marked
    BY <1>3 DEF Abstract!Absent, Null
<1>7. \E x \in Requests[t] :
         /\ x.op = "insert" => Found[x.id] # Abstract!Absent
         /\ Answers' = [Answers EXCEPT ![t] = {Found[x.id]}]
         /\ Marked' = IF x.op = "delete" /\ Found[x.id] # Abstract!Absent
                      THEN Marked \cup {Found[x.id]} ELSE Marked
    BY <1>4, <1>5, <1>6
<1> QED BY <1>4, <1>5, <1>7 DEF Abstract!Look, Found, Marked, Requested, Answered

\* A step that gives an ID a vertex of its own.
LEMMA EnterOfMap ==
    ASSUME NEW t \in Threads, \A u \in Threads : u # t => th'[u] = th[u],
           th[t].id \in Ids, th[t].op = "insert", VertexOf(th[t].id) = Null,
           th[t].pc # "idle", th'[t].pc # "idle", th'[t].op = th[t].op, th'[t].id = th[t].id,
           ~Settled(t), Settled(t)', th'[t].vertex = th[t].vertex,
           th[t].vertex # Null, \A id \in Ids : VertexOf(id) # th[t].vertex,
           Found' = [Found EXCEPT ![th[t].id] = th[t].vertex], Marked' = Marked
    PROVE  Abstract!Enter(t)
<1> DEFINE q == [op |-> th[t].op, id |-> th[t].id]
           v == th[t].vertex
           Requests == [u \in Threads |-> Requested(u)]
           Answers == [u \in Threads |-> Answered(u)]
<1>1. \A u \in Threads : u # t => Requested(u)' = Requested(u) /\ Answered(u)' = Answered(u)
    BY OthersSame
<1>2. Requested(t) = {q} /\ Requested(t)' = {q} /\ Answered(t) = {} /\ Answered(t)' = {v}
    BY DEF Requested, Answered
<1>3. /\ q.op = "insert" /\ q.id = th[t].id /\ q.id \in Ids /\ Found[q.id] = Abstract!Absent
      /\ v \notin {Found[id] : id \in Ids} \cup {Abstract!Absent}
    BY DEF Found, Abstract!Absent, Null
<1> HIDE DEF q, v
<1>4. Found' = [Found EXCEPT ![q.id] = v] /\ Found'[q.id] = v
    BY <1>3 DEF Found, v
<1>5. Requests' = Requests /\ Answers' = [Answers EXCEPT ![t] = {v}]
    BY <1>1, <1>2
<1>6. Requests[t] = {q} /\ Answers[t] = {}
    BY <1>2
<1>7. \E x \in Requests[t] :
         /\ x.op = "insert" /\ Found[x.id] = Abstract!Absent
         /\ Found'[x.id] \notin {Found[id] : id \in Ids} \cup {Abstract!Absent}
         /\ Found' = [Found EXCEPT ![x.id] = Found'[x.id]]
         /\ Answers' = [Answers EXCEPT ![t] = {Found'[x.id]}]
    BY <1>3, <1>4, <1>5, <1>6
<1> QED BY <1>5, <1>6, <1>7 DEF Abstract!Enter, Found, Marked, Requested, Answered

\* A step that decides nothing leaves what is asked and answered as it is.
LEMMA DecidesNothing ==
    ASSUME IInv, NEW t \in Threads, Step(t), ~Return(t),
           Found' = Found, Marked' = Marked, ~Settled(t), ~Settled(t)'
    PROVE  UNCHANGED Abstract!ivars
<1>1. /\ \A u \in Threads : u # t => th'[u] = th[u]
      /\ th[t].pc # "idle" /\ th'[t].pc # "idle" /\ th'[t].op = th[t].op /\ th'[t].id = th[t].id
    BY CallKept
<1> QED BY <1>1, NoStepOfMap DEF Requested, Answered

\* A call is invoked.
LEMMA CallSimulates ==
    ASSUME IInv, IInv', NEW t \in Threads, Call(t)
    PROVE  Abstract!Invoke(t)
<1>1. /\ th[t].pc = "idle" /\ th'[t].pc \in {"rootlock", "walk"} /\ th'[t].op \in Ops /\ th'[t].id \in Ids
      /\ \A u \in Threads : u # t => th'[u] = th[u]
  <2>1. PICK op \in Ops, id \in Ids :
            th' = [th EXCEPT ![t] = [Idle EXCEPT
                      !.pc = IF root = Null THEN "rootlock" ELSE "walk",
                      !.op = op, !.id = id, !.node = root]]
      BY DEF Call
  <2>2. th \in [Threads -> Locals]
      BY DEF IInv, TypeOK
  <2> QED BY <2>1, <2>2 DEF Call, Idle
<1>2. Found' = Found /\ Marked' = Marked
  <2>1. ~Store(t) /\ ~Mark(t)
      BY <1>1 DEF Mark, Store
  <2> QED BY <2>1, FoundKept, MarkedKept
<1> DEFINE Requests == [u \in Threads |-> Requested(u)]
           q == [op |-> th'[t].op, id |-> th'[t].id]
<1>3. \A u \in Threads : u # t => Requested(u)' = Requested(u) /\ Answered(u)' = Answered(u)
    BY <1>1, OthersSame
<1>4. Requested(t) = {} /\ Requested(t)' = {q} /\ Answered(t) = {} /\ Answered(t)' = {}
    BY <1>1 DEF Requested, Answered, Settled
<1>5. Requests[t] = {} /\ Requests' = [Requests EXCEPT ![t] = {q}]
    BY <1>3, <1>4
<1>6. [u \in Threads |-> Answered(u)]' = [u \in Threads |-> Answered(u)]
    BY <1>3, <1>4
<1>7. \E op \in Abstract!Ops, id \in Ids : Requests' = [Requests EXCEPT ![t] = {[op |-> op, id |-> id]}]
    BY <1>1, <1>5 DEF Ops, Abstract!Ops
<1> QED BY <1>2, <1>5, <1>6, <1>7 DEF Abstract!Invoke, Found, Marked, Requested, Answered

\* The answer is given.
LEMMA ReturnSimulates ==
    ASSUME IInv, IInv', NEW t \in Threads, Return(t)
    PROVE  Abstract!Return(t)
<1>1. /\ th[t].pc = "return" /\ th'[t].pc = "idle"
      /\ \A u \in Threads : u # t => th'[u] = th[u]
    BY DEF Return, Idle, IInv, TypeOK
<1>2. Found' = Found /\ Marked' = Marked
  <2>1. ~Store(t) /\ ~Mark(t)
      BY <1>1 DEF Mark, Store
  <2> QED BY <2>1, FoundKept, MarkedKept DEF Step
<1> DEFINE Requests == [u \in Threads |-> Requested(u)]
           Answers == [u \in Threads |-> Answered(u)]
<1>3. \A u \in Threads : u # t => Requested(u)' = Requested(u) /\ Answered(u)' = Answered(u)
    BY <1>1, OthersSame
<1>4. Requested(t)' = {} /\ Answered(t) # {} /\ Answered(t)' = {}
    BY <1>1 DEF Requested, Answered, Settled
<1>5. /\ Answers[t] # {} /\ Requests' = [Requests EXCEPT ![t] = {}]
      /\ Answers' = [Answers EXCEPT ![t] = {}]
    BY <1>3, <1>4
<1> QED BY <1>2, <1>5 DEF Abstract!Return, Found, Marked, Requested, Answered

\* A look that finds the vertex, or a null pointer when none is to be made, decides the call.
LEMMA LookSimulates ==
    ASSUME IInv, IInv', NEW t \in Threads, OnPath(t), Chosen(t), Walk(t) \/ Insert(t) \/ Check(t)
    PROVE  Abstract!Look(t) \/ UNCHANGED Abstract!ivars
<1>1. /\ th \in [Threads -> Locals] /\ th[t] \in Locals /\ TypeOK /\ Placed(t)
      /\ th[t].pc \in InTree /\ Child(t) \in Nat
    BY AtSlot DEF IInv, TypeOK, Walk, Insert, Check, InTree, Inside
<1>2. Step(t) /\ ~Return(t) /\ ~Mark(t) /\ ~Store(t)
    BY DEF Step, Walk, Insert, Check, Return, Mark, Store
<1>3. /\ \A u \in Threads : u # t => th'[u] = th[u]
      /\ th[t].pc # "idle" /\ th'[t].pc # "idle" /\ th'[t].op = th[t].op /\ th'[t].id = th[t].id
    BY <1>2, CallKept
<1>4. ~Settled(t) /\ Found' = Found /\ Marked' = Marked
    BY <1>2, FoundKept, MarkedKept DEF Walk, Insert, Check, Settled
<1>5. PICK id \in Ids : id = th[t].id
    BY <1>1, ChildReached
<1>6. /\ Child(t) = Null => VertexOf(id) = Null
      /\ AtLeaf(t) => Child(t) = VertexOf(id)
  <2>1. Child(t) = Reached(id)[th[t].level + 1] /\ th[t].level + 1 \in 0 .. Depth
      BY <1>1, <1>5, ChildReached, LevelFacts DEF Levels
  <2> QED BY <1>1, <1>5, <2>1, NullBelow, ChildReached
<1>7. Null \in Nat
    BY DEF Null
<1>8. CASE Walk(t)
  <2>1. CASE Goto(t, "insert") \/ (Child(t) # Null /\ ~AtLeaf(t) /\ Descend(t, "walk"))
    <3>1. th'[t].pc \in {"insert", "walk"}
        BY <1>1, <2>1 DEF Goto, Descend, Locals
    <3> QED BY <1>2, <1>4, <3>1, DecidesNothing DEF Settled
  <2>2. CASE Child(t) = Null /\ th[t].op # "insert" /\ Give(t, "return", Null)
    <3>1. th'[t].pc = "return" /\ th'[t].vertex = Null
        BY <1>1, <1>7, <2>2, GiveFields DEF Pcs
    <3>2. VertexOf(th[t].id) = Null /\ th[t].id \in Ids
        BY <1>5, <1>6, <2>2
    <3> QED BY <1>3, <1>4, <2>2, <3>1, <3>2, LookOfMap DEF Settled
  <2>3. CASE /\ Child(t) # Null /\ AtLeaf(t)
             /\ Give(t, IF th[t].op = "delete" THEN "mark" ELSE "return", Child(t))
    <3>1. VertexOf(th[t].id) = Child(t) /\ th[t].id \in Ids
        BY <1>5, <1>6, <2>3
    <3>2. CASE th[t].op = "delete"
      <4>1. th'[t].pc = "mark"
          BY <1>1, <2>3, <3>2, GiveFields DEF Pcs
      <4> QED BY <1>2, <1>4, <4>1, DecidesNothing DEF Settled
    <3>3. CASE th[t].op # "delete"
      <4>1. th'[t].pc = "return" /\ th'[t].vertex = Child(t)
          BY <1>1, <2>3, <3>3, GiveFields DEF Pcs
      <4> QED BY <1>3, <1>4, <2>3, <3>1, <3>3, <4>1, LookOfMap DEF Settled
    <3> QED BY <3>2, <3>3
  <2> QED BY <1>8, <2>1, <2>2, <2>3 DEF Walk
<1>9. CASE Insert(t)
  <2>1. CASE Goto(t, "bit") \/ (Child(t) # Null /\ ~AtLeaf(t) /\ Descend(t, "insert"))
    <3>1. th'[t].pc \in {"insert", "bit"}
        BY <1>1, <2>1 DEF Goto, Descend, Locals
    <3> QED BY <1>2, <1>4, <3>1, DecidesNothing DEF Settled
  <2>2. CASE Child(t) # Null /\ AtLeaf(t) /\ Give(t, "return", Child(t))
    <3>1. VertexOf(th[t].id) = Child(t) /\ th[t].id \in Ids /\ th[t].op = "insert"
        BY <1>5, <1>6, <1>9, <2>2 DEF Chosen, Insert
    <3>2. th'[t].pc = "return" /\ th'[t].vertex = Child(t)
        BY <1>1, <2>2, GiveFields DEF Pcs
    <3> QED BY <1>3, <1>4, <2>2, <3>1, <3>2, LookOfMap DEF Settled
  <2> QED BY <1>9, <2>1, <2>2 DEF Insert
<1>10. CASE Check(t)
  <2>1. CASE ~AtLeaf(t) /\ Goto(t, "clear")
    <3>1. th'[t].pc = "clear" /\ th'[t].level = th[t].level
        BY <1>1, <2>1, GotoFields DEF Pcs, Inside
    <3> QED BY <1>2, <1>4, <2>1, <3>1, DecidesNothing DEF Settled, AtLeaf
  <2>2. CASE Goto(t, "count")
    <3>1. th'[t].pc = "count"
        BY <1>1, <2>2, GotoFields DEF Pcs, Inside
    <3> QED BY <1>2, <1>4, <3>1, DecidesNothing DEF Settled
  <2>3. CASE AtLeaf(t) /\ ~Missing(t) /\ Give(t, "name", Child(t))
    <3>1. VertexOf(th[t].id) = Child(t) /\ Child(t) # Null /\ th[t].id \in Ids /\ th[t].op = "insert"
        BY <1>5, <1>6, <1>10, <2>3 DEF Chosen, Check, Missing, Inside
    <3>2. th'[t].pc = "name" /\ th'[t].vertex = Child(t)
        BY <1>1, <2>3, GiveFields DEF Pcs, Inside
    <3> QED BY <1>3, <1>4, <3>1, <3>2, LookOfMap DEF Settled
  <2> QED BY <1>10, <2>1, <2>2, <2>3 DEF Check
<1> QED BY <1>8, <1>9, <1>10

\* A deletion is decided when it marks the vertex it has found.
LEMMA MarkSimulates ==
    ASSUME IInv, IInv', NEW t \in Threads, Chosen(t), Mark(t)
    PROVE  Abstract!Look(t)
<1>1. Step(t) /\ ~Return(t) /\ ~Store(t) /\ th[t].pc = "mark"
    BY DEF Step, Return, Mark, Store
<1>2. /\ \A u \in Threads : u # t => th'[u] = th[u]
      /\ th[t].pc # "idle" /\ th'[t].pc # "idle" /\ th'[t].op = th[t].op /\ th'[t].id = th[t].id
    BY <1>1, CallKept
<1>3. th'[t].pc = "return" /\ th'[t].vertex = th[t].vertex
    BY GotoFields DEF IInv, Mark, Pcs
<1>4. /\ th[t].op = "delete" /\ th[t].id \in Ids /\ th[t].vertex \in DOMAIN table
      /\ th[t].vertex = VertexOf(th[t].id)
    BY <1>1 DEF Chosen, IInv, Placed
<1>5. VertexOf(th[t].id) # Null
    BY <1>4, NullNowhere
<1>6. Marked' = Marked \cup {VertexOf(th[t].id)}
  <2>1. PICK v \in DOMAIN table : v = VertexOf(th[t].id) /\ v = th[t].vertex
      BY <1>4
  <2>2. /\ DOMAIN table' = DOMAIN table
        /\ \A p \in DOMAIN table : table'[p].del = IF p = v THEN TRUE ELSE table[p].del
      BY <2>1, MarkEffect
  <2> QED BY <2>1, <2>2 DEF Marked
<1>7. Found' = Found
    BY <1>1, FoundKept
<1> QED BY <1>1, <1>2, <1>3, <1>4, <1>5, <1>6, <1>7, LookOfMap DEF Settled

\* The store of a vertex enters the ID.
LEMMA StoreSimulates ==
    ASSUME IInv, OneParent, Fresh, NEW t \in Threads, OnPath(t), Chosen(t), Store(t)
    PROVE  Abstract!Enter(t)
<1>1. Step(t) /\ ~Return(t) /\ ~Mark(t) /\ th[t].pc = "store"
    BY DEF Step, Return, Mark, Store
<1>2. /\ \A u \in Threads : u # t => th'[u] = th[u]
      /\ th[t].pc # "idle" /\ th'[t].pc # "idle" /\ th'[t].op = th[t].op /\ th'[t].id = th[t].id
    BY <1>1, CallKept
<1>3. th'[t].pc = "name" /\ th'[t].vertex = th[t].vertex
    BY GotoFields DEF IInv, Store, Pcs, Inside
<1>4. th[t].op = "insert" /\ th[t].vertex \in DOMAIN table /\ th[t].vertex # Null
    BY <1>1, NullNowhere DEF Chosen, IInv, Placed, Inside
<1>5. /\ th[t].id \in Ids
      /\ \A id \in Ids : id = th[t].id => VertexOf(id) = Null /\ VertexOf(id)' = th[t].vertex
      /\ \A id \in Ids : id # th[t].id => VertexOf(id)' = VertexOf(id)
    BY StoreMaps
<1>6. VertexOf(th[t].id) = Null
    BY <1>5
<1>7. \A id \in Ids : VertexOf(id) # th[t].vertex
    BY <1>1, <1>4, FoundHeld DEF Fresh
<1>8. Found' = [Found EXCEPT ![th[t].id] = th[t].vertex]
  <2>1. PICK i \in Ids : i = th[t].id
      BY <1>5
  <2>v. PICK v : v = th[t].vertex
      OBVIOUS
  <2>2. VertexOf(i)' = v /\ \A id \in Ids : id # i => VertexOf(id)' = VertexOf(id)
      BY <1>5, <2>1, <2>v
  <2> QED BY <2>1, <2>v, <2>2 DEF Found
<1>9. Marked' = Marked
    BY <1>1, MarkedKept
<1> QED BY <1>1, <1>2, <1>3, <1>4, <1>5, <1>6, <1>7, <1>8, <1>9, EnterOfMap DEF Settled

\* The steps that decide nothing.
LEMMA RestSimulates ==
    ASSUME IInv, IInv', NEW t \in Threads,
           RootLock(t) \/ RootNew(t) \/ RootUnlock(t) \/ SetBit(t) \/ Count(t) \/ Grow(t) \/ Name(t) \/ Clear(t)
    PROVE  UNCHANGED Abstract!ivars
<1>1. th \in [Threads -> Locals] /\ th[t] \in Locals /\ TypeOK /\ Placed(t)
    BY DEF IInv, TypeOK
<1>2. Step(t) /\ ~Return(t) /\ ~Mark(t) /\ ~Store(t)
    BY DEF Step, RootLock, RootNew, RootUnlock, SetBit, Count, Grow, Name, Clear, Return, Mark, Store
<1>3. Found' = Found /\ Marked' = Marked
    BY <1>2, FoundKept, MarkedKept
<1>4. /\ \A u \in Threads : u # t => th'[u] = th[u]
      /\ th[t].pc # "idle" /\ th'[t].pc # "idle" /\ th'[t].op = th[t].op /\ th'[t].id = th[t].id
    BY <1>2, CallKept
<1>5. CASE RootLock(t) \/ RootNew(t) \/ RootUnlock(t) \/ SetBit(t) \/ Count(t) \/ Grow(t)
  <2>1. /\ th[t].pc \in {"rootlock", "rootnew", "rootunlock", "bit", "count", "grow"}
        /\ th'[t].pc \in {"rootnew", "rootunlock", "walk", "check", "grow", "store"}
      BY <1>1, <1>5 DEF RootLock, RootNew, RootUnlock, SetBit, Count, Grow, Goto, Give, Locals
  <2> QED BY <1>2, <1>3, <2>1, DecidesNothing DEF Settled
<1>6. CASE Name(t)
  <2>1. th[t].pc = "name" /\ AtLeaf(t)
      BY <1>1, <1>6 DEF Name, Placed
  <2>2. th'[t].pc = "clear" /\ th'[t].level = th[t].level /\ th'[t].vertex = th[t].vertex
      BY <1>1, <1>6, GotoFields DEF Name, Pcs, Inside
  <2> QED BY <1>3, <1>4, <2>1, <2>2, NoStepOfMap DEF Requested, Answered, Settled, AtLeaf
<1>7. CASE Clear(t) /\ AtLeaf(t)
  <2>1. th[t].pc = "clear" /\ th'[t].pc = "return" /\ th'[t].vertex = th[t].vertex
      BY <1>1, <1>7, GotoFields DEF Clear, Pcs
  <2> QED BY <1>3, <1>4, <1>7, <2>1, NoStepOfMap DEF Requested, Answered, Settled
<1>8. CASE Clear(t) /\ ~AtLeaf(t)
  <2>1. th[t].pc = "clear" /\ th'[t].pc = "insert"
      BY <1>1, <1>8 DEF Clear, Descend, Locals
  <2> QED BY <1>2, <1>3, <1>8, <2>1, DecidesNothing DEF Settled
<1> QED BY <1>5, <1>6, <1>7, <1>8

\* SORT is an atomic map from vertex IDs to vertices, whatever the threads that look
\* without a lock and those that insert do to each other: whichever look or store decides a
\* RetrieveVertex or a DeleteVertex, it is one instant between the call and the return
\* (sort.cpp:133-226).
THEOREM SortImplementsMap == Spec => ImplementsVertexMap
<1>1. Init => Abstract!Init
  <2> SUFFICES ASSUME Init
               PROVE  Abstract!Init
      OBVIOUS
  <2>1. table = <<>> /\ DOMAIN table = {}
      BY DEF Init
  <2>2. Found = [id \in Ids |-> Abstract!Absent]
    <3>1. SortInv
        BY SortInvInit
    <3>2. \A id \in Ids : VertexOf(id) = Null
        BY <2>1, <3>1, ReachedType DEF SortInv
    <3> QED BY <3>2 DEF Found, Null, Abstract!Absent
  <2>3. Marked = {}
      BY <2>1 DEF Marked
  <2>4. \A t \in Threads : Requested(t) = {} /\ Answered(t) = {}
      BY DEF Init, Idle, Requested, Answered, Settled
  <2> QED BY <2>2, <2>3, <2>4 DEF Abstract!Init, Found, Marked, Requested, Answered
<1>2. ASSUME SortInv, [Next]_vars
      PROVE  [Abstract!Next]_(Abstract!ivars)
  <2>1. IInv /\ IInv' /\ OneParent /\ Fresh /\ \A t \in Threads : OnPath(t) /\ Chosen(t)
      BY <1>2, NextPreserves DEF SortInv
  <2>2. CASE UNCHANGED vars \/ Done
    <3>1. nodes' = nodes /\ root' = root /\ table' = table /\ th' = th
        BY <2>2 DEF Done, vars
    <3>2. Found' = Found /\ Marked' = Marked
        BY <3>1, SameTree DEF Found, Marked
    <3>3. \A t \in Threads : Requested(t)' = Requested(t) /\ Answered(t)' = Answered(t)
        BY <3>1, OthersSame
    <3> QED BY <3>2, <3>3 DEF Abstract!ivars, Found, Marked, Requested, Answered
  <2>3. ASSUME NEW t \in Threads, Call(t)
        PROVE  Abstract!Next
      BY <2>1, <2>3, CallSimulates DEF Abstract!Next
  <2>4. ASSUME NEW t \in Threads, Step(t)
        PROVE  Abstract!Next \/ UNCHANGED Abstract!ivars
    <3>1. CASE Return(t)
        BY <2>1, <3>1, ReturnSimulates DEF Abstract!Next
    <3>2. CASE Walk(t) \/ Insert(t) \/ Check(t)
        BY <2>1, <3>2, LookSimulates DEF Abstract!Next
    <3>3. CASE Mark(t)
        BY <2>1, <3>3, MarkSimulates DEF Abstract!Next
    <3>4. CASE Store(t)
        BY <2>1, <3>4, StoreSimulates DEF Abstract!Next
    <3>5. CASE RootLock(t) \/ RootNew(t) \/ RootUnlock(t) \/ SetBit(t) \/ Count(t) \/ Grow(t) \/ Name(t) \/ Clear(t)
        BY <2>1, <3>5, RestSimulates
    <3> QED BY <2>4, <3>1, <3>2, <3>3, <3>4, <3>5 DEF Step
  <2> QED BY <1>2, <2>2, <2>3, <2>4 DEF Next
<1> QED BY <1>1, <1>2, ShapeInductive, PTL DEF Spec, ImplementsVertexMap, Abstract!Spec
==============================================================================
