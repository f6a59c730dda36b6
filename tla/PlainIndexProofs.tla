-------------------------- MODULE PlainIndexProofs --------------------------
(***************************************************************************)
(* Proofs about PlainIndex for any number of threads, IDs and calls: IInv  *)
(* is inductive, and from it LocksHeld, FoundIsReady, OffsetsExact and     *)
(* NothingLeaked; and each variant implements VertexMap.                   *)
(*                                                                         *)
(* The argument.  The lock of an ID (of the array), or the mutex (of ART   *)
(* with a table), admits one thread to the code from the second look to    *)
(* the unlock, so that what the look found is still so at the key, and at  *)
(* most one drawn internal ID waits for its place in the table.  Without   *)
(* the table nothing is locked: a new vertex is its maker's alone until    *)
(* the tree takes it, and the tree takes one vertex for each ID.           *)
(*                                                                         *)
(* For the implementation, CallPaths adds what a call has found out at     *)
(* each of its program counters, above all that idx of an ID is not set    *)
(* while the thread that has its bit is still to set it.  A vertex that is *)
(* found stays found, so that the look, the mark or the store that decides *)
(* a call is the step of the map.                                          *)
(***************************************************************************)
EXTENDS PlainIndexProperties, SequenceTheorems, TLAPS

-----------------------------------------------------------------------------
(* The state and its types. *)

\* The fields of a thread's state have their types.
LEMMA ThreadFields ==
    ASSUME TypeOK, NEW t \in Threads
    PROVE  /\ th[t] \in Locals
           /\ th[t].pc \in Pcs /\ th[t].op \in Ops /\ th[t].id \in Ids
           /\ th[t].vertex \in Nat /\ th[t].idx \in Nat \cup {NoId} /\ th[t].todo \in SUBSET Fields
<1>1. th[t] \in Locals
    BY DEF TypeOK
<1> QED BY <1>1 DEF Locals

\* Goto changes the program counter of one thread and nothing else.
LEMMA GotoFields ==
    ASSUME TypeOK, NEW t \in Threads, NEW p \in Pcs, Goto(t, p)
    PROVE  /\ th' \in [Threads -> Locals]
           /\ th'[t].pc = p /\ th'[t].id = th[t].id /\ th'[t].vertex = th[t].vertex
           /\ th'[t].idx = th[t].idx /\ th'[t].todo = th[t].todo
           /\ \A u \in Threads : u # t => th'[u] = th[u]
<1>1. th \in [Threads -> Locals] /\ th[t] \in Locals
    BY DEF TypeOK
<1>2. th' = [th EXCEPT ![t] = [th[t] EXCEPT !.pc = p]]
    BY DEF Goto
<1>3. [th[t] EXCEPT !.pc = p] \in Locals
    BY <1>1 DEF Locals
<1>4. th'[t] = [th[t] EXCEPT !.pc = p]
    BY <1>1, <1>2
<1>5. /\ th'[t].pc = p /\ th'[t].id = th[t].id /\ th'[t].vertex = th[t].vertex
      /\ th'[t].idx = th[t].idx /\ th'[t].todo = th[t].todo
    BY <1>1, <1>4 DEF Locals
<1> QED BY <1>1, <1>2, <1>3, <1>5

\* Give changes the program counter of one thread, and its vertex.
LEMMA GiveFields ==
    ASSUME TypeOK, NEW t \in Threads, NEW p \in Pcs, NEW v \in Nat, Give(t, p, v)
    PROVE  /\ th' \in [Threads -> Locals]
           /\ th'[t].pc = p /\ th'[t].id = th[t].id /\ th'[t].vertex = v
           /\ th'[t].idx = th[t].idx /\ th'[t].todo = th[t].todo
           /\ \A u \in Threads : u # t => th'[u] = th[u]
<1>1. th \in [Threads -> Locals] /\ th[t] \in Locals
    BY DEF TypeOK
<1>2. th' = [th EXCEPT ![t] = [th[t] EXCEPT !.pc = p, !.vertex = v]]
    BY DEF Give
<1>3. [th[t] EXCEPT !.pc = p, !.vertex = v] \in Locals
    BY <1>1 DEF Locals
<1>4. th'[t] = [th[t] EXCEPT !.pc = p, !.vertex = v]
    BY <1>1, <1>2
<1>5. /\ th'[t].pc = p /\ th'[t].id = th[t].id /\ th'[t].vertex = v
      /\ th'[t].idx = th[t].idx /\ th'[t].todo = th[t].todo
    BY <1>1, <1>4 DEF Locals
<1> QED BY <1>1, <1>2, <1>3, <1>5

\* A vertex has its fields, and vertices are numbered from 1.
LEMMA VertexFields ==
    ASSUME TypeOK, NEW v \in DOMAIN vertices
    PROVE  /\ vertices[v] \in Vertex /\ v \in Nat /\ v # Absent /\ v \in 1 .. Len(vertices)
           /\ vertices[v].node \in Ids \cup {NoId} /\ vertices[v].idx \in Nat \cup {NoId}
           /\ vertices[v].next \in BOOLEAN /\ vertices[v].del \in BOOLEAN
<1>1. vertices \in Seq(Vertex)
    BY DEF TypeOK
<1>2. v \in 1 .. Len(vertices) /\ vertices[v] \in Vertex
    BY <1>1, ElementOfSeq, LenProperties
<1> QED BY <1>2 DEF Vertex, Absent

\* A look finds a vertex that exists, or none.
LEMMA FindType ==
    ASSUME IInv, NEW id \in Ids
    PROVE  Find(id) \in {Absent} \cup DOMAIN vertices /\ Find(id) \in Nat
<1>1. CASE variant = "array"
  <2>1. id \in Int /\ 0 <= id /\ id <= MaxId /\ MaxId \in Nat
      BY PlainIndexAssumption DEF PlainIndexAssumption, Ids
  <2>2. Len(vertices) = MaxId + 1 /\ vertices \in Seq(Vertex)
      BY <1>1 DEF IInv, NextBeforeIdx, TypeOK
  <2>3. Place(id) \in 1 .. Len(vertices)
      BY <2>1, <2>2 DEF Place
  <2>4. Place(id) \in DOMAIN vertices
      BY <2>2, <2>3, LenProperties
  <2> QED BY <1>1, <2>3, <2>4 DEF Find, Absent
<1>2. CASE variant # "array"
  <2>1. tree[id] \in {Absent} \cup DOMAIN vertices
      BY DEF IInv, TypeOK
  <2>2. \A v \in DOMAIN vertices : v \in Nat
      BY VertexFields DEF IInv
  <2> QED BY <1>2, <2>1, <2>2 DEF Find, Absent
<1> QED BY <1>1, <1>2

\* A thread that neither takes nor leaves a lock leaves the locks as they are.
LEMMA LocksStay ==
    ASSUME LocksHeld, NEW t \in Threads, variant' = variant, held' = held,
           \A u \in Threads : u # t => th'[u] = th[u],
           th'[t].pc \in Inside <=> th[t].pc \in Inside,
           th[t].pc \in Inside => th'[t].id = th[t].id
    PROVE  LocksHeld'
<1>1. \A u \in Threads : th'[u].pc \in Inside <=> th[u].pc \in Inside
    OBVIOUS
<1>2. \A u \in Threads : th[u].pc \in Inside => Lock(u)' = Lock(u)
    BY DEF Lock
<1>3. {Lock(u)' : u \in {w \in Threads : th'[w].pc \in Inside}} =
      {Lock(u) : u \in {w \in Threads : th[w].pc \in Inside}}
    BY <1>1, <1>2
<1>4. \A u, w \in Threads : th'[u].pc \in Inside /\ th'[w].pc \in Inside /\ Lock(u)' = Lock(w)' => u = w
    BY <1>1, <1>2 DEF LocksHeld
<1> QED BY <1>3, <1>4 DEF LocksHeld

\* With the table, the mutex admits one thread.
LEMMA OneInside ==
    ASSUME IInv, variant = "art_table", NEW t \in Threads, NEW u \in Threads,
           th[t].pc \in Inside, th[u].pc \in Inside
    PROVE  t = u
BY DEF IInv, LocksHeld, Lock

-----------------------------------------------------------------------------
(* Each action preserves the invariant. *)

\* The initial states satisfy the invariant.
LEMMA InitIInv ==
    ASSUME Init
    PROVE  IInv
<1>1. MaxId \in Nat /\ Ids = 0 .. MaxId /\ NoId = -1 /\ Absent = 0 /\ 0 \in Ids /\ Ids \subseteq Nat
    BY PlainIndexAssumption DEF PlainIndexAssumption, Ids, NoId, Absent
<1>2. NewVertex \in Vertex /\ NewVertex.idx = NoId
    BY DEF NewVertex, Vertex
<1>3. Idle \in Locals /\ Idle.pc = "idle"
    BY <1>1 DEF Idle, Locals, Pcs, Ops
<1>4. \A t \in Threads : th[t] = Idle
    BY DEF Init
<1>5. vertices \in Seq(Vertex)
  <2>1. CASE variant = "array"
    <3>1. vertices = [i \in 1 .. (MaxId + 1) |-> NewVertex]
        BY <2>1 DEF Init
    <3>2. vertices \in [1 .. (MaxId + 1) -> Vertex] /\ MaxId + 1 \in Nat
        BY <3>1, <1>1, <1>2
    <3> QED BY <3>2, SeqDef
  <2>2. CASE variant # "array"
    <3>1. vertices = <<>>
        BY <2>2 DEF Init
    <3> QED BY <3>1, EmptySeq
  <2> QED BY <2>1, <2>2
<1>6. TypeOK
    BY <1>1, <1>3, <1>4, <1>5 DEF Init, TypeOK
<1>7. LocksHeld
    BY <1>3, <1>4 DEF Init, LocksHeld, Inside
<1>8. WaysApart
    BY <1>3, <1>4 DEF WaysApart, Inside
<1>9. NextBeforeIdx
  <2>1. CASE variant = "array"
    <3>1. vertices = [i \in 1 .. (MaxId + 1) |-> NewVertex] /\ DOMAIN vertices = 1 .. (MaxId + 1)
        BY <2>1 DEF Init
    <3>2. Len(vertices) = MaxId + 1
        BY <3>1, <1>1, <1>5, LenProperties
    <3>3. \A v \in DOMAIN vertices : vertices[v].idx = NoId
        BY <3>1, <1>2
    <3> QED BY <3>2, <3>3, <1>3, <1>4 DEF NextBeforeIdx, Init
  <2> QED BY <2>1 DEF NextBeforeIdx
<1>10. TreeVerticesReady
    BY DEF TreeVerticesReady, Init
<1>11. MakersOwn
    BY <1>3, <1>4 DEF MakersOwn, Makers
<1>12. VerticesAccounted
    BY DEF VerticesAccounted, Init
<1>13. TableFollowsCnt
    BY <1>3, <1>4 DEF TableFollowsCnt, Init
<1> QED BY <1>6, <1>7, <1>8, <1>9, <1>10, <1>11, <1>12, <1>13 DEF IInv

\* A step of one thread that neither starts nor ends at a store to the tree or the
\* table, and that leaves the edge array and the internal ID of every vertex alone.
LEMMA MarkingStep ==
    ASSUME IInv, NEW t \in Threads, UNCHANGED <<variant, freed, tree, table, cnt>>,
           vertices' \in Seq(Vertex), Len(vertices') = Len(vertices),
           DOMAIN vertices' = DOMAIN vertices,
           \A v \in DOMAIN vertices : /\ vertices'[v].idx = vertices[v].idx
                                      /\ vertices'[v].next = vertices[v].next,
           calls' \in Nat, th' \in [Threads -> Locals],
           \A u \in Threads : u # t => th'[u] = th[u],
           th[t].pc \notin {"grow", "key", "try"},
           th'[t].pc \notin {"grow", "key", "try"},
           th'[t].pc \in {"mark", "fields"} => th'[t].vertex \in DOMAIN vertices,
           th'[t].pc = "fields" => "next" \in th'[t].todo,
           th'[t].pc = "count" => tree[th'[t].id] = Absent,
           LocksHeld', WaysApart'
    PROVE  IInv'
<1>1. TypeOK'
    BY DEF IInv, TypeOK
<1>2. NextBeforeIdx'
    BY DEF IInv, TypeOK, NextBeforeIdx
<1>3. TreeVerticesReady'
    BY DEF IInv, TypeOK, TreeVerticesReady
<1>4. \A u \in Threads : u \in Makers' <=> u \in Makers
    BY DEF Makers
<1>5. \A u \in Makers : u \in Threads /\ u # t /\ th'[u] = th[u]
    BY DEF Makers
<1>6. Makers' = Makers
    BY <1>4 DEF Makers
<1>7. \A u \in Makers : th[u].vertex \in DOMAIN vertices
    BY DEF Makers, IInv, TypeOK
<1>8. MakersOwn'
    BY <1>5, <1>6, <1>7 DEF IInv, MakersOwn
<1>9. VerticesAccounted'
    BY <1>5, <1>6 DEF IInv, VerticesAccounted
<1>10. \A i \in DOMAIN table : table[i] \in DOMAIN vertices
    BY LenProperties, ElementOfSeq DEF IInv, TypeOK
<1>11. TableFollowsCnt'
    BY <1>10 DEF IInv, TableFollowsCnt
<1> QED BY <1>1, <1>2, <1>3, <1>8, <1>9, <1>11 DEF IInv

\* The same when the vertices do not change at all.
LEMMA OwnStep ==
    ASSUME IInv, NEW t \in Threads, UNCHANGED <<variant, vertices, freed, tree, table, cnt>>,
           calls' \in Nat, th' \in [Threads -> Locals],
           \A u \in Threads : u # t => th'[u] = th[u],
           th[t].pc \notin {"grow", "key", "try"},
           th'[t].pc \notin {"grow", "key", "try"},
           th'[t].pc \in {"mark", "fields"} => th'[t].vertex \in DOMAIN vertices,
           th'[t].pc = "fields" => "next" \in th'[t].todo,
           th'[t].pc = "count" => tree[th'[t].id] = Absent,
           LocksHeld', WaysApart'
    PROVE  IInv'
<1>1. vertices' = vertices /\ vertices \in Seq(Vertex)
    BY DEF IInv, TypeOK
<1> QED BY <1>1, MarkingStep

\* The way of inserting does not change, so only the thread that moved is looked at.
LEMMA WaysStay ==
    ASSUME WaysApart, NEW t \in Threads, variant' = variant,
           \A u \in Threads : u # t => th'[u] = th[u],
           variant = "array" => th'[t].pc \notin {"count", "grow", "key", "make", "try", "again"},
           variant = "art_table" => th'[t].pc \notin {"fields", "make", "try", "again"},
           variant = "art_plain" => th'[t].pc \notin Inside \cup {"lock"}
    PROVE  WaysApart'
BY DEF WaysApart

LEMMA CallPreserves ==
    ASSUME IInv, NEW t \in Threads, Call(t)
    PROVE  IInv'
<1>1. PICK op \in Ops, id \in Ids :
          th' = [th EXCEPT ![t] = [Idle EXCEPT !.pc = "look", !.op = op, !.id = id]]
    BY DEF Call
<1> DEFINE l == [Idle EXCEPT !.pc = "look", !.op = op, !.id = id]
<1>2. th \in [Threads -> Locals] /\ calls \in Nat /\ th[t].pc = "idle"
    BY DEF IInv, TypeOK, Call
<1>3. l.pc = "look" /\ l \in Locals
    BY DEF Idle, Locals, Pcs, Absent
<1>4. th' \in [Threads -> Locals] /\ th'[t] = l /\ \A u \in Threads : u # t => th'[u] = th[u]
    BY <1>1, <1>2, <1>3
<1>5. th'[t].pc = "look"
    BY <1>3, <1>4
<1> HIDE DEF l
<1>6. LocksHeld'
    BY <1>2, <1>4, <1>5, LocksStay DEF Call, IInv, Inside
<1>7. WaysApart'
    BY <1>4, <1>5, WaysStay DEF Call, IInv, Inside
<1>8. calls' \in Nat
    BY <1>2 DEF Call
<1> QED BY <1>2, <1>4, <1>5, <1>6, <1>7, <1>8, OwnStep DEF Call

LEMMA LookPreserves ==
    ASSUME IInv, NEW t \in Threads, Look(t)
    PROVE  IInv'
<1>1. th[t].pc = "look" /\ variant' = variant /\ held' = held /\ calls' \in Nat
    BY DEF Look, IInv, TypeOK
<1>2. th[t].id \in Ids
    BY ThreadFields DEF IInv
<1> DEFINE v == Find(th[t].id)
<1>3. v \in {Absent} \cup DOMAIN vertices /\ v \in Nat
    BY <1>2, FindType
<1> HIDE DEF v
<1>4. CASE v = Absent /\ th[t].op = "insert"
  <2> DEFINE p == IF variant = "art_plain" THEN "make" ELSE "lock"
  <2>1. Goto(t, p)
      BY <1>4 DEF Look, v
  <2>2. p \in Pcs /\ p \in {"make", "lock"} /\ p \notin Inside
      BY DEF Pcs, Inside
  <2>3. /\ th' \in [Threads -> Locals] /\ th'[t].pc = p
        /\ \A u \in Threads : u # t => th'[u] = th[u]
      BY <2>1, <2>2, GotoFields DEF IInv
  <2>4. LocksHeld'
      BY <1>1, <2>2, <2>3, LocksStay DEF IInv, Inside
  <2>5. WaysApart'
      BY <1>1, <2>2, <2>3, WaysStay DEF IInv, Inside
  <2> HIDE DEF p
  <2> QED BY <1>1, <2>2, <2>3, <2>4, <2>5, OwnStep DEF Look
<1>5. CASE ~(v = Absent /\ th[t].op = "insert")
  <2> DEFINE p == IF v # Absent /\ th[t].op = "delete" THEN "mark" ELSE "return"
  <2>1. Give(t, p, v)
      BY <1>5 DEF Look, v
  <2>2. p \in Pcs /\ p \in {"mark", "return"} /\ p \notin Inside /\ (p = "mark" => v # Absent)
      BY DEF Pcs, Inside
  <2>3. /\ th' \in [Threads -> Locals] /\ th'[t].pc = p /\ th'[t].vertex = v
        /\ \A u \in Threads : u # t => th'[u] = th[u]
      BY <2>1, <2>2, <1>3, GiveFields DEF IInv
  <2>4. LocksHeld'
      BY <1>1, <2>2, <2>3, LocksStay DEF IInv, Inside
  <2>5. WaysApart'
      BY <1>1, <2>2, <2>3, WaysStay DEF IInv, Inside
  <2> HIDE DEF p
  <2> QED BY <1>1, <1>3, <2>2, <2>3, <2>4, <2>5, OwnStep DEF Look
<1> QED BY <1>4, <1>5

LEMMA ReturnPreserves ==
    ASSUME IInv, NEW t \in Threads, Return(t)
    PROVE  IInv'
<1>1. Idle \in Locals /\ Idle.pc = "idle"
    BY PlainIndexAssumption DEF PlainIndexAssumption, Idle, Locals, Pcs, Ops, Ids, Absent
<1>2. th \in [Threads -> Locals] /\ th[t].pc = "return" /\ calls' \in Nat
    BY DEF IInv, TypeOK, Return
<1>3. th' \in [Threads -> Locals] /\ th'[t] = Idle /\ \A u \in Threads : u # t => th'[u] = th[u]
    BY <1>1, <1>2 DEF Return
<1>4. LocksHeld'
    BY <1>1, <1>2, <1>3, LocksStay DEF Return, IInv, Inside
<1>5. WaysApart'
    BY <1>1, <1>3, WaysStay DEF Return, IInv, Inside
<1> QED BY <1>1, <1>2, <1>3, <1>4, <1>5, OwnStep DEF Return

LEMMA AcquirePreserves ==
    ASSUME IInv, NEW t \in Threads, Acquire(t)
    PROVE  IInv'
<1>1. th[t].pc = "lock" /\ Lock(t) \notin held /\ held' = held \cup {Lock(t)} /\ calls' \in Nat
    BY DEF Acquire, IInv, TypeOK
<1>2. /\ th' \in [Threads -> Locals] /\ th'[t].pc = "second" /\ th'[t].id = th[t].id
      /\ \A u \in Threads : u # t => th'[u] = th[u]
    BY GotoFields DEF Acquire, IInv, Pcs, Inside
<1>3. \A u \in Threads : Lock(u)' = Lock(u)
    BY <1>2 DEF Lock, Acquire
<1>4. LocksHeld'
  <2>1. \A u \in Threads : th'[u].pc \in Inside <=> u = t \/ th[u].pc \in Inside
      BY <1>1, <1>2 DEF Inside
  <2>2. held = {Lock(u) : u \in {w \in Threads : th[w].pc \in Inside}}
      BY DEF IInv, LocksHeld
  <2>3. {Lock(u)' : u \in {w \in Threads : th'[w].pc \in Inside}}
            = {Lock(u) : u \in {w \in Threads : th[w].pc \in Inside}} \cup {Lock(t)}
      BY <2>1, <1>3
  <2>4. \A u \in Threads : th[u].pc \in Inside => Lock(u) # Lock(t)
      BY <1>1, <2>2
  <2>5. \A u, w \in Threads : th'[u].pc \in Inside /\ th'[w].pc \in Inside /\ Lock(u)' = Lock(w)' => u = w
      BY <1>3, <2>1, <2>4 DEF IInv, LocksHeld
  <2> QED BY <1>1, <2>2, <2>3, <2>5 DEF LocksHeld
<1>5. WaysApart'
    BY <1>1, <1>2, WaysStay DEF Acquire, IInv, WaysApart
<1> QED BY <1>1, <1>2, <1>4, <1>5, OwnStep DEF Acquire

LEMMA SecondPreserves ==
    ASSUME IInv, NEW t \in Threads, Second(t)
    PROVE  IInv'
<1>1. th[t].pc = "second" /\ variant' = variant /\ held' = held /\ calls' \in Nat
    BY DEF Second, IInv, TypeOK
<1>2. th[t].id \in Ids /\ th \in [Threads -> Locals] /\ th[t] \in Locals
    BY ThreadFields DEF IInv, TypeOK
<1>3. SecondLook(t) \in {Absent} \cup DOMAIN vertices /\ SecondLook(t) \in Nat
    BY <1>2, FindType DEF SecondLook
<1>4. CASE SecondLook(t) # Absent /\ Give(t, "unlock", SecondLook(t))
  <2>1. /\ th' \in [Threads -> Locals] /\ th'[t].pc = "unlock" /\ th'[t].id = th[t].id
        /\ \A u \in Threads : u # t => th'[u] = th[u]
      BY <1>3, <1>4, GiveFields DEF IInv, Pcs, Inside
  <2>2. LocksHeld'
      BY <1>1, <2>1, LocksStay DEF IInv, Inside
  <2>3. WaysApart'
      BY <1>1, <2>1, WaysStay DEF IInv, WaysApart, Inside
  <2> QED BY <1>1, <2>1, <2>2, <2>3, OwnStep DEF Second
<1>5. CASE /\ SecondLook(t) = Absent /\ variant = "array"
           /\ th' = [th EXCEPT ![t].pc = "fields", ![t].vertex = Place(th[t].id),
                               ![t].todo = {"next", "node", "idx"}]
  <2> DEFINE l == [th[t] EXCEPT !.pc = "fields", !.vertex = Place(th[t].id),
                                !.todo = {"next", "node", "idx"}]
  <2>1. Place(th[t].id) \in DOMAIN vertices /\ Place(th[t].id) \in Nat
    <3>1. th[t].id \in Int /\ 0 <= th[t].id /\ th[t].id <= MaxId /\ MaxId \in Nat
        BY <1>2, PlainIndexAssumption DEF PlainIndexAssumption, Ids
    <3>2. Len(vertices) = MaxId + 1 /\ vertices \in Seq(Vertex)
        BY <1>5 DEF IInv, NextBeforeIdx, TypeOK
    <3>3. Place(th[t].id) \in 1 .. Len(vertices)
        BY <3>1, <3>2 DEF Place
    <3> QED BY <3>2, <3>3, LenProperties
  <2>2. th' = [th EXCEPT ![t] = l]
      BY <1>5
  <2>3. l \in Locals
      BY <1>2, <2>1 DEF Locals, Pcs, Inside, Fields
  <2>4. l.pc = "fields" /\ l.id = th[t].id /\ l.vertex = Place(th[t].id) /\ l.todo = {"next", "node", "idx"}
      BY <1>2 DEF Locals
  <2> HIDE DEF l
  <2>5. /\ th' \in [Threads -> Locals] /\ th'[t] = l
        /\ \A u \in Threads : u # t => th'[u] = th[u]
      BY <1>2, <2>2, <2>3
  <2>6. LocksHeld'
      BY <1>1, <2>4, <2>5, LocksStay DEF IInv, Inside
  <2>7. WaysApart'
      BY <1>1, <1>5, <2>4, <2>5, WaysStay DEF IInv
  <2> QED BY <1>1, <2>1, <2>4, <2>5, <2>6, <2>7, OwnStep DEF Second
<1>6. CASE SecondLook(t) = Absent /\ variant = "art_table" /\ Goto(t, "count")
  <2>1. /\ th' \in [Threads -> Locals] /\ th'[t].pc = "count" /\ th'[t].id = th[t].id
        /\ \A u \in Threads : u # t => th'[u] = th[u]
      BY <1>6, GotoFields DEF IInv, Pcs, Inside
  <2>2. tree[th[t].id] = Absent
      BY <1>6 DEF SecondLook, Find
  <2>3. LocksHeld'
      BY <1>1, <2>1, LocksStay DEF IInv, Inside
  <2>4. WaysApart'
      BY <1>1, <1>6, <2>1, WaysStay DEF IInv
  <2> QED BY <1>1, <2>1, <2>2, <2>3, <2>4, OwnStep DEF Second
<1> QED BY <1>4, <1>5, <1>6 DEF Second

LEMMA ReleasePreserves ==
    ASSUME IInv, NEW t \in Threads, Release(t)
    PROVE  IInv'
<1>1. th[t].pc = "unlock" /\ held' = held \ {Lock(t)} /\ calls' \in Nat
    BY DEF Release, Released, IInv, TypeOK
<1>2. /\ th' \in [Threads -> Locals] /\ th'[t].pc = "return" /\ th'[t].id = th[t].id
      /\ \A u \in Threads : u # t => th'[u] = th[u]
    BY GotoFields DEF Release, IInv, Pcs, Inside
<1>3. \A u \in Threads : Lock(u)' = Lock(u)
    BY <1>2 DEF Lock, Release
<1>4. LocksHeld'
  <2>1. \A u \in Threads : th'[u].pc \in Inside <=> u # t /\ th[u].pc \in Inside
      BY <1>1, <1>2 DEF Inside
  <2>2. /\ held = {Lock(u) : u \in {w \in Threads : th[w].pc \in Inside}}
        /\ \A u, w \in Threads : th[u].pc \in Inside /\ th[w].pc \in Inside /\ Lock(u) = Lock(w) => u = w
      BY DEF IInv, LocksHeld
  <2>3. th[t].pc \in Inside
      BY <1>1 DEF Inside
  <2>4. {Lock(u)' : u \in {w \in Threads : th'[w].pc \in Inside}}
            = {Lock(u) : u \in {w \in Threads : th[w].pc \in Inside}} \ {Lock(t)}
      BY <2>1, <2>2, <2>3, <1>3
  <2>5. \A u, w \in Threads : th'[u].pc \in Inside /\ th'[w].pc \in Inside /\ Lock(u)' = Lock(w)' => u = w
      BY <1>3, <2>1, <2>2
  <2> QED BY <1>1, <2>2, <2>4, <2>5 DEF LocksHeld
<1>5. WaysApart'
    BY <1>2, WaysStay DEF Release, IInv, Inside
<1> QED BY <1>1, <1>2, <1>4, <1>5, OwnStep DEF Release

LEMMA GetAgainPreserves ==
    ASSUME IInv, NEW t \in Threads, GetAgain(t)
    PROVE  IInv'
<1>1. th[t].pc = "again" /\ variant' = variant /\ held' = held /\ calls' \in Nat
    BY DEF GetAgain, IInv, TypeOK
<1>2. tree[th[t].id] \in Nat
  <2>1. tree[th[t].id] \in {Absent} \cup DOMAIN vertices
      BY ThreadFields DEF IInv, TypeOK
  <2>2. \A v \in DOMAIN vertices : v \in Nat
      BY VertexFields DEF IInv
  <2> QED BY <2>1, <2>2 DEF Absent
<1>3. /\ th' \in [Threads -> Locals] /\ th'[t].pc = "return"
      /\ \A u \in Threads : u # t => th'[u] = th[u]
    BY <1>2, GiveFields DEF GetAgain, IInv, Pcs
<1>4. LocksHeld'
    BY <1>1, <1>3, LocksStay DEF IInv, Inside
<1>5. WaysApart'
    BY <1>1, <1>3, WaysStay DEF IInv, Inside
<1> QED BY <1>1, <1>3, <1>4, <1>5, OwnStep DEF GetAgain

LEMMA MarkPreserves ==
    ASSUME IInv, NEW t \in Threads, Mark(t)
    PROVE  IInv'
<1> DEFINE v == th[t].vertex
           w == [vertices[v] EXCEPT !.del = TRUE]
<1>1. th[t].pc = "mark" /\ variant' = variant /\ held' = held /\ calls' \in Nat
    BY DEF Mark, IInv, TypeOK
<1>2. v \in DOMAIN vertices /\ vertices \in Seq(Vertex)
    BY <1>1 DEF IInv, TypeOK
<1>3. vertices[v] \in Vertex /\ v \in 1 .. Len(vertices)
    BY <1>2, VertexFields DEF IInv
<1>4. w \in Vertex /\ w.idx = vertices[v].idx /\ w.next = vertices[v].next
    BY <1>3 DEF Vertex
<1>5. vertices' = [vertices EXCEPT ![v] = w]
    BY DEF Mark
<1> HIDE DEF v, w
<1>6. /\ vertices' \in Seq(Vertex) /\ Len(vertices') = Len(vertices)
      /\ \A x \in 1 .. Len(vertices) : vertices'[x] = IF x = v THEN w ELSE vertices[x]
    BY <1>2, <1>3, <1>4, <1>5, ExceptSeq
<1>7. DOMAIN vertices' = DOMAIN vertices /\ DOMAIN vertices = 1 .. Len(vertices)
    BY <1>2, <1>6, LenProperties
<1>8. \A x \in DOMAIN vertices : /\ vertices'[x].idx = vertices[x].idx
                                 /\ vertices'[x].next = vertices[x].next
    BY <1>4, <1>6, <1>7
<1>9. /\ th' \in [Threads -> Locals] /\ th'[t].pc = "return"
      /\ \A u \in Threads : u # t => th'[u] = th[u]
    BY GotoFields DEF Mark, IInv, Pcs
<1>10. LocksHeld'
    BY <1>1, <1>9, LocksStay DEF IInv, Inside
<1>11. WaysApart'
    BY <1>1, <1>9, WaysStay DEF IInv, Inside
<1> QED BY <1>1, <1>6, <1>7, <1>8, <1>9, <1>10, <1>11, MarkingStep DEF Mark

LEMMA StoreFieldPreserves ==
    ASSUME IInv, NEW t \in Threads, StoreField(t)
    PROVE  IInv'
<1>1. th[t].pc = "fields" /\ variant' = variant /\ held' = held /\ calls' \in Nat
    BY DEF StoreField, IInv, TypeOK
<1>2. variant = "array"
    BY <1>1 DEF IInv, WaysApart, TypeOK, Variants, Inside
<1>3. PICK f \in Storable(th[t].todo) :
        /\ vertices' = [vertices EXCEPT ![th[t].vertex][f] = IF f = "next" THEN TRUE ELSE th[t].id]
        /\ th' = [th EXCEPT ![t].todo = @ \ {f},
                            ![t].pc = IF th[t].todo = {f} THEN "unlock" ELSE "fields"]
    BY DEF StoreField
<1>4. /\ th[t].id \in Ids /\ th[t].id \in Nat /\ th[t].id # NoId
      /\ th[t].todo \subseteq Fields /\ th \in [Threads -> Locals] /\ th[t] \in Locals
  <2>1. th[t].id \in Ids /\ th[t].todo \subseteq Fields
      BY ThreadFields DEF IInv
  <2>2. th[t].id \in Nat /\ th[t].id # NoId
      BY <2>1, PlainIndexAssumption DEF PlainIndexAssumption, Ids, NoId
  <2> QED BY <2>1, <2>2 DEF IInv, TypeOK
<1>5. f \in th[t].todo /\ f \in Fields /\ ("next" \in th[t].todo => f = "next")
    BY <1>4 DEF Storable
<1> DEFINE v == th[t].vertex
           w == [vertices[v] EXCEPT ![f] = IF f = "next" THEN TRUE ELSE th[t].id]
           p == IF th[t].todo = {f} THEN "unlock" ELSE "fields"
           l == [th[t] EXCEPT !.todo = th[t].todo \ {f}, !.pc = p]
<1>6. v \in DOMAIN vertices /\ vertices \in Seq(Vertex)
    BY <1>1 DEF IInv, TypeOK
<1>7. vertices[v] \in Vertex /\ v \in 1 .. Len(vertices)
    BY <1>6, VertexFields DEF IInv
<1>8. w \in Vertex /\ (w.next <=> (f = "next" \/ vertices[v].next))
      /\ (f = "next" => w.idx = vertices[v].idx)
  <2>1. CASE f = "next"
      BY <1>7, <2>1 DEF Vertex
  <2>2. CASE f = "node"
      BY <1>4, <1>7, <2>2 DEF Vertex
  <2>3. CASE f = "idx"
      BY <1>4, <1>7, <2>3 DEF Vertex
  <2> QED BY <1>5, <2>1, <2>2, <2>3 DEF Fields
<1>9. vertices' = [vertices EXCEPT ![v] = w]
    BY <1>3
<1>10. th' = [th EXCEPT ![t] = l]
    BY <1>3
<1>11. l \in Locals /\ l.pc = p /\ l.id = th[t].id /\ l.vertex = v /\ l.todo = th[t].todo \ {f}
    BY <1>4 DEF Locals, Pcs, Inside
<1>12. p \in {"unlock", "fields"}
    OBVIOUS
<1> HIDE DEF v, w, p, l
<1>13. /\ vertices' \in Seq(Vertex) /\ Len(vertices') = Len(vertices)
       /\ \A x \in 1 .. Len(vertices) : vertices'[x] = IF x = v THEN w ELSE vertices[x]
    BY <1>6, <1>7, <1>8, <1>9, ExceptSeq
<1>14. DOMAIN vertices' = DOMAIN vertices /\ DOMAIN vertices = 1 .. Len(vertices)
    BY <1>6, <1>13, LenProperties
<1>15. th' \in [Threads -> Locals] /\ th'[t] = l /\ \A u \in Threads : u # t => th'[u] = th[u]
    BY <1>4, <1>10, <1>11
<1>16. TypeOK'
    BY <1>1, <1>6, <1>11, <1>12, <1>13, <1>14, <1>15 DEF StoreField, IInv, TypeOK
<1>17. LocksHeld'
    BY <1>1, <1>11, <1>12, <1>15, LocksStay DEF IInv, Inside
<1>18. WaysApart'
    BY <1>1, <1>2, <1>11, <1>12, <1>15, WaysStay DEF IInv
<1>19. NextBeforeIdx'
  <2>1. Len(vertices') = MaxId + 1 /\ freed' = {}
      BY <1>2, <1>13 DEF IInv, NextBeforeIdx, StoreField
  <2>2. ASSUME NEW x \in DOMAIN vertices', vertices'[x].idx # NoId
        PROVE  vertices'[x].next
    <3>1. CASE x # v
        BY <1>2, <1>13, <1>14, <2>2, <3>1 DEF IInv, NextBeforeIdx
    <3>2. CASE x = v
      <4>1. vertices'[x] = w
          BY <1>13, <1>14, <3>2
      <4>2. CASE f = "next"
          BY <1>8, <4>1, <4>2
      <4>3. CASE f # "next"
        <5>1. vertices[v].next
            BY <1>1, <1>2, <1>5, <4>3 DEF IInv, NextBeforeIdx, v
        <5> QED BY <1>8, <4>1, <5>1
      <4> QED BY <4>2, <4>3
    <3> QED BY <3>1, <3>2
  <2>3. ASSUME NEW u \in Threads, th'[u].pc = "fields", "next" \notin th'[u].todo
        PROVE  vertices'[th'[u].vertex].next
    <3>1. CASE u = t
      <4>1. th'[u].vertex = v /\ (f = "next" \/ "next" \notin th[t].todo)
          BY <1>11, <1>15, <2>3, <3>1
      <4>2. w.next
          BY <1>1, <1>2, <1>8, <4>1 DEF IInv, NextBeforeIdx, v
      <4> QED BY <1>7, <1>13, <4>1, <4>2
    <3>2. CASE u # t
      <4>1. th'[u] = th[u] /\ th[u].vertex \in DOMAIN vertices /\ vertices[th[u].vertex].next
          BY <1>2, <1>15, <2>3, <3>2 DEF IInv, NextBeforeIdx, TypeOK
      <4> QED BY <1>8, <1>13, <1>14, <4>1
    <3> QED BY <3>1, <3>2
  <2> QED BY <2>1, <2>2, <2>3 DEF NextBeforeIdx
<1> QED BY <1>1, <1>2, <1>16, <1>17, <1>18, <1>19
        DEF IInv, TreeVerticesReady, MakersOwn, VerticesAccounted, TableFollowsCnt

LEMMA CountPreserves ==
    ASSUME IInv, NEW t \in Threads, Count(t)
    PROVE  IInv'
<1> DEFINE l == [th[t] EXCEPT !.pc = "grow", !.idx = cnt]
<1>1. /\ th[t].pc = "count" /\ cnt' = cnt + 1 /\ th' = [th EXCEPT ![t] = l]
      /\ UNCHANGED <<variant, vertices, freed, tree, table, held, calls>>
    BY DEF Count
<1>2. variant = "art_table"
    BY <1>1 DEF IInv, WaysApart, TypeOK, Variants, Inside
<1>3. th \in [Threads -> Locals] /\ th[t] \in Locals /\ cnt \in Nat
    BY DEF IInv, TypeOK
<1>4. l \in Locals /\ l.pc = "grow" /\ l.id = th[t].id /\ l.vertex = th[t].vertex /\ l.idx = cnt
    BY <1>3 DEF Locals, Pcs, Inside
<1> HIDE DEF l
<1>5. th' \in [Threads -> Locals] /\ th'[t] = l /\ \A u \in Threads : u # t => th'[u] = th[u]
    BY <1>1, <1>3, <1>4
<1>6. TypeOK'
    BY <1>1, <1>3, <1>4, <1>5 DEF IInv, TypeOK
<1>7. LocksHeld'
    BY <1>1, <1>4, <1>5, LocksStay DEF IInv, Inside
<1>8. WaysApart'
    BY <1>1, <1>2, <1>4, <1>5, WaysStay DEF IInv
<1>9. NextBeforeIdx' /\ TreeVerticesReady'
    BY <1>1, <1>2 DEF IInv, NextBeforeIdx, TreeVerticesReady
<1>10. Makers' = Makers /\ \A u \in Makers : th'[u] = th[u]
  <2>1. \A u \in Threads : u \in Makers' <=> u \in Makers
      BY <1>1, <1>4, <1>5 DEF Makers
  <2>2. \A u \in Makers : u \in Threads /\ u # t
      BY <1>1 DEF Makers
  <2> QED BY <1>5, <2>1, <2>2 DEF Makers
<1>11. MakersOwn' /\ VerticesAccounted'
    BY <1>1, <1>10 DEF IInv, MakersOwn, VerticesAccounted
<1>12. TableFollowsCnt'
  <2>1. \A u \in Threads : u # t => th[u].pc # "grow"
      BY <1>1, <1>2, OneInside DEF Inside
  <2>2. cnt = Len(table)
      BY <1>1, <1>2, <2>1 DEF IInv, TableFollowsCnt
  <2>3. \A u \in Threads : th'[u].pc \in {"count", "grow", "key"} => tree'[th'[u].id] = Absent
      BY <1>1, <1>2, <1>4, <1>5 DEF IInv, TableFollowsCnt
  <2>4. \A i \in DOMAIN table' : vertices'[table'[i]].idx = i - 1
      BY <1>1, <1>2 DEF IInv, TableFollowsCnt
  <2>5. \A u \in Threads : th'[u].pc = "grow" => th'[u].idx = Len(table') /\ cnt' = Len(table') + 1
      BY <1>1, <1>4, <1>5, <2>1, <2>2
  <2>6. th'[t].pc = "grow"
      BY <1>4, <1>5
  <2> QED BY <2>3, <2>4, <2>5, <2>6 DEF TableFollowsCnt
<1> QED BY <1>6, <1>7, <1>8, <1>9, <1>11, <1>12 DEF IInv

\* A new vertex at the end, held by the thread that made it, with its edge array and
\* its internal ID (Grow and Make).
LEMMA NewVertexStep ==
    ASSUME IInv, NEW t \in Threads, variant # "array", NEW w \in Vertex,
           w.next, w.idx # NoId,
           vertices' = Append(vertices, w),
           UNCHANGED <<variant, freed, tree>>,
           th[t].pc \notin {"key", "try"}, th'[t].pc \in {"key", "try"},
           th'[t].vertex = Len(vertices) + 1,
           \A u \in Threads : u # t => th'[u] = th[u]
    PROVE  /\ vertices' \in Seq(Vertex) /\ Len(vertices') = Len(vertices) + 1
           /\ DOMAIN vertices' = DOMAIN vertices \cup {Len(vertices) + 1}
           /\ \A v \in DOMAIN vertices : vertices'[v] = vertices[v]
           /\ vertices'[Len(vertices) + 1] = w
           /\ NextBeforeIdx' /\ TreeVerticesReady' /\ MakersOwn' /\ VerticesAccounted'
<1> DEFINE n == Len(vertices) + 1
<1>1. vertices \in Seq(Vertex) /\ Len(vertices) \in Nat /\ DOMAIN vertices = 1 .. Len(vertices)
    BY LenProperties DEF IInv, TypeOK
<1>2. /\ vertices' \in Seq(Vertex) /\ Len(vertices') = n
      /\ \A v \in 1 .. Len(vertices) : vertices'[v] = vertices[v]
      /\ vertices'[n] = w
    BY <1>1, AppendProperties
<1>3. DOMAIN vertices' = 1 .. n
    BY <1>2, LenProperties
<1>4. DOMAIN vertices' = DOMAIN vertices \cup {n} /\ n \notin DOMAIN vertices /\ n # Absent
    BY <1>1, <1>3 DEF Absent
<1>5. \A v \in DOMAIN vertices : vertices'[v] = vertices[v]
    BY <1>1, <1>2
<1> HIDE DEF n
<1>6. \A id \in Ids : tree[id] # n /\ (tree[id] # Absent => tree[id] \in DOMAIN vertices)
    BY <1>4 DEF IInv, TypeOK
<1>7. n \notin freed
    BY <1>4 DEF IInv, TypeOK
<1>8. \A u \in Makers : u \in Threads /\ u # t /\ th'[u] = th[u] /\ th[u].vertex \in DOMAIN vertices
    BY DEF Makers, IInv, TypeOK
<1>9. Makers' = Makers \cup {t}
    BY <1>8 DEF Makers
<1>10. NextBeforeIdx'
    BY DEF NextBeforeIdx
<1>11. TreeVerticesReady'
    BY <1>5, <1>6 DEF IInv, TreeVerticesReady
<1>12. MakersOwn'
  <2>1. ASSUME NEW u \in Makers'
        PROVE  /\ vertices'[th'[u].vertex].next /\ vertices'[th'[u].vertex].idx # NoId
               /\ th'[u].vertex \notin freed' /\ \A id \in Ids : tree'[id] # th'[u].vertex
    <3>1. CASE u = t
        BY <1>2, <1>6, <1>7, <3>1 DEF n
    <3>2. CASE u # t
        BY <1>5, <1>8, <1>9, <3>2 DEF IInv, MakersOwn
    <3> QED BY <3>1, <3>2
  <2>2. ASSUME NEW u \in Makers', NEW x \in Makers', th'[u].vertex = th'[x].vertex
        PROVE  u = x
    <3>1. th'[t].vertex = n
        BY DEF n
    <3> QED BY <1>4, <1>8, <1>9, <2>2, <3>1 DEF IInv, MakersOwn
  <2> QED BY <2>1, <2>2 DEF MakersOwn
<1>13. VerticesAccounted'
  <2>1. ASSUME NEW v \in DOMAIN vertices'
        PROVE  v \in freed' \/ (\E id \in Ids : tree'[id] = v) \/ \E u \in Makers' : th'[u].vertex = v
    <3>1. CASE v = n
        BY <1>9, <3>1 DEF n
    <3>2. CASE v # n
        BY <1>4, <1>8, <1>9, <3>2 DEF IInv, VerticesAccounted
    <3> QED BY <3>1, <3>2
  <2> QED BY <2>1 DEF VerticesAccounted
<1> QED BY <1>2, <1>4, <1>5, <1>10, <1>11, <1>12, <1>13 DEF n

LEMMA GrowPreserves ==
    ASSUME IInv, NEW t \in Threads, Grow(t)
    PROVE  IInv'
<1> DEFINE w == [node |-> th[t].id, idx |-> th[t].idx, next |-> TRUE, del |-> FALSE]
           n == Len(vertices) + 1
<1>1. /\ th[t].pc = "grow" /\ vertices' = Append(vertices, w)
      /\ table' = Append(table, Len(vertices')) /\ Give(t, "key", Len(vertices'))
      /\ UNCHANGED <<variant, freed, tree, cnt, held, calls>>
    BY DEF Grow
<1>2. variant = "art_table"
    BY <1>1 DEF IInv, WaysApart, TypeOK, Variants, Inside
<1>3. vertices \in Seq(Vertex) /\ Len(vertices) \in Nat /\ DOMAIN vertices = 1 .. Len(vertices)
    BY LenProperties DEF IInv, TypeOK
<1>4. table \in Seq(DOMAIN vertices) /\ Len(table) \in Nat /\ DOMAIN table = 1 .. Len(table)
    BY LenProperties DEF IInv, TypeOK
<1>5. th[t].idx = Len(table) /\ cnt = Len(table) + 1 /\ th[t].id \in Ids
    BY <1>1, <1>2, ThreadFields DEF IInv, TableFollowsCnt
<1>6. w \in Vertex /\ w.next /\ w.idx = Len(table) /\ w.idx # NoId
    BY <1>4, <1>5 DEF Vertex, NoId
<1> HIDE DEF w
<1>7. Len(vertices') = n /\ n \in Nat
    BY <1>1, <1>3, <1>6, AppendProperties
<1>8. /\ th' \in [Threads -> Locals] /\ th'[t].pc = "key" /\ th'[t].id = th[t].id /\ th'[t].vertex = n
      /\ \A u \in Threads : u # t => th'[u] = th[u]
    BY <1>1, <1>7, GiveFields DEF IInv, Pcs, Inside
<1>9. /\ vertices' \in Seq(Vertex)
      /\ DOMAIN vertices' = DOMAIN vertices \cup {n}
      /\ \A v \in DOMAIN vertices : vertices'[v] = vertices[v]
      /\ vertices'[n] = w
      /\ NextBeforeIdx' /\ TreeVerticesReady' /\ MakersOwn' /\ VerticesAccounted'
    BY <1>1, <1>2, <1>6, <1>8, NewVertexStep
<1> HIDE DEF n
<1>10. /\ table' \in Seq(DOMAIN vertices') /\ Len(table') = Len(table) + 1
       /\ \A i \in 1 .. Len(table) : table'[i] = table[i]
       /\ table'[Len(table) + 1] = n
  <2>1. n \in DOMAIN vertices' /\ table \in Seq(DOMAIN vertices')
      BY <1>4, <1>9, SeqMonotonic
  <2>2. table' = Append(table, n)
      BY <1>1, <1>7
  <2> QED BY <2>1, <2>2, AppendProperties
<1>11. TypeOK'
    BY <1>1, <1>8, <1>9, <1>10 DEF IInv, TypeOK
<1>12. LocksHeld'
    BY <1>1, <1>8, LocksStay DEF IInv, Inside
<1>13. WaysApart'
    BY <1>1, <1>2, <1>8, WaysStay DEF IInv
<1>14. TableFollowsCnt'
  <2>1. \A u \in Threads : u # t => th[u].pc \notin {"count", "grow", "key"}
      BY <1>1, <1>2, OneInside DEF Inside
  <2>2. \A u \in Threads : th'[u].pc \in {"count", "grow", "key"} => tree'[th'[u].id] = Absent
      BY <1>1, <1>2, <1>8, <2>1 DEF IInv, TableFollowsCnt
  <2>3. \A u \in Threads : th'[u].pc # "grow"
      BY <1>8, <2>1
  <2>4. cnt' = Len(table')
      BY <1>1, <1>5, <1>10
  <2>5. ASSUME NEW i \in DOMAIN table'
        PROVE  vertices'[table'[i]].idx = i - 1
    <3>1. DOMAIN table' = 1 .. (Len(table) + 1)
        BY <1>10, LenProperties
    <3>2. CASE i = Len(table) + 1
        BY <1>4, <1>6, <1>9, <1>10, <3>2
    <3>3. CASE i # Len(table) + 1
      <4>1. i \in DOMAIN table /\ table[i] \in DOMAIN vertices
          BY <1>4, <3>1, <3>3, ElementOfSeq
      <4> QED BY <1>2, <1>4, <1>9, <1>10, <4>1 DEF IInv, TableFollowsCnt
    <3> QED BY <3>2, <3>3
  <2> QED BY <2>2, <2>3, <2>4, <2>5 DEF TableFollowsCnt
<1> QED BY <1>9, <1>11, <1>12, <1>13, <1>14 DEF IInv

LEMMA MakePreserves ==
    ASSUME IInv, NEW t \in Threads, Make(t)
    PROVE  IInv'
<1> DEFINE w == [node |-> th[t].id, idx |-> th[t].id, next |-> TRUE, del |-> FALSE]
           n == Len(vertices) + 1
<1>1. /\ th[t].pc = "make" /\ vertices' = Append(vertices, w) /\ Give(t, "try", Len(vertices'))
      /\ UNCHANGED <<variant, freed, tree, table, cnt, held, calls>>
    BY DEF Make
<1>2. variant = "art_plain"
    BY <1>1 DEF IInv, WaysApart, TypeOK, Variants
<1>3. vertices \in Seq(Vertex) /\ Len(vertices) \in Nat /\ DOMAIN vertices = 1 .. Len(vertices)
    BY LenProperties DEF IInv, TypeOK
<1>4. th[t].id \in Ids /\ th[t].id \in Nat
  <2>1. th[t].id \in Ids
      BY ThreadFields DEF IInv
  <2> QED BY <2>1, PlainIndexAssumption DEF PlainIndexAssumption, Ids
<1>5. w \in Vertex /\ w.next /\ w.idx # NoId
    BY <1>4 DEF Vertex, NoId
<1> HIDE DEF w
<1>6. Len(vertices') = n /\ n \in Nat
    BY <1>1, <1>3, <1>5, AppendProperties
<1>7. /\ th' \in [Threads -> Locals] /\ th'[t].pc = "try" /\ th'[t].id = th[t].id /\ th'[t].vertex = n
      /\ \A u \in Threads : u # t => th'[u] = th[u]
    BY <1>1, <1>6, GiveFields DEF IInv, Pcs
<1>8. /\ vertices' \in Seq(Vertex)
      /\ DOMAIN vertices' = DOMAIN vertices \cup {n}
      /\ NextBeforeIdx' /\ TreeVerticesReady' /\ MakersOwn' /\ VerticesAccounted'
    BY <1>1, <1>2, <1>5, <1>7, NewVertexStep
<1> HIDE DEF n
<1>9. table' \in Seq(DOMAIN vertices')
    BY <1>1, <1>8, SeqMonotonic DEF IInv, TypeOK
<1>10. TypeOK'
    BY <1>1, <1>7, <1>8, <1>9 DEF IInv, TypeOK
<1>11. LocksHeld'
    BY <1>1, <1>7, LocksStay DEF IInv, Inside
<1>12. WaysApart'
    BY <1>1, <1>2, <1>7, WaysStay DEF IInv, Inside
<1> QED BY <1>1, <1>2, <1>8, <1>10, <1>11, <1>12 DEF IInv, TableFollowsCnt

\* The tree takes the vertex of a maker: the ID had no key (Key, and TryKey when it wins).
LEMMA KeyTaken ==
    ASSUME IInv, NEW t \in Threads, variant # "array", th[t].pc \in {"key", "try"},
           tree[th[t].id] = Absent, tree' = Keyed(th[t].id, th[t].vertex),
           UNCHANGED <<variant, vertices, freed>>,
           th'[t].pc \notin {"key", "try"},
           \A u \in Threads : u # t => th'[u] = th[u]
    PROVE  /\ tree' \in [Ids -> {Absent} \cup DOMAIN vertices]
           /\ NextBeforeIdx' /\ TreeVerticesReady' /\ MakersOwn' /\ VerticesAccounted'
<1> DEFINE v == th[t].vertex
<1>1. tree \in [Ids -> {Absent} \cup DOMAIN vertices] /\ v \in DOMAIN vertices /\ th[t].id \in Ids
    BY ThreadFields DEF IInv, TypeOK
<1>2. tree' = [tree EXCEPT ![th[t].id] = v]
    BY DEF Keyed
<1>3. t \in Makers /\ Makers' = Makers \ {t} /\ \A u \in Makers \ {t} : u \in Threads /\ th'[u] = th[u]
    BY DEF Makers
<1>4. /\ vertices[v].next /\ vertices[v].idx # NoId /\ v \notin freed
      /\ \A id \in Ids : tree[id] # v
      /\ \A u \in Makers \ {t} : th[u].vertex # v
    BY <1>3 DEF IInv, MakersOwn
<1> HIDE DEF v
<1>5. tree' \in [Ids -> {Absent} \cup DOMAIN vertices]
    BY <1>1, <1>2
<1>6. \A id \in Ids : tree'[id] = IF id = th[t].id THEN v ELSE tree[id]
    BY <1>1, <1>2
<1>7. NextBeforeIdx'
    BY DEF NextBeforeIdx
<1>8. TreeVerticesReady'
    BY <1>4, <1>6 DEF IInv, TreeVerticesReady
<1>9. MakersOwn'
    BY <1>3, <1>4, <1>6 DEF IInv, MakersOwn
<1>10. VerticesAccounted'
  <2>1. ASSUME NEW x \in DOMAIN vertices', x \notin freed', ~\E u \in Makers' : th'[u].vertex = x
        PROVE  \E id \in Ids : tree'[id] = x
    <3>1. CASE x = v
        BY <1>1, <1>6, <3>1
    <3>2. CASE x # v
      <4>1. PICK id \in Ids : tree[id] = x
          BY <1>3, <2>1, <3>2 DEF IInv, VerticesAccounted, v
      <4>2. x # Absent
          BY <2>1, VertexFields DEF IInv
      <4> QED BY <1>6, <4>1, <4>2
    <3> QED BY <3>1, <3>2
  <2> QED BY <2>1 DEF VerticesAccounted
<1> QED BY <1>5, <1>7, <1>8, <1>9, <1>10

LEMMA KeyPreserves ==
    ASSUME IInv, NEW t \in Threads, Key(t)
    PROVE  IInv'
<1>1. /\ th[t].pc = "key" /\ tree' = Keyed(th[t].id, th[t].vertex) /\ Goto(t, "unlock")
      /\ UNCHANGED <<variant, vertices, freed, table, cnt, held, calls>>
    BY DEF Key
<1>2. variant = "art_table"
    BY <1>1 DEF IInv, WaysApart, TypeOK, Variants, Inside
<1>3. tree[th[t].id] = Absent
    BY <1>1, <1>2 DEF IInv, TableFollowsCnt
<1>4. /\ th' \in [Threads -> Locals] /\ th'[t].pc = "unlock" /\ th'[t].id = th[t].id
      /\ \A u \in Threads : u # t => th'[u] = th[u]
    BY <1>1, GotoFields DEF IInv, Pcs, Inside
<1>5. /\ tree' \in [Ids -> {Absent} \cup DOMAIN vertices]
      /\ NextBeforeIdx' /\ TreeVerticesReady' /\ MakersOwn' /\ VerticesAccounted'
    BY <1>1, <1>2, <1>3, <1>4, KeyTaken
<1>6. TypeOK'
    BY <1>1, <1>4, <1>5 DEF IInv, TypeOK
<1>7. LocksHeld'
    BY <1>1, <1>4, LocksStay DEF IInv, Inside
<1>8. WaysApart'
    BY <1>1, <1>2, <1>4, WaysStay DEF IInv
<1>9. TableFollowsCnt'
  <2>1. \A u \in Threads : u # t => th[u].pc \notin {"count", "grow", "key"}
      BY <1>1, <1>2, OneInside DEF Inside
  <2>2. \A u \in Threads : th'[u].pc \notin {"count", "grow", "key"}
      BY <1>4, <2>1
  <2>3. cnt = Len(table)
      BY <1>1, <1>2, <2>1 DEF IInv, TableFollowsCnt
  <2> QED BY <1>1, <1>2, <2>2, <2>3 DEF IInv, TableFollowsCnt
<1> QED BY <1>5, <1>6, <1>7, <1>8, <1>9 DEF IInv

LEMMA TryKeyPreserves ==
    ASSUME IInv, NEW t \in Threads, TryKey(t)
    PROVE  IInv'
<1>1. /\ th[t].pc = "try" /\ tree' = Keyed(th[t].id, th[t].vertex)
      /\ UNCHANGED <<variant, vertices, table, cnt, held, calls>>
    BY DEF TryKey
<1>2. variant = "art_plain"
    BY <1>1 DEF IInv, WaysApart, TypeOK, Variants
<1>3. CASE tree[th[t].id] = Absent
  <2>1. Goto(t, "return") /\ freed' = freed
      BY <1>3 DEF TryKey
  <2>2. /\ th' \in [Threads -> Locals] /\ th'[t].pc = "return"
        /\ \A u \in Threads : u # t => th'[u] = th[u]
      BY <2>1, GotoFields DEF IInv, Pcs
  <2>3. /\ tree' \in [Ids -> {Absent} \cup DOMAIN vertices]
        /\ NextBeforeIdx' /\ TreeVerticesReady' /\ MakersOwn' /\ VerticesAccounted'
      BY <1>1, <1>2, <1>3, <2>1, <2>2, KeyTaken
  <2>4. TypeOK'
      BY <1>1, <2>1, <2>2, <2>3 DEF IInv, TypeOK
  <2>5. LocksHeld'
      BY <1>1, <2>2, LocksStay DEF IInv, Inside
  <2>6. WaysApart'
      BY <1>1, <1>2, <2>2, WaysStay DEF IInv, Inside
  <2> QED BY <1>1, <1>2, <2>3, <2>4, <2>5, <2>6 DEF IInv, TableFollowsCnt
<1>4. CASE tree[th[t].id] # Absent
  <2> DEFINE v == th[t].vertex
  <2>1. Goto(t, "again") /\ freed' = freed \cup {v}
      BY <1>4 DEF TryKey, Lost
  <2>2. /\ th' \in [Threads -> Locals] /\ th'[t].pc = "again"
        /\ \A u \in Threads : u # t => th'[u] = th[u]
      BY <2>1, GotoFields DEF IInv, Pcs
  <2>3. tree \in [Ids -> {Absent} \cup DOMAIN vertices] /\ v \in DOMAIN vertices /\ th[t].id \in Ids
      BY <1>1, ThreadFields DEF IInv, TypeOK
  <2>4. tree' = tree
      BY <1>1, <1>4, <2>3 DEF Keyed
  <2>5. t \in Makers /\ Makers' = Makers \ {t} /\ \A u \in Makers \ {t} : u \in Threads /\ th'[u] = th[u]
      BY <1>1, <2>2 DEF Makers
  <2>6. (\A id \in Ids : tree[id] # v) /\ \A u \in Makers \ {t} : th[u].vertex # v
      BY <1>2, <2>5 DEF IInv, MakersOwn
  <2> HIDE DEF v
  <2>7. TypeOK'
      BY <1>1, <2>1, <2>2, <2>3, <2>4 DEF IInv, TypeOK
  <2>8. LocksHeld'
      BY <1>1, <2>2, LocksStay DEF IInv, Inside
  <2>9. WaysApart'
      BY <1>1, <1>2, <2>2, WaysStay DEF IInv, Inside
  <2>10. TreeVerticesReady'
      BY <1>1, <1>2, <2>1, <2>4, <2>6 DEF IInv, TreeVerticesReady
  <2>11. MakersOwn'
      BY <1>1, <1>2, <2>1, <2>4, <2>5, <2>6 DEF IInv, MakersOwn
  <2>12. VerticesAccounted'
    <3>1. ASSUME NEW x \in DOMAIN vertices', x \notin freed', ~\E u \in Makers' : th'[u].vertex = x
          PROVE  \E id \in Ids : tree'[id] = x
        BY <1>1, <1>2, <2>1, <2>4, <2>5, <3>1 DEF IInv, VerticesAccounted, v
    <3> QED BY <3>1 DEF VerticesAccounted
  <2> QED BY <1>1, <1>2, <2>7, <2>8, <2>9, <2>10, <2>11, <2>12
          DEF IInv, NextBeforeIdx, TableFollowsCnt
<1> QED BY <1>3, <1>4

\* Steps that change nothing.
LEMMA StutterPreserves ==
    ASSUME IInv, UNCHANGED vars
    PROVE  IInv'
BY DEF vars, IInv, TypeOK, LocksHeld, Lock, WaysApart, NextBeforeIdx, TreeVerticesReady,
       Makers, MakersOwn, VerticesAccounted, TableFollowsCnt

\* Every step of the specification preserves the invariant.
LEMMA NextPreserves ==
    ASSUME IInv, [Next]_vars
    PROVE  IInv'
<1>1. CASE UNCHANGED vars
    BY <1>1, StutterPreserves
<1>2. CASE Done
    BY <1>2, StutterPreserves DEF Done
<1>3. ASSUME NEW t \in Threads, Call(t) \/ Step(t)
      PROVE  IInv'
  <2>1. CASE Call(t)
      BY <2>1, CallPreserves
  <2>2. CASE Look(t) \/ Mark(t) \/ Return(t)
      BY <2>2, LookPreserves, MarkPreserves, ReturnPreserves
  <2>3. CASE Acquire(t) \/ Retry(t) \/ Release(t)
      BY <2>3, AcquirePreserves, ReleasePreserves, StutterPreserves DEF Retry
  <2>4. CASE Second(t) \/ StoreField(t)
      BY <2>4, SecondPreserves, StoreFieldPreserves
  <2>5. CASE Count(t) \/ Grow(t) \/ Key(t)
      BY <2>5, CountPreserves, GrowPreserves, KeyPreserves
  <2>6. CASE Make(t) \/ TryKey(t) \/ GetAgain(t)
      BY <2>6, MakePreserves, TryKeyPreserves, GetAgainPreserves
  <2> QED BY <1>3, <2>1, <2>2, <2>3, <2>4, <2>5, <2>6 DEF Step
<1> QED BY <1>1, <1>2, <1>3 DEF Next

-----------------------------------------------------------------------------
(* The theorems. *)

\* The invariant holds in every reachable state of the array and of ART.
THEOREM Inductive == Spec => []IInv
<1>1. Init => IInv
    BY InitIInv
<1>2. IInv /\ [Next]_vars => IInv'
    BY NextPreserves
<1> QED BY <1>1, <1>2, PTL DEF Spec

\* A bit or the mutex is held exactly while one thread is between the second look and
\* the unlock.
THEOREM LocksAreHeld == Spec => []LocksHeld
<1>1. IInv => LocksHeld
    BY DEF IInv
<1> QED BY <1>1, Inductive, PTL

\* What a lookup without a lock finds has its edge array and its internal ID, and is
\* not deleted (vertex_array.cpp:19-27 and art.cpp:45-53).
THEOREM FoundVerticesReady == Spec => []FoundIsReady
<1>1. IInv => FoundIsReady
  <2> SUFFICES ASSUME IInv, NEW id \in Ids, Find(id) # Absent
               PROVE  /\ vertices[Find(id)].next /\ vertices[Find(id)].idx # NoId
                      /\ Find(id) \notin freed
      BY DEF FoundIsReady
  <2>1. Find(id) \in DOMAIN vertices
      BY FindType
  <2>2. CASE variant = "array"
    <3>1. vertices[Find(id)].idx # NoId
        BY <2>2 DEF Find, Absent
    <3> QED BY <2>1, <2>2, <3>1 DEF IInv, NextBeforeIdx
  <2>3. CASE variant # "array"
      BY <2>3 DEF Find, IInv, TreeVerticesReady
  <2> QED BY <2>2, <2>3
<1> QED BY <1>1, Inductive, PTL

\* With the vertex table, ART puts internal ID i into entry i, for any number of
\* insertions at once.
THEOREM OffsetsAreExact == Spec => []OffsetsExact
<1>1. IInv => OffsetsExact
  <2> SUFFICES ASSUME IInv, variant = "art_table"
               PROVE  /\ \A i \in DOMAIN table : vertices[table[i]].idx = i - 1
                      /\ Len(table) <= cnt /\ (AllIdle => Len(table) = cnt)
      BY DEF OffsetsExact
  <2>1. Len(table) \in Nat /\ cnt \in Nat
      BY LenProperties DEF IInv, TypeOK
  <2>2. CASE \A t \in Threads : th[t].pc # "grow"
      BY <2>1, <2>2 DEF IInv, TableFollowsCnt
  <2>3. CASE \E t \in Threads : th[t].pc = "grow"
      BY <2>1, <2>3 DEF IInv, TableFollowsCnt, AllIdle
  <2> QED BY <2>2, <2>3
<1> QED BY <1>1, Inductive, PTL

\* Of the vertices that racing insertions make, exactly those the tree did not take
\* are deleted once the calls have returned.
THEOREM NothingIsLeaked == Spec => []NothingLeaked
<1>1. IInv => NothingLeaked
  <2> SUFFICES ASSUME IInv, AllIdle, variant # "array", NEW v \in DOMAIN vertices
               PROVE  v \in freed <=> \A id \in Ids : tree[id] # v
      BY DEF NothingLeaked
  <2>1. ~\E t \in Makers : TRUE
      BY DEF AllIdle, Makers
  <2>2. v # Absent
      BY VertexFields DEF IInv
  <2> QED BY <2>1, <2>2 DEF IInv, TreeVerticesReady, VerticesAccounted
<1> QED BY <1>1, Inductive, PTL

-----------------------------------------------------------------------------
(* The implementation of VertexMap: what a call has found out so far. *)

\* A deletion marks the vertex of its ID; only an insertion passes the first look
\* without a vertex; the loser of a race for a key finds the winner's; and idx is
\* stored by the thread that has the bit.
CallPath(t) ==
    /\ th[t].pc = "mark" =>
          th[t].op = "delete" /\ th[t].vertex = Find(th[t].id) /\ Find(th[t].id) # Absent
    /\ th[t].pc \in Inside \cup {"lock", "make", "try", "again"} => th[t].op = "insert"
    /\ th[t].pc = "again" => Find(th[t].id) # Absent
    /\ th[t].pc = "fields" =>
          /\ th[t].vertex = Place(th[t].id)
          /\ "idx" \in th[t].todo => Find(th[t].id) = Absent

CallPaths == \A t \in Threads : CallPath(t)

\* A place of the array is that of one ID.
LEMMA PlacesApart ==
    ASSUME IInv, variant = "array"
    PROVE  /\ \A id \in Ids : Place(id) \in DOMAIN vertices /\ Place(id) \in Nat /\ Place(id) # Absent
           /\ \A i, j \in Ids : Place(i) = Place(j) => i = j
<1>1. Len(vertices) = MaxId + 1 /\ vertices \in Seq(Vertex)
    BY DEF IInv, NextBeforeIdx, TypeOK
<1>2. DOMAIN vertices = 1 .. MaxId + 1
    BY <1>1, LenProperties
<1>3. Ids = 0 .. MaxId /\ MaxId \in Nat
    BY PlainIndexAssumption DEF PlainIndexAssumption, Ids
<1> QED BY <1>2, <1>3 DEF Place, Absent

\* A step is one thread's, and it stays in its call until it returns.
LEMMA CallKept ==
    ASSUME IInv, NEW t \in Threads, Step(t)
    PROVE  /\ variant' = variant
           /\ \A u \in Threads : u # t => th'[u] = th[u]
           /\ th[t].pc # "idle"
           /\ ~Return(t) => /\ th'[t].op = th[t].op /\ th'[t].id = th[t].id
                            /\ th'[t].pc # "idle"
<1>1. th \in [Threads -> Locals] /\ th[t] \in Locals
    BY DEF IInv, TypeOK
<1>2. CASE Look(t)
    BY <1>1, <1>2 DEF Look, Goto, Give, Locals
<1>3. CASE Mark(t) \/ Acquire(t) \/ Release(t) \/ Key(t) \/ TryKey(t)
    BY <1>1, <1>3 DEF Mark, Acquire, Release, Key, TryKey, Goto, Locals
<1>4. CASE Return(t)
    BY <1>1, <1>4 DEF Return
<1>5. CASE Retry(t)
    BY <1>1, <1>5 DEF Retry, vars
<1>6. CASE Second(t)
    BY <1>1, <1>6 DEF Second, Goto, Give, Locals
<1>7. CASE StoreField(t)
    BY <1>1, <1>7 DEF StoreField, Locals
<1>8. CASE Count(t)
    BY <1>1, <1>8 DEF Count, Locals
<1>9. CASE Grow(t) \/ Make(t) \/ GetAgain(t)
    BY <1>1, <1>9 DEF Grow, Make, GetAgain, Give, Locals
<1> QED BY <1>2, <1>3, <1>4, <1>5, <1>6, <1>7, <1>8, <1>9 DEF Step

-----------------------------------------------------------------------------
(* What each step does to the map. *)

Found == [id \in Ids |-> Find(id)]
Marked == {v \in DOMAIN vertices : vertices[v].del}

\* A vertex that is made is not marked.
LEMMA MadeUnmarked ==
    ASSUME IInv, NEW w \in Vertex, ~w.del, vertices' = Append(vertices, w)
    PROVE  Marked' = Marked
<1>1. vertices \in Seq(Vertex)
    BY DEF IInv, TypeOK
<1> DEFINE n == Len(vertices)
<1>2. /\ n \in Nat /\ DOMAIN vertices = 1 .. n /\ DOMAIN vertices' = 1 .. (n + 1)
      /\ \A v \in 1 .. n : vertices'[v] = vertices[v]
      /\ vertices'[n + 1] = w
    BY <1>1, LenProperties, AppendProperties
<1> HIDE DEF n
<1>3. \A v : v \in 1 .. (n + 1) <=> v \in 1 .. n \/ v = n + 1
    BY <1>2
<1> QED BY <1>2, <1>3 DEF Marked

\* Every step but Mark, StoreField, Key and TryKey leaves the map as it is.
LEMMA MapKept ==
    ASSUME IInv, NEW t \in Threads, Call(t) \/ Step(t),
           ~Mark(t), ~StoreField(t), ~Key(t), ~TryKey(t)
    PROVE  (\A id \in Ids : Find(id)' = Find(id)) /\ Marked' = Marked
<1>1. CASE UNCHANGED <<variant, vertices, tree>>
    BY <1>1 DEF Find, Marked
<1>2. CASE Grow(t)
  <2>1. variant # "array" /\ tree' = tree /\ variant' = variant
      BY <1>2 DEF Grow, IInv, WaysApart
  <2>2. [node |-> th[t].id, idx |-> th[t].idx, next |-> TRUE, del |-> FALSE] \in Vertex
      BY <1>2, ThreadFields DEF IInv, Vertex
  <2>3. Marked' = Marked
      BY <1>2, <2>2, MadeUnmarked DEF Grow
  <2> QED BY <2>1, <2>3 DEF Find
<1>3. CASE Make(t)
  <2>1. variant # "array" /\ tree' = tree /\ variant' = variant
      BY <1>3 DEF Make, IInv, WaysApart
  <2>2. th[t].id \in Ids /\ th[t].id \in Nat
    <3>1. th[t].id \in Ids
        BY ThreadFields DEF IInv
    <3> QED BY <3>1, PlainIndexAssumption DEF PlainIndexAssumption, Ids
  <2>3. [node |-> th[t].id, idx |-> th[t].id, next |-> TRUE, del |-> FALSE] \in Vertex
      BY <2>2 DEF Vertex
  <2>4. Marked' = Marked
      BY <1>3, <2>3, MadeUnmarked DEF Make
  <2> QED BY <2>1, <2>4 DEF Find
<1>4. CASE Retry(t)
    BY <1>1, <1>4 DEF Retry, vars
<1>5. CASE Call(t) \/ Look(t) \/ Return(t) \/ Acquire(t) \/ Second(t) \/ Release(t) \/ Count(t)
           \/ GetAgain(t)
    BY <1>1, <1>5 DEF Call, Look, Return, Acquire, Second, Release, Count, GetAgain
<1> QED BY <1>2, <1>3, <1>4, <1>5 DEF Step

\* Mark marks one vertex.
LEMMA MarkMap ==
    ASSUME IInv, NEW t \in Threads, Mark(t)
    PROVE  (\A id \in Ids : Find(id)' = Find(id)) /\ Marked' = Marked \cup {th[t].vertex}
<1> DEFINE v == th[t].vertex
<1>1. v \in DOMAIN vertices /\ vertices[v] \in Vertex /\ vertices \in Seq(Vertex)
    BY VertexFields DEF Mark, IInv, TypeOK
<1>2. vertices' = [vertices EXCEPT ![v] = [vertices[v] EXCEPT !.del = TRUE]]
    BY DEF Mark
<1>3. tree' = tree /\ variant' = variant
    BY DEF Mark
<1> HIDE DEF v
<1>4. [vertices[v] EXCEPT !.del = TRUE].idx = vertices[v].idx /\ [vertices[v] EXCEPT !.del = TRUE].del
    BY <1>1 DEF Vertex
<1>5. /\ DOMAIN vertices' = DOMAIN vertices
      /\ \A x \in DOMAIN vertices : x # v => vertices'[x] = vertices[x]
      /\ vertices'[v].idx = vertices[v].idx /\ vertices'[v].del
    BY <1>1, <1>2, <1>4
<1>6. \A id \in Ids : Find(id)' = Find(id)
  <2>1. CASE variant = "array"
      BY <1>3, <1>5, <2>1, PlacesApart DEF Find
  <2>2. CASE variant # "array"
      BY <1>3, <2>2 DEF Find
  <2> QED BY <2>1, <2>2
<1>7. Marked' = Marked \cup {v}
    BY <1>1, <1>5 DEF Marked
<1> QED BY <1>6, <1>7 DEF v

\* In the array, the store to idx enters the ID, and no other store changes the map.
LEMMA StoreFieldMap ==
    ASSUME IInv, NEW t \in Threads, StoreField(t), th[t].vertex = Place(th[t].id)
    PROVE  /\ Marked' = Marked
           /\ \A id \in Ids : id # th[t].id => Find(id)' = Find(id)
           /\ th'[t].vertex = th[t].vertex /\ th'[t].todo \subseteq th[t].todo
           /\ th'[t].pc \in {"fields", "unlock"} /\ (th'[t].pc = "unlock" => th'[t].todo = {})
           /\ IF "idx" \in th[t].todo /\ "idx" \notin th'[t].todo
              THEN Find(th[t].id)' = Place(th[t].id)
              ELSE Find(th[t].id)' = Find(th[t].id)
<1>1. variant = "array" /\ th[t].pc = "fields" /\ variant' = variant /\ tree' = tree
    BY DEF StoreField, IInv, WaysApart, TypeOK, Variants, Inside
<1>2. PICK f \in Storable(th[t].todo) :
        /\ vertices' = [vertices EXCEPT ![th[t].vertex][f] = IF f = "next" THEN TRUE ELSE th[t].id]
        /\ th' = [th EXCEPT ![t].todo = @ \ {f},
                            ![t].pc = IF th[t].todo = {f} THEN "unlock" ELSE "fields"]
    BY DEF StoreField
<1>3. th \in [Threads -> Locals] /\ th[t] \in Locals
    BY DEF IInv, TypeOK
<1>4. th[t].id \in Ids /\ th[t].id # NoId /\ th[t].todo \subseteq Fields
  <2>1. th[t].id \in Ids /\ th[t].todo \subseteq Fields
      BY ThreadFields DEF IInv
  <2> QED BY <2>1, PlainIndexAssumption DEF PlainIndexAssumption, Ids, NoId
<1>5. f \in th[t].todo /\ f \in Fields
    BY <1>4 DEF Storable
<1>6. PICK v \in DOMAIN vertices : v = th[t].vertex /\ v = Place(th[t].id)
    BY <1>1 DEF IInv, TypeOK
<1>7. vertices[v] \in Vertex
    BY VertexFields DEF IInv
<1>8. PICK w : w = [vertices[v] EXCEPT ![f] = IF f = "next" THEN TRUE ELSE th[t].id]
    OBVIOUS
<1>9. w.del = vertices[v].del /\ w.idx = IF f = "idx" THEN th[t].id ELSE vertices[v].idx
  <2>1. CASE f = "next"
      BY <1>7, <1>8, <2>1 DEF Vertex
  <2>2. CASE f = "node"
      BY <1>7, <1>8, <2>2 DEF Vertex
  <2>3. CASE f = "idx"
      BY <1>7, <1>8, <2>3 DEF Vertex
  <2> QED BY <1>5, <2>1, <2>2, <2>3 DEF Fields
<1>10. vertices' = [vertices EXCEPT ![v] = w]
    BY <1>2, <1>6, <1>8
<1>11. vertices \in Seq(Vertex) /\ vertices \in [DOMAIN vertices -> Vertex]
  <2>1. vertices \in Seq(Vertex)
      BY DEF IInv, TypeOK
  <2> QED BY <2>1, LenProperties
<1>12. /\ DOMAIN vertices' = DOMAIN vertices
       /\ \A x \in DOMAIN vertices : x # v => vertices'[x] = vertices[x]
       /\ vertices'[v] = w
    BY <1>10, <1>11
<1>13. Marked' = Marked
    BY <1>9, <1>12 DEF Marked
<1>14. \A id \in Ids : id # th[t].id => Place(id) # v /\ Place(id) \in DOMAIN vertices
    BY <1>1, <1>4, <1>6, PlacesApart
<1>15. \A id \in Ids : id # th[t].id => Find(id)' = Find(id)
    BY <1>1, <1>12, <1>14 DEF Find
<1>16. /\ th'[t].vertex = th[t].vertex /\ th'[t].todo = th[t].todo \ {f}
       /\ th'[t].pc = IF th[t].todo = {f} THEN "unlock" ELSE "fields"
    BY <1>2, <1>3 DEF Locals
<1>17. CASE f = "idx"
  <2>1. Find(th[t].id)' = Place(th[t].id)
    <3>1. th'[t].id = th[t].id
        BY CallKept DEF Step, StoreField, Return
    <3>2. vertices'[v].idx # NoId
        BY <1>4, <1>9, <1>12, <1>17
    <3> QED BY <1>1, <1>6, <3>1, <3>2 DEF Find
  <2> QED BY <1>5, <1>13, <1>15, <1>16, <1>17, <2>1
<1>18. CASE f # "idx"
  <2>1. Find(th[t].id)' = Find(th[t].id)
    <3>1. th'[t].id = th[t].id
        BY CallKept DEF Step, StoreField, Return
    <3> QED BY <1>1, <1>6, <1>9, <1>12, <1>18, <3>1 DEF Find
  <2>2. "idx" \in th'[t].todo <=> "idx" \in th[t].todo
      BY <1>16, <1>18
  <2> QED BY <1>13, <1>15, <1>16, <2>1, <2>2
<1> QED BY <1>17, <1>18

\* In ART, Key enters the ID, and so does the TryKey that wins; the one that loses leaves
\* the map as it is.
LEMMA KeyMap ==
    ASSUME IInv, NEW t \in Threads, Key(t) \/ TryKey(t)
    PROVE  /\ Marked' = Marked /\ th'[t].vertex = th[t].vertex
           /\ IF Find(th[t].id) = Absent
              THEN /\ th'[t].pc \in {"unlock", "return"}
                   /\ th[t].vertex # Absent /\ \A id \in Ids : Find(id) # th[t].vertex
                   /\ Found' = [Found EXCEPT ![th[t].id] = th[t].vertex]
              ELSE /\ TryKey(t) /\ th'[t].pc = "again"
                   /\ Found' = Found
<1>1. th \in [Threads -> Locals] /\ th[t] \in Locals /\ th[t].id \in Ids
    BY ThreadFields DEF IInv, TypeOK
<1>2. /\ th[t].pc \in {"key", "try"} /\ variant # "array" /\ variant' = variant /\ vertices' = vertices
      /\ tree' = Keyed(th[t].id, th[t].vertex)
    BY DEF Key, TryKey, IInv, WaysApart
<1>3. tree \in [Ids -> {Absent} \cup DOMAIN vertices]
    BY DEF IInv, TypeOK
<1>4. Found = tree /\ Found' = tree' /\ \A id \in Ids : Find(id) = tree[id]
    BY <1>2, <1>3 DEF Found, Find, Keyed
<1>5. th[t].vertex # Absent /\ \A id \in Ids : tree[id] # th[t].vertex
  <2>1. t \in Makers
      BY <1>2 DEF Makers
  <2>2. th[t].vertex \in DOMAIN vertices
      BY <1>2 DEF IInv, TypeOK
  <2> QED BY <1>2, <2>1, <2>2, VertexFields DEF IInv, MakersOwn
<1>6. Key(t) => tree[th[t].id] = Absent
  <2>1. Key(t) => variant = "art_table" /\ th[t].pc = "key"
      BY DEF Key, IInv, WaysApart, TypeOK, Variants, Inside
  <2> QED BY <2>1 DEF IInv, TableFollowsCnt
<1>7. th'[t].vertex = th[t].vertex
    BY <1>1 DEF Key, TryKey, Goto, Locals
<1>8. Marked' = Marked
    BY <1>2 DEF Marked
<1>9. CASE tree[th[t].id] = Absent
  <2>1. th'[t].pc \in {"unlock", "return"}
      BY <1>1, <1>9 DEF Key, TryKey, Goto, Locals
  <2>2. Keyed(th[t].id, th[t].vertex) = [tree EXCEPT ![th[t].id] = th[t].vertex]
      BY <1>9 DEF Keyed
  <2> QED BY <1>1, <1>2, <1>4, <1>5, <1>7, <1>8, <1>9, <2>1, <2>2
<1>10. CASE tree[th[t].id] # Absent
  <2>1. TryKey(t) /\ th'[t].pc = "again"
      BY <1>1, <1>6, <1>10 DEF TryKey, Goto, Locals
  <2>2. Keyed(th[t].id, th[t].vertex) = tree
      BY <1>3, <1>10 DEF Keyed
  <2> QED BY <1>1, <1>2, <1>4, <1>7, <1>8, <1>10, <2>1, <2>2
<1> QED BY <1>9, <1>10

\* The vertex of an ID stays.
LEMMA FoundStays ==
    ASSUME IInv, CallPaths, NEW t \in Threads, Call(t) \/ Step(t), NEW id \in Ids, Find(id) # Absent
    PROVE  Find(id)' = Find(id)
<1>1. CASE StoreField(t)
  <2>1. th[t].pc = "fields"
      BY <1>1 DEF StoreField
  <2>2. th[t].vertex = Place(th[t].id) /\ ("idx" \in th[t].todo => Find(th[t].id) = Absent)
      BY <2>1 DEF CallPaths, CallPath
  <2>3. th'[t].id = th[t].id
      BY <1>1, CallKept DEF Step, StoreField, Return
  <2>4. CASE id = th[t].id
    <3>1. Find(th[t].id)' = Find(th[t].id)
        BY <1>1, <2>2, <2>4, StoreFieldMap
    <3> QED BY <2>3, <2>4, <3>1
  <2> QED BY <1>1, <2>2, <2>4, StoreFieldMap
<1>2. CASE Key(t) \/ TryKey(t)
  <2>1. Found' = Found \/ (Find(th[t].id) = Absent /\ Found' = [Found EXCEPT ![th[t].id] = th[t].vertex])
      BY <1>2, KeyMap
  <2>2. Found'[id] = Found[id]
    <3>1. CASE Found' = Found
        BY <3>1
    <3>2. CASE Find(th[t].id) = Absent /\ Found' = [Found EXCEPT ![th[t].id] = th[t].vertex]
      <4>1. id # th[t].id
          BY <3>2
      <4> QED BY <3>2, <4>1 DEF Found
    <3> QED BY <2>1, <3>1, <3>2
  <2> QED BY <2>2 DEF Found
<1>3. CASE Mark(t)
    BY <1>3, MarkMap
<1> QED BY <1>1, <1>2, <1>3, MapKept

-----------------------------------------------------------------------------
(* CallPaths is inductive relative to IInv. *)

\* A step of one thread leaves what the other threads have found out true.
LEMMA OthersPaths ==
    ASSUME IInv, CallPaths, NEW t \in Threads, Call(t) \/ Step(t), variant' = variant,
           NEW u \in Threads, u # t, th'[u] = th[u]
    PROVE  CallPath(u)'
<1>1. CallPath(u) /\ th[u].id \in Ids
    BY ThreadFields DEF IInv, CallPaths
<1>2. Find(th[u].id) # Absent => Find(th[u].id)' = Find(th[u].id)
  <2>1. ASSUME NEW id \in Ids, Find(id) # Absent
        PROVE  Find(id)' = Find(id)
      BY <2>1, FoundStays
  <2>2. PICK id \in Ids : id = th[u].id
      BY <1>1
  <2> QED BY <2>1, <2>2
<1>3. (th[u].pc = "fields" /\ Find(th[u].id) = Absent) => Find(th[u].id)' = Absent
  <2> SUFFICES ASSUME th[u].pc = "fields", Find(th[u].id) = Absent
               PROVE  Find(th[u].id)' = Absent
      OBVIOUS
  <2>1. variant = "array"
      BY DEF IInv, WaysApart, TypeOK, Variants, Inside
  <2>2. PICK id \in Ids : id = th[u].id
      BY <1>1
  <2>3. Find(id)' = Find(id)
    <3>1. CASE StoreField(t)
      <4>1. th[t].pc = "fields" /\ th[t].vertex = Place(th[t].id)
          BY <3>1 DEF StoreField, CallPaths, CallPath
      <4>2. th[t].id # id
          BY <2>1, <2>2, <4>1 DEF IInv, LocksHeld, Lock, Inside
      <4> QED BY <3>1, <4>1, <4>2, StoreFieldMap
    <3>2. ~Key(t) /\ ~TryKey(t)
        BY <2>1 DEF Key, TryKey, IInv, WaysApart
    <3>3. CASE Mark(t)
        BY <3>3, MarkMap
    <3> QED BY <3>1, <3>2, <3>3, MapKept
  <2> QED BY <2>2, <2>3
<1> QED BY <1>1, <1>2, <1>3 DEF CallPath, Place

\* A step keeps what its own thread has found out true.
LEMMA OwnPath ==
    ASSUME IInv, CallPaths, NEW t \in Threads, Step(t), th' \in [Threads -> Locals]
    PROVE  CallPath(t)'
<1>1. th \in [Threads -> Locals] /\ th[t] \in Locals /\ th[t].id \in Ids /\ CallPath(t)
    BY ThreadFields DEF IInv, TypeOK, CallPaths
<1>2. ~Return(t) => th'[t].op = th[t].op /\ th'[t].id = th[t].id
    BY CallKept
<1>3. ~Mark(t) /\ ~StoreField(t) /\ ~Key(t) /\ ~TryKey(t) => \A id \in Ids : Find(id)' = Find(id)
    BY MapKept
<1>4. CASE Look(t)
  <2>1. th'[t].id = th[t].id /\ th'[t].op = th[t].op /\ Find(th[t].id)' = Find(th[t].id)
      BY <1>1, <1>2, <1>3, <1>4 DEF Look, Return, Mark, StoreField, Key, TryKey
  <2>2. \/ th'[t].pc \in {"make", "lock"} /\ th[t].op = "insert"
        \/ th'[t].pc = "mark" /\ th[t].op = "delete" /\ th'[t].vertex = Find(th[t].id)
              /\ Find(th[t].id) # Absent
        \/ th'[t].pc = "return"
      BY <1>1, <1>4 DEF Look, Goto, Give, Locals
  <2> QED BY <2>1, <2>2 DEF CallPath, Inside
<1>5. CASE Mark(t) \/ Release(t) \/ GetAgain(t)
  <2>1. th'[t].pc = "return"
      BY <1>1, <1>5 DEF Mark, Release, GetAgain, Goto, Give, Locals
  <2> QED BY <2>1 DEF CallPath, Inside
<1>6. CASE Return(t)
  <2>1. th'[t].pc = "idle"
      BY <1>1, <1>6 DEF Return, Idle
  <2> QED BY <2>1 DEF CallPath, Inside
<1>7. CASE Acquire(t) \/ Count(t) \/ Grow(t) \/ Key(t) \/ Make(t)
  <2>1. th[t].op = "insert" /\ th'[t].op = th[t].op
      BY <1>1, <1>2, <1>7
         DEF CallPath, Inside, Acquire, Count, Grow, Key, Make, Return
  <2>2. th'[t].pc \in {"second", "grow", "key", "unlock", "try"}
      BY <1>1, <1>7 DEF Acquire, Count, Grow, Key, Make, Goto, Give, Locals
  <2> QED BY <2>1, <2>2 DEF CallPath
<1>8. CASE Retry(t)
  <2>1. th' = th /\ Find(th[t].id)' = Find(th[t].id)
      BY <1>8 DEF Retry, vars, Find
  <2> QED BY <1>1, <1>8, <2>1 DEF CallPath, Retry
<1>9. CASE Second(t)
  <2>1. th[t].op = "insert" /\ th'[t].op = th[t].op /\ th'[t].id = th[t].id
      BY <1>1, <1>2, <1>9 DEF CallPath, Inside, Second, Return
  <2>2. Find(th[t].id)' = Find(th[t].id)
      BY <1>1, <1>3, <1>9, <2>1 DEF Second, Mark, StoreField, Key, TryKey
  <2>3. \/ th'[t].pc \in {"unlock", "count"}
        \/ th'[t].pc = "fields" /\ th'[t].vertex = Place(th[t].id) /\ Find(th[t].id) = Absent
      BY <1>1, <1>9 DEF Second, SecondLook, Goto, Give, Locals
  <2> QED BY <2>1, <2>2, <2>3 DEF CallPath
<1>10. CASE StoreField(t)
  <2>1. th[t].pc = "fields" /\ th[t].op = "insert" /\ th'[t].op = th[t].op /\ th'[t].id = th[t].id
        /\ th[t].vertex = Place(th[t].id) /\ ("idx" \in th[t].todo => Find(th[t].id) = Absent)
      BY <1>1, <1>2, <1>10 DEF CallPath, Inside, StoreField, Return
  <2>2. /\ th'[t].vertex = th[t].vertex /\ th'[t].todo \subseteq th[t].todo
        /\ th'[t].pc \in {"fields", "unlock"}
        /\ "idx" \in th'[t].todo => Find(th[t].id)' = Find(th[t].id)
      BY <1>10, <2>1, StoreFieldMap
  <2> QED BY <2>1, <2>2 DEF CallPath
<1>11. CASE TryKey(t)
  <2>1. th[t].op = "insert" /\ th'[t].op = th[t].op /\ th'[t].id = th[t].id
      BY <1>1, <1>2, <1>11 DEF CallPath, TryKey, Return
  <2>2. th'[t].pc \in {"return", "again"}
      BY <1>11, KeyMap, <1>1 DEF TryKey, Goto, Locals
  <2>3. th'[t].pc = "again" => Find(th[t].id)' # Absent
    <3> SUFFICES ASSUME th'[t].pc = "again"
                 PROVE  Find(th[t].id)' # Absent
        OBVIOUS
    <3>1. Find(th[t].id) # Absent
        BY <1>11, KeyMap
    <3>2. PICK id \in Ids : id = th[t].id
        BY <1>1
    <3>3. Find(id)' = Find(id)
        BY <3>1, <3>2, FoundStays
    <3> QED BY <2>1, <3>1, <3>2, <3>3
  <2> QED BY <2>1, <2>2, <2>3 DEF CallPath, Inside
<1> QED BY <1>4, <1>5, <1>6, <1>7, <1>8, <1>9, <1>10, <1>11 DEF Step

\* The call of a new request.
LEMMA CallStarts ==
    ASSUME IInv, NEW t \in Threads, Call(t)
    PROVE  /\ variant' = variant /\ th[t].pc = "idle" /\ th'[t].pc = "look"
           /\ th'[t].op \in Ops /\ th'[t].id \in Ids
           /\ \A u \in Threads : u # t => th'[u] = th[u]
<1>1. PICK op \in Ops, id \in Ids :
          th' = [th EXCEPT ![t] = [Idle EXCEPT !.pc = "look", !.op = op, !.id = id]]
    BY DEF Call
<1>2. th \in [Threads -> Locals]
    BY DEF IInv, TypeOK
<1> QED BY <1>1, <1>2 DEF Call, Idle

\* Every step keeps CallPaths.
LEMMA CallPathsStep ==
    ASSUME IInv, IInv', CallPaths, [Next]_vars
    PROVE  CallPaths'
<1>1. CASE UNCHANGED vars
    BY <1>1 DEF vars, CallPaths, CallPath, Find
<1>2. CASE Done
    BY <1>2 DEF Done, vars, CallPaths, CallPath, Find
<1>3. ASSUME NEW t \in Threads, Call(t) \/ Step(t)
      PROVE  CallPaths'
  <2>1. variant' = variant /\ \A u \in Threads : u # t => th'[u] = th[u]
      BY <1>3, CallKept, CallStarts
  <2>2. ASSUME NEW u \in Threads, u # t
        PROVE  CallPath(u)'
      BY <1>3, <2>1, <2>2, OthersPaths
  <2>3. CallPath(t)'
    <3>1. CASE Call(t)
        BY <3>1, CallStarts DEF CallPath, Inside
    <3>2. CASE Step(t)
        BY <3>2, OwnPath DEF IInv, TypeOK
    <3> QED BY <1>3, <3>1, <3>2
  <2> QED BY <2>2, <2>3 DEF CallPaths
<1> QED BY <1>1, <1>2, <1>3 DEF Next

LEMMA CallPathsAlways == Spec => []CallPaths
<1>1. Init => CallPaths
    BY DEF Init, Idle, CallPaths, CallPath, Inside
<1>2. IInv /\ IInv' /\ CallPaths /\ [Next]_vars => CallPaths'
    BY CallPathsStep
<1> QED BY <1>1, <1>2, Inductive, PTL DEF Spec

-----------------------------------------------------------------------------
(* Every step is a step of the map, or none. *)

Requested(t) == IF th[t].pc = "idle" THEN {} ELSE {[op |-> th[t].op, id |-> th[t].id]}
Answered(t) == IF Settled(t) THEN {th[t].vertex} ELSE {}

\* The threads that do not take the step have the same requests and answers.
LEMMA OthersSame ==
    ASSUME NEW u \in Threads, th'[u] = th[u]
    PROVE  Requested(u)' = Requested(u) /\ Answered(u)' = Answered(u)
BY DEF Requested, Answered, Settled

\* A step that decides nothing.
LEMMA NoStepOfMap ==
    ASSUME NEW t \in Threads, \A u \in Threads : u # t => th'[u] = th[u],
           Found' = Found, Marked' = Marked,
           Requested(t)' = Requested(t), Answered(t)' = Answered(t)
    PROVE  UNCHANGED Abstract!ivars
<1>1. \A u \in Threads : Requested(u)' = Requested(u) /\ Answered(u)' = Answered(u)
    BY OthersSame
<1> QED BY <1>1 DEF Abstract!ivars, Found, Marked, Requested, Answered

\* A step that decides a call, and does not change the map.
LEMMA LookOfMap ==
    ASSUME NEW t \in Threads, \A u \in Threads : u # t => th'[u] = th[u],
           Found' = Found, th[t].id \in Ids,
           th[t].pc # "idle", th'[t].pc # "idle", th'[t].op = th[t].op, th'[t].id = th[t].id,
           ~Settled(t), Settled(t)', th'[t].vertex = Find(th[t].id),
           th[t].op = "insert" => Find(th[t].id) # Absent,
           Marked' = IF th[t].op = "delete" /\ Find(th[t].id) # Absent
                     THEN Marked \cup {Find(th[t].id)} ELSE Marked
    PROVE  Abstract!Look(t)
<1> DEFINE q == [op |-> th[t].op, id |-> th[t].id]
           Requests == [u \in Threads |-> Requested(u)]
           Answers == [u \in Threads |-> Answered(u)]
<1>1. \A u \in Threads : u # t => Requested(u)' = Requested(u) /\ Answered(u)' = Answered(u)
    BY OthersSame
<1>2. Requested(t) = {q} /\ Requested(t)' = {q} /\ Answered(t) = {} /\ Answered(t)' = {Find(th[t].id)}
    BY DEF Requested, Answered
<1>3. q.op = th[t].op /\ q.id = th[t].id /\ Found[q.id] = Find(th[t].id)
    BY DEF Found
<1> HIDE DEF q
<1>4. Requests' = Requests /\ Answers' = [Answers EXCEPT ![t] = {Found[q.id]}]
    BY <1>1, <1>2, <1>3
<1>5. Requests[t] = {q} /\ Answers[t] = {}
    BY <1>2
<1>6. /\ q.op = "insert" => Found[q.id] # Abstract!Absent
      /\ Marked' = IF q.op = "delete" /\ Found[q.id] # Abstract!Absent
                   THEN Marked \cup {Found[q.id]} ELSE Marked
    BY <1>3 DEF Abstract!Absent, Absent
<1>7. \E x \in Requests[t] :
         /\ x.op = "insert" => Found[x.id] # Abstract!Absent
         /\ Answers' = [Answers EXCEPT ![t] = {Found[x.id]}]
         /\ Marked' = IF x.op = "delete" /\ Found[x.id] # Abstract!Absent
                      THEN Marked \cup {Found[x.id]} ELSE Marked
    BY <1>4, <1>5, <1>6
<1> QED BY <1>4, <1>5, <1>7 DEF Abstract!Look, Found, Marked, Requested, Answered

\* A step that gives an ID a vertex of its own.
LEMMA EnterOfMap ==
    ASSUME NEW t \in Threads, \A u \in Threads : u # t => th'[u] = th[u],
           th[t].id \in Ids, th[t].op = "insert", Find(th[t].id) = Absent,
           th[t].pc # "idle", th'[t].pc # "idle", th'[t].op = th[t].op, th'[t].id = th[t].id,
           ~Settled(t), Settled(t)', th'[t].vertex = th[t].vertex,
           th[t].vertex # Absent, \A id \in Ids : Find(id) # th[t].vertex,
           Found' = [Found EXCEPT ![th[t].id] = th[t].vertex], Marked' = Marked
    PROVE  Abstract!Enter(t)
<1> DEFINE q == [op |-> th[t].op, id |-> th[t].id]
           v == th[t].vertex
           Requests == [u \in Threads |-> Requested(u)]
           Answers == [u \in Threads |-> Answered(u)]
<1>1. \A u \in Threads : u # t => Requested(u)' = Requested(u) /\ Answered(u)' = Answered(u)
    BY OthersSame
<1>2. Requested(t) = {q} /\ Requested(t)' = {q} /\ Answered(t) = {} /\ Answered(t)' = {v}
    BY DEF Requested, Answered
<1>3. /\ q.op = "insert" /\ q.id = th[t].id /\ q.id \in Ids /\ Found[q.id] = Abstract!Absent
      /\ v \notin {Found[id] : id \in Ids} \cup {Abstract!Absent}
    BY DEF Found, Abstract!Absent, Absent
<1> HIDE DEF q, v
<1>4. Found' = [Found EXCEPT ![q.id] = v] /\ Found'[q.id] = v
    BY <1>3 DEF Found, v
<1>5. Requests' = Requests /\ Answers' = [Answers EXCEPT ![t] = {v}]
    BY <1>1, <1>2
<1>6. Requests[t] = {q} /\ Answers[t] = {}
    BY <1>2
<1>7. \E x \in Requests[t] :
         /\ x.op = "insert" /\ Found[x.id] = Abstract!Absent
         /\ Found'[x.id] \notin {Found[id] : id \in Ids} \cup {Abstract!Absent}
         /\ Found' = [Found EXCEPT ![x.id] = Found'[x.id]]
         /\ Answers' = [Answers EXCEPT ![t] = {Found'[x.id]}]
    BY <1>3, <1>4, <1>5, <1>6
<1> QED BY <1>5, <1>6, <1>7 DEF Abstract!Enter, Found, Marked, Requested, Answered

\* A step that decides nothing leaves what is asked and answered as it is.
LEMMA QuietStep ==
    ASSUME IInv, NEW t \in Threads, Step(t), ~Return(t),
           Found' = Found, Marked' = Marked, ~Settled(t), ~Settled(t)'
    PROVE  UNCHANGED Abstract!ivars
<1>1. /\ \A u \in Threads : u # t => th'[u] = th[u]
      /\ th[t].pc # "idle" /\ th'[t].pc # "idle" /\ th'[t].op = th[t].op /\ th'[t].id = th[t].id
    BY CallKept
<1> QED BY <1>1, NoStepOfMap DEF Requested, Answered

\* A call is invoked.
LEMMA CallSimulates ==
    ASSUME IInv, NEW t \in Threads, Call(t)
    PROVE  Abstract!Invoke(t)
<1>1. /\ th[t].pc = "idle" /\ th'[t].pc = "look" /\ th'[t].op \in Ops /\ th'[t].id \in Ids
      /\ \A u \in Threads : u # t => th'[u] = th[u]
    BY CallStarts
<1>2. Found' = Found /\ Marked' = Marked
  <2>1. ~Mark(t) /\ ~StoreField(t) /\ ~Key(t) /\ ~TryKey(t)
      BY <1>1 DEF Mark, StoreField, Key, TryKey
  <2> QED BY <2>1, MapKept DEF Found
<1> DEFINE Requests == [u \in Threads |-> Requested(u)]
           q == [op |-> th'[t].op, id |-> th'[t].id]
<1>3. \A u \in Threads : u # t => Requested(u)' = Requested(u) /\ Answered(u)' = Answered(u)
    BY <1>1, OthersSame
<1>4. Requested(t) = {} /\ Requested(t)' = {q} /\ Answered(t) = {} /\ Answered(t)' = {}
    BY <1>1 DEF Requested, Answered, Settled
<1>5. Requests[t] = {} /\ Requests' = [Requests EXCEPT ![t] = {q}]
    BY <1>3, <1>4
<1>6. [u \in Threads |-> Answered(u)]' = [u \in Threads |-> Answered(u)]
    BY <1>3, <1>4
<1>7. \E op \in Abstract!Ops, id \in Ids : Requests' = [Requests EXCEPT ![t] = {[op |-> op, id |-> id]}]
    BY <1>1, <1>5 DEF Ops, Abstract!Ops
<1> QED BY <1>2, <1>5, <1>6, <1>7 DEF Abstract!Invoke, Found, Marked, Requested, Answered

\* The answer is given.
LEMMA ReturnSimulates ==
    ASSUME IInv, NEW t \in Threads, Return(t)
    PROVE  Abstract!Return(t)
<1>1. /\ th[t].pc = "return" /\ th'[t].pc = "idle"
      /\ \A u \in Threads : u # t => th'[u] = th[u]
    BY DEF Return, Idle, IInv, TypeOK
<1>2. Found' = Found /\ Marked' = Marked
  <2>1. ~Mark(t) /\ ~StoreField(t) /\ ~Key(t) /\ ~TryKey(t)
      BY <1>1 DEF Mark, StoreField, Key, TryKey
  <2> QED BY <2>1, MapKept DEF Found, Step
<1> DEFINE Requests == [u \in Threads |-> Requested(u)]
           Answers == [u \in Threads |-> Answered(u)]
<1>3. \A u \in Threads : u # t => Requested(u)' = Requested(u) /\ Answered(u)' = Answered(u)
    BY <1>1, OthersSame
<1>4. Requested(t)' = {} /\ Answered(t) # {} /\ Answered(t)' = {}
    BY <1>1 DEF Requested, Answered, Settled
<1>5. /\ Answers[t] # {} /\ Requests' = [Requests EXCEPT ![t] = {}]
      /\ Answers' = [Answers EXCEPT ![t] = {}]
    BY <1>3, <1>4
<1> QED BY <1>2, <1>5 DEF Abstract!Return, Found, Marked, Requested, Answered

\* A look decides the call when it finds the vertex, or none is to be made; a deletion
\* is decided when it marks the vertex.
LEMMA LookSimulates ==
    ASSUME IInv, CallPaths, NEW t \in Threads, Look(t) \/ Mark(t) \/ Second(t) \/ GetAgain(t)
    PROVE  Abstract!Look(t) \/ UNCHANGED Abstract!ivars
<1>1. th \in [Threads -> Locals] /\ th[t] \in Locals /\ th[t].id \in Ids /\ CallPath(t)
    BY ThreadFields DEF IInv, TypeOK, CallPaths
<1>2. Step(t) /\ ~Return(t)
    BY DEF Step, Look, Mark, Second, GetAgain, Return
<1>3. /\ \A u \in Threads : u # t => th'[u] = th[u]
      /\ th[t].pc # "idle" /\ th'[t].pc # "idle" /\ th'[t].op = th[t].op /\ th'[t].id = th[t].id
    BY <1>2, CallKept
<1>4. ~Settled(t)
    BY DEF Look, Mark, Second, GetAgain, Settled
<1>5. Found' = Found
  <2>1. CASE Mark(t)
      BY <2>1, MarkMap DEF Found
  <2>2. CASE ~Mark(t)
    <3>1. ~StoreField(t) /\ ~Key(t) /\ ~TryKey(t)
        BY <2>2 DEF Look, Second, GetAgain, StoreField, Key, TryKey
    <3> QED BY <1>2, <2>2, <3>1, MapKept DEF Found
  <2> QED BY <2>1, <2>2
<1>6. ~Mark(t) => Marked' = Marked
  <2>1. ~Mark(t) => ~StoreField(t) /\ ~Key(t) /\ ~TryKey(t)
      BY DEF Look, Second, GetAgain, StoreField, Key, TryKey
  <2> QED BY <1>2, <2>1, MapKept
<1>7. CASE Look(t)
  <2>1. ~Mark(t)
      BY <1>7 DEF Look, Mark
  <2>2. CASE th'[t].pc = "return"
    <3>1. th'[t].vertex = Find(th[t].id)
        BY <1>1, <1>7, <2>2 DEF Look, Goto, Give, Locals
    <3>2. Find(th[t].id) = Absent => th[t].op # "insert"
        BY <1>1, <1>7, <2>2 DEF Look, Goto, Locals
    <3>3. Find(th[t].id) # Absent => th[t].op # "delete"
        BY <1>1, <1>7, <2>2 DEF Look, Give, Locals
    <3>4. Settled(t)'
        BY <2>2 DEF Settled
    <3> QED BY <1>1, <1>3, <1>4, <1>5, <1>6, <2>1, <3>1, <3>2, <3>3, <3>4, LookOfMap
  <2>3. CASE th'[t].pc # "return"
    <3>1. th'[t].pc \in {"make", "lock", "mark"}
        BY <1>1, <1>7, <2>3 DEF Look, Goto, Give, Locals
    <3> QED BY <1>2, <1>4, <1>5, <1>6, <2>1, <3>1, QuietStep DEF Settled
  <2> QED BY <2>2, <2>3
<1>8. CASE Mark(t)
  <2>1. th[t].op = "delete" /\ th[t].vertex = Find(th[t].id) /\ Find(th[t].id) # Absent
      BY <1>1, <1>8 DEF CallPath, Mark
  <2>2. th'[t].pc = "return" /\ th'[t].vertex = th[t].vertex
      BY <1>1, <1>8 DEF Mark, Goto, Locals
  <2>3. Marked' = Marked \cup {Find(th[t].id)}
      BY <1>8, <2>1, MarkMap
  <2> QED BY <1>1, <1>3, <1>4, <1>5, <2>1, <2>2, <2>3, LookOfMap DEF Settled
<1>9. CASE Second(t)
  <2>1. ~Mark(t) /\ th[t].op = "insert"
      BY <1>1, <1>9 DEF Second, Mark, CallPath, Inside
  <2>2. CASE th'[t].pc = "unlock"
    <3>1. th'[t].vertex = Find(th[t].id) /\ Find(th[t].id) # Absent
        BY <1>1, <1>9, <2>2 DEF Second, SecondLook, Goto, Give, Locals
    <3> QED BY <1>1, <1>3, <1>4, <1>5, <1>6, <2>1, <2>2, <3>1, LookOfMap DEF Settled
  <2>3. CASE th'[t].pc # "unlock"
    <3>1. th'[t].pc = "count" \/ (th'[t].pc = "fields" /\ "idx" \in th'[t].todo)
        BY <1>1, <1>9, <2>3 DEF Second, Goto, Give, Locals
    <3> QED BY <1>2, <1>4, <1>5, <1>6, <2>1, <3>1, QuietStep DEF Settled
  <2> QED BY <2>2, <2>3
<1>10. CASE GetAgain(t)
  <2>1. ~Mark(t) /\ th[t].op = "insert" /\ Find(th[t].id) # Absent
      BY <1>1, <1>10 DEF GetAgain, Mark, CallPath
  <2>2. th'[t].pc = "return" /\ th'[t].vertex = tree[th[t].id]
      BY <1>1, <1>10 DEF GetAgain, Give, Locals
  <2>3. tree[th[t].id] = Find(th[t].id)
      BY <1>10 DEF GetAgain, Find, IInv, WaysApart
  <2> QED BY <1>1, <1>3, <1>4, <1>5, <1>6, <2>1, <2>2, <2>3, LookOfMap DEF Settled
<1> QED BY <1>7, <1>8, <1>9, <1>10

\* The store to idx, Key and the TryKey that wins enter the ID.
LEMMA EnterSimulates ==
    ASSUME IInv, CallPaths, NEW t \in Threads, StoreField(t) \/ Key(t) \/ TryKey(t)
    PROVE  Abstract!Enter(t) \/ UNCHANGED Abstract!ivars
<1>1. th[t].id \in Ids /\ CallPath(t)
    BY ThreadFields DEF IInv, TypeOK, CallPaths
<1>2. Step(t) /\ ~Return(t)
    BY DEF Step, StoreField, Key, TryKey, Return
<1>3. /\ \A u \in Threads : u # t => th'[u] = th[u]
      /\ th[t].pc # "idle" /\ th'[t].pc # "idle" /\ th'[t].op = th[t].op /\ th'[t].id = th[t].id
    BY <1>2, CallKept
<1>4. th[t].op = "insert"
    BY <1>1 DEF CallPath, Inside, StoreField, Key, TryKey
<1>5. CASE StoreField(t)
  <2>1. /\ variant = "array" /\ th[t].pc = "fields" /\ th[t].vertex = Place(th[t].id)
        /\ "idx" \in th[t].todo => Find(th[t].id) = Absent
      BY <1>1, <1>5 DEF CallPath, StoreField, IInv, WaysApart, TypeOK, Variants, Inside
  <2>2. /\ Marked' = Marked
        /\ \A id \in Ids : id # th[t].id => Find(id)' = Find(id)
        /\ th'[t].vertex = th[t].vertex /\ th'[t].todo \subseteq th[t].todo
        /\ th'[t].pc \in {"fields", "unlock"} /\ (th'[t].pc = "unlock" => th'[t].todo = {})
        /\ IF "idx" \in th[t].todo /\ "idx" \notin th'[t].todo
           THEN Find(th[t].id)' = Place(th[t].id)
           ELSE Find(th[t].id)' = Find(th[t].id)
      BY <1>5, <2>1, StoreFieldMap
  <2>3. (Settled(t) <=> "idx" \notin th[t].todo) /\ (Settled(t)' <=> "idx" \notin th'[t].todo)
      BY <2>1, <2>2 DEF Settled
  <2>4. CASE "idx" \in th[t].todo /\ "idx" \notin th'[t].todo
    <3>1. th[t].vertex # Absent
        BY <1>1, <2>1, PlacesApart
    <3>2. \A id \in Ids : Find(id) # th[t].vertex
        BY <1>1, <2>1, <2>4, <3>1, PlacesApart DEF Find
    <3>3. Found' = [Found EXCEPT ![th[t].id] = th[t].vertex]
      <4>1. PICK i \in Ids : i = th[t].id
          BY <1>1
      <4>2. Find(i)' = Place(i) /\ th[t].vertex = Place(i) /\ \A id \in Ids : id # i => Find(id)' = Find(id)
          BY <1>3, <2>1, <2>2, <2>4, <4>1
      <4> QED BY <4>1, <4>2 DEF Found
    <3> QED BY <1>1, <1>3, <1>4, <2>1, <2>2, <2>3, <2>4, <3>1, <3>2, <3>3, EnterOfMap
  <2>5. CASE ~("idx" \in th[t].todo /\ "idx" \notin th'[t].todo)
    <3>1. Found' = Found
      <4>1. PICK i \in Ids : i = th[t].id
          BY <1>1
      <4>2. \A id \in Ids : Find(id)' = Find(id)
          BY <1>3, <2>2, <2>5, <4>1
      <4> QED BY <4>2 DEF Found
    <3>2. Requested(t)' = Requested(t) /\ Answered(t)' = Answered(t)
        BY <1>3, <2>2, <2>3, <2>5 DEF Requested, Answered
    <3> QED BY <1>3, <2>2, <3>1, <3>2, NoStepOfMap
  <2> QED BY <2>4, <2>5
<1>6. CASE Key(t) \/ TryKey(t)
  <2>1. ~Settled(t)
      BY <1>6 DEF Key, TryKey, Settled
  <2>2. Marked' = Marked /\ th'[t].vertex = th[t].vertex
      BY <1>6, KeyMap
  <2>3. CASE Find(th[t].id) = Absent
    <3>1. /\ th'[t].pc \in {"unlock", "return"}
          /\ th[t].vertex # Absent /\ \A id \in Ids : Find(id) # th[t].vertex
          /\ Found' = [Found EXCEPT ![th[t].id] = th[t].vertex]
        BY <1>6, <2>3, KeyMap
    <3>2. Settled(t)'
        BY <3>1 DEF Settled
    <3> QED BY <1>1, <1>3, <1>4, <2>1, <2>2, <2>3, <3>1, <3>2, EnterOfMap
  <2>4. CASE Find(th[t].id) # Absent
    <3>1. th'[t].pc = "again" /\ Found' = Found
        BY <1>6, <2>4, KeyMap
    <3> QED BY <1>2, <2>1, <2>2, <3>1, QuietStep DEF Settled
  <2> QED BY <2>3, <2>4
<1> QED BY <1>5, <1>6

\* The steps that decide nothing.
LEMMA RestSimulates ==
    ASSUME IInv, NEW t \in Threads,
           Acquire(t) \/ Retry(t) \/ Release(t) \/ Count(t) \/ Grow(t) \/ Make(t)
    PROVE  UNCHANGED Abstract!ivars
<1>1. th \in [Threads -> Locals] /\ th[t] \in Locals
    BY DEF IInv, TypeOK
<1>2. Step(t) /\ ~Return(t)
    BY DEF Step, Acquire, Retry, Release, Count, Grow, Make, Return
<1>3. Found' = Found /\ Marked' = Marked
  <2>1. ~Mark(t) /\ ~StoreField(t) /\ ~Key(t) /\ ~TryKey(t)
      BY DEF Acquire, Retry, Release, Count, Grow, Make, Mark, StoreField, Key, TryKey
  <2> QED BY <1>2, <2>1, MapKept DEF Found
<1>4. CASE Release(t)
  <2>1. /\ \A u \in Threads : u # t => th'[u] = th[u]
        /\ th[t].pc = "unlock" /\ th'[t].pc = "return"
        /\ th'[t].op = th[t].op /\ th'[t].id = th[t].id /\ th'[t].vertex = th[t].vertex
      BY <1>1, <1>4 DEF Release, Goto, Locals
  <2> QED BY <1>3, <2>1, NoStepOfMap DEF Requested, Answered, Settled
<1>5. CASE Retry(t)
    BY <1>3, <1>5, NoStepOfMap DEF Retry, vars, Requested, Answered, Settled
<1>6. CASE Acquire(t) \/ Count(t) \/ Grow(t) \/ Make(t)
  <2>1. th[t].pc \in {"lock", "count", "grow", "make"}
      BY <1>6 DEF Acquire, Count, Grow, Make
  <2>2. th'[t].pc \in {"second", "grow", "key", "try"}
      BY <1>1, <1>6 DEF Acquire, Count, Grow, Make, Goto, Give, Locals
  <2> QED BY <1>2, <1>3, <2>1, <2>2, QuietStep DEF Settled
<1> QED BY <1>4, <1>5, <1>6

\* VertexArray and ART, the latter with and without the vertex table, are atomic maps
\* from vertex IDs to vertices: whichever look or store decides a RetrieveVertex or a
\* DeleteVertex, it is one instant between the call and the return (vertex_array.cpp:19-44,
\* art.cpp:45-96).
THEOREM PlainIndexImplementsMap == Spec => ImplementsVertexMap
<1>1. Init => Abstract!Init
  <2> SUFFICES ASSUME Init
               PROVE  Abstract!Init
      OBVIOUS
  <2>1. Found = [id \in Ids |-> Abstract!Absent]
    <3>1. CASE variant = "array"
      <4>1. \A id \in Ids : Place(id) \in 1 .. (MaxId + 1)
          BY PlainIndexAssumption DEF PlainIndexAssumption, Ids, Place
      <4>2. vertices = [i \in 1 .. (MaxId + 1) |-> NewVertex]
          BY <3>1 DEF Init
      <4>3. NewVertex.idx = NoId
          BY DEF NewVertex
      <4>4. \A id \in Ids : Find(id) = Absent
          BY <3>1, <4>1, <4>2, <4>3 DEF Find
      <4> QED BY <4>4 DEF Found, Absent, Abstract!Absent
    <3>2. CASE variant # "array"
        BY <3>2 DEF Init, Found, Find, Absent, Abstract!Absent
    <3> QED BY <3>1, <3>2
  <2>2. Marked = {}
    <3>1. CASE variant = "array"
      <4>1. vertices = [i \in 1 .. (MaxId + 1) |-> NewVertex] /\ ~NewVertex.del
          BY <3>1 DEF Init, NewVertex
      <4> QED BY <4>1 DEF Marked
    <3>2. CASE variant # "array"
      <4>1. vertices = <<>>
          BY <3>2 DEF Init
      <4> QED BY <4>1 DEF Marked
    <3> QED BY <3>1, <3>2
  <2>3. \A t \in Threads : Requested(t) = {} /\ Answered(t) = {}
      BY DEF Init, Idle, Requested, Answered, Settled
  <2> QED BY <2>1, <2>2, <2>3 DEF Abstract!Init, Found, Marked, Requested, Answered
<1>2. ASSUME IInv, CallPaths, [Next]_vars
      PROVE  [Abstract!Next]_(Abstract!ivars)
  <2>1. CASE UNCHANGED vars \/ Done
      BY <2>1 DEF Done, vars, Find, Settled, Abstract!ivars
  <2>2. ASSUME NEW t \in Threads, Call(t)
        PROVE  Abstract!Next
      BY <1>2, <2>2, CallSimulates DEF Abstract!Next
  <2>3. ASSUME NEW t \in Threads, Step(t)
        PROVE  Abstract!Next \/ UNCHANGED Abstract!ivars
    <3>1. CASE Return(t)
        BY <1>2, <3>1, ReturnSimulates DEF Abstract!Next
    <3>2. CASE Look(t) \/ Mark(t) \/ Second(t) \/ GetAgain(t)
        BY <1>2, <3>2, LookSimulates DEF Abstract!Next
    <3>3. CASE StoreField(t) \/ Key(t) \/ TryKey(t)
        BY <1>2, <3>3, EnterSimulates DEF Abstract!Next
    <3>4. CASE Acquire(t) \/ Retry(t) \/ Release(t) \/ Count(t) \/ Grow(t) \/ Make(t)
        BY <1>2, <3>4, RestSimulates
    <3> QED BY <2>3, <3>1, <3>2, <3>3, <3>4 DEF Step
  <2> QED BY <1>2, <2>1, <2>2, <2>3 DEF Next
<1> QED BY <1>1, <1>2, Inductive, CallPathsAlways, PTL DEF Spec, ImplementsVertexMap, Abstract!Spec
=============================================================================
