----------------------------- MODULE PlainIndex -----------------------------
(***************************************************************************)
(* The vertex indexes that take the place of SORT when the library is      *)
(* built without it: VertexArray (src/src/vertex_array.cpp) and ART        *)
(* (src/src/art.cpp), the latter with or without the vertex table.         *)
(*                                                                         *)
(* The tree of ART is an external library: its get and insert are atomic,  *)
(* and insert fails when the key is there.  Stores to a vertex that no     *)
(* other thread can find yet are one step; in the array every vertex can   *)
(* be found from the start, so there each store is a step.                 *)
(*                                                                         *)
(* A definition D_Fault before a definition D is D with a plausible bug;   *)
(* nothing uses it but mutation testing of the properties (PROJECT.json).  *)
(***************************************************************************)
EXTENDS Integers, Sequences, FiniteSets

CONSTANTS
    Threads,     \* threads that call the index
    MaxId,       \* largest external vertex ID
    Mutex,       \* ART.mtx
    MaxCalls     \* bound: number of calls

Ids == 0 .. MaxId

ASSUME PlainIndexAssumption ==
    MaxId \in Nat /\ MaxCalls \in Nat /\ IsFiniteSet(Threads) /\ Mutex \notin Ids

Variants == {"array", "art_table", "art_plain"}
Absent == 0                      \* a null pointer
NoId == -1                       \* Vertex.node and Vertex.idx before they are set
Ops == {"find", "insert", "delete"}

VARIABLES
    variant,   \* how the library is built
    vertices,  \* every Vertex, in the order of their allocation
    freed,     \* the vertices that were deleted
    tree,      \* ART.tree: ID -> vertex
    table,     \* ART.vertex_table: the vertices by offset
    cnt,       \* cnt of the index
    held,      \* the bits of AtomicBitmap that are set, or ART.mtx
    th,        \* thread -> its local state
    calls      \* number of calls made

vars == <<variant, vertices, freed, tree, table, cnt, held, th, calls>>

NewVertex == [node |-> NoId, idx |-> NoId, next |-> FALSE, del |-> FALSE]
Idle == [pc |-> "idle", op |-> "find", id |-> 0, vertex |-> Absent, idx |-> NoId, todo |-> {}]

Init ==
    /\ variant \in Variants
    /\ vertices = IF variant = "array" THEN [i \in 1 .. (MaxId + 1) |-> NewVertex] ELSE <<>>
    /\ tree = [id \in Ids |-> Absent]
    /\ table = <<>> /\ freed = {} /\ held = {} /\ cnt = 0 /\ calls = 0
    /\ th = [t \in Threads |-> Idle]

\* The place of the ID in the array.
Place(id) == id + 1

\* The vertex of the ID, as CheckExistence and both looks of RetrieveVertex see it.
Find(id) ==
    IF variant = "array"
    THEN IF vertices[Place(id)].idx = NoId THEN Absent ELSE Place(id)
    ELSE tree[id]

Lock_PerId(t) == th[t].id

\* What a thread that inserts locks: the bit of its ID, or the mutex of ART.
Lock(t) == IF variant = "array" THEN th[t].id ELSE Mutex

Goto(t, pc) == th' = [th EXCEPT ![t].pc = pc]
Give(t, pc, v) == th' = [th EXCEPT ![t].pc = pc, ![t].vertex = v]

Call(t) ==
    /\ th[t].pc = "idle" /\ calls < MaxCalls
    /\ calls' = calls + 1
    /\ \E op \in Ops, id \in Ids : th' = [th EXCEPT ![t] = [Idle EXCEPT
                                             !.pc = "look", !.op = op, !.id = id]]
    /\ UNCHANGED <<variant, vertices, freed, tree, table, cnt, held>>

\* The first look takes no lock.
Look(t) ==
    /\ th[t].pc = "look"
    /\ LET v == Find(th[t].id)
       IN  IF v = Absent /\ th[t].op = "insert"
           THEN Goto(t, IF variant = "art_plain" THEN "make" ELSE "lock")
           ELSE Give(t, IF v # Absent /\ th[t].op = "delete" THEN "mark" ELSE "return", v)
    /\ UNCHANGED <<variant, vertices, freed, tree, table, cnt, held, calls>>

\* DeleteVertex sets the deletion time of the vertex it has found.
Mark(t) ==
    /\ th[t].pc = "mark"
    /\ vertices' = [vertices EXCEPT ![th[t].vertex].del = TRUE]
    /\ Goto(t, "return")
    /\ UNCHANGED <<variant, freed, tree, table, cnt, held, calls>>

Return(t) ==
    /\ th[t].pc = "return"
    /\ th' = [th EXCEPT ![t] = Idle]
    /\ UNCHANGED <<variant, vertices, freed, tree, table, cnt, held, calls>>

-----------------------------------------------------------------------------
(* An insertion under the bit of the ID, or under the mutex of ART. *)

Acquire(t) ==
    /\ th[t].pc = "lock" /\ Lock(t) \notin held
    /\ held' = held \cup {Lock(t)}
    /\ Goto(t, "second")
    /\ UNCHANGED <<variant, vertices, freed, tree, table, cnt, calls>>

\* A thread that finds the bit set tries again (set_bit_atomic).
Retry(t) == th[t].pc = "lock" /\ Lock(t) \in held /\ UNCHANGED vars

SecondLook_Skipped(t) == Absent

SecondLook(t) == Find(th[t].id)

Second(t) ==
    /\ th[t].pc = "second"
    /\ \/ /\ SecondLook(t) # Absent
          /\ Give(t, "unlock", SecondLook(t))
       \/ /\ SecondLook(t) = Absent /\ variant = "array"
          /\ th' = [th EXCEPT ![t].pc = "fields", ![t].vertex = Place(th[t].id),
                              ![t].todo = {"next", "node", "idx"}]
       \/ /\ SecondLook(t) = Absent /\ variant = "art_table"
          /\ Goto(t, "count")
    /\ UNCHANGED <<variant, vertices, freed, tree, table, cnt, held, calls>>

\* The array: next is an atomic store, which the two plain stores do not pass, but
\* those may come in either order.
Storable_AnyOrder(todo) == todo

Storable(todo) == IF "next" \in todo THEN {"next"} ELSE todo

StoreField(t) ==
    /\ th[t].pc = "fields"
    /\ \E f \in Storable(th[t].todo) :
          /\ vertices' = [vertices EXCEPT ![th[t].vertex][f] = IF f = "next" THEN TRUE ELSE th[t].id]
          /\ th' = [th EXCEPT ![t].todo = @ \ {f},
                              ![t].pc = IF th[t].todo = {f} THEN "unlock" ELSE "fields"]
    /\ UNCHANGED <<variant, freed, tree, table, cnt, held, calls>>

\* ART with the vertex table: an internal ID, a place in the table, and the key.
Count(t) ==
    /\ th[t].pc = "count"
    /\ cnt' = cnt + 1
    /\ th' = [th EXCEPT ![t].pc = "grow", ![t].idx = cnt]
    /\ UNCHANGED <<variant, vertices, freed, tree, table, held, calls>>

Grow(t) ==
    /\ th[t].pc = "grow"
    /\ vertices' = Append(vertices, [node |-> th[t].id, idx |-> th[t].idx, next |-> TRUE, del |-> FALSE])
    /\ table' = Append(table, Len(vertices'))
    /\ Give(t, "key", Len(vertices'))
    /\ UNCHANGED <<variant, freed, tree, cnt, held, calls>>

\* A key that is in the tree keeps its vertex.
Keyed(id, v) == [tree EXCEPT ![id] = IF @ = Absent THEN v ELSE @]

Key(t) ==
    /\ th[t].pc = "key"
    /\ tree' = Keyed(th[t].id, th[t].vertex)
    /\ Goto(t, "unlock")
    /\ UNCHANGED <<variant, vertices, freed, table, cnt, held, calls>>

Released_Kept(t) == held

Released(t) == held \ {Lock(t)}

Release(t) ==
    /\ th[t].pc = "unlock"
    /\ held' = Released(t)
    /\ Goto(t, "return")
    /\ UNCHANGED <<variant, vertices, freed, tree, table, cnt, calls>>

-----------------------------------------------------------------------------
(* An insertion without a lock (ART, no vertex table): the loser of a race for *)
(* the key deletes its vertex and takes the winner's.                          *)

Make(t) ==
    /\ th[t].pc = "make"
    /\ vertices' = Append(vertices, [node |-> th[t].id, idx |-> th[t].id, next |-> TRUE, del |-> FALSE])
    /\ Give(t, "try", Len(vertices'))
    /\ UNCHANGED <<variant, freed, tree, table, cnt, held, calls>>

Lost_Keeps(t) == {}

Lost(t) == {th[t].vertex}

TryKey(t) ==
    /\ th[t].pc = "try"
    /\ tree' = Keyed(th[t].id, th[t].vertex)
    /\ IF tree[th[t].id] = Absent
       THEN /\ Goto(t, "return")
            /\ UNCHANGED freed
       ELSE /\ freed' = freed \cup Lost(t)
            /\ Goto(t, "again")
    /\ UNCHANGED <<variant, vertices, table, cnt, held, calls>>

GetAgain(t) ==
    /\ th[t].pc = "again"
    /\ Give(t, "return", tree[th[t].id])
    /\ UNCHANGED <<variant, vertices, freed, tree, table, cnt, held, calls>>

-----------------------------------------------------------------------------
Step(t) ==
    \/ Look(t) \/ Mark(t) \/ Return(t)
    \/ Acquire(t) \/ Retry(t) \/ Second(t) \/ StoreField(t) \/ Release(t)
    \/ Count(t) \/ Grow(t) \/ Key(t)
    \/ Make(t) \/ TryKey(t) \/ GetAgain(t)

AllIdle == \A t \in Threads : th[t].pc = "idle"

\* Every call that the bound allows was made and has returned.
Done == calls = MaxCalls /\ AllIdle /\ UNCHANGED vars

Next == (\E t \in Threads : Call(t) \/ Step(t)) \/ Done

Spec == Init /\ [][Next]_vars

\* A thread inside a call keeps running.
FairSpec == Spec /\ \A t \in Threads : WF_vars(Step(t))
=============================================================================
