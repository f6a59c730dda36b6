------------------------------ MODULE SortIndex ------------------------------
(***************************************************************************)
(* SORT, the space-optimised radix tree that finds the vertex of an ID     *)
(* (src/src/sort.cpp: RetrieveVertex, InsertVertex, DeleteVertex;          *)
(* src/src/utils.h: AtomicBitmap, Vertex).                                 *)
(*                                                                         *)
(* A node of the tree has one pointer and one lock bit for each child.     *)
(* Lookups take no lock.  An insertion that meets a null pointer sets the  *)
(* bit of that child, looks again, and creates what is missing; at a leaf  *)
(* it draws an internal ID from cnt, appends a Vertex to vertex_table and  *)
(* stores its address.                                                     *)
(*                                                                         *)
(* A pointer that is not null never changes again (WriteOnce), so the two  *)
(* reads that the code makes of such a pointer are one step here.  A node  *)
(* or vertex is filled by the thread that made it before the store that    *)
(* publishes it; those stores are one step with the allocation.            *)
(*                                                                         *)
(* A definition D_Fault before a definition D is D with a plausible bug;   *)
(* nothing uses it but mutation testing of the properties (PROJECT.json).  *)
(***************************************************************************)
EXTENDS Integers, Sequences, FiniteSets

CONSTANTS
    Threads,     \* threads that call the index
    Ids,         \* external vertex IDs in use
    NumBits,     \* SORT.num_bits: the bits of an ID that each level consumes
    MaxCalls     \* bound: number of calls

Depth == Len(NumBits)
Levels == 0 .. (Depth - 1)

\* SORT.sum_bits, the number of bits consumed by the first i levels.
SumBits[i \in 0 .. Depth] == IF i = 0 THEN 0 ELSE SumBits[i - 1] + NumBits[i]

ASSUME SortAssumption ==
    /\ NumBits \in Seq(Nat \ {0}) /\ Depth > 0
    /\ Ids \subseteq 0 .. (2 ^ SumBits[Depth] - 1)
    /\ IsFiniteSet(Threads) /\ MaxCalls \in Nat

\* The child of a level-i node that the ID belongs to: the bits of level i.
Slot(id, i) ==
    (id % 2 ^ (SumBits[Depth] - SumBits[i])) \div 2 ^ (SumBits[Depth] - SumBits[i + 1])

Slots(i) == 0 .. (2 ^ NumBits[i + 1] - 1)

\* The slot of an ID is one of the children.
ASSUME SlotAssumption == \A id \in Ids, i \in Levels : Slot(id, i) \in Slots(i)

\* Two IDs part at some level.
ASSUME PathsAssumption ==
    \A id, other \in Ids : (\A i \in Levels : Slot(id, i) = Slot(other, i)) => id = other

Null == 0                        \* a null pointer
NoId == -1                       \* Vertex.node and Vertex.idx before they are set
Ops == {"find", "insert", "delete"}

VARIABLES
    root,      \* SORT.root
    rootBusy,  \* SORT.mtx
    nodes,     \* the nodes, in the order of their allocation
    bits,      \* <<node, slot>> whose bit in SORTNode.mtx is set
    cnt,       \* SORT.cnt
    table,     \* SORT.vertex_table
    th,        \* thread -> its local state
    calls      \* number of calls made

vars == <<root, rootBusy, nodes, bits, cnt, table, th, calls>>

NewNode(i) == [level |-> i, child |-> [s \in Slots(i) |-> Null]]
NewVertex == [node |-> NoId, idx |-> NoId, del |-> FALSE]
Idle == [pc |-> "idle", op |-> "find", id |-> 0, node |-> Null, level |-> 0,
         vertex |-> Null, idx |-> NoId]

Init ==
    /\ root = Null
    /\ rootBusy = FALSE
    /\ nodes = <<>>
    /\ bits = {}
    /\ cnt = 0
    /\ table = <<>>
    /\ th = [t \in Threads |-> Idle]
    /\ calls = 0

-----------------------------------------------------------------------------
Here(t) == Slot(th[t].id, th[t].level)
Child(t) == nodes[th[t].node].child[Here(t)]

AtLeaf(t) == th[t].level = Depth - 1

Goto(t, pc) == th' = [th EXCEPT ![t].pc = pc]
Descend(t, pc) ==
    th' = [th EXCEPT ![t].pc = pc, ![t].node = Child(t), ![t].level = @ + 1]
Give(t, pc, v) == th' = [th EXCEPT ![t].pc = pc, ![t].vertex = v]

-----------------------------------------------------------------------------
(* RetrieveVertex, with DeleteVertex on top of it. *)

\* The caller enters RetrieveVertex and looks at the root pointer.
Call(t) ==
    /\ th[t].pc = "idle"
    /\ calls < MaxCalls
    /\ calls' = calls + 1
    /\ \E op \in Ops, id \in Ids :
          th' = [th EXCEPT ![t] = [Idle EXCEPT
                    !.pc = IF root = Null THEN "rootlock" ELSE "walk",
                    !.op = op, !.id = id, !.node = root]]
    /\ UNCHANGED <<root, rootBusy, nodes, bits, cnt, table>>

RootMissing_NoSecondLook == TRUE

RootMissing == root = Null

RootLock(t) ==
    /\ th[t].pc = "rootlock"
    /\ ~rootBusy
    /\ rootBusy' = TRUE
    /\ Goto(t, "rootnew")
    /\ UNCHANGED <<root, nodes, bits, cnt, table, calls>>

\* Looked at again under the lock, the root is made if it is still missing.
RootNew(t) ==
    /\ th[t].pc = "rootnew"
    /\ IF RootMissing
       THEN /\ nodes' = Append(nodes, NewNode(0))
            /\ root' = Len(nodes) + 1
       ELSE UNCHANGED <<nodes, root>>
    /\ Goto(t, "rootunlock")
    /\ UNCHANGED <<rootBusy, bits, cnt, table, calls>>

RootUnlock(t) ==
    /\ th[t].pc = "rootunlock"
    /\ rootBusy' = FALSE
    /\ th' = [th EXCEPT ![t].pc = "walk", ![t].node = root]
    /\ UNCHANGED <<root, nodes, bits, cnt, table, calls>>

\* One level of the lookup, without a lock.
Walk(t) ==
    /\ th[t].pc = "walk"
    /\ \/ /\ Child(t) = Null /\ th[t].op = "insert"
          /\ Goto(t, "insert")
       \/ /\ Child(t) = Null /\ th[t].op # "insert"
          /\ Give(t, "return", Null)
       \/ /\ Child(t) # Null /\ AtLeaf(t)
          /\ Give(t, IF th[t].op = "delete" THEN "mark" ELSE "return", Child(t))
       \/ /\ Child(t) # Null /\ ~AtLeaf(t)
          /\ Descend(t, "walk")
    /\ UNCHANGED <<root, rootBusy, nodes, bits, cnt, table, calls>>

\* DeleteVertex sets the deletion time of the vertex it has found.
Mark(t) ==
    /\ th[t].pc = "mark"
    /\ table' = [table EXCEPT ![th[t].vertex].del = TRUE]
    /\ Goto(t, "return")
    /\ UNCHANGED <<root, rootBusy, nodes, bits, cnt, calls>>

Return(t) ==
    /\ th[t].pc = "return"
    /\ th' = [th EXCEPT ![t] = Idle]
    /\ UNCHANGED <<root, rootBusy, nodes, bits, cnt, table, calls>>

-----------------------------------------------------------------------------
(* InsertVertex, from the node where the lookup stopped. *)

\* One level of the descent: a null pointer needs the bit of its slot.
Insert(t) ==
    /\ th[t].pc = "insert"
    /\ \/ /\ Child(t) = Null
          /\ Goto(t, "bit")
       \/ /\ Child(t) # Null /\ AtLeaf(t)
          /\ Give(t, "return", Child(t))
       \/ /\ Child(t) # Null /\ ~AtLeaf(t)
          /\ Descend(t, "insert")
    /\ UNCHANGED <<root, rootBusy, nodes, bits, cnt, table, calls>>

\* The lock bit of the slot.
Bit(t) == <<th[t].node, Here(t)>>

\* set_bit_atomic spins until it is the one that turns the bit on.
SetBit(t) ==
    /\ th[t].pc = "bit"
    /\ Bit(t) \notin bits
    /\ bits' = bits \cup {Bit(t)}
    /\ Goto(t, "check")
    /\ UNCHANGED <<root, rootBusy, nodes, cnt, table, calls>>

Missing_NoSecondLook(t) == TRUE

Missing(t) == Child(t) = Null

\* Under the bit: an inner node is made on the spot, a vertex takes more steps.
Check(t) ==
    /\ th[t].pc = "check"
    /\ \/ /\ ~AtLeaf(t)
          /\ nodes' = IF Missing(t)
                      THEN Append([nodes EXCEPT ![th[t].node].child[Here(t)] = Len(nodes) + 1],
                                  NewNode(th[t].level + 1))
                      ELSE nodes
          /\ Goto(t, "clear")
       \/ /\ AtLeaf(t) /\ Missing(t)
          /\ Goto(t, "count")
          /\ UNCHANGED nodes
       \/ /\ AtLeaf(t) /\ ~Missing(t)
          /\ Give(t, "name", Child(t))
          /\ UNCHANGED nodes
    /\ UNCHANGED <<root, rootBusy, bits, cnt, table, calls>>

NextId_FromTheTable == Len(table)

NextId == cnt

\* cnt.fetch_add(1) draws the internal ID ...
Count(t) ==
    /\ th[t].pc = "count"
    /\ cnt' = cnt + 1
    /\ th' = [th EXCEPT ![t].pc = "grow", ![t].idx = NextId]
    /\ UNCHANGED <<root, rootBusy, nodes, bits, table, calls>>

\* ... and vertex_table.grow_by(1) appends the vertex: a step of its own.
Grow(t) ==
    /\ th[t].pc = "grow"
    /\ table' = Append(table, [NewVertex EXCEPT !.idx = th[t].idx])
    /\ Give(t, "store", Len(table) + 1)
    /\ UNCHANGED <<root, rootBusy, nodes, bits, cnt, calls>>

\* The store that lets other threads find the vertex.
Store(t) ==
    /\ th[t].pc = "store"
    /\ nodes' = [nodes EXCEPT ![th[t].node].child[Here(t)] = th[t].vertex]
    /\ Goto(t, "name")
    /\ UNCHANGED <<root, rootBusy, bits, cnt, table, calls>>

\* tmp->node = id comes after the store.
Name(t) ==
    /\ th[t].pc = "name"
    /\ table' = [table EXCEPT ![th[t].vertex].node = th[t].id]
    /\ Goto(t, "clear")
    /\ UNCHANGED <<root, rootBusy, nodes, bits, cnt, calls>>

Cleared_WholeByte(t) == {b \in bits : b[1] # th[t].node}
Cleared_NotAtLeaf(t) == IF AtLeaf(t) THEN bits ELSE bits \ {Bit(t)}

Cleared(t) == bits \ {Bit(t)}

\* clear_bit; an inner level is then left for the child, a leaf for the caller.
Clear(t) ==
    /\ th[t].pc = "clear"
    /\ bits' = Cleared(t)
    /\ IF AtLeaf(t) THEN Goto(t, "return") ELSE Descend(t, "insert")
    /\ UNCHANGED <<root, rootBusy, nodes, cnt, table, calls>>

-----------------------------------------------------------------------------
Step(t) ==
    \/ RootLock(t) \/ RootNew(t) \/ RootUnlock(t) \/ Walk(t) \/ Mark(t) \/ Return(t)
    \/ Insert(t) \/ SetBit(t) \/ Check(t) \/ Count(t) \/ Grow(t) \/ Store(t) \/ Name(t)
    \/ Clear(t)

\* Every call that the bound allows was made and has returned.
Done ==
    /\ calls = MaxCalls
    /\ \A t \in Threads : th[t].pc = "idle"
    /\ UNCHANGED vars

Next == (\E t \in Threads : Call(t) \/ Step(t)) \/ Done

Spec == Init /\ [][Next]_vars

\* A thread inside a call keeps running.
FairSpec == Spec /\ \A t \in Threads : WF_vars(Step(t))
=============================================================================
