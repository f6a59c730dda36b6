------------------------------ MODULE SortTree ------------------------------
(***************************************************************************)
(* The shape of SORT over its life (src/src/sort.cpp: the constructors,    *)
(* InsertSimpleVertex, CheckExistence, RetrieveVertex, Transform, Size and *)
(* the destructor), as its callers use it: by one thread.  SortIndex is    *)
(* about the threads.                                                      *)
(*                                                                         *)
(* A node is named by the slots that lead to it from the root, so a        *)
(* pointer that is not null is a member of inner or of DOMAIN leaf.  The   *)
(* level of a node of path p is Len(p).                                    *)
(*                                                                         *)
(* A definition D_Fault before a definition D is D with a plausible bug;   *)
(* nothing uses it but mutation testing of the properties (PROJECT.json).  *)
(***************************************************************************)
EXTENDS Optimizer, SequencesExt

CONSTANTS
    Ids,             \* external IDs that callers use, wider than a tree or not
    Estimates,       \* <<n, bit_length, l>> that trees are designed for
    Files,           \* sets of IDs that optimizer.cpp is run on
    Designs,         \* fanout arrays given by hand, to a constructor or to Transform
    MaxIds,          \* bound: number of IDs inserted
    MaxTransforms    \* bound: number of calls of Transform

ASSUME SortTreeAssumption ==
    /\ Ids \subseteq Nat /\ MaxIds \in Nat /\ MaxTransforms \in Nat
    /\ Designs \subseteq Seq(Nat)
    /\ \A e \in Estimates : e[1] \in 1 .. 2 ^ e[2] /\ e[3] > 0
    /\ \A ids \in Files : ids # {} /\ ids \subseteq Nat

VARIABLES
    numBits,    \* SORT.num_bits
    root,       \* SORT.root is not null
    inner,      \* paths of the nodes below the root
    leaf,       \* path -> what the slot of the last level points to
    vertices,   \* number of vertices allocated
    nodes,      \* number of SORTNode objects allocated and not deleted
    inserted,   \* the IDs inserted, in order: the vertex_set of the callers
    narrow,     \* some tree so far had fewer bits than an inserted ID
    listed,     \* some Transform was given a vertex_set
    transforms, \* number of calls of Transform
    gone        \* the tree was destroyed

vars == <<numBits, root, inner, leaf, vertices, nodes, inserted, narrow,
          listed, transforms, gone>>

OldRoot == 0      \* a leaf slot that holds the address of the root of an old tree

Sum(a, i) == FoldSeq(+, 0, SubSeq(a, 1, i))
Bits(a) == Sum(a, Len(a))

\* The slots that lead to the ID in a tree of fanout array a.
Path_NoMask(id, a) == [i \in 1 .. Len(a) |-> id \div 2 ^ (Bits(a) - Sum(a, i))]

Path(id, a) ==
    [i \in 1 .. Len(a) |-> (id % 2 ^ (Bits(a) - Sum(a, i - 1))) \div 2 ^ (Bits(a) - Sum(a, i))]

\* The ID that the slots stand for (u.second in the search of Transform).
Number_NoCarry(path, a) ==
    FoldLeftDomain(LAMBDA n, i : n * 2 ^ a[1] + path[i], 0, path)

Number(path, a) == FoldLeftDomain(LAMBDA n, i : n * 2 ^ a[i] + path[i], 0, path)

\* The nodes between the root and the leaf.
Above(path) == {SubSeq(path, 1, i) : i \in 1 .. (Len(path) - 1)}

\* Size(): the slots of all nodes.
Size == MapThenSumSet(LAMBDA p : 2 ^ numBits[Len(p) + 1], inner \cup {<<>>})

CheckExistence(id) == root /\ Path(id, numBits) \in DOMAIN leaf

\* The fanout arrays that the constructors of SORT and RadixGraph arrive at.
Fanouts ==
    {OptimalFanout(e[1], e[2], e[3]) : e \in Estimates} \cup
    {Prune(OptimalFanout(e[1], e[2], Layers(e[2]))) : e \in Estimates} \cup
    {Prune(a) : a \in Designs \cup {Settings(ids, 2) : ids \in Files}}

Init ==
    /\ numBits \in Fanouts
    /\ root = FALSE /\ inner = {} /\ leaf = [p \in {} |-> OldRoot]
    /\ vertices = 0 /\ nodes = 0 /\ transforms = 0
    /\ inserted = <<>>
    /\ narrow = FALSE /\ listed = FALSE /\ gone = FALSE

\* RetrieveVertex with insert_mode, or InsertSimpleVertex in the trees of benchmarks:
\* the nodes and the vertex that are missing are made on the way down.
Insert(id) ==
    /\ ~gone /\ (Len(inserted) < MaxIds \/ Contains(inserted, id))
    /\ LET path == Path(id, numBits)
           missing == Above(path) \ inner
       IN  /\ root' = TRUE
           /\ inner' = inner \cup missing
           /\ nodes' = nodes + Cardinality(missing) + (IF root THEN 0 ELSE 1)
           /\ IF path \in DOMAIN leaf
              THEN UNCHANGED <<leaf, vertices>>
              ELSE /\ leaf' = (path :> vertices + 1) @@ leaf
                   /\ vertices' = vertices + 1
    /\ inserted' = IF Contains(inserted, id) THEN inserted ELSE Append(inserted, id)
    /\ narrow' = (narrow \/ id >= 2 ^ Bits(numBits))
    /\ UNCHANGED <<numBits, listed, transforms, gone>>

\* RetrieveVertex without insert_mode makes the root if there is none.
Lookup ==
    /\ ~gone /\ ~root
    /\ root' = TRUE
    /\ nodes' = nodes + 1
    /\ UNCHANGED <<numBits, inner, leaf, vertices, inserted, narrow, listed,
                   transforms, gone>>

-----------------------------------------------------------------------------
(* Transform. *)

\* Without a vertex_set the old tree is searched level by level ...
Searched ==
    LET inOrder == SetToSortSeq(DOMAIN leaf,
                       LAMBDA p, q : Number(p, numBits) < Number(q, numBits))
    IN  [i \in DOMAIN inOrder |->
            [id |-> Number(inOrder[i], numBits), vertex |-> leaf[inOrder[i]]]]

\* ... and with one, the IDs in it are looked up.  The pair of the old root, meant
\* for the search, stays in front.
Listed ==
    <<[id |-> 0, vertex |-> OldRoot]>> \o
    [i \in DOMAIN inserted |->
        [id |-> inserted[i], vertex |-> leaf[Path(inserted[i], numBits)]]]

\* The first vertex that claims a slot of the new tree keeps it.
FirstFor(frontiers, path, a) ==
    frontiers[Min({i \in DOMAIN frontiers : Path(frontiers[i].id, a) = path})].vertex

Rebuild(frontiers, a) ==
    LET paths == {Path(frontiers[i].id, a) : i \in DOMAIN frontiers}
    IN  /\ numBits' = a
        /\ inner' = UNION {Above(p) : p \in paths}
        /\ leaf' = [p \in paths |-> FirstFor(frontiers, p, a)]

\* The search deletes the nodes it leaves; a given set leaves them where they are.
Deleted_None(given) == 0

Deleted(given) == IF given THEN 0 ELSE 1 + Cardinality(inner)

Transform(a, given) ==
    /\ ~gone /\ root /\ transforms < MaxTransforms
    /\ given => inserted # <<>> /\ \A i \in DOMAIN inserted : CheckExistence(inserted[i])
    /\ transforms' = transforms + 1
    /\ IF Len(a) # Len(numBits)
       THEN UNCHANGED <<numBits, inner, leaf, nodes, narrow, listed>>
       ELSE /\ Rebuild(IF given THEN Listed ELSE Searched, a)
            /\ nodes' = nodes - Deleted(given) + 1 + Cardinality(inner')
            /\ narrow' = (narrow \/ \E i \in DOMAIN inserted : inserted[i] >= 2 ^ Bits(a))
            /\ listed' = (listed \/ given)
    /\ UNCHANGED <<root, vertices, inserted, gone>>

\* ~SORT deletes the nodes that the root leads to.
Destroy ==
    /\ ~gone /\ root
    /\ gone' = TRUE
    /\ nodes' = nodes - (1 + Cardinality(inner))
    /\ UNCHANGED <<numBits, root, inner, leaf, vertices, inserted, narrow,
                   listed, transforms>>

Done == gone /\ UNCHANGED vars

Next ==
    \/ \E id \in Ids : Insert(id)
    \/ Lookup
    \/ \E a \in Designs, given \in BOOLEAN : Transform(a, given)
    \/ Destroy
    \/ Done

Spec == Init /\ [][Next]_vars
=============================================================================
