------------------------- MODULE SortTreeProperties -------------------------
(***************************************************************************)
(* What makes the shape of SORT right: which vertex an ID finds, how many  *)
(* pointers the tree has, and that the optimiser's fanout array is the     *)
(* best one.                                                               *)
(***************************************************************************)
EXTENDS SortTree

Depth == Len(numBits)
Found(id) == leaf[Path(id, numBits)]

\* The tree is closed: the parent of a node is a node, and slots exist.
TypeOK ==
    /\ {root, narrow, listed, gone} \subseteq BOOLEAN
    /\ numBits \in Seq(Nat) /\ Depth > 0
    /\ \A p \in inner \cup DOMAIN leaf :
          /\ Len(p) \in 1 .. Depth
          /\ \A i \in DOMAIN p : p[i] \in 0 .. (2 ^ numBits[i] - 1)
          /\ Above(p) \subseteq inner
    /\ \A p \in DOMAIN leaf : Len(p) = Depth /\ leaf[p] \in OldRoot .. vertices
    /\ vertices \in 0 .. (MaxIds * (1 + MaxTransforms)) /\ nodes \in Nat /\ transforms \in 0 .. MaxTransforms
    /\ ToSet(inserted) \subseteq Ids

\* While every tree so far had the bits that the IDs need, each ID that was inserted
\* has a vertex of its own, through any number of changes of the fanout array.
\* ID 0 is left out once a vertex_set was given (sort.cpp:250, ZeroSurvives).
OneVertexEach ==
    ~narrow =>
        LET ids == ToSet(inserted) \ (IF listed THEN {0} ELSE {})
        IN  /\ \A id \in ids : CheckExistence(id) /\ Found(id) # OldRoot
            /\ \A id, other \in ids : Found(id) = Found(other) => id = other

\* An ID that is wider than the tree shares a vertex with exactly the IDs that
\* have the same low bits (sort.cpp:205), until a Transform.
LowBitsDecide ==
    transforms = 0 =>
        /\ \A i, j \in DOMAIN inserted :
              Found(inserted[i]) = Found(inserted[j])
                  <=> (inserted[i] - inserted[j]) % 2 ^ Bits(numBits) = 0
        /\ \A id \in Ids : CheckExistence(id) <=>
              \E i \in DOMAIN inserted : (id - inserted[i]) % 2 ^ Bits(numBits) = 0

\* The pointers of a tree that holds the IDs and has no node without need.
SizeOf(ids, a) ==
    MapThenSumSet(LAMBDA i : 2 ^ a[i] * Cardinality({SubSeq(Path(id, a), 1, i - 1) : id \in ids}),
                  DOMAIN a)

\* A Transform leaves neither a node without need nor a gap: the tree is the one
\* that inserting the IDs into an empty tree of the new fanout array makes.
SizeExact ==
    (root /\ inserted # <<>> /\ (~narrow \/ transforms = 0)) =>
        Size = SizeOf(ToSet(inserted) \cup (IF listed THEN {0} ELSE {}), numBits)

\* The nodes that exist are the nodes of the tree: none is lost by a Transform
\* without vertex_set, none survives the tree.
NoNodeLost ==
    ~listed => nodes = IF gone \/ ~root THEN 0 ELSE 1 + Cardinality(inner)

\* The tree at any time: closed, of the size that Size reports, and all there is.
TreeExact == TypeOK /\ SizeExact /\ NoNodeLost

-----------------------------------------------------------------------------
(* The optimiser. *)

Arrays(B, l) == {a \in [1 .. l -> 0 .. B] : Bits(a) = B}

\* The pointers of a tree, summed over all sets of n IDs of B bits.
TotalSize(n, B, a) ==
    MapThenSumSet(LAMBDA ids : SizeOf(ids, a), kSubset(n, 0 .. (2 ^ B - 1)))

\* OptimalFanout consumes the B bits, no array of as many levels has fewer pointers
\* on average, and dropping the empty levels costs nothing (sort.cpp:27-69).
DesignOptimal ==
    (~root /\ transforms = 0) =>
        \A e \in Estimates :
            LET a == OptimalFanout(e[1], e[2], e[3])
                least == TotalSize(e[1], e[2], a)
            IN  /\ a \in Arrays(e[2], e[3])
                /\ \A b \in Arrays(e[2], e[3]) : least <= TotalSize(e[1], e[2], b)
                /\ TotalSize(e[1], e[2], Prune(a)) <= least

-----------------------------------------------------------------------------
(* What the header says of Transform, and the code does not keep. *)

\* "transform the SORT to another configuration" with the "set of current inserted
\* vertices" (sort.h:79-82): the vertex of an ID is found afterwards as well.
ZeroSurvives ==
    ~narrow => \A i \in DOMAIN inserted : Found(inserted[i]) # OldRoot
=============================================================================
