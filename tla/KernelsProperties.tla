------------------------- MODULE KernelsProperties -------------------------
(***************************************************************************)
(* What the analytics kernels compute, over the graphs, teams and          *)
(* schedules that the constants allow.  One kernel runs in a behaviour;    *)
(* the variables of the others stay as they start.                         *)
(***************************************************************************)
EXTENDS Bfs, Components, DeltaStepping, Triangles

Init ==
    /\ kernel \in {"bfs", "components", "sssp", "triangles"}
    /\ adj \in GraphSet
    /\ team \in Teams /\ (kernel = "triangles" => team = {0})
    /\ BfsInit /\ ComponentsInit /\ SsspInit /\ TrianglesInit
    /\ kernel # "bfs" => param.fresh /\ param.alpha = Min(Alphas) /\ edges = Min(EdgeNums)
    /\ kernel # "components" => place = [v \in Vertices |-> v]
    /\ kernel = "sssp" => NumEdges > 0
    /\ kernel # "sssp" => weight = CHOOSE w \in WeightSet : TRUE

Runs(k) ==
    /\ kernel = k /\ UNCHANGED view
    /\ k # "bfs" => UNCHANGED bfs
    /\ k # "components" => UNCHANGED components
    /\ k # "sssp" => UNCHANGED sssp
    /\ k # "triangles" => UNCHANGED total

Finished ==
    \/ kernel = "bfs" /\ phase \in {"done", "lost"}
    \/ kernel = "components" /\ loop = "done"
    \/ kernel = "sssp" /\ stage \in {"done", "lost"}
    \/ kernel = "triangles" /\ total # Uncounted

Step ==
    \/ Runs("bfs") /\ BfsNext
    \/ Runs("components") /\ ComponentsNext
    \/ Runs("sssp") /\ SsspNext
    \/ Runs("triangles") /\ Count

vars == <<view, bfs, components, sssp, total>>

Return == Finished /\ UNCHANGED vars

Next == Step \/ Return

\* A running thread of the team goes on running.
Spec == Init /\ [][Next]_vars /\ WF_vars(Step)

-----------------------------------------------------------------------------

\* The queue and the frontier of a search hold vertices, and no index runs out of
\* its array.
SearchTyped ==
    /\ parent \in [Vertices -> Vertices \cup {NoParent}]
    /\ queue \in [0 .. (N - 1) -> Vertices \cup {Garbage}]
    /\ window.first <= window.last /\ window.last <= N
    /\ front \subseteq Vertices /\ awake \in 0 .. N

\* The vertex k steps up from v.
Climb(v, k) ==
    LET f[i \in 0 .. k] == IF i = 0 THEN v ELSE IF f[i - 1] = NoParent THEN NoParent ELSE parent[f[i - 1]]
    IN  f[k]

\* A vertex has no parent but a visited neighbour, and going up from parent to
\* parent ends at the source, whatever the threads of the team do to each
\* other's writes: a parent written twice by two threads is replaced by one of
\* the same level, so that no cycle arises (compare_and_swap in TDStep, BUStep).
TreeSound ==
    kernel = "bfs" /\ Symmetric =>
        \A v \in Vertices : parent[v] # NoParent =>
            /\ v = Source \/ v \in Neighbours(parent[v])
            /\ Climb(v, N) = Source

\* No thread reads a slot of the queue that was not written, although two
\* flushes may start at the same slot and one of them may get lost: every slot
\* below shared_in is written before the window moves over it
\* (QueueBuffer.flush, slide_window).
SlotsWritten ==
    kernel = "bfs" => \A i \in 0 .. (window.last - 1) : queue[i] # Garbage

\* With a team of one, DOBFS returns what it should, whatever edge_num and alpha
\* make it choose: exactly the vertices that can be reached have a parent, and
\* the depth in the tree is the distance - the bits that a bottom-up phase
\* leaves in front for the next one do no harm.
BfsExact ==
    kernel = "bfs" /\ Symmetric /\ team = {0} =>
        /\ phase # "lost"
        /\ phase = "done" => \A v \in Vertices :
              LET d == Distance(Source, v)
              IN  IF d = N THEN parent[v] = NoParent
                  ELSE Climb(v, d) = Source /\ \A k \in 0 .. (d - 1) : Climb(v, k) # Source

\* Breadth-first search stays within its arrays and its tree is a tree, for any team,
\* and a team of one returns the right one.
BfsCorrect == SearchTyped /\ TreeSound /\ SlotsWritten /\ BfsExact

\* The edges as ShiloachVishkin sees them: from the external ID of a vertex to
\* the internal IDs of its neighbours.
Linked(u) == Neighbours(place[u]) \cup {v \in Vertices : u \in Neighbours(place[v])}
Component(u) == Within(u, Linked, N)

\* A label only ever points to a smaller or equal number of the same component,
\* whichever writes of the team are lost; so there are no cycles of labels and
\* the compression ends (cc_sv.cc).
LabelsSound ==
    kernel = "components" =>
        \A v \in Vertices : comp[v] \in Vertices /\ comp[v] <= v /\ comp[v] \in Component(v)

\* At the end every label is the smallest number of its component, for a team
\* that races on comp too: a hook that is lost sets `change', and the edge is
\* tried again in the next iteration.
ComponentsExact ==
    kernel = "components" /\ loop = "done" =>
        \A v \in Vertices : comp[v] = Min(Component(v))

\* The labels, while they change and at the end.
ComponentsCorrect == LabelsSound /\ ComponentsExact

\* Distances are in range, and what is handed out of the frontier is in it: vertices.
DistancesTyped ==
    /\ dist \in [Vertices -> 0 .. kDistInf]
    /\ frontier \in [1 .. NumEdges -> Vertices]
    /\ kernel = "sssp" => tail.curr <= NumEdges

Shortest(v) ==
    LET f[k \in 0 .. N] ==
            [x \in Vertices |-> IF k = 0 THEN IF x = Source THEN 0 ELSE kDistInf
                ELSE Min({f[k - 1][x]} \cup {f[k - 1][u] + weight[<<u, x>>] : u \in {y \in Vertices : x \in Neighbours(y)}})]
    IN  f[N][v]

\* No distance is ever shorter than the shortest path, lost updates or not
\* (RelaxEdges).
NeverTooShort == kernel = "sssp" => \A v \in Vertices : dist[v] >= Shortest(v)

\* With a team of one, DeltaStep returns the shortest distances: no vertex is
\* left in a bin that is not looked at again.
SsspExact ==
    kernel = "sssp" /\ team = {0} =>
        (stage = "done" => \A v \in Vertices : dist[v] = Shortest(v))

\* "Each thread copies its selected thread-local bin into the shared bin"
\* (sssp.cc:28), whose size is num_edges: it must have room for the copy.
CopiesFit == kernel = "sssp" => stage # "lost"

\* The distances, for any team while they shrink, and for a team of one at the end.
SsspCorrect == DistancesTyped /\ NeverTooShort /\ SsspExact

\* OrderedCount counts every set of three mutual neighbours once, whether it
\* sorts the lists or takes them as they are because is_sorted says so.
TrianglesExact ==
    total # Uncounted /\ Symmetric /\ (\A v \in Vertices : v \notin Neighbours(v)) =>
        total = Cardinality({s \in SUBSET Vertices : Cardinality(s) = 3 /\
                                \A u, v \in s : u # v => v \in Neighbours(u)})

\* Every kernel returns, on any graph and with any team, or has run over the end
\* of an array: no loop waits for a frontier or a change that a race took away.
KernelsReturn == <>Finished
=============================================================================
