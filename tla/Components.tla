----------------------------- MODULE Components -----------------------------
(***************************************************************************)
(* Connected components by hooking and compressing (ShiloachVishkin in     *)
(* src/src/GAPBS/cc_sv.cc).                                                *)
(*                                                                         *)
(* The threads of the team read and write comp without synchronisation:    *)
(* every read and write of comp that another thread may come between is a  *)
(* step.  The two loops of an iteration end with the barrier of a parallel *)
(* for, which is also when `change' is read.                               *)
(*                                                                         *)
(* The kernel looks vertices up by external ID (RetrieveVertex(n)) and     *)
(* follows their edges by internal ID (e.idx).  `place' is the internal ID *)
(* of an external one.                                                     *)
(***************************************************************************)
EXTENDS GraphView

CONSTANT Places      \* permutations of the vertices of a graph

ASSUME ComponentsAssumption == \A p \in Places : {p[v] : v \in DOMAIN p} = DOMAIN p

VARIABLES
    place,     \* external ID -> internal ID
    comp,      \* the result
    change,    \* a component was hooked in this iteration
    loop,      \* "hook", "compress", or "done"
    cc         \* thread -> its local state in a loop

components == <<place, comp, change, loop, cc>>

\* The edges of the vertices a thread is given, in order: comp[u] and comp[v] are compared.
Edges(t) ==
    LET at(n) == adj[place[n]]
        of(n) == [i \in 1 .. Len(at(n)) |-> <<n, at(n)[i]>>]
        own == InOrder(Share(t, N))
    IN  FlattenSeq([i \in DOMAIN own |-> of(own[i])])

AtEdges(t) == [pc |-> "own", edges |-> Edges(t), high |-> 0, low |-> 0]
AtVertices(t) == [pc |-> "test", todo |-> InOrder(Share(t, N)), read |-> 0]

ComponentsInit ==
    /\ place \in {p \in Places : DOMAIN p = Vertices}
    /\ comp = [n \in Vertices |-> n]
    /\ change = FALSE /\ loop = "hook"
    /\ cc = [t \in team |-> AtEdges(t)]

Become(t, r) == cc' = [cc EXCEPT ![t] = r]
Hooking(t, p) == loop = "hook" /\ cc[t].pc = p /\ cc[t].edges # <<>>

\* comp_u is read, ...
ReadOwn(t) ==
    /\ Hooking(t, "own")
    /\ Become(t, [cc[t] EXCEPT !.pc = "other", !.high = comp[Head(cc[t].edges)[1]]])
    /\ UNCHANGED <<place, comp, change, loop>>

\* ... then comp_v; equal components leave the edge, others are put in order ...
ReadOther(t) ==
    /\ Hooking(t, "other")
    /\ LET u == cc[t].high
           v == comp[Head(cc[t].edges)[2]]
       IN  Become(t, IF u = v THEN [cc[t] EXCEPT !.pc = "own", !.edges = Tail(@)]
                     ELSE [cc[t] EXCEPT !.pc = "root", !.high = Max({u, v}), !.low = Min({u, v})])
    /\ UNCHANGED <<place, comp, change, loop>>

IsRoot(c) == comp[c] = c

\* ... and only a root is hooked: the test, ...
TestRoot(t) ==
    /\ Hooking(t, "root")
    /\ Become(t, IF IsRoot(cc[t].high) THEN [cc[t] EXCEPT !.pc = "hook"]
                 ELSE [cc[t] EXCEPT !.pc = "own", !.edges = Tail(@)])
    /\ UNCHANGED <<place, comp, change, loop>>

Low(t) == [at |-> cc[t].high, to |-> cc[t].low]

Changed_Not == change

Changed == TRUE

\* ... and the write.
Hook(t) ==
    /\ Hooking(t, "hook")
    /\ comp' = [comp EXCEPT ![Low(t).at] = Low(t).to]
    /\ change' = Changed
    /\ Become(t, [cc[t] EXCEPT !.pc = "own", !.edges = Tail(@)])
    /\ UNCHANGED <<place, loop>>

EndHook ==
    /\ loop = "hook" /\ \A t \in team : cc[t].edges = <<>>
    /\ loop' = "compress" /\ cc' = [t \in team |-> AtVertices(t)]
    /\ UNCHANGED <<place, comp, change>>

Compressing(t, p) == loop = "compress" /\ cc[t].pc = p /\ cc[t].todo # <<>>

\* comp[n] is compared with comp[comp[n]], ...
TestJump(t) ==
    /\ Compressing(t, "test")
    /\ LET n == Head(cc[t].todo)
       IN  Become(t, IF comp[n] = comp[comp[n]] THEN [cc[t] EXCEPT !.todo = Tail(@)]
                     ELSE [cc[t] EXCEPT !.pc = "load"])
    /\ UNCHANGED <<place, comp, change, loop>>

\* ... read again, ...
LoadJump(t) ==
    /\ Compressing(t, "load")
    /\ Become(t, [cc[t] EXCEPT !.pc = "jump", !.read = comp[comp[Head(cc[t].todo)]]])
    /\ UNCHANGED <<place, comp, change, loop>>

\* ... and written.
Jump(t) ==
    /\ Compressing(t, "jump")
    /\ comp' = [comp EXCEPT ![Head(cc[t].todo)] = cc[t].read]
    /\ Become(t, [cc[t] EXCEPT !.pc = "test"])
    /\ UNCHANGED <<place, change, loop>>

Reset_Forgotten == change

Reset == FALSE

EndCompress ==
    /\ loop = "compress" /\ \A t \in team : cc[t].todo = <<>>
    /\ change' = Reset
    /\ IF change THEN loop' = "hook" /\ cc' = [t \in team |-> AtEdges(t)]
                 ELSE loop' = "done" /\ UNCHANGED cc
    /\ UNCHANGED <<place, comp>>

ComponentsStep(t) ==
    \/ ReadOwn(t) \/ ReadOther(t) \/ TestRoot(t) \/ Hook(t)
    \/ TestJump(t) \/ LoadJump(t) \/ Jump(t)

ComponentsNext == EndHook \/ EndCompress \/ \E t \in team : ComponentsStep(t)
=============================================================================
