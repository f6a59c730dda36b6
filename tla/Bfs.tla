-------------------------------- MODULE Bfs --------------------------------
(***************************************************************************)
(* Direction-optimising breadth-first search (src/src/GAPBS/bfs.cc) on its *)
(* sliding queue, bitmap and atomics (sliding_queue.h, bitmap.h,           *)
(* platform_atomics.h).                                                    *)
(*                                                                         *)
(* compare_and_swap and fetch_and_add are plain reads and writes in this   *)
(* repository: a read and the write that follows it are two steps here, so *)
(* that the other threads of the team come in between.  A flush that runs  *)
(* over the end of the queue is undefined (phase "lost").                  *)
(*                                                                         *)
(* The two reads of parent before a compare_and_swap writes are one step,  *)
(* as nothing happens if either finds the vertex visited.  BUStep is one   *)
(* step: it hands out chunks of 1024 vertices, which share no word of the  *)
(* bitmap it writes, and every vertex writes its own parent only.          *)
(*                                                                         *)
(* A definition D_Fault before a definition D is D with a plausible bug;   *)
(* nothing uses it but mutation testing of the properties (PROJECT.json).  *)
(***************************************************************************)
EXTENDS GraphView

CONSTANTS
    EdgeNums,    \* edge_num, as callers give it: right or not
    Alphas, Beta, \* the parameters of the heuristic
    BufferSize   \* local_size of QueueBuffer (16384 in the code)

ASSUME BfsAssumption ==
    /\ EdgeNums \subseteq Nat
    /\ Alphas \subseteq Nat \ {0} /\ Beta \in Nat \ {0} /\ BufferSize \in Nat \ {0}

NoParent == -1
Garbage == -1                    \* a slot of the queue that was not written

VARIABLES
    phase,     \* where DOBFS is
    parent,    \* the result
    queue,     \* SlidingQueue.shared
    in,        \* shared_in
    window,    \* [first |-> shared_out_start, last |-> shared_out_end]
    front,     \* the bitmap of the bottom-up steps
    awake,     \* awake_count
    edges,     \* edges_to_check
    scout,     \* scout_count
    next,      \* the loop index that a dynamic schedule hands out next
    wk,        \* thread -> its local state in a parallel region
    param      \* alpha, and whether the store's snapshots are fresh

bfs == <<phase, parent, queue, in, window, front, awake, edges, scout, next, wk, param>>

Resting == [pc |-> "rest", todo |-> <<>>, from |-> 0, v |-> NoParent, word |-> {}, buffer |-> <<>>, base |-> 0]
Working(p) == [t \in team |-> [Resting EXCEPT !.pc = p]]
Rested == \A t \in team : wk[t].pc = "rest"

\* snapshot_deg of a vertex: 0 unless CreateSnapshots has run.
SnapDeg(v) == IF param.fresh THEN Len(adj[v]) ELSE 0

BfsInit ==
    /\ phase = "choose"
    /\ parent = [v \in Vertices |-> IF v = Source THEN Source ELSE NoParent]
    /\ queue = [i \in 0 .. (N - 1) |-> IF i = 0 THEN Source ELSE Garbage]
    /\ in = 1 /\ window = [first |-> 0, last |-> 1]
    /\ front = {} /\ awake = 0 /\ next = 0
    /\ param \in [alpha : Alphas, fresh : BOOLEAN]
    /\ edges \in EdgeNums /\ scout = SnapDeg(Source)
    /\ wk = Working("rest")

Slid == [first |-> window.last, last |-> in]
Quotient(n, d) == IF n < 0 THEN -((-n) \div d) ELSE n \div d

\* The slots of the window that thread t turns into bits.
Slots(t) == InOrder({window.first + i : i \in Share(t, window.last - window.first)})

\* The body of the loop of DOBFS: which direction to take, or none.
Choose ==
    /\ phase = "choose"
    /\ \/ /\ window.first = window.last
          /\ phase' = "done"
          /\ UNCHANGED <<edges, scout, next, wk>>
       \/ /\ window.first # window.last /\ scout > Quotient(edges, param.alpha)
          /\ phase' = "mark"
          /\ wk' = [t \in team |-> [Resting EXCEPT !.pc = "load", !.todo = Slots(t)]]
          /\ UNCHANGED <<edges, scout, next>>
       \/ /\ window.first # window.last /\ scout <= Quotient(edges, param.alpha)
          /\ phase' = "topdown" /\ wk' = Working("take")
          /\ edges' = edges - scout /\ scout' = 0 /\ next' = window.first
    /\ UNCHANGED <<parent, queue, in, window, front, awake, param>>

-----------------------------------------------------------------------------
(* TDStep. *)

Set(t, r) == wk' = [wk EXCEPT ![t] = r]

\* The dynamic schedule hands out the next vertex of the window, one at a time.
Take(t) ==
    /\ phase = "topdown" /\ wk[t].pc = "take"
    /\ IF next = window.last
       THEN Set(t, [wk[t] EXCEPT !.pc = "fetch"]) /\ UNCHANGED next
       ELSE /\ next' = next + 1
            /\ Set(t, [wk[t] EXCEPT !.pc = "look", !.from = queue[next], !.todo = adj[queue[next]]])
    /\ UNCHANGED <<phase, parent, queue, in, window, front, awake, edges, scout, param>>

Unvisited(v) == parent[v] = NoParent

\* The next neighbour is looked at; if it has no parent, the comparison of
\* compare_and_swap succeeds ...
Look(t) ==
    /\ phase = "topdown" /\ wk[t].pc = "look"
    /\ LET todo == wk[t].todo
       IN  Set(t, IF todo = <<>> THEN [wk[t] EXCEPT !.pc = "take"]
                  ELSE IF Unvisited(Head(todo))
                  THEN [wk[t] EXCEPT !.pc = "swap", !.v = Head(todo), !.todo = Tail(todo)]
                  ELSE [wk[t] EXCEPT !.todo = Tail(todo)])
    /\ UNCHANGED <<phase, parent, queue, in, window, front, awake, edges, scout, next, param>>

\* ... and its write follows; a full buffer is flushed before the vertex goes in.
Swap(t) ==
    /\ phase = "topdown" /\ wk[t].pc = "swap"
    /\ parent' = [parent EXCEPT ![wk[t].v] = wk[t].from]
    /\ scout' = scout + SnapDeg(wk[t].v)
    /\ Set(t, IF Len(wk[t].buffer) = BufferSize
              THEN [wk[t] EXCEPT !.pc = "fetch"]
              ELSE [wk[t] EXCEPT !.pc = "look", !.buffer = Append(@, wk[t].v), !.v = NoParent])
    /\ UNCHANGED <<phase, queue, in, window, front, awake, edges, next, param>>

-----------------------------------------------------------------------------
(* QueueBuffer.flush: fetch_and_add on shared_in, then the copy. *)

Collecting == phase \in {"topdown", "collect"}

FlushFetch(t) ==
    /\ Collecting /\ wk[t].pc = "fetch"
    /\ Set(t, [wk[t] EXCEPT !.pc = "add", !.base = in])
    /\ UNCHANGED <<phase, parent, queue, in, window, front, awake, edges, scout, next, param>>

Added(t) == wk[t].base + Len(wk[t].buffer)

FlushAdd(t) ==
    /\ Collecting /\ wk[t].pc = "add"
    /\ in' = Added(t)
    /\ Set(t, [wk[t] EXCEPT !.pc = "copy"])
    /\ UNCHANGED <<phase, parent, queue, window, front, awake, edges, scout, next, param>>

\* The copy; then the vertex that did not fit is buffered, or the next bits are
\* gathered, or the thread is through.
FlushCopy(t) ==
    /\ Collecting /\ wk[t].pc = "copy"
    /\ LET w == [wk[t] EXCEPT !.buffer = <<>>]
           end == wk[t].base + Len(wk[t].buffer)
       IN  IF end > N THEN phase' = "lost" /\ UNCHANGED <<queue, wk>>
           ELSE /\ queue' = [i \in DOMAIN queue |-> IF i \in w.base .. (end - 1)
                                THEN wk[t].buffer[i - w.base + 1] ELSE queue[i]]
                /\ Set(t, IF w.v # NoParent
                          THEN [w EXCEPT !.pc = "look", !.buffer = <<w.v>>, !.v = NoParent]
                          ELSE [w EXCEPT !.pc = IF phase = "collect" /\ w.todo # <<>>
                                                THEN "gather" ELSE "rest"])
                /\ UNCHANGED phase
    /\ UNCHANGED <<parent, in, window, front, awake, edges, scout, next, param>>

EndTopDown ==
    /\ phase = "topdown" /\ Rested
    /\ phase' = "choose" /\ window' = Slid
    /\ UNCHANGED <<parent, queue, in, front, awake, edges, scout, next, wk, param>>

-----------------------------------------------------------------------------
(* QueueToBitmap: Bitmap.set_bit_atomic for each slot of the window. *)

\* The word is loaded, ...
MarkLoad(t) ==
    /\ phase = "mark" /\ wk[t].pc = "load"
    /\ Set(t, IF wk[t].todo = <<>> THEN [wk[t] EXCEPT !.pc = "rest"]
              ELSE [wk[t] EXCEPT !.pc = "compare", !.word = front])
    /\ UNCHANGED <<phase, parent, queue, in, window, front, awake, edges, scout, next, param>>

\* ... compared, ...
MarkCompare(t) ==
    /\ phase = "mark" /\ wk[t].pc = "compare"
    /\ Set(t, [wk[t] EXCEPT !.pc = IF front = wk[t].word THEN "store" ELSE "load"])
    /\ UNCHANGED <<phase, parent, queue, in, window, front, awake, edges, scout, next, param>>

Marked_Alone(t) == {queue[Head(wk[t].todo)]}

Marked(t) == wk[t].word \cup {queue[Head(wk[t].todo)]}

\* ... and stored with one more bit.
MarkStore(t) ==
    /\ phase = "mark" /\ wk[t].pc = "store"
    /\ front' = Marked(t)
    /\ Set(t, [wk[t] EXCEPT !.pc = "load", !.todo = Tail(@)])
    /\ UNCHANGED <<phase, parent, queue, in, window, awake, edges, scout, next, param>>

EndMark ==
    /\ phase = "mark" /\ Rested
    /\ phase' = "bottomup" /\ awake' = window.last - window.first /\ window' = Slid
    /\ UNCHANGED <<parent, queue, in, front, edges, scout, next, wk, param>>

-----------------------------------------------------------------------------
(* BUStep and BitmapToQueue. *)

\* Every vertex without a parent takes its first neighbour in the frontier.
Waking(v) == {i \in DOMAIN adj[v] : adj[v][i] \in front}
Waker(v) == adj[v][Min(Waking(v))]

Bits(t, bits) == InOrder(bits \cap Share(t, N))

BUStep ==
    /\ phase = "bottomup"
    /\ LET woken == {v \in Vertices : parent[v] = NoParent /\ Waking(v) # {}}
           again == Cardinality(woken) >= awake \/ Cardinality(woken) > N \div Beta
       IN  /\ parent' = [v \in Vertices |-> IF v \in woken THEN Waker(v) ELSE parent[v]]
           /\ front' = woken /\ awake' = Cardinality(woken)
           /\ phase' = IF again THEN "bottomup" ELSE "collect"
           /\ wk' = IF again THEN wk
                    ELSE [t \in team |-> [Resting EXCEPT !.pc = "gather", !.todo = Bits(t, woken)]]
    /\ UNCHANGED <<queue, in, window, edges, scout, next, param>>

\* The bits of a thread's share go into its buffer, as many as fit before a flush.
Gather(t) ==
    /\ phase = "collect" /\ wk[t].pc = "gather"
    /\ LET n == Min({BufferSize, Len(wk[t].todo)})
       IN  Set(t, [wk[t] EXCEPT !.pc = "fetch", !.buffer = SubSeq(wk[t].todo, 1, n),
                                !.todo = SubSeq(@, n + 1, Len(@))])
    /\ UNCHANGED <<phase, parent, queue, in, window, front, awake, edges, scout, next, param>>

EndCollect ==
    /\ phase = "collect" /\ Rested
    /\ phase' = "choose" /\ window' = Slid /\ scout' = 1
    /\ UNCHANGED <<parent, queue, in, front, awake, edges, next, wk, param>>

-----------------------------------------------------------------------------
BfsStep(t) ==
    \/ Take(t) \/ Look(t) \/ Swap(t)
    \/ FlushFetch(t) \/ FlushAdd(t) \/ FlushCopy(t)
    \/ MarkLoad(t) \/ MarkCompare(t) \/ MarkStore(t) \/ Gather(t)

BfsNext ==
    \/ Choose \/ EndTopDown \/ EndMark \/ BUStep \/ EndCollect
    \/ \E t \in team : BfsStep(t)
=============================================================================
