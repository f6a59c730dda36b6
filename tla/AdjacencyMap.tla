---------------------------- MODULE AdjacencyMap ----------------------------
(***************************************************************************)
(* What the edge store of a vertex promises its writers: InsertEdge,       *)
(* UpdateEdge and DeleteEdge (src/src/radixgraph.h) each take effect at one *)
(* instant between call and return, on a map from destinations to weights. *)
(***************************************************************************)
EXTENDS Naturals

CONSTANTS Writers, Dest, Weights

Absent == 0                         \* the weight of a missing edge

VARIABLES
    adj,      \* destination -> weight
    pending   \* writer -> the change its call has still to make: {} or {change}

avars == <<adj, pending>>

Changes == [idx : Dest, weight : Weights \cup {Absent}]

Init ==
    /\ adj = [d \in Dest |-> Absent]
    /\ pending = [t \in Writers |-> {}]

Invoke(t) ==
    /\ pending[t] = {}
    /\ \E c \in Changes : pending' = [pending EXCEPT ![t] = {c}]
    /\ UNCHANGED adj

Apply(t) ==
    \E c \in pending[t] :
        /\ adj' = [adj EXCEPT ![c.idx] = c.weight]
        /\ pending' = [pending EXCEPT ![t] = {}]

Next == \E t \in Writers : Invoke(t) \/ Apply(t)

Spec == Init /\ [][Next]_avars
=============================================================================
