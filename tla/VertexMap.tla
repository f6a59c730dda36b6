------------------------------ MODULE VertexMap ------------------------------
(***************************************************************************)
(* What a vertex index promises (src/src/sort.h, RetrieveVertex and        *)
(* DeleteVertex): each call takes effect at one instant between its call   *)
(* and its return, on a map from vertex IDs to vertices.  A vertex is      *)
(* never taken out of the map; deleting it marks it.                       *)
(***************************************************************************)
EXTENDS Naturals

CONSTANTS Threads, Ids

Absent == 0                       \* no vertex
Ops == {"find", "insert", "delete"}

VARIABLES
    index,     \* vertex ID -> its vertex
    deleted,   \* the vertices that are marked as deleted
    request,   \* thread -> {} or {the operation and ID of the call it is in}
    answer     \* thread -> {} or {the vertex its call will return}

ivars == <<index, deleted, request, answer>>

Init ==
    /\ index = [id \in Ids |-> Absent]
    /\ deleted = {}
    /\ request = [t \in Threads |-> {}]
    /\ answer = [t \in Threads |-> {}]

Invoke(t) ==
    /\ request[t] = {}
    /\ \E op \in Ops, id \in Ids :
          request' = [request EXCEPT ![t] = {[op |-> op, id |-> id]}]
    /\ UNCHANGED <<index, deleted, answer>>

\* The ID has a vertex, or the call does not insert one: the map stays.
Look(t) ==
    /\ answer[t] = {}
    /\ \E q \in request[t] :
          /\ q.op = "insert" => index[q.id] # Absent
          /\ answer' = [answer EXCEPT ![t] = {index[q.id]}]
          /\ deleted' = IF q.op = "delete" /\ index[q.id] # Absent
                        THEN deleted \cup {index[q.id]} ELSE deleted
    /\ UNCHANGED <<index, request>>

\* The ID gets a vertex of its own.
Enter(t) ==
    /\ answer[t] = {}
    /\ \E q \in request[t] :
          /\ q.op = "insert" /\ index[q.id] = Absent
          /\ index'[q.id] \notin {index[id] : id \in Ids} \cup {Absent}
          /\ index' = [index EXCEPT ![q.id] = index'[q.id]]
          /\ answer' = [answer EXCEPT ![t] = {index'[q.id]}]
    /\ UNCHANGED <<deleted, request>>

Return(t) ==
    /\ answer[t] # {}
    /\ request' = [request EXCEPT ![t] = {}]
    /\ answer' = [answer EXCEPT ![t] = {}]
    /\ UNCHANGED <<index, deleted>>

Next == \E t \in Threads : Invoke(t) \/ Look(t) \/ Enter(t) \/ Return(t)

Spec == Init /\ [][Next]_ivars
=============================================================================
