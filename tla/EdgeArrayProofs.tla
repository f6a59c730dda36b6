--------------------------- MODULE EdgeArrayProofs ---------------------------
(***************************************************************************)
(* Proofs about EdgeArray for every value of its constants: IInv is        *)
(* inductive, and from it the type invariant, WritersOnCurrent, PinsHold,  *)
(* ReadsInBounds, RetiredFrozen, SlotsNotShared and                        *)
(* RetiredBuffersReclaimed.                                                *)
(*                                                                         *)
(* The argument.  A slot below cap is owned from the fetch_add on size to  *)
(* the fetch_add on physical_size.  physical_size = cap therefore says     *)
(* that nobody owns a slot of the current array (SlotsAccounted), and a    *)
(* retired array is overfull (RetiredOverfull), so that a writer which     *)
(* loaded its address before it was retired finds no slot in it and goes   *)
(* on to the lock.  The purge and the deletions spare what is pinned       *)
(* because threads_read changes under the lock only, and is the number of  *)
(* pinning readers.                                                        *)
(***************************************************************************)
EXTENDS EdgeArrayProperties, FiniteSetTheorems, TLAPS

-----------------------------------------------------------------------------
(* The state and its types. *)

\* The fields of an array header have their types.
LEMMA HeaderFields ==
    ASSUME TypeOK, NEW v \in Versions
    PROVE  /\ arr[v] \in Headers
           /\ arr[v].size \in Nat /\ arr[v].cap \in Nat /\ arr[v].phys \in Nat
           /\ arr[v].deg \in Int /\ arr[v].snapDeg \in Nat /\ arr[v].reads \in Nat
           /\ arr[v].prev \in Versions \cup {NoVersion}
           /\ arr[v].next \in Versions \cup {NoVersion}
<1>1. arr[v] \in Headers
    BY DEF TypeOK
<1> QED BY <1>1 DEF Headers

\* The fields of a writer's state have their types.
LEMMA WriterFields ==
    ASSUME TypeOK, NEW t \in Writers
    PROVE  /\ wr[t] \in WriterStates
           /\ wr[t].pc \in WriterPcs /\ wr[t].slot \in Nat
           /\ wr[t].arr \in Versions \cup {NoVersion}
<1>1. wr[t] \in WriterStates
    BY DEF TypeOK
<1> QED BY <1>1 DEF WriterStates

\* The fields of a reader's state have their types.
LEMMA ReaderFields ==
    ASSUME TypeOK, NEW r \in Readers
    PROVE  /\ rd[r] \in ReaderStates
           /\ rd[r].pc \in ReaderPcs /\ rd[r].pos \in Int
           /\ rd[r].arr \in Versions \cup {NoVersion}
<1>1. rd[r] \in ReaderStates
    BY DEF TypeOK
<1> QED BY <1>1 DEF ReaderStates

\* SetWriter changes the program counter of one writer and nothing else.
LEMMA SetWriterFields ==
    ASSUME TypeOK, NEW t \in Writers, NEW p \in WriterPcs, SetWriter(t, p)
    PROVE  /\ wr' \in [Writers -> WriterStates]
           /\ wr'[t].pc = p /\ wr'[t].arr = wr[t].arr /\ wr'[t].slot = wr[t].slot
           /\ \A u \in Writers : u # t => wr'[u] = wr[u]
<1>1. wr \in [Writers -> WriterStates]
    BY DEF TypeOK
<1>2. wr[t] \in WriterStates
    BY <1>1
<1>3. wr' = [wr EXCEPT ![t] = [wr[t] EXCEPT !.pc = p]]
    BY DEF SetWriter
<1>4. [wr[t] EXCEPT !.pc = p] \in WriterStates
    BY <1>2 DEF WriterStates
<1>5. wr'[t] = [wr[t] EXCEPT !.pc = p]
    BY <1>1, <1>3
<1>6. wr'[t].pc = p /\ wr'[t].arr = wr[t].arr /\ wr'[t].slot = wr[t].slot
    BY <1>2, <1>5 DEF WriterStates
<1> QED BY <1>1, <1>3, <1>4, <1>6

\* TakeSlot (size.fetch_add, radixgraph.cpp:23 and 49) changes the size of one array
\* and the state of one writer.
LEMMA TakeSlotFields ==
    ASSUME TypeOK, NEW t \in Writers, NEW v \in Versions, TakeSlot(t, v)
    PROVE  /\ wr' \in [Writers -> WriterStates]
           /\ wr'[t].arr = v /\ wr'[t].slot = arr[v].size
           /\ wr'[t].pc = IF arr[v].size >= arr[v].cap THEN "lock"
                          ELSE IF Mixed THEN "tick" ELSE "stamp"
           /\ \A u \in Writers : u # t => wr'[u] = wr[u]
           /\ arr' \in [Versions -> Headers]
           /\ arr'[v] = [arr[v] EXCEPT !.size = arr[v].size + 1]
           /\ \A u \in Versions : u # v => arr'[u] = arr[u]
<1> DEFINE p == IF arr[v].size >= arr[v].cap THEN "lock"
                ELSE IF Mixed THEN "tick" ELSE "stamp"
           w == [wr[t] EXCEPT !.arr = v, !.slot = arr[v].size, !.pc = p]
           h == [arr[v] EXCEPT !.size = arr[v].size + 1]
<1>1. wr \in [Writers -> WriterStates] /\ arr \in [Versions -> Headers]
    BY DEF TypeOK
<1>2. wr[t] \in WriterStates /\ arr[v] \in Headers
    BY <1>1
<1>3. wr' = [wr EXCEPT ![t] = w] /\ arr' = [arr EXCEPT ![v] = h]
    BY DEF TakeSlot, Beyond
<1>4. arr[v].size \in Nat
    BY HeaderFields
<1>5. p \in WriterPcs
    BY DEF WriterPcs
<1>6. w \in WriterStates
    BY <1>2, <1>4, <1>5 DEF WriterStates
<1>7. h \in Headers
    BY <1>2, <1>4 DEF Headers
<1>8. w.arr = v /\ w.slot = arr[v].size /\ w.pc = p
    BY <1>2 DEF WriterStates
<1> HIDE DEF w, h, p
<1>9. wr'[t] = w /\ arr'[v] = h
    BY <1>1, <1>3
<1> QED BY <1>1, <1>3, <1>6, <1>7, <1>8, <1>9 DEF h, p

\* What the proofs use of the assumption on the threads.
LEMMA FiniteThreads ==
    /\ IsFiniteSet(Writers) /\ IsFiniteSet(Readers)
    /\ Writers \cap Readers = {} /\ NoThread \notin Writers \cup Readers
BY ConstantsAssumption DEF ConstantsAssumption

\* The writers that own a slot of a version are finitely many.
LEMMA HoldingFinite ==
    ASSUME NEW v
    PROVE  IsFiniteSet(Holding(v)) /\ Cardinality(Holding(v)) \in Nat
<1>1. Holding(v) \subseteq Writers
    BY DEF Holding
<1> QED BY <1>1, FiniteThreads, FS_Subset, FS_CardinalityType

\* Every version up to the current one is a version.
LEMMA CurFacts ==
    ASSUME IInv
    PROVE  /\ cur \in Versions /\ cur \in Nat
           /\ \A v \in 0 .. cur : v \in Versions
BY ConstantsAssumption DEF ConstantsAssumption, IInv, TypeOK, Versions

\* A slot number is handed out: either it is one more owned slot of the current
\* array, or the array, current or retired, is overfull already.
LEMMA TakeSlotPreserves ==
    ASSUME IInv, NEW t \in Writers, NEW v \in 0 .. cur, TakeSlot(t, v),
           arr[v].mem # "freed",
           UNCHANGED <<buf, cur, clock, rd, ans, calls, reads>>,
           \/ wr[t].pc = "reserve" /\ mtx' = mtx
           \/ wr[t].pc = "reload" /\ mtx' = NoThread
    PROVE  IInv'
<1>1. TypeOK /\ v \in Versions /\ cur \in Versions /\ cur \in Nat
    BY CurFacts DEF IInv
<1>2. /\ wr' \in [Writers -> WriterStates]
      /\ wr'[t].arr = v /\ wr'[t].slot = arr[v].size
      /\ wr'[t].pc = IF arr[v].size >= arr[v].cap THEN "lock"
                     ELSE IF Mixed THEN "tick" ELSE "stamp"
      /\ \A u \in Writers : u # t => wr'[u] = wr[u]
      /\ arr' \in [Versions -> Headers]
      /\ arr'[v] = [arr[v] EXCEPT !.size = arr[v].size + 1]
      /\ \A u \in Versions : u # v => arr'[u] = arr[u]
    BY <1>1, TakeSlotFields
<1>3. \A u \in Versions :
         /\ arr[u].size \in Nat /\ arr[u].cap \in Nat /\ arr[u].phys \in Nat
         /\ arr'[u].cap = arr[u].cap /\ arr'[u].phys = arr[u].phys
         /\ arr'[u].snapDeg = arr[u].snapDeg /\ arr'[u].reads = arr[u].reads
         /\ arr'[u].prev = arr[u].prev /\ arr'[u].next = arr[u].next
         /\ arr'[u].mem = arr[u].mem
         /\ arr'[u].size = IF u = v THEN arr[v].size + 1 ELSE arr[u].size
    <2> TAKE u \in Versions
    <2>1. arr[v] \in Headers /\ arr[u] \in Headers
        BY <1>1, HeaderFields
    <2>2. CASE u = v
        BY <1>2, <2>1, <2>2 DEF Headers
    <2>3. CASE u # v
        BY <1>2, <2>1, <2>3 DEF Headers
    <2> QED BY <2>2, <2>3
<1>4. TypeOK'
    <2>1. mtx' \in Writers \cup Readers \cup {NoThread}
        BY DEF IInv, TypeOK
    <2>2. \A u \in Versions : arr'[u].mem = "live" => DOMAIN buf'[u] = 0 .. (arr'[u].cap - 1)
        BY <1>1, <1>3 DEF TypeOK
    <2> QED BY <1>1, <1>2, <2>1, <2>2 DEF TypeOK
<1>5. LockHeldInside'
    BY <1>2, FiniteThreads DEF IInv, LockHeldInside, WriterInside
<1>6. PointersInChain'
    BY <1>1, <1>2 DEF IInv, PointersInChain, Pinning
<1>7. VersionsSane'
    BY <1>1, <1>3 DEF IInv, VersionsSane
<1>8. SlotsOfWriters'
    <2>1. wr'[t].pc \in Writing => v = cur /\ arr[cur].size < arr[cur].cap
        BY <1>1, <1>2, <1>3 DEF IInv, RetiredOverfull, Writing
    <2>2. \A u \in Writers : u # t /\ wr'[u].pc \in Writing =>
             wr'[u].slot < arr[cur].size /\ wr'[u].slot < arr[cur].cap /\ wr'[u].arr = cur
        BY <1>2 DEF IInv, SlotsOfWriters
    <2>3. \A u \in Writers : wr'[u].slot \in Nat
        BY <1>2 DEF WriterStates
    <2>4. \A u \in Writers : wr'[u].pc \in Writing =>
             wr'[u].arr = cur /\ wr'[u].slot < arr'[cur].cap /\ wr'[u].slot < arr'[cur].size
        BY <1>1, <1>2, <1>3, <2>1, <2>2, <2>3
    <2>5. ASSUME NEW u \in Writers, NEW x \in Writers, u \in Holding(cur)', x \in Holding(cur)',
                 wr'[u].slot = wr'[x].slot
          PROVE  u = x
        <3>1. wr'[u].pc \in Writing /\ wr'[x].pc \in Writing
            BY <2>5 DEF Holding
        <3>2. CASE u = t /\ x # t
            BY <3>1, <3>2, <1>1, <1>2, <1>3, <2>1, <2>2, <2>3, <2>5
        <3>3. CASE x = t /\ u # t
            BY <3>1, <3>3, <1>1, <1>2, <1>3, <2>1, <2>2, <2>3, <2>5
        <3>4. CASE x # t /\ u # t
            <4>1. u \in Holding(cur) /\ x \in Holding(cur) /\ wr[u].slot = wr[x].slot
                BY <3>1, <3>4, <1>2, <2>2, <2>5 DEF Holding
            <4> QED BY <4>1 DEF IInv, SlotsOfWriters
        <3> QED BY <3>2, <3>3, <3>4
    <2>6. Holding(cur)' \subseteq Writers
        BY DEF Holding
    <2> QED BY <2>4, <2>5, <2>6 DEF SlotsOfWriters
<1>9. SlotsAccounted'
    <2>1. CASE wr'[t].pc \in Writing
        <3>1. v = cur /\ arr[cur].size < arr[cur].cap
            BY <2>1, <1>1, <1>2, <1>3 DEF IInv, RetiredOverfull, Writing
        <3>2. Holding(cur)' = Holding(cur) \cup {t} /\ t \notin Holding(cur)
            BY <2>1, <3>1, <1>2 DEF Holding, Writing
        <3>3. Cardinality(Holding(cur)') = Cardinality(Holding(cur)) + 1
            BY <3>2, HoldingFinite, FS_AddElement
        <3> QED BY <3>1, <3>3, <1>1, <1>3, HoldingFinite DEF IInv, SlotsAccounted
    <2>2. CASE wr'[t].pc \notin Writing
        <3>1. Holding(cur)' = Holding(cur)
            BY <2>2, <1>2 DEF Holding, Writing
        <3>2. arr[v].size >= arr[v].cap
            BY <2>2, <1>1, <1>2, <1>3 DEF Writing
        <3> QED BY <3>1, <3>2, <1>1, <1>3, HoldingFinite DEF IInv, SlotsAccounted
    <2> QED BY <2>1, <2>2
<1>10. RetiredOverfull'
    BY <1>1, <1>3 DEF IInv, RetiredOverfull
<1>11. Handover'
    <2>1. \A u \in Writers : wr'[u].pc \in {"publish", "reclaim"} => wr'[u] = wr[u]
        BY <1>2
    <2>2. \A u \in Writers : wr[u].pc = "reclaim" => wr[u].arr \in Versions
        BY CurFacts DEF IInv, PointersInChain
    <2>3. \A u \in Writers : wr'[u].pc = "reclaim" => arr'[wr'[u].arr].mem = "live"
        BY <1>3, <2>1, <2>2 DEF IInv, Handover
    <2> QED BY <1>1, <1>3, <2>1, <2>3 DEF IInv, Handover
<1>12. PinsHold'
    <2>1. \A u \in Versions : Pinned(u)' = Pinned(u)
        BY DEF Pinned
    <2>2. \A r \in Readers : rd[r].pc \in Pinning => rd[r].arr \in Versions
        BY CurFacts DEF IInv, PointersInChain
    <2> QED BY <2>1, <2>2, <1>3 DEF IInv, PinsHold
<1>13. ReadsInBounds'
    <2>1. \A r \in Readers : rd[r].pc \in Pinning => rd[r].arr \in Versions
        BY CurFacts DEF IInv, PointersInChain
    <2> QED BY <2>1, <1>3 DEF IInv, ReadsInBounds, Pinning
<1> QED BY <1>4, <1>5, <1>6, <1>7, <1>8, <1>9, <1>10, <1>11, <1>12, <1>13 DEF IInv

\* A step of a writer that keeps its slot, or that has none before and after, and
\* disturbs no counter, preserves the invariant.
LEMMA WriterFrame ==
    ASSUME IInv, NEW t \in Writers,
           wr' \in [Writers -> WriterStates],
           \A u \in Writers : u # t => wr'[u] = wr[u],
           \/ /\ wr[t].pc \in Writing /\ wr'[t].pc \in Writing
              /\ wr'[t].arr = wr[t].arr /\ wr'[t].slot = wr[t].slot
           \/ /\ wr[t].pc \in {"idle", "reserve", "fault"}
              /\ wr'[t].pc \in {"idle", "reserve", "fault"}
              /\ wr'[t].arr \in 0 .. cur,
           arr' \in [Versions -> Headers],
           \A v \in Versions :
              /\ arr'[v].size = arr[v].size /\ arr'[v].cap = arr[v].cap
              /\ arr'[v].phys = arr[v].phys /\ arr'[v].snapDeg = arr[v].snapDeg
              /\ arr'[v].reads = arr[v].reads /\ arr'[v].mem = arr[v].mem
              /\ arr'[v].prev = arr[v].prev /\ arr'[v].next = arr[v].next,
           DOMAIN buf' = Versions,
           \A v \in Versions : DOMAIN buf'[v] = DOMAIN buf[v],
           rd' \in [Readers -> ReaderStates],
           \A r \in Readers : /\ rd'[r].pc = rd[r].pc /\ rd'[r].arr = rd[r].arr
                              /\ rd'[r].pos = rd[r].pos,
           clock' \in Nat, calls' \in 0 .. MaxCalls,
           UNCHANGED <<cur, mtx, ans, reads>>
    PROVE  IInv'
<1>1. TypeOK /\ cur \in Versions /\ cur \in Nat /\ \A v \in 0 .. cur : v \in Versions
    BY CurFacts DEF IInv
<1>2. TypeOK'
    BY <1>1 DEF TypeOK
<1>3. LockHeldInside'
    BY FiniteThreads DEF IInv, LockHeldInside, WriterInside, Writing
<1>4. PointersInChain'
    BY <1>1 DEF IInv, PointersInChain, Pinning, Writing
<1>5. VersionsSane'
    BY <1>1 DEF IInv, VersionsSane
<1>6. Holding(cur)' = Holding(cur)
    BY DEF Holding, Writing
<1>7. \A u \in Holding(cur) : wr'[u].slot = wr[u].slot
    BY DEF Holding, Writing
<1>8. SlotsOfWriters'
    <2>1. \A u \in Writers : wr'[u].pc \in Writing =>
            wr[u].pc \in Writing /\ wr'[u].arr = wr[u].arr /\ wr'[u].slot = wr[u].slot
        BY DEF Writing
    <2> QED BY <1>1, <1>6, <1>7, <2>1 DEF IInv, SlotsOfWriters
<1>9. SlotsAccounted'
    BY <1>1, <1>6 DEF IInv, SlotsAccounted
<1>10. RetiredOverfull'
    BY <1>1 DEF IInv, RetiredOverfull
<1>11. Handover'
    <2>1. \A u \in Writers : wr'[u].pc \in {"publish", "reclaim"} => wr'[u] = wr[u]
        BY DEF Writing
    <2>2. \A u \in Writers : wr[u].pc = "reclaim" => wr[u].arr \in Versions
        BY <1>1 DEF IInv, PointersInChain
    <2>3. \A u \in Writers : wr'[u].pc = "reclaim" => arr'[wr'[u].arr].mem = "live"
        BY <2>1, <2>2 DEF IInv, Handover
    <2>4. \A u \in Writers : wr'[u].pc = "publish" => wr[u].pc = "publish"
        BY <2>1
    <2> QED BY <1>1, <2>3, <2>4 DEF IInv, Handover
<1>12. \A r \in Readers : rd[r].pc \in Pinning => rd[r].arr \in Versions
    BY <1>1 DEF IInv, PointersInChain
<1>13. PinsHold'
    <2>1. \A v : Pinned(v)' = Pinned(v)
        BY DEF Pinned
    <2> QED BY <2>1, <1>12 DEF IInv, PinsHold
<1>14. ReadsInBounds'
    BY <1>12 DEF IInv, ReadsInBounds, Pinning
<1> QED BY <1>2, <1>3, <1>4, <1>5, <1>8, <1>9, <1>10, <1>11, <1>13, <1>14 DEF IInv

\* A step of a reader that neither pins nor unpins a version preserves the invariant.
LEMMA ReaderFrame ==
    ASSUME IInv, NEW r \in Readers,
           rd' \in [Readers -> ReaderStates],
           \A q \in Readers : q # r => rd'[q] = rd[q],
           \/ rd[r].pc # "walk" /\ rd'[r].pc # "walk" /\ mtx' = mtx
           \/ rd[r].pc # "walk" /\ rd'[r].pc = "walk" /\ mtx = NoThread /\ mtx' = r
           \/ rd[r].pc = "walk" /\ rd'[r].pc = "walk" /\ mtx' = mtx
           \/ rd[r].pc = "walk" /\ rd'[r].pc # "walk" /\ mtx' = NoThread,
           rd'[r].pc = "walk" => rd'[r].arr \in 0 .. cur,
           rd'[r].pc \in Pinning <=> rd[r].pc \in Pinning,
           rd'[r].pc \in Pinning => rd'[r].arr = rd[r].arr,
           rd'[r].pc = "scan" => /\ rd'[r].pos >= arr[rd[r].arr].snapDeg
                                 /\ rd'[r].pos < arr[rd[r].arr].cap,
           rd'[r].pc = "read" => /\ rd'[r].pos >= 0
                                 /\ rd'[r].pos < arr[rd[r].arr].cap,
           DOMAIN ans' = Readers, clock' \in Nat, reads' \in Nat,
           UNCHANGED <<arr, buf, cur, wr, calls>>
    PROVE  IInv'
<1>1. TypeOK /\ cur \in Versions /\ cur \in Nat /\ \A v \in 0 .. cur : v \in Versions
    BY CurFacts DEF IInv
<1>2. TypeOK'
    <2>1. mtx' \in Writers \cup Readers \cup {NoThread}
        BY DEF IInv, TypeOK
    <2> QED BY <1>1, <2>1 DEF TypeOK
<1>3. LockHeldInside'
    BY FiniteThreads DEF IInv, LockHeldInside, WriterInside
<1>4. PointersInChain'
    <2>1. \A q \in Readers : rd'[q].pc = "walk" \/ rd'[q].pc \in Pinning =>
             rd'[q].arr \in 0 .. cur
        BY <1>1 DEF IInv, PointersInChain
    <2> QED BY <1>1, <2>1 DEF IInv, PointersInChain
<1>5. VersionsSane' /\ RetiredOverfull'
    BY DEF IInv, VersionsSane, RetiredOverfull
<1>6. Holding(cur)' = Holding(cur)
    BY DEF Holding
<1>7. SlotsOfWriters' /\ SlotsAccounted'
    BY <1>6 DEF IInv, SlotsOfWriters, SlotsAccounted
<1>8. Handover'
    BY DEF IInv, Handover
<1>9. PinsHold'
    <2>1. \A v : Pinned(v)' = Pinned(v)
        BY DEF Pinned
    <2>2. \A q \in Readers : rd'[q].pc \in Pinning =>
            rd[q].pc \in Pinning /\ rd'[q].arr = rd[q].arr
        OBVIOUS
    <2> QED BY <2>1, <2>2 DEF IInv, PinsHold
<1>10. ReadsInBounds'
    BY DEF IInv, ReadsInBounds, Pinning
<1> QED BY <1>2, <1>3, <1>4, <1>5, <1>7, <1>8, <1>9, <1>10 DEF IInv

\* Entering Insert preserves the invariant.
LEMMA CallPreserves ==
    ASSUME IInv, NEW t \in Writers, Call(t)
    PROVE  IInv'
<1>1. TypeOK /\ cur \in Versions /\ cur \in Nat /\ \A v \in 0 .. cur : v \in Versions
    BY CurFacts DEF IInv
<1>2. PICK d \in Dest, w \in Weights : \E c \in {Insertion(d, w), Update(d, w), Deletion(d)} :
         /\ wr' = [wr EXCEPT ![t] = [IdleWriter EXCEPT !.pc = "reserve",
                                                       !.arr = cur, !.call = c]]
         /\ rd' = [r \in Readers |-> [rd[r] EXCEPT !.still = @ \ {d}]]
    BY DEF Call
<1>3. PICK c \in {Insertion(d, w), Update(d, w), Deletion(d)} :
         /\ wr' = [wr EXCEPT ![t] = [IdleWriter EXCEPT !.pc = "reserve",
                                                       !.arr = cur, !.call = c]]
         /\ rd' = [r \in Readers |-> [rd[r] EXCEPT !.still = @ \ {d}]]
    BY <1>2
<1>4. c \in Calls
    BY DEF Calls, Insertion, Update, Deletion
<1> DEFINE n == [IdleWriter EXCEPT !.pc = "reserve", !.arr = cur, !.call = c]
<1>5. n \in WriterStates /\ n.pc = "reserve" /\ n.arr = cur
    BY <1>1, <1>4 DEF IdleWriter, WriterStates, WriterPcs, NoVersion, NoStamp
<1>6. wr \in [Writers -> WriterStates] /\ rd \in [Readers -> ReaderStates]
    BY <1>1 DEF TypeOK
<1>7. wr' = [wr EXCEPT ![t] = n]
    BY <1>3
<1> HIDE DEF n
<1>8. /\ wr' \in [Writers -> WriterStates]
      /\ \A u \in Writers : u # t => wr'[u] = wr[u]
      /\ wr'[t].pc = "reserve" /\ wr'[t].arr = cur
    BY <1>5, <1>6, <1>7
<1>9. \A r \in Readers : /\ rd'[r] \in ReaderStates
                         /\ rd'[r].pc = rd[r].pc /\ rd'[r].arr = rd[r].arr
                         /\ rd'[r].pos = rd[r].pos
    <2> TAKE r \in Readers
    <2>1. rd'[r] = [rd[r] EXCEPT !.still = @ \ {d}] /\ rd[r] \in ReaderStates
        BY <1>3, <1>6
    <2> QED BY <2>1 DEF ReaderStates
<1>10. rd' \in [Readers -> ReaderStates]
    BY <1>3, <1>9
<1>11. calls' \in 0 .. MaxCalls /\ UNCHANGED <<arr, buf, cur, mtx, clock, ans, reads>>
    <2>1. calls \in 0 .. MaxCalls /\ MaxCalls \in Nat
        BY <1>1, ConstantsAssumption DEF TypeOK, ConstantsAssumption
    <2> QED BY <2>1 DEF Call
<1>12. wr[t].pc = "idle"
    BY DEF Call
<1>13. cur \in 0 .. cur
    BY <1>1
<1>14. arr' \in [Versions -> Headers] /\ DOMAIN buf' = Versions /\ clock' \in Nat
    BY <1>1, <1>11 DEF TypeOK
<1> QED BY <1>8, <1>9, <1>10, <1>11, <1>12, <1>13, <1>14, WriterFrame

\* The fetch_add on the array loaded before, possibly retired, preserves the invariant.
LEMMA ReservePreserves ==
    ASSUME IInv, NEW t \in Writers, Reserve(t)
    PROVE  IInv'
<1>1. wr[t].arr \in 0 .. cur
    BY DEF IInv, PointersInChain, Reserve
<1> QED BY <1>1, TakeSlotPreserves DEF Reserve

\* The fetch_add on the array loaded under the lock preserves the invariant.
LEMMA ReloadPreserves ==
    ASSUME IInv, NEW t \in Writers, Reload(t)
    PROVE  IInv'
<1>1. cur \in 0 .. cur
    BY CurFacts
<1>2. arr[cur].mem # "freed"
    BY DEF IInv, VersionsSane
<1> QED BY <1>1, <1>2, TakeSlotPreserves DEF Reload

\* A thread that runs into a deleted array stops with the invariant intact.
LEMMA UseAfterFreePreserves ==
    ASSUME IInv, NEW t \in Writers, UseAfterFree(t)
    PROVE  IInv'
<1>1. TypeOK /\ wr[t].arr \in 0 .. cur
    BY DEF IInv, PointersInChain, UseAfterFree
<1>2. "fault" \in WriterPcs
    BY DEF WriterPcs
<1>3. /\ wr' \in [Writers -> WriterStates]
      /\ wr'[t].pc = "fault" /\ wr'[t].arr = wr[t].arr
      /\ \A u \in Writers : u # t => wr'[u] = wr[u]
    BY <1>1, <1>2, SetWriterFields DEF UseAfterFree
<1>4. wr[t].pc = "reserve" /\ UNCHANGED <<arr, buf, cur, mtx, clock, rd, ans, calls, reads>>
    BY DEF UseAfterFree
<1>5. /\ arr' \in [Versions -> Headers] /\ DOMAIN buf' = Versions /\ clock' \in Nat
      /\ rd' \in [Readers -> ReaderStates] /\ calls' \in 0 .. MaxCalls
    BY <1>1, <1>4 DEF TypeOK
<1> QED BY <1>1, <1>3, <1>4, <1>5, WriterFrame

\* Drawing the timestamp of a log entry preserves the invariant.
LEMMA TickPreserves ==
    ASSUME IInv, NEW t \in Writers, Tick(t)
    PROVE  IInv'
<1>1. TypeOK
    BY DEF IInv
<1>2. wr \in [Writers -> WriterStates] /\ wr[t] \in WriterStates /\ clock \in Nat
    BY <1>1 DEF TypeOK
<1> DEFINE n == [wr[t] EXCEPT !.pc = "stamp", !.stamp = clock]
<1>3. n \in WriterStates /\ n.pc = "stamp" /\ n.arr = wr[t].arr /\ n.slot = wr[t].slot
    BY <1>2 DEF WriterStates, WriterPcs
<1>4. wr' = [wr EXCEPT ![t] = n]
    BY DEF Tick
<1> HIDE DEF n
<1>5. /\ wr' \in [Writers -> WriterStates]
      /\ \A u \in Writers : u # t => wr'[u] = wr[u]
      /\ wr'[t].pc = "stamp" /\ wr'[t].arr = wr[t].arr /\ wr'[t].slot = wr[t].slot
    BY <1>2, <1>3, <1>4
<1>6. /\ wr[t].pc = "tick" /\ clock' = clock + 1
      /\ UNCHANGED <<arr, buf, cur, mtx, rd, ans, calls, reads>>
    BY DEF Tick
<1>7. /\ arr' \in [Versions -> Headers] /\ DOMAIN buf' = Versions /\ clock' \in Nat
      /\ rd' \in [Readers -> ReaderStates] /\ calls' \in 0 .. MaxCalls
    BY <1>1, <1>2, <1>6 DEF TypeOK
<1>8. wr[t].pc \in Writing /\ wr'[t].pc \in Writing
    BY <1>5, <1>6 DEF Writing
<1> QED BY <1>5, <1>6, <1>7, <1>8, WriterFrame

\* A store into the writer's own slot preserves the invariant.
LEMMA FillPreserves ==
    ASSUME IInv, NEW t \in Writers, NEW p \in Writing, wr[t].pc \in Writing,
           SetWriter(t, p),
           DOMAIN buf' = Versions, \A v \in Versions : DOMAIN buf'[v] = DOMAIN buf[v],
           UNCHANGED <<arr, cur, mtx, clock, rd, ans, calls, reads>>
    PROVE  IInv'
<1>1. TypeOK
    BY DEF IInv
<1>2. p \in WriterPcs
    BY DEF Writing, WriterPcs
<1>3. /\ wr' \in [Writers -> WriterStates] /\ wr'[t].pc = p
      /\ wr'[t].arr = wr[t].arr /\ wr'[t].slot = wr[t].slot
      /\ \A u \in Writers : u # t => wr'[u] = wr[u]
    BY <1>1, <1>2, SetWriterFields
<1>4. /\ arr' \in [Versions -> Headers] /\ clock' \in Nat
      /\ rd' \in [Readers -> ReaderStates] /\ calls' \in 0 .. MaxCalls
    BY <1>1 DEF TypeOK
<1> QED BY <1>3, <1>4, WriterFrame

\* The two stores of a log entry preserve the invariant.
LEMMA WritePreserves ==
    ASSUME IInv, NEW t \in Writers, WriteIdx(t) \/ WriteWeight(t)
    PROVE  IInv'
<1>1. DOMAIN buf = Versions
    BY DEF IInv, TypeOK
<1>2. DOMAIN buf' = Versions /\ \A v \in Versions : DOMAIN buf'[v] = DOMAIN buf[v]
    BY <1>1 DEF WriteIdx, WriteWeight
<1> QED BY <1>2, FillPreserves DEF WriteIdx, WriteWeight, Writing

\* Storing the timestamp and adjusting the degree preserve the invariant.
LEMMA StampPreserves ==
    ASSUME IInv, NEW t \in Writers, Stamp(t)
    PROVE  IInv'
<1>1. TypeOK /\ wr[t].arr \in Versions /\ wr[t].pc \in Writing
    BY CurFacts DEF IInv, SlotsOfWriters, Stamp, Writing
<1>2. "idx" \in WriterPcs /\ "idx" \in Writing
    BY DEF WriterPcs, Writing
<1>3. /\ wr' \in [Writers -> WriterStates] /\ wr'[t].pc = "idx"
      /\ wr'[t].arr = wr[t].arr /\ wr'[t].slot = wr[t].slot
      /\ \A u \in Writers : u # t => wr'[u] = wr[u]
    BY <1>1, <1>2, SetWriterFields DEF Stamp
<1>4. DOMAIN buf' = Versions /\ \A v \in Versions : DOMAIN buf'[v] = DOMAIN buf[v]
    BY <1>1 DEF TypeOK, Stamp
<1>5. wr[t].call.delta \in Int
    <2>1. wr[t].call \in Calls \cup {NoCall}
        BY <1>1, WriterFields DEF WriterStates
    <2> QED BY <2>1 DEF Calls, NoCall
<1> DEFINE n == [arr[wr[t].arr] EXCEPT !.deg = @ + wr[t].call.delta]
<1>6. arr \in [Versions -> Headers] /\ arr[wr[t].arr] \in Headers
    BY <1>1 DEF TypeOK
<1>7. /\ n \in Headers /\ n.size = arr[wr[t].arr].size /\ n.cap = arr[wr[t].arr].cap
      /\ n.phys = arr[wr[t].arr].phys /\ n.snapDeg = arr[wr[t].arr].snapDeg
      /\ n.reads = arr[wr[t].arr].reads /\ n.mem = arr[wr[t].arr].mem
      /\ n.prev = arr[wr[t].arr].prev /\ n.next = arr[wr[t].arr].next
    BY <1>5, <1>6 DEF Headers
<1>8. arr' = [arr EXCEPT ![wr[t].arr] = n]
    BY DEF Stamp
<1> HIDE DEF n
<1>9. /\ arr' \in [Versions -> Headers]
      /\ \A v \in Versions :
              /\ arr'[v].size = arr[v].size /\ arr'[v].cap = arr[v].cap
              /\ arr'[v].phys = arr[v].phys /\ arr'[v].snapDeg = arr[v].snapDeg
              /\ arr'[v].reads = arr[v].reads /\ arr'[v].mem = arr[v].mem
              /\ arr'[v].prev = arr[v].prev /\ arr'[v].next = arr[v].next
    BY <1>6, <1>7, <1>8
<1>10. /\ UNCHANGED <<cur, mtx, clock, rd, ans, calls, reads>>
       /\ clock' \in Nat /\ rd' \in [Readers -> ReaderStates] /\ calls' \in 0 .. MaxCalls
    BY <1>1 DEF TypeOK, Stamp
<1> QED BY <1>1, <1>2, <1>3, <1>4, <1>9, <1>10, WriterFrame

\* Setting a reader's program counter changes nothing else.
LEMMA SetReaderFields ==
    ASSUME TypeOK, NEW r \in Readers, NEW p \in ReaderPcs,
           rd' = [rd EXCEPT ![r].pc = p]
    PROVE  /\ rd' \in [Readers -> ReaderStates]
           /\ rd'[r].pc = p /\ rd'[r].arr = rd[r].arr /\ rd'[r].pos = rd[r].pos
           /\ \A q \in Readers : q # r => rd'[q] = rd[q]
<1>1. rd \in [Readers -> ReaderStates] /\ rd[r] \in ReaderStates
    BY DEF TypeOK
<1> DEFINE n == [rd[r] EXCEPT !.pc = p]
<1>2. n \in ReaderStates /\ n.pc = p /\ n.arr = rd[r].arr /\ n.pos = rd[r].pos
    BY <1>1 DEF ReaderStates
<1>3. rd' = [rd EXCEPT ![r] = n]
    OBVIOUS
<1> HIDE DEF n
<1> QED BY <1>1, <1>2, <1>3

\* Starting a read preserves the invariant.
LEMMA AskPreserves ==
    ASSUME IInv, NEW r \in Readers, Ask(r)
    PROVE  IInv'
<1>1. TypeOK /\ clock \in Nat /\ reads \in Nat /\ DOMAIN ans = Readers
    BY DEF IInv, TypeOK
<1>2. PICK ts \in {clock, Forever} :
         /\ rd' = [rd EXCEPT ![r].pc = "lock", ![r].ts = ts]
         /\ clock' = IF ts = Forever THEN clock ELSE clock + 1
    BY DEF Ask
<1>3. rd \in [Readers -> ReaderStates] /\ rd[r] \in ReaderStates
    BY <1>1 DEF TypeOK
<1> DEFINE n == [rd[r] EXCEPT !.pc = "lock", !.ts = ts]
<1>4. n \in ReaderStates /\ n.pc = "lock"
    BY <1>1, <1>3 DEF ReaderStates, ReaderPcs
<1>5. rd' = [rd EXCEPT ![r] = n]
    BY <1>2
<1> HIDE DEF n
<1>6. /\ rd' \in [Readers -> ReaderStates] /\ rd'[r].pc = "lock"
      /\ \A q \in Readers : q # r => rd'[q] = rd[q]
    BY <1>3, <1>4, <1>5
<1>7. /\ rd[r].pc = "idle" /\ reads' = reads + 1
      /\ UNCHANGED <<arr, buf, cur, mtx, wr, ans, calls>>
    BY DEF Ask
<1>8. clock' \in Nat /\ reads' \in Nat /\ DOMAIN ans' = Readers
    BY <1>1, <1>2, <1>7
<1>9. /\ rd[r].pc # "walk" /\ rd'[r].pc # "walk"
      /\ rd[r].pc \notin Pinning /\ rd'[r].pc \notin Pinning
      /\ rd'[r].pc # "scan" /\ rd'[r].pc # "read"
    BY <1>6, <1>7 DEF Pinning
<1> QED BY <1>6, <1>7, <1>8, <1>9, ReaderFrame

\* Taking the spin lock for a read preserves the invariant.
LEMMA LockForReadPreserves ==
    ASSUME IInv, NEW r \in Readers, LockForRead(r)
    PROVE  IInv'
<1>1. /\ TypeOK /\ clock \in Nat /\ reads \in Nat /\ DOMAIN ans = Readers
      /\ cur \in Versions /\ cur \in 0 .. cur
    BY CurFacts DEF IInv, TypeOK
<1>2. rd \in [Readers -> ReaderStates] /\ rd[r] \in ReaderStates
    BY <1>1 DEF TypeOK
<1> DEFINE n == [rd[r] EXCEPT !.pc = "walk", !.arr = cur]
<1>3. n \in ReaderStates /\ n.pc = "walk" /\ n.arr = cur
    BY <1>1, <1>2 DEF ReaderStates, ReaderPcs
<1>4. rd' = [rd EXCEPT ![r] = n]
    BY DEF LockForRead
<1> HIDE DEF n
<1>5. /\ rd' \in [Readers -> ReaderStates] /\ rd'[r].pc = "walk" /\ rd'[r].arr = cur
      /\ \A q \in Readers : q # r => rd'[q] = rd[q]
    BY <1>2, <1>3, <1>4
<1>6. /\ rd[r].pc = "lock" /\ mtx = NoThread /\ mtx' = r
      /\ UNCHANGED <<arr, buf, cur, clock, wr, ans, calls, reads>>
    BY DEF LockForRead
<1>7. /\ rd[r].pc # "walk" /\ rd[r].pc \notin Pinning /\ rd'[r].pc \notin Pinning
      /\ rd'[r].pc # "scan" /\ rd'[r].pc # "read"
    BY <1>5, <1>6 DEF Pinning
<1> QED BY <1>1, <1>5, <1>6, <1>7, ReaderFrame

\* Walking back along prev_arr under the lock preserves the invariant.
LEMMA WalkBackPreserves ==
    ASSUME IInv, NEW r \in Readers, WalkBack(r)
    PROVE  IInv'
<1> DEFINE before == arr[rd[r].arr].prev
<1>1. /\ TypeOK /\ clock \in Nat /\ reads \in Nat /\ DOMAIN ans = Readers
      /\ rd[r].arr \in 0 .. cur /\ rd[r].arr \in Versions /\ cur \in Nat
    BY CurFacts DEF IInv, TypeOK, PointersInChain, WalkBack
<1>2. rd \in [Readers -> ReaderStates] /\ rd[r] \in ReaderStates
    BY <1>1 DEF TypeOK
<1>3. before \in Versions \cup {NoVersion} /\ before < rd[r].arr
    BY <1>1, HeaderFields DEF IInv, VersionsSane
<1>4. rd[r].pc = "walk" /\ UNCHANGED <<arr, buf, cur, clock, wr, ans, calls, reads>>
    BY DEF WalkBack
<1>5. CASE before # NoVersion
    <2> DEFINE n == [rd[r] EXCEPT !.arr = before]
    <2>1. n \in ReaderStates /\ n.pc = "walk" /\ n.arr = before
        BY <1>2, <1>3, <1>4 DEF ReaderStates
    <2>2. rd' = [rd EXCEPT ![r] = n] /\ mtx' = mtx
        BY <1>5 DEF WalkBack
    <2>3. before \in 0 .. cur
        BY <1>1, <1>3, <1>5 DEF Versions
    <2> HIDE DEF n, before
    <2>4. /\ rd' \in [Readers -> ReaderStates] /\ rd'[r].pc = "walk" /\ rd'[r].arr = before
          /\ \A q \in Readers : q # r => rd'[q] = rd[q]
        BY <1>2, <2>1, <2>2
    <2>5. /\ rd[r].pc \notin Pinning /\ rd'[r].pc \notin Pinning
          /\ rd'[r].pc # "scan" /\ rd'[r].pc # "read"
        BY <2>4, <1>4 DEF Pinning
    <2> QED BY <1>1, <1>4, <2>2, <2>3, <2>4, <2>5, ReaderFrame
<1>6. CASE before = NoVersion
    <2>1. IdleReader \in ReaderStates /\ IdleReader.pc = "idle"
        BY DEF IdleReader, ReaderStates, ReaderPcs
    <2>2. rd' = [rd EXCEPT ![r] = IdleReader] /\ mtx' = NoThread
        BY <1>6 DEF WalkBack
    <2>3. /\ rd' \in [Readers -> ReaderStates] /\ rd'[r].pc = "idle"
          /\ \A q \in Readers : q # r => rd'[q] = rd[q]
        BY <1>2, <2>1, <2>2
    <2>4. /\ rd[r].pc \notin Pinning /\ rd'[r].pc \notin Pinning /\ rd'[r].pc # "walk"
          /\ rd'[r].pc # "scan" /\ rd'[r].pc # "read"
        BY <2>3, <1>4 DEF Pinning
    <2> QED BY <1>1, <1>4, <2>2, <2>3, <2>4, ReaderFrame
<1> QED BY <1>5, <1>6

\* Answering with the snapshot segment preserves the invariant.
LEMMA CopySnapshotPreserves ==
    ASSUME IInv, NEW r \in Readers, rd[r].pc \in {"count", "scan"}, CopySnapshot(r),
           UNCHANGED <<arr, buf, cur, mtx, clock, wr, calls, reads>>
    PROVE  IInv'
<1>1. /\ TypeOK /\ clock \in Nat /\ reads \in Nat /\ DOMAIN ans = Readers
    BY DEF IInv, TypeOK
<1>2. "unpin" \in ReaderPcs /\ rd' = [rd EXCEPT ![r].pc = "unpin"] /\ DOMAIN ans' = DOMAIN ans
    BY DEF CopySnapshot, ReaderPcs
<1>3. /\ rd' \in [Readers -> ReaderStates]
      /\ rd'[r].pc = "unpin" /\ rd'[r].arr = rd[r].arr
      /\ \A q \in Readers : q # r => rd'[q] = rd[q]
    BY <1>1, <1>2, SetReaderFields
<1>4. /\ rd[r].pc # "walk" /\ rd'[r].pc # "walk"
      /\ rd[r].pc \in Pinning /\ rd'[r].pc \in Pinning
      /\ rd'[r].pc # "scan" /\ rd'[r].pc # "read"
    BY <1>3 DEF Pinning
<1> QED BY <1>1, <1>2, <1>3, <1>4, ReaderFrame

\* A move of a reader's position inside the array preserves the invariant.
LEMMA ScanningPreserves ==
    ASSUME IInv, NEW r \in Readers, NEW p \in {"scan", "read", "unpin"}, NEW i \in Int,
           rd[r].pc \in Pinning,
           rd' = [rd EXCEPT ![r].pos = i, ![r].pc = p],
           p = "scan" => i >= arr[rd[r].arr].snapDeg /\ i < arr[rd[r].arr].cap,
           p = "read" => i >= 0 /\ i < arr[rd[r].arr].cap,
           DOMAIN ans' = Readers,
           UNCHANGED <<arr, buf, cur, mtx, clock, wr, calls, reads>>
    PROVE  IInv'
<1>1. /\ TypeOK /\ clock \in Nat /\ reads \in Nat
    BY DEF IInv, TypeOK
<1>2. rd \in [Readers -> ReaderStates] /\ rd[r] \in ReaderStates
    BY <1>1 DEF TypeOK
<1> DEFINE n == [rd[r] EXCEPT !.pos = i, !.pc = p]
<1>3. n \in ReaderStates /\ n.pc = p /\ n.arr = rd[r].arr /\ n.pos = i
    BY <1>2 DEF ReaderStates, ReaderPcs
<1>4. rd' = [rd EXCEPT ![r] = n]
    OBVIOUS
<1> HIDE DEF n
<1>5. /\ rd' \in [Readers -> ReaderStates]
      /\ rd'[r].pc = p /\ rd'[r].arr = rd[r].arr /\ rd'[r].pos = i
      /\ \A q \in Readers : q # r => rd'[q] = rd[q]
    BY <1>2, <1>3, <1>4
<1>6. rd[r].pc # "walk" /\ rd'[r].pc # "walk" /\ rd'[r].pc \in Pinning
    BY <1>5 DEF Pinning
<1> QED BY <1>1, <1>5, <1>6, ReaderFrame

\* Reading physical_size preserves the invariant.
LEMMA CountPreserves ==
    ASSUME IInv, NEW r \in Readers, Count(r)
    PROVE  IInv'
<1> DEFINE v == rd[r].arr
<1>1. /\ TypeOK /\ DOMAIN ans = Readers /\ rd[r].pc = "count"
      /\ UNCHANGED <<arr, buf, cur, mtx, clock, wr, calls, reads>>
      /\ rd[r].pc \in Pinning
    BY DEF IInv, TypeOK, Count, LastSlot, Pinning
<1>2. /\ v \in Versions /\ arr[v].phys \in Nat /\ arr[v].cap \in Nat
      /\ arr[v].snapDeg \in Nat /\ arr[v].phys <= arr[v].cap
    BY <1>1, CurFacts, HeaderFields DEF IInv, PointersInChain, VersionsSane
<1>3. CASE arr[v].phys > arr[v].snapDeg
    <2>1. /\ rd' = [rd EXCEPT ![r].pc = "scan", ![r].pos = arr[v].phys - 1]
          /\ UNCHANGED ans
        BY <1>3 DEF Count, LastSlot
    <2> DEFINE i == arr[v].phys - 1
    <2>2. rd' = [rd EXCEPT ![r].pos = i, ![r].pc = "scan"]
        BY <1>1, <2>1 DEF TypeOK, ReaderStates
    <2>3. i \in Int /\ i >= arr[v].snapDeg /\ i < arr[v].cap /\ DOMAIN ans' = Readers
        BY <1>1, <1>2, <1>3, <2>1
    <2> HIDE DEF i
    <2> QED BY <1>1, <2>2, <2>3, ScanningPreserves
<1>4. CASE ~(arr[v].phys > arr[v].snapDeg)
    <2>1. CopySnapshot(r)
        BY <1>4 DEF Count, LastSlot
    <2> QED BY <1>1, <2>1, CopySnapshotPreserves
<1> QED BY <1>3, <1>4

\* One step of the search for a visible timestamp preserves the invariant.
LEMMA ScanPreserves ==
    ASSUME IInv, NEW r \in Readers, Scan(r)
    PROVE  IInv'
<1> DEFINE v == rd[r].arr
           i == rd[r].pos
<1>1. /\ TypeOK /\ DOMAIN ans = Readers /\ rd[r].pc = "scan"
      /\ UNCHANGED <<arr, buf, cur, mtx, clock, wr, calls, reads>>
      /\ rd[r].pc \in Pinning
    BY DEF IInv, TypeOK, Scan, Pinning
<1>2. /\ v \in Versions /\ arr[v].cap \in Nat /\ arr[v].snapDeg \in Nat /\ i \in Int
      /\ i >= arr[v].snapDeg /\ i < arr[v].cap
    BY <1>1, CurFacts, HeaderFields, ReaderFields DEF IInv, PointersInChain, ReadsInBounds
<1>3. CASE rd' = [rd EXCEPT ![r].pc = "read"] /\ UNCHANGED ans
    <2>1. rd' = [rd EXCEPT ![r].pos = i, ![r].pc = "read"]
        BY <1>1, <1>3 DEF TypeOK, ReaderStates
    <2>2. i \in Int /\ i >= 0 /\ i < arr[v].cap /\ DOMAIN ans' = Readers
        BY <1>1, <1>2, <1>3
    <2> HIDE DEF i
    <2> QED BY <1>1, <2>1, <2>2, ScanningPreserves
<1>4. CASE CopySnapshot(r)
    BY <1>1, <1>4, CopySnapshotPreserves
<1>5. CASE i # arr[v].snapDeg /\ rd' = [rd EXCEPT ![r].pos = @ - 1] /\ UNCHANGED ans
    <2>1. rd' = [rd EXCEPT ![r].pos = i - 1, ![r].pc = "scan"]
        BY <1>1, <1>5 DEF TypeOK, ReaderStates
    <2>2. i - 1 \in Int /\ i - 1 >= arr[v].snapDeg /\ i - 1 < arr[v].cap
        BY <1>2, <1>5
    <2> QED BY <1>1, <1>5, <2>1, <2>2, ScanningPreserves
<1> QED BY <1>3, <1>4, <1>5 DEF Scan

\* Reading one edge preserves the invariant.
LEMMA ReadPreserves ==
    ASSUME IInv, NEW r \in Readers, Read(r)
    PROVE  IInv'
<1> DEFINE v == rd[r].arr
           i == rd[r].pos
           p == IF i = 0 THEN "unpin" ELSE "read"
<1>1. /\ TypeOK /\ DOMAIN ans = Readers /\ rd[r].pc = "read"
      /\ UNCHANGED <<arr, buf, cur, mtx, clock, wr, calls, reads>>
      /\ rd[r].pc \in Pinning
    BY DEF IInv, TypeOK, Read, Pinning
<1>2. /\ v \in Versions /\ arr[v].cap \in Nat /\ i \in Int /\ i >= 0 /\ i < arr[v].cap
    BY <1>1, CurFacts, HeaderFields, ReaderFields DEF IInv, PointersInChain, ReadsInBounds
<1>3. DOMAIN ans' = Readers
    BY <1>1 DEF Read
<1>4. rd' = [rd EXCEPT ![r].pos = i - 1, ![r].pc = p]
    <2>1. rd' = [rd EXCEPT ![r].pos = @ - 1, ![r].pc = IF i = 0 THEN "unpin" ELSE @]
        BY DEF Read
    <2> QED BY <1>1, <2>1 DEF TypeOK, ReaderStates
<1>5. i - 1 \in Int /\ p \in {"scan", "read", "unpin"} /\ p # "scan"
    BY <1>2
<1>6. p = "read" => i - 1 >= 0 /\ i - 1 < arr[v].cap
    BY <1>2
<1> HIDE DEF p
<1> QED BY <1>1, <1>3, <1>4, <1>5, <1>6, ScanningPreserves

\* A writer that takes the spin lock preserves the invariant.
LEMMA LockPreserves ==
    ASSUME IInv, NEW t \in Writers, Lock(t)
    PROVE  IInv'
<1>1. /\ TypeOK /\ cur \in Versions /\ cur \in Nat /\ cur \in 0 .. cur
      /\ \A v \in 0 .. cur : v \in Versions
    BY CurFacts DEF IInv
<1>2. wr \in [Writers -> WriterStates] /\ wr[t] \in WriterStates
    BY <1>1 DEF TypeOK
<1>3. /\ wr[t].pc = "lock" /\ mtx = NoThread /\ mtx' = t
      /\ UNCHANGED <<arr, buf, cur, clock, rd, ans, calls, reads>>
    BY DEF Lock
<1>4. /\ wr' \in [Writers -> WriterStates]
      /\ \A u \in Writers : u # t => wr'[u] = wr[u]
      /\ \/ wr'[t].pc = "wait" /\ wr'[t].arr = cur
         \/ wr'[t].pc = "reload" /\ wr'[t].arr = wr[t].arr
    <2>1. CASE wr' = [wr EXCEPT ![t].pc = "wait", ![t].arr = cur]
        <3> DEFINE n == [wr[t] EXCEPT !.pc = "wait", !.arr = cur]
        <3>1. n \in WriterStates /\ n.pc = "wait" /\ n.arr = cur
            BY <1>1, <1>2 DEF WriterStates, WriterPcs
        <3>2. wr' = [wr EXCEPT ![t] = n]
            BY <2>1
        <3> HIDE DEF n
        <3> QED BY <1>2, <3>1, <3>2
    <2>2. CASE SetWriter(t, "reload")
        <3>1. "reload" \in WriterPcs
            BY DEF WriterPcs
        <3> QED BY <1>1, <2>2, <3>1, SetWriterFields
    <2> QED BY <2>1, <2>2 DEF Lock
<1>5. TypeOK'
    BY <1>1, <1>3, <1>4 DEF TypeOK
<1>6. LockHeldInside'
    BY <1>3, <1>4, FiniteThreads DEF IInv, LockHeldInside, WriterInside
<1>7. PointersInChain'
    BY <1>1, <1>3, <1>4 DEF IInv, PointersInChain, Pinning
<1>8. VersionsSane' /\ RetiredOverfull'
    BY <1>3 DEF IInv, VersionsSane, RetiredOverfull
<1>9. Holding(cur)' = Holding(cur)
    BY <1>3, <1>4 DEF Holding, Writing
<1>10. SlotsOfWriters'
    <2>1. \A u \in Writers : wr'[u].pc \in Writing => u # t /\ wr'[u] = wr[u]
        BY <1>4 DEF Writing
    <2>2. \A u \in Holding(cur) : wr'[u] = wr[u]
        BY <1>3, <1>4 DEF Holding, Writing
    <2> QED BY <1>3, <1>9, <2>1, <2>2 DEF IInv, SlotsOfWriters
<1>11. SlotsAccounted'
    BY <1>3, <1>9 DEF IInv, SlotsAccounted
<1>12. Handover'
    BY <1>3, <1>4 DEF IInv, Handover
<1>13. PinsHold' /\ ReadsInBounds'
    <2>1. \A v : Pinned(v)' = Pinned(v)
        BY <1>3 DEF Pinned
    <2> QED BY <1>3, <2>1 DEF IInv, PinsHold, ReadsInBounds
<1> QED BY <1>5, <1>6, <1>7, <1>8, <1>10, <1>11, <1>12, <1>13 DEF IInv

\* Swinging Vertex.next to the compacted array preserves the invariant: no writer
\* still owns a slot of the array that is retired.
LEMMA PublishPreserves ==
    ASSUME IInv, NEW t \in Writers, Publish(t)
    PROVE  IInv'
<1>1. /\ TypeOK /\ cur \in Versions /\ cur \in Nat
      /\ \A v \in 0 .. cur : v \in Versions
    BY CurFacts DEF IInv
<1>2. /\ wr[t].pc = "publish" /\ cur' = cur + 1 /\ wr[t].arr = cur /\ mtx = t
      /\ UNCHANGED <<arr, buf, mtx, clock, rd, ans, calls, reads>>
    BY DEF Publish, IInv, PointersInChain, LockHeldInside, WriterInside
<1>3. /\ cur + 1 \in Versions
      /\ arr[cur].phys = arr[cur].cap
      /\ arr[cur + 1].mem = "live"
      /\ arr[cur + 1].phys = arr[cur + 1].size
      /\ arr[cur + 1].size <= arr[cur + 1].cap
    BY <1>2 DEF IInv, Handover
<1>4. "reclaim" \in WriterPcs
    BY DEF WriterPcs
<1>5. /\ wr' \in [Writers -> WriterStates]
      /\ wr'[t].pc = "reclaim" /\ wr'[t].arr = cur
      /\ \A u \in Writers : u # t => wr'[u] = wr[u]
    BY <1>1, <1>2, <1>4, SetWriterFields DEF Publish
<1>6. \A v \in Versions : /\ arr[v].size \in Nat /\ arr[v].cap \in Nat
                          /\ arr[v].phys \in Nat
    BY <1>1, HeaderFields
<1>7. Holding(cur) = {} /\ arr[cur].size >= arr[cur].cap
    <2>1. Cardinality(Holding(cur)) = 0 /\ arr[cur].size >= arr[cur].cap
        BY <1>1, <1>3, <1>6, HoldingFinite DEF IInv, SlotsAccounted
    <2> QED BY <2>1, HoldingFinite, FS_EmptySet
<1>8. \A u \in Writers : wr'[u].pc \notin Writing
    <2>1. \A u \in Writers : wr[u].pc \in Writing => u \in Holding(cur)
        BY DEF Holding, IInv, SlotsOfWriters
    <2> QED BY <1>5, <1>7, <2>1 DEF Writing
<1>9. \A u \in Writers : u # t => wr[u].pc \notin WriterInside
    BY <1>2 DEF IInv, LockHeldInside
<1>10. TypeOK'
    BY <1>1, <1>2, <1>3, <1>5 DEF TypeOK
<1>11. LockHeldInside'
    BY <1>2, <1>5, FiniteThreads DEF IInv, LockHeldInside, WriterInside
<1>12. PointersInChain'
    BY <1>1, <1>2, <1>5, <1>9 DEF IInv, PointersInChain, Pinning, WriterInside
<1>13. VersionsSane'
    BY <1>1, <1>2, <1>3 DEF IInv, VersionsSane, Versions
<1>14. SlotsOfWriters'
    BY <1>8 DEF SlotsOfWriters, Holding
<1>15. SlotsAccounted'
    <2>1. Holding(cur)' = {}
        BY <1>8 DEF Holding
    <2> QED BY <2>1, <1>2, <1>3, <1>6, FS_EmptySet DEF SlotsAccounted
<1>16. RetiredOverfull'
    BY <1>1, <1>2, <1>6, <1>7 DEF IInv, RetiredOverfull, Versions
<1>17. Handover'
    <2>1. \A u \in Writers : wr'[u].pc \in {"publish", "reclaim"} => u = t
        BY <1>5, <1>9 DEF WriterInside
    <2>2. arr'[cur].mem = "live"
        BY <1>2 DEF IInv, VersionsSane
    <2> QED BY <1>5, <2>1, <2>2 DEF Handover
<1>18. PinsHold' /\ ReadsInBounds'
    <2>1. \A v : Pinned(v)' = Pinned(v)
        BY <1>2 DEF Pinned
    <2> QED BY <1>2, <2>1 DEF IInv, PinsHold, ReadsInBounds
<1> QED BY <1>10, <1>11, <1>12, <1>13, <1>14, <1>15, <1>16, <1>17, <1>18 DEF IInv

\* The increment of physical_size gives the owned slot up and preserves the invariant.
LEMMA CommitPreserves ==
    ASSUME IInv, NEW t \in Writers, Commit(t)
    PROVE  IInv'
<1>1. /\ TypeOK /\ cur \in Versions /\ cur \in Nat
      /\ \A v \in 0 .. cur : v \in Versions
    BY CurFacts DEF IInv
<1>2. /\ wr[t].pc = "commit" /\ wr[t].arr = cur /\ wr[t].pc \in Writing
      /\ UNCHANGED <<buf, cur, mtx, clock, rd, ans, calls, reads>>
    BY DEF Commit, IInv, SlotsOfWriters, Writing
<1> DEFINE h == [arr[cur] EXCEPT !.phys = arr[cur].phys + 1]
<1>3. arr \in [Versions -> Headers] /\ wr \in [Writers -> WriterStates]
    BY <1>1 DEF TypeOK
<1>4. \A v \in Versions : /\ arr[v] \in Headers /\ arr[v].size \in Nat
                          /\ arr[v].cap \in Nat /\ arr[v].phys \in Nat /\ arr[v].snapDeg \in Nat
    BY <1>1, HeaderFields
<1>5. h \in Headers
    BY <1>1, <1>4 DEF Headers
<1>6. arr' = [arr EXCEPT ![cur] = h] /\ wr' = [wr EXCEPT ![t] = IdleWriter]
    BY <1>2 DEF Commit
<1>7. IdleWriter \in WriterStates /\ IdleWriter.pc = "idle"
    BY DEF IdleWriter, WriterStates, WriterPcs
<1>8. /\ wr' \in [Writers -> WriterStates] /\ wr'[t].pc = "idle"
      /\ \A u \in Writers : u # t => wr'[u] = wr[u]
    BY <1>3, <1>6, <1>7
<1>9. /\ h.size = arr[cur].size /\ h.cap = arr[cur].cap /\ h.phys = arr[cur].phys + 1
      /\ h.snapDeg = arr[cur].snapDeg /\ h.reads = arr[cur].reads /\ h.prev = arr[cur].prev
      /\ h.next = arr[cur].next /\ h.mem = arr[cur].mem
    BY <1>1, <1>4 DEF Headers
<1> HIDE DEF h
<1>10. /\ arr' \in [Versions -> Headers]
       /\ \A v \in Versions :
             /\ arr'[v].size = arr[v].size /\ arr'[v].cap = arr[v].cap
             /\ arr'[v].snapDeg = arr[v].snapDeg /\ arr'[v].reads = arr[v].reads
             /\ arr'[v].prev = arr[v].prev /\ arr'[v].next = arr[v].next
             /\ arr'[v].mem = arr[v].mem
             /\ arr'[v].phys = IF v = cur THEN arr[cur].phys + 1 ELSE arr[v].phys
    BY <1>1, <1>3, <1>5, <1>6, <1>9
<1>11. /\ Holding(cur)' = Holding(cur) \ {t} /\ t \in Holding(cur)
       /\ Cardinality(Holding(cur)') = Cardinality(Holding(cur)) - 1
    <2>1. Holding(cur)' = Holding(cur) \ {t} /\ t \in Holding(cur)
        BY <1>2, <1>8 DEF Holding, Writing
    <2> QED BY <2>1, HoldingFinite, FS_RemoveElement
<1>12. Cardinality(Holding(cur)) \in Nat /\ Cardinality(Holding(cur)) # 0
    BY <1>11, HoldingFinite, FS_EmptySet
<1>13. TypeOK'
    BY <1>1, <1>2, <1>8, <1>10 DEF TypeOK
<1>14. LockHeldInside'
    BY <1>2, <1>8, FiniteThreads DEF IInv, LockHeldInside, WriterInside
<1>15. PointersInChain'
    BY <1>1, <1>2, <1>8 DEF IInv, PointersInChain, Pinning
<1>16. VersionsSane'
    <2>1. arr[cur].phys + 1 <= arr[cur].cap
        BY <1>1, <1>4, <1>12 DEF IInv, SlotsAccounted
    <2> QED BY <1>1, <1>2, <1>4, <1>10, <2>1 DEF IInv, VersionsSane
<1>17. SlotsOfWriters'
    <2>1. \A u \in Writers : wr'[u].pc \in Writing => u # t /\ wr'[u] = wr[u]
        BY <1>8 DEF Writing
    <2>2. \A u \in Holding(cur)' : wr'[u] = wr[u] /\ u \in Holding(cur)
        BY <1>11, <1>8 DEF Holding
    <2> QED BY <1>1, <1>2, <1>10, <2>1, <2>2 DEF IInv, SlotsOfWriters
<1>18. SlotsAccounted'
    BY <1>1, <1>2, <1>4, <1>10, <1>11, <1>12 DEF IInv, SlotsAccounted
<1>19. RetiredOverfull'
    BY <1>2, <1>10 DEF IInv, RetiredOverfull
<1>20. Handover'
    <2>1. \A u \in Writers : wr[u].pc # "publish"
        BY <1>1, <1>4, <1>12 DEF IInv, Handover, SlotsAccounted
    <2>2. \A u \in Writers : wr'[u].pc = "reclaim" =>
             wr'[u] = wr[u] /\ wr[u].arr \in Versions
        BY <1>1, <1>8 DEF IInv, PointersInChain
    <2>3. \A u \in Writers : wr'[u].pc # "publish"
        BY <1>8, <2>1
    <2> QED BY <1>10, <2>2, <2>3 DEF IInv, Handover
<1>21. \A r \in Readers : rd[r].pc \in Pinning => rd[r].arr \in Versions
    BY <1>1 DEF IInv, PointersInChain
<1>22. PinsHold' /\ ReadsInBounds'
    <2>1. \A v : Pinned(v)' = Pinned(v)
        BY <1>2 DEF Pinned
    <2> QED BY <1>2, <1>10, <1>21, <2>1 DEF IInv, PinsHold, ReadsInBounds, Pinning
<1> QED BY <1>13, <1>14, <1>15, <1>16, <1>17, <1>18, <1>19, <1>20, <1>22 DEF IInv

\* The array that LogCompaction grows by Slack slots holds all the kept entries.
LEMMA GrownCapFits ==
    ASSUME NEW want \in Nat, NEW num \in Nat
    PROVE  GrownCap(want, num) \in Nat /\ num <= GrownCap(want, num)
<1> Slack \in Nat \ {0}
    BY ConstantsAssumption DEF ConstantsAssumption
<1>1. CASE num <= want
    BY <1>1 DEF GrownCap
<1>2. CASE ~(num <= want)
    <2> DEFINE a == num - want + Slack - 1
               q == a \div Slack
               b == Slack * q
    <2>1. a \in Nat /\ Slack \in Nat /\ Slack > 0
        BY <1>2
    <2>2. q \in Nat /\ b \in Nat /\ a < b + Slack
        BY <2>1
    <2>3. GrownCap(want, num) = want + b
        BY <1>2 DEF GrownCap
    <2> QED BY <2>1, <2>2, <2>3
<1> QED BY <1>1, <1>2

\* LogCompaction keeps finitely many slots.
LEMMA KeptFinite ==
    ASSUME TypeOK, NEW v \in Versions
    PROVE  IsFiniteSet(Kept(v)) /\ Cardinality(Kept(v)) \in Nat
<1>1. arr[v].phys - 1 \in Int
    BY HeaderFields
<1>2. IsFiniteSet(0 .. (arr[v].phys - 1))
    BY <1>1, FS_Interval
<1>3. Kept(v) \subseteq 0 .. (arr[v].phys - 1)
    BY DEF Kept
<1> QED BY <1>2, <1>3, FS_Subset, FS_CardinalityType

\* The array built by LogCompaction is complete: physical_size, the snapshot and the
\* reserved slots are the same, and all are within its capacity.
LEMMA CompactedFields ==
    ASSUME TypeOK, NEW v \in Versions, NEW want \in Nat, NEW sorted \in BOOLEAN
    PROVE  LET h == Compacted(v, want)
           IN  /\ h \in Headers
               /\ h.phys = h.size /\ h.snapDeg = h.size /\ h.size <= h.cap
               /\ h.mem = "live" /\ h.reads = 0
               /\ h.prev = v /\ h.next = NoVersion
               /\ DOMAIN CompactedBuffer(v, want, sorted) = 0 .. (h.cap - 1)
<1> DEFINE num == Cardinality(Kept(v))
           cap == GrownCap(want, num)
<1>1. num \in Nat
    BY KeptFinite
<1>2. cap \in Nat /\ num <= cap
    BY <1>1, GrownCapFits
<1>3. clock \in Nat
    BY DEF TypeOK
<1>4. DOMAIN CompactedBuffer(v, want, sorted) = 0 .. (cap - 1)
    BY DEF CompactedBuffer
<1>5. Compacted(v, want) =
        [Unallocated EXCEPT !.size = num, !.phys = num, !.deg = num, !.snapDeg = num,
                            !.cap = cap, !.snapTs = clock, !.prev = v, !.mem = "live"]
    BY DEF Compacted
<1> HIDE DEF num, cap
<1>6. Compacted(v, want) =
        [size |-> num, cap |-> cap, phys |-> num, deg |-> num, snapDeg |-> num,
         snapTs |-> clock, reads |-> 0, prev |-> v, next |-> NoVersion, mem |-> "live",
         freedAt |-> 0]
    BY <1>5 DEF Unallocated
<1>7. Compacted(v, want) \in Headers
    BY <1>1, <1>2, <1>3, <1>6 DEF Headers
<1> QED BY <1>2, <1>4, <1>6, <1>7

\* Deleting an array relinks its two neighbours and leaves all counters alone.
LEMMA DeleteFields ==
    ASSUME NEW a \in [Versions -> Headers], NEW v \in Versions, NEW n \in Nat
    PROVE  LET d == Delete(a, v, n)
           IN  /\ d \in [Versions -> Headers]
               /\ d[v].mem = "freed"
               /\ \A u \in Versions :
                     /\ d[u].size = a[u].size /\ d[u].cap = a[u].cap
                     /\ d[u].phys = a[u].phys /\ d[u].snapDeg = a[u].snapDeg
                     /\ d[u].reads = a[u].reads
                     /\ u # v => d[u].mem = a[u].mem
                     /\ \/ d[u].prev = a[u].prev
                        \/ u = a[v].next /\ d[u].prev = a[v].prev
                     /\ \/ d[u].next = a[u].next
                        \/ u = a[v].prev /\ d[u].next = a[v].next
<1> DEFINE d == Delete(a, v, n)
<1>1. \A u \in Versions : a[u] \in Headers
    OBVIOUS
<1>2. \A u \in Versions :
        d[u] = IF u = v THEN [a[v] EXCEPT !.mem = "freed", !.freedAt = n]
               ELSE IF u = a[v].next THEN [a[u] EXCEPT !.prev = a[v].prev]
               ELSE IF u = a[v].prev THEN [a[u] EXCEPT !.next = a[v].next]
               ELSE a[u]
    BY DEF Delete
<1>3. d = [u \in Versions |-> d[u]]
    BY DEF Delete
<1>4. a[v].prev \in Versions \cup {NoVersion} /\ a[v].next \in Versions \cup {NoVersion}
    BY <1>1 DEF Headers
<1> HIDE DEF d
<1>5. ASSUME NEW u \in Versions
      PROVE  /\ d[u] \in Headers
             /\ d[u].size = a[u].size /\ d[u].cap = a[u].cap
             /\ d[u].phys = a[u].phys /\ d[u].snapDeg = a[u].snapDeg
             /\ d[u].reads = a[u].reads
             /\ d[u].mem = IF u = v THEN "freed" ELSE a[u].mem
             /\ \/ d[u].prev = a[u].prev
                \/ u = a[v].next /\ d[u].prev = a[v].prev
             /\ \/ d[u].next = a[u].next
                \/ u = a[v].prev /\ d[u].next = a[v].next
    <2>1. a[u] \in Headers
        BY <1>1
    <2>2. CASE u = v
        <3> DEFINE h == [a[u] EXCEPT !.mem = "freed", !.freedAt = n]
        <3>1. d[u] = h
            BY <1>2, <2>2
        <3>2. /\ h \in Headers /\ h.size = a[u].size /\ h.cap = a[u].cap
              /\ h.phys = a[u].phys /\ h.snapDeg = a[u].snapDeg /\ h.reads = a[u].reads
              /\ h.mem = "freed" /\ h.prev = a[u].prev /\ h.next = a[u].next
            BY <2>1 DEF Headers
        <3> HIDE DEF h
        <3> QED BY <2>2, <3>1, <3>2
    <2>3. CASE u # v /\ u = a[v].next
        <3> DEFINE h == [a[u] EXCEPT !.prev = a[v].prev]
        <3>1. d[u] = h
            BY <1>2, <2>3
        <3>2. /\ h \in Headers /\ h.size = a[u].size /\ h.cap = a[u].cap
              /\ h.phys = a[u].phys /\ h.snapDeg = a[u].snapDeg /\ h.reads = a[u].reads
              /\ h.mem = a[u].mem /\ h.prev = a[v].prev /\ h.next = a[u].next
            BY <1>4, <2>1 DEF Headers
        <3> HIDE DEF h
        <3> QED BY <2>3, <3>1, <3>2
    <2>4. CASE u # v /\ u # a[v].next /\ u = a[v].prev
        <3> DEFINE h == [a[u] EXCEPT !.next = a[v].next]
        <3>1. d[u] = h
            BY <1>2, <2>4
        <3>2. /\ h \in Headers /\ h.size = a[u].size /\ h.cap = a[u].cap
              /\ h.phys = a[u].phys /\ h.snapDeg = a[u].snapDeg /\ h.reads = a[u].reads
              /\ h.mem = a[u].mem /\ h.prev = a[u].prev /\ h.next = a[v].next
            BY <1>4, <2>1 DEF Headers
        <3> HIDE DEF h
        <3> QED BY <2>4, <3>1, <3>2
    <2>5. CASE u # v /\ u # a[v].next /\ u # a[v].prev
        BY <1>2, <2>1, <2>5
    <2> QED BY <2>2, <2>3, <2>4, <2>5
<1>6. d \in [Versions -> Headers]
    BY <1>3, <1>5
<1> QED BY <1>5, <1>6 DEF d

\* The product of two natural numbers is one.
LEMMA ProductNat ==
    ASSUME NEW a \in Nat, NEW b \in Nat
    PROVE  a * b \in Nat
BY SMT

\* Compacting the full current array into a new, unpublished one preserves the invariant.
LEMMA CompactPreserves ==
    ASSUME IInv, NEW t \in Writers, Compact(t)
    PROVE  IInv'
<1>1. /\ TypeOK /\ cur \in Versions /\ cur \in Nat
      /\ \A v \in 0 .. cur : v \in Versions
    BY CurFacts DEF IInv
<1>2. /\ wr[t].pc = "wait" /\ wr[t].arr = cur /\ mtx = t
      /\ arr[cur].phys = arr[cur].cap
      /\ clock' = clock + 1 /\ SetWriter(t, "publish")
      /\ UNCHANGED <<cur, mtx, rd, ans, calls, reads>>
    BY DEF Compact, Full, IInv, PointersInChain, LockHeldInside, WriterInside
<1>3. cur + 1 \in Versions
    BY <1>1, ConstantsAssumption DEF Compact, Versions, ConstantsAssumption
<1>4. \A v \in Versions : /\ arr[v] \in Headers /\ arr[v].size \in Nat
                          /\ arr[v].cap \in Nat /\ arr[v].phys \in Nat
                          /\ arr[v].deg \in Int /\ arr[v].snapDeg \in Nat
    BY <1>1, HeaderFields
<1>5. Cardinality(Holding(cur)) = 0 /\ arr[cur].size >= arr[cur].cap
    BY <1>1, <1>2, <1>4, HoldingFinite DEF IInv, SlotsAccounted
<1> DEFINE want == AtLeastZero(arr[cur].deg) * ExpandRate
                     + (arr[cur].size - arr[cur].cap + 1) + Slack
           new == Compacted(cur, want)
           old == [arr[cur] EXCEPT !.next = cur + 1]
<1>6. want \in Nat
    <2>1. AtLeastZero(arr[cur].deg) \in Nat
        BY <1>1, <1>4 DEF AtLeastZero
    <2>2. ExpandRate \in Nat /\ Slack \in Nat
        BY ConstantsAssumption DEF ConstantsAssumption
    <2> DEFINE m == AtLeastZero(arr[cur].deg) * ExpandRate
    <2>3. m \in Nat
        BY <2>1, <2>2, ProductNat
    <2> HIDE DEF m
    <2>4. m + (arr[cur].size - arr[cur].cap + 1) + Slack \in Nat
        BY <1>1, <1>4, <1>5, <2>2, <2>3
    <2> QED BY <2>4 DEF m
<1>7. /\ arr' = [arr EXCEPT ![cur + 1] = new, ![cur].next = cur + 1]
      /\ buf' = [buf EXCEPT ![cur + 1] = CompactedBuffer(cur, want, FALSE)]
    BY DEF Compact
<1>8. arr' = [arr EXCEPT ![cur + 1] = new, ![cur] = old]
    <2>1. arr \in [Versions -> Headers] /\ cur + 1 # cur
        BY <1>1 DEF TypeOK
    <2> HIDE DEF want, new
    <2> DEFINE a == [arr EXCEPT ![cur + 1] = new]
    <2>3. a[cur] = arr[cur]
        BY <1>1, <2>1
    <2>4. arr' = [a EXCEPT ![cur] = [a[cur] EXCEPT !.next = cur + 1]]
        BY <1>7
    <2>5. arr' = [a EXCEPT ![cur] = old]
        BY <2>3, <2>4
    <2> QED BY <2>5
<1> HIDE DEF want
<1>9. /\ new \in Headers
      /\ new.phys = new.size /\ new.snapDeg = new.size /\ new.size <= new.cap
      /\ new.mem = "live" /\ new.reads = 0
      /\ new.prev = cur /\ new.next = NoVersion
      /\ DOMAIN CompactedBuffer(cur, want, FALSE) = 0 .. (new.cap - 1)
    BY <1>1, <1>6, CompactedFields
<1>10. /\ old \in Headers /\ old.size = arr[cur].size /\ old.cap = arr[cur].cap
       /\ old.phys = arr[cur].phys /\ old.snapDeg = arr[cur].snapDeg
       /\ old.reads = arr[cur].reads /\ old.mem = arr[cur].mem
       /\ old.prev = arr[cur].prev /\ old.next = cur + 1
    BY <1>1, <1>3, <1>4 DEF Headers
<1> HIDE DEF new, old
<1>11. /\ arr' \in [Versions -> Headers]
       /\ arr'[cur + 1] = new
       /\ \A v \in Versions : v # cur + 1 =>
             /\ arr'[v].size = arr[v].size /\ arr'[v].cap = arr[v].cap
             /\ arr'[v].phys = arr[v].phys /\ arr'[v].snapDeg = arr[v].snapDeg
             /\ arr'[v].reads = arr[v].reads /\ arr'[v].mem = arr[v].mem
             /\ arr'[v].prev = arr[v].prev
             /\ arr'[v].next = IF v = cur THEN cur + 1 ELSE arr[v].next
    <2>1. arr \in [Versions -> Headers] /\ cur + 1 # cur
        BY <1>1 DEF TypeOK
    <2> QED BY <2>1, <1>1, <1>3, <1>8, <1>9, <1>10
<1>12. /\ DOMAIN buf' = Versions
       /\ \A v \in Versions : v # cur + 1 => buf'[v] = buf[v]
       /\ DOMAIN buf'[cur + 1] = 0 .. (new.cap - 1)
    BY <1>1, <1>3, <1>7, <1>9 DEF TypeOK
<1>13. "publish" \in WriterPcs
    BY DEF WriterPcs
<1>14. /\ wr' \in [Writers -> WriterStates]
       /\ wr'[t].pc = "publish" /\ wr'[t].arr = cur
       /\ \A u \in Writers : u # t => wr'[u] = wr[u]
    BY <1>1, <1>2, <1>13, SetWriterFields
<1>15. \A u \in Writers : u # t => wr[u].pc \notin WriterInside
    BY <1>2 DEF IInv, LockHeldInside
<1>16. TypeOK'
    BY <1>1, <1>2, <1>11, <1>12, <1>14 DEF TypeOK
<1>17. LockHeldInside'
    BY <1>2, <1>14, FiniteThreads DEF IInv, LockHeldInside, WriterInside
<1>18. PointersInChain'
    BY <1>1, <1>2, <1>14 DEF IInv, PointersInChain, Pinning
<1>19. VersionsSane'
    <2>1. arr'[cur].mem = "live"
        BY <1>1, <1>11 DEF IInv, VersionsSane
    <2>2. ASSUME NEW v \in Versions
          PROVE  /\ arr'[v].snapDeg <= arr'[v].phys /\ arr'[v].phys <= arr'[v].cap
                 /\ v > cur => arr'[v].reads = 0 /\ arr'[v].next = NoVersion
                 /\ arr'[v].prev < v
                 /\ arr'[v].next # NoVersion => v < arr'[v].next
        <3>1. new.size \in Nat /\ cur < cur + 1
            BY <1>1, <1>9 DEF Headers
        <3>2. CASE v = cur + 1
            BY <3>1, <3>2, <1>9, <1>11
        <3>3. CASE v # cur + 1
            BY <3>1, <3>3, <1>1, <1>11 DEF IInv, VersionsSane
        <3> QED BY <3>2, <3>3
    <2> QED BY <1>2, <2>1, <2>2 DEF VersionsSane
<1>20. cur # cur + 1
    BY <1>1
<1>21. Holding(cur)' = Holding(cur)
    BY <1>2, <1>14 DEF Holding, Writing
<1>22. SlotsOfWriters'
    <2>1. \A u \in Writers : wr'[u].pc \in Writing => u # t /\ wr'[u] = wr[u]
        BY <1>14 DEF Writing
    <2>2. \A u \in Holding(cur) : wr'[u] = wr[u]
        BY <1>2, <1>14 DEF Holding, Writing
    <2> QED BY <1>1, <1>2, <1>11, <1>20, <1>21, <2>1, <2>2 DEF IInv, SlotsOfWriters
<1>23. SlotsAccounted'
    BY <1>1, <1>2, <1>11, <1>20, <1>21 DEF IInv, SlotsAccounted
<1>24. RetiredOverfull'
    BY <1>1, <1>2, <1>11 DEF IInv, RetiredOverfull, Versions
<1>25. Handover'
    BY <1>1, <1>2, <1>3, <1>9, <1>11, <1>14, <1>15, <1>20 DEF Handover, WriterInside
<1>26. \A r \in Readers : rd[r].pc \in Pinning => rd[r].arr \in Versions /\ rd[r].arr # cur + 1
    BY <1>1 DEF IInv, PointersInChain
<1>27. PinsHold'
    <2>1. \A v : Pinned(v)' = Pinned(v)
        BY <1>2 DEF Pinned
    <2>2. arr[cur + 1].reads = 0
        BY <1>1, <1>3 DEF IInv, VersionsSane
    <2> QED BY <1>2, <1>9, <1>11, <1>26, <2>1, <2>2 DEF IInv, PinsHold
<1>28. ReadsInBounds'
    BY <1>2, <1>11, <1>26 DEF IInv, ReadsInBounds, Pinning
<1> QED BY <1>16, <1>17, <1>18, <1>19, <1>22, <1>23, <1>24, <1>25, <1>27, <1>28 DEF IInv

\* Deleting an array keeps prev_arr pointing to older versions and next_arr to newer
\* ones, and keeps the links of the versions after it.
LEMMA DeleteOrder ==
    ASSUME NEW a \in [Versions -> Headers], NEW v \in Versions, NEW n \in Nat,
           \A u \in Versions :
              /\ a[u].prev < u
              /\ a[u].next # NoVersion => u < a[u].next
    PROVE  \A u \in Versions :
              /\ Delete(a, v, n)[u].prev < u
              /\ Delete(a, v, n)[u].next # NoVersion => u < Delete(a, v, n)[u].next
              /\ u > v => Delete(a, v, n)[u].next = a[u].next
<1> DEFINE d == Delete(a, v, n)
<1>1. ASSUME NEW u \in Versions
      PROVE  /\ \/ d[u].prev = a[u].prev
                \/ u = a[v].next /\ d[u].prev = a[v].prev
             /\ \/ d[u].next = a[u].next
                \/ u = a[v].prev /\ d[u].next = a[v].next
    BY DeleteFields
<1>2. \A u \in Versions : u \in Nat /\ u # NoVersion
    BY ConstantsAssumption DEF ConstantsAssumption, Versions, NoVersion
<1>3. \A u \in Versions : a[u].prev \in Int /\ a[u].next \in Int
    <2>1. \A u \in Versions : a[u] \in Headers
        OBVIOUS
    <2> QED BY <1>2, <2>1 DEF Headers, NoVersion
<1> HIDE DEF d
<1>4. ASSUME NEW u \in Versions
      PROVE  /\ d[u].prev < u
             /\ d[u].next # NoVersion => u < d[u].next
             /\ u > v => d[u].next = a[u].next
    <2>1. d[u].prev < u
        BY <1>1, <1>2, <1>3
    <2>2. ASSUME d[u].next # NoVersion
          PROVE  u < d[u].next
        <3>1. CASE d[u].next = a[u].next
            BY <2>2, <3>1
        <3>2. CASE u = a[v].prev /\ d[u].next = a[v].next
            <4>1. u < v /\ v < a[v].next
                BY <2>2, <3>2
            <4>2. u \in Int /\ v \in Int /\ a[v].next \in Int
                BY <1>2, <1>3
            <4> QED BY <3>2, <4>1, <4>2
        <3> QED BY <1>1, <3>1, <3>2
    <2>3. u > v => d[u].next = a[u].next
        <3>1. a[v].prev < v /\ u \in Int /\ v \in Int
            BY <1>2
        <3> QED BY <1>1, <3>1
    <2> QED BY <2>1, <2>2, <2>3
<1> QED BY <1>4 DEF d

\* A step of the expander that takes apart retired arrays without readers preserves
\* the invariant.
LEMMA RetireFrame ==
    ASSUME IInv, NEW t \in Writers,
           wr[t].pc = "reclaim", SetWriter(t, "reload"),
           arr' \in [Versions -> Headers],
           \A v \in Versions :
              /\ arr'[v].size = arr[v].size /\ arr'[v].cap = arr[v].cap
              /\ arr'[v].phys = arr[v].phys /\ arr'[v].snapDeg = arr[v].snapDeg
              /\ arr'[v].reads = arr[v].reads
              /\ \/ arr'[v].mem = arr[v].mem
                 \/ /\ v < cur /\ arr[v].reads = 0
                    /\ arr'[v].mem = "freed" \/ (arr'[v].mem = "shell" /\ arr[v].mem = "live")
              /\ arr'[v].prev < v
              /\ arr'[v].next # NoVersion => v < arr'[v].next
              /\ v > cur => arr'[v].next = arr[v].next,
           DOMAIN buf' = Versions,
           \A v \in Versions : arr'[v].mem = "live" => buf'[v] = buf[v],
           UNCHANGED <<cur, mtx, clock, rd, ans, calls, reads>>
    PROVE  IInv'
<1>1. TypeOK /\ cur \in Versions /\ cur \in Nat /\ \A v \in 0 .. cur : v \in Versions
    BY CurFacts DEF IInv
<1>2. /\ wr' \in [Writers -> WriterStates]
      /\ wr'[t].pc = "reload" /\ wr'[t].arr = wr[t].arr
      /\ \A u \in Writers : u # t => wr'[u] = wr[u]
    <2>1. "reload" \in WriterPcs
        BY DEF WriterPcs
    <2> QED BY <1>1, <2>1, SetWriterFields
<1>3. mtx = t /\ \A u \in Writers : u # t => wr[u].pc \notin WriterInside
    BY DEF IInv, LockHeldInside, WriterInside
<1>4. TypeOK'
    BY <1>1, <1>2 DEF TypeOK
<1>5. LockHeldInside'
    BY <1>2, <1>3, FiniteThreads DEF IInv, LockHeldInside, WriterInside
<1>6. PointersInChain'
    BY <1>1, <1>2, <1>3 DEF IInv, PointersInChain, Pinning, WriterInside
<1>7. VersionsSane'
    BY <1>1 DEF IInv, VersionsSane
<1>8. Holding(cur)' = Holding(cur) /\ \A u \in Holding(cur) : wr'[u] = wr[u]
    BY <1>2 DEF Holding, Writing
<1>9. SlotsOfWriters'
    <2>1. \A u \in Writers : wr'[u].pc \in Writing => wr[u].pc \in Writing /\ wr'[u] = wr[u]
        BY <1>2 DEF Writing
    <2> QED BY <1>1, <1>8, <2>1 DEF IInv, SlotsOfWriters
<1>10. SlotsAccounted'
    BY <1>1, <1>8 DEF IInv, SlotsAccounted
<1>11. RetiredOverfull'
    BY DEF IInv, RetiredOverfull
<1>12. Handover'
    BY <1>2, <1>3 DEF Handover, WriterInside
<1>13. \A r \in Readers : rd[r].pc \in Pinning =>
          rd[r].arr \in Versions /\ arr'[rd[r].arr].mem = "live"
    <2>1. ASSUME NEW r \in Readers, rd[r].pc \in Pinning
          PROVE  rd[r].arr \in Versions /\ arr'[rd[r].arr].mem = "live"
        <3>1. rd[r].arr \in Versions /\ arr[rd[r].arr].mem = "live"
            BY <1>1, <2>1 DEF IInv, PointersInChain, PinsHold
        <3>2. Pinned(rd[r].arr) # {}
            BY <2>1 DEF Pinned
        <3>3. IsFiniteSet(Pinned(rd[r].arr))
            <4>1. Pinned(rd[r].arr) \subseteq Readers
                BY DEF Pinned
            <4> QED BY <4>1, FiniteThreads, FS_Subset
        <3>4. arr[rd[r].arr].reads # 0
            BY <3>1, <3>2, <3>3, FS_EmptySet DEF IInv, PinsHold
        <3> QED BY <3>1, <3>4
    <2> QED BY <2>1
<1>14. PinsHold'
    <2>1. \A v : Pinned(v)' = Pinned(v)
        BY DEF Pinned
    <2> QED BY <1>13, <2>1 DEF IInv, PinsHold
<1>15. ReadsInBounds'
    BY <1>13 DEF IInv, ReadsInBounds, Pinning
<1> QED BY <1>4, <1>5, <1>6, <1>7, <1>9, <1>10, <1>11, <1>12, <1>14, <1>15 DEF IInv

\* Purging the retired array and deleting the one before it preserves the invariant
\* (radixgraph.cpp:37-46).
LEMMA ReclaimPreserves ==
    ASSUME IInv, NEW t \in Writers, Reclaim(t)
    PROVE  IInv'
<1>1. /\ TypeOK /\ cur \in Versions /\ cur \in Nat
      /\ \A v \in 0 .. cur : v \in Versions
    BY CurFacts DEF IInv
<1> DEFINE old == wr[t].arr
           before == arr[old].prev
           purged == [arr EXCEPT ![old].mem = "shell"]
<1>2. /\ wr[t].pc = "reclaim" /\ SetWriter(t, "reload")
      /\ UNCHANGED <<cur, mtx, clock, rd, ans, calls, reads>>
    BY DEF Reclaim
<1>3. old \in Versions /\ old \in Nat /\ old < cur /\ arr[old].mem = "live"
    BY <1>1, <1>2 DEF IInv, PointersInChain, Handover
<1>4. \A v \in Versions : /\ arr[v] \in Headers
                          /\ arr[v].prev \in Versions \cup {NoVersion}
    BY <1>1, HeaderFields
<1>5. \A v \in Versions :
         /\ arr[v].prev < v
         /\ arr[v].next # NoVersion => v < arr[v].next
    BY DEF IInv, VersionsSane
<1>6. /\ purged \in [Versions -> Headers]
      /\ \A v \in Versions :
            /\ purged[v].size = arr[v].size /\ purged[v].cap = arr[v].cap
            /\ purged[v].phys = arr[v].phys /\ purged[v].snapDeg = arr[v].snapDeg
            /\ purged[v].reads = arr[v].reads
            /\ purged[v].prev = arr[v].prev /\ purged[v].next = arr[v].next
            /\ purged[v].mem = IF v = old THEN "shell" ELSE arr[v].mem
    <2> DEFINE h == [arr[old] EXCEPT !.mem = "shell"]
    <2>1. /\ h \in Headers
          /\ h.size = arr[old].size /\ h.cap = arr[old].cap
          /\ h.phys = arr[old].phys /\ h.snapDeg = arr[old].snapDeg
          /\ h.reads = arr[old].reads /\ h.prev = arr[old].prev
          /\ h.next = arr[old].next /\ h.mem = "shell"
        BY <1>3, <1>4 DEF Headers
    <2>2. purged = [arr EXCEPT ![old] = h] /\ arr \in [Versions -> Headers]
        BY <1>1 DEF TypeOK
    <2> HIDE DEF h, purged
    <2> QED BY <1>3, <2>1, <2>2
<1>7. DOMAIN buf = Versions
    BY <1>1 DEF TypeOK
<1>8. CASE arr[old].reads # 0
    <2>1. arr' = arr /\ buf' = buf
        BY <1>8 DEF Reclaim
    <2>2. arr \in [Versions -> Headers]
        BY <1>1 DEF TypeOK
    <2> HIDE DEF old, before, purged
    <2> QED BY <1>2, <1>5, <1>7, <2>1, <2>2, RetireFrame
<1>9. CASE arr[old].reads = 0 /\ ~(before # NoVersion /\ arr[before].reads = 0)
    <2>1. arr' = purged /\ buf' = [buf EXCEPT ![old] = NoBuffer]
        BY <1>9 DEF Reclaim
    <2> HIDE DEF old, before, purged
    <2>2. DOMAIN buf' = Versions /\ \A v \in Versions : v # old => buf'[v] = buf[v]
        BY <1>7, <2>1
    <2>3. \A v \in Versions : arr'[v].mem = "live" => buf'[v] = buf[v]
        BY <1>6, <2>1, <2>2
    <2> QED BY <1>2, <1>3, <1>5, <1>6, <1>9, <2>1, <2>2, <2>3, RetireFrame
<1>10. CASE arr[old].reads = 0 /\ before # NoVersion /\ arr[before].reads = 0
    <2>1. /\ arr' = Delete(purged, before, cur)
          /\ buf' = [buf EXCEPT ![old] = NoBuffer, ![before] = NoBuffer]
        BY <1>10 DEF Reclaim
    <2>2. before \in Versions /\ before < old /\ before < cur
        <3>1. before \in Versions /\ before < old
            BY <1>3, <1>4, <1>5, <1>10
        <3>2. before \in Int
            BY <3>1, ConstantsAssumption DEF ConstantsAssumption, Versions
        <3> HIDE DEF old, before
        <3> QED BY <1>1, <1>3, <3>1, <3>2
    <2> HIDE DEF old, before, purged
    <2>3. \A v \in Versions :
             /\ purged[v].prev < v
             /\ purged[v].next # NoVersion => v < purged[v].next
        BY <1>5, <1>6
    <2>4. \A v \in Versions : v \in Nat
        BY ConstantsAssumption DEF ConstantsAssumption, Versions
    <2>5. \A v \in Versions :
             /\ arr'[v].prev < v
             /\ arr'[v].next # NoVersion => v < arr'[v].next
             /\ v > cur => arr'[v].next = arr[v].next
        <3>1. \A v \in Versions :
                 /\ arr'[v].prev < v
                 /\ arr'[v].next # NoVersion => v < arr'[v].next
                 /\ v > before => arr'[v].next = purged[v].next
            BY <1>1, <1>6, <2>1, <2>2, <2>3, DeleteOrder
        <3> QED BY <1>1, <1>6, <2>2, <2>4, <3>1
    <2>6. /\ arr' \in [Versions -> Headers]
          /\ arr'[before].mem = "freed"
          /\ \A v \in Versions :
                /\ arr'[v].size = arr[v].size /\ arr'[v].cap = arr[v].cap
                /\ arr'[v].phys = arr[v].phys /\ arr'[v].snapDeg = arr[v].snapDeg
                /\ arr'[v].reads = arr[v].reads
                /\ v # before => arr'[v].mem = purged[v].mem
        BY <1>1, <1>6, <2>1, <2>2, DeleteFields
    <2>7. \A v \in Versions :
             \/ arr'[v].mem = arr[v].mem
             \/ /\ v < cur /\ arr[v].reads = 0
                /\ arr'[v].mem = "freed" \/ (arr'[v].mem = "shell" /\ arr[v].mem = "live")
        <3> TAKE v \in Versions
        <3>1. CASE v = before
            BY <1>10, <2>2, <2>6, <3>1
        <3>2. CASE v = old
            <4>1. arr'[v].mem = "shell"
                BY <1>3, <1>6, <2>2, <2>4, <2>6, <3>2
            <4> QED BY <1>3, <1>10, <3>2, <4>1
        <3>3. CASE v # before /\ v # old
            BY <1>6, <2>6, <3>3
        <3> QED BY <3>1, <3>2, <3>3
    <2>8. /\ DOMAIN buf' = Versions
          /\ \A v \in Versions : v # old /\ v # before => buf'[v] = buf[v]
        BY <1>7, <2>1
    <2>9. \A v \in Versions : arr'[v].mem = "live" => buf'[v] = buf[v]
        BY <1>6, <2>6, <2>8
    <2> QED BY <1>2, <2>5, <2>6, <2>7, <2>8, <2>9, RetireFrame DEF old
<1> QED BY <1>8, <1>9, <1>10

\* The readers of a version are finitely many.
LEMMA PinnedFinite ==
    ASSUME NEW v
    PROVE  IsFiniteSet(Pinned(v)) /\ Cardinality(Pinned(v)) \in Nat
<1>1. Pinned(v) \subseteq Readers
    BY DEF Pinned
<1> QED BY <1>1, FiniteThreads, FS_Subset, FS_CardinalityType

\* Pinning a readable version under the lock preserves the invariant.
LEMMA PinPreserves ==
    ASSUME IInv, NEW r \in Readers, Pin(r)
    PROVE  IInv'
<1>1. /\ TypeOK /\ cur \in Versions /\ cur \in Nat
      /\ \A v \in 0 .. cur : v \in Versions
    BY CurFacts DEF IInv
<1> DEFINE p == rd[r].arr
           still == {d \in Dest : \A t \in Writers :
                                     wr[t].pc # "idle" => wr[t].call.idx # d}
<1>2. /\ rd[r].pc = "walk" /\ mtx = r /\ mtx' = NoThread
      /\ p \in 0 .. cur /\ p \in Versions /\ arr[p].mem = "live"
      /\ UNCHANGED <<buf, cur, clock, wr, ans, calls, reads>>
    BY <1>1 DEF Pin, Readable, IInv, LockHeldInside, PointersInChain
<1>3. /\ arr' = [arr EXCEPT ![p] = [arr[p] EXCEPT !.reads = arr[p].reads + 1]]
      /\ rd' = [rd EXCEPT ![r] = [rd[r] EXCEPT !.pc = "count", !.still = still]]
    BY DEF Pin
<1>4. /\ rd' \in [Readers -> ReaderStates]
      /\ rd'[r].pc = "count" /\ rd'[r].arr = p
      /\ \A q \in Readers : q # r => rd'[q] = rd[q]
    <2>1. rd[r] \in ReaderStates /\ rd \in [Readers -> ReaderStates]
        <3>1. rd \in [Readers -> ReaderStates]
            BY <1>1 DEF TypeOK
        <3> QED BY <3>1
    <2>2. "count" \in ReaderPcs /\ still \in SUBSET Dest
        BY DEF ReaderPcs
    <2> DEFINE w == [rd[r] EXCEPT !.pc = "count", !.still = still]
    <2> HIDE DEF still
    <2>3. w \in ReaderStates /\ w.pc = "count" /\ w.arr = rd[r].arr
        BY <2>1, <2>2 DEF ReaderStates
    <2>4. rd' = [rd EXCEPT ![r] = w]
        BY <1>3
    <2> HIDE DEF w
    <2> QED BY <2>1, <2>3, <2>4
<1> HIDE DEF still
<1>5. \A v \in Versions : /\ arr[v] \in Headers /\ arr[v].size \in Nat
                          /\ arr[v].cap \in Nat /\ arr[v].phys \in Nat
                          /\ arr[v].snapDeg \in Nat /\ arr[v].reads \in Nat
    BY <1>1, HeaderFields
<1>6. /\ arr' \in [Versions -> Headers]
      /\ \A v \in Versions :
            /\ arr'[v].size = arr[v].size /\ arr'[v].cap = arr[v].cap
            /\ arr'[v].phys = arr[v].phys /\ arr'[v].snapDeg = arr[v].snapDeg
            /\ arr'[v].prev = arr[v].prev /\ arr'[v].next = arr[v].next
            /\ arr'[v].mem = arr[v].mem
            /\ arr'[v].reads = IF v = p THEN arr[v].reads + 1 ELSE arr[v].reads
    <2> DEFINE h == [arr[p] EXCEPT !.reads = arr[p].reads + 1]
    <2>1. /\ h \in Headers
          /\ h.size = arr[p].size /\ h.cap = arr[p].cap
          /\ h.phys = arr[p].phys /\ h.snapDeg = arr[p].snapDeg
          /\ h.reads = arr[p].reads + 1 /\ h.prev = arr[p].prev
          /\ h.next = arr[p].next /\ h.mem = arr[p].mem
        BY <1>2, <1>5 DEF Headers
    <2>2. arr' = [arr EXCEPT ![p] = h] /\ arr \in [Versions -> Headers]
        BY <1>1, <1>3 DEF TypeOK
    <2> HIDE DEF h, p
    <2> QED BY <1>2, <2>1, <2>2
<1>7. TypeOK'
    BY <1>1, <1>2, <1>4, <1>6 DEF TypeOK
<1>8. LockHeldInside'
    BY <1>2, <1>4, FiniteThreads DEF IInv, LockHeldInside, WriterInside
<1>9. PointersInChain'
    BY <1>1, <1>2, <1>4 DEF IInv, PointersInChain, Pinning
<1>10. VersionsSane'
    <2>1. arr'[cur].mem = "live"
        BY <1>1, <1>6 DEF IInv, VersionsSane
    <2>2. ASSUME NEW v \in Versions, v > cur PROVE v # p
        BY <1>1, <1>2, <2>2
    <2> QED BY <1>2, <1>6, <2>1, <2>2 DEF IInv, VersionsSane
<1>11. Holding(cur)' = Holding(cur)
    BY <1>2 DEF Holding
<1>12. SlotsOfWriters' /\ SlotsAccounted'
    BY <1>1, <1>2, <1>6, <1>11 DEF IInv, SlotsOfWriters, SlotsAccounted
<1>13. RetiredOverfull'
    BY <1>2, <1>6 DEF IInv, RetiredOverfull
<1>14. Handover'
    <2>1. \A t \in Writers : wr[t].pc \notin WriterInside
        BY <1>2, FiniteThreads DEF IInv, LockHeldInside
    <2> QED BY <1>2, <2>1 DEF Handover, WriterInside
<1>15. \A q \in Readers : rd[q].pc \in Pinning => rd[q].arr \in Versions
    BY <1>1 DEF IInv, PointersInChain
<1>16. PinsHold'
    <2>1. \A v \in Versions : v # p => Pinned(v)' = Pinned(v)
        BY <1>2, <1>4 DEF Pinned, Pinning
    <2>2. ASSUME NEW v \in Versions, v = p
          PROVE  Cardinality(Pinned(v)') = Cardinality(Pinned(v)) + 1
        <3>1. r \notin Pinned(v)
            BY <1>2 DEF Pinned, Pinning
        <3>2. rd'[r].pc \in Pinning /\ rd'[r].arr = v
            BY <1>4, <2>2 DEF Pinning
        <3> HIDE DEF p
        <3>3. Pinned(v)' = Pinned(v) \cup {r}
            BY <1>4, <3>2 DEF Pinned
        <3> QED BY <3>1, <3>3, PinnedFinite, FS_AddElement
    <2>4. \A v \in Versions : arr'[v].reads = Cardinality(Pinned(v)')
        <3> TAKE v \in Versions
        <3>1. arr[v].reads = Cardinality(Pinned(v))
            BY DEF IInv, PinsHold
        <3>2. CASE v = p
            BY <1>6, <2>2, <3>1, <3>2
        <3>3. CASE v # p
            BY <1>6, <2>1, <3>1, <3>3
        <3> QED BY <3>2, <3>3
    <2>5. ASSUME NEW q \in Readers, rd'[q].pc \in Pinning
          PROVE  arr'[rd'[q].arr].mem = "live"
        <3>1. CASE q = r
            BY <1>2, <1>4, <1>6, <3>1
        <3>2. CASE q # r
            BY <1>4, <1>6, <1>15, <2>5, <3>2 DEF IInv, PinsHold
        <3> QED BY <3>1, <3>2
    <2> QED BY <2>4, <2>5 DEF PinsHold
<1>17. ReadsInBounds'
    <2>1. ASSUME NEW q \in Readers
          PROVE  /\ rd'[q].pc = "scan" =>
                      rd'[q].pos >= arr'[rd'[q].arr].snapDeg /\ rd'[q].pos < arr'[rd'[q].arr].cap
                 /\ rd'[q].pc = "read" => rd'[q].pos >= 0 /\ rd'[q].pos < arr'[rd'[q].arr].cap
                 /\ rd'[q].pc \in Pinning => arr'[rd'[q].arr].snapDeg <= arr'[rd'[q].arr].cap
        <3>1. CASE q = r
            <4>1. arr[p].snapDeg <= arr[p].phys /\ arr[p].phys <= arr[p].cap
                BY <1>2 DEF IInv, VersionsSane
            <4>2. arr[p].snapDeg <= arr[p].cap
                BY <1>2, <1>5, <4>1
            <4> QED BY <1>2, <1>4, <1>6, <3>1, <4>2
        <3>2. CASE q # r
            BY <1>4, <1>6, <1>15, <3>2 DEF IInv, ReadsInBounds, Pinning
        <3> QED BY <3>1, <3>2
    <2> QED BY <2>1 DEF ReadsInBounds
<1> QED BY <1>7, <1>8, <1>9, <1>10, <1>12, <1>13, <1>14, <1>16, <1>17 DEF IInv

\* Giving a version up, and deleting it when it is retired and has no other reader,
\* preserves the invariant (radixgraph.cpp:190-199).
LEMMA UnpinPreserves ==
    ASSUME IInv, NEW r \in Readers, Unpin(r)
    PROVE  IInv'
<1>1. /\ TypeOK /\ cur \in Versions /\ cur \in Nat
      /\ \A v \in 0 .. cur : v \in Versions
    BY CurFacts DEF IInv
<1> DEFINE p == rd[r].arr
           left == [arr EXCEPT ![p].reads = @ - 1]
<1>2. /\ rd[r].pc = "unpin" /\ mtx = NoThread
      /\ p \in 0 .. cur /\ p \in Versions /\ arr[p].mem = "live"
      /\ rd' = [rd EXCEPT ![r] = IdleReader]
      /\ ans' = [ans EXCEPT ![r] = NoAnswer]
      /\ UNCHANGED <<cur, mtx, clock, wr, calls, reads>>
    BY <1>1 DEF Unpin, IInv, PinsHold, PointersInChain, Pinning
<1>3. /\ rd' \in [Readers -> ReaderStates]
      /\ rd'[r].pc = "idle"
      /\ \A q \in Readers : q # r => rd'[q] = rd[q]
    <2>1. rd \in [Readers -> ReaderStates]
        BY <1>1 DEF TypeOK
    <2>2. IdleReader \in ReaderStates /\ IdleReader.pc = "idle"
        BY DEF IdleReader, ReaderStates, ReaderPcs, NoVersion, Forever
    <2> QED BY <1>2, <2>1, <2>2
<1>4. \A v \in Versions : /\ arr[v] \in Headers /\ arr[v].size \in Nat
                          /\ arr[v].cap \in Nat /\ arr[v].phys \in Nat
                          /\ arr[v].snapDeg \in Nat /\ arr[v].reads \in Nat
    BY <1>1, HeaderFields
<1>5. /\ r \in Pinned(p) /\ arr[p].reads = Cardinality(Pinned(p))
      /\ arr[p].reads # 0
    <2>1. r \in Pinned(p) /\ arr[p].reads = Cardinality(Pinned(p))
        BY <1>2 DEF Pinned, Pinning, IInv, PinsHold
    <2> QED BY <2>1, PinnedFinite, FS_EmptySet
<1>6. /\ left \in [Versions -> Headers]
      /\ \A v \in Versions :
            /\ left[v].size = arr[v].size /\ left[v].cap = arr[v].cap
            /\ left[v].phys = arr[v].phys /\ left[v].snapDeg = arr[v].snapDeg
            /\ left[v].prev = arr[v].prev /\ left[v].next = arr[v].next
            /\ left[v].mem = arr[v].mem
            /\ left[v].reads = IF v = p THEN arr[v].reads - 1 ELSE arr[v].reads
    <2> DEFINE h == [arr[p] EXCEPT !.reads = arr[p].reads - 1]
    <2>1. /\ h \in Headers
          /\ h.size = arr[p].size /\ h.cap = arr[p].cap
          /\ h.phys = arr[p].phys /\ h.snapDeg = arr[p].snapDeg
          /\ h.reads = arr[p].reads - 1 /\ h.prev = arr[p].prev
          /\ h.next = arr[p].next /\ h.mem = arr[p].mem
        <3>1. arr[p] \in Headers /\ arr[p].reads - 1 \in Nat
            BY <1>2, <1>4, <1>5
        <3> QED BY <3>1 DEF Headers
    <2>2. left = [arr EXCEPT ![p] = h] /\ arr \in [Versions -> Headers]
        BY <1>1 DEF TypeOK
    <2> HIDE DEF h, p, left
    <2> QED BY <1>2, <2>1, <2>2
<1>7. \A v \in Versions :
         /\ left[v].prev < v
         /\ left[v].next # NoVersion => v < left[v].next
    BY <1>6 DEF IInv, VersionsSane
<1>8. DOMAIN buf = Versions
    BY <1>1 DEF TypeOK
<1> DEFINE last == arr[p].reads = 1 /\ p # cur
<1>9. /\ arr' \in [Versions -> Headers]
      /\ \A v \in Versions :
            /\ arr'[v].size = arr[v].size /\ arr'[v].cap = arr[v].cap
            /\ arr'[v].phys = arr[v].phys /\ arr'[v].snapDeg = arr[v].snapDeg
            /\ arr'[v].reads = left[v].reads
            /\ arr'[v].mem = arr[v].mem \/ (v = p /\ last /\ arr'[v].mem = "freed")
            /\ arr'[v].prev < v
            /\ arr'[v].next # NoVersion => v < arr'[v].next
            /\ v > cur => arr'[v].next = arr[v].next
      /\ DOMAIN buf' = Versions
      /\ \A v \in Versions : arr'[v].mem = "live" => buf'[v] = buf[v]
    <2>1. CASE ~last
        <3>1. arr' = left /\ buf' = buf
            BY <2>1 DEF Unpin, LastReader
        <3> HIDE DEF p, left, last
        <3> QED BY <1>6, <1>7, <1>8, <3>1
    <2>2. CASE last
        <3>1. arr' = Delete(left, p, cur) /\ buf' = [buf EXCEPT ![p] = NoBuffer]
            BY <2>2 DEF Unpin, LastReader
        <3> HIDE DEF p, left, last
        <3>2. \A v \in Versions : v \in Nat
            BY ConstantsAssumption DEF ConstantsAssumption, Versions
        <3>3. /\ arr' \in [Versions -> Headers]
              /\ arr'[p].mem = "freed"
              /\ \A v \in Versions :
                    /\ arr'[v].size = arr[v].size /\ arr'[v].cap = arr[v].cap
                    /\ arr'[v].phys = arr[v].phys /\ arr'[v].snapDeg = arr[v].snapDeg
                    /\ arr'[v].reads = left[v].reads
                    /\ v # p => arr'[v].mem = arr[v].mem
            BY <1>1, <1>2, <1>6, <3>1, DeleteFields
        <3>4. \A v \in Versions :
                 /\ arr'[v].prev < v
                 /\ arr'[v].next # NoVersion => v < arr'[v].next
                 /\ v > p => arr'[v].next = left[v].next
            BY <1>1, <1>2, <1>6, <1>7, <3>1, DeleteOrder
        <3>5. \A v \in Versions : v > cur => arr'[v].next = arr[v].next
            <4>1. p \in Int /\ p <= cur
                BY <1>1, <1>2
            <4> QED BY <1>1, <1>6, <3>2, <3>4, <4>1
        <3>6. /\ DOMAIN buf' = Versions
              /\ \A v \in Versions : v # p => buf'[v] = buf[v]
            BY <1>8, <3>1
        <3>7. \A v \in Versions : arr'[v].mem = "live" => buf'[v] = buf[v]
            BY <3>3, <3>6
        <3>8. \A v \in Versions :
                 arr'[v].mem = arr[v].mem \/ (v = p /\ last /\ arr'[v].mem = "freed")
            BY <2>2, <3>3
        <3> QED BY <3>3, <3>4, <3>5, <3>6, <3>7, <3>8
    <2> QED BY <2>1, <2>2
<1>10. last => p < cur
    <2>1. p \in Int /\ p <= cur
        BY <1>1, <1>2
    <2> HIDE DEF p
    <2> QED BY <1>1, <2>1
<1>11. \A q \in Readers : q # r /\ rd[q].pc \in Pinning =>
          /\ rd[q].arr \in Versions
          /\ arr'[rd[q].arr].mem = "live"
    <2> SUFFICES ASSUME NEW q \in Readers, q # r, rd[q].pc \in Pinning
                 PROVE  rd[q].arr \in Versions /\ arr'[rd[q].arr].mem = "live"
        OBVIOUS
    <2>1. rd[q].arr \in Versions /\ arr[rd[q].arr].mem = "live"
        BY <1>1 DEF IInv, PointersInChain, PinsHold
    <2>2. ASSUME rd[q].arr = p, last
          PROVE  FALSE
        <3>1. q \in Pinned(p) /\ Pinned(p) \ {r} # {}
            BY <2>2 DEF Pinned
        <3>2. Cardinality(Pinned(p) \ {r}) = 0
            <4>1. Cardinality(Pinned(p)) = 1 /\ r \in Pinned(p)
                BY <1>5, <2>2
            <4> HIDE DEF p, last
            <4>2. Cardinality(Pinned(p) \ {r}) = Cardinality(Pinned(p)) - 1
                BY <4>1, PinnedFinite, FS_RemoveElement
            <4> QED BY <4>1, <4>2
        <3>3. IsFiniteSet(Pinned(p) \ {r})
            BY PinnedFinite, FS_Subset
        <3> QED BY <3>1, <3>2, <3>3, FS_EmptySet
    <2> HIDE DEF p, last
    <2>3. rd[q].arr = p /\ last => FALSE
        BY <2>2
    <2>4. \A v \in Versions : arr'[v].mem = arr[v].mem \/ (v = p /\ last)
        BY <1>9
    <2>5. arr'[rd[q].arr].mem = arr[rd[q].arr].mem
        BY <2>1, <2>3, <2>4
    <2> QED BY <2>1, <2>5
<1> HIDE DEF left
<1>12. TypeOK'
    <2>1. DOMAIN ans' = Readers
        BY <1>1, <1>2 DEF TypeOK
    <2> QED BY <1>1, <1>2, <1>3, <1>9, <2>1 DEF TypeOK
<1>13. LockHeldInside'
    BY <1>2, <1>3, FiniteThreads DEF IInv, LockHeldInside, WriterInside
<1>14. PointersInChain'
    BY <1>1, <1>2, <1>3 DEF IInv, PointersInChain, Pinning
<1>15. VersionsSane'
    <2>1. arr'[cur].mem = "live"
        BY <1>1, <1>9 DEF IInv, VersionsSane
    <2>2. \A v \in Versions : v > cur => arr'[v].reads = 0
        <3>1. p <= cur /\ p \in Int
            BY <1>1, <1>2
        <3> HIDE DEF p
        <3>2. \A v \in Versions : v > cur => v # p
            BY <1>1, <3>1, ConstantsAssumption DEF ConstantsAssumption, Versions
        <3> QED BY <1>6, <1>9, <3>2 DEF IInv, VersionsSane
    <2> HIDE DEF p, last
    <2> QED BY <1>2, <1>9, <2>1, <2>2 DEF IInv, VersionsSane
<1>16. Holding(cur)' = Holding(cur)
    BY <1>2 DEF Holding
<1>17. SlotsOfWriters' /\ SlotsAccounted'
    BY <1>1, <1>2, <1>9, <1>16 DEF IInv, SlotsOfWriters, SlotsAccounted
<1>18. RetiredOverfull'
    BY <1>2, <1>9 DEF IInv, RetiredOverfull
<1>19. Handover'
    <2>1. \A t \in Writers : wr[t].pc \notin WriterInside
        BY <1>2, FiniteThreads DEF IInv, LockHeldInside
    <2> QED BY <1>2, <2>1 DEF Handover, WriterInside
<1>20. PinsHold'
    <2>1. ASSUME NEW v \in Versions
          PROVE  arr'[v].reads = Cardinality(Pinned(v)')
        <3>1. arr[v].reads = Cardinality(Pinned(v))
            BY DEF IInv, PinsHold
        <3>2. Pinned(v)' = Pinned(v) \ {r}
            BY <1>3 DEF Pinned, Pinning
        <3>3. CASE v = p
            <4>1. r \in Pinned(v)
                BY <1>5, <3>3
            <4>2. Cardinality(Pinned(v)') = Cardinality(Pinned(v)) - 1
                BY <3>2, <4>1, PinnedFinite, FS_RemoveElement
            <4> QED BY <1>6, <1>9, <3>1, <3>3, <4>2
        <3>4. CASE v # p
            <4>1. Pinned(v)' = Pinned(v)
                BY <3>2, <3>4 DEF Pinned
            <4> QED BY <1>6, <1>9, <3>1, <3>4, <4>1
        <3> QED BY <3>3, <3>4
    <2>2. ASSUME NEW q \in Readers, rd'[q].pc \in Pinning
          PROVE  arr'[rd'[q].arr].mem = "live"
        <3>1. q # r
            BY <1>3, <2>2 DEF Pinning
        <3> QED BY <1>3, <1>11, <2>2, <3>1
    <2> QED BY <2>1, <2>2 DEF PinsHold
<1>21. ReadsInBounds'
    <2>1. \A q \in Readers : rd'[q].pc \in Pinning => q # r
        BY <1>3 DEF Pinning
    <2> QED BY <1>3, <1>9, <1>11, <2>1 DEF IInv, ReadsInBounds, Pinning
<1> QED BY <1>12, <1>13, <1>14, <1>15, <1>17, <1>18, <1>19, <1>20, <1>21 DEF IInv

\* CreateSnapshots, run alone, preserves the invariant.
LEMMA CreateSnapshotPreserves ==
    ASSUME IInv, NEW sorted \in BOOLEAN, NEW dense \in BOOLEAN,
           CreateSnapshot(sorted, dense)
    PROVE  IInv'
<1>1. /\ TypeOK /\ cur \in Versions /\ cur \in Nat
      /\ \A v \in 0 .. cur : v \in Versions
    BY CurFacts DEF IInv
<1>2. /\ \A t \in Writers : wr[t].pc = "idle"
      /\ \A r \in Readers : rd[r].pc = "idle"
      /\ cur' = cur + 1 /\ clock' = clock + 1
      /\ UNCHANGED <<mtx, wr, rd, ans, calls, reads>>
    BY DEF CreateSnapshot, AllIdle
<1>3. cur + 1 \in Versions
    <2>1. calls \in 0 .. MaxCalls /\ MaxCalls \in Nat /\ MaxVersion \in Nat
        BY <1>1, ConstantsAssumption DEF TypeOK, ConstantsAssumption
    <2>2. cur + (MaxCalls - calls) < MaxVersion
        BY DEF CreateSnapshot
    <2>3. MaxCalls - calls >= 0 /\ MaxCalls - calls \in Int
        BY <2>1
    <2>4. cur + 1 \in 0 .. MaxVersion
        BY <1>1, <2>1, <2>2, <2>3
    <2> QED BY <2>4 DEF Versions
<1>4. \A v \in Versions : /\ v \in Nat /\ arr[v] \in Headers
                          /\ arr[v].deg \in Int
    BY <1>1, HeaderFields, ConstantsAssumption DEF ConstantsAssumption, Versions
<1> DEFINE deg == AtLeastZero(arr[cur].deg)
           want == IF dense THEN deg ELSE deg * ExpandRate + Slack
           new == Compacted(cur, want)
           old == [arr[cur] EXCEPT !.next = cur + 1]
           linked == [arr EXCEPT ![cur + 1] = new, ![cur].next = cur + 1]
<1>5. want \in Nat
    <2>1. deg \in Nat
        BY <1>1, <1>4 DEF AtLeastZero
    <2>2. ExpandRate \in Nat /\ Slack \in Nat
        BY ConstantsAssumption DEF ConstantsAssumption
    <2> HIDE DEF deg
    <2> DEFINE m == deg * ExpandRate
    <2>3. m \in Nat
        BY <2>1, <2>2, ProductNat
    <2> HIDE DEF m
    <2>4. m + Slack \in Nat
        BY <2>2, <2>3
    <2> QED BY <2>1, <2>4 DEF m
<1>6. /\ arr' = Delete(linked, cur, cur + 1)
      /\ buf' = [buf EXCEPT ![cur + 1] = CompactedBuffer(cur, want, sorted),
                            ![cur] = NoBuffer]
    BY DEF CreateSnapshot
<1>7. /\ new \in Headers
      /\ new.phys = new.size /\ new.snapDeg = new.size /\ new.size <= new.cap
      /\ new.mem = "live" /\ new.reads = 0
      /\ new.prev = cur /\ new.next = NoVersion
      /\ DOMAIN CompactedBuffer(cur, want, sorted) = 0 .. (new.cap - 1)
    <2> HIDE DEF want
    <2> QED BY <1>1, <1>5, CompactedFields
<1>8. /\ old \in Headers /\ old.size = arr[cur].size /\ old.cap = arr[cur].cap
      /\ old.phys = arr[cur].phys /\ old.snapDeg = arr[cur].snapDeg
      /\ old.reads = arr[cur].reads /\ old.mem = arr[cur].mem
      /\ old.prev = arr[cur].prev /\ old.next = cur + 1
    BY <1>1, <1>3, <1>4 DEF Headers
<1> HIDE DEF want, new
<1>9. linked = [arr EXCEPT ![cur + 1] = new, ![cur] = old]
    <2>1. arr \in [Versions -> Headers] /\ cur + 1 # cur
        BY <1>1 DEF TypeOK
    <2> DEFINE a == [arr EXCEPT ![cur + 1] = new]
    <2>2. a[cur] = arr[cur]
        BY <1>1, <2>1
    <2>3. linked = [a EXCEPT ![cur] = [a[cur] EXCEPT !.next = cur + 1]]
        OBVIOUS
    <2>4. linked = [a EXCEPT ![cur] = old]
        BY <2>2, <2>3
    <2> QED BY <2>4
<1> HIDE DEF old, linked
<1>10. /\ linked \in [Versions -> Headers]
       /\ linked[cur + 1] = new
       /\ \A v \in Versions : v # cur + 1 =>
             /\ linked[v].size = arr[v].size /\ linked[v].cap = arr[v].cap
             /\ linked[v].phys = arr[v].phys /\ linked[v].snapDeg = arr[v].snapDeg
             /\ linked[v].reads = arr[v].reads /\ linked[v].mem = arr[v].mem
             /\ linked[v].prev = arr[v].prev
             /\ linked[v].next = IF v = cur THEN cur + 1 ELSE arr[v].next
    <2>1. arr \in [Versions -> Headers] /\ cur + 1 # cur
        BY <1>1 DEF TypeOK
    <2> QED BY <2>1, <1>1, <1>3, <1>7, <1>8, <1>9
<1>11. \A v \in Versions :
          /\ linked[v].prev < v
          /\ linked[v].next # NoVersion => v < linked[v].next
    <2> TAKE v \in Versions
    <2>1. CASE v = cur + 1
        BY <1>1, <1>7, <1>10, <2>1
    <2>2. CASE v # cur + 1
        BY <1>1, <1>10, <2>2 DEF IInv, VersionsSane
    <2> QED BY <2>1, <2>2
<1>12. cur + 1 \in Nat /\ cur + 1 # cur /\ cur < cur + 1
    BY <1>1
<1>13. /\ arr' \in [Versions -> Headers]
       /\ arr'[cur].mem = "freed"
       /\ \A v \in Versions :
             /\ arr'[v].size = linked[v].size /\ arr'[v].cap = linked[v].cap
             /\ arr'[v].phys = linked[v].phys /\ arr'[v].snapDeg = linked[v].snapDeg
             /\ arr'[v].reads = linked[v].reads
             /\ v # cur => arr'[v].mem = linked[v].mem
    <2>1. arr' = Delete(linked, cur, cur + 1)
        BY <1>6
    <2>2. linked \in [Versions -> Headers] /\ cur \in Versions /\ cur + 1 \in Nat
        BY <1>1, <1>10, <1>12
    <2> DEFINE d == Delete(linked, cur, cur + 1)
    <2>3. /\ d \in [Versions -> Headers]
          /\ d[cur].mem = "freed"
          /\ \A v \in Versions :
                /\ d[v].size = linked[v].size /\ d[v].cap = linked[v].cap
                /\ d[v].phys = linked[v].phys /\ d[v].snapDeg = linked[v].snapDeg
                /\ d[v].reads = linked[v].reads
                /\ v # cur => d[v].mem = linked[v].mem
        BY <2>2, DeleteFields
    <2> QED BY <2>1, <2>3
<1>14. \A v \in Versions :
          /\ arr'[v].prev < v
          /\ arr'[v].next # NoVersion => v < arr'[v].next
          /\ v > cur => arr'[v].next = linked[v].next
    BY <1>1, <1>6, <1>10, <1>11, <1>12, DeleteOrder
<1>15. /\ DOMAIN buf' = Versions
       /\ DOMAIN buf'[cur + 1] = 0 .. (new.cap - 1)
       /\ \A v \in Versions : v # cur /\ v # cur + 1 => buf'[v] = buf[v]
    <2>1. DOMAIN buf = Versions
        BY <1>1 DEF TypeOK
    <2> QED BY <2>1, <1>1, <1>3, <1>6, <1>7, <1>12
<1>16. TypeOK'
    <2>1. \A v \in Versions : arr'[v].mem = "live" => DOMAIN buf'[v] = 0 .. (arr'[v].cap - 1)
        <3> TAKE v \in Versions
        <3>1. CASE v = cur
            BY <1>13, <3>1
        <3>2. CASE v = cur + 1
            BY <1>10, <1>13, <1>15, <3>2
        <3>3. CASE v # cur /\ v # cur + 1
            BY <1>1, <1>10, <1>13, <1>15, <3>3 DEF TypeOK
        <3> QED BY <3>1, <3>2, <3>3
    <2> QED BY <1>1, <1>2, <1>3, <1>13, <1>15, <2>1 DEF TypeOK
<1>17. LockHeldInside'
    BY <1>2 DEF IInv, LockHeldInside
<1>18. PointersInChain'
    BY <1>2 DEF PointersInChain, Pinning
<1>19. arr'[cur + 1].mem = "live"
    BY <1>3, <1>7, <1>10, <1>12, <1>13
<1>20. VersionsSane'
    <2>1. ASSUME NEW v \in Versions
          PROVE  /\ arr'[v].snapDeg <= arr'[v].phys /\ arr'[v].phys <= arr'[v].cap
                 /\ v > cur + 1 => arr'[v].reads = 0 /\ arr'[v].next = NoVersion
        <3>1. CASE v = cur + 1
            <4>1. new.size \in Nat
                BY <1>7 DEF Headers
            <4> QED BY <1>7, <1>10, <1>12, <1>13, <3>1, <4>1
        <3>2. CASE v # cur + 1
            <4>1. v > cur + 1 => v > cur /\ v # cur
                BY <1>1, <1>4
            <4> QED BY <1>10, <1>13, <1>14, <3>2, <4>1 DEF IInv, VersionsSane
        <3> QED BY <3>1, <3>2
    <2> QED BY <1>2, <1>14, <1>19, <2>1 DEF VersionsSane
<1>21. \A t \in Writers : wr'[t].pc = "idle"
    BY <1>2
<1>22. Holding(cur)' = {}
    BY <1>21 DEF Holding, Writing
<1>23. SlotsOfWriters'
    BY <1>21, <1>22 DEF SlotsOfWriters, Writing
<1>24. SlotsAccounted'
    <2>1. Cardinality(Holding(cur)') = 0
        BY <1>22, FS_EmptySet
    <2>2. /\ arr'[cur + 1].phys = arr'[cur + 1].size
          /\ arr'[cur + 1].size <= arr'[cur + 1].cap
        BY <1>3, <1>7, <1>10, <1>13
    <2>3. /\ arr'[cur + 1].phys \in Nat /\ arr'[cur + 1].size \in Nat
          /\ arr'[cur + 1].cap \in Nat
        <3>1. arr'[cur + 1] \in Headers
            BY <1>3, <1>13
        <3> QED BY <3>1 DEF Headers
    <2> QED BY <1>2, <2>1, <2>2, <2>3 DEF SlotsAccounted
<1>25. RetiredOverfull'
    <2>1. \A v \in Versions : v < cur + 1 /\ v # cur => v < cur /\ v # cur + 1
        BY <1>1, <1>4
    <2> QED BY <1>2, <1>10, <1>13, <2>1 DEF IInv, RetiredOverfull
<1>26. Handover'
    BY <1>21 DEF Handover
<1>27. PinsHold'
    <2>1. \A v : Pinned(v)' = {} /\ Pinned(v) = {}
        BY <1>2 DEF Pinned, Pinning
    <2>2. \A v \in Versions : arr'[v].reads = 0
        <3>1. \A v \in Versions : arr[v].reads = 0
            BY <2>1, FS_EmptySet DEF IInv, PinsHold
        <3> QED BY <1>7, <1>10, <1>13, <3>1
    <2> QED BY <1>2, <2>1, <2>2, FS_EmptySet DEF PinsHold, Pinning
<1>28. ReadsInBounds'
    BY <1>2 DEF ReadsInBounds, Pinning
<1> QED BY <1>16, <1>17, <1>18, <1>20, <1>23, <1>24, <1>25, <1>26, <1>27, <1>28 DEF IInv

\* A vertex with its first, empty edge array satisfies the invariant.
LEMMA InitIInv == Init => IInv
<1> SUFFICES ASSUME Init PROVE IInv
    OBVIOUS
<1>1. /\ 0 \in Versions /\ \A v \in Versions : v \in Nat
      /\ InitCap \in Nat /\ MaxCalls \in Nat
    BY ConstantsAssumption DEF ConstantsAssumption, Versions
<1> DEFINE first == [Unallocated EXCEPT !.cap = InitCap, !.mem = "live"]
<1>2. /\ Unallocated \in Headers /\ Unallocated.mem = "none"
      /\ Unallocated.size = 0 /\ Unallocated.cap = 0 /\ Unallocated.phys = 0
      /\ Unallocated.snapDeg = 0 /\ Unallocated.reads = 0
      /\ Unallocated.prev = NoVersion /\ Unallocated.next = NoVersion
    BY DEF Unallocated, Headers, NoVersion
<1>3. /\ first \in Headers /\ first.mem = "live"
      /\ first.size = 0 /\ first.cap = InitCap /\ first.phys = 0
      /\ first.snapDeg = 0 /\ first.reads = 0
      /\ first.prev = NoVersion /\ first.next = NoVersion
    BY <1>1, <1>2 DEF Unallocated, Headers, NoVersion
<1>4. arr = [v \in Versions |-> IF v = 0 THEN first ELSE Unallocated]
    BY DEF Init
<1> HIDE DEF first
<1>5. /\ arr \in [Versions -> Headers]
      /\ arr[0] = first
      /\ \A v \in Versions : v # 0 => arr[v] = Unallocated
    BY <1>1, <1>2, <1>3, <1>4
<1>6. /\ DOMAIN buf = Versions
      /\ DOMAIN buf[0] = 0 .. (InitCap - 1)
    BY <1>1 DEF Init
<1>7. /\ cur = 0 /\ mtx = NoThread /\ clock = 0 /\ calls = 0 /\ reads = 0
      /\ wr = [t \in Writers |-> IdleWriter]
      /\ rd = [r \in Readers |-> IdleReader]
      /\ DOMAIN ans = Readers
    BY DEF Init
<1>8. IdleWriter \in WriterStates /\ IdleWriter.pc = "idle"
    BY DEF IdleWriter, WriterStates, WriterPcs, NoVersion, NoStamp
<1>9. IdleReader \in ReaderStates /\ IdleReader.pc = "idle"
    BY DEF IdleReader, ReaderStates, ReaderPcs, NoVersion, Forever
<1>10. /\ wr \in [Writers -> WriterStates] /\ \A t \in Writers : wr[t].pc = "idle"
       /\ rd \in [Readers -> ReaderStates] /\ \A r \in Readers : rd[r].pc = "idle"
    BY <1>7, <1>8, <1>9
<1>11. TypeOK
    <2>1. \A v \in Versions : arr[v].mem = "live" => DOMAIN buf[v] = 0 .. (arr[v].cap - 1)
        <3> TAKE v \in Versions
        <3>1. CASE v = 0
            BY <1>3, <1>5, <1>6, <3>1
        <3>2. CASE v # 0
            BY <1>2, <1>5, <3>2
        <3> QED BY <3>1, <3>2
    <2>2. calls \in 0 .. MaxCalls /\ reads \in Nat /\ clock \in Nat /\ cur \in Versions
        BY <1>1, <1>7
    <2> QED BY <1>5, <1>6, <1>7, <1>10, <2>1, <2>2 DEF TypeOK
<1>12. LockHeldInside
    BY <1>7, <1>10, FiniteThreads DEF LockHeldInside, WriterInside
<1>13. PointersInChain
    BY <1>10 DEF PointersInChain, Pinning
<1>14. VersionsSane
    <2>1. ASSUME NEW v \in Versions
          PROVE  /\ arr[v].snapDeg <= arr[v].phys /\ arr[v].phys <= arr[v].cap
                 /\ arr[v].reads = 0 /\ arr[v].next = NoVersion
                 /\ arr[v].prev < v
        <3>1. NoVersion < v
            BY <1>1 DEF NoVersion
        <3>2. CASE v = 0
            BY <1>1, <1>3, <1>5, <3>1, <3>2
        <3>3. CASE v # 0
            BY <1>2, <1>5, <3>1, <3>3
        <3> QED BY <3>2, <3>3
    <2>2. arr[cur].mem = "live"
        BY <1>3, <1>5, <1>7
    <2> QED BY <2>1, <2>2 DEF VersionsSane
<1>15. Holding(cur) = {}
    BY <1>10 DEF Holding, Writing
<1>16. SlotsOfWriters
    BY <1>10, <1>15 DEF SlotsOfWriters, Writing
<1>17. SlotsAccounted
    BY <1>1, <1>3, <1>5, <1>7, <1>15, FS_EmptySet DEF SlotsAccounted
<1>18. RetiredOverfull
    BY <1>1, <1>7 DEF RetiredOverfull
<1>19. Handover
    BY <1>10 DEF Handover
<1>20. PinsHold
    <2>1. \A v \in Versions : arr[v].reads = 0
        BY <1>2, <1>3, <1>5
    <2>2. \A v : Pinned(v) = {}
        BY <1>10 DEF Pinned, Pinning
    <2> QED BY <1>10, <2>1, <2>2, FS_EmptySet DEF PinsHold, Pinning
<1>21. ReadsInBounds
    BY <1>10 DEF ReadsInBounds, Pinning
<1> QED BY <1>11, <1>12, <1>13, <1>14, <1>16, <1>17, <1>18, <1>19, <1>20, <1>21 DEF IInv

\* A step that changes nothing preserves the invariant.
LEMMA StutterPreserves ==
    ASSUME IInv, UNCHANGED vars
    PROVE  IInv'
<1>1. UNCHANGED <<arr, buf, cur, mtx, clock, wr, rd, ans, calls, reads>>
    BY DEF vars
<1>2. TypeOK' /\ LockHeldInside' /\ PointersInChain' /\ VersionsSane'
    BY <1>1 DEF IInv, TypeOK, LockHeldInside, PointersInChain, VersionsSane
<1>3. Holding(cur)' = Holding(cur)
    BY <1>1 DEF Holding
<1>4. SlotsOfWriters' /\ SlotsAccounted' /\ RetiredOverfull' /\ Handover'
    BY <1>1, <1>3 DEF IInv, SlotsOfWriters, SlotsAccounted, RetiredOverfull, Handover
<1>5. \A v : Pinned(v)' = Pinned(v)
    BY <1>1 DEF Pinned
<1>6. PinsHold' /\ ReadsInBounds'
    BY <1>1, <1>5 DEF IInv, PinsHold, ReadsInBounds
<1> QED BY <1>2, <1>4, <1>6 DEF IInv

\* Every step of the edge store preserves the invariant: one case for each action.
THEOREM NextPreserves ==
    ASSUME IInv, [Next]_vars
    PROVE  IInv'
<1>1. CASE UNCHANGED vars
    BY <1>1, StutterPreserves
<1>2. ASSUME NEW t \in Writers, Call(t) PROVE IInv'
    BY <1>2, CallPreserves
<1>3. ASSUME NEW t \in Writers, WriterStep(t) PROVE IInv'
    BY <1>3, ReservePreserves, UseAfterFreePreserves, LockPreserves, CompactPreserves,
       PublishPreserves, ReclaimPreserves, ReloadPreserves, TickPreserves,
       StampPreserves, WritePreserves, CommitPreserves DEF WriterStep
<1>4. ASSUME NEW r \in Readers, Ask(r) PROVE IInv'
    BY <1>4, AskPreserves
<1>5. ASSUME NEW r \in Readers, ReaderStep(r) PROVE IInv'
    BY <1>5, LockForReadPreserves, WalkBackPreserves, PinPreserves, CountPreserves,
       ScanPreserves, ReadPreserves, UnpinPreserves DEF ReaderStep
<1>6. ASSUME NEW sorted \in BOOLEAN, NEW dense \in BOOLEAN,
             CreateSnapshot(sorted, dense)
      PROVE  IInv'
    BY <1>6, CreateSnapshotPreserves
<1>7. CASE Done
    BY <1>7, StutterPreserves DEF Done
<1> QED BY <1>1, <1>2, <1>3, <1>4, <1>5, <1>6, <1>7 DEF Next

\* The invariant holds in every reachable state, for any number of threads, any
\* capacities and any number of calls.
THEOREM Inductive == Spec => []IInv
<1>1. Init => IInv
    BY InitIInv
<1>2. IInv /\ [Next]_vars => IInv'
    BY NextPreserves
<1> QED BY <1>1, <1>2, PTL DEF Spec

\* Every variable keeps its type, and a live array has buffers of its capacity.
THEOREM TypeCorrect == Spec => []TypeOK
<1>1. IInv => TypeOK
    BY DEF IInv
<1> QED BY <1>1, Inductive, PTL

\* A writer only ever writes to slots of the current array, whose buffers are there:
\* the wait for physical_size (radixgraph.cpp:27) is enough to keep every deletion
\* away from the threads that write without the lock.
THEOREM WritersStayOnCurrent == Spec => []WritersOnCurrent
<1>1. IInv => WritersOnCurrent
    BY DEF IInv, SlotsOfWriters, VersionsSane, WritersOnCurrent
<1> QED BY <1>1, Inductive, PTL

\* A version that a reader has pinned is neither purged nor deleted, and threads_read
\* is the number of its readers (radixgraph.cpp:37-46, 136-137, 190-198).
THEOREM PinsAreHeld == Spec => []PinsHold
<1>1. IInv => PinsHold
    BY DEF IInv
<1> QED BY <1>1, Inductive, PTL

\* GetNeighbours reads the edge and timestamp buffers only at indices they have.
THEOREM ReadsStayInBounds == Spec => []ReadsInBounds
<1>1. IInv => ReadsInBounds
    BY DEF IInv
<1> QED BY <1>1, Inductive, PTL

\* No step changes the buffers of a retired version except by deleting them.
LEMMA RetiredFrozenStep ==
    ASSUME IInv, [Next]_vars, NEW v \in Versions, v < cur
    PROVE  buf'[v] \in {buf[v], NoBuffer}
<1>1. /\ DOMAIN buf = Versions /\ cur \in Nat /\ v # cur /\ v # cur + 1
    <2>1. cur \in Nat /\ v \in Nat
        BY CurFacts, ConstantsAssumption DEF ConstantsAssumption, Versions
    <2> QED BY <2>1 DEF IInv, TypeOK
<1>2. CASE UNCHANGED buf
    BY <1>2
<1>3. ASSUME NEW t \in Writers, wr[t].pc \in Writing,
             Stamp(t) \/ WriteIdx(t) \/ WriteWeight(t)
      PROVE  buf'[v] = buf[v]
    <2>1. wr[t].arr = cur
        BY <1>3 DEF IInv, SlotsOfWriters
    <2>2. \E b : buf' = [buf EXCEPT ![wr[t].arr] = b]
        BY <1>3 DEF Stamp, WriteIdx, WriteWeight
    <2> QED BY <1>1, <2>1, <2>2
<1>4. ASSUME NEW t \in Writers, Compact(t)
      PROVE  buf'[v] = buf[v]
    <2>1. \E b : buf' = [buf EXCEPT ![cur + 1] = b]
        BY <1>4 DEF Compact
    <2> QED BY <1>1, <2>1
<1>5. ASSUME NEW t \in Writers, Reclaim(t)
      PROVE  buf'[v] \in {buf[v], NoBuffer}
    <2>1. \/ buf' = buf
          \/ \E o, b : buf' = [buf EXCEPT ![o] = NoBuffer, ![b] = NoBuffer]
          \/ \E o : buf' = [buf EXCEPT ![o] = NoBuffer]
        BY <1>5 DEF Reclaim
    <2> QED BY <1>1, <2>1
<1>6. ASSUME NEW r \in Readers, Unpin(r)
      PROVE  buf'[v] \in {buf[v], NoBuffer}
    <2>1. buf' = buf \/ \E o : buf' = [buf EXCEPT ![o] = NoBuffer]
        BY <1>6 DEF Unpin
    <2> QED BY <1>1, <2>1
<1>7. ASSUME NEW sorted \in BOOLEAN, NEW dense \in BOOLEAN,
             CreateSnapshot(sorted, dense)
      PROVE  buf'[v] = buf[v]
    <2>1. \E b : buf' = [buf EXCEPT ![cur + 1] = b, ![cur] = NoBuffer]
        BY <1>7 DEF CreateSnapshot
    <2> QED BY <1>1, <2>1
<1>8. CASE UNCHANGED vars
    BY <1>2, <1>8 DEF vars
<1>9. ASSUME NEW t \in Writers, Call(t) \/ WriterStep(t)
      PROVE  buf'[v] \in {buf[v], NoBuffer}
    <2>1. CASE \/ Call(t) \/ Reserve(t) \/ UseAfterFree(t) \/ Lock(t) \/ Publish(t)
               \/ Reload(t) \/ Tick(t) \/ Commit(t)
        BY <1>2, <2>1 DEF Call, Reserve, UseAfterFree, Lock, Publish, Reload, Tick, Commit
    <2>2. CASE Stamp(t) \/ WriteIdx(t) \/ WriteWeight(t)
        <3>1. wr[t].pc \in Writing
            BY <2>2 DEF Stamp, WriteIdx, WriteWeight, Writing
        <3> QED BY <1>3, <2>2, <3>1
    <2>3. CASE Compact(t)
        BY <1>4, <2>3
    <2>4. CASE Reclaim(t)
        BY <1>5, <2>4
    <2> QED BY <1>9, <2>1, <2>2, <2>3, <2>4 DEF WriterStep
<1>10. ASSUME NEW r \in Readers, Ask(r) \/ ReaderStep(r)
       PROVE  buf'[v] \in {buf[v], NoBuffer}
    <2>1. CASE Unpin(r)
        BY <1>6, <2>1
    <2>2. CASE \/ Ask(r) \/ LockForRead(r) \/ WalkBack(r) \/ Pin(r) \/ Count(r)
               \/ Scan(r) \/ Read(r)
        BY <1>2, <2>2 DEF Ask, LockForRead, WalkBack, Pin, Count, Scan, Read
    <2> QED BY <1>10, <2>1, <2>2 DEF ReaderStep
<1> QED BY <1>7, <1>8, <1>9, <1>10 DEF Next, Done

\* A retired version is immutable until its buffers are deleted.
THEOREM RetiredVersionsFrozen == Spec => RetiredFrozen
<1>1. IInv /\ [Next]_vars =>
        [\A v \in Versions : v < cur => buf'[v] \in {buf[v], NoBuffer}]_vars
    BY RetiredFrozenStep
<1> QED BY <1>1, Inductive, PTL DEF Spec, RetiredFrozen
-----------------------------------------------------------------------------
\* The snapshot of the current array is settled: no step that leaves the array
\* current changes snapshot_deg.
LEMMA SnapDegKept ==
    ASSUME IInv, [Next]_vars, cur' = cur
    PROVE  arr'[cur].snapDeg = arr[cur].snapDeg
<1>1. /\ TypeOK /\ cur \in Versions /\ cur \in Nat
      /\ \A v \in 0 .. cur : v \in Versions
      /\ arr \in [Versions -> Headers] /\ cur # cur + 1
    BY CurFacts DEF IInv, TypeOK
<1>2. \A v \in Versions : arr[v] \in Headers
    BY <1>1
<1>3. CASE UNCHANGED arr
    BY <1>3
<1>4. ASSUME NEW t \in Writers, NEW v \in Versions, TakeSlot(t, v)
      PROVE  arr'[cur].snapDeg = arr[cur].snapDeg
    <2>1. /\ arr'[v] = [arr[v] EXCEPT !.size = arr[v].size + 1]
          /\ \A u \in Versions : u # v => arr'[u] = arr[u]
        BY <1>1, <1>4, TakeSlotFields
    <2> QED BY <1>1, <1>2, <2>1 DEF Headers
<1>5. ASSUME NEW t \in Writers, Stamp(t) \/ Commit(t)
      PROVE  arr'[cur].snapDeg = arr[cur].snapDeg
    <2>1. wr[t].arr = cur
        BY <1>5 DEF Stamp, Commit, Writing, IInv, SlotsOfWriters
    <2>2. \/ \E n : arr' = [arr EXCEPT ![cur] = [arr[cur] EXCEPT !.deg = n]]
          \/ \E n : arr' = [arr EXCEPT ![cur] = [arr[cur] EXCEPT !.phys = n]]
        BY <1>5, <2>1 DEF Stamp, Commit
    <2> QED BY <1>1, <1>2, <2>2 DEF Headers
<1>6. ASSUME NEW t \in Writers, Compact(t)
      PROVE  arr'[cur].snapDeg = arr[cur].snapDeg
    <2>1. \E h : arr' = [arr EXCEPT ![cur + 1] = h, ![cur].next = cur + 1]
        BY <1>6 DEF Compact
    <2>2. PICK h : arr' = [arr EXCEPT ![cur + 1] = h, ![cur].next = cur + 1]
        BY <2>1
    <2>3. arr'[cur] = [arr[cur] EXCEPT !.next = cur + 1]
        BY <1>1, <2>2
    <2> QED BY <1>1, <1>2, <2>3 DEF Headers
<1>7. ASSUME NEW t \in Writers, Reclaim(t)
      PROVE  arr'[cur].snapDeg = arr[cur].snapDeg
    <2> DEFINE old == wr[t].arr
               before == arr[old].prev
               purged == [arr EXCEPT ![old].mem = "shell"]
    <2>1. old \in Versions
        BY <1>1, <1>7 DEF Reclaim, IInv, PointersInChain
    <2>2. purged = [arr EXCEPT ![old] = [arr[old] EXCEPT !.mem = "shell"]]
        OBVIOUS
    <2>3. [arr[old] EXCEPT !.mem = "shell"] \in Headers
        BY <1>2, <2>1 DEF Headers
    <2>4. purged \in [Versions -> Headers]
        BY <1>1, <2>1, <2>2, <2>3
    <2>5. purged[cur].snapDeg = arr[cur].snapDeg
        BY <1>1, <1>2, <2>1, <2>2 DEF Headers
    <2>6. before \in Versions \cup {NoVersion}
        BY <1>1, <2>1, HeaderFields
    <2>7. \/ arr' = arr \/ arr' = purged
          \/ before # NoVersion /\ arr' = Delete(purged, before, cur)
        BY <1>7 DEF Reclaim
    <2> HIDE DEF before, purged
    <2>8. ASSUME before # NoVersion, arr' = Delete(purged, before, cur)
          PROVE  arr'[cur].snapDeg = purged[cur].snapDeg
        BY <1>1, <2>4, <2>6, <2>8, DeleteFields
    <2> QED BY <2>5, <2>7, <2>8
<1>8. ASSUME NEW r \in Readers, Pin(r)
      PROVE  arr'[cur].snapDeg = arr[cur].snapDeg
    <2>1. \E n : arr' = [arr EXCEPT ![rd[r].arr].reads = n]
        BY <1>8 DEF Pin
    <2>2. PICK n : arr' = [arr EXCEPT ![rd[r].arr].reads = n]
        BY <2>1
    <2> QED BY <1>1, <1>2, <2>2 DEF Headers
<1>9. ASSUME NEW r \in Readers, Unpin(r)
      PROVE  arr'[cur].snapDeg = arr[cur].snapDeg
    <2> DEFINE p == rd[r].arr
               left == [arr EXCEPT ![p].reads = @ - 1]
    <2>1. p \in Versions /\ r \in Pinned(p)
        BY <1>1, <1>9 DEF Unpin, IInv, PointersInChain, Pinning, Pinned
    <2>2. left = [arr EXCEPT ![p] = [arr[p] EXCEPT !.reads = arr[p].reads - 1]]
        OBVIOUS
    <2>3. arr[p].reads - 1 \in Nat
        <3>1. Pinned(p) \subseteq Readers
            BY DEF Pinned
        <3>2. IsFiniteSet(Pinned(p)) /\ Cardinality(Pinned(p)) \in Nat
            BY <3>1, FiniteThreads, FS_Subset, FS_CardinalityType
        <3>3. Cardinality(Pinned(p)) # 0
            BY <2>1, <3>2, FS_EmptySet
        <3>4. arr[p].reads = Cardinality(Pinned(p))
            BY <2>1 DEF IInv, PinsHold
        <3> QED BY <3>2, <3>3, <3>4
    <2>4. [arr[p] EXCEPT !.reads = arr[p].reads - 1] \in Headers
        BY <1>2, <2>1, <2>3 DEF Headers
    <2>5. left \in [Versions -> Headers]
        BY <1>1, <2>1, <2>2, <2>4
    <2>6. left[cur].snapDeg = arr[cur].snapDeg
        BY <1>1, <1>2, <2>1, <2>2 DEF Headers
    <2>7. arr' = left \/ arr' = Delete(left, p, cur)
        BY <1>9 DEF Unpin
    <2> HIDE DEF p, left
    <2>8. ASSUME arr' = Delete(left, p, cur)
          PROVE  arr'[cur].snapDeg = left[cur].snapDeg
        BY <1>1, <2>1, <2>5, <2>8, DeleteFields
    <2> QED BY <2>6, <2>7, <2>8
<1>10. ASSUME NEW t \in Writers, Reserve(t) \/ Reload(t)
       PROVE  arr'[cur].snapDeg = arr[cur].snapDeg
    <2>1. wr[t].arr \in Versions /\ \E v \in Versions : TakeSlot(t, v)
        <3>1. wr[t].arr \in Versions
            BY <1>1, <1>10 DEF Reserve, Reload, IInv, PointersInChain
        <3> QED BY <1>1, <1>10, <3>1 DEF Reserve, Reload
    <2> QED BY <1>4, <2>1
<1>11. ASSUME NEW t \in Writers, Call(t) \/ WriterStep(t)
       PROVE  arr'[cur].snapDeg = arr[cur].snapDeg
    <2>1. CASE \/ Call(t) \/ UseAfterFree(t) \/ Lock(t) \/ Publish(t) \/ Tick(t)
               \/ WriteIdx(t) \/ WriteWeight(t)
        BY <1>3, <2>1
           DEF Call, UseAfterFree, Lock, Publish, Tick, WriteIdx, WriteWeight
    <2> QED BY <1>5, <1>6, <1>7, <1>10, <1>11, <2>1 DEF WriterStep
<1>12. ASSUME NEW r \in Readers, Ask(r) \/ ReaderStep(r)
       PROVE  arr'[cur].snapDeg = arr[cur].snapDeg
    <2>1. CASE \/ Ask(r) \/ LockForRead(r) \/ WalkBack(r) \/ Count(r) \/ Scan(r)
               \/ Read(r)
        BY <1>3, <2>1 DEF Ask, LockForRead, WalkBack, Count, Scan, Read
    <2> QED BY <1>8, <1>9, <1>12, <2>1 DEF ReaderStep
<1>13. ASSUME NEW sorted \in BOOLEAN, NEW dense \in BOOLEAN,
              CreateSnapshot(sorted, dense)
       PROVE  FALSE
    BY <1>1, <1>13 DEF CreateSnapshot
<1>14. CASE UNCHANGED vars
    BY <1>3, <1>14 DEF vars
<1> QED BY <1>11, <1>12, <1>13, <1>14 DEF Next, Done

\* A writer that owns a slot after a step owned it before, or has just taken the
\* next slot of the current array.
LEMMA OwnedSlotStep ==
    ASSUME IInv, IInv', [Next]_vars, NEW t \in Writers,
           wr'[t].pc \in Writing
    PROVE  /\ cur' = cur
           /\ \/ wr[t].pc \in Writing /\ wr'[t].slot = wr[t].slot
              \/ wr'[t].slot = arr[cur].size
<1>1. TypeOK /\ cur \in Versions /\ cur \in Nat /\ cur # cur + 1
    BY CurFacts DEF IInv
<1>2. wr'[t].arr = cur'
    BY DEF IInv, SlotsOfWriters
<1>3. wr[t].pc \in Writing => wr[t].arr = cur
    BY DEF IInv, SlotsOfWriters
<1>4. CASE wr'[t] = wr[t]
    <2>1. cur' = cur
        BY <1>2, <1>3, <1>4
    <2> QED BY <1>4, <2>1
<1>5. ASSUME NEW u \in Writers, Call(u) \/ WriterStep(u), u # t
      PROVE  wr'[t] = wr[t]
    <2>1. wr \in [Writers -> WriterStates]
        BY <1>1 DEF TypeOK
    <2>2. \E s : wr' = [wr EXCEPT ![u] = s]
        BY <1>5 DEF Call, WriterStep, Reserve, UseAfterFree, Lock, Compact, Publish,
           Reclaim, Reload, Tick, Stamp, WriteIdx, WriteWeight, Commit, SetWriter,
           TakeSlot
    <2> QED BY <1>5, <2>1, <2>2
<1>6. ASSUME Call(t) \/ WriterStep(t)
      PROVE  /\ cur' = cur
             /\ \/ wr[t].pc \in Writing /\ wr'[t].slot = wr[t].slot
                \/ wr'[t].slot = arr[cur].size
    <2>1. wr \in [Writers -> WriterStates] /\ wr[t] \in WriterStates
        BY <1>1 DEF TypeOK
    <2>2. CASE Reserve(t) \/ Reload(t)
        <3>1. wr[t].arr \in Versions
            BY <2>2, CurFacts DEF Reserve, Reload, IInv, PointersInChain
        <3>2. \E v \in Versions : TakeSlot(t, v)
            BY <1>1, <2>2, <3>1 DEF Reserve, Reload
        <3>3. PICK v \in Versions : TakeSlot(t, v)
            BY <3>2
        <3>4. wr'[t].arr = v /\ wr'[t].slot = arr[v].size
            BY <1>1, <3>3, TakeSlotFields
        <3>5. cur' = cur
            BY <2>2 DEF Reserve, Reload
        <3> QED BY <1>2, <3>4, <3>5
    <2>3. CASE Tick(t)
        <3>1. /\ wr[t].pc = "tick" /\ cur' = cur
              /\ wr' = [wr EXCEPT ![t] = [wr[t] EXCEPT !.pc = "stamp", !.stamp = clock]]
            BY <2>3 DEF Tick
        <3> QED BY <2>1, <3>1 DEF Writing, WriterStates
    <2>4. CASE Stamp(t) \/ WriteIdx(t) \/ WriteWeight(t)
        <3>1. /\ wr[t].pc \in Writing /\ cur' = cur
              /\ \E p : wr' = [wr EXCEPT ![t] = [wr[t] EXCEPT !.pc = p]]
            BY <2>4 DEF Stamp, WriteIdx, WriteWeight, SetWriter, Writing
        <3> QED BY <2>1, <3>1 DEF WriterStates
    <2>5. CASE \/ Call(t) \/ UseAfterFree(t) \/ Lock(t) \/ Compact(t) \/ Publish(t)
               \/ Reclaim(t) \/ Commit(t)
        <3>1. CASE Call(t)
            <4>1. \E c, d : wr' = [wr EXCEPT ![t] = [IdleWriter EXCEPT !.pc = "reserve",
                                                      !.arr = c, !.call = d]]
                BY <3>1 DEF Call
            <4>2. PICK c, d : wr' = [wr EXCEPT ![t] = [IdleWriter EXCEPT !.pc = "reserve",
                                                      !.arr = c, !.call = d]]
                BY <4>1
            <4>3. wr'[t].pc = "reserve"
                BY <2>1, <4>2 DEF IdleWriter
            <4> QED BY <4>3 DEF Writing
        <3>2. CASE Commit(t)
            <4>1. wr'[t] = IdleWriter
                BY <2>1, <3>2 DEF Commit
            <4> QED BY <4>1 DEF Writing, IdleWriter
        <3>3. CASE Lock(t)
            <4>1. wr'[t].pc \in {"wait", "reload"}
                BY <2>1, <3>3 DEF Lock, SetWriter, WriterStates
            <4> QED BY <4>1 DEF Writing
        <3>4. CASE UseAfterFree(t) \/ Compact(t) \/ Publish(t) \/ Reclaim(t)
            <4>1. \/ SetWriter(t, "fault") \/ SetWriter(t, "publish")
                  \/ SetWriter(t, "reclaim") \/ SetWriter(t, "reload")
                BY <3>4 DEF UseAfterFree, Compact, Publish, Reclaim
            <4>2. wr'[t].pc \in {"fault", "publish", "reclaim", "reload"}
                BY <2>1, <4>1 DEF SetWriter, WriterStates
            <4> QED BY <4>2 DEF Writing
        <3> QED BY <2>5, <3>1, <3>2, <3>3, <3>4
    <2> QED BY <1>6, <2>2, <2>3, <2>4, <2>5 DEF WriterStep
<1>7. CASE \E r \in Readers : Ask(r) \/ ReaderStep(r)
    <2>1. wr' = wr
        BY <1>7 DEF Ask, ReaderStep, LockForRead, WalkBack, Pin, Count, Scan, Read, Unpin
    <2> QED BY <1>4, <2>1
<1>8. CASE \E sorted, dense \in BOOLEAN : CreateSnapshot(sorted, dense)
    <2>1. wr' = wr
        BY <1>8 DEF CreateSnapshot
    <2> QED BY <1>4, <2>1
<1>9. CASE UNCHANGED vars
    BY <1>4, <1>9 DEF vars
<1> QED BY <1>4, <1>5, <1>6, <1>7, <1>8, <1>9 DEF Next, Done

\* The slot counter of the current array is never below its snapshot.
LEMMA SizeAboveSnapshot ==
    ASSUME IInv
    PROVE  arr[cur].snapDeg <= arr[cur].size
<1>1. /\ arr[cur].size \in Nat /\ arr[cur].cap \in Nat /\ arr[cur].phys \in Nat
      /\ arr[cur].snapDeg \in Nat /\ arr[cur].snapDeg <= arr[cur].phys
    BY CurFacts, HeaderFields DEF IInv, VersionsSane
<1>2. Cardinality(Holding(cur)) \in Nat
    BY HoldingFinite
<1>3. arr[cur].phys + Cardinality(Holding(cur)) =
          IF arr[cur].size < arr[cur].cap THEN arr[cur].size ELSE arr[cur].cap
    BY DEF IInv, SlotsAccounted
<1> HIDE DEF Holding
<1> QED BY <1>1, <1>2, <1>3

\* No slot has two owners, and the snapshot that readers copy has none: a slot
\* number is handed out once, whatever compactions happen in between
\* (radixgraph.cpp:23 and 49).
THEOREM SlotsHaveOneOwner == Spec => []SlotsNotShared
<1>1. Init => SlotsNotShared
    BY DEF Init, SlotsNotShared, Holding, Writing, IdleWriter
<1>2. ASSUME IInv, IInv', SlotsNotShared, [Next]_vars
      PROVE  SlotsNotShared'
    <2>1. \A t, u \in Holding(cur)' : wr'[t].slot = wr'[u].slot => t = u
        BY <1>2 DEF IInv, SlotsOfWriters
    <2>2. ASSUME NEW t \in Writers, wr'[t].pc \in Writing
          PROVE  wr'[t].slot >= arr'[cur'].snapDeg
        <3>1. /\ cur' = cur
              /\ \/ wr[t].pc \in Writing /\ wr'[t].slot = wr[t].slot
                 \/ wr'[t].slot = arr[cur].size
            BY <1>2, <2>2, OwnedSlotStep
        <3>2. arr'[cur].snapDeg = arr[cur].snapDeg
            BY <1>2, <3>1, SnapDegKept
        <3>3. arr[cur].snapDeg <= arr[cur].size
            BY <1>2, SizeAboveSnapshot
        <3>4. arr[cur].snapDeg \in Nat /\ arr[cur].size \in Nat
            BY <1>2, CurFacts, HeaderFields DEF IInv
        <3>5. CASE wr'[t].slot = arr[cur].size
            BY <3>1, <3>2, <3>3, <3>4, <3>5
        <3>6. CASE wr[t].pc \in Writing /\ wr'[t].slot = wr[t].slot
            <4>1. t \in Holding(cur)
                BY <1>2, <3>6 DEF Holding, IInv, SlotsOfWriters
            <4> QED BY <1>2, <3>1, <3>2, <3>6, <4>1 DEF SlotsNotShared
        <3> QED BY <3>1, <3>5, <3>6
    <2> QED BY <2>1, <2>2 DEF SlotsNotShared, Holding
<1>3. IInv /\ IInv' /\ SlotsNotShared /\ UNCHANGED vars => SlotsNotShared'
    BY <1>2
<1> QED BY <1>1, <1>2, Inductive, PTL DEF Spec
-----------------------------------------------------------------------------
\* What RetiredBuffersReclaimed says whoever holds the lock: a retired array with
\* buffers is read, or is the one that an expander is about to take apart.
RetiredRead ==
    \A v \in Versions : v < cur /\ arr[v].mem = "live" =>
        \/ arr[v].reads > 0
        \/ \E t \in Writers : wr[t].pc = "reclaim" /\ wr[t].arr = v

\* A step that keeps, for every retired array, its allocation, its readers and
\* its expander keeps RetiredRead.
LEMMA RetiredReadFrame ==
    ASSUME RetiredRead, cur' = cur,
           \A v \in Versions : v < cur =>
              arr'[v].mem = arr[v].mem /\ arr'[v].reads = arr[v].reads,
           \A t \in Writers : wr[t].pc = "reclaim" =>
              wr'[t].pc = "reclaim" /\ wr'[t].arr = wr[t].arr
    PROVE  RetiredRead'
BY DEF RetiredRead

\* A writer at any other step than the four below changes neither the allocation
\* nor the readers of an array, and no writer leaves Reclaim.
LEMMA RetiredReadWriter ==
    ASSUME IInv, RetiredRead, NEW t \in Writers,
           \/ Call(t) \/ Reserve(t) \/ UseAfterFree(t) \/ Lock(t) \/ Compact(t)
           \/ Reload(t) \/ Tick(t) \/ Stamp(t) \/ WriteIdx(t) \/ WriteWeight(t)
           \/ Commit(t)
    PROVE  RetiredRead'
<1>1. /\ TypeOK /\ cur \in Versions /\ cur \in Nat
      /\ \A v \in 0 .. cur : v \in Versions
      /\ arr \in [Versions -> Headers] /\ wr \in [Writers -> WriterStates]
    BY CurFacts DEF IInv, TypeOK
<1>2. \A v \in Versions : arr[v] \in Headers /\ v \in Int
    BY <1>1, ConstantsAssumption DEF Versions, ConstantsAssumption
<1>3. cur' = cur /\ wr[t].pc # "reclaim"
    BY DEF Call, Reserve, UseAfterFree, Lock, Compact, Reload, Tick, Stamp, WriteIdx,
       WriteWeight, Commit
<1>4. \A u \in Writers : u # t => wr'[u] = wr[u]
    <2>1. \E s : wr' = [wr EXCEPT ![t] = s]
        BY DEF Call, Reserve, UseAfterFree, Lock, Compact, Reload, Tick, Stamp,
           WriteIdx, WriteWeight, Commit, SetWriter, TakeSlot
    <2> QED BY <1>1, <2>1
<1>5. \A v \in Versions : v < cur =>
          arr'[v].mem = arr[v].mem /\ arr'[v].reads = arr[v].reads
    <2>1. CASE UNCHANGED arr
        BY <2>1
    <2>2. ASSUME Reserve(t) \/ Reload(t)
          PROVE  \E w \in Versions : TakeSlot(t, w)
        <3>1. wr[t].arr \in Versions
            BY <1>1, <2>2 DEF Reserve, Reload, IInv, PointersInChain
        <3> QED BY <1>1, <2>2, <3>1 DEF Reserve, Reload
    <2>3. CASE Reserve(t) \/ Reload(t)
        <3>1. PICK w \in Versions : TakeSlot(t, w)
            BY <2>2, <2>3
        <3>2. /\ arr'[w] = [arr[w] EXCEPT !.size = arr[w].size + 1]
              /\ \A u \in Versions : u # w => arr'[u] = arr[u]
            BY <1>1, <3>1, TakeSlotFields
        <3> QED BY <1>2, <3>2 DEF Headers
    <2>4. CASE Stamp(t) \/ Commit(t)
        <3>1. wr[t].arr = cur
            BY <2>4 DEF Stamp, Commit, Writing, IInv, SlotsOfWriters
        <3>2. \E h : arr' = [arr EXCEPT ![cur] = h]
            BY <2>4, <3>1 DEF Stamp, Commit
        <3> QED BY <1>1, <1>2, <3>2
    <2>5. CASE Compact(t)
        <3>1. \E h, n : arr' = [arr EXCEPT ![cur + 1] = h, ![cur].next = n]
            BY <2>5 DEF Compact
        <3> QED BY <1>1, <1>2, <3>1
    <2>6. CASE \/ Call(t) \/ UseAfterFree(t) \/ Lock(t) \/ Tick(t) \/ WriteIdx(t)
               \/ WriteWeight(t)
        BY <2>1, <2>6 DEF Call, UseAfterFree, Lock, Tick, WriteIdx, WriteWeight
    <2> QED BY <2>3, <2>4, <2>5, <2>6
<1> QED BY <1>3, <1>4, <1>5, RetiredReadFrame

\* Publishing retires the current array, and its expander stands at Reclaim.
LEMMA RetiredReadPublish ==
    ASSUME IInv, RetiredRead, NEW t \in Writers, Publish(t)
    PROVE  RetiredRead'
<1>1. TypeOK /\ cur \in Nat
    BY CurFacts DEF IInv
<1>2. wr[t].pc = "publish" /\ wr[t].arr = cur /\ cur' = cur + 1 /\ arr' = arr
    BY DEF Publish, IInv, PointersInChain
<1>3. "reclaim" \in WriterPcs
    BY DEF WriterPcs
<1>4. /\ wr'[t].pc = "reclaim" /\ wr'[t].arr = cur
      /\ \A u \in Writers : u # t => wr'[u] = wr[u]
    BY <1>1, <1>2, <1>3, SetWriterFields DEF Publish
<1>5. SUFFICES ASSUME NEW v \in Versions, v < cur + 1, arr[v].mem = "live"
               PROVE  \/ arr[v].reads > 0
                      \/ \E u \in Writers : wr'[u].pc = "reclaim" /\ wr'[u].arr = v
    BY <1>2 DEF RetiredRead
<1>6. v \in Int
    BY ConstantsAssumption DEF Versions, ConstantsAssumption
<1>7. CASE v = cur
    BY <1>4, <1>7
<1>8. CASE v < cur
    BY <1>2, <1>4, <1>5, <1>8 DEF RetiredRead
<1> QED BY <1>1, <1>5, <1>6, <1>7, <1>8

\* Reclaim leaves the retired array to its readers or purges it.
LEMMA RetiredReadReclaim ==
    ASSUME IInv, RetiredRead, NEW t \in Writers, Reclaim(t)
    PROVE  RetiredRead'
<1> DEFINE old == wr[t].arr
           before == arr[old].prev
           shell == [arr[old] EXCEPT !.mem = "shell"]
           purged == [arr EXCEPT ![old].mem = "shell"]
<1>1. /\ TypeOK /\ cur \in Nat /\ arr \in [Versions -> Headers]
      /\ \A v \in 0 .. cur : v \in Versions
    BY CurFacts DEF IInv, TypeOK
<1>2. \A v \in Versions : arr[v] \in Headers /\ arr[v].reads \in Nat
    BY <1>1, HeaderFields
<1>3. old \in Versions /\ wr[t].pc = "reclaim" /\ cur' = cur /\ mtx = t
    BY <1>1 DEF Reclaim, IInv, PointersInChain, LockHeldInside, WriterInside
<1>4. \A u \in Writers : u # t => wr[u].pc # "reclaim"
    BY <1>3 DEF IInv, LockHeldInside, WriterInside
<1>5. purged = [arr EXCEPT ![old] = shell]
    OBVIOUS
<1>6. shell \in Headers /\ shell.mem = "shell" /\ shell.reads = arr[old].reads
    BY <1>2, <1>3 DEF Headers
<1> HIDE DEF shell
<1>7. /\ purged \in [Versions -> Headers] /\ purged[old].mem = "shell"
      /\ \A v \in Versions : /\ purged[v].reads = arr[v].reads
                             /\ v # old => purged[v].mem = arr[v].mem
    BY <1>1, <1>3, <1>5, <1>6
<1>8. before \in Versions \cup {NoVersion}
    BY <1>1, <1>3, HeaderFields
<1>9. \/ arr[old].reads # 0 /\ arr' = arr
      \/ arr' = purged
      \/ before # NoVersion /\ arr' = Delete(purged, before, cur)
    BY DEF Reclaim
<1> HIDE DEF purged, before
<1>10. \/ arr[old].reads # 0 /\ arr' = arr
       \/ \A v \in Versions :
             /\ arr'[v].reads = arr[v].reads
             /\ arr'[v].mem \in {purged[v].mem, "freed"}
    <2>1. ASSUME before # NoVersion, arr' = Delete(purged, before, cur)
          PROVE  \A v \in Versions :
                    /\ arr'[v].reads = arr[v].reads
                    /\ arr'[v].mem \in {purged[v].mem, "freed"}
        <3> DEFINE d == Delete(purged, before, cur)
        <3>1. before \in Versions
            BY <1>8, <2>1
        <3>2. /\ d[before].mem = "freed"
              /\ \A v \in Versions : /\ d[v].reads = purged[v].reads
                                     /\ v # before => d[v].mem = purged[v].mem
            BY <1>1, <1>7, <3>1, DeleteFields
        <3> QED BY <1>7, <2>1, <3>2
    <2> QED BY <1>7, <1>9, <2>1
<1>11. ASSUME NEW v \in Versions, v < cur, arr'[v].mem = "live"
       PROVE  arr'[v].reads > 0
    <2>1. CASE v = old
        BY <1>2, <1>3, <1>7, <1>10, <1>11, <2>1
    <2>2. CASE v # old
        <3>1. arr[v].mem = "live" /\ arr'[v].reads = arr[v].reads
            BY <1>7, <1>10, <1>11, <2>2
        <3> QED BY <1>4, <1>11, <2>2, <3>1 DEF RetiredRead
    <2> QED BY <2>1, <2>2
<1> QED BY <1>3, <1>11 DEF RetiredRead

\* Taking a pin adds a reader; dropping the last one deletes a retired array.
LEMMA RetiredReadReader ==
    ASSUME IInv, RetiredRead, NEW r \in Readers, Ask(r) \/ ReaderStep(r)
    PROVE  RetiredRead'
<1>1. /\ TypeOK /\ cur \in Nat /\ arr \in [Versions -> Headers]
      /\ \A v \in 0 .. cur : v \in Versions
    BY CurFacts DEF IInv, TypeOK
<1>2. \A v \in Versions : arr[v] \in Headers /\ arr[v].reads \in Nat
    BY <1>1, HeaderFields
<1>3. cur' = cur /\ wr' = wr
    BY DEF Ask, ReaderStep, LockForRead, WalkBack, Pin, Count, Scan, Read, Unpin
<1>4. CASE Pin(r)
    <2>1. arr' = [arr EXCEPT ![rd[r].arr] = [arr[rd[r].arr] EXCEPT
                                                !.reads = arr[rd[r].arr].reads + 1]]
        BY <1>4 DEF Pin
    <2>2. \A v \in Versions :
              /\ arr'[v].mem = arr[v].mem
              /\ arr'[v].reads = arr[v].reads \/ arr'[v].reads = arr[v].reads + 1
        BY <1>1, <1>2, <2>1 DEF Headers
    <2> QED BY <1>2, <1>3, <2>2 DEF RetiredRead
<1>5. CASE Unpin(r)
    <2> DEFINE p == rd[r].arr
               h == [arr[p] EXCEPT !.reads = arr[p].reads - 1]
               left == [arr EXCEPT ![p].reads = @ - 1]
    <2>1. p \in Versions /\ r \in Pinned(p)
        BY <1>1, <1>5 DEF Unpin, IInv, PointersInChain, Pinning, Pinned
    <2>2. arr[p].reads \in Nat /\ arr[p].reads # 0
        <3>1. Pinned(p) \subseteq Readers
            BY DEF Pinned
        <3>2. IsFiniteSet(Pinned(p))
            BY <3>1, FiniteThreads, FS_Subset
        <3>3. Cardinality(Pinned(p)) # 0
            BY <2>1, <3>2, FS_EmptySet
        <3> QED BY <1>2, <2>1, <3>3 DEF IInv, PinsHold
    <2>3. left = [arr EXCEPT ![p] = h]
        OBVIOUS
    <2>4. h \in Headers /\ h.reads = arr[p].reads - 1 /\ h.mem = arr[p].mem
        BY <1>2, <2>1, <2>2 DEF Headers
    <2>5. mtx = NoThread
        BY <1>5 DEF Unpin
    <2>6. \A t \in Writers : wr[t].pc # "reclaim"
        BY <2>5, FiniteThreads DEF IInv, LockHeldInside, WriterInside
    <2> HIDE DEF h
    <2>7. /\ left \in [Versions -> Headers] /\ left[p].reads = arr[p].reads - 1
          /\ \A v \in Versions : /\ left[v].mem = arr[v].mem
                                 /\ v # p => left[v].reads = arr[v].reads
        BY <1>1, <2>1, <2>3, <2>4
    <2>8. \/ arr' = left /\ (arr[p].reads # 1 \/ p = cur)
          \/ arr' = Delete(left, p, cur)
        BY <1>5 DEF Unpin, LastReader
    <2> HIDE DEF left
    <2>9. \/ arr' = left /\ (arr[p].reads # 1 \/ p = cur)
          \/ /\ arr'[p].mem = "freed"
             /\ \A v \in Versions : /\ arr'[v].reads = left[v].reads
                                    /\ v # p => arr'[v].mem = left[v].mem
        BY <1>1, <2>1, <2>7, <2>8, DeleteFields
    <2>10. ASSUME NEW v \in Versions, v < cur, arr'[v].mem = "live"
           PROVE  arr'[v].reads > 0
        <3>1. CASE v = p
            <4>1. arr' = left /\ arr[p].reads # 1
                BY <1>1, <2>9, <2>10, <3>1
            <4>2. arr'[v].reads = arr[p].reads - 1
                BY <2>7, <3>1, <4>1
            <4> HIDE DEF p
            <4> QED BY <2>2, <4>1, <4>2
        <3>2. CASE v # p
            <4>1. arr[v].mem = "live" /\ arr'[v].reads = arr[v].reads
                BY <2>7, <2>9, <2>10, <3>2
            <4> QED BY <2>6, <2>10, <4>1 DEF RetiredRead
        <3> QED BY <3>1, <3>2
    <2> QED BY <1>3, <2>10 DEF RetiredRead
<1>6. CASE \/ Ask(r) \/ LockForRead(r) \/ WalkBack(r) \/ Count(r) \/ Scan(r) \/ Read(r)
    <2>1. arr' = arr
        BY <1>6 DEF Ask, LockForRead, WalkBack, Count, Scan, Read
    <2> QED BY <1>3, <2>1 DEF RetiredRead
<1> QED BY <1>4, <1>5, <1>6 DEF ReaderStep

\* CreateSnapshots deletes the array it retires.
LEMMA RetiredReadSnapshot ==
    ASSUME IInv, RetiredRead, NEW sorted \in BOOLEAN, NEW dense \in BOOLEAN,
           CreateSnapshot(sorted, dense)
    PROVE  RetiredRead'
<1>1. cur \in Nat /\ \A v \in Versions : v \in Int
    BY CurFacts, ConstantsAssumption DEF Versions, ConstantsAssumption
<1>2. cur' = cur + 1 /\ wr' = wr
    BY DEF CreateSnapshot
<1>3. \E a : arr' = Delete(a, cur, cur + 1) /\ \E h, n :
          a = [arr EXCEPT ![cur + 1] = h, ![cur].next = n]
    BY DEF CreateSnapshot
<1>4. PICK a : arr' = Delete(a, cur, cur + 1) /\ \E h, n :
          a = [arr EXCEPT ![cur + 1] = h, ![cur].next = n]
    BY <1>3
<1>5. PICK h, n : a = [arr EXCEPT ![cur + 1] = h, ![cur].next = n]
    BY <1>4
<1>6. /\ cur \in Versions /\ arr \in [Versions -> Headers]
      /\ \A v \in Versions : arr[v] \in Headers
    BY CurFacts DEF IInv, TypeOK
<1>7. \A v \in Versions : v < cur => a[v] = arr[v]
    BY <1>1, <1>5, <1>6
<1>8. \A v \in Versions :
          arr'[v] = IF v = cur THEN [a[cur] EXCEPT !.mem = "freed", !.freedAt = cur + 1]
                    ELSE IF v = a[cur].next THEN [a[v] EXCEPT !.prev = a[cur].prev]
                    ELSE IF v = a[cur].prev THEN [a[v] EXCEPT !.next = a[cur].next]
                    ELSE a[v]
    BY <1>4 DEF Delete
<1>9. \A v \in Versions : v < cur =>
          arr'[v].mem = arr[v].mem /\ arr'[v].reads = arr[v].reads
    <2> TAKE v \in Versions
    <2> HAVE v < cur
    <2>1. a[v] = arr[v] /\ arr[v] \in Headers /\ v # cur
        BY <1>1, <1>6, <1>7
    <2>2. \/ arr'[v] = [arr[v] EXCEPT !.prev = a[cur].prev]
          \/ arr'[v] = [arr[v] EXCEPT !.next = a[cur].next]
          \/ arr'[v] = arr[v]
        BY <1>8, <2>1
    <2> QED BY <2>1, <2>2 DEF Headers
<1>10. arr'[cur].mem # "live"
    <2>1. arr'[cur] = [a[cur] EXCEPT !.mem = "freed", !.freedAt = cur + 1]
        BY <1>6, <1>8
    <2>2. a[cur] = [arr[cur] EXCEPT !.next = n]
        BY <1>1, <1>5, <1>6
    <2> QED BY <1>6, <2>1, <2>2 DEF Headers
<1>11. ASSUME NEW v \in Versions, v < cur + 1, arr'[v].mem = "live"
       PROVE  \/ arr'[v].reads > 0
              \/ \E t \in Writers : wr[t].pc = "reclaim" /\ wr[t].arr = v
    <2>1. v < cur
        BY <1>1, <1>10, <1>11
    <2> QED BY <1>9, <1>11, <2>1 DEF RetiredRead
<1> QED BY <1>2, <1>11 DEF RetiredRead

\* When the lock is free no retired array keeps its buffers without a reader: the
\* purge of radixgraph.cpp:37-39 and the delete of line 196 together miss none.
THEOREM RetiredBuffersAreReclaimed == Spec => []RetiredBuffersReclaimed
<1>1. Init => RetiredRead
    BY ConstantsAssumption DEF Init, RetiredRead, Versions, ConstantsAssumption
<1>2. ASSUME IInv, RetiredRead, [Next]_vars
      PROVE  RetiredRead'
    <2>1. ASSUME NEW t \in Writers, Call(t) \/ WriterStep(t)
          PROVE  RetiredRead'
        BY <1>2, <2>1, RetiredReadWriter, RetiredReadPublish, RetiredReadReclaim
           DEF WriterStep
    <2>2. ASSUME NEW r \in Readers, Ask(r) \/ ReaderStep(r)
          PROVE  RetiredRead'
        BY <1>2, <2>2, RetiredReadReader
    <2>3. ASSUME NEW sorted \in BOOLEAN, NEW dense \in BOOLEAN,
                 CreateSnapshot(sorted, dense)
          PROVE  RetiredRead'
        BY <1>2, <2>3, RetiredReadSnapshot
    <2>4. CASE UNCHANGED vars
        BY <1>2, <2>4 DEF vars, RetiredRead
    <2> QED BY <1>2, <2>1, <2>2, <2>3, <2>4 DEF Next, Done
<1>3. IInv /\ RetiredRead => RetiredBuffersReclaimed
    <2> SUFFICES ASSUME IInv, RetiredRead, mtx = NoThread, NEW v \in Versions,
                        v < cur, arr[v].mem = "live"
                 PROVE  arr[v].reads > 0
        BY DEF RetiredBuffersReclaimed
    <2>1. \A t \in Writers : wr[t].pc # "reclaim"
        BY FiniteThreads DEF IInv, LockHeldInside, WriterInside
    <2> QED BY <2>1 DEF RetiredRead
<1> QED BY <1>1, <1>2, <1>3, Inductive, PTL DEF Spec
=============================================================================
