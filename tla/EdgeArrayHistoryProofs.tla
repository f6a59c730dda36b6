----------------------- MODULE EdgeArrayHistoryProofs -----------------------
(***************************************************************************)
(* Proofs about the versions of an edge array, for every value of the      *)
(* constants: the chain of prev_arr and next_arr lists exactly what is     *)
(* allocated (ChainExact), timestamps tell the versions apart              *)
(* (VersionsPartitionTime), and physical_size promises the expander and    *)
(* readers what they rely on (PhysicalSizeExact).                          *)
(*                                                                         *)
(* The argument.  Arrays enter the chain at its new end and leave it       *)
(* through ~WeightedEdgeArray, which relinks both neighbours; an array     *)
(* that is purged stays linked.  A version is stamped from a clock that    *)
(* has passed its snapshot, and no writer holds a stamp when the next      *)
(* snapshot draws its own: the expander has waited until every slot is     *)
(* committed (SlotsAccounted).                                             *)
(*                                                                         *)
(* A slot is filled by its owner alone, in the order stamp, idx, weight,   *)
(* and counted last.  The slots of a new array were filled by              *)
(* LogCompaction, from kept slots that were all written: each position of  *)
(* the new array has one kept slot that goes there (RankOnto).             *)
(***************************************************************************)
EXTENDS EdgeArrayProofs, FunctionTheorems

-----------------------------------------------------------------------------
(* The chain. *)

AllocatedIn(a) == {v \in Versions : a[v].mem \in {"live", "shell"}}

\* The headers a form one doubly linked list, in the order of the versions.
Chained(a) ==
    \A v \in AllocatedIn(a) :
        /\ a[v].prev # NoVersion =>
              a[v].prev \in AllocatedIn(a) /\ a[v].prev < v /\ a[a[v].prev].next = v
        /\ a[v].next # NoVersion =>
              a[v].next \in AllocatedIn(a) /\ v < a[v].next /\ a[a[v].next].prev = v
        /\ \A u \in AllocatedIn(a) : u < v => a[v].prev # NoVersion /\ u <= a[v].prev

\* Only the expander's new array lies above the current one.
NewestKnown ==
    \A v \in Versions : v > cur /\ arr[v].mem # "none" =>
        v = cur + 1 /\ \E t \in Writers : wr[t].pc = "publish"

Linked == Chained(arr) /\ NewestKnown

\* Versions are numbers, and NoVersion is none of them.
LEMMA VersionFacts ==
    /\ Versions \subseteq Nat /\ NoVersion \notin Versions /\ NoVersion \in Int
    /\ \A v \in Versions : v \in Int /\ v # NoVersion
BY ConstantsAssumption DEF ConstantsAssumption, Versions, NoVersion

\* The chain is a matter of prev, next and which arrays are allocated.
LEMMA ChainSame ==
    ASSUME NEW a, NEW d, Chained(a), AllocatedIn(d) = AllocatedIn(a),
           \A v \in AllocatedIn(a) : d[v].prev = a[v].prev /\ d[v].next = a[v].next
    PROVE  Chained(d)
BY DEF Chained

\* A new array is linked behind the newest one.
LEMMA ChainAppend ==
    ASSUME NEW a, Chained(a), NEW x \in AllocatedIn(a), NEW c \in Versions, x < c,
           \A v \in AllocatedIn(a) : v <= x,
           NEW d,
           AllocatedIn(d) = AllocatedIn(a) \cup {c},
           d[c].prev = x, d[c].next = NoVersion, d[x].prev = a[x].prev, d[x].next = c,
           \A v \in AllocatedIn(a) : v # x => d[v].prev = a[v].prev /\ d[v].next = a[v].next
    PROVE  Chained(d)
<1> DEFINE A == AllocatedIn(a)
<1>1. A \subseteq Int /\ x \in A /\ c \in Int /\ NoVersion \notin A /\ c # NoVersion
    BY VersionFacts DEF AllocatedIn
<1>2. \A v \in A : v <= x /\ v < c /\ v # c
    BY <1>1
<1>3. \A v \in A : /\ a[v].prev # NoVersion =>
                         a[v].prev \in A /\ a[v].prev < v /\ a[a[v].prev].next = v
                   /\ a[v].next # NoVersion =>
                         a[v].next \in A /\ v < a[v].next /\ a[a[v].next].prev = v
                   /\ \A u \in A : u < v => a[v].prev # NoVersion /\ u <= a[v].prev
    BY DEF Chained
<1>4. \A v \in A : d[v].prev = a[v].prev /\ d[v].next = IF v = x THEN c ELSE a[v].next
    OBVIOUS
<1>5. AllocatedIn(d) = A \cup {c}
    OBVIOUS
<1> HIDE DEF A
<1>6. ASSUME NEW v \in A
      PROVE  /\ d[v].prev # NoVersion =>
                   d[v].prev \in A /\ d[v].prev < v /\ d[d[v].prev].next = v
             /\ d[v].next # NoVersion =>
                   d[v].next \in A \cup {c} /\ v < d[v].next /\ d[d[v].next].prev = v
             /\ \A u \in A \cup {c} : u < v => d[v].prev # NoVersion /\ u <= d[v].prev
  <2>1. d[v].prev # NoVersion => d[v].prev \in A /\ d[v].prev < v /\ d[d[v].prev].next = v
    <3>1. SUFFICES ASSUME a[v].prev # NoVersion
                   PROVE  a[v].prev \in A /\ a[v].prev < v /\ d[a[v].prev].next = v
        BY <1>4
    <3>2. a[v].prev \in A /\ a[v].prev < v /\ a[a[v].prev].next = v
        BY <1>3, <3>1
    <3>3. a[v].prev # x
        BY <1>1, <1>2, <3>2
    <3> QED BY <1>4, <3>2, <3>3
  <2>2. d[v].next # NoVersion =>
            d[v].next \in A \cup {c} /\ v < d[v].next /\ d[d[v].next].prev = v
    <3>1. CASE v = x
        BY <1>1, <1>2, <1>4, <3>1
    <3>2. CASE v # x
        BY <1>3, <1>4, <3>2
    <3> QED BY <3>1, <3>2
  <2>3. \A u \in A \cup {c} : u < v => d[v].prev # NoVersion /\ u <= d[v].prev
    <3>1. ~ c < v
        BY <1>1, <1>2
    <3> QED BY <1>3, <1>4, <3>1
  <2> QED BY <2>1, <2>2, <2>3
<1>7. /\ d[c].prev \in A /\ d[c].prev < c /\ d[d[c].prev].next = c
      /\ \A u \in A \cup {c} : u < c => d[c].prev # NoVersion /\ u <= d[c].prev
    BY <1>1, <1>2, <1>4
<1> QED BY <1>5, <1>6, <1>7 DEF Chained

\* ~WeightedEdgeArray takes an array out of the chain and closes the gap.
LEMMA ChainDelete ==
    ASSUME NEW a \in [Versions -> Headers], Chained(a), NEW v \in AllocatedIn(a), NEW n \in Nat
    PROVE  /\ Chained(Delete(a, v, n))
           /\ AllocatedIn(Delete(a, v, n)) = AllocatedIn(a) \ {v}
<1> DEFINE d == Delete(a, v, n)
           A == AllocatedIn(a)
           p == a[v].prev
           q == a[v].next
<1>1. A \subseteq Versions /\ A \subseteq Int /\ v \in A /\ NoVersion \notin A
    BY VersionFacts DEF AllocatedIn
<1>2. AllocatedIn(d) = A \ {v}
    BY <1>1, DeleteFields DEF AllocatedIn
<1>3. \A u \in A : /\ a[u].prev \in A \cup {NoVersion} /\ a[u].next \in A \cup {NoVersion}
                   /\ a[u].prev # NoVersion => a[u].prev < u /\ a[a[u].prev].next = u
                   /\ a[u].next # NoVersion => u < a[u].next /\ a[a[u].next].prev = u
                   /\ \A w \in A : w < u => a[u].prev # NoVersion /\ w <= a[u].prev
    BY DEF Chained
<1>4. p \in A \cup {NoVersion} /\ q \in A \cup {NoVersion} /\ p # v /\ q # v
    BY <1>1, <1>3
<1>5. p # q \/ (p = NoVersion /\ q = NoVersion)
    BY <1>1, <1>3, <1>4
<1>6. \A u \in A : u # v =>
          /\ d[u].prev = IF u = q THEN p ELSE a[u].prev
          /\ d[u].next = IF u = p THEN q ELSE a[u].next
  <2> SUFFICES ASSUME NEW u \in A, u # v
               PROVE  /\ d[u].prev = IF u = q THEN p ELSE a[u].prev
                      /\ d[u].next = IF u = p THEN q ELSE a[u].next
      OBVIOUS
  <2>1. u \in Versions /\ a[u] \in Headers /\ p \in Versions \cup {NoVersion}
        /\ q \in Versions \cup {NoVersion}
      BY <1>1, <1>4
  <2>2. d[u] = IF u = q THEN [a[u] EXCEPT !.prev = p]
               ELSE IF u = p THEN [a[u] EXCEPT !.next = q]
               ELSE a[u]
      BY <2>1 DEF Delete
  <2>3. u = q => u # p
      BY <1>1, <1>5
  <2> HIDE DEF p, q, d
  <2> QED BY <2>1, <2>2, <2>3 DEF Headers
<1> HIDE DEF d
<1>7. \A u \in A : u # v => (a[u].prev = v <=> u = q) /\ (a[u].next = v <=> u = p)
    BY <1>1, <1>3
<1>8. ASSUME NEW u \in A, u # v
      PROVE  /\ d[u].prev # NoVersion =>
                   d[u].prev \in A \ {v} /\ d[u].prev < u /\ d[d[u].prev].next = u
             /\ d[u].next # NoVersion =>
                   d[u].next \in A \ {v} /\ u < d[u].next /\ d[d[u].next].prev = u
             /\ \A w \in A \ {v} : w < u => d[u].prev # NoVersion /\ w <= d[u].prev
  <2>1. /\ a[u].prev \in A \cup {NoVersion} /\ a[u].next \in A \cup {NoVersion}
        /\ a[u].prev # NoVersion => a[u].prev < u /\ a[a[u].prev].next = u
        /\ a[u].next # NoVersion => u < a[u].next /\ a[a[u].next].prev = u
        /\ u \in Int /\ v \in Int
      BY <1>1, <1>3
  <2>2. /\ p # NoVersion => p < v /\ a[p].next = v
        /\ q # NoVersion => v < q /\ a[q].prev = v
        /\ \A w \in A : w < v => p # NoVersion /\ w <= p
      BY <1>3
  <2>3. \A w \in A : w < u => a[u].prev # NoVersion /\ w <= a[u].prev
      BY <1>3
  <2>4. (a[u].prev = v <=> u = q) /\ (a[u].next = v <=> u = p)
      BY <1>7, <1>8
  <2> HIDE DEF A, p, q
  <2>5. CASE u = q
    <3>1. d[u].prev = p /\ u # p /\ d[u].next = a[u].next
        BY <1>1, <1>5, <1>6, <1>8, <2>5
    <3>2. p # NoVersion => p \in A \ {v} /\ p < u /\ d[p].next = u
        BY <1>1, <1>4, <1>6, <2>1, <2>2, <2>5
    <3>3. a[u].next # NoVersion => a[u].next \in A \ {v} /\ d[a[u].next].prev = u
        BY <1>1, <1>6, <1>8, <2>1, <2>4, <2>5, <3>1
    <3>4. \A w \in A \ {v} : w < u => p # NoVersion /\ w <= p
      <4>1. SUFFICES ASSUME NEW w \in A \ {v}, w < u
                     PROVE  p # NoVersion /\ w <= p
          OBVIOUS
      <4>2. w <= v /\ w \in Int
          BY <1>1, <2>3, <2>4, <2>5, <4>1
      <4> QED BY <2>1, <2>2, <4>2
    <3> QED BY <2>1, <3>1, <3>2, <3>3, <3>4
  <2>6. CASE u = p
    <3>1. d[u].next = q /\ u # q /\ d[u].prev = a[u].prev
        BY <1>1, <1>5, <1>6, <1>8, <2>6
    <3>2. q # NoVersion => q \in A \ {v} /\ u < q /\ d[q].prev = u
        BY <1>1, <1>4, <1>6, <2>1, <2>2, <2>6
    <3>3. a[u].prev # NoVersion => a[u].prev \in A \ {v} /\ d[a[u].prev].next = u
        BY <1>1, <1>6, <1>8, <2>1, <2>4, <2>6, <3>1
    <3> QED BY <2>1, <2>3, <3>1, <3>2, <3>3
  <2>7. CASE u # q /\ u # p
    <3>1. d[u].prev = a[u].prev /\ d[u].next = a[u].next
        BY <1>6, <1>8, <2>7
    <3>2. a[u].prev # NoVersion => a[u].prev \in A \ {v} /\ d[a[u].prev].next = u
        BY <1>1, <1>6, <1>8, <2>1, <2>2, <2>4, <2>7
    <3>3. a[u].next # NoVersion => a[u].next \in A \ {v} /\ d[a[u].next].prev = u
        BY <1>1, <1>6, <1>8, <2>1, <2>2, <2>4, <2>7
    <3> QED BY <2>1, <2>3, <3>1, <3>2, <3>3
  <2> QED BY <2>5, <2>6, <2>7
<1> QED BY <1>2, <1>8 DEF Chained, d

-----------------------------------------------------------------------------
(* The chain over the steps of the program. *)

\* What the chain and the times of the versions depend on.
SameVersion(g, h) ==
    g.prev = h.prev /\ g.next = h.next /\ g.mem = h.mem /\ g.snapTs = h.snapTs

\* The counters of a version: what its slots depend on, beside its buffers.
SameSlots(g, h) ==
    /\ g.size = h.size /\ g.cap = h.cap /\ g.snapDeg = h.snapDeg
    /\ g.phys = h.phys /\ g.deg = h.deg

\* Steps of a writer that touch counters, slots and its own state only.
QuietWriter(t) ==
    \/ Call(t) \/ Reserve(t) \/ UseAfterFree(t) \/ Lock(t) \/ Reload(t) \/ Tick(t)
    \/ Stamp(t) \/ WriteIdx(t) \/ WriteWeight(t) \/ Commit(t)

LEMMA QuietWriterFields ==
    ASSUME IInv, NEW t \in Writers, QuietWriter(t)
    PROVE  /\ cur' = cur /\ wr[t].pc # "publish"
           /\ \A u \in Writers : u # t => wr'[u] = wr[u]
           /\ \A v \in Versions : SameVersion(arr'[v], arr[v])
<1>1. /\ TypeOK /\ cur \in Versions /\ cur \in Nat
      /\ \A v \in 0 .. cur : v \in Versions
      /\ arr \in [Versions -> Headers] /\ wr \in [Writers -> WriterStates]
    BY CurFacts DEF IInv, TypeOK
<1>2. \A v \in Versions : arr[v] \in Headers
    BY <1>1
<1>3. cur' = cur /\ wr[t].pc # "publish"
    BY DEF QuietWriter, Call, Reserve, UseAfterFree, Lock, Reload, Tick, Stamp, WriteIdx,
       WriteWeight, Commit
<1>4. \A u \in Writers : u # t => wr'[u] = wr[u]
    <2>1. \E s : wr' = [wr EXCEPT ![t] = s]
        BY DEF QuietWriter, Call, Reserve, UseAfterFree, Lock, Reload, Tick, Stamp,
           WriteIdx, WriteWeight, Commit, SetWriter, TakeSlot
    <2> QED BY <1>1, <2>1
<1>5. \A v \in Versions : SameVersion(arr'[v], arr[v])
    <2>1. CASE UNCHANGED arr
        BY <2>1 DEF SameVersion
    <2>2. CASE Reserve(t) \/ Reload(t)
        <3>1. wr[t].pc = "reserve" => wr[t].arr \in Versions
            BY <1>1 DEF IInv, PointersInChain
        <3>2. PICK w \in Versions : TakeSlot(t, w)
            BY <1>1, <2>2, <3>1 DEF Reserve, Reload
        <3>3. /\ arr'[w] = [arr[w] EXCEPT !.size = arr[w].size + 1]
              /\ \A u \in Versions : u # w => arr'[u] = arr[u]
            BY <1>1, <3>2, TakeSlotFields
        <3> QED BY <1>2, <3>3 DEF Headers, SameVersion
    <2>3. CASE Stamp(t)
        <3>1. \E n : arr' = [arr EXCEPT ![wr[t].arr] = [arr[wr[t].arr] EXCEPT !.deg = n]]
            BY <2>3 DEF Stamp
        <3> QED BY <1>1, <1>2, <3>1 DEF Headers, SameVersion
    <2>4. CASE Commit(t)
        <3>1. \E n : arr' = [arr EXCEPT ![wr[t].arr] = [arr[wr[t].arr] EXCEPT !.phys = n]]
            BY <2>4 DEF Commit
        <3> QED BY <1>1, <1>2, <3>1 DEF Headers, SameVersion
    <2>5. CASE Call(t) \/ UseAfterFree(t) \/ Lock(t) \/ Tick(t) \/ WriteIdx(t) \/ WriteWeight(t)
        BY <2>1, <2>5 DEF Call, UseAfterFree, Lock, Tick, WriteIdx, WriteWeight
    <2> QED BY <2>2, <2>3, <2>4, <2>5 DEF QuietWriter
<1> QED BY <1>3, <1>4, <1>5

\* Steps of a reader other than dropping its pin.
QuietReader(r) ==
    Ask(r) \/ LockForRead(r) \/ WalkBack(r) \/ Pin(r) \/ Count(r) \/ Scan(r) \/ Read(r)

LEMMA QuietReaderFields ==
    ASSUME IInv, NEW r \in Readers, QuietReader(r)
    PROVE  /\ cur' = cur /\ wr' = wr /\ buf' = buf
           /\ \A v \in Versions : SameVersion(arr'[v], arr[v]) /\ SameSlots(arr'[v], arr[v])
<1>1. arr \in [Versions -> Headers] /\ \A v \in Versions : arr[v] \in Headers
    BY DEF IInv, TypeOK
<1>2. cur' = cur /\ wr' = wr /\ buf' = buf
    BY DEF QuietReader, Ask, LockForRead, WalkBack, Pin, Count, Scan, Read
<1>3. CASE Pin(r)
    <2>1. arr' = [arr EXCEPT ![rd[r].arr] = [arr[rd[r].arr] EXCEPT
                                                !.reads = arr[rd[r].arr].reads + 1]]
        BY <1>3 DEF Pin
    <2> QED BY <1>1, <1>2, <2>1 DEF Headers, SameVersion, SameSlots
<1>4. CASE ~Pin(r)
    <2>1. arr' = arr
        BY <1>4 DEF QuietReader, Ask, LockForRead, WalkBack, Count, Scan, Read
    <2> QED BY <1>2, <2>1 DEF SameVersion, SameSlots
<1> QED BY <1>3, <1>4

\* Such steps leave the chain as it is.
LEMMA LinkedFrame ==
    ASSUME IInv, Linked, cur' = cur, \A v \in Versions : SameVersion(arr'[v], arr[v]),
           \A t \in Writers : wr[t].pc = "publish" => wr'[t].pc = "publish"
    PROVE  Linked'
<1>1. AllocatedIn(arr') = AllocatedIn(arr) /\ AllocatedIn(arr) \subseteq Versions
    BY DEF AllocatedIn, SameVersion
<1>2. Chained(arr')
    BY <1>1, ChainSame DEF Linked, SameVersion
<1>3. NewestKnown'
    BY DEF Linked, NewestKnown, SameVersion
<1> QED BY <1>2, <1>3 DEF Linked

\* What an array allocated by LogCompaction looks like, and what its making leaves alone.
LEMMA AppendedFields ==
    ASSUME IInv, NEW want \in Nat, cur + 1 \in Versions,
           NEW a, a = [arr EXCEPT ![cur + 1] = Compacted(cur, want), ![cur].next = cur + 1]
    PROVE  /\ a \in [Versions -> Headers]
           /\ a[cur + 1] = Compacted(cur, want)
           /\ a[cur].prev = arr[cur].prev /\ a[cur].next = cur + 1
           /\ a[cur].mem = arr[cur].mem /\ a[cur].snapTs = arr[cur].snapTs
           /\ SameSlots(a[cur], arr[cur])
           /\ \A v \in Versions : v # cur /\ v # cur + 1 => a[v] = arr[v]
<1>1. /\ TypeOK /\ cur \in Versions /\ cur \in Nat /\ arr \in [Versions -> Headers]
    BY CurFacts DEF IInv, TypeOK
<1>2. arr[cur] \in Headers
    BY <1>1
<1>3. Compacted(cur, want) \in Headers
    BY <1>1, CompactedFields
<1> DEFINE h == [arr[cur] EXCEPT !.next = cur + 1]
           new == Compacted(cur, want)
           b == [arr EXCEPT ![cur + 1] = new]
<1>4. /\ h \in Headers /\ h.prev = arr[cur].prev /\ h.next = cur + 1
      /\ h.mem = arr[cur].mem /\ h.snapTs = arr[cur].snapTs /\ SameSlots(h, arr[cur])
    BY <1>2 DEF Headers, SameSlots
<1>5. a = [arr EXCEPT ![cur + 1] = new, ![cur] = h]
  <2> HIDE DEF new
  <2>1. b[cur] = arr[cur]
      BY <1>1
  <2>2. a = [b EXCEPT ![cur] = [b[cur] EXCEPT !.next = cur + 1]]
      BY DEF new
  <2>3. a = [b EXCEPT ![cur] = h]
      BY <2>1, <2>2
  <2> QED BY <2>3
<1> HIDE DEF h, new
<1> QED BY <1>1, <1>3, <1>4, <1>5 DEF new

\* The time of an array allocated by LogCompaction.
LEMMA CompactedTime ==
    ASSUME TypeOK, NEW v \in Versions, NEW want \in Nat
    PROVE  Compacted(v, want).snapTs = clock
<1> DEFINE num == Cardinality(Kept(v))
           cap == GrownCap(want, num)
<1>1. Compacted(v, want) =
        [Unallocated EXCEPT !.size = num, !.phys = num, !.deg = num, !.snapDeg = num,
                            !.cap = cap, !.snapTs = clock, !.prev = v, !.mem = "live"]
    BY DEF Compacted
<1> HIDE DEF num, cap
<1> QED BY <1>1 DEF Unallocated

\* The capacity that an expander asks for is a number, as more slots were taken from
\* the array than it has.
LEMMA CompactWant ==
    ASSUME IInv, NEW t \in Writers, Compact(t)
    PROVE  /\ cur + 1 \in Versions /\ Holding(cur) = {}
           /\ \E want \in Nat :
                /\ arr' = [arr EXCEPT ![cur + 1] = Compacted(cur, want), ![cur].next = cur + 1]
                /\ buf' = [buf EXCEPT ![cur + 1] = CompactedBuffer(cur, want, FALSE)]
<1>1. /\ TypeOK /\ cur \in Versions /\ cur \in Nat
      /\ arr[cur].size \in Nat /\ arr[cur].cap \in Nat /\ arr[cur].phys \in Nat
      /\ arr[cur].deg \in Int
    BY CurFacts, HeaderFields DEF IInv
<1>2. cur + 1 \in Versions
    BY <1>1, ConstantsAssumption DEF Compact, Versions, ConstantsAssumption
<1>3. Cardinality(Holding(cur)) = 0 /\ arr[cur].size >= arr[cur].cap
    BY <1>1, HoldingFinite DEF Compact, Full, IInv, SlotsAccounted
<1>4. Holding(cur) = {}
    BY <1>3, HoldingFinite, FS_EmptySet
<1> DEFINE m == AtLeastZero(arr[cur].deg) * ExpandRate
           want == m + (arr[cur].size - arr[cur].cap + 1) + Slack
<1>5. m \in Nat
    BY <1>1, ProductNat, ConstantsAssumption DEF AtLeastZero, ConstantsAssumption
<1>6. /\ arr' = [arr EXCEPT ![cur + 1] = Compacted(cur, want), ![cur].next = cur + 1]
      /\ buf' = [buf EXCEPT ![cur + 1] = CompactedBuffer(cur, want, FALSE)]
    BY DEF Compact
<1> HIDE DEF m
<1>7. want \in Nat
    BY <1>1, <1>3, <1>5, ConstantsAssumption DEF ConstantsAssumption
<1> QED BY <1>2, <1>4, <1>6, <1>7

\* CreateSnapshots links a new array and deletes the old one.
LEMMA SnapshotWant ==
    ASSUME IInv, NEW sorted \in BOOLEAN, NEW dense \in BOOLEAN, CreateSnapshot(sorted, dense)
    PROVE  /\ cur + 1 \in Versions
           /\ \E want \in Nat :
                /\ arr' = Delete([arr EXCEPT ![cur + 1] = Compacted(cur, want),
                                             ![cur].next = cur + 1], cur, cur + 1)
                /\ buf' = [buf EXCEPT ![cur + 1] = CompactedBuffer(cur, want, sorted),
                                      ![cur] = NoBuffer]
<1>1. /\ TypeOK /\ cur \in Versions /\ cur \in Nat /\ arr[cur].deg \in Int
    BY CurFacts, HeaderFields DEF IInv
<1>2. cur + 1 \in Versions
    <2>1. calls \in 0 .. MaxCalls /\ MaxCalls \in Nat /\ MaxVersion \in Nat
        BY <1>1, ConstantsAssumption DEF TypeOK, ConstantsAssumption
    <2>2. cur + (MaxCalls - calls) < MaxVersion
        BY DEF CreateSnapshot
    <2>3. MaxCalls - calls >= 0 /\ MaxCalls - calls \in Int
        BY <2>1
    <2>4. cur + 1 \in 0 .. MaxVersion
        BY <1>1, <2>1, <2>2, <2>3
    <2> QED BY <2>4 DEF Versions
<1> DEFINE deg == AtLeastZero(arr[cur].deg)
           m == deg * ExpandRate
           want == IF dense THEN deg ELSE m + Slack
<1>3. deg \in Nat
    BY <1>1 DEF AtLeastZero
<1>4. m \in Nat
  <2> HIDE DEF deg
  <2> QED BY <1>3, ProductNat, ConstantsAssumption DEF ConstantsAssumption
<1>5. /\ arr' = Delete([arr EXCEPT ![cur + 1] = Compacted(cur, want),
                                   ![cur].next = cur + 1], cur, cur + 1)
      /\ buf' = [buf EXCEPT ![cur + 1] = CompactedBuffer(cur, want, sorted),
                            ![cur] = NoBuffer]
    BY DEF CreateSnapshot
<1> HIDE DEF deg, m
<1>6. want \in Nat
    BY <1>3, <1>4, ConstantsAssumption DEF ConstantsAssumption
<1> QED BY <1>2, <1>5, <1>6

\* The array that LogCompaction makes joins the chain behind the current one.
LEMMA AppendChained ==
    ASSUME IInv, Linked, NEW want \in Nat, cur + 1 \in Versions,
           \A t \in Writers : wr[t].pc # "publish",
           NEW a, a[cur + 1] = Compacted(cur, want),
           a[cur].prev = arr[cur].prev, a[cur].next = cur + 1, a[cur].mem = arr[cur].mem,
           \A v \in Versions : v # cur /\ v # cur + 1 => a[v] = arr[v]
    PROVE  Chained(a) /\ AllocatedIn(a) = AllocatedIn(arr) \cup {cur + 1}
<1>1. /\ TypeOK /\ cur \in Versions /\ cur \in Nat /\ arr[cur].mem = "live"
    BY CurFacts DEF IInv, VersionsSane
<1>2. \A v \in AllocatedIn(arr) : v \in Int /\ v <= cur
    BY <1>1, VersionFacts DEF Linked, NewestKnown, AllocatedIn
<1>3. /\ a[cur + 1] = Compacted(cur, want)
      /\ a[cur].prev = arr[cur].prev /\ a[cur].next = cur + 1 /\ a[cur].mem = arr[cur].mem
      /\ \A v \in Versions : v # cur /\ v # cur + 1 => a[v] = arr[v]
    OBVIOUS
<1>4. /\ a[cur + 1].mem = "live" /\ a[cur + 1].prev = cur /\ a[cur + 1].next = NoVersion
  <2> DEFINE new == Compacted(cur, want)
  <2>1. /\ new.mem = "live" /\ new.prev = cur /\ new.next = NoVersion
        /\ DOMAIN CompactedBuffer(cur, want, FALSE) = 0 .. (new.cap - 1)
      BY <1>1, CompactedFields
  <2> QED BY <1>3, <2>1
<1>5. AllocatedIn(a) = AllocatedIn(arr) \cup {cur + 1}
  <2>1. \A v \in Versions : a[v].mem \in {"live", "shell"} <=>
            v = cur + 1 \/ arr[v].mem \in {"live", "shell"}
      BY <1>1, <1>3, <1>4
  <2> QED BY <2>1 DEF AllocatedIn
<1>6. cur \in AllocatedIn(arr) /\ cur + 1 \notin AllocatedIn(arr) /\ cur < cur + 1
    BY <1>1, <1>2 DEF AllocatedIn
<1>7. \A v \in AllocatedIn(arr) : v # cur => a[v].prev = arr[v].prev /\ a[v].next = arr[v].next
  <2>1. \A v \in AllocatedIn(arr) : v \in Versions /\ v # cur + 1
      BY <1>6 DEF AllocatedIn
  <2> QED BY <1>3, <2>1
<1>8. Chained(arr)
    BY DEF Linked
<1>9. Chained(a)
    BY <1>2, <1>3, <1>4, <1>5, <1>6, <1>7, <1>8, ChainAppend
<1> QED BY <1>5, <1>9

\* Only one thread is between the lock and the release of the lock.
LEMMA OneInside ==
    ASSUME IInv, NEW t \in Writers, wr[t].pc \in WriterInside
    PROVE  mtx = t /\ \A u \in Writers : u # t => wr[u].pc \notin WriterInside
BY DEF IInv, LockHeldInside

LEMMA LinkedCompact ==
    ASSUME IInv, Linked, NEW t \in Writers, Compact(t)
    PROVE  Linked'
<1>1. cur + 1 \in Versions
    BY CompactWant
<1>2. PICK want \in Nat : arr' = [arr EXCEPT ![cur + 1] = Compacted(cur, want), ![cur].next = cur + 1]
    BY CompactWant
<1>3. wr[t].pc = "wait" /\ cur' = cur /\ SetWriter(t, "publish")
    BY DEF Compact
<1>4. \A u \in Writers : wr[u].pc # "publish"
    BY <1>3, OneInside DEF WriterInside
<1>5. Chained(arr') /\ AllocatedIn(arr') = AllocatedIn(arr) \cup {cur + 1}
  <2>1. /\ arr'[cur + 1] = Compacted(cur, want)
        /\ arr'[cur].prev = arr[cur].prev /\ arr'[cur].next = cur + 1
        /\ arr'[cur].mem = arr[cur].mem
        /\ \A v \in Versions : v # cur /\ v # cur + 1 => arr'[v] = arr[v]
      BY <1>1, <1>2, AppendedFields
  <2> QED BY <1>1, <1>4, <2>1, AppendChained
<1>6. wr'[t].pc = "publish"
    BY <1>3, SetWriterFields DEF IInv, WriterPcs
<1>7. ASSUME NEW v \in Versions, v > cur, arr'[v].mem # "none"
      PROVE  v = cur + 1
  <2>1. v # cur /\ cur \in Nat /\ v \in Int
      BY <1>7, CurFacts, VersionFacts
  <2>2. v # cur + 1 => arr'[v] = arr[v]
      BY <1>1, <1>2, <2>1, AppendedFields
  <2> QED BY <1>4, <1>7, <2>2 DEF Linked, NewestKnown
<1> QED BY <1>3, <1>5, <1>6, <1>7 DEF Linked, NewestKnown

LEMMA LinkedPublish ==
    ASSUME IInv, Linked, NEW t \in Writers, Publish(t)
    PROVE  Linked'
<1>1. cur \in Nat /\ cur' = cur + 1 /\ arr' = arr
    BY CurFacts DEF Publish
<1>2. \A v \in Versions : v > cur + 1 => arr[v].mem = "none"
  <2>1. \A v \in Versions : v > cur + 1 => v > cur /\ v # cur + 1
      BY <1>1, VersionFacts
  <2> QED BY <2>1 DEF Linked, NewestKnown
<1> QED BY <1>1, <1>2 DEF Linked, NewestKnown

\* The expander purges the array it has retired, and deletes the one before.
LEMMA LinkedReclaim ==
    ASSUME IInv, Linked, NEW t \in Writers, Reclaim(t)
    PROVE  Linked'
<1> DEFINE old == wr[t].arr
           before == arr[old].prev
           shell == [arr[old] EXCEPT !.mem = "shell"]
           purged == [arr EXCEPT ![old].mem = "shell"]
<1>1. /\ TypeOK /\ cur \in Nat /\ arr \in [Versions -> Headers]
      /\ \A v \in 0 .. cur : v \in Versions
    BY CurFacts DEF IInv, TypeOK
<1>2. /\ old \in Versions /\ old < cur /\ wr[t].pc = "reclaim" /\ cur' = cur
      /\ arr[old].mem = "live"
    BY <1>1 DEF Reclaim, IInv, PointersInChain, Handover
<1>3. \A u \in Writers : wr[u].pc # "publish"
    BY <1>2, OneInside DEF WriterInside
<1>4. /\ shell \in Headers /\ shell.mem = "shell"
      /\ shell.prev = arr[old].prev /\ shell.next = arr[old].next
    BY <1>1, <1>2 DEF Headers
<1>5. purged = [arr EXCEPT ![old] = shell]
    OBVIOUS
<1> HIDE DEF shell
<1>6. /\ purged \in [Versions -> Headers]
      /\ \A v \in Versions : /\ purged[v].prev = arr[v].prev /\ purged[v].next = arr[v].next
                             /\ v # old => purged[v].mem = arr[v].mem
      /\ purged[old].mem = "shell"
    BY <1>1, <1>2, <1>4, <1>5
<1> HIDE DEF purged
<1>7. AllocatedIn(purged) = AllocatedIn(arr)
    BY <1>2, <1>6 DEF AllocatedIn
<1>8. Chained(purged)
    BY <1>6, <1>7, ChainSame DEF Linked, AllocatedIn
<1>9. /\ arr' = arr \/ arr' = purged \/ (before # NoVersion /\ arr' = Delete(purged, before, cur))
    BY DEF Reclaim, purged
<1>10. before # NoVersion => before \in AllocatedIn(purged)
    BY <1>2, <1>7 DEF Linked, Chained, AllocatedIn
<1>11. ASSUME NEW v \in Versions, v > cur
       PROVE  arr'[v].mem = "none"
  <2>1. arr[v].mem = "none"
      BY <1>3, <1>11 DEF Linked, NewestKnown
  <2>2. purged[v].mem = "none"
      BY <1>1, <1>2, <1>6, <1>11, <2>1, VersionFacts
  <2>3. CASE before # NoVersion /\ arr' = Delete(purged, before, cur)
    <3>1. before \in Versions /\ v # before
        BY <1>10, <2>2, <2>3 DEF AllocatedIn
    <3> HIDE DEF before
    <3> QED BY <1>1, <1>6, <2>2, <2>3, <3>1, DeleteFields
  <2> QED BY <1>9, <2>1, <2>2, <2>3
<1>12. Chained(arr')
  <2>1. CASE before # NoVersion /\ arr' = Delete(purged, before, cur)
    <3> HIDE DEF before
    <3> QED BY <1>1, <1>6, <1>8, <1>10, <2>1, ChainDelete
  <2> QED BY <1>8, <1>9, <2>1 DEF Linked
<1> QED BY <1>2, <1>11, <1>12 DEF Linked, NewestKnown

\* The last reader deletes a retired array.
LEMMA LinkedUnpin ==
    ASSUME IInv, Linked, NEW r \in Readers, Unpin(r)
    PROVE  Linked'
<1> DEFINE p == rd[r].arr
           h == [arr[p] EXCEPT !.reads = arr[p].reads - 1]
           left == [arr EXCEPT ![p].reads = @ - 1]
<1>1. /\ TypeOK /\ cur \in Nat /\ arr \in [Versions -> Headers]
      /\ \A v \in 0 .. cur : v \in Versions
    BY CurFacts DEF IInv, TypeOK
<1>2. p \in Versions /\ p \in 0 .. cur /\ arr[p].mem = "live" /\ r \in Pinned(p)
    BY <1>1 DEF Unpin, IInv, PointersInChain, Pinning, PinsHold, Pinned
<1>3. arr[p].reads \in Nat /\ arr[p].reads # 0
  <2>1. IsFiniteSet(Pinned(p))
      BY FiniteThreads, FS_Subset DEF Pinned
  <2>2. Cardinality(Pinned(p)) # 0
      BY <1>2, <2>1, FS_EmptySet
  <2> QED BY <1>1, <1>2, <2>2, HeaderFields DEF IInv, PinsHold
<1>4. left = [arr EXCEPT ![p] = h]
    OBVIOUS
<1>5. h \in Headers /\ h.mem = arr[p].mem /\ h.prev = arr[p].prev /\ h.next = arr[p].next
    BY <1>1, <1>2, <1>3 DEF Headers
<1>6. cur' = cur /\ wr' = wr /\ mtx = NoThread
    BY DEF Unpin
<1>7. \A u \in Writers : wr[u].pc # "publish"
    BY <1>6, FiniteThreads DEF IInv, LockHeldInside, WriterInside
<1> HIDE DEF h
<1>8. /\ left \in [Versions -> Headers]
      /\ \A v \in Versions : /\ left[v].prev = arr[v].prev /\ left[v].next = arr[v].next
                             /\ left[v].mem = arr[v].mem
    BY <1>1, <1>2, <1>4, <1>5
<1>9. arr' = left \/ arr' = Delete(left, p, cur)
    BY DEF Unpin
<1> HIDE DEF left
<1>10. AllocatedIn(left) = AllocatedIn(arr) /\ p \in AllocatedIn(left)
    BY <1>2, <1>8 DEF AllocatedIn
<1>11. Chained(left)
    BY <1>8, <1>10, ChainSame DEF Linked, AllocatedIn
<1>12. Chained(arr')
    BY <1>1, <1>8, <1>9, <1>10, <1>11, ChainDelete
<1>13. ASSUME NEW v \in Versions, v > cur
       PROVE  arr'[v].mem = "none"
  <2>1. arr[v].mem = "none" /\ v # p
      BY <1>1, <1>2, <1>7, <1>13, VersionFacts DEF Linked, NewestKnown
  <2> HIDE DEF p
  <2> QED BY <1>1, <1>2, <1>8, <1>9, <2>1, DeleteFields
<1> QED BY <1>6, <1>12, <1>13 DEF Linked, NewestKnown

\* CreateSnapshots links the new array and deletes the old one.
LEMMA LinkedSnapshot ==
    ASSUME IInv, Linked, NEW sorted \in BOOLEAN, NEW dense \in BOOLEAN,
           CreateSnapshot(sorted, dense)
    PROVE  Linked'
<1>1. /\ TypeOK /\ cur \in Versions /\ cur \in Nat /\ arr[cur].mem = "live" /\ cur + 1 \in Versions
    BY CurFacts, SnapshotWant DEF IInv, VersionsSane
<1>2. PICK want \in Nat :
          arr' = Delete([arr EXCEPT ![cur + 1] = Compacted(cur, want), ![cur].next = cur + 1],
                        cur, cur + 1)
    BY SnapshotWant
<1>3. cur' = cur + 1 /\ wr' = wr /\ \A u \in Writers : wr[u].pc # "publish"
    BY DEF CreateSnapshot, AllIdle
<1>4. PICK a : a = [arr EXCEPT ![cur + 1] = Compacted(cur, want), ![cur].next = cur + 1]
    OBVIOUS
<1>5. /\ a \in [Versions -> Headers]
      /\ a[cur + 1] = Compacted(cur, want)
      /\ a[cur].prev = arr[cur].prev /\ a[cur].next = cur + 1 /\ a[cur].mem = arr[cur].mem
      /\ \A v \in Versions : v # cur /\ v # cur + 1 => a[v] = arr[v]
    BY <1>1, <1>4, AppendedFields
<1>6. Chained(a) /\ AllocatedIn(a) = AllocatedIn(arr) \cup {cur + 1}
    BY <1>1, <1>3, <1>5, AppendChained
<1>7. cur \in AllocatedIn(a) /\ cur + 1 \in Nat
    BY <1>1, <1>6 DEF AllocatedIn
<1>8. arr' = Delete(a, cur, cur + 1)
    BY <1>2, <1>4
<1>9. Chained(arr')
    BY <1>5, <1>6, <1>7, <1>8, ChainDelete
<1>10. ASSUME NEW v \in Versions, v > cur + 1
      PROVE  arr'[v].mem = "none"
  <2>1. v # cur /\ v # cur + 1 /\ v > cur /\ v \in Int
      BY <1>1, <1>10, VersionFacts
  <2>2. arr[v].mem = "none"
      BY <1>3, <2>1 DEF Linked, NewestKnown
  <2>3. a[v].mem = "none"
      BY <1>5, <2>1, <2>2
  <2> QED BY <1>1, <1>5, <1>7, <1>8, <2>1, <2>3, DeleteFields
<1> QED BY <1>3, <1>9, <1>10 DEF Linked, NewestKnown

LEMMA LinkedInit ==
    ASSUME Init
    PROVE  Linked
<1>1. 0 \in Versions /\ \A v \in Versions : v \in Nat
    BY ConstantsAssumption DEF ConstantsAssumption, Versions
<1>2. /\ arr[0].mem = "live" /\ arr[0].prev = NoVersion /\ arr[0].next = NoVersion
      /\ \A v \in Versions : v # 0 => arr[v].mem = "none"
    BY <1>1 DEF Init, Unallocated
<1>3. AllocatedIn(arr) = {0}
    BY <1>1, <1>2 DEF AllocatedIn
<1>4. Chained(arr)
    BY <1>2, <1>3 DEF Chained
<1> QED BY <1>1, <1>2, <1>4 DEF Init, Linked, NewestKnown

LEMMA LinkedStutter ==
    ASSUME IInv, Linked, UNCHANGED vars
    PROVE  Linked'
BY LinkedFrame DEF vars, SameVersion

\* Every step keeps the chain.
LEMMA LinkedStep ==
    ASSUME IInv, Linked, [Next]_vars
    PROVE  Linked'
<1>1. CASE UNCHANGED vars
    BY <1>1, LinkedStutter
<1>2. ASSUME NEW t \in Writers, Call(t) \/ WriterStep(t)
      PROVE  Linked'
  <2>1. CASE QuietWriter(t)
    <3>1. \A u \in Writers : wr[u].pc = "publish" => wr'[u].pc = "publish"
        BY <2>1, QuietWriterFields
    <3> QED BY <2>1, <3>1, QuietWriterFields, LinkedFrame
  <2>2. CASE Compact(t)
      BY <2>2, LinkedCompact
  <2>3. CASE Publish(t)
      BY <2>3, LinkedPublish
  <2>4. CASE Reclaim(t)
      BY <2>4, LinkedReclaim
  <2> QED BY <1>2, <2>1, <2>2, <2>3, <2>4 DEF WriterStep, QuietWriter
<1>3. ASSUME NEW r \in Readers, Ask(r) \/ ReaderStep(r)
      PROVE  Linked'
  <2>1. CASE QuietReader(r)
      BY <2>1, QuietReaderFields, LinkedFrame
  <2>2. CASE Unpin(r)
      BY <2>2, LinkedUnpin
  <2> QED BY <1>3, <2>1, <2>2 DEF ReaderStep, QuietReader
<1>4. ASSUME NEW sorted \in BOOLEAN, NEW dense \in BOOLEAN, CreateSnapshot(sorted, dense)
      PROVE  Linked'
    BY <1>4, LinkedSnapshot
<1>5. CASE Done
    BY <1>5, LinkedStutter DEF Done
<1> QED BY <1>1, <1>2, <1>3, <1>4, <1>5 DEF Next

\* The prev_arr chain lists every array that is allocated, newest first, and next_arr
\* leads back: the walk of GetNeighbours (radixgraph.cpp:125-135) meets no deleted array
\* and misses none.
THEOREM ChainIsExact == Spec => []ChainExact
<1>1. Init => IInv /\ Linked
    BY InitIInv, LinkedInit
<1>2. IInv /\ Linked /\ [Next]_vars => IInv' /\ Linked'
    BY NextPreserves, LinkedStep
<1>3. Linked => ChainExact
  <2> SUFFICES ASSUME Linked, NEW v \in Allocated
               PROVE  /\ arr[v].prev = NearestBelow(v)
                      /\ arr[v].prev # NoVersion => arr[arr[v].prev].next = v
      BY DEF ChainExact
  <2> DEFINE S == {u \in Allocated : u < v}
  <2>1. Allocated = AllocatedIn(arr) /\ Allocated \subseteq Int
      BY VersionFacts DEF Allocated, AllocatedIn
  <2>2. /\ arr[v].prev # NoVersion => arr[v].prev \in S /\ arr[arr[v].prev].next = v
        /\ \A u \in S : arr[v].prev # NoVersion /\ u <= arr[v].prev
      BY <2>1 DEF Linked, Chained
  <2>3. CASE S = {}
      BY <2>2, <2>3 DEF NearestBelow
  <2>4. CASE S # {}
    <3>1. arr[v].prev \in S /\ \A u \in S : u <= arr[v].prev
        BY <2>2, <2>4
    <3>2. \A y \in S : (\A u \in S : u <= y) => y = arr[v].prev
        BY <2>1, <3>1
    <3> HIDE DEF S
    <3>3. (CHOOSE y \in S : \A u \in S : u <= y) = arr[v].prev
        BY <3>1, <3>2
    <3>4. NearestBelow(v) = CHOOSE y \in S : \A u \in S : u <= y
        BY <2>4 DEF NearestBelow, S
    <3> QED BY <2>2, <3>3, <3>4
  <2> QED BY <2>3, <2>4
<1> QED BY <1>1, <1>2, <1>3, PTL DEF Spec

-----------------------------------------------------------------------------
(* The times of the versions. *)

IsCell(c) == \E x, y, z : c = [idx |-> x, weight |-> y, stamp |-> z]

\* A stamp in version v is no older than v, and older than now and than every later version.
Dated(a, now, v, s) ==
    /\ s \in Nat /\ a[v].snapTs <= s /\ s < now
    /\ \A u \in Versions : u > v /\ a[u].mem # "none" => s < a[u].snapTs

TimesApart ==
    /\ \A v \in Versions : arr[v].mem # "none" => arr[v].snapTs <= clock
    /\ \A v \in Versions : arr[v].mem = "live" =>
          \A i \in DOMAIN buf[v] :
              /\ IsCell(buf[v][i])
              /\ buf[v][i].stamp # NoStamp => Dated(arr, clock, v, buf[v][i].stamp)
    /\ \A t \in Writers : wr[t].pc = "stamp" =>
          wr[t].stamp \in Nat /\ arr[cur].snapTs <= wr[t].stamp /\ wr[t].stamp < clock

\* The clock and the times of the versions are numbers.
LEMMA TimesType ==
    ASSUME TypeOK
    PROVE  clock \in Nat /\ \A v \in Versions : arr[v].snapTs \in Nat
<1>1. \A v \in Versions : arr[v] \in Headers
    BY DEF TypeOK
<1> QED BY <1>1 DEF TypeOK, Headers

\* Nobody owns a slot while a new array waits to be published.
LEMMA NoneHolding ==
    ASSUME IInv, NEW t \in Writers, wr[t].pc = "publish"
    PROVE  Holding(cur) = {}
<1>1. /\ arr[cur].phys \in Nat /\ arr[cur].cap \in Nat /\ arr[cur].size \in Nat
      /\ arr[cur].phys = arr[cur].cap
    BY CurFacts, HeaderFields DEF IInv, Handover
<1>2. Cardinality(Holding(cur)) = 0
    BY <1>1, HoldingFinite DEF IInv, SlotsAccounted
<1> QED BY <1>2, HoldingFinite, FS_EmptySet

\* A writer with a stamp owns a slot of the current array.
LEMMA StampHolds ==
    ASSUME IInv, NEW t \in Writers, wr[t].pc = "stamp"
    PROVE  t \in Holding(cur) /\ wr[t].arr = cur
BY DEF IInv, SlotsOfWriters, Writing, Holding

\* A step that stamps nothing and draws no stamp.
LEMMA TimeFrame ==
    ASSUME IInv, TimesApart, clock' \in Nat, clock <= clock',
           \A v \in Versions :
              /\ arr'[v].snapTs = arr[v].snapTs
              /\ arr'[v].mem # "none" => arr[v].mem # "none"
              /\ arr'[v].mem = "live" =>
                    /\ arr[v].mem = "live" /\ DOMAIN buf'[v] = DOMAIN buf[v]
                    /\ \A i \in DOMAIN buf[v] :
                          IsCell(buf'[v][i]) /\ buf'[v][i].stamp = buf[v][i].stamp,
           \A t \in Writers : wr'[t].pc = "stamp" =>
              wr[t].pc = "stamp" /\ wr'[t].stamp = wr[t].stamp /\ cur' = cur
    PROVE  TimesApart'
<1>1. clock \in Nat /\ \A v \in Versions : arr[v].snapTs \in Nat
    BY TimesType DEF IInv
<1>2. ASSUME NEW v \in Versions, arr'[v].mem # "none"
      PROVE  arr'[v].snapTs <= clock'
    BY <1>1, <1>2 DEF TimesApart
<1>3. ASSUME NEW v \in Versions, arr'[v].mem = "live", NEW i \in DOMAIN buf'[v]
      PROVE  /\ IsCell(buf'[v][i])
             /\ buf'[v][i].stamp # NoStamp => Dated(arr', clock', v, buf'[v][i].stamp)
  <2>1. /\ arr[v].mem = "live" /\ i \in DOMAIN buf[v]
        /\ IsCell(buf'[v][i]) /\ buf'[v][i].stamp = buf[v][i].stamp
      BY <1>3
  <2>2. buf[v][i].stamp # NoStamp => Dated(arr, clock, v, buf[v][i].stamp)
      BY <2>1 DEF TimesApart
  <2>3. \A s : Dated(arr, clock, v, s) => Dated(arr', clock', v, s)
      BY <1>1 DEF Dated
  <2> QED BY <2>1, <2>2, <2>3
<1>4. ASSUME NEW t \in Writers, wr'[t].pc = "stamp"
      PROVE  wr'[t].stamp \in Nat /\ arr'[cur'].snapTs <= wr'[t].stamp /\ wr'[t].stamp < clock'
    BY <1>1, <1>4, CurFacts DEF TimesApart
<1> QED BY <1>2, <1>3, <1>4 DEF TimesApart

\* The new array of a compaction has no stamps.
LEMMA CompactedCells ==
    ASSUME NEW v, NEW want, NEW sorted, NEW i \in DOMAIN CompactedBuffer(v, want, sorted)
    PROVE  /\ IsCell(CompactedBuffer(v, want, sorted)[i])
           /\ CompactedBuffer(v, want, sorted)[i].stamp = NoStamp
<1> DEFINE num == Cardinality(Kept(v))
           e == buf[v][CHOOSE j \in Kept(v) : Rank(v, sorted, j) = i]
           c == CompactedBuffer(v, want, sorted)[i]
<1>1. CASE i < num
  <2>1. c = [idx |-> e.idx, weight |-> e.weight, stamp |-> NoStamp]
      BY <1>1 DEF CompactedBuffer
  <2> HIDE DEF c, e
  <2>2. IsCell(c) /\ c.stamp = NoStamp
      BY <2>1 DEF IsCell
  <2> QED BY <2>2 DEF c
<1>2. CASE ~(i < num)
  <2>1. c = Cell
      BY <1>2 DEF CompactedBuffer
  <2> HIDE DEF c
  <2>2. IsCell(c) /\ c.stamp = NoStamp
      BY <2>1 DEF IsCell, Cell
  <2> QED BY <2>2 DEF c
<1> QED BY <1>1, <1>2

\* A compaction draws a time that is later than every stamp.
LEMMA TimeAppend ==
    ASSUME IInv, TimesApart, clock' = clock + 1, cur + 1 \in Versions,
           NEW want \in Nat, NEW sorted, arr'[cur + 1].snapTs = clock,
           buf'[cur + 1] = CompactedBuffer(cur, want, sorted),
           \A v \in Versions : v # cur + 1 =>
              /\ arr'[v].snapTs = arr[v].snapTs
              /\ arr'[v].mem # "none" => arr[v].mem # "none" /\ v <= cur
              /\ arr'[v].mem = "live" => arr[v].mem = "live" /\ buf'[v] = buf[v],
           \A t \in Writers : wr'[t].pc # "stamp"
    PROVE  TimesApart'
<1>1. clock \in Nat /\ \A v \in Versions : arr[v].snapTs \in Nat /\ v \in Int
    BY TimesType, VersionFacts DEF IInv
<1>2. cur \in Nat
    BY CurFacts
<1>3. ASSUME NEW v \in Versions, arr'[v].mem # "none"
      PROVE  arr'[v].snapTs <= clock'
    BY <1>1, <1>3 DEF TimesApart
<1>4. ASSUME NEW v \in Versions, arr'[v].mem = "live", NEW i \in DOMAIN buf'[v]
      PROVE  /\ IsCell(buf'[v][i])
             /\ buf'[v][i].stamp # NoStamp => Dated(arr', clock', v, buf'[v][i].stamp)
  <2>1. CASE v = cur + 1
      BY <1>4, <2>1, CompactedCells
  <2>2. CASE v # cur + 1
    <3>1. /\ arr[v].mem = "live" /\ buf'[v] = buf[v] /\ v < cur + 1
          /\ arr'[v].snapTs = arr[v].snapTs
        BY <1>1, <1>2, <1>4, <2>2
    <3>2. /\ IsCell(buf[v][i])
          /\ buf[v][i].stamp # NoStamp => Dated(arr, clock, v, buf[v][i].stamp)
        BY <1>4, <3>1 DEF TimesApart
    <3>3. ASSUME NEW s, Dated(arr, clock, v, s)
          PROVE  Dated(arr', clock', v, s)
      <4>1. s \in Nat /\ arr[v].snapTs <= s /\ s < clock
          BY <3>3 DEF Dated
      <4>2. ASSUME NEW u \in Versions, u > v, arr'[u].mem # "none"
            PROVE  s < arr'[u].snapTs
        <5>1. CASE u = cur + 1
            BY <4>1, <5>1
        <5>2. CASE u # cur + 1
            BY <3>3, <4>2, <5>2 DEF Dated
        <5> QED BY <5>1, <5>2
      <4> QED BY <1>1, <3>1, <4>1, <4>2 DEF Dated
    <3> QED BY <3>1, <3>2, <3>3
  <2> QED BY <2>1, <2>2
<1> QED BY <1>3, <1>4 DEF TimesApart

\* Steps that leave the buffers alone.
LEMMA TimeSameBuffers ==
    ASSUME IInv, TimesApart, clock' \in Nat, clock <= clock', buf' = buf,
           \A v \in Versions : SameVersion(arr'[v], arr[v]),
           \A t \in Writers : wr'[t].pc = "stamp" =>
              wr[t].pc = "stamp" /\ wr'[t].stamp = wr[t].stamp /\ cur' = cur
    PROVE  TimesApart'
<1>1. \A v \in Versions : arr[v].mem = "live" => \A i \in DOMAIN buf[v] : IsCell(buf[v][i])
    BY DEF TimesApart
<1> QED BY <1>1, TimeFrame DEF SameVersion

\* A store to one cell of a buffer.
LEMMA CellStored ==
    ASSUME TypeOK, NEW v \in Versions, NEW i \in DOMAIN buf[v], NEW c,
           buf' = [buf EXCEPT ![v] = [buf[v] EXCEPT ![i] = c]]
    PROVE  /\ DOMAIN buf'[v] = DOMAIN buf[v] /\ buf'[v][i] = c
           /\ \A j \in DOMAIN buf[v] : j # i => buf'[v][j] = buf[v][j]
           /\ \A u \in Versions : u # v => buf'[u] = buf[u]
<1>1. DOMAIN buf = Versions
    BY DEF TypeOK
<1>2. buf'[v] = [buf[v] EXCEPT ![i] = c]
    BY <1>1
<1> QED BY <1>1, <1>2

\* The slot of a writer is a cell of the current array.
LEMMA SlotInBuffer ==
    ASSUME IInv, TimesApart, NEW t \in Writers, wr[t].pc \in Writing
    PROVE  /\ wr[t].arr = cur /\ cur \in Versions /\ arr[cur].mem = "live"
           /\ wr[t].slot \in DOMAIN buf[cur] /\ IsCell(buf[cur][wr[t].slot])
<1>1. /\ wr[t].arr = cur /\ cur \in Versions /\ arr[cur].mem = "live"
      /\ wr[t].slot < arr[cur].cap /\ wr[t].slot \in Nat /\ arr[cur].cap \in Nat
    BY CurFacts, WriterFields, HeaderFields DEF IInv, SlotsOfWriters, VersionsSane
<1>2. DOMAIN buf[cur] = 0 .. (arr[cur].cap - 1)
    BY <1>1 DEF IInv, TypeOK
<1>3. wr[t].slot \in DOMAIN buf[cur]
    BY <1>1, <1>2
<1> QED BY <1>1, <1>3 DEF TimesApart

LEMMA TimeWrite ==
    ASSUME IInv, TimesApart, NEW t \in Writers, WriteIdx(t) \/ WriteWeight(t)
    PROVE  TimesApart'
<1> DEFINE s == wr[t].slot
           b == buf[cur][s]
<1>1. wr[t].arr = cur /\ cur \in Versions /\ s \in DOMAIN buf[cur] /\ IsCell(b)
    BY SlotInBuffer DEF WriteIdx, WriteWeight, Writing
<1>2. PICK x, y, z : b = [idx |-> x, weight |-> y, stamp |-> z]
    BY <1>1 DEF IsCell
<1>3. \E c : /\ buf' = [buf EXCEPT ![cur] = [buf[cur] EXCEPT ![s] = c]]
             /\ IsCell(c) /\ c.stamp = b.stamp
  <2>1. CASE WriteIdx(t)
    <3> DEFINE n == wr[t].call.idx
               c == [b EXCEPT !.idx = n]
    <3>1. buf' = [buf EXCEPT ![cur] = [buf[cur] EXCEPT ![s] = c]]
        BY <1>1, <2>1 DEF WriteIdx
    <3> HIDE DEF b, n
    <3>2. c = [idx |-> n, weight |-> y, stamp |-> z]
        BY <1>2
    <3>3. IsCell(c) /\ c.stamp = b.stamp
        BY <1>2, <3>2 DEF IsCell
    <3> QED BY <3>1, <3>3
  <2>2. CASE WriteWeight(t)
    <3> DEFINE n == wr[t].call.weight
               c == [b EXCEPT !.weight = n]
    <3>1. buf' = [buf EXCEPT ![cur] = [buf[cur] EXCEPT ![s] = c]]
        BY <1>1, <2>2 DEF WriteWeight
    <3> HIDE DEF b, n
    <3>2. c = [idx |-> x, weight |-> n, stamp |-> z]
        BY <1>2
    <3>3. IsCell(c) /\ c.stamp = b.stamp
        BY <1>2, <3>2 DEF IsCell
    <3> QED BY <3>1, <3>3
  <2> QED BY <2>1, <2>2
<1>4. PICK c : /\ buf' = [buf EXCEPT ![cur] = [buf[cur] EXCEPT ![s] = c]]
               /\ IsCell(c) /\ c.stamp = b.stamp
    BY <1>3
<1>5. /\ DOMAIN buf'[cur] = DOMAIN buf[cur] /\ buf'[cur][s] = c
      /\ \A j \in DOMAIN buf[cur] : j # s => buf'[cur][j] = buf[cur][j]
      /\ \A u \in Versions : u # cur => buf'[u] = buf[u]
    BY <1>1, <1>4, CellStored DEF IInv
<1>6. /\ clock' = clock /\ clock \in Nat /\ arr' = arr /\ cur' = cur
      /\ \A u \in Writers : wr'[u].pc = "stamp" => u # t
      /\ \A u \in Writers : u # t => wr'[u] = wr[u]
  <2>1. wr \in [Writers -> WriterStates] /\ \E p \in {"weight", "commit"} : SetWriter(t, p)
      BY DEF WriteIdx, WriteWeight, IInv, TypeOK
  <2>2. wr'[t].pc # "stamp" /\ \A u \in Writers : u # t => wr'[u] = wr[u]
      BY <2>1, SetWriterFields DEF IInv, WriterPcs
  <2> QED BY <2>2, TimesType DEF WriteIdx, WriteWeight, IInv
<1>7. \A v \in Versions : arr[v].mem = "live" =>
          /\ DOMAIN buf'[v] = DOMAIN buf[v]
          /\ \A i \in DOMAIN buf[v] : IsCell(buf'[v][i]) /\ buf'[v][i].stamp = buf[v][i].stamp
  <2>1. \A v \in Versions : arr[v].mem = "live" => \A i \in DOMAIN buf[v] : IsCell(buf[v][i])
      BY DEF TimesApart
  <2> QED BY <1>4, <1>5, <2>1
<1>8. clock' \in Nat /\ clock <= clock'
    BY <1>6
<1> HIDE DEF s, b
<1> QED BY <1>6, <1>7, <1>8, TimeFrame

\* A log entry is stamped by the clock, in an array that nothing has replaced yet.
LEMMA TimeStamp ==
    ASSUME IInv, Linked, TimesApart, NEW t \in Writers, Stamp(t)
    PROVE  TimesApart'
<1> DEFINE s == wr[t].slot
           b == buf[cur][s]
           z == wr[t].stamp
           c == [b EXCEPT !.stamp = z]
<1>1. /\ wr[t].arr = cur /\ cur \in Versions /\ cur \in Nat /\ arr[cur].mem = "live"
      /\ s \in DOMAIN buf[cur] /\ IsCell(b) /\ wr[t].pc = "stamp"
    BY SlotInBuffer, CurFacts DEF Stamp, Writing
<1>2. z \in Nat /\ arr[cur].snapTs <= z /\ z < clock
    BY <1>1 DEF TimesApart
<1>3. buf' = [buf EXCEPT ![cur] = [buf[cur] EXCEPT ![s] = c]]
    BY <1>1 DEF Stamp
<1>4. IsCell(c) /\ c.stamp = z
  <2>1. PICK x, y, w : b = [idx |-> x, weight |-> y, stamp |-> w]
      BY <1>1 DEF IsCell
  <2> HIDE DEF b, z
  <2>2. c = [idx |-> x, weight |-> y, stamp |-> z]
      BY <2>1
  <2> QED BY <2>2 DEF IsCell
<1> HIDE DEF c
<1>5. /\ DOMAIN buf'[cur] = DOMAIN buf[cur] /\ buf'[cur][s] = c
      /\ \A j \in DOMAIN buf[cur] : j # s => buf'[cur][j] = buf[cur][j]
      /\ \A u \in Versions : u # cur => buf'[u] = buf[u]
    BY <1>1, <1>3, CellStored DEF IInv
<1>6. /\ cur' = cur /\ clock' = clock
      /\ \A u \in Writers : u # t => wr'[u] = wr[u]
      /\ \A v \in Versions : SameVersion(arr'[v], arr[v])
  <2>1. QuietWriter(t)
      BY DEF QuietWriter
  <2> QED BY <2>1, QuietWriterFields DEF Stamp
<1>7. wr'[t].pc # "stamp"
  <2>1. SetWriter(t, "idx")
      BY DEF Stamp
  <2> QED BY <2>1, SetWriterFields DEF IInv, WriterPcs
<1>8. \A u \in Versions : u > cur => arr[u].mem = "none"
  <2>1. \A u \in Writers : wr[u].pc # "publish"
      BY <1>1, NoneHolding, StampHolds
  <2> QED BY <2>1 DEF Linked, NewestKnown
<1>9. Dated(arr, clock, cur, z)
    BY <1>2, <1>8 DEF Dated
<1>10. \A v \in Versions : \A x : Dated(arr, clock, v, x) => Dated(arr', clock', v, x)
    BY <1>6 DEF Dated, SameVersion
<1> HIDE DEF s, b, z
<1>11. ASSUME NEW v \in Versions, arr'[v].mem = "live", NEW i \in DOMAIN buf'[v]
       PROVE  /\ IsCell(buf'[v][i])
              /\ buf'[v][i].stamp # NoStamp => Dated(arr', clock', v, buf'[v][i].stamp)
  <2>1. arr[v].mem = "live" /\ i \in DOMAIN buf[v]
      BY <1>5, <1>6, <1>11 DEF SameVersion
  <2>2. IsCell(buf[v][i]) /\ (buf[v][i].stamp # NoStamp => Dated(arr, clock, v, buf[v][i].stamp))
      BY <2>1 DEF TimesApart
  <2>3. CASE v = cur /\ i = s
      BY <1>1, <1>4, <1>5, <1>9, <1>10, <2>3
  <2>4. CASE ~(v = cur /\ i = s)
    <3>1. buf'[v][i] = buf[v][i]
        BY <1>5, <2>1, <2>4
    <3> QED BY <1>10, <2>2, <3>1
  <2> QED BY <2>3, <2>4
<1>12. \A v \in Versions : arr'[v].mem # "none" => arr'[v].snapTs <= clock'
    BY <1>6 DEF SameVersion, TimesApart
<1>13. \A u \in Writers : wr'[u].pc = "stamp" =>
           wr'[u].stamp \in Nat /\ arr'[cur'].snapTs <= wr'[u].stamp /\ wr'[u].stamp < clock'
    BY <1>1, <1>6, <1>7 DEF SameVersion, TimesApart
<1> QED BY <1>11, <1>12, <1>13 DEF TimesApart

\* A writer draws its stamp from the clock.
LEMMA TimeTick ==
    ASSUME IInv, TimesApart, NEW t \in Writers, Tick(t)
    PROVE  TimesApart'
<1>1. /\ cur \in Versions /\ clock \in Nat /\ wr[t] \in WriterStates
      /\ \A v \in Versions : arr[v].snapTs \in Nat
    BY CurFacts, TimesType DEF IInv, TypeOK
<1>2. /\ cur' = cur /\ arr' = arr /\ buf' = buf /\ clock' = clock + 1
      /\ \A u \in Writers : u # t => wr'[u] = wr[u]
    BY DEF Tick, IInv, TypeOK
<1>3. wr'[t].stamp = clock
  <2>1. wr' = [wr EXCEPT ![t] = [wr[t] EXCEPT !.pc = "stamp", !.stamp = clock]]
      BY DEF Tick
  <2>2. wr'[t] = [wr[t] EXCEPT !.pc = "stamp", !.stamp = clock]
      BY <2>1 DEF IInv, TypeOK
  <2> QED BY <1>1, <2>2 DEF WriterStates
<1>4. arr[cur].snapTs <= clock
    BY <1>1 DEF TimesApart, IInv, VersionsSane
<1>5. \A v \in Versions : \A s : Dated(arr, clock, v, s) => Dated(arr', clock', v, s)
    BY <1>1, <1>2 DEF Dated
<1>6. \A v \in Versions : arr'[v].mem = "live" => \A i \in DOMAIN buf'[v] :
          /\ IsCell(buf'[v][i])
          /\ buf'[v][i].stamp # NoStamp => Dated(arr', clock', v, buf'[v][i].stamp)
    BY <1>2, <1>5 DEF TimesApart
<1>7. \A v \in Versions : arr'[v].mem # "none" => arr'[v].snapTs <= clock'
    BY <1>1, <1>2 DEF TimesApart
<1>8. \A u \in Writers : wr'[u].pc = "stamp" =>
          wr'[u].stamp \in Nat /\ arr'[cur'].snapTs <= wr'[u].stamp /\ wr'[u].stamp < clock'
  <2>1. wr'[t].stamp \in Nat /\ arr'[cur'].snapTs <= wr'[t].stamp /\ wr'[t].stamp < clock'
      BY <1>1, <1>2, <1>3, <1>4
  <2>2. \A u \in Writers : wr[u].pc = "stamp" =>
            wr[u].stamp \in Nat /\ arr[cur].snapTs <= wr[u].stamp /\ wr[u].stamp < clock
      BY DEF TimesApart
  <2>3. ASSUME NEW u \in Writers, u # t, wr'[u].pc = "stamp"
        PROVE  wr'[u].stamp \in Nat /\ arr'[cur'].snapTs <= wr'[u].stamp /\ wr'[u].stamp < clock'
    <3>1. wr'[u] = wr[u]
        BY <1>2, <2>3
    <3> QED BY <1>1, <1>2, <2>2, <2>3, <3>1
  <2> QED BY <2>1, <2>3
<1> QED BY <1>6, <1>7, <1>8 DEF TimesApart

\* The other steps of a writer that touch counters and its own state.
LEMMA TimeQuiet ==
    ASSUME IInv, Mixed, TimesApart, NEW t \in Writers,
           \/ Call(t) \/ Reserve(t) \/ UseAfterFree(t) \/ Lock(t) \/ Reload(t) \/ Commit(t)
    PROVE  TimesApart'
<1>1. QuietWriter(t)
    BY DEF QuietWriter
<1>2. /\ cur' = cur /\ \A v \in Versions : SameVersion(arr'[v], arr[v])
      /\ \A u \in Writers : u # t => wr'[u] = wr[u]
    BY <1>1, QuietWriterFields
<1>3. buf' = buf /\ clock' = clock /\ clock \in Nat
    BY TimesType DEF Call, Reserve, UseAfterFree, Lock, Reload, Commit, IInv
<1>4. wr'[t].pc # "stamp"
  <2>1. wr \in [Writers -> WriterStates] /\ wr[t] \in WriterStates /\ cur \in Versions
        /\ \A v \in 0 .. cur : v \in Versions
      BY CurFacts DEF IInv, TypeOK
  <2>2. CASE Call(t) \/ Commit(t)
    <3>1. CASE Call(t)
      <4>1. \E c, d : wr' = [wr EXCEPT ![t] = [IdleWriter EXCEPT !.pc = "reserve",
                                                !.arr = c, !.call = d]]
          BY <3>1 DEF Call
      <4>2. PICK c, d : wr' = [wr EXCEPT ![t] = [IdleWriter EXCEPT !.pc = "reserve",
                                                  !.arr = c, !.call = d]]
          BY <4>1
      <4>3. wr'[t].pc = "reserve"
          BY <2>1, <4>2 DEF IdleWriter
      <4> QED BY <4>3
    <3>2. CASE Commit(t)
      <4>1. wr'[t] = IdleWriter
          BY <2>1, <3>2 DEF Commit
      <4> QED BY <4>1 DEF IdleWriter
    <3> QED BY <2>2, <3>1, <3>2
  <2>3. CASE Reserve(t) \/ Reload(t)
    <3>1. wr[t].pc = "reserve" => wr[t].arr \in Versions
        BY <2>1 DEF IInv, PointersInChain
    <3>2. PICK w \in Versions : TakeSlot(t, w)
        BY <2>1, <2>3, <3>1 DEF Reserve, Reload
    <3> QED BY <3>2, TakeSlotFields DEF IInv
  <2>4. CASE UseAfterFree(t)
      BY <2>4, SetWriterFields DEF UseAfterFree, IInv, WriterPcs
  <2>5. CASE Lock(t)
    <3>1. CASE SetWriter(t, "reload")
        BY <3>1, SetWriterFields DEF IInv, WriterPcs
    <3>2. CASE wr' = [wr EXCEPT ![t].pc = "wait", ![t].arr = cur]
      <4>1. wr' = [wr EXCEPT ![t] = [wr[t] EXCEPT !.pc = "wait", !.arr = cur]]
          BY <3>2
      <4>2. wr'[t] = [wr[t] EXCEPT !.pc = "wait", !.arr = cur]
          BY <2>1, <4>1
      <4> QED BY <2>1, <4>2 DEF WriterStates
    <3> QED BY <2>5, <3>1, <3>2 DEF Lock
  <2> QED BY <2>2, <2>3, <2>4, <2>5
<1>5. clock' \in Nat /\ clock <= clock'
    BY <1>3
<1> QED BY <1>2, <1>3, <1>4, <1>5, TimeSameBuffers

\* Deleting an array changes no version's time.
LEMMA DeleteKeeps ==
    ASSUME NEW a \in [Versions -> Headers], NEW v \in Versions, NEW n \in Nat,
           NEW u \in Versions
    PROVE  Delete(a, v, n)[u].snapTs = a[u].snapTs /\ Delete(a, v, n)[u].deg = a[u].deg
<1> DEFINE d == Delete(a, v, n)
           p == a[v].prev
           q == a[v].next
<1>1. d[u] = IF u = v THEN [a[u] EXCEPT !.mem = "freed", !.freedAt = n]
             ELSE IF u = q THEN [a[u] EXCEPT !.prev = p]
             ELSE IF u = p THEN [a[u] EXCEPT !.next = q]
             ELSE a[u]
    BY DEF Delete
<1>2. a[u] \in Headers
    OBVIOUS
<1> HIDE DEF d, p, q
<1>3. d[u].snapTs = a[u].snapTs /\ d[u].deg = a[u].deg
    BY <1>1, <1>2 DEF Headers
<1> QED BY <1>3 DEF d

LEMMA TimeCompact ==
    ASSUME IInv, Linked, TimesApart, NEW t \in Writers, Compact(t)
    PROVE  TimesApart'
<1>1. /\ TypeOK /\ cur \in Versions /\ cur \in Nat /\ cur + 1 \in Versions
      /\ Holding(cur) = {} /\ DOMAIN buf = Versions
    BY CurFacts, CompactWant DEF IInv, TypeOK
<1>2. PICK want \in Nat :
          /\ arr' = [arr EXCEPT ![cur + 1] = Compacted(cur, want), ![cur].next = cur + 1]
          /\ buf' = [buf EXCEPT ![cur + 1] = CompactedBuffer(cur, want, FALSE)]
    BY CompactWant
<1>3. clock' = clock + 1 /\ SetWriter(t, "publish") /\ wr[t].pc = "wait"
    BY DEF Compact
<1>4. /\ arr'[cur + 1] = Compacted(cur, want)
      /\ arr'[cur].mem = arr[cur].mem /\ arr'[cur].snapTs = arr[cur].snapTs
      /\ \A v \in Versions : v # cur /\ v # cur + 1 => arr'[v] = arr[v]
    BY <1>1, <1>2, AppendedFields
<1>5. arr'[cur + 1].snapTs = clock
    BY <1>1, <1>4, CompactedTime
<1>6. buf'[cur + 1] = CompactedBuffer(cur, want, FALSE)
      /\ \A v \in Versions : v # cur + 1 => buf'[v] = buf[v]
  <2> DEFINE b == CompactedBuffer(cur, want, FALSE)
  <2>1. buf' = [buf EXCEPT ![cur + 1] = b]
      BY <1>2
  <2> HIDE DEF b
  <2>2. buf'[cur + 1] = b /\ \A v \in Versions : v # cur + 1 => buf'[v] = buf[v]
      BY <1>1, <2>1
  <2> QED BY <2>2 DEF b
<1>7. \A u \in Writers : wr[u].pc # "publish"
    BY <1>3, OneInside DEF WriterInside
<1>8. \A v \in Versions : arr[v].mem # "none" => v <= cur
    BY <1>1, <1>7, VersionFacts DEF Linked, NewestKnown
<1>9. ASSUME NEW v \in Versions, v # cur + 1
      PROVE  /\ arr'[v].snapTs = arr[v].snapTs
             /\ arr'[v].mem # "none" => arr[v].mem # "none" /\ v <= cur
             /\ arr'[v].mem = "live" => arr[v].mem = "live" /\ buf'[v] = buf[v]
    BY <1>4, <1>6, <1>8, <1>9
<1>10. \A u \in Writers : wr'[u].pc # "stamp"
  <2>1. \A u \in Writers : wr[u].pc # "stamp"
      BY <1>1, StampHolds
  <2> QED BY <1>1, <1>3, <2>1, SetWriterFields DEF WriterPcs
<1> QED BY <1>1, <1>3, <1>5, <1>6, <1>9, <1>10, TimeAppend

LEMMA TimePublish ==
    ASSUME IInv, TimesApart, NEW t \in Writers, Publish(t)
    PROVE  TimesApart'
<1>1. /\ wr[t].pc = "publish" /\ SetWriter(t, "reclaim")
      /\ arr' = arr /\ buf' = buf /\ clock' = clock /\ clock \in Nat
    BY TimesType DEF Publish, IInv
<1>2. \A u \in Writers : wr'[u].pc # "stamp"
  <2>1. \A u \in Writers : wr[u].pc # "stamp"
      BY <1>1, NoneHolding, StampHolds
  <2> QED BY <1>1, <2>1, SetWriterFields DEF IInv, WriterPcs
<1>3. \A v \in Versions : SameVersion(arr'[v], arr[v])
    BY <1>1 DEF SameVersion
<1>4. clock' \in Nat /\ clock <= clock'
    BY <1>1
<1> QED BY <1>1, <1>2, <1>3, <1>4, TimeSameBuffers

\* A step that takes old arrays apart: the versions that stay live keep their buffers.
LEMMA TimeRetire ==
    ASSUME IInv, TimesApart, clock' = clock, cur' = cur,
           \A v \in Versions :
              /\ arr'[v].snapTs = arr[v].snapTs
              /\ arr'[v].mem # "none" => arr[v].mem # "none"
              /\ arr'[v].mem = "live" => arr[v].mem = "live" /\ buf'[v] = buf[v],
           \A t \in Writers : wr'[t].pc = "stamp" =>
              wr[t].pc = "stamp" /\ wr'[t].stamp = wr[t].stamp
    PROVE  TimesApart'
<1>1. \A v \in Versions : arr[v].mem = "live" => \A i \in DOMAIN buf[v] : IsCell(buf[v][i])
    BY DEF TimesApart
<1>2. clock' \in Nat /\ clock <= clock'
    BY TimesType DEF IInv
<1> QED BY <1>1, <1>2, TimeFrame

\* What taking old arrays apart leaves alone.
Retiring(v) ==
    /\ SameSlots(arr'[v], arr[v]) /\ arr'[v].snapTs = arr[v].snapTs
    /\ arr'[v].mem # "none" => arr[v].mem # "none"
    /\ arr'[v].mem = "live" => arr[v].mem = "live" /\ buf'[v] = buf[v]

LEMMA ReclaimFields ==
    ASSUME IInv, Linked, NEW t \in Writers, Reclaim(t)
    PROVE  \A v \in Versions : Retiring(v)
<1> DEFINE old == wr[t].arr
           before == arr[old].prev
           shell == [arr[old] EXCEPT !.mem = "shell"]
           purged == [arr EXCEPT ![old].mem = "shell"]
<1>1. /\ TypeOK /\ cur \in Nat /\ arr \in [Versions -> Headers] /\ DOMAIN buf = Versions
      /\ \A v \in 0 .. cur : v \in Versions
    BY CurFacts DEF IInv, TypeOK
<1>2. /\ old \in Versions /\ wr[t].pc = "reclaim" /\ arr[old].mem = "live"
      /\ cur' = cur /\ clock' = clock /\ SetWriter(t, "reload")
    BY <1>1 DEF Reclaim, IInv, PointersInChain, Handover
<1>3. /\ shell \in Headers /\ shell.mem = "shell" /\ shell.snapTs = arr[old].snapTs
      /\ shell.size = arr[old].size /\ shell.cap = arr[old].cap
      /\ shell.snapDeg = arr[old].snapDeg
      /\ shell.phys = arr[old].phys /\ shell.deg = arr[old].deg
    BY <1>1, <1>2 DEF Headers
<1>4. purged = [arr EXCEPT ![old] = shell]
    OBVIOUS
<1> HIDE DEF shell
<1>5. /\ purged \in [Versions -> Headers]
      /\ \A v \in Versions : /\ purged[v].snapTs = arr[v].snapTs
                             /\ purged[v].size = arr[v].size /\ purged[v].cap = arr[v].cap
                             /\ purged[v].snapDeg = arr[v].snapDeg
                             /\ purged[v].phys = arr[v].phys /\ purged[v].deg = arr[v].deg
                             /\ v # old => purged[v] = arr[v]
      /\ purged[old].mem = "shell"
    BY <1>1, <1>2, <1>3, <1>4
<1>6. before # NoVersion => before \in Versions /\ arr[before].mem # "none"
    BY <1>2 DEF Linked, Chained, AllocatedIn
<1>7. \/ arr' = arr /\ buf' = buf
      \/ arr' = purged /\ buf' = [buf EXCEPT ![old] = NoBuffer]
      \/ /\ before # NoVersion /\ arr' = Delete(purged, before, cur)
         /\ buf' = [buf EXCEPT ![old] = NoBuffer, ![before] = NoBuffer]
    BY DEF Reclaim
<1> HIDE DEF purged, before
<1>8. ASSUME NEW v \in Versions
      PROVE  Retiring(v)
  <2>1. CASE arr' = arr /\ buf' = buf
      BY <2>1 DEF Retiring, SameSlots
  <2>2. CASE arr' = purged /\ buf' = [buf EXCEPT ![old] = NoBuffer]
    <3>1. v # old => buf'[v] = buf[v]
        BY <1>1, <2>2
    <3> QED BY <1>2, <1>5, <2>2, <3>1 DEF Retiring, SameSlots
  <2>3. CASE /\ before # NoVersion /\ arr' = Delete(purged, before, cur)
             /\ buf' = [buf EXCEPT ![old] = NoBuffer, ![before] = NoBuffer]
    <3>1. /\ arr'[before].mem = "freed"
          /\ v # before => arr'[v].mem = purged[v].mem
          /\ arr'[v].size = purged[v].size /\ arr'[v].cap = purged[v].cap
          /\ arr'[v].snapDeg = purged[v].snapDeg /\ arr'[v].phys = purged[v].phys
        BY <1>1, <1>5, <1>6, <2>3, DeleteFields
    <3>2. arr'[v].snapTs = arr[v].snapTs /\ arr'[v].deg = arr[v].deg
        BY <1>1, <1>5, <1>6, <2>3, DeleteKeeps
    <3>3. v # old /\ v # before => buf'[v] = buf[v]
        BY <1>1, <2>3
    <3> QED BY <1>2, <1>5, <1>6, <2>3, <3>1, <3>2, <3>3 DEF Retiring, SameSlots
  <2> QED BY <1>7, <2>1, <2>2, <2>3
<1> QED BY <1>8

LEMMA TimeReclaim ==
    ASSUME IInv, Linked, TimesApart, NEW t \in Writers, Reclaim(t)
    PROVE  TimesApart'
<1>1. cur' = cur /\ clock' = clock /\ SetWriter(t, "reload")
    BY DEF Reclaim
<1>2. \A u \in Writers : wr'[u].pc = "stamp" =>
          wr[u].pc = "stamp" /\ wr'[u].stamp = wr[u].stamp
    BY <1>1, SetWriterFields DEF IInv, WriterPcs
<1> QED BY <1>1, <1>2, ReclaimFields, TimeRetire DEF Retiring

LEMMA UnpinFields ==
    ASSUME IInv, NEW r \in Readers, Unpin(r)
    PROVE  \A v \in Versions : Retiring(v)
<1> DEFINE p == rd[r].arr
           n == arr[p].reads - 1
           h == [arr[p] EXCEPT !.reads = n]
           left == [arr EXCEPT ![p].reads = @ - 1]
<1>1. /\ TypeOK /\ cur \in Nat /\ arr \in [Versions -> Headers] /\ DOMAIN buf = Versions
      /\ \A v \in 0 .. cur : v \in Versions
    BY CurFacts DEF IInv, TypeOK
<1>2. p \in Versions /\ arr[p].mem = "live" /\ r \in Pinned(p)
    BY <1>1 DEF Unpin, IInv, PointersInChain, Pinning, PinsHold, Pinned
<1>3. arr[p].reads \in Nat /\ arr[p].reads # 0
  <2>1. IsFiniteSet(Pinned(p))
      BY FiniteThreads, FS_Subset DEF Pinned
  <2>2. Cardinality(Pinned(p)) # 0
      BY <1>2, <2>1, FS_EmptySet
  <2> QED BY <1>1, <1>2, <2>2, HeaderFields DEF IInv, PinsHold
<1>4. n \in Nat
    BY <1>3
<1>5. left = [arr EXCEPT ![p] = h]
    OBVIOUS
<1> HIDE DEF n
<1>6. /\ h \in Headers /\ h.mem = arr[p].mem /\ h.snapTs = arr[p].snapTs
      /\ h.size = arr[p].size /\ h.cap = arr[p].cap /\ h.snapDeg = arr[p].snapDeg
      /\ h.phys = arr[p].phys /\ h.deg = arr[p].deg
    BY <1>1, <1>2, <1>4 DEF Headers
<1> HIDE DEF h
<1>7. /\ left \in [Versions -> Headers]
      /\ \A v \in Versions : /\ left[v].snapTs = arr[v].snapTs /\ left[v].mem = arr[v].mem
                             /\ left[v].size = arr[v].size /\ left[v].cap = arr[v].cap
                             /\ left[v].snapDeg = arr[v].snapDeg
                             /\ left[v].phys = arr[v].phys /\ left[v].deg = arr[v].deg
    BY <1>1, <1>2, <1>5, <1>6
<1>8. \/ arr' = left /\ buf' = buf
      \/ arr' = Delete(left, p, cur) /\ buf' = [buf EXCEPT ![p] = NoBuffer]
    BY DEF Unpin
<1> HIDE DEF left
<1>9. ASSUME NEW v \in Versions
      PROVE  Retiring(v)
  <2>1. CASE arr' = left /\ buf' = buf
      BY <1>7, <2>1 DEF Retiring, SameSlots
  <2>2. CASE arr' = Delete(left, p, cur) /\ buf' = [buf EXCEPT ![p] = NoBuffer]
    <3>1. /\ arr'[p].mem = "freed"
          /\ v # p => arr'[v].mem = left[v].mem
          /\ arr'[v].size = left[v].size /\ arr'[v].cap = left[v].cap
          /\ arr'[v].snapDeg = left[v].snapDeg /\ arr'[v].phys = left[v].phys
        BY <1>1, <1>2, <1>7, <2>2, DeleteFields
    <3>2. arr'[v].snapTs = arr[v].snapTs /\ arr'[v].deg = arr[v].deg
        BY <1>1, <1>2, <1>7, <2>2, DeleteKeeps
    <3>3. v # p => buf'[v] = buf[v]
        BY <1>1, <2>2
    <3> QED BY <1>2, <1>7, <3>1, <3>2, <3>3 DEF Retiring, SameSlots
  <2> QED BY <1>8, <2>1, <2>2
<1> QED BY <1>9

LEMMA TimeUnpin ==
    ASSUME IInv, TimesApart, NEW r \in Readers, Unpin(r)
    PROVE  TimesApart'
<1>1. cur' = cur /\ clock' = clock /\ wr' = wr
    BY DEF Unpin
<1> QED BY <1>1, UnpinFields, TimeRetire DEF Retiring

LEMMA TimeReader ==
    ASSUME IInv, TimesApart, NEW r \in Readers, QuietReader(r)
    PROVE  TimesApart'
<1>1. clock' \in Nat /\ clock <= clock'
  <2>1. clock' \in {clock, clock + 1}
      BY DEF QuietReader, Ask, LockForRead, WalkBack, Pin, Count, Scan, Read
  <2> QED BY <2>1, TimesType DEF IInv
<1>2. /\ cur' = cur /\ wr' = wr /\ buf' = buf
      /\ \A v \in Versions : SameVersion(arr'[v], arr[v])
    BY QuietReaderFields
<1> QED BY <1>1, <1>2, TimeSameBuffers

LEMMA TimeSnapshot ==
    ASSUME IInv, Linked, TimesApart, NEW sorted \in BOOLEAN, NEW dense \in BOOLEAN,
           CreateSnapshot(sorted, dense)
    PROVE  TimesApart'
<1>1. /\ TypeOK /\ cur \in Versions /\ cur \in Nat /\ cur + 1 \in Versions
      /\ cur + 1 \in Nat /\ cur # cur + 1 /\ DOMAIN buf = Versions
      /\ arr[cur].mem = "live"
    BY CurFacts, SnapshotWant DEF IInv, TypeOK, VersionsSane
<1>2. PICK want \in Nat :
          /\ arr' = Delete([arr EXCEPT ![cur + 1] = Compacted(cur, want),
                                       ![cur].next = cur + 1], cur, cur + 1)
          /\ buf' = [buf EXCEPT ![cur + 1] = CompactedBuffer(cur, want, sorted),
                                ![cur] = NoBuffer]
    BY SnapshotWant
<1>3. clock' = clock + 1 /\ wr' = wr /\ \A u \in Writers : wr[u].pc = "idle"
    BY DEF CreateSnapshot, AllIdle
<1> DEFINE a == [arr EXCEPT ![cur + 1] = Compacted(cur, want), ![cur].next = cur + 1]
<1>4. /\ a \in [Versions -> Headers]
      /\ a[cur + 1] = Compacted(cur, want)
      /\ a[cur].mem = arr[cur].mem /\ a[cur].snapTs = arr[cur].snapTs
      /\ \A v \in Versions : v # cur /\ v # cur + 1 => a[v] = arr[v]
  <2>1. cur + 1 \in Versions
      BY <1>1
  <2> QED BY <2>1, AppendedFields
<1> DEFINE b == CompactedBuffer(cur, want, sorted)
<1>5. arr' = Delete(a, cur, cur + 1) /\ buf' = [buf EXCEPT ![cur + 1] = b, ![cur] = NoBuffer]
    BY <1>2
<1> HIDE DEF a, b
<1>6. /\ arr'[cur].mem = "freed"
      /\ \A v \in Versions : v # cur => arr'[v].mem = a[v].mem
    BY <1>1, <1>4, <1>5, DeleteFields
<1>7. \A v \in Versions : arr'[v].snapTs = a[v].snapTs
    BY <1>1, <1>4, <1>5, DeleteKeeps
<1>8. arr'[cur + 1].snapTs = clock
    BY <1>1, <1>4, <1>7, CompactedTime
<1>9. buf'[cur + 1] = b /\ \A v \in Versions : v # cur /\ v # cur + 1 => buf'[v] = buf[v]
    BY <1>1, <1>5
<1>10. \A v \in Versions : arr[v].mem # "none" => v <= cur
    BY <1>1, <1>3, VersionFacts DEF Linked, NewestKnown
<1>11. ASSUME NEW v \in Versions, v # cur + 1
       PROVE  /\ arr'[v].snapTs = arr[v].snapTs
              /\ arr'[v].mem # "none" => arr[v].mem # "none" /\ v <= cur
              /\ arr'[v].mem = "live" => arr[v].mem = "live" /\ buf'[v] = buf[v]
    BY <1>1, <1>4, <1>6, <1>7, <1>9, <1>10, <1>11
<1>12. \A u \in Writers : wr'[u].pc # "stamp"
    BY <1>3
<1> QED BY <1>1, <1>3, <1>8, <1>9, <1>11, <1>12, TimeAppend DEF b

LEMMA TimeInit ==
    ASSUME Init
    PROVE  TimesApart
<1>1. 0 \in Versions /\ InitCap \in Nat
    BY ConstantsAssumption DEF ConstantsAssumption, Versions
<1>2. /\ \A v \in Versions : arr[v].snapTs = 0 /\ (v # 0 => arr[v].mem = "none")
      /\ clock = 0 /\ \A t \in Writers : wr[t].pc = "idle"
    BY <1>1 DEF Init, Unallocated, IdleWriter
<1>3. \A i \in DOMAIN buf[0] : buf[0][i] = Cell
    BY <1>1 DEF Init
<1>4. IsCell(Cell) /\ Cell.stamp = NoStamp
    BY DEF IsCell, Cell
<1>5. \A v \in Versions : arr[v].mem = "live" =>
          \A i \in DOMAIN buf[v] : IsCell(buf[v][i]) /\ buf[v][i].stamp = NoStamp
    BY <1>2, <1>3, <1>4
<1> QED BY <1>2, <1>5 DEF TimesApart

LEMMA TimeStutter ==
    ASSUME IInv, TimesApart, UNCHANGED vars
    PROVE  TimesApart'
<1>1. clock' \in Nat /\ clock <= clock'
    BY TimesType DEF vars, IInv
<1> QED BY <1>1, TimeSameBuffers DEF vars, SameVersion

\* Every step of a graph with mixed workloads keeps the versions apart in time.
LEMMA TimeStep ==
    ASSUME IInv, Linked, Mixed, TimesApart, [Next]_vars
    PROVE  TimesApart'
<1>1. CASE UNCHANGED vars
    BY <1>1, TimeStutter
<1>2. ASSUME NEW t \in Writers, Call(t) \/ WriterStep(t)
      PROVE  TimesApart'
  <2>1. CASE \/ Call(t) \/ Reserve(t) \/ UseAfterFree(t) \/ Lock(t) \/ Reload(t) \/ Commit(t)
      BY <2>1, TimeQuiet
  <2>2. CASE Compact(t)
      BY <2>2, TimeCompact
  <2>3. CASE Publish(t)
      BY <2>3, TimePublish
  <2>4. CASE Reclaim(t)
      BY <2>4, TimeReclaim
  <2>5. CASE Tick(t)
      BY <2>5, TimeTick
  <2>6. CASE Stamp(t)
      BY <2>6, TimeStamp
  <2>7. CASE WriteIdx(t) \/ WriteWeight(t)
      BY <2>7, TimeWrite
  <2> QED BY <1>2, <2>1, <2>2, <2>3, <2>4, <2>5, <2>6, <2>7 DEF WriterStep
<1>3. ASSUME NEW r \in Readers, Ask(r) \/ ReaderStep(r)
      PROVE  TimesApart'
  <2>1. CASE QuietReader(r)
      BY <2>1, TimeReader
  <2>2. CASE Unpin(r)
      BY <2>2, TimeUnpin
  <2> QED BY <1>3, <2>1, <2>2 DEF ReaderStep, QuietReader
<1>4. ASSUME NEW sorted \in BOOLEAN, NEW dense \in BOOLEAN, CreateSnapshot(sorted, dense)
      PROVE  TimesApart'
    BY <1>4, TimeSnapshot
<1>5. CASE Done
    BY <1>5, TimeStutter DEF Done
<1> QED BY <1>1, <1>2, <1>3, <1>4, <1>5 DEF Next

\* In mixed mode every log entry of a version is stamped no earlier than the version and
\* earlier than every later one, so that snapshot_timestamp alone tells a reader which
\* version to take (radixgraph.cpp:56-60 against 305 and 125-135).
THEOREM VersionsPartition == Spec => []VersionsPartitionTime
<1>1. Init => IInv /\ Linked /\ (Mixed => TimesApart)
    BY InitIInv, LinkedInit, TimeInit
<1>2. IInv /\ Linked /\ (Mixed => TimesApart) /\ [Next]_vars =>
          IInv' /\ Linked' /\ (Mixed => TimesApart)'
    BY NextPreserves, LinkedStep, TimeStep
<1>3. IInv /\ Linked /\ (Mixed => TimesApart) => VersionsPartitionTime
    BY DEF TimesApart, Dated, VersionsPartitionTime
<1> QED BY <1>1, <1>2, <1>3, PTL DEF Spec

-----------------------------------------------------------------------------
(* The log of an array. *)

LogCell(c) == \E x \in Dest \cup {NoIdx} : \E y, z : c = [idx |-> x, weight |-> y, stamp |-> z]

\* Every cell of a live buffer is a cell.
CellsTyped ==
    \A v \in Versions : arr[v].mem = "live" => \A i \in DOMAIN buf[v] : LogCell(buf[v][i])

\* What the idx of a cell may hold is an integer.
LEMMA DestinationsAreIntegers == \A x \in Dest \cup {NoIdx} : x \in Int
BY ConstantsAssumption DEF ConstantsAssumption, NoIdx

-----------------------------------------------------------------------------
(* LogCompaction fills the new array without gaps. *)

\* The order of the kept slots in the new array is a strict total order.
LEMMA PrecedesOrder ==
    ASSUME NEW v, NEW sorted, NEW S, S \subseteq Nat, \A i \in S : buf[v][i].idx \in Int
    PROVE  /\ \A i \in S : ~Precedes(v, sorted, i, i)
           /\ \A i, j, k \in S : Precedes(v, sorted, i, j) /\ Precedes(v, sorted, j, k) =>
                                     Precedes(v, sorted, i, k)
           /\ \A i, j \in S : i # j => Precedes(v, sorted, i, j) \/ Precedes(v, sorted, j, i)
<1> DEFINE x == [i \in S |-> buf[v][i].idx]
           P(i, j) == IF sorted /\ x[i] # x[j] THEN x[i] < x[j]
                      ELSE IF FastPath(v) THEN i < j ELSE i > j
<1>1. \A i, j \in S : Precedes(v, sorted, i, j) <=> P(i, j)
    BY DEF Precedes
<1>2. \A i \in S : i \in Int /\ x[i] \in Int
    OBVIOUS
<1> HIDE DEF x
<1>3. ASSUME NEW i \in S, NEW j \in S, NEW k \in S
      PROVE  /\ ~P(i, i)
             /\ P(i, j) /\ P(j, k) => P(i, k)
             /\ i # j => P(i, j) \/ P(j, i)
  <2>1. /\ i \in Int /\ j \in Int /\ k \in Int
        /\ x[i] \in Int /\ x[j] \in Int /\ x[k] \in Int
      BY <1>2
  <2>2. CASE sorted
    <3>1. CASE FastPath(v)
        BY <2>1, <2>2, <3>1
    <3>2. CASE ~FastPath(v)
        BY <2>1, <2>2, <3>2
    <3> QED BY <3>1, <3>2
  <2>3. CASE ~sorted
    <3>1. CASE FastPath(v)
        BY <2>1, <2>3, <3>1
    <3>2. CASE ~FastPath(v)
        BY <2>1, <2>3, <3>2
    <3> QED BY <3>1, <3>2
  <2> QED BY <2>2, <2>3
<1> HIDE DEF P
<1> QED BY <1>1, <1>3

\* Each position of the new array has exactly one kept slot that goes there.
LEMMA RankExact ==
    ASSUME TypeOK, NEW v \in Versions, NEW sorted,
           \A i \in Kept(v) : buf[v][i].idx \in Int
    PROVE  /\ \A i \in Kept(v) : Rank(v, sorted, i) \in 0 .. (Cardinality(Kept(v)) - 1)
           /\ \A i, j \in Kept(v) : Rank(v, sorted, i) = Rank(v, sorted, j) => i = j
           /\ \A k \in 0 .. (Cardinality(Kept(v)) - 1) : \E i \in Kept(v) : Rank(v, sorted, i) = k
<1> DEFINE S == Kept(v)
           n == Cardinality(S)
           B(i) == {j \in S : Precedes(v, sorted, j, i)}
           f == [i \in S |-> Rank(v, sorted, i)]
<1>1. IsFiniteSet(S) /\ n \in Nat /\ S \subseteq Nat
  <2>1. arr[v].phys \in Nat
      BY HeaderFields
  <2>2. S \subseteq 0 .. (arr[v].phys - 1)
      BY DEF Kept
  <2> QED BY <2>1, <2>2, KeptFinite
<1>2. /\ \A i \in S : ~Precedes(v, sorted, i, i)
      /\ \A i, j, l \in S : Precedes(v, sorted, i, j) /\ Precedes(v, sorted, j, l) =>
                                Precedes(v, sorted, i, l)
      /\ \A i, j \in S : i # j => Precedes(v, sorted, i, j) \/ Precedes(v, sorted, j, i)
    BY <1>1, PrecedesOrder
<1>3. \A i \in S : f[i] = Cardinality(B(i))
    BY DEF Rank
<1>4. \A i \in S : f[i] = Rank(v, sorted, i)
    OBVIOUS
<1> HIDE DEF S, f
<1>5. \A i \in S : IsFiniteSet(B(i)) /\ Cardinality(B(i)) \in Nat /\ Cardinality(B(i)) < n
  <2> SUFFICES ASSUME NEW i \in S
               PROVE  IsFiniteSet(B(i)) /\ Cardinality(B(i)) \in Nat /\ Cardinality(B(i)) < n
      OBVIOUS
  <2>1. B(i) \in SUBSET S /\ B(i) # S
      BY <1>2
  <2>2. IsFiniteSet(B(i)) /\ Cardinality(B(i)) <= n /\ Cardinality(B(i)) # n
      BY <1>1, <2>1, FS_Subset
  <2>3. Cardinality(B(i)) \in Nat
      BY <2>2, FS_CardinalityType
  <2> HIDE DEF B, n
  <2> QED BY <1>1, <2>2, <2>3
<1>6. \A i, j \in S : Precedes(v, sorted, i, j) => Cardinality(B(i)) # Cardinality(B(j))
  <2> SUFFICES ASSUME NEW i \in S, NEW j \in S, Precedes(v, sorted, i, j)
               PROVE  Cardinality(B(i)) # Cardinality(B(j))
      OBVIOUS
  <2>1. B(i) \in SUBSET B(j) /\ B(i) # B(j)
      BY <1>2
  <2>2. IsFiniteSet(B(j))
      BY <1>5
  <2> HIDE DEF B
  <2> QED BY <2>1, <2>2, FS_Subset
<1>7. f \in Injection(S, 0 .. (n - 1))
  <2> HIDE DEF n, B
  <2>1. \A i \in S : f[i] \in 0 .. (n - 1)
    <3> SUFFICES ASSUME NEW i \in S PROVE f[i] \in 0 .. (n - 1)
        OBVIOUS
    <3>1. f[i] \in Nat /\ f[i] < n /\ n \in Nat
        BY <1>1, <1>3, <1>5
    <3> QED BY <3>1
  <2>2. \A i, j \in S : f[i] = f[j] => i = j
    <3> SUFFICES ASSUME NEW i \in S, NEW j \in S, i # j PROVE f[i] # f[j]
        OBVIOUS
    <3>1. Cardinality(B(i)) # Cardinality(B(j))
        BY <1>2, <1>6
    <3> QED BY <1>3, <3>1
  <2>3. f = [i \in S |-> f[i]]
      BY DEF f, S
  <2>4. f \in [S -> 0 .. (n - 1)]
      BY <2>1, <2>3
  <2> QED BY <2>2, <2>4, Fun_IsInj
<1>8. IsFiniteSet(0 .. (n - 1)) /\ Cardinality(0 .. (n - 1)) = n
  <2> HIDE DEF n
  <2>1. n - 1 \in Int /\ n \in Nat
      BY <1>1
  <2>2. /\ IsFiniteSet(0 .. (n - 1))
        /\ Cardinality(0 .. (n - 1)) = IF 0 > n - 1 THEN 0 ELSE (n - 1) - 0 + 1
      BY <2>1, FS_Interval
  <2> QED BY <2>1, <2>2
<1>9. f \in Surjection(S, 0 .. (n - 1))
    BY <1>7, <1>8, FS_Injection
<1>10. \A m \in 0 .. (n - 1) : \E i \in S : f[i] = m
  <2> DEFINE T == 0 .. (n - 1)
  <2>1. f \in Surjection(S, T)
      BY <1>9
  <2> HIDE DEF T
  <2>2. \A m \in T : \E i \in S : f[i] = m
      BY <2>1, Fun_SurjectionProperties
  <2> QED BY <2>2 DEF T
<1>11. \A i \in S : f[i] \in 0 .. (n - 1)
  <2> DEFINE T == 0 .. (n - 1)
  <2>1. f \in Injection(S, T)
      BY <1>7
  <2> HIDE DEF T
  <2>2. \A i \in S : f[i] \in T
      BY <2>1, Fun_InjectionProperties
  <2> QED BY <2>2 DEF T
<1>12. \A i, j \in S : f[i] = f[j] => i = j
    BY <1>7, Fun_InjectionProperties
<1> QED BY <1>10, <1>4, <1>11, <1>12 DEF S

LEMMA RankOnto ==
    ASSUME TypeOK, NEW v \in Versions, NEW sorted,
           \A i \in Kept(v) : buf[v][i].idx \in Int,
           NEW k \in 0 .. (Cardinality(Kept(v)) - 1)
    PROVE  \E i \in Kept(v) : Rank(v, sorted, i) = k
BY RankExact

\* LogCompaction fills the first size slots of the new array with written entries.
LEMMA CompactedWritten ==
    ASSUME TypeOK, NEW v \in Versions, NEW want \in Nat, NEW sorted \in BOOLEAN,
           \A i \in Kept(v) : LogCell(buf[v][i]) /\ buf[v][i].idx # NoIdx,
           NEW k \in DOMAIN CompactedBuffer(v, want, sorted)
    PROVE  /\ LogCell(CompactedBuffer(v, want, sorted)[k])
           /\ k < Compacted(v, want).size => CompactedBuffer(v, want, sorted)[k].idx # NoIdx
<1> DEFINE S == Kept(v)
           num == Cardinality(S)
           cap == GrownCap(want, num)
           i == CHOOSE j \in S : Rank(v, sorted, j) = k
           c == CompactedBuffer(v, want, sorted)[k]
<1>1. num \in Nat /\ cap \in Nat /\ k \in 0 .. (cap - 1)
  <2>1. num \in Nat
      BY KeptFinite
  <2>2. k \in 0 .. (cap - 1)
      BY DEF CompactedBuffer
  <2> QED BY <2>1, <2>2, GrownCapFits
<1>2. Compacted(v, want).size = num
  <2>1. Compacted(v, want) =
          [Unallocated EXCEPT !.size = num, !.phys = num, !.deg = num, !.snapDeg = num,
                              !.cap = cap, !.snapTs = clock, !.prev = v, !.mem = "live"]
      BY DEF Compacted
  <2> HIDE DEF num, cap
  <2> QED BY <2>1 DEF Unallocated
<1>3. CASE k < num
  <2>1. \A j \in S : buf[v][j].idx \in Int
    <3> SUFFICES ASSUME NEW j \in S PROVE buf[v][j].idx \in Int
        OBVIOUS
    <3>1. PICK x \in Dest \cup {NoIdx} :
              \E y, z : buf[v][j] = [idx |-> x, weight |-> y, stamp |-> z]
        BY DEF LogCell
    <3>2. x \in Int
        BY DestinationsAreIntegers
    <3> QED BY <3>1, <3>2
  <2>2. k \in 0 .. (num - 1)
    <3> HIDE DEF num, cap
    <3> QED BY <1>1, <1>3
  <2>3. \E j \in S : Rank(v, sorted, j) = k
      BY <2>1, <2>2, RankOnto
  <2>4. i \in S
      BY <2>3
  <2>5. c = [idx |-> buf[v][i].idx, weight |-> buf[v][i].weight, stamp |-> NoStamp]
      BY <1>3 DEF CompactedBuffer
  <2> HIDE DEF i, S
  <2>6. LogCell(buf[v][i]) /\ buf[v][i].idx # NoIdx
      BY <2>4 DEF S
  <2> DEFINE d == buf[v][i].idx
             w == buf[v][i].weight
  <2>7. d \in Dest \cup {NoIdx} /\ d # NoIdx /\ c = [idx |-> d, weight |-> w, stamp |-> NoStamp]
      BY <2>5, <2>6 DEF LogCell
  <2> HIDE DEF c, d, w
  <2>8. LogCell(c) /\ c.idx # NoIdx
      BY <2>7 DEF LogCell
  <2> QED BY <2>8 DEF c
<1>4. CASE ~(k < num)
  <2>1. c = Cell
      BY <1>4 DEF CompactedBuffer
  <2> HIDE DEF c
  <2>2. LogCell(c)
      BY <2>1 DEF LogCell, Cell
  <2> QED BY <1>2, <1>4, <2>2 DEF c
<1> QED BY <1>3, <1>4

-----------------------------------------------------------------------------
(* What the owner of a slot has written, and what is left behind. *)

Written(i) ==
    /\ buf[cur][i].idx # NoIdx
    /\ Mixed /\ i >= arr[cur].snapDeg => buf[cur][i].stamp # NoStamp

CallsMade == \A t \in Writers : wr[t].pc # "idle" => wr[t].call.idx \in Dest

InProgress ==
    \A t \in Writers : wr[t].pc \in Writing =>
        /\ Mixed /\ wr[t].pc = "stamp" => wr[t].stamp # NoStamp
        /\ Mixed /\ wr[t].pc \in {"idx", "weight", "commit"} =>
              buf[cur][wr[t].slot].stamp # NoStamp
        /\ wr[t].pc \in {"weight", "commit"} => buf[cur][wr[t].slot].idx # NoIdx

Committed ==
    \A i \in Reserved(cur) : (\A t \in Holding(cur) : wr[t].slot # i) => Written(i)

SnapshotReady ==
    \A t \in Writers : wr[t].pc = "publish" =>
        \A i \in 0 .. (arr[cur + 1].size - 1) : buf[cur + 1][i].idx # NoIdx

LogWritten == CellsTyped /\ CallsMade /\ InProgress /\ Committed /\ SnapshotReady

\* Once nobody owns a slot, every slot that counts is written.
LEMMA AllWritten ==
    ASSUME IInv, LogWritten, Holding(cur) = {}
    PROVE  \A i \in Kept(cur) : LogCell(buf[cur][i]) /\ buf[cur][i].idx # NoIdx
<1>1. /\ cur \in Versions /\ arr[cur].mem = "live"
      /\ arr[cur].size \in Nat /\ arr[cur].cap \in Nat /\ arr[cur].phys \in Nat
      /\ arr[cur].phys <= arr[cur].cap
      /\ DOMAIN buf[cur] = 0 .. (arr[cur].cap - 1)
    BY CurFacts, HeaderFields DEF IInv, TypeOK, VersionsSane
<1>2. Cardinality(Holding(cur)) = 0
    BY FS_EmptySet
<1>3. arr[cur].phys = IF arr[cur].size < arr[cur].cap THEN arr[cur].size ELSE arr[cur].cap
    BY <1>1, <1>2 DEF IInv, SlotsAccounted
<1>4. \A i \in Kept(cur) : i \in Reserved(cur) /\ i \in DOMAIN buf[cur]
  <2>1. \A i \in Kept(cur) : i \in 0 .. (arr[cur].phys - 1)
      BY DEF Kept
  <2> QED BY <1>1, <1>3, <2>1 DEF Reserved
<1>5. \A i \in Reserved(cur) : buf[cur][i].idx # NoIdx
    BY DEF LogWritten, Committed, Written
<1>6. \A i \in DOMAIN buf[cur] : LogCell(buf[cur][i])
    BY <1>1 DEF LogWritten, CellsTyped
<1> QED BY <1>4, <1>5, <1>6

\* A step that writes to no log and hands out no slot.
LEMMA LogFrame ==
    ASSUME IInv, IInv', LogWritten, cur' = cur, buf'[cur] = buf[cur],
           Reserved(cur)' = Reserved(cur), arr'[cur].snapDeg = arr[cur].snapDeg,
           \A t \in Writers :
              /\ wr'[t].pc \in Writing => wr[t].pc \in Writing
              /\ wr[t].pc \in Writing =>
                    /\ wr'[t].pc \in Writing /\ wr'[t].slot = wr[t].slot
                    /\ \/ wr'[t].pc = wr[t].pc /\ wr'[t].stamp = wr[t].stamp
                       \/ wr'[t].pc = "stamp" /\ wr'[t].stamp # NoStamp,
           CellsTyped', CallsMade', SnapshotReady'
    PROVE  LogWritten'
<1>1. \A t \in Writers : /\ wr[t].pc \in Writing => wr[t].arr = cur
                         /\ wr'[t].pc \in Writing => wr'[t].arr = cur
    BY DEF IInv, SlotsOfWriters
<1>2. Holding(cur)' = Holding(cur) /\ \A t \in Holding(cur) : wr'[t].slot = wr[t].slot
    BY <1>1 DEF Holding
<1>4. \A i : Written(i) => Written(i)'
    BY DEF Written
<1>5. Committed'
    BY <1>2, <1>4 DEF LogWritten, Committed
<1>6. InProgress'
  <2> SUFFICES ASSUME NEW t \in Writers, wr'[t].pc \in Writing
               PROVE  /\ Mixed /\ wr'[t].pc = "stamp" => wr'[t].stamp # NoStamp
                      /\ Mixed /\ wr'[t].pc \in {"idx", "weight", "commit"} =>
                            buf'[cur'][wr'[t].slot].stamp # NoStamp
                      /\ wr'[t].pc \in {"weight", "commit"} =>
                            buf'[cur'][wr'[t].slot].idx # NoIdx
      BY DEF InProgress
  <2> QED BY DEF LogWritten, InProgress
<1> QED BY <1>5, <1>6 DEF LogWritten

\* Live buffers that are left alone stay typed.
LEMMA TypedFrame ==
    ASSUME CellsTyped,
           \A v \in Versions : arr'[v].mem = "live" => arr[v].mem = "live" /\ buf'[v] = buf[v]
    PROVE  CellsTyped'
BY DEF CellsTyped

\* A writer that keeps its call.
LEMMA CallFrame ==
    ASSUME CallsMade, NEW t \in Writers, \A u \in Writers : u # t => wr'[u] = wr[u],
           wr[t].pc # "idle", wr'[t].call = wr[t].call
    PROVE  CallsMade'
BY DEF CallsMade

\* An array that waits to be published stays as it is.
LEMMA ReadyFrame ==
    ASSUME IInv, SnapshotReady, cur' = cur,
           \A u \in Writers : wr'[u].pc = "publish" => wr[u].pc = "publish",
           cur + 1 \in Versions => arr'[cur + 1].size = arr[cur + 1].size /\ buf'[cur + 1] = buf[cur + 1]
    PROVE  SnapshotReady'
BY DEF IInv, Handover, SnapshotReady

-----------------------------------------------------------------------------
(* The log over the steps of the program. *)

LEMMA SetWriterKeeps ==
    ASSUME TypeOK, NEW t \in Writers, NEW p, SetWriter(t, p)
    PROVE  wr'[t].call = wr[t].call /\ wr'[t].stamp = wr[t].stamp
<1>1. wr' = [wr EXCEPT ![t] = [wr[t] EXCEPT !.pc = p]]
    BY DEF SetWriter
<1>2. wr[t] \in WriterStates /\ wr'[t] = [wr[t] EXCEPT !.pc = p]
    BY <1>1 DEF TypeOK
<1> QED BY <1>2 DEF WriterStates

LEMMA TakeSlotKeeps ==
    ASSUME TypeOK, NEW t \in Writers, NEW v, TakeSlot(t, v)
    PROVE  wr'[t].call = wr[t].call
<1> DEFINE s == arr[v].size
           p == IF Beyond(v, s) THEN "lock" ELSE IF Mixed THEN "tick" ELSE "stamp"
<1>1. wr' = [wr EXCEPT ![t] = [wr[t] EXCEPT !.arr = v, !.slot = s, !.pc = p]]
    BY DEF TakeSlot
<1> HIDE DEF s, p
<1>2. wr[t] \in WriterStates /\ wr'[t] = [wr[t] EXCEPT !.arr = v, !.slot = s, !.pc = p]
    BY <1>1 DEF TypeOK
<1> QED BY <1>2 DEF WriterStates

\* A step of one writer that is in the middle of no slot and takes none.
LEMMA LogWriterFrame ==
    ASSUME IInv, IInv', LogWritten, NEW t \in Writers, cur' = cur, buf' = buf,
           \A v \in Versions : arr'[v].mem = arr[v].mem,
           Reserved(cur)' = Reserved(cur), arr'[cur].snapDeg = arr[cur].snapDeg,
           cur + 1 \in Versions => arr'[cur + 1].size = arr[cur + 1].size,
           \A u \in Writers : u # t => wr'[u] = wr[u],
           wr[t].pc \notin Writing, wr'[t].pc \notin Writing, wr'[t].pc # "publish", CallsMade'
    PROVE  LogWritten'
<1>1. cur \in Versions
    BY CurFacts DEF IInv
<1>2. CellsTyped'
    BY TypedFrame DEF LogWritten
<1>3. SnapshotReady'
    BY ReadyFrame DEF LogWritten
<1> QED BY <1>1, <1>2, <1>3, LogFrame

LEMMA LogCall ==
    ASSUME IInv, IInv', LogWritten, NEW t \in Writers, Call(t)
    PROVE  LogWritten'
<1>1. PICK d \in Dest, w \in Weights : \E c \in {Insertion(d, w), Update(d, w), Deletion(d)} :
          wr' = [wr EXCEPT ![t] = [IdleWriter EXCEPT !.pc = "reserve", !.arr = cur, !.call = c]]
    BY DEF Call
<1>2. PICK c \in {Insertion(d, w), Update(d, w), Deletion(d)} :
          wr' = [wr EXCEPT ![t] = [IdleWriter EXCEPT !.pc = "reserve", !.arr = cur, !.call = c]]
    BY <1>1
<1>3. c.idx = d
    BY DEF Insertion, Update, Deletion
<1> HIDE DEF Insertion, Update, Deletion
<1>4. /\ wr'[t].pc = "reserve" /\ wr'[t].call = c
      /\ \A u \in Writers : u # t => wr'[u] = wr[u]
    BY <1>2 DEF IInv, TypeOK, IdleWriter
<1>5. CallsMade'
    BY <1>3, <1>4 DEF LogWritten, CallsMade
<1>6. /\ wr[t].pc \notin Writing /\ wr'[t].pc \notin Writing /\ wr'[t].pc # "publish"
      /\ cur' = cur /\ buf' = buf /\ arr' = arr
    BY <1>4 DEF Call, Writing
<1>7. Reserved(cur)' = Reserved(cur)
    BY <1>6 DEF Reserved
<1> QED BY <1>4, <1>5, <1>6, <1>7, LogWriterFrame

LEMMA LogLocal ==
    ASSUME IInv, IInv', LogWritten, NEW t \in Writers, UseAfterFree(t) \/ Lock(t)
    PROVE  LogWritten'
<1>1. wr \in [Writers -> WriterStates] /\ wr[t] \in WriterStates
    BY DEF IInv, TypeOK
<1>2. /\ wr[t].pc \notin Writing /\ wr[t].pc # "idle" /\ cur' = cur /\ buf' = buf /\ arr' = arr
    BY DEF UseAfterFree, Lock, Writing
<1>3. /\ wr'[t].pc \in {"fault", "reload", "wait"} /\ wr'[t].call = wr[t].call
      /\ \A u \in Writers : u # t => wr'[u] = wr[u]
  <2>1. CASE SetWriter(t, "fault") \/ SetWriter(t, "reload")
      BY <2>1, SetWriterFields, SetWriterKeeps DEF IInv, WriterPcs
  <2>2. CASE wr' = [wr EXCEPT ![t].pc = "wait", ![t].arr = cur]
    <3>1. wr' = [wr EXCEPT ![t] = [wr[t] EXCEPT !.pc = "wait", !.arr = cur]]
        BY <2>2
    <3>2. wr'[t] = [wr[t] EXCEPT !.pc = "wait", !.arr = cur]
        BY <1>1, <3>1
    <3> QED BY <1>1, <3>1, <3>2 DEF WriterStates
  <2> QED BY <2>1, <2>2 DEF UseAfterFree, Lock
<1>4. CallsMade'
    BY <1>2, <1>3, CallFrame DEF LogWritten
<1>5. wr'[t].pc \notin Writing /\ wr'[t].pc # "publish"
    BY <1>3 DEF Writing
<1>6. Reserved(cur)' = Reserved(cur)
    BY <1>2 DEF Reserved
<1> QED BY <1>2, <1>3, <1>4, <1>5, <1>6, LogWriterFrame

LEMMA LogPublish ==
    ASSUME IInv, IInv', LogWritten, NEW t \in Writers, Publish(t)
    PROVE  LogWritten'
<1>1. /\ wr[t].pc = "publish" /\ cur' = cur + 1 /\ arr' = arr /\ buf' = buf
      /\ SetWriter(t, "reclaim") /\ TypeOK
    BY DEF Publish, IInv
<1>2. /\ wr'[t].pc = "reclaim" /\ wr'[t].call = wr[t].call
      /\ \A u \in Writers : u # t => wr'[u] = wr[u]
    BY <1>1, SetWriterFields, SetWriterKeeps DEF WriterPcs
<1>3. \A u \in Writers : wr'[u].pc \notin Writing /\ wr'[u].pc # "publish"
  <2>1. \A u \in Writers : wr[u].pc \notin Writing
      BY <1>1, NoneHolding DEF IInv, SlotsOfWriters, Holding
  <2>2. \A u \in Writers : u # t => wr[u].pc # "publish"
      BY <1>1, OneInside DEF WriterInside
  <2> QED BY <1>2, <2>1, <2>2 DEF Writing
<1>4. CellsTyped' /\ CallsMade' /\ InProgress' /\ SnapshotReady'
  <2>1. CellsTyped'
      BY <1>1, TypedFrame DEF LogWritten
  <2>2. CallsMade'
      BY <1>1, <1>2, CallFrame DEF LogWritten
  <2> QED BY <1>3, <2>1, <2>2 DEF InProgress, SnapshotReady
<1>5. /\ cur + 1 \in Versions /\ arr[cur + 1].snapDeg = arr[cur + 1].size
      /\ arr[cur + 1].size \in Nat /\ arr[cur + 1].cap \in Nat
      /\ \A i \in 0 .. (arr[cur + 1].size - 1) : buf[cur + 1][i].idx # NoIdx
    BY <1>1, HeaderFields DEF IInv, Handover, LogWritten, SnapshotReady
<1>6. Committed'
  <2> SUFFICES ASSUME NEW i \in Reserved(cur)'
               PROVE  Written(i)'
      BY DEF Committed
  <2>1. i \in Int /\ 0 <= i /\ i < arr[cur + 1].size
      BY <1>1, <1>5 DEF Reserved
  <2>2. i \in 0 .. (arr[cur + 1].size - 1) /\ ~(i >= arr[cur + 1].snapDeg)
      BY <1>5, <2>1
  <2> QED BY <1>1, <1>5, <2>2 DEF Written
<1> QED BY <1>4, <1>6 DEF LogWritten

LEMMA LogReclaim ==
    ASSUME IInv, IInv', Linked, LogWritten, NEW t \in Writers, Reclaim(t)
    PROVE  LogWritten'
<1>1. /\ wr[t].pc = "reclaim" /\ SetWriter(t, "reload") /\ cur' = cur /\ TypeOK
      /\ cur \in Versions
    BY CurFacts DEF Reclaim, IInv
<1>2. /\ wr'[t].pc = "reload" /\ wr'[t].call = wr[t].call
      /\ \A u \in Writers : u # t => wr'[u] = wr[u]
    BY <1>1, SetWriterFields, SetWriterKeeps DEF WriterPcs
<1>3. \A v \in Versions : Retiring(v)
    BY ReclaimFields
<1>4. CellsTyped' /\ CallsMade' /\ SnapshotReady'
  <2>1. CellsTyped'
      BY <1>3, TypedFrame DEF LogWritten, Retiring
  <2>2. CallsMade'
      BY <1>1, <1>2, CallFrame DEF LogWritten
  <2>3. \A u \in Writers : wr'[u].pc # "publish"
      BY <1>1, <1>2, OneInside DEF WriterInside
  <2> QED BY <2>1, <2>2, <2>3 DEF SnapshotReady
<1>5. arr'[cur].mem = "live"
    BY <1>1 DEF IInv, VersionsSane
<1>6. \A u \in Writers : wr'[u] = wr[u] \/ (wr[u].pc \notin Writing /\ wr'[u].pc \notin Writing)
    BY <1>1, <1>2 DEF Writing
<1>7. Reserved(cur)' = Reserved(cur)
    BY <1>1, <1>3 DEF Reserved, Retiring, SameSlots
<1> QED BY <1>1, <1>3, <1>4, <1>5, <1>6, <1>7, LogFrame DEF Retiring, SameSlots

\* A slot number is taken: within the capacity it is one more slot in progress.
LEMMA LogTake ==
    ASSUME IInv, IInv', LogWritten, NEW t \in Writers, NEW v \in Versions, v <= cur,
           wr[t].pc \in {"reserve", "reload"}, TakeSlot(t, v),
           v # cur => arr[v].size >= arr[v].cap, cur' = cur, buf' = buf
    PROVE  LogWritten'
<1>1. /\ TypeOK /\ cur \in Versions /\ cur \in Nat /\ v \in Int
      /\ arr[cur].size \in Nat /\ arr[cur].cap \in Nat /\ \A u \in Versions : arr[u] \in Headers
    BY CurFacts, HeaderFields, VersionFacts DEF IInv
<1>2. /\ wr'[t].arr = v /\ wr'[t].slot = arr[v].size /\ wr'[t].call = wr[t].call
      /\ wr'[t].pc = IF arr[v].size >= arr[v].cap THEN "lock"
                     ELSE IF Mixed THEN "tick" ELSE "stamp"
      /\ \A u \in Writers : u # t => wr'[u] = wr[u]
      /\ arr'[v] = [arr[v] EXCEPT !.size = arr[v].size + 1]
      /\ \A u \in Versions : u # v => arr'[u] = arr[u]
    BY <1>1, TakeSlotFields, TakeSlotKeeps
<1>3. /\ arr'[v].mem = arr[v].mem /\ arr'[v].size = arr[v].size + 1
      /\ arr'[v].cap = arr[v].cap /\ arr'[v].snapDeg = arr[v].snapDeg
    BY <1>1, <1>2 DEF Headers
<1>4. /\ \A u \in Versions : arr'[u].mem = arr[u].mem
      /\ arr'[cur].snapDeg = arr[cur].snapDeg /\ arr'[cur].cap = arr[cur].cap
      /\ cur + 1 \in Versions => arr'[cur + 1] = arr[cur + 1]
  <2>1. v # cur + 1
      BY <1>1
  <2>2. \A u \in Versions : arr'[u] = arr[u] \/ u = v
      BY <1>2
  <2> QED BY <1>1, <1>3, <2>1, <2>2
<1>5. CallsMade'
    BY <1>2, CallFrame DEF LogWritten
<1>6. CASE arr[v].size >= arr[v].cap
  <2>1. wr[t].pc \notin Writing /\ wr'[t].pc = "lock" /\ wr'[t].pc \notin Writing
      BY <1>2, <1>6 DEF Writing
  <2>2. Reserved(cur)' = Reserved(cur)
    <3>1. CASE v = cur
      <4>1. \A i \in 0 .. (arr[cur].cap - 1) : i < arr[cur].size /\ i < arr[cur].size + 1
          BY <1>1, <1>6, <3>1
      <4> QED BY <1>3, <3>1, <4>1 DEF Reserved
    <3>2. CASE v # cur
      <4>1. arr'[cur] = arr[cur]
          BY <1>1, <1>2, <3>2
      <4> QED BY <4>1 DEF Reserved
    <3> QED BY <3>1, <3>2
  <2> QED BY <1>2, <1>4, <1>5, <2>1, <2>2, LogWriterFrame
<1>7. CASE ~(arr[v].size >= arr[v].cap)
  <2> DEFINE n == arr[cur].size
  <2>1. /\ v = cur /\ wr'[t].slot = n /\ arr'[cur].size = n + 1
        /\ wr'[t].pc = IF Mixed THEN "tick" ELSE "stamp"
        /\ wr[t].pc \notin Writing
      BY <1>2, <1>3, <1>7 DEF Writing
  <2> HIDE DEF n
  <2>2. \A i : i \in Reserved(cur)' => i \in Reserved(cur) \/ i = n
    <3>1. n \in Nat
        BY <1>1 DEF n
    <3>2. \A i \in 0 .. (arr[cur].cap - 1) : i < n + 1 => i < n \/ i = n
        BY <1>1, <3>1
    <3> QED BY <1>4, <2>1, <3>2 DEF Reserved, n
  <2>3. t \in Holding(cur)' /\ \A u \in Holding(cur) : u \in Holding(cur)' /\ wr'[u] = wr[u]
      BY <1>2, <2>1 DEF Holding, Writing
  <2>4. Committed'
    <3> SUFFICES ASSUME NEW i \in Reserved(cur)', \A u \in Holding(cur)' : wr'[u].slot # i
                 PROVE  Written(i)'
        BY DEF Committed
    <3>1. i \in Reserved(cur) /\ \A u \in Holding(cur) : wr[u].slot # i
        BY <2>1, <2>2, <2>3
    <3> QED BY <1>4, <3>1 DEF LogWritten, Committed, Written
  <2>5. InProgress'
    <3> SUFFICES ASSUME NEW u \in Writers, wr'[u].pc \in Writing
                 PROVE  /\ Mixed /\ wr'[u].pc = "stamp" => wr'[u].stamp # NoStamp
                        /\ Mixed /\ wr'[u].pc \in {"idx", "weight", "commit"} =>
                              buf'[cur'][wr'[u].slot].stamp # NoStamp
                        /\ wr'[u].pc \in {"weight", "commit"} =>
                              buf'[cur'][wr'[u].slot].idx # NoIdx
        BY DEF InProgress
    <3>1. CASE u = t
        BY <2>1, <3>1
    <3>2. CASE u # t
        BY <1>2, <3>2 DEF LogWritten, InProgress
    <3> QED BY <3>1, <3>2
  <2>6. CellsTyped'
      BY <1>4, TypedFrame DEF LogWritten
  <2>7. SnapshotReady'
    <3>1. \A u \in Writers : wr'[u].pc = "publish" => wr[u].pc = "publish"
        BY <1>2, <2>1
    <3> QED BY <1>4, <3>1, ReadyFrame DEF LogWritten
  <2> QED BY <1>5, <2>4, <2>5, <2>6, <2>7 DEF LogWritten
<1> QED BY <1>6, <1>7

LEMMA LogReserve ==
    ASSUME IInv, IInv', LogWritten, NEW t \in Writers, Reserve(t) \/ Reload(t)
    PROVE  LogWritten'
<1>1. /\ cur \in Versions /\ cur \in Nat /\ \A v \in 0 .. cur : v \in Versions
    BY CurFacts DEF IInv
<1>2. CASE Reserve(t)
  <2>1. /\ wr[t].pc = "reserve" /\ TakeSlot(t, wr[t].arr) /\ cur' = cur /\ buf' = buf
        /\ arr[wr[t].arr].mem # "freed"
      BY <1>2 DEF Reserve
  <2>2. wr[t].arr \in 0 .. cur
      BY <2>1 DEF IInv, PointersInChain
  <2>3. wr[t].arr # cur => arr[wr[t].arr].size >= arr[wr[t].arr].cap
      BY <1>1, <2>1, <2>2 DEF IInv, RetiredOverfull
  <2>4. wr[t].arr \in Versions /\ wr[t].arr <= cur
      BY <1>1, <2>2
  <2> QED BY <2>1, <2>3, <2>4, LogTake
<1>3. CASE Reload(t)
  <2>1. wr[t].pc = "reload" /\ TakeSlot(t, cur) /\ cur' = cur /\ buf' = buf
      BY <1>3 DEF Reload
  <2> QED BY <1>1, <2>1, LogTake
<1> QED BY <1>2, <1>3

LEMMA LogTick ==
    ASSUME IInv, IInv', LogWritten, NEW t \in Writers, Tick(t)
    PROVE  LogWritten'
<1>1. /\ cur \in Versions /\ cur' = cur /\ arr' = arr /\ buf' = buf /\ wr[t].pc = "tick"
      /\ wr[t] \in WriterStates /\ clock \in Nat
    BY CurFacts DEF Tick, IInv, TypeOK
<1>2. /\ wr'[t].pc = "stamp" /\ wr'[t].stamp = clock /\ wr'[t].slot = wr[t].slot
      /\ wr'[t].call = wr[t].call /\ \A u \in Writers : u # t => wr'[u] = wr[u]
  <2>1. wr' = [wr EXCEPT ![t] = [wr[t] EXCEPT !.pc = "stamp", !.stamp = clock]]
      BY DEF Tick
  <2>2. /\ wr'[t] = [wr[t] EXCEPT !.pc = "stamp", !.stamp = clock]
        /\ \A u \in Writers : u # t => wr'[u] = wr[u]
      BY <2>1 DEF IInv, TypeOK
  <2> QED BY <1>1, <2>2 DEF WriterStates
<1>3. clock # NoStamp
    BY <1>1 DEF NoStamp
<1>4. CellsTyped'
    BY <1>1, TypedFrame DEF LogWritten
<1>5. CallsMade'
    BY <1>1, <1>2, CallFrame DEF LogWritten
<1>6. SnapshotReady'
  <2>1. \A u \in Writers : wr'[u].pc = "publish" => wr[u].pc = "publish"
      BY <1>2
  <2> QED BY <1>1, <2>1, ReadyFrame DEF LogWritten
<1>7. Reserved(cur)' = Reserved(cur)
    BY <1>1 DEF Reserved
<1>8. ASSUME NEW u \in Writers
      PROVE  /\ wr'[u].pc \in Writing => wr[u].pc \in Writing
             /\ wr[u].pc \in Writing =>
                   /\ wr'[u].pc \in Writing /\ wr'[u].slot = wr[u].slot
                   /\ \/ wr'[u].pc = wr[u].pc /\ wr'[u].stamp = wr[u].stamp
                      \/ wr'[u].pc = "stamp" /\ wr'[u].stamp # NoStamp
    BY <1>1, <1>2, <1>3 DEF Writing
<1> QED BY <1>1, <1>4, <1>5, <1>6, <1>7, <1>8, LogFrame

\* The owner of a slot stores to its cell.
LEMMA LogStore ==
    ASSUME IInv, IInv', LogWritten, NEW t \in Writers, wr[t].pc \in Writing, cur' = cur,
           NEW c, LogCell(c),
           buf' = [buf EXCEPT ![cur] = [buf[cur] EXCEPT ![wr[t].slot] = c]],
           \A u \in Writers : u # t => wr'[u] = wr[u],
           wr'[t].pc \in {"idx", "weight", "commit"}, wr'[t].slot = wr[t].slot,
           wr'[t].call = wr[t].call,
           Mixed => c.stamp # NoStamp,
           wr'[t].pc \in {"weight", "commit"} => c.idx # NoIdx,
           \A v \in Versions : /\ arr'[v].mem = arr[v].mem /\ arr'[v].size = arr[v].size
                               /\ arr'[v].cap = arr[v].cap /\ arr'[v].snapDeg = arr[v].snapDeg
    PROVE  LogWritten'
<1> DEFINE s == wr[t].slot
<1>1. /\ cur \in Versions /\ cur \in Nat /\ TypeOK /\ arr[cur].mem = "live" /\ wr[t].arr = cur
      /\ s < arr[cur].cap /\ s \in Nat /\ arr[cur].cap \in Nat
    BY CurFacts, WriterFields, HeaderFields DEF IInv, SlotsOfWriters, VersionsSane
<1>2. s \in DOMAIN buf[cur]
  <2>1. DOMAIN buf[cur] = 0 .. (arr[cur].cap - 1)
      BY <1>1 DEF TypeOK
  <2> QED BY <1>1, <2>1
<1>3. /\ DOMAIN buf'[cur] = DOMAIN buf[cur] /\ buf'[cur][s] = c
      /\ \A j \in DOMAIN buf[cur] : j # s => buf'[cur][j] = buf[cur][j]
      /\ \A v \in Versions : v # cur => buf'[v] = buf[v]
    BY <1>1, <1>2, CellStored
<1> HIDE DEF s
<1>4. CellsTyped'
  <2> SUFFICES ASSUME NEW v \in Versions, arr'[v].mem = "live", NEW i \in DOMAIN buf'[v]
               PROVE  LogCell(buf'[v][i])
      BY DEF CellsTyped
  <2>1. \A j \in DOMAIN buf[v] : LogCell(buf[v][j])
      BY DEF LogWritten, CellsTyped
  <2>2. CASE v = cur
      BY <1>3, <2>1, <2>2
  <2>3. CASE v # cur
      BY <1>3, <2>1, <2>3
  <2> QED BY <2>2, <2>3
<1>5. wr[t].pc # "idle"
    BY DEF Writing
<1>6. CallsMade'
    BY <1>5, CallFrame DEF LogWritten
<1>7. SnapshotReady'
  <2>1. \A u \in Writers : wr'[u].pc = "publish" => wr[u].pc = "publish"
      OBVIOUS
  <2>2. cur + 1 # cur
      BY <1>1
  <2> QED BY <1>3, <2>1, <2>2, ReadyFrame DEF LogWritten
<1>8. Reserved(cur)' = Reserved(cur)
    BY <1>1 DEF Reserved
<1>9. \A u \in Writers : u # t /\ wr[u].pc \in Writing => wr[u].slot # s /\ wr[u].slot \in DOMAIN buf[cur]
  <2> SUFFICES ASSUME NEW u \in Writers, u # t, wr[u].pc \in Writing
               PROVE  wr[u].slot # s /\ wr[u].slot \in DOMAIN buf[cur]
      OBVIOUS
  <2>1. wr[u].arr = cur /\ wr[u].slot < arr[cur].cap /\ wr[u].slot \in Nat
      BY <1>1, WriterFields DEF IInv, SlotsOfWriters
  <2>2. DOMAIN buf[cur] = 0 .. (arr[cur].cap - 1)
      BY <1>1 DEF TypeOK
  <2>3. u \in Holding(cur) /\ t \in Holding(cur)
      BY <1>1, <2>1 DEF Holding
  <2>4. wr[u].slot # s
      BY <2>3 DEF IInv, SlotsOfWriters, s
  <2> QED BY <1>1, <2>1, <2>2, <2>4
<1>10. InProgress'
  <2> SUFFICES ASSUME NEW u \in Writers, wr'[u].pc \in Writing
               PROVE  /\ Mixed /\ wr'[u].pc = "stamp" => wr'[u].stamp # NoStamp
                      /\ Mixed /\ wr'[u].pc \in {"idx", "weight", "commit"} =>
                            buf'[cur'][wr'[u].slot].stamp # NoStamp
                      /\ wr'[u].pc \in {"weight", "commit"} =>
                            buf'[cur'][wr'[u].slot].idx # NoIdx
      BY DEF InProgress
  <2>1. CASE u = t
      BY <1>3, <2>1 DEF s
  <2>2. CASE u # t
    <3>1. wr'[u] = wr[u] /\ buf'[cur'][wr[u].slot] = buf[cur][wr[u].slot]
        BY <1>3, <1>9, <2>2
    <3> QED BY <3>1 DEF LogWritten, InProgress
  <2> QED BY <2>1, <2>2
<1>11. Committed'
  <2> SUFFICES ASSUME NEW i \in Reserved(cur)', \A u \in Holding(cur)' : wr'[u].slot # i
               PROVE  Written(i)'
      BY DEF Committed
  <2>1. \A u \in Holding(cur) : u \in Holding(cur)' /\ wr'[u].slot = wr[u].slot
    <3>1. wr'[t].pc \in Writing
        BY DEF Writing
    <3>2. wr'[t].arr = cur
        BY <3>1 DEF IInv, SlotsOfWriters
    <3> QED BY <3>1, <3>2 DEF Holding
  <2>2. t \in Holding(cur)
      BY <1>1 DEF Holding
  <2>3. i \in Reserved(cur) /\ i # s /\ \A u \in Holding(cur) : wr[u].slot # i
      BY <1>8, <2>1, <2>2 DEF s
  <2>4. i \in DOMAIN buf[cur]
      BY <1>1, <2>3 DEF Reserved, TypeOK
  <2>5. buf'[cur'][i] = buf[cur][i]
      BY <1>3, <2>3, <2>4
  <2>6. arr'[cur'].snapDeg = arr[cur].snapDeg
      BY <1>1
  <2> QED BY <2>3, <2>5, <2>6 DEF LogWritten, Committed, Written
<1> QED BY <1>4, <1>6, <1>7, <1>10, <1>11 DEF LogWritten

LEMMA LogFill ==
    ASSUME IInv, IInv', LogWritten, NEW t \in Writers, Stamp(t) \/ WriteIdx(t) \/ WriteWeight(t)
    PROVE  LogWritten'
<1> DEFINE s == wr[t].slot
           b == buf[cur][s]
<1>1. /\ TypeOK /\ cur \in Versions /\ wr[t].pc \in Writing /\ wr[t].arr = cur /\ cur' = cur
      /\ arr[cur].mem = "live" /\ s < arr[cur].cap /\ s \in Nat /\ arr[cur].cap \in Nat
      /\ \A v \in Versions : arr[v] \in Headers
    BY CurFacts, WriterFields, HeaderFields
       DEF Stamp, WriteIdx, WriteWeight, Writing, IInv, SlotsOfWriters, VersionsSane
<1>2. s \in DOMAIN buf[cur]
  <2>1. DOMAIN buf[cur] = 0 .. (arr[cur].cap - 1)
      BY <1>1 DEF TypeOK
  <2> QED BY <1>1, <2>1
<1>3. LogCell(b)
    BY <1>1, <1>2 DEF LogWritten, CellsTyped
<1>cell. PICK x \in Dest \cup {NoIdx} : \E y, z : b = [idx |-> x, weight |-> y, stamp |-> z]
    BY <1>3 DEF LogCell
<1>4. PICK y, z : b = [idx |-> x, weight |-> y, stamp |-> z]
    BY <1>cell
<1>5. \E p \in {"idx", "weight", "commit"} :
          /\ SetWriter(t, p)
          /\ wr[t].pc = IF p = "idx" THEN "stamp" ELSE IF p = "weight" THEN "idx" ELSE "weight"
    BY DEF Stamp, WriteIdx, WriteWeight
<1>6. PICK p \in {"idx", "weight", "commit"} :
          /\ SetWriter(t, p)
          /\ wr[t].pc = IF p = "idx" THEN "stamp" ELSE IF p = "weight" THEN "idx" ELSE "weight"
    BY <1>5
<1>7. /\ wr'[t].pc = p /\ wr'[t].slot = s /\ wr'[t].call = wr[t].call
      /\ \A u \in Writers : u # t => wr'[u] = wr[u]
    BY <1>1, <1>6, SetWriterFields, SetWriterKeeps DEF WriterPcs
<1>8. \A v \in Versions : /\ arr'[v].mem = arr[v].mem /\ arr'[v].size = arr[v].size
                          /\ arr'[v].cap = arr[v].cap /\ arr'[v].snapDeg = arr[v].snapDeg
  <2>1. CASE Stamp(t)
    <3> DEFINE n == arr[cur].deg + wr[t].call.delta
    <3>1. arr' = [arr EXCEPT ![cur] = [arr[cur] EXCEPT !.deg = n]]
        BY <1>1, <2>1 DEF Stamp
    <3> HIDE DEF n
    <3>2. arr \in [Versions -> Headers] /\ arr[cur] \in Headers
        BY <1>1 DEF TypeOK
    <3> HIDE DEF b, s
    <3> QED BY <1>1, <3>1, <3>2 DEF Headers
  <2>2. CASE WriteIdx(t) \/ WriteWeight(t)
      BY <2>2 DEF WriteIdx, WriteWeight
  <2> QED BY <2>1, <2>2
<1>9. \E c : /\ buf' = [buf EXCEPT ![cur] = [buf[cur] EXCEPT ![s] = c]]
             /\ LogCell(c) /\ (Mixed => c.stamp # NoStamp)
             /\ p \in {"weight", "commit"} => c.idx # NoIdx
  <2>1. CASE Stamp(t)
    <3> DEFINE n == wr[t].stamp
               c == [b EXCEPT !.stamp = n]
    <3>1. buf' = [buf EXCEPT ![cur] = [buf[cur] EXCEPT ![s] = c]] /\ wr[t].pc = "stamp"
        BY <1>1, <2>1 DEF Stamp
    <3>2. (Mixed => n # NoStamp) /\ p = "idx"
        BY <1>1, <1>6, <3>1 DEF LogWritten, InProgress
    <3> HIDE DEF b, n
    <3>3. c = [idx |-> x, weight |-> y, stamp |-> n]
        BY <1>4
    <3>4. LogCell(c) /\ c.stamp = n
        BY <1>4, <3>3 DEF LogCell
    <3> QED BY <3>1, <3>2, <3>4
  <2>2. CASE WriteIdx(t)
    <3> DEFINE n == wr[t].call.idx
               c == [b EXCEPT !.idx = n]
    <3>1. buf' = [buf EXCEPT ![cur] = [buf[cur] EXCEPT ![s] = c]] /\ wr[t].pc = "idx"
        BY <1>1, <2>2 DEF WriteIdx
    <3>2. Mixed => b.stamp # NoStamp
        BY <1>1, <3>1 DEF LogWritten, InProgress
    <3>3. n \in Dest /\ n # NoIdx
      <4>1. n \in Dest
          BY <3>1 DEF LogWritten, CallsMade
      <4> QED BY <4>1, ConstantsAssumption DEF ConstantsAssumption, NoIdx
    <3> HIDE DEF b, n
    <3>4. c = [idx |-> n, weight |-> y, stamp |-> z]
        BY <1>4
    <3>5. LogCell(c) /\ c.stamp = b.stamp /\ c.idx = n
        BY <1>4, <3>3, <3>4 DEF LogCell
    <3> QED BY <3>1, <3>2, <3>3, <3>5
  <2>3. CASE WriteWeight(t)
    <3> DEFINE n == wr[t].call.weight
               c == [b EXCEPT !.weight = n]
    <3>1. buf' = [buf EXCEPT ![cur] = [buf[cur] EXCEPT ![s] = c]] /\ wr[t].pc = "weight"
        BY <1>1, <2>3 DEF WriteWeight
    <3>2. (Mixed => b.stamp # NoStamp) /\ b.idx # NoIdx
        BY <1>1, <3>1 DEF LogWritten, InProgress
    <3> HIDE DEF b, n
    <3>3. c = [idx |-> x, weight |-> n, stamp |-> z]
        BY <1>4
    <3>4. LogCell(c) /\ c.stamp = b.stamp /\ c.idx = b.idx
        BY <1>4, <3>3 DEF LogCell
    <3> QED BY <3>1, <3>2, <3>4
  <2> QED BY <2>1, <2>2, <2>3
<1>10. PICK c : /\ buf' = [buf EXCEPT ![cur] = [buf[cur] EXCEPT ![s] = c]]
                /\ LogCell(c) /\ (Mixed => c.stamp # NoStamp)
                /\ p \in {"weight", "commit"} => c.idx # NoIdx
    BY <1>9
<1> HIDE DEF b
<1> QED BY <1>1, <1>7, <1>8, <1>10, LogStore

\* A writer counts its slot and leaves.
LEMMA LogCommit ==
    ASSUME IInv, IInv', LogWritten, NEW t \in Writers, Commit(t)
    PROVE  LogWritten'
<1>1. /\ TypeOK /\ cur \in Versions /\ wr[t].pc = "commit" /\ wr[t].arr = cur /\ cur' = cur
      /\ buf' = buf /\ arr[cur] \in Headers
    BY CurFacts, HeaderFields DEF Commit, IInv, SlotsOfWriters, Writing
<1> DEFINE n == arr[cur].phys + 1
<1>2. arr' = [arr EXCEPT ![cur] = [arr[cur] EXCEPT !.phys = n]]
    BY <1>1 DEF Commit
<1>3. wr'[t] = IdleWriter /\ \A u \in Writers : u # t => wr'[u] = wr[u]
    BY <1>1 DEF Commit, TypeOK
<1> HIDE DEF n
<1>4. \A v \in Versions : /\ arr'[v].mem = arr[v].mem /\ arr'[v].size = arr[v].size
                          /\ arr'[v].cap = arr[v].cap /\ arr'[v].snapDeg = arr[v].snapDeg
    BY <1>1, <1>2 DEF Headers, TypeOK
<1>5. wr'[t].pc = "idle"
    BY <1>3 DEF IdleWriter
<1>6. CellsTyped'
    BY <1>1, <1>4, TypedFrame DEF LogWritten
<1>7. CallsMade'
    BY <1>3, <1>5 DEF LogWritten, CallsMade
<1>8. SnapshotReady'
  <2>1. \A u \in Writers : wr'[u].pc = "publish" => wr[u].pc = "publish"
      BY <1>3, <1>5
  <2> QED BY <1>1, <1>4, <2>1, ReadyFrame DEF LogWritten
<1>9. InProgress'
  <2>1. \A u \in Writers : wr'[u].pc \in Writing => u # t
      BY <1>5 DEF Writing
  <2> QED BY <1>1, <1>3, <2>1 DEF LogWritten, InProgress
<1>10. Committed'
  <2> SUFFICES ASSUME NEW i \in Reserved(cur)', \A u \in Holding(cur)' : wr'[u].slot # i
               PROVE  Written(i)'
      BY DEF Committed
  <2>1. i \in Reserved(cur)
      BY <1>1, <1>4 DEF Reserved
  <2>2. \A u \in Holding(cur) : u # t => u \in Holding(cur)' /\ wr'[u] = wr[u]
      BY <1>1, <1>3 DEF Holding
  <2>3. Written(i)
    <3>1. CASE i = wr[t].slot
      <4>1. (Mixed => buf[cur][i].stamp # NoStamp) /\ buf[cur][i].idx # NoIdx
          BY <1>1, <3>1 DEF LogWritten, InProgress, Writing
      <4> QED BY <4>1 DEF Written
    <3>2. CASE i # wr[t].slot
      <4>1. \A u \in Holding(cur) : wr[u].slot # i
          BY <2>2, <3>2
      <4> QED BY <2>1, <4>1 DEF LogWritten, Committed
    <3> QED BY <3>1, <3>2
  <2>4. arr'[cur'].snapDeg = arr[cur].snapDeg /\ buf'[cur'] = buf[cur]
      BY <1>1, <1>4
  <2> QED BY <2>3, <2>4 DEF Written
<1> QED BY <1>6, <1>7, <1>8, <1>9, <1>10 DEF LogWritten

\* The array that LogCompaction makes of the current one once nobody owns a slot.
LEMMA NewArrayWritten ==
    ASSUME IInv, LogWritten, Holding(cur) = {}, NEW want \in Nat, NEW sorted \in BOOLEAN
    PROVE  /\ \A i \in DOMAIN CompactedBuffer(cur, want, sorted) :
                 LogCell(CompactedBuffer(cur, want, sorted)[i])
           /\ \A i \in 0 .. (Compacted(cur, want).size - 1) :
                 CompactedBuffer(cur, want, sorted)[i].idx # NoIdx
           /\ Compacted(cur, want).snapDeg = Compacted(cur, want).size
           /\ Compacted(cur, want).size \in Nat
<1> DEFINE h == Compacted(cur, want)
           b == CompactedBuffer(cur, want, sorted)
<1>1. TypeOK /\ cur \in Versions
    BY CurFacts DEF IInv
<1>2. /\ h \in Headers /\ h.size <= h.cap /\ h.snapDeg = h.size
      /\ DOMAIN b = 0 .. (h.cap - 1)
    BY <1>1, CompactedFields
<1>3. \A i \in Kept(cur) : LogCell(buf[cur][i]) /\ buf[cur][i].idx # NoIdx
    BY AllWritten
<1>4. \A i \in DOMAIN b : LogCell(b[i]) /\ (i < h.size => b[i].idx # NoIdx)
    BY <1>1, <1>3, CompactedWritten
<1> HIDE DEF h, b
<1>5. h.size \in Nat /\ h.cap \in Nat
    BY <1>2 DEF Headers
<1>6. \A i \in 0 .. (h.size - 1) : i \in DOMAIN b /\ i < h.size
    BY <1>2, <1>5
<1>7. /\ \A i \in DOMAIN b : LogCell(b[i])
      /\ \A i \in 0 .. (h.size - 1) : b[i].idx # NoIdx
      /\ h.snapDeg = h.size /\ h.size \in Nat
    BY <1>2, <1>4, <1>5, <1>6
<1> QED BY <1>7 DEF h, b

LEMMA LogCompact ==
    ASSUME IInv, IInv', LogWritten, NEW t \in Writers, Compact(t)
    PROVE  LogWritten'
<1>1. /\ TypeOK /\ cur \in Versions /\ cur \in Nat /\ cur + 1 \in Versions /\ cur # cur + 1
      /\ Holding(cur) = {} /\ DOMAIN buf = Versions
  <2>1. TypeOK /\ cur \in Versions /\ cur \in Nat /\ DOMAIN buf = Versions
      BY CurFacts DEF IInv, TypeOK
  <2>2. cur + 1 \in Versions /\ Holding(cur) = {}
      BY CompactWant
  <2> QED BY <2>1, <2>2
<1>2. PICK want \in Nat :
          /\ arr' = [arr EXCEPT ![cur + 1] = Compacted(cur, want), ![cur].next = cur + 1]
          /\ buf' = [buf EXCEPT ![cur + 1] = CompactedBuffer(cur, want, FALSE)]
    BY CompactWant
<1> DEFINE b == CompactedBuffer(cur, want, FALSE)
<1>3. wr[t].pc = "wait" /\ SetWriter(t, "publish") /\ cur' = cur
    BY DEF Compact
<1>4. /\ wr'[t].pc = "publish" /\ wr'[t].call = wr[t].call
      /\ \A u \in Writers : u # t => wr'[u] = wr[u]
    BY <1>1, <1>3, SetWriterFields, SetWriterKeeps DEF WriterPcs
<1>5. /\ arr'[cur + 1] = Compacted(cur, want) /\ arr'[cur].mem = arr[cur].mem
      /\ SameSlots(arr'[cur], arr[cur])
      /\ \A v \in Versions : v # cur /\ v # cur + 1 => arr'[v] = arr[v]
    BY <1>1, <1>2, AppendedFields
<1>6. /\ \A i \in DOMAIN b : LogCell(b[i])
      /\ \A i \in 0 .. (Compacted(cur, want).size - 1) : b[i].idx # NoIdx
    BY <1>1, NewArrayWritten
<1>7. buf' = [buf EXCEPT ![cur + 1] = b]
    BY <1>2
<1> HIDE DEF b
<1>8. buf'[cur + 1] = b /\ \A v \in Versions : v # cur + 1 => buf'[v] = buf[v]
    BY <1>1, <1>7
<1>9. CellsTyped'
  <2> SUFFICES ASSUME NEW v \in Versions, arr'[v].mem = "live", NEW i \in DOMAIN buf'[v]
               PROVE  LogCell(buf'[v][i])
      BY DEF CellsTyped
  <2>1. CASE v = cur + 1
      BY <1>6, <1>8, <2>1
  <2>2. CASE v # cur + 1
      BY <1>5, <1>8, <2>2 DEF LogWritten, CellsTyped
  <2> QED BY <2>1, <2>2
<1>10. CallsMade'
    BY <1>3, <1>4, CallFrame DEF LogWritten
<1>11. SnapshotReady'
    BY <1>3, <1>5, <1>6, <1>8 DEF SnapshotReady
<1>12. Reserved(cur)' = Reserved(cur)
    BY <1>3, <1>5 DEF Reserved, SameSlots
<1>13. \A u \in Writers : wr'[u] = wr[u] \/ (wr[u].pc \notin Writing /\ wr'[u].pc \notin Writing)
    BY <1>3, <1>4 DEF Writing
<1>14. buf'[cur] = buf[cur] /\ arr'[cur].snapDeg = arr[cur].snapDeg
    BY <1>1, <1>5, <1>8 DEF SameSlots
<1> QED BY <1>3, <1>9, <1>10, <1>11, <1>12, <1>13, <1>14, LogFrame

LEMMA LogReader ==
    ASSUME IInv, IInv', LogWritten, NEW r \in Readers, QuietReader(r)
    PROVE  LogWritten'
<1>1. /\ cur' = cur /\ wr' = wr /\ buf' = buf /\ cur \in Versions
      /\ \A v \in Versions : SameVersion(arr'[v], arr[v]) /\ SameSlots(arr'[v], arr[v])
    BY QuietReaderFields, CurFacts DEF IInv
<1>2. CellsTyped'
    BY <1>1, TypedFrame DEF LogWritten, SameVersion
<1>3. CallsMade'
    BY <1>1 DEF LogWritten, CallsMade
<1>4. SnapshotReady'
    BY <1>1, ReadyFrame DEF LogWritten, SameSlots
<1>5. Reserved(cur)' = Reserved(cur) /\ arr'[cur].snapDeg = arr[cur].snapDeg
    BY <1>1 DEF Reserved, SameSlots
<1> QED BY <1>1, <1>2, <1>3, <1>4, <1>5, LogFrame

LEMMA LogUnpin ==
    ASSUME IInv, IInv', LogWritten, NEW r \in Readers, Unpin(r)
    PROVE  LogWritten'
<1>1. /\ cur' = cur /\ wr' = wr /\ mtx = NoThread /\ cur \in Versions
      /\ \A v \in Versions : Retiring(v)
    BY UnpinFields, CurFacts DEF Unpin, IInv
<1>2. CellsTyped'
    BY <1>1, TypedFrame DEF LogWritten, Retiring
<1>3. CallsMade'
    BY <1>1 DEF LogWritten, CallsMade
<1>4. SnapshotReady'
  <2>1. \A u \in Writers : wr[u].pc # "publish"
      BY <1>1, FiniteThreads DEF IInv, LockHeldInside, WriterInside
  <2> QED BY <1>1, <2>1 DEF SnapshotReady
<1>5. Reserved(cur)' = Reserved(cur) /\ arr'[cur].snapDeg = arr[cur].snapDeg
    BY <1>1 DEF Reserved, Retiring, SameSlots
<1>6. buf'[cur] = buf[cur]
  <2>1. arr'[cur].mem = "live"
      BY <1>1 DEF IInv, VersionsSane
  <2> QED BY <1>1, <2>1 DEF Retiring
<1> QED BY <1>1, <1>2, <1>3, <1>4, <1>5, <1>6, LogFrame

LEMMA LogSnapshot ==
    ASSUME IInv, IInv', LogWritten, NEW sorted \in BOOLEAN, NEW dense \in BOOLEAN,
           CreateSnapshot(sorted, dense)
    PROVE  LogWritten'
<1>1. /\ TypeOK /\ cur \in Versions /\ cur \in Nat /\ cur + 1 \in Versions /\ cur # cur + 1
      /\ cur + 1 \in Nat /\ DOMAIN buf = Versions
    BY CurFacts, SnapshotWant DEF IInv, TypeOK
<1>2. PICK want \in Nat :
          /\ arr' = Delete([arr EXCEPT ![cur + 1] = Compacted(cur, want),
                                       ![cur].next = cur + 1], cur, cur + 1)
          /\ buf' = [buf EXCEPT ![cur + 1] = CompactedBuffer(cur, want, sorted),
                                ![cur] = NoBuffer]
    BY SnapshotWant
<1>3. wr' = wr /\ cur' = cur + 1 /\ \A u \in Writers : wr[u].pc = "idle"
    BY DEF CreateSnapshot, AllIdle
<1>4. Holding(cur) = {}
    BY <1>3 DEF Holding, Writing
<1> DEFINE a == [arr EXCEPT ![cur + 1] = Compacted(cur, want), ![cur].next = cur + 1]
           h == Compacted(cur, want)
           b == CompactedBuffer(cur, want, sorted)
<1>5. /\ \A i \in DOMAIN b : LogCell(b[i])
      /\ \A i \in 0 .. (h.size - 1) : b[i].idx # NoIdx
      /\ h.snapDeg = h.size /\ h.size \in Nat
    BY <1>4, NewArrayWritten
<1>6. /\ a \in [Versions -> Headers] /\ a[cur + 1] = h
      /\ \A v \in Versions : v # cur /\ v # cur + 1 => a[v] = arr[v]
  <2>1. cur + 1 \in Versions
      BY <1>1
  <2> QED BY <2>1, AppendedFields
<1>7. arr' = Delete(a, cur, cur + 1) /\ buf' = [buf EXCEPT ![cur + 1] = b, ![cur] = NoBuffer]
    BY <1>2
<1> HIDE DEF a, b, h
<1>8. /\ arr'[cur].mem = "freed" /\ SameSlots(arr'[cur + 1], h)
      /\ \A v \in Versions : v # cur => arr'[v].mem = a[v].mem
    BY <1>1, <1>6, <1>7, DeleteFields, DeleteKeeps DEF SameSlots
<1>9. buf'[cur + 1] = b /\ \A v \in Versions : v # cur /\ v # cur + 1 => buf'[v] = buf[v]
    BY <1>1, <1>7
<1>10. CellsTyped'
  <2> SUFFICES ASSUME NEW v \in Versions, arr'[v].mem = "live", NEW i \in DOMAIN buf'[v]
               PROVE  LogCell(buf'[v][i])
      BY DEF CellsTyped
  <2>1. CASE v = cur + 1
      BY <1>5, <1>9, <2>1
  <2>2. CASE v # cur + 1
    <3>1. v # cur
        BY <1>8
    <3> QED BY <1>6, <1>8, <1>9, <2>2, <3>1 DEF LogWritten, CellsTyped
  <2> QED BY <2>1, <2>2
<1>11. CallsMade' /\ InProgress' /\ SnapshotReady'
    BY <1>3 DEF CallsMade, InProgress, SnapshotReady, Writing
<1>12. Committed'
  <2> SUFFICES ASSUME NEW i \in Reserved(cur)'
               PROVE  Written(i)'
      BY DEF Committed
  <2>1. i \in Int /\ 0 <= i /\ i < h.size
    <3>1. arr'[cur + 1].cap \in Nat /\ arr'[cur + 1].size = h.size
        BY <1>1, <1>8, HeaderFields DEF IInv, TypeOK, Headers, SameSlots
    <3> QED BY <1>3, <3>1 DEF Reserved
  <2>2. i \in 0 .. (h.size - 1) /\ ~(i >= h.snapDeg)
      BY <1>5, <2>1
  <2>3. arr'[cur'].snapDeg = h.snapDeg
      BY <1>3, <1>8 DEF SameSlots
  <2> QED BY <1>3, <1>5, <1>9, <2>2, <2>3 DEF Written
<1> QED BY <1>10, <1>11, <1>12 DEF LogWritten

LEMMA LogInit ==
    ASSUME Init
    PROVE  LogWritten
<1>1. 0 \in Versions /\ InitCap \in Nat
    BY ConstantsAssumption DEF ConstantsAssumption, Versions
<1>2. /\ \A v \in Versions : v # 0 => arr[v].mem = "none"
      /\ arr[0].size = 0 /\ arr[0].cap = InitCap /\ cur = 0
      /\ \A t \in Writers : wr[t].pc = "idle"
    BY <1>1 DEF Init, Unallocated, IdleWriter
<1>3. \A i \in DOMAIN buf[0] : buf[0][i] = Cell
    BY <1>1 DEF Init
<1>4. LogCell(Cell)
    BY DEF LogCell, Cell
<1>5. CellsTyped
    BY <1>2, <1>3, <1>4 DEF CellsTyped
<1>6. Reserved(cur) = {}
    BY <1>1, <1>2 DEF Reserved
<1> QED BY <1>2, <1>5, <1>6 DEF LogWritten, CallsMade, InProgress, Committed, SnapshotReady, Writing

LEMMA LogStutter ==
    ASSUME LogWritten, UNCHANGED vars
    PROVE  LogWritten'
<1>1. /\ arr' = arr /\ buf' = buf /\ cur' = cur /\ wr' = wr
    BY DEF vars
<1>2. CellsTyped' /\ CallsMade' /\ InProgress' /\ SnapshotReady'
    BY <1>1 DEF LogWritten, CellsTyped, CallsMade, InProgress, SnapshotReady
<1>3. Committed'
    BY <1>1 DEF LogWritten, Committed, Reserved, Holding, Written
<1> QED BY <1>2, <1>3 DEF LogWritten

LEMMA LogStep ==
    ASSUME IInv, IInv', Linked, LogWritten, [Next]_vars
    PROVE  LogWritten'
<1>1. CASE UNCHANGED vars
    BY <1>1, LogStutter
<1>2. ASSUME NEW t \in Writers, Call(t) \/ WriterStep(t)
      PROVE  LogWritten'
  <2>1. CASE Call(t)
      BY <2>1, LogCall
  <2>2. CASE UseAfterFree(t) \/ Lock(t)
      BY <2>2, LogLocal
  <2>3. CASE Reserve(t) \/ Reload(t)
      BY <2>3, LogReserve
  <2>4. CASE Compact(t)
      BY <2>4, LogCompact
  <2>5. CASE Publish(t)
      BY <2>5, LogPublish
  <2>6. CASE Reclaim(t)
      BY <2>6, LogReclaim
  <2>7. CASE Tick(t)
      BY <2>7, LogTick
  <2>8. CASE Stamp(t) \/ WriteIdx(t) \/ WriteWeight(t)
      BY <2>8, LogFill
  <2>9. CASE Commit(t)
      BY <2>9, LogCommit
  <2> QED BY <1>2, <2>1, <2>2, <2>3, <2>4, <2>5, <2>6, <2>7, <2>8, <2>9 DEF WriterStep
<1>3. ASSUME NEW r \in Readers, Ask(r) \/ ReaderStep(r)
      PROVE  LogWritten'
  <2>1. CASE QuietReader(r)
      BY <2>1, LogReader
  <2>2. CASE Unpin(r)
      BY <2>2, LogUnpin
  <2> QED BY <1>3, <2>1, <2>2 DEF ReaderStep, QuietReader
<1>4. ASSUME NEW sorted \in BOOLEAN, NEW dense \in BOOLEAN, CreateSnapshot(sorted, dense)
      PROVE  LogWritten'
    BY <1>4, LogSnapshot
<1>5. CASE Done
    BY <1>5, LogStutter DEF Done
<1> QED BY <1>1, <1>2, <1>3, <1>4, <1>5 DEF Next

\* As many slots were handed out as numbers below size and cap.
LEMMA ReservedCount ==
    ASSUME IInv
    PROVE  Cardinality(Reserved(cur)) =
               IF arr[cur].size < arr[cur].cap THEN arr[cur].size ELSE arr[cur].cap
<1>1. arr[cur].size \in Nat /\ arr[cur].cap \in Nat
    BY CurFacts, HeaderFields DEF IInv
<1> DEFINE m == IF arr[cur].size < arr[cur].cap THEN arr[cur].size ELSE arr[cur].cap
<1>2. m \in Nat /\ Reserved(cur) = 0 .. (m - 1)
    BY <1>1 DEF Reserved
<1> HIDE DEF m
<1>3. Cardinality(0 .. (m - 1)) = IF 0 > m - 1 THEN 0 ELSE (m - 1) - 0 + 1
    BY <1>2, FS_Interval
<1>4. Cardinality(Reserved(cur)) = m
    BY <1>2, <1>3
<1> QED BY <1>4 DEF m

\* physical_size counts exactly the slots that were handed out and are completely
\* written, by their writer or by LogCompaction: the expander that finds it equal to cap
\* (radixgraph.cpp:27) may compact, and no entry it copies is half written.
THEOREM PhysicalSizeIsExact == Spec => []PhysicalSizeExact
<1>1. Init => IInv /\ Linked /\ LogWritten
    BY InitIInv, LinkedInit, LogInit
<1>2. IInv /\ Linked /\ LogWritten /\ [Next]_vars => IInv' /\ Linked' /\ LogWritten'
    BY NextPreserves, LinkedStep, LogStep
<1>3. IInv /\ LogWritten => PhysicalSizeExact
  <2> SUFFICES ASSUME IInv, LogWritten
               PROVE  PhysicalSizeExact
      OBVIOUS
  <2>1. arr[cur].phys + Cardinality(Holding(cur)) = Cardinality(Reserved(cur))
      BY ReservedCount DEF IInv, SlotsAccounted
  <2>2. \A i \in Reserved(cur) : (\A t \in Holding(cur) : wr[t].slot # i) => Written(i)
      BY DEF LogWritten, Committed
  <2> QED BY <2>1, <2>2 DEF PhysicalSizeExact, Written
<1> QED BY <1>1, <1>2, <1>3, PTL DEF Spec
==============================================================================
