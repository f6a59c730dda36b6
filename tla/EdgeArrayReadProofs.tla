------------------------- MODULE EdgeArrayReadProofs -------------------------
(***************************************************************************)
(* Proofs about the answers of GetNeighbours, for every value of the       *)
(* constants, provided the interface is used as documented (Contract).     *)
(*                                                                         *)
(* No neighbour twice: what a reader has listed is what it met, in the     *)
(* bitmap or in the snapshot segment, before the position it is at         *)
(* (Gathering); an entry of a destination met before is passed over, or    *)
(* would be a second one of the snapshot.                                  *)
(*                                                                         *)
(* Quiet reads are exact: a read at the default timestamp pins the current *)
(* version (WalkCurrent), for publishing another one takes the lock that   *)
(* the reader walks under.  As long as every destination is still, no call *)
(* is in progress (StillQuiet), so the version stays the current one and   *)
(* its log does not change.  The scan has then gathered, at any position,  *)
(* the latest entries above it (QuietReads), and below slot 0 these are    *)
(* the edges of the vertex.                                                *)
(***************************************************************************)
EXTENDS EdgeArrayContentsProofs, SequenceTheorems

\* The edge in slot i of the current array, the edges of the latest slots above n, and
\* the destinations of the log entries above n.
SlotEdge(i) == [idx |-> buf[cur][i].idx, weight |-> buf[cur][i].weight]
GotAbove(n) == {SlotEdge(i) : i \in {j \in LatestOf(Log) : j > n}}
SeenAbove(n) == {buf[cur][i].idx : i \in {j \in Reserved(cur) : j > n /\ j >= arr[cur].snapDeg}}

\* An answer is a set of destinations and a sequence of edges.
IsAnswer(a) == \E S, seen : \E got \in Seq(S) : a = [seen |-> seen, got |-> got]

Distinct(got) == \A j, k \in DOMAIN got : got[j].idx = got[k].idx => j = k

\* The destinations that r met before it came to position n: those it has marked, and
\* those of the snapshot segment, in which a scan marks nothing.
Met(r, n) ==
    ans[r].seen \cup
        {buf[rd[r].arr][i].idx : i \in (n + 1) .. (arr[rd[r].arr].snapDeg - 1)}

\* Answers are empty until the log is read, and then list nothing twice.
GatheredBy(r) ==
    /\ rd[r].pc \notin {"read", "unpin"} => ans[r] = NoAnswer
    /\ rd[r].pc \in {"read", "unpin"} => IsAnswer(ans[r]) /\ Distinct(ans[r].got)
    /\ rd[r].pc = "read" =>
          \A k \in DOMAIN ans[r].got : ans[r].got[k].idx \in Met(r, rd[r].pos)

Gathering == \A r \in Readers : GatheredBy(r)

\* No write call touches a destination that is still, as long as the version is pinned.
StillQuiet ==
    \A r \in Readers : rd[r].pc \in Pinning =>
        \A t \in Writers : wr[t].pc # "idle" => wr[t].call.idx \notin rd[r].still

\* A read at the default timestamp takes the current version.
WalkCurrent == \A r \in Readers : rd[r].pc = "walk" /\ rd[r].ts = Forever => rd[r].arr = cur

Undisturbed(r) == rd[r].pc \in Pinning /\ rd[r].ts = Forever /\ rd[r].still = Dest

\* What an undisturbed read at the default timestamp has gathered so far.
QuietRead(r) ==
    /\ rd[r].arr = cur
    /\ rd[r].pc = "scan" => rd[r].pos = arr[cur].phys - 1
    /\ rd[r].pc = "read" =>
          /\ rd[r].pos < arr[cur].phys
          /\ ans[r].seen = SeenAbove(rd[r].pos)
          /\ Answer(r) = GotAbove(rd[r].pos)
    /\ rd[r].pc = "unpin" => Answer(r) = Edges(Dest)

QuietReads == \A r \in Readers : Undisturbed(r) => QuietRead(r)

-----------------------------------------------------------------------------
(* Steps that leave a reader alone. *)

\* A snapshot segment does not change while its version is there.
SnapshotKept(v) ==
    /\ arr'[v].snapDeg = arr[v].snapDeg
    /\ \A i \in 0 .. (arr[v].snapDeg - 1) : buf'[v][i] = buf[v][i]

\* No step writes to the snapshot segment of a version that stays.
LEMMA SnapshotsKept ==
    ASSUME Base, Base', Contents, [Next]_vars, NEW v \in Versions, v <= cur,
           arr[v].mem = "live", arr'[v].mem = "live"
    PROVE  SnapshotKept(v)
<1>1. /\ IInv /\ TypeOK /\ Linked /\ cur \in Versions /\ cur \in Nat /\ v \in Int
      /\ \A u \in Versions : arr[u] \in Headers
      /\ arr \in [Versions -> Headers]
    BY BaseFacts, HeaderFields, VersionFacts DEF TypeOK
<1>2. CASE UNCHANGED <<arr, buf>>
    BY <1>2 DEF SnapshotKept
<1>3. ASSUME NEW t \in Writers, Call(t) \/ WriterStep(t)
      PROVE  SnapshotKept(v)
  <2>1. CASE Call(t) \/ UseAfterFree(t) \/ Lock(t) \/ Tick(t) \/ Publish(t)
      BY <1>2, <2>1 DEF Call, UseAfterFree, Lock, Tick, Publish
  <2>2. CASE Reserve(t) \/ Reload(t)
    <3>1. buf' = buf /\ wr[t].pc # "idle" /\ \E u \in Versions : TakeSlot(t, u)
      <4>1. CASE Reserve(t)
        <5>1. wr[t].arr \in 0 .. cur
            BY <1>1, <4>1 DEF Reserve, IInv, PointersInChain
        <5> QED BY <1>1, <4>1, <5>1, CurFacts DEF Reserve
      <4>2. CASE Reload(t)
          BY <1>1, <4>2 DEF Reload
      <4> QED BY <2>2, <4>1, <4>2
    <3>2. PICK u \in Versions : TakeSlot(t, u)
        BY <3>1
    <3>3. /\ arr'[u] = [arr[u] EXCEPT !.size = arr[u].size + 1]
          /\ \A x \in Versions : x # u => arr'[x] = arr[x]
        BY <1>1, <3>2, TakeSlotFields
    <3>4. arr'[v].snapDeg = arr[v].snapDeg
        BY <1>1, <3>3 DEF Headers
    <3> QED BY <3>1, <3>4 DEF SnapshotKept
  <2>3. CASE Compact(t)
    <3>1. PICK want \in Nat :
              /\ arr' = [arr EXCEPT ![cur + 1] = Compacted(cur, want), ![cur].next = cur + 1]
              /\ buf' = [buf EXCEPT ![cur + 1] = CompactedBuffer(cur, want, FALSE)]
        BY <1>1, <2>3, CompactWant
    <3>2. cur + 1 \in Versions /\ v # cur + 1
      <4>1. cur + 1 \in Versions
          BY <1>1, <2>3, CompactWant
      <4> QED BY <1>1, <4>1
    <3>3. SameSlots(arr'[cur], arr[cur]) /\ (v # cur => arr'[v] = arr[v])
        BY <1>1, <3>1, <3>2, AppendedFields
    <3>4. buf'[v] = buf[v]
        BY <1>1, <3>1, <3>2 DEF TypeOK
    <3> QED BY <3>3, <3>4 DEF SnapshotKept, SameSlots
  <2>4. CASE Reclaim(t)
      BY <1>1, <2>4, ReclaimFields DEF Retiring, SameSlots, SnapshotKept
  <2>5. CASE Stamp(t) \/ WriteIdx(t) \/ WriteWeight(t)
      BY <2>5, FillKeeps, FillFields DEF SnapshotKept
  <2>6. CASE Commit(t)
    <3>1. wr[t].arr = cur /\ buf' = buf
        BY <1>1, <2>6 DEF Commit, IInv, SlotsOfWriters, Writing
    <3> DEFINE n == arr[cur].phys + 1
    <3>2. arr' = [arr EXCEPT ![cur] = [arr[cur] EXCEPT !.phys = n]]
        BY <2>6, <3>1 DEF Commit
    <3> HIDE DEF n
    <3>3. arr'[v].snapDeg = arr[v].snapDeg
        BY <1>1, <3>2 DEF Headers
    <3> QED BY <3>1, <3>3 DEF SnapshotKept
  <2> QED BY <1>3, <2>1, <2>2, <2>3, <2>4, <2>5, <2>6 DEF WriterStep
<1>4. ASSUME NEW r \in Readers, Ask(r) \/ ReaderStep(r)
      PROVE  SnapshotKept(v)
  <2>1. CASE QuietReader(r)
      BY <1>1, <2>1, QuietReaderFields DEF SameSlots, SnapshotKept
  <2>2. CASE Unpin(r)
      BY <1>1, <2>2, UnpinFields DEF Retiring, SameSlots, SnapshotKept
  <2> QED BY <1>4, <2>1, <2>2 DEF ReaderStep, QuietReader
<1>5. ASSUME NEW sorted \in BOOLEAN, NEW dense \in BOOLEAN, CreateSnapshot(sorted, dense)
      PROVE  SnapshotKept(v)
  <2>1. PICK want \in Nat :
            /\ arr' = Delete([arr EXCEPT ![cur + 1] = Compacted(cur, want),
                                         ![cur].next = cur + 1], cur, cur + 1)
            /\ buf' = [buf EXCEPT ![cur + 1] = CompactedBuffer(cur, want, sorted),
                                  ![cur] = NoBuffer]
      BY <1>1, <1>5, SnapshotWant
  <2>2. cur + 1 \in Versions /\ v # cur + 1
      BY <1>1, <1>5, SnapshotWant
  <2>3. PICK a : a = [arr EXCEPT ![cur + 1] = Compacted(cur, want), ![cur].next = cur + 1]
      OBVIOUS
  <2>4. a \in [Versions -> Headers] /\ (v # cur => a[v] = arr[v])
      BY <1>1, <2>2, <2>3, AppendedFields
  <2>5. arr'[cur].mem = "freed" /\ arr'[v].snapDeg = a[v].snapDeg
    <3>1. arr' = Delete(a, cur, cur + 1) /\ cur + 1 \in Nat
        BY <1>1, <2>1, <2>3
    <3> QED BY <1>1, <2>4, <3>1, DeleteFields
  <2>6. v # cur
      BY <2>5
  <2>7. buf'[v] = buf[v]
      BY <1>1, <2>1, <2>2, <2>6 DEF TypeOK
  <2> QED BY <2>4, <2>5, <2>6, <2>7 DEF SnapshotKept
<1>6. CASE Done \/ UNCHANGED vars
    BY <1>2, <1>6 DEF Done, vars
<1> QED BY <1>3, <1>4, <1>5, <1>6 DEF Next

\* What a reader knows of the version it has pinned.
LEMMA PinnedVersion ==
    ASSUME Base, NEW r \in Readers, rd[r].pc \in Pinning
    PROVE  /\ rd[r].arr \in Versions /\ rd[r].arr <= cur /\ arr[rd[r].arr].mem = "live"
           /\ arr[rd[r].arr].snapDeg \in Nat /\ rd[r].pos \in Int
<1>1. IInv /\ TypeOK /\ \A v \in 0 .. cur : v \in Versions
    BY CurFacts DEF Base, IInv
<1>2. rd[r].arr \in 0 .. cur /\ arr[rd[r].arr].mem = "live"
    BY <1>1 DEF IInv, PointersInChain, PinsHold
<1>3. cur \in Nat
    BY BaseFacts
<1> QED BY <1>1, <1>2, <1>3, HeaderFields, ReaderFields

\* A pinned version keeps its buffers.
PinsLive == \A r \in Readers : rd[r].pc \in Pinning => arr[rd[r].arr].mem = "live"

LEMMA PinnedLive == Base => PinsLive
BY PinnedVersion DEF PinsLive

\* A reader of the log is at a slot of the version it has pinned.
LEMMA ReadingBounds ==
    ASSUME Base, NEW r \in Readers, rd[r].pc = "read"
    PROVE  /\ rd[r].pos \in Nat /\ rd[r].pos < arr[rd[r].arr].cap
           /\ rd[r].pc \in Pinning
<1>1. rd[r].pc \in Pinning
    BY DEF Pinning
<1>2. rd[r].pos \in Int /\ rd[r].pos >= 0 /\ rd[r].pos < arr[rd[r].arr].cap
    BY <1>1, PinnedVersion DEF Base, IInv, ReadsInBounds
<1> QED BY <1>1, <1>2

\* What a reader has gathered stays what it is while others run.
LEMMA GatheredFrame ==
    ASSUME Base, Base', Contents, [Next]_vars, NEW r \in Readers, GatheredBy(r),
           rd'[r].pc = rd[r].pc, rd'[r].arr = rd[r].arr, rd'[r].pos = rd[r].pos, ans'[r] = ans[r]
    PROVE  GatheredBy(r)'
<1>1. ASSUME rd[r].pc = "read"
      PROVE  Met(r, rd[r].pos)' = Met(r, rd[r].pos)
  <2>1. rd[r].pc \in Pinning /\ rd'[r].pc \in Pinning
      BY <1>1 DEF Pinning
  <2>2. PICK v : v = rd[r].arr
      OBVIOUS
  <2>3. PICK n : n = rd[r].pos
      OBVIOUS
  <2>4. v \in Versions /\ v <= cur /\ arr[v].mem = "live" /\ arr[v].snapDeg \in Nat
      BY <2>1, <2>2, PinnedVersion
  <2>5. n \in Nat
      BY <1>1, <2>3, ReadingBounds
  <2>6. arr'[v].mem = "live"
    <3>1. Base' => PinsLive'
        BY PinnedLive, PTL
    <3> QED BY <2>1, <2>2, <3>1 DEF PinsLive
  <2>7. SnapshotKept(v)
      BY <2>4, <2>6, SnapshotsKept
  <2>8. \A i \in (n + 1) .. (arr[v].snapDeg - 1) : i \in 0 .. (arr[v].snapDeg - 1)
      BY <2>4, <2>5
  <2>9. /\ arr'[v].snapDeg = arr[v].snapDeg
        /\ \A i \in (n + 1) .. (arr[v].snapDeg - 1) : buf'[v][i] = buf[v][i]
      BY <2>7, <2>8 DEF SnapshotKept
  <2>10. {buf'[v][i].idx : i \in (n + 1) .. (arr'[v].snapDeg - 1)} =
             {buf[v][i].idx : i \in (n + 1) .. (arr[v].snapDeg - 1)}
      BY <2>9
  <2>11. Met(r, rd[r].pos) = ans[r].seen \cup {buf[v][i].idx : i \in (n + 1) .. (arr[v].snapDeg - 1)}
      BY <2>2, <2>3 DEF Met
  <2>12. Met(r, rd[r].pos)' =
             ans'[r].seen \cup {buf'[v][i].idx : i \in (n + 1) .. (arr'[v].snapDeg - 1)}
    <3>1. rd'[r].arr = v /\ rd'[r].pos = n
        BY <2>2, <2>3
    <3> QED BY <3>1 DEF Met
  <2> QED BY <2>10, <2>11, <2>12
<1> QED BY <1>1 DEF GatheredBy

-----------------------------------------------------------------------------
(* The steps of a reader. *)

\* The fields of a reader that moves to another position or program counter.
LEMMA ReaderGoes ==
    ASSUME Base, NEW r \in Readers, NEW p, NEW n,
           rd' = [rd EXCEPT ![r] = [rd[r] EXCEPT !.pc = p, !.pos = n]]
    PROVE  /\ rd'[r].pc = p /\ rd'[r].pos = n /\ rd'[r].arr = rd[r].arr
           /\ rd'[r].ts = rd[r].ts /\ rd'[r].still = rd[r].still
           /\ \A q \in Readers : q # r => rd'[q] = rd[q]
<1>1. rd \in [Readers -> ReaderStates] /\ rd[r] \in ReaderStates
    BY DEF Base, IInv, TypeOK
<1>2. /\ rd'[r] = [rd[r] EXCEPT !.pc = p, !.pos = n]
      /\ \A q \in Readers : q # r => rd'[q] = rd[q]
    BY <1>1
<1> QED BY <1>1, <1>2 DEF ReaderStates

\* The same for a reader that only changes its program counter.
LEMMA ReaderTurns ==
    ASSUME Base, NEW r \in Readers, NEW p, rd' = [rd EXCEPT ![r].pc = p]
    PROVE  /\ rd'[r].pc = p /\ rd'[r].pos = rd[r].pos /\ rd'[r].arr = rd[r].arr
           /\ rd'[r].ts = rd[r].ts /\ rd'[r].still = rd[r].still
           /\ \A q \in Readers : q # r => rd'[q] = rd[q]
<1>1. rd \in [Readers -> ReaderStates] /\ rd[r] \in ReaderStates
    BY DEF Base, IInv, TypeOK
<1>2. rd' = [rd EXCEPT ![r] = [rd[r] EXCEPT !.pc = p]]
    OBVIOUS
<1>3. rd'[r] = [rd[r] EXCEPT !.pc = p] /\ \A q \in Readers : q # r => rd'[q] = rd[q]
    BY <1>1, <1>2
<1> QED BY <1>1, <1>3 DEF ReaderStates

\* A step of one reader is none of another.
LEMMA ReaderMoves ==
    ASSUME Base, NEW r \in Readers, Ask(r) \/ ReaderStep(r)
    PROVE  /\ cur' = cur /\ wr' = wr
           /\ \A q \in Readers : q # r => rd'[q] = rd[q] /\ ans'[q] = ans[q]
<1>1. rd \in [Readers -> ReaderStates] /\ DOMAIN ans = Readers
    BY DEF Base, IInv, TypeOK
<1>2. cur' = cur /\ wr' = wr
    BY DEF Ask, ReaderStep, LockForRead, WalkBack, Pin, Count, Scan, Read, Unpin
<1>3. /\ \E x : rd' = [rd EXCEPT ![r] = x]
      /\ ans' = ans \/ \E y : ans' = [ans EXCEPT ![r] = y]
  <2>1. CASE Ask(r)
      BY <2>1 DEF Ask
  <2>2. CASE LockForRead(r)
      BY <2>2 DEF LockForRead
  <2>3. CASE WalkBack(r)
      BY <2>3 DEF WalkBack
  <2>4. CASE Pin(r)
      BY <2>4 DEF Pin
  <2>5. CASE Count(r)
      BY <2>5 DEF Count, CopySnapshot
  <2>6. CASE Scan(r)
      BY <2>6 DEF Scan, CopySnapshot
  <2>7. CASE Read(r)
      BY <2>7 DEF Read
  <2>8. CASE Unpin(r)
      BY <2>8 DEF Unpin
  <2> QED BY <2>1, <2>2, <2>3, <2>4, <2>5, <2>6, <2>7, <2>8 DEF ReaderStep
<1>4. \A q \in Readers : q # r => rd'[q] = rd[q] /\ ans'[q] = ans[q]
    BY <1>1, <1>3
<1> QED BY <1>2, <1>4

\* The snapshot segment is an answer without duplicates.
LEMMA SnapshotAnswer ==
    ASSUME Base, Contents, NEW r \in Readers, rd[r].pc \in {"count", "scan"}, ans[r] = NoAnswer,
           CopySnapshot(r)
    PROVE  /\ rd'[r].pc = "unpin" /\ rd'[r].arr = rd[r].arr
           /\ rd'[r].ts = rd[r].ts /\ rd'[r].still = rd[r].still
           /\ IsAnswer(ans'[r]) /\ Distinct(ans'[r].got)
           /\ ans'[r].got = [k \in 1 .. arr[rd[r].arr].snapDeg |->
                                [idx |-> buf[rd[r].arr][k - 1].idx,
                                 weight |-> buf[rd[r].arr][k - 1].weight]]
<1> DEFINE v == rd[r].arr
           n == arr[v].snapDeg
           g == [k \in 1 .. n |-> [idx |-> buf[v][k - 1].idx, weight |-> buf[v][k - 1].weight]]
<1>1. v \in Versions /\ arr[v].mem = "live" /\ n \in Nat
    BY PinnedVersion DEF Pinning
<1>2. /\ rd'[r].pc = "unpin" /\ rd'[r].arr = v
      /\ rd'[r].ts = rd[r].ts /\ rd'[r].still = rd[r].still
    BY ReaderTurns DEF CopySnapshot
<1>3. ans'[r] = [seen |-> {}, got |-> g]
  <2>1. ans' = [ans EXCEPT ![r] = [ans[r] EXCEPT !.got = g]]
      BY DEF CopySnapshot
  <2>2. DOMAIN ans = Readers
      BY DEF Base, IInv, TypeOK
  <2> HIDE DEF g
  <2>3. ans'[r] = [NoAnswer EXCEPT !.got = g]
      BY <2>1, <2>2
  <2> QED BY <2>3 DEF NoAnswer
<1>4. DOMAIN g = 1 .. n /\ \A k \in 1 .. n : g[k].idx = buf[v][k - 1].idx
    OBVIOUS
<1>5. \E S : g \in Seq(S)
  <2> DEFINE S == {g[k] : k \in 1 .. n}
  <2>1. g \in [1 .. n -> S]
      OBVIOUS
  <2> HIDE DEF g, S
  <2>2. g \in Seq(S)
      BY <1>1, <2>1
  <2> QED BY <2>2
<1>6. Distinct(g)
  <2>1. /\ \A k \in 1 .. n : k - 1 \in 0 .. (n - 1)
        /\ \A j, k \in 1 .. n : j - 1 = k - 1 => j = k
    <3> HIDE DEF n, g
    <3> QED BY <1>1
  <2>2. \A i, j \in 0 .. (n - 1) : buf[v][i].idx = buf[v][j].idx => i = j
      BY <1>1 DEF Contents, SnapshotSound
  <2> HIDE DEF g, n, v
  <2>3. \A j, k \in 1 .. n : g[j].idx = g[k].idx => j = k
    <3> SUFFICES ASSUME NEW j \in 1 .. n, NEW k \in 1 .. n, g[j].idx = g[k].idx
                 PROVE  j = k
        OBVIOUS
    <3>1. buf[v][j - 1].idx = buf[v][k - 1].idx
        BY <1>4
    <3>2. j - 1 \in 0 .. (n - 1) /\ k - 1 \in 0 .. (n - 1)
        BY <2>1
    <3>3. j - 1 = k - 1
        BY <2>2, <3>1, <3>2
    <3> QED BY <2>1, <3>3
  <2> QED BY <1>4, <2>3 DEF Distinct
<1> HIDE DEF g
<1>7. IsAnswer(ans'[r]) /\ Distinct(ans'[r].got)
  <2>1. PICK S : g \in Seq(S)
      BY <1>5
  <2>2. PICK a : a = ans'[r]
      OBVIOUS
  <2>3. a = [seen |-> {}, got |-> g] /\ a.got = g
      BY <1>3, <2>2
  <2>4. \E seen : \E got \in Seq(S) : a = [seen |-> seen, got |-> got]
      BY <2>1, <2>3
  <2>5. IsAnswer(a)
      BY <2>4 DEF IsAnswer
  <2> QED BY <1>6, <2>2, <2>3, <2>5
<1>8. ans'[r].got = g
    BY <1>3
<1> QED BY <1>2, <1>7, <1>8 DEF g

\* What one step over entry e, of slot i of version v, does to the answer.
Reads(r, i, v, e) ==
    /\ rd[r].pc = "read" /\ rd'[r].pos = i - 1 /\ rd'[r].arr = v
    /\ rd'[r].pc = IF i = 0 THEN "unpin" ELSE "read"
    /\ rd'[r].ts = rd[r].ts /\ rd'[r].still = rd[r].still
    /\ ans'[r].seen = IF Fresh(r, e.idx) /\ i >= arr[v].snapDeg
                      THEN ans[r].seen \cup {e.idx} ELSE ans[r].seen
    /\ ans'[r].got = IF Fresh(r, e.idx) /\ e.weight # 0
                     THEN Append(ans[r].got, e) ELSE ans[r].got
    /\ IsAnswer(ans'[r])
    /\ \E S : ans[r].got \in Seq(S)

\* The fields that Read writes.
LEMMA ReadFields ==
    ASSUME Base, Gathering, NEW r \in Readers, Read(r),
           NEW i, i = rd[r].pos, NEW v, v = rd[r].arr,
           NEW e, e = [idx |-> buf[v][i].idx, weight |-> buf[v][i].weight]
    PROVE  Reads(r, i, v, e)
<1>1. rd[r].pc = "read" /\ DOMAIN ans = Readers /\ UNCHANGED <<arr, buf>>
    BY DEF Read, Base, IInv, TypeOK
<1>2. /\ rd'[r].pos = i - 1 /\ rd'[r].arr = v
      /\ rd'[r].pc = IF i = 0 THEN "unpin" ELSE "read"
      /\ rd'[r].ts = rd[r].ts /\ rd'[r].still = rd[r].still
  <2>1. PICK p : p = IF i = 0 THEN "unpin" ELSE "read"
      OBVIOUS
  <2>2. PICK n : n = i - 1
      OBVIOUS
  <2>3. rd' = [rd EXCEPT ![r].pos = n, ![r].pc = p]
      BY <1>1, <2>1, <2>2 DEF Read
  <2>4. rd \in [Readers -> ReaderStates] /\ rd[r] \in ReaderStates
      BY DEF Base, IInv, TypeOK
  <2>5. rd'[r] = [rd[r] EXCEPT !.pos = n, !.pc = p]
      BY <2>3, <2>4
  <2>6. /\ rd'[r].pc = p /\ rd'[r].pos = n /\ rd'[r].arr = rd[r].arr
        /\ rd'[r].ts = rd[r].ts /\ rd'[r].still = rd[r].still
      BY <2>4, <2>5 DEF ReaderStates
  <2> QED BY <2>1, <2>2, <2>6
<1>3. PICK S, seen : \E got \in Seq(S) : ans[r] = [seen |-> seen, got |-> got]
    BY <1>1 DEF Gathering, GatheredBy, IsAnswer
<1>4. PICK got \in Seq(S) : ans[r] = [seen |-> seen, got |-> got]
    BY <1>3
<1> DEFINE g == IF Fresh(r, e.idx) /\ e.weight # 0 THEN Append(ans[r].got, e) ELSE ans[r].got
           s == IF Fresh(r, e.idx) /\ i >= arr[v].snapDeg
                THEN ans[r].seen \cup {e.idx} ELSE ans[r].seen
<1>5. ans'[r] = [seen |-> s, got |-> g]
  <2>1. ans' = [ans EXCEPT ![r].got = g, ![r].seen = s]
      BY DEF Read
  <2> HIDE DEF g, s
  <2>2. ans'[r] = [ans[r] EXCEPT !.got = g, !.seen = s]
      BY <1>1, <2>1
  <2> QED BY <1>4, <2>2
<1>6. \E T : g \in Seq(T)
  <2>1. S \subseteq S \cup {e} /\ got \in Seq(S)
      OBVIOUS
  <2>2. got \in Seq(S \cup {e})
      BY <2>1, SeqMonotonic
  <2>3. Append(got, e) \in Seq(S \cup {e})
      BY <2>2, AppendProperties
  <2>4. g = got \/ g = Append(got, e)
      BY <1>4
  <2> HIDE DEF g
  <2> QED BY <2>2, <2>3, <2>4
<1> HIDE DEF g, s
<1>7. IsAnswer(ans'[r])
    BY <1>5, <1>6 DEF IsAnswer
<1>8. ans'[r].seen = s /\ ans'[r].got = g /\ \E T : ans[r].got \in Seq(T)
    BY <1>4, <1>5
<1> QED BY <1>1, <1>2, <1>7, <1>8 DEF g, s, Reads

\* Appending an edge to a sequence of edges.
LEMMA AppendFacts ==
    ASSUME NEW S, NEW s \in Seq(S), NEW e
    PROVE  /\ DOMAIN s = 1 .. Len(s) /\ Len(s) \in Nat
           /\ DOMAIN Append(s, e) = 1 .. (Len(s) + 1)
           /\ \A k \in 1 .. Len(s) : Append(s, e)[k] = s[k]
           /\ Append(s, e)[Len(s) + 1] = e
<1>1. s \in Seq(S \cup {e})
  <2>1. S \subseteq S \cup {e}
      OBVIOUS
  <2> QED BY <2>1, SeqMonotonic
<1>2. DOMAIN s = 1 .. Len(s) /\ Len(s) \in Nat
    BY LenProperties
<1>3. /\ Append(s, e) \in Seq(S \cup {e}) /\ Len(Append(s, e)) = Len(s) + 1
      /\ \A k \in 1 .. Len(s) : Append(s, e)[k] = s[k]
      /\ Append(s, e)[Len(s) + 1] = e
    BY <1>1, AppendProperties
<1>4. DOMAIN Append(s, e) = 1 .. (Len(s) + 1)
    BY <1>3, LenProperties
<1> QED BY <1>2, <1>3, <1>4

\* A step over the log lists no destination that the answer has already.
LEMMA GatheredRead ==
    ASSUME Base, Contents, Gathering, NEW r \in Readers, Read(r)
    PROVE  GatheredBy(r)'
<1>1. PICK i : i = rd[r].pos
    OBVIOUS
<1>2. PICK v : v = rd[r].arr
    OBVIOUS
<1>3. PICK e : e = [idx |-> buf[v][i].idx, weight |-> buf[v][i].weight]
    OBVIOUS
<1>4. Reads(r, i, v, e)
    BY <1>1, <1>2, <1>3, ReadFields
<1>5. e.idx = buf[v][i].idx /\ e.weight = buf[v][i].weight
    BY <1>3
<1>6. arr' = arr /\ buf' = buf
    BY DEF Read
<1>7. /\ v \in Versions /\ arr[v].mem = "live" /\ arr[v].snapDeg \in Nat /\ i \in Int
      /\ i >= 0
  <2>1. rd[r].pc \in Pinning /\ i \in Nat
      BY <1>1, <1>4, ReadingBounds DEF Reads
  <2> QED BY <1>2, <2>1, PinnedVersion
<1>8. PICK S : ans[r].got \in Seq(S)
    BY <1>4 DEF Reads
<1>9. PICK g : g = ans[r].got
    OBVIOUS
<1>10. /\ DOMAIN g = 1 .. Len(g) /\ Len(g) \in Nat
       /\ DOMAIN Append(g, e) = 1 .. (Len(g) + 1)
       /\ \A k \in 1 .. Len(g) : Append(g, e)[k] = g[k]
       /\ Append(g, e)[Len(g) + 1] = e
    BY <1>8, <1>9, AppendFacts
<1>11. PICK met : met = Met(r, i)
    OBVIOUS
<1>12. PICK now : now = Met(r, i - 1)'
    OBVIOUS
<1>13. Distinct(g) /\ \A k \in DOMAIN g : g[k].idx \in met
    BY <1>1, <1>4, <1>9, <1>11 DEF Gathering, GatheredBy, Reads
\* What was met before the step is met after it, and so is the entry's destination.
<1>14. met \subseteq now /\ (Fresh(r, e.idx) => e.idx \in now)
  <2>1. ans'[r].seen = IF Fresh(r, e.idx) /\ i >= arr[v].snapDeg
                       THEN ans[r].seen \cup {e.idx} ELSE ans[r].seen
      BY <1>4 DEF Reads
  <2>2. now = ans'[r].seen \cup {buf[v][j].idx : j \in i .. (arr[v].snapDeg - 1)}
    <3>1. rd'[r].arr = v
        BY <1>4 DEF Reads
    <3>2. (i - 1) + 1 = i
        BY <1>7
    <3> QED BY <1>6, <1>12, <3>1, <3>2 DEF Met
  <2>3. met = ans[r].seen \cup {buf[v][j].idx : j \in (i + 1) .. (arr[v].snapDeg - 1)}
      BY <1>2, <1>11 DEF Met
  <2>4. /\ (i + 1) .. (arr[v].snapDeg - 1) \subseteq i .. (arr[v].snapDeg - 1)
        /\ i >= arr[v].snapDeg \/ i \in i .. (arr[v].snapDeg - 1)
      BY <1>7
  <2> QED BY <1>5, <2>1, <2>2, <2>3, <2>4
<1>15. Fresh(r, e.idx) => e.idx \notin met
  <2> SUFFICES ASSUME Fresh(r, e.idx), e.idx \in met
               PROVE  FALSE
      OBVIOUS
  <2>1. met = ans[r].seen \cup {buf[v][j].idx : j \in (i + 1) .. (arr[v].snapDeg - 1)}
      BY <1>2, <1>11 DEF Met
  <2>2. PICK j \in (i + 1) .. (arr[v].snapDeg - 1) : buf[v][j].idx = e.idx
      BY <2>1 DEF Fresh
  <2>3. i \in 0 .. (arr[v].snapDeg - 1) /\ j \in 0 .. (arr[v].snapDeg - 1) /\ i # j
      BY <1>7
  <2> QED BY <1>5, <1>7, <2>2, <2>3 DEF Contents, SnapshotSound
<1>16. PICK h : h = ans'[r].got
    OBVIOUS
<1>17. h = IF Fresh(r, e.idx) /\ e.weight # 0 THEN Append(g, e) ELSE g
    BY <1>4, <1>9, <1>16 DEF Reads
<1>18. Distinct(h) /\ \A k \in DOMAIN h : h[k].idx \in now
  <2>1. CASE ~(Fresh(r, e.idx) /\ e.weight # 0)
    <3>1. h = g
        BY <1>17, <2>1
    <3> QED BY <1>13, <1>14, <3>1
  <2>2. CASE Fresh(r, e.idx) /\ e.weight # 0
    <3>1. h = Append(g, e)
        BY <1>17, <2>2
    <3>2. /\ DOMAIN h = 1 .. (Len(g) + 1) /\ h[Len(g) + 1] = e
          /\ \A k \in 1 .. Len(g) : h[k] = g[k] /\ k \in DOMAIN g
          /\ \A k \in 1 .. (Len(g) + 1) : k = Len(g) + 1 \/ k \in 1 .. Len(g)
        BY <1>10, <3>1
    <3>3. \A k \in 1 .. Len(g) : h[k].idx # e.idx /\ h[k].idx \in now
        BY <1>13, <1>14, <1>15, <2>2, <3>2
    <3>4. Distinct(h)
      <4> SUFFICES ASSUME NEW j \in DOMAIN h, NEW k \in DOMAIN h, h[j].idx = h[k].idx
                   PROVE  j = k
          BY DEF Distinct
      <4>1. CASE j = Len(g) + 1 \/ k = Len(g) + 1
          BY <3>2, <3>3, <4>1
      <4>2. CASE j \in 1 .. Len(g) /\ k \in 1 .. Len(g)
          BY <1>13, <3>2, <4>2 DEF Distinct
      <4> QED BY <3>2, <4>1, <4>2
    <3>5. \A k \in DOMAIN h : h[k].idx \in now
        BY <1>14, <2>2, <3>2, <3>3
    <3> QED BY <3>4, <3>5
  <2> QED BY <2>1, <2>2
<1>19. /\ rd'[r].pos = i - 1 /\ rd'[r].pc \in {"read", "unpin"} /\ IsAnswer(ans'[r])
    BY <1>4 DEF Reads
<1> QED BY <1>12, <1>16, <1>18, <1>19 DEF GatheredBy

\* A reader's own step: before it reads the log its answer is empty, then it is the
\* snapshot segment, or grows entry by entry.
LEMMA GatheredOwn ==
    ASSUME Base, Contents, Gathering, NEW r \in Readers, Ask(r) \/ ReaderStep(r)
    PROVE  GatheredBy(r)'
<1>1. rd \in [Readers -> ReaderStates] /\ rd[r] \in ReaderStates /\ DOMAIN ans = Readers
    BY DEF Base, IInv, TypeOK
<1>2. rd[r].pc \notin {"read", "unpin"} => ans[r] = NoAnswer
    BY DEF Gathering, GatheredBy
<1>3. ASSUME rd'[r].pc \notin {"read", "unpin"}, ans'[r] = NoAnswer
      PROVE  GatheredBy(r)'
    BY <1>3 DEF GatheredBy
<1>4. IsAnswer(NoAnswer) /\ NoAnswer.got = <<>> /\ DOMAIN <<>> = {}
  <2>1. <<>> \in Seq({}) /\ DOMAIN <<>> = {}
      BY EmptySeq
  <2>2. NoAnswer = [seen |-> {}, got |-> <<>>]
      BY DEF NoAnswer
  <2> QED BY <2>1, <2>2 DEF IsAnswer
<1>5. ASSUME rd'[r].pc = "read", ans'[r] = NoAnswer
      PROVE  GatheredBy(r)'
  <2>1. DOMAIN ans'[r].got = {}
      BY <1>4, <1>5
  <2> QED BY <1>4, <1>5, <2>1 DEF GatheredBy, Distinct
<1>6. ASSUME rd[r].pc \in {"count", "scan"}, CopySnapshot(r)
      PROVE  GatheredBy(r)'
  <2>1. rd'[r].pc = "unpin" /\ IsAnswer(ans'[r]) /\ Distinct(ans'[r].got)
      BY <1>2, <1>6, SnapshotAnswer
  <2> QED BY <2>1 DEF GatheredBy
<1>7. CASE Ask(r)
  <2>1. PICK ts : rd' = [rd EXCEPT ![r].pc = "lock", ![r].ts = ts]
      BY <1>7 DEF Ask
  <2>2. rd'[r].pc = "lock"
      BY <1>1, <2>1 DEF ReaderStates
  <2>3. ans' = ans /\ rd[r].pc = "idle"
      BY <1>7 DEF Ask
  <2> QED BY <1>2, <1>3, <2>2, <2>3
<1>8. CASE LockForRead(r) \/ Pin(r)
  <2>1. rd'[r].pc \in {"walk", "count"}
      BY <1>1, <1>8 DEF LockForRead, Pin, ReaderStates
  <2>2. ans' = ans /\ rd[r].pc \in {"lock", "walk"}
      BY <1>8 DEF LockForRead, Pin
  <2> QED BY <1>2, <1>3, <2>1, <2>2
<1>9. CASE WalkBack(r)
  <2>1. rd'[r].pc \in {"walk", "idle"}
      BY <1>1, <1>9 DEF WalkBack, ReaderStates, IdleReader
  <2>2. ans' = ans /\ rd[r].pc = "walk"
      BY <1>9 DEF WalkBack
  <2> QED BY <1>2, <1>3, <2>1, <2>2
<1>10. CASE Count(r)
  <2>1. rd[r].pc = "count"
      BY <1>10 DEF Count
  <2>2. CASE CopySnapshot(r)
      BY <1>6, <2>1, <2>2
  <2>3. CASE ~CopySnapshot(r)
    <3>1. PICK n : rd' = [rd EXCEPT ![r].pc = "scan", ![r].pos = n]
        BY <1>10, <2>3 DEF Count
    <3>2. rd'[r].pc = "scan" /\ ans' = ans
        BY <1>1, <1>10, <2>3, <3>1 DEF Count, ReaderStates
    <3> QED BY <1>2, <1>3, <2>1, <3>2
  <2> QED BY <2>2, <2>3
<1>11. CASE Scan(r)
  <2>1. rd[r].pc = "scan"
      BY <1>11 DEF Scan
  <2>2. CASE CopySnapshot(r)
      BY <1>6, <2>1, <2>2
  <2>3. CASE ~CopySnapshot(r)
    <3>1. /\ ans' = ans
          /\ rd' = [rd EXCEPT ![r].pc = "read"] \/ rd' = [rd EXCEPT ![r].pos = @ - 1]
        BY <1>11, <2>3 DEF Scan
    <3>2. rd'[r].pc \in {"read", "scan"}
        BY <1>1, <2>1, <3>1 DEF ReaderStates
    <3> QED BY <1>2, <1>3, <1>5, <2>1, <3>1, <3>2
  <2> QED BY <2>2, <2>3
<1>12. CASE Read(r)
    BY <1>12, GatheredRead
<1>13. CASE Unpin(r)
  <2>1. rd'[r] = IdleReader /\ ans'[r] = NoAnswer
      BY <1>1, <1>13 DEF Unpin
  <2>2. rd'[r].pc = "idle"
      BY <2>1 DEF IdleReader
  <2> QED BY <1>3, <2>1, <2>2
<1> QED BY <1>7, <1>8, <1>9, <1>10, <1>11, <1>12, <1>13 DEF ReaderStep

\* A write call leaves the readers where they are; only what they count as still changes.
LEMMA CallLeavesReaders ==
    ASSUME Base, NEW t \in Writers, Call(t)
    PROVE  \E d \in Dest :
              /\ ans' = ans /\ wr'[t].pc = "reserve" /\ wr'[t].call.idx = d
              /\ \A u \in Writers : u # t => wr'[u] = wr[u]
              /\ \A r \in Readers :
                    /\ rd'[r].pc = rd[r].pc /\ rd'[r].arr = rd[r].arr /\ rd'[r].pos = rd[r].pos
                    /\ rd'[r].ts = rd[r].ts /\ rd'[r].still = rd[r].still \ {d}
<1>1. rd \in [Readers -> ReaderStates] /\ wr \in [Writers -> WriterStates]
    BY DEF Base, IInv, TypeOK
<1>2. PICK d \in Dest, w \in Weights : \E c \in {Insertion(d, w), Update(d, w), Deletion(d)} :
          /\ wr' = [wr EXCEPT ![t] = [IdleWriter EXCEPT !.pc = "reserve", !.arr = cur, !.call = c]]
          /\ rd' = [r \in Readers |-> [rd[r] EXCEPT !.still = @ \ {d}]]
    BY DEF Call
<1>3. PICK c \in {Insertion(d, w), Update(d, w), Deletion(d)} :
          /\ wr' = [wr EXCEPT ![t] = [IdleWriter EXCEPT !.pc = "reserve", !.arr = cur, !.call = c]]
          /\ rd' = [r \in Readers |-> [rd[r] EXCEPT !.still = @ \ {d}]]
    BY <1>2
<1>4. c.idx = d
    BY <1>3 DEF Insertion, Update, Deletion
<1>5. /\ wr'[t] = [IdleWriter EXCEPT !.pc = "reserve", !.arr = cur, !.call = c]
      /\ \A u \in Writers : u # t => wr'[u] = wr[u]
    BY <1>1, <1>3
<1>6. wr'[t].pc = "reserve" /\ wr'[t].call.idx = d
    BY <1>4, <1>5 DEF IdleWriter
<1>7. ASSUME NEW r \in Readers
      PROVE  /\ rd'[r].pc = rd[r].pc /\ rd'[r].arr = rd[r].arr /\ rd'[r].pos = rd[r].pos
             /\ rd'[r].ts = rd[r].ts /\ rd'[r].still = rd[r].still \ {d}
  <2>1. rd[r] \in ReaderStates /\ rd'[r] = [rd[r] EXCEPT !.still = rd[r].still \ {d}]
      BY <1>1, <1>3
  <2> QED BY <2>1 DEF ReaderStates
<1>8. ans' = ans
    BY DEF Call
<1> QED BY <1>5, <1>6, <1>7, <1>8

\* Every step keeps what is known of the answers.
LEMMA GatheringStep ==
    ASSUME Base, Base', Contents, Gathering, [Next]_vars
    PROVE  Gathering'
<1> SUFFICES ASSUME NEW r \in Readers
             PROVE  GatheredBy(r)'
    BY DEF Gathering
<1>1. GatheredBy(r)
    BY DEF Gathering
<1>2. ASSUME rd'[r] = rd[r], ans'[r] = ans[r]
      PROVE  GatheredBy(r)'
    BY <1>1, <1>2, GatheredFrame
<1>3. ASSUME NEW t \in Writers, Call(t)
      PROVE  GatheredBy(r)'
  <2>1. /\ ans' = ans
        /\ rd'[r].pc = rd[r].pc /\ rd'[r].arr = rd[r].arr /\ rd'[r].pos = rd[r].pos
      BY <1>3, CallLeavesReaders
  <2> QED BY <1>1, <2>1, GatheredFrame
<1>4. ASSUME NEW t \in Writers, WriterStep(t)
      PROVE  GatheredBy(r)'
  <2>1. rd' = rd /\ ans' = ans
      BY <1>4 DEF WriterStep, Reserve, UseAfterFree, Lock, Compact, Publish, Reclaim, Reload,
                  Tick, Stamp, WriteIdx, WriteWeight, Commit
  <2> QED BY <1>2, <2>1
<1>5. ASSUME NEW q \in Readers, Ask(q) \/ ReaderStep(q)
      PROVE  GatheredBy(r)'
  <2>1. CASE q = r
      BY <1>5, <2>1, GatheredOwn
  <2>2. CASE q # r
    <3>1. rd'[r] = rd[r] /\ ans'[r] = ans[r]
        BY <1>5, <2>2, ReaderMoves
    <3> QED BY <1>2, <3>1
  <2> QED BY <2>1, <2>2
<1>6. CASE \E sorted, dense \in BOOLEAN : CreateSnapshot(sorted, dense)
  <2>1. rd' = rd /\ ans' = ans
      BY <1>6 DEF CreateSnapshot
  <2> QED BY <1>2, <2>1
<1>7. CASE Done \/ UNCHANGED vars
    BY <1>2, <1>7 DEF Done, vars
<1> QED BY <1>3, <1>4, <1>5, <1>6, <1>7 DEF Next

\* What is known of the answers holds in every state.
LEMMA GatheringAlways ==
    ASSUME Contract
    PROVE  Spec => []Gathering
<1>1. Init => Gathering
  <2> SUFFICES ASSUME Init, NEW r \in Readers
               PROVE  GatheredBy(r)
      BY DEF Gathering
  <2>1. rd[r].pc = "idle" /\ ans[r] = NoAnswer
      BY DEF Init, IdleReader
  <2> QED BY <2>1 DEF GatheredBy
<1>2. Base /\ Base' /\ Contents /\ Gathering /\ [Next]_vars => Gathering'
    BY GatheringStep
<1> QED BY <1>1, <1>2, BaseAlways, ContentsAlways, PTL DEF Spec

\* Used as documented, an answer of GetNeighbours lists no neighbour twice: neither within
\* the snapshot segment, which LogCompaction leaves without duplicates, nor in the log,
\* where the bitmap of radixgraph.cpp:169-175 passes over what a newer entry has decided.
THEOREM NoNeighbourTwice ==
    ASSUME Contract
    PROVE  Spec => []NoDuplicateNeighbours
<1>1. Gathering => NoDuplicateNeighbours
    BY DEF Gathering, GatheredBy, Distinct, NoDuplicateNeighbours
<1> QED BY <1>1, GatheringAlways, PTL

-----------------------------------------------------------------------------
(* What stays still while a version is pinned. *)

\* A step of a reader leaves its request alone once it has pinned a version.
LEMMA RequestKept ==
    ASSUME Base, NEW r \in Readers, Ask(r) \/ ReaderStep(r), rd'[r].pc \in Pinning, ~Pin(r)
    PROVE  /\ rd[r].pc \in Pinning /\ rd'[r].arr = rd[r].arr
           /\ rd'[r].ts = rd[r].ts /\ rd'[r].still = rd[r].still
           /\ Count(r) \/ Scan(r) \/ Read(r)
<1>1. rd \in [Readers -> ReaderStates] /\ rd[r] \in ReaderStates
    BY DEF Base, IInv, TypeOK
<1>2. ~Ask(r) /\ ~LockForRead(r)
  <2>1. Ask(r) \/ LockForRead(r) => rd'[r].pc \in {"lock", "walk"}
      BY <1>1 DEF Ask, LockForRead, ReaderStates
  <2> QED BY <2>1 DEF Pinning
<1>3. ~WalkBack(r) /\ ~Unpin(r)
  <2>1. WalkBack(r) \/ Unpin(r) => rd'[r].pc \in {"walk", "idle"}
      BY <1>1 DEF WalkBack, Unpin, ReaderStates, IdleReader
  <2> QED BY <2>1 DEF Pinning
<1>4. Count(r) \/ Scan(r) \/ Read(r)
    BY <1>2, <1>3 DEF ReaderStep
<1>5. rd[r].pc \in Pinning
    BY <1>4 DEF Count, Scan, Read, Pinning
<1>6. \/ \E p : rd' = [rd EXCEPT ![r].pc = p]
      \/ \E n : rd' = [rd EXCEPT ![r].pos = n]
      \/ \E p, n : rd' = [rd EXCEPT ![r].pc = p, ![r].pos = n]
      \/ \E p, n : rd' = [rd EXCEPT ![r].pos = n, ![r].pc = p]
    BY <1>4 DEF Count, Scan, Read, CopySnapshot
<1>7. /\ rd'[r].arr = rd[r].arr /\ rd'[r].ts = rd[r].ts /\ rd'[r].still = rd[r].still
    BY <1>1, <1>6 DEF ReaderStates
<1> QED BY <1>4, <1>5, <1>7

\* A call that begins takes its destination out of what is still.
LEMMA StillQuietStep ==
    ASSUME Base, StillQuiet, [Next]_vars
    PROVE  StillQuiet'
<1> SUFFICES ASSUME NEW r \in Readers, rd'[r].pc \in Pinning, NEW t \in Writers, wr'[t].pc # "idle"
             PROVE  wr'[t].call.idx \notin rd'[r].still
    BY DEF StillQuiet
<1>1. ASSUME rd'[r] = rd[r], wr'[t] = wr[t]
      PROVE  wr'[t].call.idx \notin rd'[r].still
    BY <1>1 DEF StillQuiet
<1>2. ASSUME NEW u \in Writers, Call(u)
      PROVE  wr'[t].call.idx \notin rd'[r].still
  <2>1. PICK d \in Dest :
            /\ wr'[u].call.idx = d /\ \A x \in Writers : x # u => wr'[x] = wr[x]
            /\ rd'[r].pc = rd[r].pc /\ rd'[r].still = rd[r].still \ {d}
      BY <1>2, CallLeavesReaders
  <2>2. CASE t = u
      BY <2>1, <2>2
  <2>3. CASE t # u
      BY <2>1, <2>3 DEF StillQuiet
  <2> QED BY <2>2, <2>3
<1>3. ASSUME NEW u \in Writers, WriterStep(u)
      PROVE  wr'[t].call.idx \notin rd'[r].still
  <2>1. rd' = rd
      BY <1>3 DEF WriterStep, Reserve, UseAfterFree, Lock, Compact, Publish, Reclaim, Reload,
                  Tick, Stamp, WriteIdx, WriteWeight, Commit
  <2>2. wr[t].pc # "idle" /\ wr'[t].call = wr[t].call
    <3>1. CASE t = u
        BY <1>3, <3>1, WriterMoves
    <3>2. CASE t # u
      <4>1. wr'[t] = wr[t]
          BY <1>3, <3>2, WriterMoves
      <4> QED BY <4>1
    <3> QED BY <3>1, <3>2
  <2> QED BY <2>1, <2>2 DEF StillQuiet
<1>4. ASSUME NEW q \in Readers, Ask(q) \/ ReaderStep(q)
      PROVE  wr'[t].call.idx \notin rd'[r].still
  <2>1. wr' = wr /\ \A x \in Readers : x # q => rd'[x] = rd[x]
      BY <1>4, ReaderMoves
  <2>2. CASE q # r
      BY <1>1, <2>1, <2>2
  <2>3. CASE q = r /\ Pin(r)
    <3>1. rd \in [Readers -> ReaderStates] /\ rd[r] \in ReaderStates
        BY DEF Base, IInv, TypeOK
    <3>2. rd'[r].still = {d \in Dest : \A x \in Writers : wr[x].pc # "idle" => wr[x].call.idx # d}
        BY <2>3, <3>1 DEF Pin, ReaderStates
    <3> QED BY <2>1, <3>2
  <2>4. CASE q = r /\ ~Pin(r)
    <3>1. rd[r].pc \in Pinning /\ rd'[r].still = rd[r].still
        BY <1>4, <2>4, RequestKept
    <3> QED BY <2>1, <3>1 DEF StillQuiet
  <2> QED BY <2>2, <2>3, <2>4
<1>5. CASE \E sorted, dense \in BOOLEAN : CreateSnapshot(sorted, dense)
    BY <1>1, <1>5 DEF CreateSnapshot
<1>6. CASE Done \/ UNCHANGED vars
    BY <1>1, <1>6 DEF Done, vars
<1> QED BY <1>2, <1>3, <1>4, <1>5, <1>6 DEF Next

\* A reader that asks for no timestamp stops at the version it finds under the lock, and
\* nobody publishes another one before it lets go of the lock.
LEMMA WalkCurrentStep ==
    ASSUME Base, WalkCurrent, [Next]_vars
    PROVE  WalkCurrent'
<1> SUFFICES ASSUME NEW r \in Readers, rd'[r].pc = "walk", rd'[r].ts = Forever
             PROVE  rd'[r].arr = cur'
    BY DEF WalkCurrent
<1>1. ASSUME rd'[r] = rd[r], cur' = cur
      PROVE  rd'[r].arr = cur'
    BY <1>1 DEF WalkCurrent
<1>2. ASSUME NEW t \in Writers, Call(t)
      PROVE  rd'[r].arr = cur'
  <2>1. rd'[r].pc = rd[r].pc /\ rd'[r].arr = rd[r].arr /\ rd'[r].ts = rd[r].ts
      BY <1>2, CallLeavesReaders
  <2>2. cur' = cur
      BY <1>2 DEF Call
  <2> QED BY <2>1, <2>2 DEF WalkCurrent
<1>3. ASSUME NEW t \in Writers, WriterStep(t)
      PROVE  rd'[r].arr = cur'
  <2>1. rd' = rd
      BY <1>3 DEF WriterStep, Reserve, UseAfterFree, Lock, Compact, Publish, Reclaim, Reload,
                  Tick, Stamp, WriteIdx, WriteWeight, Commit
  <2>2. ~Publish(t)
    <3> SUFFICES ASSUME Publish(t)
                 PROVE  FALSE
        OBVIOUS
    <3>1. mtx = t
        BY DEF Publish, Base, IInv, LockHeldInside, WriterInside
    <3>2. mtx = r
        BY <2>1 DEF Base, IInv, LockHeldInside
    <3> QED BY <3>1, <3>2, ConstantsAssumption DEF ConstantsAssumption
  <2>3. cur' = cur
      BY <1>3, <2>2 DEF WriterStep, Reserve, UseAfterFree, Lock, Compact, Reclaim, Reload,
                  Tick, Stamp, WriteIdx, WriteWeight, Commit
  <2> QED BY <1>1, <2>1, <2>3
<1>4. ASSUME NEW q \in Readers, Ask(q) \/ ReaderStep(q)
      PROVE  rd'[r].arr = cur'
  <2>1. cur' = cur /\ \A x \in Readers : x # q => rd'[x] = rd[x]
      BY <1>4, ReaderMoves
  <2>2. CASE q # r
      BY <1>1, <2>1, <2>2
  <2>3. CASE q = r
    <3>1. rd \in [Readers -> ReaderStates] /\ rd[r] \in ReaderStates
        BY DEF Base, IInv, TypeOK
    <3>2. CASE LockForRead(r)
        BY <2>1, <3>1, <3>2 DEF LockForRead, ReaderStates
    <3>3. CASE WalkBack(r)
      <4>1. rd[r].pc = "walk" /\ ~Readable(rd[r].arr, rd[r].ts)
          BY <3>3 DEF WalkBack
      <4>2. PICK before :
                rd' = [rd EXCEPT ![r].arr = before] \/ rd' = [rd EXCEPT ![r] = IdleReader]
          BY <3>3 DEF WalkBack
      <4>3. rd'[r].ts = rd[r].ts
        <5>1. rd' # [rd EXCEPT ![r] = IdleReader]
            BY <3>1 DEF IdleReader
        <5> QED BY <3>1, <4>2, <5>1 DEF ReaderStates
      <4>4. rd[r].arr = cur
          BY <4>1, <4>3 DEF WalkCurrent
      <4>5. Readable(cur, Forever)
          BY BaseFacts DEF Readable, Within
      <4> QED BY <4>1, <4>3, <4>4, <4>5
    <3>4. CASE Ask(r)
        BY <3>1, <3>4 DEF Ask, ReaderStates
    <3>5. CASE Pin(r)
        BY <3>1, <3>5 DEF Pin, ReaderStates
    <3>6. CASE Count(r) \/ Scan(r) \/ Read(r)
      <4>1. CASE Count(r)
          BY <3>1, <4>1 DEF Count, CopySnapshot, ReaderStates
      <4>2. CASE Scan(r)
          BY <3>1, <4>2 DEF Scan, CopySnapshot, ReaderStates
      <4>3. CASE Read(r)
        <5>1. PICK p, c : /\ rd' = [rd EXCEPT ![r].pos = p, ![r].pc = c]
                          /\ c \in {"unpin", rd[r].pc}
            BY <4>3 DEF Read
        <5>2. rd[r].pc = "read"
            BY <4>3 DEF Read
        <5> QED BY <3>1, <5>1, <5>2 DEF ReaderStates
      <4> QED BY <3>6, <4>1, <4>2, <4>3
    <3>7. CASE Unpin(r)
        BY <3>1, <3>7 DEF Unpin, IdleReader
    <3> QED BY <1>4, <2>3, <3>2, <3>3, <3>4, <3>5, <3>6, <3>7 DEF ReaderStep
  <2> QED BY <2>2, <2>3
<1>5. CASE \E sorted, dense \in BOOLEAN : CreateSnapshot(sorted, dense)
  <2>1. rd' = rd /\ rd[r].pc = "idle"
      BY <1>5 DEF CreateSnapshot, AllIdle
  <2> QED BY <2>1
<1>6. CASE Done \/ UNCHANGED vars
    BY <1>1, <1>6 DEF Done, vars
<1> QED BY <1>2, <1>3, <1>4, <1>5, <1>6 DEF Next

-----------------------------------------------------------------------------
(* An undisturbed read. *)

\* While every destination is still, no write call is in progress.
LEMMA WritersQuiet ==
    ASSUME Base, StillQuiet, NEW r \in Readers, Undisturbed(r)
    PROVE  Holding(cur) = {} /\ \A t \in Writers : wr[t].pc = "idle"
<1>1. \A t \in Writers : wr[t].pc # "idle" => wr[t].call.idx \in Dest
    BY DEF Base, LogWritten, CallsMade
<1>2. \A t \in Writers : wr[t].pc = "idle"
    BY <1>1 DEF StillQuiet, Undisturbed
<1> QED BY <1>2 DEF Holding, Writing

\* With no writer about, the current version and what it stands for stay as they are
\* through a step of a reader.
LEMMA CurrentKept ==
    ASSUME Base, Base', Contents, NEW q \in Readers, Ask(q) \/ ReaderStep(q), Holding(cur) = {}
    PROVE  /\ cur' = cur /\ buf'[cur] = buf[cur] /\ View' = View /\ Log' = Log
           /\ arr'[cur].phys = arr[cur].phys /\ arr'[cur].snapDeg = arr[cur].snapDeg
           /\ Reserved(cur)' = Reserved(cur)
<1>1. QuietReader(q) \/ Unpin(q)
    BY DEF ReaderStep, QuietReader
<1>2. IInv /\ cur \in Versions /\ cur' = cur /\ wr' = wr
    BY BaseFacts, ReaderMoves
<1>3. arr'[cur].mem = "live"
  <2>1. arr'[cur'].mem = "live"
      BY DEF Base, IInv, VersionsSane
  <2> QED BY <1>2, <2>1
<1>4. SameSlots(arr'[cur], arr[cur]) /\ buf'[cur] = buf[cur]
  <2>1. CASE QuietReader(q)
      BY <1>2, <2>1, QuietReaderFields
  <2>2. CASE Unpin(q)
      BY <1>2, <1>3, <2>2, UnpinFields DEF Retiring
  <2> QED BY <1>1, <2>1, <2>2
<1>5. View' = View
    BY <1>1, ContentsReader
<1>6. /\ arr'[cur].phys = arr[cur].phys /\ arr'[cur].snapDeg = arr[cur].snapDeg
      /\ arr'[cur].size = arr[cur].size /\ arr'[cur].cap = arr[cur].cap
    BY <1>4 DEF SameSlots
<1>7. Reserved(cur)' = Reserved(cur)
    BY <1>2, <1>6 DEF Reserved
<1>8. Holding(cur)' = {}
    BY <1>2 DEF Holding
<1>9. \A i : Entry(cur, i) = buf[cur][i] /\ Entry(cur, i)' = buf'[cur][i]
  <2>1. \A i : Entry(cur, i) = buf[cur][i]
      BY EntryFree
  <2>2. \A i : Entry(cur, i)' = buf'[cur'][i]
      BY <1>8 DEF Entry
  <2> QED BY <1>2, <2>1, <2>2
<1>10. Log' = Log
    BY <1>4, <1>7, <1>9 DEF Log
<1> QED BY <1>2, <1>4, <1>5, <1>6, <1>7, <1>10

\* The edges of the vertex are the latest entries of its log.
LEMMA EdgesOfLog ==
    ASSUME Base, Contents, Holding(cur) = {}
    PROVE  Edges(Dest) = {SlotEdge(i) : i \in LatestOf(Log)}
<1>1. /\ DOMAIN Log = 0 .. (arr[cur].phys - 1) /\ IsLog(Log) /\ View = ViewOf(Log)
      /\ \A i \in DOMAIN Log : Log[i] = buf[cur][i]
    BY QuietLog
<1>2. PICK L : L = Log
    OBVIOUS
<1>3. \A i \in DOMAIN L : L[i].idx \in Dest
    BY <1>1, <1>2 DEF IsLog
<1>4. ASSUME NEW x \in Edges(Dest)
      PROVE  x \in {SlotEdge(i) : i \in LatestOf(Log)}
  <2>1. PICK d \in Dest : View[d] # 0 /\ x = [idx |-> d, weight |-> View[d]]
      BY <1>4 DEF Edges
  <2>2. PICK i \in DOMAIN L : L[i].idx = d /\ Newest(L, i)
      BY <1>1, <1>2, <2>1, ViewOfFacts
  <2>3. View[d] = L[i].weight
      BY <1>1, <1>2, <2>2, ViewOfFacts
  <2>4. i \in LatestOf(L)
      BY <2>1, <2>2, <2>3 DEF LatestOf
  <2>5. x = SlotEdge(i)
      BY <1>1, <1>2, <2>1, <2>2, <2>3 DEF SlotEdge
  <2> QED BY <1>2, <2>4, <2>5
<1>5. ASSUME NEW i \in LatestOf(L)
      PROVE  SlotEdge(i) \in Edges(Dest)
  <2>1. i \in DOMAIN L /\ L[i].weight # 0 /\ Newest(L, i)
      BY <1>5 DEF LatestOf
  <2>2. PICK d : d = L[i].idx
      OBVIOUS
  <2>3. d \in Dest
      BY <1>3, <2>1, <2>2
  <2>4. View[d] = L[i].weight
      BY <1>1, <1>2, <2>1, <2>2, <2>3, ViewOfFacts
  <2>5. SlotEdge(i) = [idx |-> d, weight |-> View[d]]
      BY <1>1, <1>2, <2>1, <2>2, <2>4 DEF SlotEdge
  <2> QED BY <2>1, <2>3, <2>4, <2>5 DEF Edges
<1> QED BY <1>2, <1>4, <1>5

\* The bitmap and the snapshot segment together tell whether an entry is the newest for
\* its destination.
LEMMA FreshIsNewest ==
    ASSUME Base, Contents, Holding(cur) = {}, NEW r \in Readers,
           NEW i \in 0 .. (arr[cur].phys - 1), ans[r].seen = SeenAbove(i)
    PROVE  /\ Fresh(r, buf[cur][i].idx) <=> Newest(Log, i)
           /\ buf[cur][i].idx \in SeenAbove(i) => ~Newest(Log, i)
<1>1. PICK n : n = arr[cur].phys
    OBVIOUS
<1>2. PICK L : L = Log
    OBVIOUS
<1>3. /\ n \in Nat /\ Reserved(cur) = 0 .. (n - 1) /\ DOMAIN L = 0 .. (n - 1) /\ i \in 0 .. (n - 1)
      /\ \A j \in 0 .. (n - 1) : L[j] = buf[cur][j]
    BY <1>1, <1>2, QuietLog
<1>4. L[i].idx \in Dest /\ NoIdx \notin Dest
  <2>1. IsLog(L)
      BY <1>2, QuietLog
  <2>2. NoIdx \notin Nat
      BY DEF NoIdx
  <2> QED BY <1>3, <2>1, <2>2, ConstantsAssumption DEF IsLog, ConstantsAssumption
<1>5. PICK s : s = arr[cur].snapDeg
    OBVIOUS
<1>6. s \in Nat /\ cur \in Versions /\ arr[cur].mem = "live"
    BY <1>5, BaseFacts
<1>7. PICK d : d = L[i].idx
    OBVIOUS
<1>8. SeenAbove(i) = {L[j].idx : j \in {k \in 0 .. (n - 1) : k > i /\ k >= s}}
    BY <1>3, <1>5 DEF SeenAbove
<1>9. ASSUME NEW j \in 0 .. (n - 1), j > i, L[j].idx = d
      PROVE  d \in SeenAbove(i)
  <2>1. CASE j >= s
      BY <1>8, <1>9, <2>1
  <2>2. CASE ~(j >= s)
    <3>1. i \in 0 .. (s - 1) /\ j \in 0 .. (s - 1) /\ i # j
        BY <1>3, <1>6, <1>9, <2>2
    <3>2. buf[cur][i].idx = buf[cur][j].idx
        BY <1>3, <1>7, <1>9
    <3> QED BY <1>5, <1>6, <3>1, <3>2 DEF Contents, SnapshotSound
  <2> QED BY <2>1, <2>2
<1>10. d \in SeenAbove(i) => \E j \in 0 .. (n - 1) : j > i /\ L[j].idx = d
    BY <1>8
<1>11. Newest(L, i) <=> d \notin SeenAbove(i)
  <2>1. ASSUME d \notin SeenAbove(i)
        PROVE  Newest(L, i)
    <3> SUFFICES ASSUME NEW j \in DOMAIN L, L[j].idx = L[i].idx
                 PROVE  j <= i
        BY DEF Newest
    <3>1. ~(j > i)
        BY <1>3, <1>7, <1>9, <2>1
    <3> QED BY <1>3, <3>1
  <2>2. ASSUME d \in SeenAbove(i), Newest(L, i)
        PROVE  FALSE
    <3>1. PICK j \in 0 .. (n - 1) : j > i /\ L[j].idx = d
        BY <1>10, <2>2
    <3>2. j <= i
        BY <1>3, <1>7, <2>2, <3>1 DEF Newest
    <3> QED BY <1>3, <3>1, <3>2
  <2> QED BY <2>1, <2>2
<1>12. buf[cur][i].idx = d
    BY <1>3, <1>7
<1>13. Fresh(r, d) <=> d \notin SeenAbove(i)
    BY <1>4, <1>7 DEF Fresh
<1> QED BY <1>2, <1>11, <1>12, <1>13

\* A version without logs is its own answer.
LEMMA SnapshotIsLatest ==
    ASSUME Base, Contents, Holding(cur) = {}, arr[cur].snapDeg = arr[cur].phys
    PROVE  LatestOf(Log) = 0 .. (arr[cur].phys - 1)
<1>1. PICK n : n = arr[cur].phys
    OBVIOUS
<1>2. PICK L : L = Log
    OBVIOUS
<1>3. /\ n \in Nat /\ DOMAIN L = 0 .. (n - 1) /\ \A j \in 0 .. (n - 1) : L[j] = buf[cur][j]
    BY <1>1, <1>2, QuietLog
<1>4. cur \in Versions /\ arr[cur].mem = "live"
    BY BaseFacts
<1>5. \A i \in 0 .. (n - 1) :
          /\ L[i].weight # 0
          /\ \A j \in 0 .. (n - 1) : L[i].idx = L[j].idx => i = j
    BY <1>1, <1>3, <1>4 DEF Contents, SnapshotSound
<1>6. \A i \in 0 .. (n - 1) : Newest(L, i)
  <2> SUFFICES ASSUME NEW i \in 0 .. (n - 1), NEW j \in 0 .. (n - 1), L[j].idx = L[i].idx
               PROVE  j <= i
      BY <1>3 DEF Newest
  <2>1. i = j
      BY <1>5
  <2> QED BY <1>3, <2>1
<1> QED BY <1>1, <1>2, <1>3, <1>5, <1>6 DEF LatestOf

\* What an undisturbed read is compared with depends on the current version only.
LEMMA AnswersKept ==
    ASSUME cur' = cur, buf'[cur] = buf[cur], View' = View, Log' = Log,
           arr'[cur].snapDeg = arr[cur].snapDeg, Reserved(cur)' = Reserved(cur)
    PROVE  /\ \A n \in Int : SeenAbove(n)' = SeenAbove(n) /\ GotAbove(n)' = GotAbove(n)
           /\ Edges(Dest)' = Edges(Dest)
<1>1. \A i : SlotEdge(i)' = SlotEdge(i)
    BY DEF SlotEdge
<1>2. ASSUME NEW n \in Int
      PROVE  SeenAbove(n)' = SeenAbove(n) /\ GotAbove(n)' = GotAbove(n)
  <2>1. SeenAbove(n)' = SeenAbove(n)
      BY DEF SeenAbove
  <2>2. GotAbove(n)' = GotAbove(n)
      BY <1>1 DEF GotAbove, LatestOf
  <2> QED BY <2>1, <2>2
<1>3. Edges(Dest)' = Edges(Dest)
    BY DEF Edges
<1> QED BY <1>2, <1>3

\* The first step of an undisturbed read: the snapshot is the answer, or the scan starts
\* at the last entry.
LEMMA QuietCount ==
    ASSUME Base, Base', Contents, Gathering, NEW r \in Readers, Undisturbed(r), QuietRead(r),
           Holding(cur) = {}, Count(r)
    PROVE  QuietRead(r)'
<1>1. PICK n : n = arr[cur].phys
    OBVIOUS
<1>2. /\ cur' = cur /\ buf'[cur] = buf[cur] /\ View' = View /\ Log' = Log
      /\ arr'[cur].phys = n /\ arr'[cur].snapDeg = arr[cur].snapDeg
      /\ Reserved(cur)' = Reserved(cur)
    BY <1>1, CurrentKept DEF ReaderStep
<1>3. rd[r].arr = cur /\ rd[r].pc = "count" /\ ans[r] = NoAnswer
    BY DEF QuietRead, Count, Gathering, GatheredBy
<1>4. n \in Nat /\ arr[cur].snapDeg \in Nat /\ arr[cur].snapDeg <= n
    BY <1>1, BaseFacts DEF Base, IInv, VersionsSane
<1>5. CASE n > arr[cur].snapDeg
  <2>1. rd' = [rd EXCEPT ![r].pc = "scan", ![r].pos = n - 1]
      BY <1>1, <1>3, <1>5 DEF Count, LastSlot
  <2>2. rd \in [Readers -> ReaderStates] /\ rd[r] \in ReaderStates
      BY DEF Base, IInv, TypeOK
  <2>3. PICK m : m = n - 1
      OBVIOUS
  <2>4. rd'[r].pc = "scan" /\ rd'[r].pos = m /\ rd'[r].arr = rd[r].arr
      BY <2>1, <2>2, <2>3 DEF ReaderStates
  <2> QED BY <1>2, <1>3, <2>3, <2>4 DEF QuietRead
<1>6. CASE ~(n > arr[cur].snapDeg)
  <2>1. arr[cur].snapDeg = n
      BY <1>4, <1>6
  <2>2. CopySnapshot(r)
      BY <1>1, <1>3, <1>6 DEF Count
  <2>3. /\ rd'[r].pc = "unpin" /\ rd'[r].arr = cur
        /\ ans'[r].got = [k \in 1 .. n |-> [idx |-> buf[cur][k - 1].idx,
                                           weight |-> buf[cur][k - 1].weight]]
      BY <1>3, <2>1, <2>2, SnapshotAnswer
  <2>4. PICK g : g = ans'[r].got
      OBVIOUS
  <2>5. /\ \A k \in 1 .. n : k - 1 \in 0 .. (n - 1)
        /\ \A i \in 0 .. (n - 1) : i + 1 \in 1 .. n /\ (i + 1) - 1 = i
      BY <1>4
  <2>6. DOMAIN g = 1 .. n /\ \A k \in 1 .. n : g[k] = SlotEdge(k - 1)
      BY <2>3, <2>4 DEF SlotEdge
  <2>7. \A i \in 0 .. (n - 1) : g[i + 1] = SlotEdge(i)
      BY <2>5, <2>6
  <2>8. {g[k] : k \in DOMAIN g} = {SlotEdge(i) : i \in 0 .. (n - 1)}
      BY <2>5, <2>6, <2>7
  <2>9. Edges(Dest) = {SlotEdge(i) : i \in 0 .. (n - 1)}
      BY <1>1, <2>1, EdgesOfLog, SnapshotIsLatest
  <2>10. Answer(r)' = {g[k] : k \in DOMAIN g}
      BY <2>4 DEF Answer
  <2>11. Answer(r)' = Edges(Dest)'
      BY <1>2, <2>8, <2>9, <2>10, AnswersKept
  <2> QED BY <1>2, <2>3, <2>11 DEF QuietRead
<1> QED BY <1>5, <1>6

\* The read starts at the last entry, whatever its timestamp.
LEMMA QuietScan ==
    ASSUME Base, Base', Contents, Gathering, NEW r \in Readers, Undisturbed(r), QuietRead(r),
           Holding(cur) = {}, Scan(r)
    PROVE  QuietRead(r)'
<1>1. PICK n : n = arr[cur].phys
    OBVIOUS
<1>2. /\ cur' = cur /\ buf'[cur] = buf[cur] /\ View' = View /\ Log' = Log
      /\ arr'[cur].phys = n /\ arr'[cur].snapDeg = arr[cur].snapDeg
      /\ Reserved(cur)' = Reserved(cur)
    BY <1>1, CurrentKept DEF ReaderStep
<1>3. PICK m : m = n - 1
    OBVIOUS
<1>4. /\ rd[r].arr = cur /\ rd[r].pc = "scan" /\ ans[r] = NoAnswer /\ rd[r].ts = Forever
      /\ rd[r].pos = m
    BY <1>1, <1>3 DEF QuietRead, Scan, Gathering, GatheredBy, Undisturbed
<1>5. n \in Nat /\ Reserved(cur) = 0 .. (n - 1) /\ DOMAIN Log = 0 .. (n - 1) /\ m \in Int
    BY <1>1, <1>3, QuietLog
<1>6. rd' = [rd EXCEPT ![r].pc = "read"] /\ ans' = ans
    BY <1>4 DEF Scan
<1>7. rd'[r].pc = "read" /\ rd'[r].pos = m /\ rd'[r].arr = cur
    BY <1>4, <1>6, ReaderTurns
<1>8. SeenAbove(m) = {} /\ GotAbove(m) = {}
  <2>1. \A j \in 0 .. (n - 1) : ~(j > m)
      BY <1>3, <1>5
  <2>2. LatestOf(Log) \subseteq 0 .. (n - 1)
      BY <1>5 DEF LatestOf
  <2> QED BY <1>5, <2>1, <2>2 DEF SeenAbove, GotAbove
<1>9. SeenAbove(m)' = {} /\ GotAbove(m)' = {}
    BY <1>2, <1>5, <1>8, AnswersKept
<1>10. ans'[r].seen = {} /\ ans'[r].got = <<>>
    BY <1>4, <1>6 DEF NoAnswer
<1>11. Answer(r)' = {}
  <2>1. DOMAIN <<>> = {}
      BY EmptySeq
  <2> QED BY <1>10, <2>1 DEF Answer
<1>12. m < arr'[cur'].phys
    BY <1>2, <1>3, <1>5
<1> QED BY <1>2, <1>7, <1>9, <1>10, <1>11, <1>12 DEF QuietRead

\* An entry is appended exactly if it is the newest for its destination and no deletion.
LEMMA QuietReadOn ==
    ASSUME Base, Base', Contents, Gathering, NEW r \in Readers, Undisturbed(r), QuietRead(r),
           Holding(cur) = {}, Read(r)
    PROVE  QuietRead(r)'
<1>1. PICK n : n = arr[cur].phys
    OBVIOUS
<1>2. /\ cur' = cur /\ buf'[cur] = buf[cur] /\ View' = View /\ Log' = Log
      /\ arr'[cur].phys = n /\ arr'[cur].snapDeg = arr[cur].snapDeg
      /\ Reserved(cur)' = Reserved(cur)
    BY <1>1, CurrentKept DEF ReaderStep
<1>3. PICK i : i = rd[r].pos
    OBVIOUS
<1>4. PICK e : e = SlotEdge(i)
    OBVIOUS
<1>5. /\ rd[r].arr = cur /\ rd[r].pc = "read" /\ i < n
      /\ ans[r].seen = SeenAbove(i) /\ Answer(r) = GotAbove(i)
    BY <1>1, <1>3 DEF QuietRead, Read
<1>6. i \in Nat
    BY <1>3, <1>5, ReadingBounds
<1>7. PICK L : L = Log
    OBVIOUS
<1>8. /\ n \in Nat /\ Reserved(cur) = 0 .. (n - 1) /\ DOMAIN L = 0 .. (n - 1) /\ i \in 0 .. (n - 1)
      /\ L[i] = buf[cur][i]
  <2>1. n \in Nat /\ Reserved(cur) = 0 .. (n - 1) /\ L = [j \in 0 .. (n - 1) |-> buf[cur][j]]
      BY <1>1, <1>7, QuietLog
  <2> QED BY <1>5, <1>6, <2>1
<1>9. e.idx = buf[cur][i].idx /\ e.weight = L[i].weight
    BY <1>4, <1>8 DEF SlotEdge
<1>10. Reads(r, i, cur, e)
    BY <1>3, <1>4, <1>5, ReadFields DEF SlotEdge
<1>11. /\ Fresh(r, e.idx) <=> Newest(L, i)
       /\ e.idx \in SeenAbove(i) => ~Newest(L, i)
    BY <1>1, <1>5, <1>7, <1>8, <1>9, FreshIsNewest
<1>12. PICK k : k = i - 1
    OBVIOUS
<1>13. k \in Int /\ \A j \in 0 .. (n - 1) : j > k <=> j > i \/ j = i
    BY <1>6, <1>8, <1>12
<1>14. PICK s : s = arr[cur].snapDeg
    OBVIOUS
<1>15. ans'[r].seen = SeenAbove(k)
  <2>1. SeenAbove(k) = {buf[cur][j].idx : j \in {x \in 0 .. (n - 1) : x > k /\ x >= s}}
      BY <1>8, <1>14 DEF SeenAbove
  <2>2. SeenAbove(i) = {buf[cur][j].idx : j \in {x \in 0 .. (n - 1) : x > i /\ x >= s}}
      BY <1>8, <1>14 DEF SeenAbove
  <2>3. SeenAbove(k) = IF i >= s THEN SeenAbove(i) \cup {e.idx} ELSE SeenAbove(i)
      BY <1>8, <1>9, <1>13, <2>1, <2>2
  <2>4. Fresh(r, e.idx) \/ e.idx \in SeenAbove(i)
    <3>1. e.idx # NoIdx
      <4>1. IsLog(L)
          BY <1>7, QuietLog
      <4>2. L[i].idx \in Dest /\ L[i].idx = e.idx
          BY <1>8, <1>9, <4>1 DEF IsLog
      <4> QED BY <4>2, ConstantsAssumption DEF ConstantsAssumption, NoIdx
    <3> QED BY <1>5, <3>1 DEF Fresh
  <2>5. ans'[r].seen = IF Fresh(r, e.idx) /\ i >= s THEN SeenAbove(i) \cup {e.idx} ELSE SeenAbove(i)
      BY <1>5, <1>10, <1>14 DEF Reads
  <2> QED BY <2>3, <2>4, <2>5
<1>16. Answer(r)' = GotAbove(k)
  <2>1. i \in LatestOf(L) <=> Fresh(r, e.idx) /\ e.weight # 0
      BY <1>8, <1>9, <1>11 DEF LatestOf
  <2>2. GotAbove(k) = IF i \in LatestOf(L) THEN GotAbove(i) \cup {e} ELSE GotAbove(i)
    <3>1. LatestOf(L) \subseteq 0 .. (n - 1)
        BY <1>8 DEF LatestOf
    <3>2. {j \in LatestOf(L) : j > k} =
              {j \in LatestOf(L) : j > i} \cup {j \in LatestOf(L) : j = i}
        BY <1>13, <3>1
    <3> QED BY <1>4, <1>7, <3>2 DEF GotAbove
  <2>3. PICK g : g = ans[r].got
      OBVIOUS
  <2>4. PICK h : h = ans'[r].got
      OBVIOUS
  <2>5. h = IF Fresh(r, e.idx) /\ e.weight # 0 THEN Append(g, e) ELSE g
      BY <1>10, <2>3, <2>4 DEF Reads
  <2>6. {g[j] : j \in DOMAIN g} = GotAbove(i)
      BY <1>5, <2>3 DEF Answer
  <2>7. Answer(r)' = {h[j] : j \in DOMAIN h}
      BY <2>4 DEF Answer
  <2>8. {h[j] : j \in DOMAIN h} =
            IF Fresh(r, e.idx) /\ e.weight # 0 THEN GotAbove(i) \cup {e} ELSE GotAbove(i)
    <3>1. CASE Fresh(r, e.idx) /\ e.weight # 0
      <4>1. PICK S : g \in Seq(S)
          BY <1>10, <2>3 DEF Reads
      <4>2. h = Append(g, e)
          BY <2>5, <3>1
      <4>3. /\ DOMAIN g = 1 .. Len(g) /\ Len(g) \in Nat
            /\ DOMAIN h = 1 .. (Len(g) + 1)
            /\ \A j \in 1 .. Len(g) : h[j] = g[j]
            /\ h[Len(g) + 1] = e
          BY <4>1, <4>2, AppendFacts
      <4>4. DOMAIN h = DOMAIN g \cup {Len(g) + 1}
          BY <4>3
      <4>5. {h[j] : j \in DOMAIN h} = {g[j] : j \in DOMAIN g} \cup {e}
          BY <4>3, <4>4
      <4> QED BY <2>6, <3>1, <4>5
    <3>2. CASE ~(Fresh(r, e.idx) /\ e.weight # 0)
        BY <2>5, <2>6, <3>2
    <3> QED BY <3>1, <3>2
  <2> QED BY <2>1, <2>2, <2>7, <2>8
<1>17. SeenAbove(k)' = SeenAbove(k) /\ GotAbove(k)' = GotAbove(k) /\ Edges(Dest)' = Edges(Dest)
    BY <1>2, <1>13, AnswersKept
<1>18. /\ rd'[r].arr = cur' /\ rd'[r].pos = k /\ k < arr'[cur'].phys
       /\ rd'[r].pc = IF i = 0 THEN "unpin" ELSE "read"
  <2>1. k < n
      BY <1>6, <1>8, <1>12
  <2> QED BY <1>2, <1>10, <1>12, <2>1 DEF Reads
<1>19. i = 0 => GotAbove(k) = Edges(Dest)
  <2> SUFFICES ASSUME i = 0
               PROVE  GotAbove(k) = Edges(Dest)
      OBVIOUS
  <2>1. LatestOf(L) \subseteq 0 .. (n - 1)
      BY <1>8 DEF LatestOf
  <2>2. \A j \in 0 .. (n - 1) : j > k
      BY <1>12
  <2>3. {j \in LatestOf(L) : j > k} = LatestOf(L)
      BY <2>1, <2>2
  <2> QED BY <1>7, <2>3, EdgesOfLog DEF GotAbove
<1> QED BY <1>15, <1>16, <1>17, <1>18, <1>19 DEF QuietRead

\* Every step keeps what an undisturbed read has gathered exact.
LEMMA QuietReadsStep ==
    ASSUME Base, Base', Contents, Gathering, StillQuiet, StillQuiet', WalkCurrent, QuietReads,
           [Next]_vars
    PROVE  QuietReads'
<1> SUFFICES ASSUME NEW r \in Readers, Undisturbed(r)'
             PROVE  QuietRead(r)'
    BY DEF QuietReads
<1>1. rd'[r].pc \in Pinning /\ rd'[r].ts = Forever /\ rd'[r].still = Dest
    BY DEF Undisturbed
\* No write call is in progress afterwards, so none made the step.
<1>2. \A t \in Writers : wr'[t].pc = "idle"
  <2>1. \A t \in Writers : wr'[t].pc # "idle" => wr'[t].call.idx \in Dest
      BY DEF Base, LogWritten, CallsMade
  <2> QED BY <1>1, <2>1 DEF StillQuiet
<1>3. ASSUME UNCHANGED vars
      PROVE  QuietRead(r)'
  <2>1. Undisturbed(r)
      BY <1>1, <1>3 DEF vars, Undisturbed
  <2>2. QuietRead(r)
      BY <2>1 DEF QuietReads
  <2>3. /\ rd'[r] = rd[r] /\ cur' = cur /\ arr' = arr /\ buf' = buf /\ ans' = ans
        /\ View' = View /\ Log' = Log /\ Reserved(cur)' = Reserved(cur)
    <3>1. cur' = cur /\ arr' = arr /\ buf' = buf /\ ans' = ans /\ rd' = rd /\ wr' = wr
        BY <1>3 DEF vars
    <3>2. Holding(cur)' = Holding(cur) /\ Reserved(cur)' = Reserved(cur)
        BY <3>1 DEF Holding, Reserved
    <3>3. \A i : Entry(cur, i)' = Entry(cur, i)
        BY <3>1, <3>2 DEF Entry
    <3>4. View' = View /\ Log' = Log
      <4>1. View' = View
          BY <1>3, ContentsStutter
      <4>2. Log' = Log
          BY <3>2, <3>3 DEF Log
      <4> QED BY <4>1, <4>2
    <3> QED BY <3>1, <3>2, <3>4
  <2>4. PICK n : n = rd[r].pos
      OBVIOUS
  <2>5. n \in Int
      BY <2>1, <2>4, PinnedVersion DEF Undisturbed
  <2>6. SeenAbove(n)' = SeenAbove(n) /\ GotAbove(n)' = GotAbove(n) /\ Edges(Dest)' = Edges(Dest)
      BY <2>3, <2>5, AnswersKept
  <2>7. Answer(r)' = Answer(r)
      BY <2>3 DEF Answer
  <2> QED BY <2>2, <2>3, <2>4, <2>6, <2>7 DEF QuietRead
<1>4. ASSUME NEW t \in Writers, Call(t) \/ WriterStep(t)
      PROVE  FALSE
  <2>1. CASE Call(t)
    <3>1. wr'[t].pc = "reserve"
        BY <2>1, CallLeavesReaders
    <3> QED BY <1>2, <3>1
  <2>2. CASE WriterStep(t)
    <3>1. rd' = rd
        BY <2>2 DEF WriterStep, Reserve, UseAfterFree, Lock, Compact, Publish, Reclaim, Reload,
                    Tick, Stamp, WriteIdx, WriteWeight, Commit
    <3>2. Undisturbed(r)
        BY <1>1, <3>1 DEF Undisturbed
    <3>3. wr[t].pc = "idle"
        BY <3>2, WritersQuiet
    <3> QED BY <2>2, <3>3, WriterMoves
  <2> QED BY <1>4, <2>1, <2>2
<1>5. ASSUME NEW q \in Readers, Ask(q) \/ ReaderStep(q)
      PROVE  QuietRead(r)'
  <2>1. cur' = cur /\ \A x \in Readers : x # q => rd'[x] = rd[x] /\ ans'[x] = ans[x]
      BY <1>5, ReaderMoves
  <2>2. CASE q # r
    <3>1. rd'[r] = rd[r] /\ ans'[r] = ans[r]
        BY <2>1, <2>2
    <3>2. Undisturbed(r)
        BY <1>1, <3>1 DEF Undisturbed
    <3>3. QuietRead(r) /\ Holding(cur) = {}
        BY <3>2, WritersQuiet DEF QuietReads
    <3>4. /\ cur' = cur /\ buf'[cur] = buf[cur] /\ View' = View /\ Log' = Log
          /\ arr'[cur].phys = arr[cur].phys /\ arr'[cur].snapDeg = arr[cur].snapDeg
          /\ Reserved(cur)' = Reserved(cur)
        BY <1>5, <3>3, CurrentKept
    <3>5. PICK n : n = rd[r].pos
        OBVIOUS
    <3>6. n \in Int
        BY <3>2, <3>5, PinnedVersion DEF Undisturbed
    <3>7. SeenAbove(n)' = SeenAbove(n) /\ GotAbove(n)' = GotAbove(n) /\ Edges(Dest)' = Edges(Dest)
        BY <3>4, <3>6, AnswersKept
    <3>8. Answer(r)' = Answer(r)
        BY <3>1 DEF Answer
    <3> QED BY <3>1, <3>3, <3>4, <3>5, <3>7, <3>8 DEF QuietRead
  <2>3. CASE q = r /\ Pin(r)
    <3>1. rd \in [Readers -> ReaderStates] /\ rd[r] \in ReaderStates
        BY DEF Base, IInv, TypeOK
    <3>2. rd'[r].pc = "count" /\ rd'[r].arr = rd[r].arr /\ rd'[r].ts = rd[r].ts
      <4>1. PICK s : rd' = [rd EXCEPT ![r].pc = "count", ![r].still = s]
          BY <2>3 DEF Pin
      <4> QED BY <3>1, <4>1 DEF ReaderStates
    <3>3. rd[r].pc = "walk"
        BY <2>3 DEF Pin
    <3>4. rd'[r].arr = cur
        BY <1>1, <3>2, <3>3 DEF WalkCurrent
    <3> QED BY <2>1, <3>2, <3>4 DEF QuietRead
  <2>4. CASE q = r /\ ~Pin(r)
    <3>1. /\ rd[r].pc \in Pinning /\ rd'[r].ts = rd[r].ts /\ rd'[r].still = rd[r].still
          /\ Count(r) \/ Scan(r) \/ Read(r)
        BY <1>1, <1>5, <2>4, RequestKept
    <3>2. Undisturbed(r)
        BY <1>1, <3>1 DEF Undisturbed
    <3>3. QuietRead(r) /\ Holding(cur) = {}
        BY <3>2, WritersQuiet DEF QuietReads
    <3> QED BY <3>1, <3>2, <3>3, QuietCount, QuietScan, QuietReadOn
  <2> QED BY <2>2, <2>3, <2>4
<1>6. CASE \E sorted, dense \in BOOLEAN : CreateSnapshot(sorted, dense)
  <2>1. rd' = rd /\ rd[r].pc = "idle"
      BY <1>6 DEF CreateSnapshot, AllIdle
  <2> QED BY <1>1, <2>1 DEF Pinning
<1>7. CASE Done
    BY <1>3, <1>7 DEF Done
<1> QED BY <1>3, <1>4, <1>5, <1>6, <1>7 DEF Next

\* Used as documented, a GetNeighbours at the default timestamp that no write call overlaps
\* returns exactly the edges of the vertex, whatever compactions, purges and CreateSnapshots
\* came before and whatever other readers do meanwhile.
THEOREM QuietReadsAreExact ==
    ASSUME Contract
    PROVE  Spec => []QuietReadExact
<1>1. Init => StillQuiet /\ WalkCurrent /\ QuietReads
  <2> SUFFICES ASSUME Init
               PROVE  StillQuiet /\ WalkCurrent /\ QuietReads
      OBVIOUS
  <2>1. \A r \in Readers : rd[r].pc = "idle"
      BY DEF Init, IdleReader
  <2> QED BY <2>1 DEF StillQuiet, WalkCurrent, QuietReads, Undisturbed, Pinning
<1>2. Base /\ StillQuiet /\ [Next]_vars => StillQuiet'
    BY StillQuietStep
<1>3. Base /\ WalkCurrent /\ [Next]_vars => WalkCurrent'
    BY WalkCurrentStep
<1>4. /\ Base /\ Base' /\ Contents /\ Gathering /\ StillQuiet /\ StillQuiet' /\ WalkCurrent
      /\ QuietReads /\ [Next]_vars
      => QuietReads'
    BY QuietReadsStep
<1>5. QuietReads => QuietReadExact
  <2> SUFFICES ASSUME QuietReads, NEW r \in Readers, rd[r].pc = "unpin", rd[r].ts = Forever,
                      rd[r].still = Dest
               PROVE  Answer(r) = Edges(Dest)
      BY DEF QuietReadExact
  <2>1. Undisturbed(r)
      BY DEF Undisturbed, Pinning
  <2> QED BY <2>1 DEF QuietReads, QuietRead
<1> QED BY <1>1, <1>2, <1>3, <1>4, <1>5, BaseAlways, ContentsAlways, GatheringAlways, PTL DEF Spec
==============================================================================
