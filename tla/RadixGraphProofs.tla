-------------------------- MODULE RadixGraphProofs --------------------------
(***************************************************************************)
(* Proofs about RadixGraph for any number of threads, vertices and calls,  *)
(* any capacities and growth constants: the type invariant and every       *)
(* property of RadixGraphProperties.                                       *)
(*                                                                         *)
(* The argument.  Shape gives every variable its type and every thread     *)
(* what it carries from one step of its call to the next; offsets and      *)
(* names of vertices never change (VerticesStay).  On it rest              *)
(*   - Refusals and Lateness: a vertex that a call has met dead stays dead *)
(*     and an array only gets later snapshots;                             *)
(*   - Marks: the bits of a bitmap are those of the log entries that its   *)
(*     thread has passed, so that they are all clear outside a scan;       *)
(*   - Ordered: the flag is_sorted speaks of lists without log entries;    *)
(*   - Contents: the snapshot segment of an array is the edges after the   *)
(*     first appends at the vertex, the log segment is the other appends,  *)
(*     and deg counts the edges, as long as callers keep the contract.  A  *)
(*     compaction by either path keeps that (KeptContent): on the fast one *)
(*     because as many edges as entries means that every entry is an edge; *)
(*   - Readers: an array that a read has pinned stands for the appends up  *)
(*     to the pin, of which the read sees those up to its time, and what   *)
(*     it has listed is the edges among the entries it has passed.         *)
(* A list that CHOOSE or Max gives is there because a finite set can be    *)
(* sorted (Sortable) and a bounded one has a greatest member               *)
(* (MaxOfBounded); both follow from the least element of a set of naturals *)
(* (LeastNatural).                                                         *)
(***************************************************************************)
EXTENDS RadixGraphProperties, SequenceTheorems, FiniteSetTheorems, WellFoundedInduction, TLAPS

-----------------------------------------------------------------------------
(* Facts about numbers, sets and orders. *)

\* A non-empty set of naturals has a least member.
LEMMA LeastNatural ==
    ASSUME NEW T \in SUBSET Nat, T # {}
    PROVE  \E m \in T : \A n \in T : m <= n
<1> DEFINE R == {ss \in Nat \X Nat : ss[1] < ss[2]}
<1>1. IsWellFoundedOn(R, Nat)
    BY NatLessThanWellFounded DEF OpToRel
<1> HIDE DEF R
<1>2. PICK m \in T : \A n \in T : <<n, m>> \notin R
    BY <1>1, WFMin
<1>3. ASSUME NEW n \in T
      PROVE  m <= n
  <2>1. <<n, m>> \notin R /\ m \in Nat /\ n \in Nat
      BY <1>2
  <2> QED BY <2>1 DEF R
<1>4. QED BY <1>3

\* A set that holds 0, and the successor of each natural it holds, holds every natural.
LEMMA Counting ==
    ASSUME NEW S, 0 \in S, \A n \in Nat : n \in S => n + 1 \in S
    PROVE  \A n \in Nat : n \in S
<1> DEFINE T == {n \in Nat : n \notin S}
<1>1. SUFFICES ASSUME T # {}
               PROVE  FALSE
    OBVIOUS
<1>2. PICK m \in T : \A n \in T : m <= n
    BY <1>1, LeastNatural
<1>3. m \in Nat /\ m \notin S /\ m # 0
    OBVIOUS
<1>4. m - 1 \in Nat /\ m - 1 \in S
    BY <1>2, <1>3
<1>5. m - 1 + 1 = m
    BY <1>3
<1>6. QED BY <1>3, <1>4, <1>5

\* A non-empty set of integers with an upper bound has a greatest member, which Max gives.
LEMMA MaxOfBounded ==
    ASSUME NEW S \in SUBSET Int, S # {}, NEW b \in Int, \A x \in S : x <= b
    PROVE  Max(S) \in S /\ \A x \in S : x <= Max(S)
<1> DEFINE T == {n \in Nat : \E x \in S : n = b - x}
<1>1. T # {}
  <2>1. PICK x \in S : TRUE
      OBVIOUS
  <2>2. b - x \in T
      BY <2>1
  <2>3. QED BY <2>2
<1>2. PICK m \in T : \A n \in T : m <= n
    BY <1>1, LeastNatural
<1>3. PICK x \in S : m = b - x
    OBVIOUS
<1>4. \A y \in S : x >= y
  <2>1. TAKE y \in S
  <2>2. b - y \in T
      OBVIOUS
  <2>3. m <= b - y
      BY <1>2, <2>2
  <2>4. QED BY <1>3, <2>3
<1>5. Max(S) \in S /\ \A y \in S : Max(S) >= y
    BY <1>4 DEF Max
<1>6. QED BY <1>5

\* A finite set with a strict total order R can be listed in that order: its members are
\* inserted one by one.
LEMMA Sortable ==
    ASSUME NEW K, IsFiniteSet(K), NEW R,
           \A x \in K : <<x, x>> \notin R,
           \A x, y \in K : x = y \/ <<x, y>> \in R \/ <<y, x>> \in R,
           \A x, y, z \in K : <<x, y>> \in R /\ <<y, z>> \in R => <<x, z>> \in R
    PROVE  \E s \in [1 .. Cardinality(K) -> K] :
              \A i, j \in 1 .. Cardinality(K) : i < j => <<s[i], s[j]>> \in R
<1> DEFINE Lists(s, n, T) ==
              /\ s \in [1 .. n -> T]
              /\ \A i, j \in 1 .. n : i < j => <<s[i], s[j]>> \in R
           Listed == {n \in Nat : \A T \in SUBSET K : Cardinality(T) = n => \E s : Lists(s, n, T)}
<1>1. 0 \in Listed
  <2>1. ASSUME NEW T \in SUBSET K, Cardinality(T) = 0
        PROVE  \E s : Lists(s, 0, T)
    <3>1. [i \in 1 .. 0 |-> i] \in [1 .. 0 -> T]
        OBVIOUS
    <3>2. Lists([i \in 1 .. 0 |-> i], 0, T)
        BY <3>1
    <3>3. QED BY <3>2
  <2>2. QED BY <2>1
<1>2. ASSUME NEW n \in Nat, n \in Listed
      PROVE  n + 1 \in Listed
  <2>1. ASSUME NEW T \in SUBSET K, Cardinality(T) = n + 1
        PROVE  \E s : Lists(s, n + 1, T)
    <3>1. IsFiniteSet(T)
        BY FS_Subset
    <3>2. T # {}
        BY <2>1, FS_EmptySet
    <3>3. PICK x \in T : TRUE
        BY <3>2
    <3>4. Cardinality(T \ {x}) = n /\ T \ {x} \in SUBSET K
      <4>1. Cardinality(T \ {x}) = Cardinality(T) - 1
          BY <3>1, <3>3, FS_RemoveElement
      <4>2. QED BY <2>1, <4>1
    <3>5. PICK s : Lists(s, n, T \ {x})
        BY <1>2, <3>4
    <3> DEFINE After == {i \in 1 .. n : <<x, s[i]>> \in R} \cup {n + 1}
    <3>6. PICK m \in After : \A i \in After : m <= i
      <4>1. After \in SUBSET Nat /\ After # {}
          OBVIOUS
      <4>2. QED BY <4>1, LeastNatural
    <3>7. m \in 1 .. (n + 1)
        OBVIOUS
    <3>8. \A i \in 1 .. n : i < m => <<s[i], x>> \in R
      <4>1. TAKE i \in 1 .. n
      <4>2. HAVE i < m
      <4>3. i \notin After
          BY <3>6, <3>7, <4>2
      <4>4. s[i] \in K /\ s[i] # x /\ x \in K /\ <<x, s[i]>> \notin R
          BY <3>5, <4>3
      <4>5. QED BY <4>4
    <3>9. \A i \in 1 .. n : m <= i => <<x, s[i]>> \in R
      <4>1. TAKE i \in 1 .. n
      <4>2. HAVE m <= i
      <4>3. m \in 1 .. n /\ <<x, s[m]>> \in R
          BY <3>7, <4>2
      <4>4. i = m \/ <<s[m], s[i]>> \in R
          BY <3>5, <3>7, <4>2
      <4>5. s[i] \in K /\ s[m] \in K /\ x \in K
          BY <3>5, <4>3
      <4>6. QED BY <4>3, <4>4, <4>5
    <3> DEFINE g == [i \in 1 .. (n + 1) |->
                        IF i < m THEN s[i] ELSE IF i = m THEN x ELSE s[i - 1]]
    <3>10. \A i \in 1 .. (n + 1) : g[i] \in T
        BY <3>5, <3>7
    <3>11. ASSUME NEW i \in 1 .. (n + 1), NEW j \in 1 .. (n + 1), i < j
           PROVE  <<g[i], g[j]>> \in R
      <4>1. CASE j < m
          BY <3>5, <3>7, <3>11, <4>1
      <4>2. CASE j = m
        <5>1. i \in 1 .. n /\ g[i] = s[i] /\ g[j] = x
            BY <3>7, <3>11, <4>2
        <5>2. QED BY <3>8, <3>11, <4>2, <5>1
      <4>3. CASE j > m
        <5>1. j - 1 \in 1 .. n /\ g[j] = s[j - 1]
            BY <3>7, <4>3
        <5>2. CASE i < m
          <6>1. i \in 1 .. n /\ g[i] = s[i] /\ i < j - 1
              BY <3>7, <4>3, <5>2
          <6>2. QED BY <3>5, <5>1, <6>1
        <5>3. CASE i = m
          <6>1. g[i] = x /\ m <= j - 1
              BY <3>7, <4>3, <5>3
          <6>2. QED BY <3>9, <5>1, <6>1
        <5>4. CASE i > m
          <6>1. i - 1 \in 1 .. n /\ g[i] = s[i - 1] /\ i - 1 < j - 1
              BY <3>7, <3>11, <5>4
          <6>2. QED BY <3>5, <5>1, <6>1
        <5>5. QED BY <3>7, <5>2, <5>3, <5>4
      <4>4. QED BY <3>7, <4>1, <4>2, <4>3
    <3>12. g \in [1 .. (n + 1) -> T]
        BY <3>10
    <3>13. Lists(g, n + 1, T)
        BY <3>11, <3>12
    <3>14. PICK f : f = g
        OBVIOUS
    <3> HIDE DEF g, After, Lists
    <3>15. Lists(f, n + 1, T)
        BY ONLY <3>13, <3>14
    <3>16. QED BY ONLY <3>15
  <2>2. QED BY <2>1
<1>3. \A n \in Nat : n \in Listed
    BY <1>1, <1>2, Counting
<1>4. Cardinality(K) \in Nat
    BY FS_CardinalityType
<1>5. PICK s : Lists(s, Cardinality(K), K)
    BY <1>3, <1>4
<1>6. QED BY <1>5

-----------------------------------------------------------------------------
(* The shape of the state. *)

Bitmaps == [segments : Nat, bits : SUBSET Nat]
Entries == [idx : Nat, weight : 0 .. 2, stamp : Nat \cup {NoStamp}]
EdgeArrays == [log : Seq(Entries), snapDeg : Nat, deg : Int, cap : Nat, snapTs : Nat,
               stamped : BOOLEAN]
Vertices == [node : Ids, del : Nat \cup {NoTime}, arr : EdgeArrays]
Appends == [idx : Nat, id : Ids, weight : 0 .. 2, at : Nat]
Locals == [pc : Pcs, op : {"none", "insert", "update", "delete", "delvertex", "read"},
           src : Nat, des : Nat, v : Nat \cup {NoVertex}, d : Nat \cup {NoVertex}, ts : Nat,
           arr : EdgeArrays \cup {<<>>}, cnt : Nat, pos : Nat, got : Seq(Entries),
           seen : Nat, late : BOOLEAN]

Types ==
    /\ clock \in Nat /\ mixed \in BOOLEAN /\ isSorted \in BOOLEAN /\ dirty \in BOOLEAN
    /\ numThreads \in 1 .. Cardinality(Threads)
    /\ bitmap \in [0 .. (numThreads - 1) -> Bitmaps]
    /\ index \in [Ids -> Nat \cup {NoVertex}]
    /\ table \in Seq(Vertices) /\ hist \in Seq(Seq(Appends)) /\ Len(hist) = Len(table)
    /\ th \in [Threads -> Locals]

\* An array keeps within its capacity, and its entries lead to vertices.
Fits(a) ==
    /\ a.snapDeg <= Len(a.log) /\ Len(a.log) <= a.cap /\ a.snapTs <= clock
    /\ \A i \in 1 .. Len(a.log) : a.log[i].idx \in Offsets

\* What thread t, with the local state l, carries from one step of its call to the next.
Placed(t, l) ==
    /\ l.pc # "idle" => t \in 0 .. (numThreads - 1)
    /\ l.v \in Offsets \cup {NoVertex}
    /\ l.pc \in {"src", "des", "append"} =>
          l.op \in {"insert", "update", "delete"} /\ l.src \in Ids /\ l.des \in Ids
    /\ l.pc \in {"des", "append", "mark", "pin", "scan", "clear", "done"} => l.v # NoVertex
    /\ l.pc \in {"des", "append"} => l.v = index[l.src]
    /\ l.pc = "append" => l.d \in Offsets /\ l.d = index[l.des]
    /\ l.pc = "mark" => l.ts <= clock
    /\ l.pc \in {"scan", "clear", "done"} =>
          /\ l.arr \in EdgeArrays /\ Fits(l.arr)
          /\ l.arr.snapDeg <= l.cnt /\ l.cnt <= Len(l.arr.log)
    /\ l.pc = "scan" => l.pos \in 1 .. l.cnt

ArraysFit == \A v \in Offsets : Fits(Vertex(v).arr) /\ Vertex(v).del <= clock

NamesHeld ==
    \A id \in Ids : index[id] # NoVertex => index[id] \in Offsets /\ Vertex(index[id]).node = id

Shape == Types /\ (\A t \in Threads : Placed(t, th[t])) /\ ArraysFit /\ NamesHeld

-----------------------------------------------------------------------------
(* LogCompaction. *)

LEMMA GrownEnough ==
    ASSUME NEW want \in Nat, NEW num \in Nat
    PROVE  Grown(want, num) \in Nat /\ num <= Grown(want, num)
<1> DEFINE x == num - want
           q == (x + Slack - 1) \div Slack
<1>1. Slack \in Nat /\ Slack > 0
    BY RadixGraphAssumption
<1>2. CASE num <= want
    BY <1>2 DEF Grown
<1>3. CASE num > want
  <2>1. x \in Nat /\ x > 0
      BY <1>3
  <2>2. \A y \in Nat : (y \div Slack) \in Nat /\ y < Slack * (y \div Slack) + Slack
      BY <1>1
  <2>3. q \in Nat /\ x + Slack - 1 < Slack * q + Slack
      BY <1>1, <2>1, <2>2
  <2>4. Slack * q \in Nat
      BY <1>1, <2>3
  <2>5. Grown(want, num) = want + Slack * q
      BY <1>3 DEF Grown
  <2> HIDE DEF q
  <2>6. QED BY <1>1, <2>1, <2>3, <2>4, <2>5
<1>4. QED BY <1>2, <1>3

\* The entries that are kept can be put in order, and Arranged does it: every one of them
\* gets one place.
LEMMA ArrangedSound ==
    ASSUME NEW a \in EdgeArrays, NEW sorted \in BOOLEAN, NEW K \in SUBSET (1 .. Len(a.log))
    PROVE  /\ Cardinality(K) \in Nat /\ Cardinality(K) <= Len(a.log)
           /\ Arranged(K, a, sorted) \in [1 .. Cardinality(K) -> K]
           /\ \A i, j \in 1 .. Cardinality(K) :
                 i < j => Before(a, sorted, Arranged(K, a, sorted)[i], Arranged(K, a, sorted)[j])
           /\ \A k \in K : \E i \in 1 .. Cardinality(K) : Arranged(K, a, sorted)[i] = k
           /\ \A i, j \in 1 .. Cardinality(K) :
                 Arranged(K, a, sorted)[i] = Arranged(K, a, sorted)[j] => i = j
<1> DEFINE R == {p \in K \X K : Before(a, sorted, p[1], p[2])}
           n == Cardinality(K)
           s == Arranged(K, a, sorted)
<1>1. a.log \in Seq(Entries) /\ Len(a.log) \in Nat
    BY DEF EdgeArrays
<1>2. \A i \in K : i \in Nat /\ a.log[i].idx \in Nat
  <2>1. \A i \in 1 .. Len(a.log) : a.log[i] \in Entries
      BY <1>1, ElementOfSeq
  <2>2. QED BY <1>1, <2>1 DEF Entries
<1>3. IsFiniteSet(K) /\ n \in Nat /\ n <= Len(a.log)
  <2>1. IsFiniteSet(1 .. Len(a.log)) /\ Cardinality(1 .. Len(a.log)) = Len(a.log)
      BY <1>1, FS_Interval
  <2>2. IsFiniteSet(K) /\ n <= Cardinality(1 .. Len(a.log))
      BY <2>1, FS_Subset
  <2>3. QED BY <2>1, <2>2, FS_CardinalityType
<1>4. \A x, y \in K : <<x, y>> \in R <=> Before(a, sorted, x, y)
    OBVIOUS
<1> HIDE DEF R
<1>5. \A x \in K : <<x, x>> \notin R
    BY <1>2, <1>4 DEF Before
<1>6. \A x, y \in K : x = y \/ <<x, y>> \in R \/ <<y, x>> \in R
  <2>1. TAKE x, y \in K
  <2>2. PICK p, q \in Nat : p = a.log[x].idx /\ q = a.log[y].idx
      BY <1>2
  <2>3. x \in Nat /\ y \in Nat
      BY <1>2
  <2>4. x = y \/ Before(a, sorted, x, y) \/ Before(a, sorted, y, x)
      BY <2>2, <2>3 DEF Before
  <2>5. QED BY <1>4, <2>4
<1>7. \A x, y, z \in K : <<x, y>> \in R /\ <<y, z>> \in R => <<x, z>> \in R
  <2>1. TAKE x, y, z \in K
  <2>2. PICK p, q, o \in Nat : p = a.log[x].idx /\ q = a.log[y].idx /\ o = a.log[z].idx
      BY <1>2
  <2>3. x \in Nat /\ y \in Nat /\ z \in Nat
      BY <1>2
  <2>4. Before(a, sorted, x, y) /\ Before(a, sorted, y, z) => Before(a, sorted, x, z)
      BY <2>2, <2>3 DEF Before
  <2>5. QED BY <1>4, <2>4
<1>8. PICK r \in [1 .. n -> K] : \A i, j \in 1 .. n : i < j => <<r[i], r[j]>> \in R
    BY ONLY <1>3, <1>5, <1>6, <1>7, Sortable
<1>9. /\ s \in [1 .. n -> K]
      /\ \A i, j \in 1 .. n : i < j => Before(a, sorted, s[i], s[j])
  <2> DEFINE Good(f) == \A i, j \in DOMAIN f : i < j => Before(a, sorted, f[i], f[j])
  <2>1. Good(r)
      BY <1>4, <1>8
  <2>2. s = CHOOSE f \in [1 .. n -> K] : Good(f)
      BY DEF Arranged
  <2> HIDE DEF Good, s
  <2>3. s \in [1 .. n -> K] /\ Good(s)
      BY <1>8, <2>1, <2>2
  <2>4. QED BY <2>3 DEF Good
<1> HIDE DEF s
<1>10. \A i, j \in 1 .. n : s[i] = s[j] => i = j
  <2>1. ASSUME NEW i \in 1 .. n, NEW j \in 1 .. n, i < j
        PROVE  s[i] # s[j]
      BY <1>4, <1>5, <1>9, <2>1
  <2>2. QED BY <1>3, <2>1
<1>11. s \in Injection(1 .. n, K)
    BY <1>9, <1>10 DEF Injection, IsInjective
<1>12. s \in Surjection(1 .. n, K)
  <2>1. Cardinality(1 .. n) = n
      BY <1>3, FS_Interval
  <2>2. QED BY <1>3, <1>11, <2>1, FS_Injection
<1>13. \A k \in K : \E i \in 1 .. n : s[i] = k
    BY <1>12 DEF Surjection
<1>14. QED BY <1>3, <1>9, <1>10, <1>13 DEF s

LEMMA KeptAreEntries ==
    ASSUME NEW a \in EdgeArrays, NEW b
    PROVE  Kept(a, b) \in SUBSET (1 .. Len(a.log))
<1>1. a.log \in Seq(Entries)
    BY DEF EdgeArrays
<1>2. DOMAIN a.log = 1 .. Len(a.log)
    BY <1>1
<1>3. QED BY <1>2 DEF Kept

\* The new array of a compaction: its entries are those that are kept, in their order, and
\* they all fit.
LEMMA CompactedSound ==
    ASSUME NEW a \in EdgeArrays, NEW b, NEW want \in Nat, NEW sorted \in BOOLEAN,
           NEW now \in Nat, mixed \in BOOLEAN,
           NEW c, c = Compacted(a, b, want, sorted, now),
           NEW s, s = Arranged(Kept(a, b), a, sorted)
    PROVE  /\ c \in EdgeArrays
           /\ Len(c.log) = Cardinality(Kept(a, b)) /\ Len(c.log) <= Len(a.log)
           /\ c.snapDeg = Len(c.log) /\ c.deg = Len(c.log) /\ Len(c.log) <= c.cap
           /\ c.snapTs = now /\ c.stamped = mixed
           /\ \A k \in 1 .. Len(c.log) :
                 /\ s[k] \in Kept(a, b) /\ s[k] \in 1 .. Len(a.log)
                 /\ c.log[k].idx = a.log[s[k]].idx /\ c.log[k].weight = a.log[s[k]].weight
                 /\ a.log[s[k]] \in Entries
<1> DEFINE n == Cardinality(Kept(a, b))
           new == [k \in 1 .. n |-> [a.log[s[k]] EXCEPT !.stamp = NoStamp]]
<1>1. a.log \in Seq(Entries) /\ \A i \in 1 .. Len(a.log) : a.log[i] \in Entries
  <2>1. a.log \in Seq(Entries)
      BY DEF EdgeArrays
  <2>2. QED BY <2>1, ElementOfSeq
<1>2. n \in Nat /\ n <= Len(a.log) /\ s \in [1 .. n -> Kept(a, b)]
    BY KeptAreEntries, ArrangedSound
<1>3. \A k \in 1 .. n : s[k] \in Kept(a, b) /\ s[k] \in 1 .. Len(a.log) /\ a.log[s[k]] \in Entries
    BY <1>1, <1>2, KeptAreEntries
<1>4. \A k \in 1 .. n : new[k] \in Entries /\ new[k].idx = a.log[s[k]].idx
                                           /\ new[k].weight = a.log[s[k]].weight
    BY <1>3 DEF Entries
<1>5. new \in [1 .. n -> Entries]
    BY <1>4
<1>6. new \in Seq(Entries) /\ Len(new) = n
  <2> HIDE DEF new
  <2>1. new \in Seq(Entries)
      BY <1>2, <1>5, SeqDef
  <2>2. DOMAIN new = 1 .. n
      BY <1>5
  <2>3. QED BY <1>2, <2>1, <2>2
<1>7. Grown(want, n) \in Nat /\ n <= Grown(want, n)
    BY <1>2, GrownEnough
<1>8. c = [log |-> new, snapDeg |-> n, deg |-> n, cap |-> Grown(want, n), snapTs |-> now,
           stamped |-> mixed]
    BY DEF Compacted
<1> HIDE DEF n, new
<1>9. c.log = new /\ c.snapDeg = n /\ c.deg = n /\ c.cap = Grown(want, n) /\ c.snapTs = now
      /\ c.stamped = mixed
    BY <1>8
<1>10. c \in EdgeArrays
    BY <1>2, <1>6, <1>7, <1>8 DEF EdgeArrays
<1>11. QED BY <1>2, <1>3, <1>4, <1>6, <1>7, <1>9, <1>10 DEF n

-----------------------------------------------------------------------------
(* Bitmaps. *)

\* The size after SetBits covers the old size and every position that is set.
LEMMA SetBitsSize ==
    ASSUME NEW b \in Bitmaps, NEW P \in SUBSET Nat, NEW m \in Nat, \A p \in P : p <= m
    PROVE  LET top == SetBits(b, P, L).segments
           IN  /\ top \in {b.segments} \cup {(p + L) \div L : p \in P}
               /\ top \in Nat /\ b.segments <= top
               /\ \A p \in P : (p + L) \div L <= top
<1> DEFINE Ends == {b.segments} \cup {(p + L) \div L : p \in P}
<1>1. L \in Nat /\ L > 0
    BY RadixGraphAssumption
<1>2. \A p \in Nat : (p + L) \div L \in Nat /\ (p + L) \div L <= p + L
    BY <1>1
<1>3. b.segments \in Nat
    BY DEF Bitmaps
<1>4. Ends \in SUBSET Int /\ Ends # {} /\ \A x \in Ends : x \in Nat /\ x <= b.segments + m + L
    BY <1>1, <1>2, <1>3
<1>5. b.segments + m + L \in Int
    BY <1>1, <1>3
<1>6. Max(Ends) \in Ends /\ \A x \in Ends : x <= Max(Ends)
    BY ONLY <1>4, <1>5, MaxOfBounded
<1>7. SetBits(b, P, L).segments = Max(Ends)
    BY DEF SetBits
<1>8. QED BY <1>4, <1>6, <1>7

\* A position lies inside n segments exactly if its own segment does.
LEMMA InSegments ==
    ASSUME NEW p \in Nat, NEW n \in Nat
    PROVE  p < n * L <=> (p + L) \div L <= n
<1>1. L \in Nat /\ L > 0
    BY RadixGraphAssumption
<1> DEFINE q == (p + L) \div L
<1>2. q \in Nat /\ q * L <= p + L /\ p + L < q * L + L
    BY <1>1
<1>3. n * L \in Nat /\ q * L \in Nat
    BY <1>1, <1>2
<1> HIDE DEF q
<1>4. CASE q <= n
  <2>1. q * L <= n * L
      BY <1>1, <1>2, <1>4
  <2>2. QED BY <1>1, <1>2, <1>3, <1>4, <2>1 DEF q
<1>5. CASE q > n
  <2>1. q * L >= n * L + L
    <3>1. PICK k \in Nat : q = n + 1 + k
      <4>1. q - n - 1 \in Nat /\ q = n + 1 + (q - n - 1)
          BY <1>2, <1>5
      <4>2. QED BY <4>1
    <3>2. k * L \in Nat
        BY <1>1
    <3>3. q * L = n * L + L + k * L
        BY <1>1, <3>1
    <3>4. QED BY <1>1, <1>3, <3>2, <3>3
  <2>2. QED BY <1>1, <1>2, <1>3, <1>5, <2>1 DEF q
<1>6. QED BY <1>2, <1>4, <1>5

\* SetBits makes room for the positions it sets, and no more than SetBit would for each.
LEMMA SetBitsSound ==
    ASSUME NEW b \in Bitmaps, NEW P \in SUBSET Nat, NEW m \in Nat, \A p \in P : p <= m
    PROVE  /\ SetBits(b, P, L) \in Bitmaps
           /\ SetBits(b, P, L).bits = b.bits \cup P
           /\ \A p \in P : p < Size(SetBits(b, P, L), L)
           /\ \A p \in Nat : p < Size(b, L) => p < Size(SetBits(b, P, L), L)
<1> DEFINE c == SetBits(b, P, L)
<1>1. L \in Nat /\ L > 0
    BY RadixGraphAssumption
<1>2. b.segments \in Nat /\ b.bits \in SUBSET Nat
    BY DEF Bitmaps
<1>3. c.segments \in Nat /\ b.segments <= c.segments /\ \A p \in P : (p + L) \div L <= c.segments
    BY SetBitsSize
<1>4. c = [segments |-> c.segments, bits |-> b.bits \cup P]
    BY DEF SetBits
<1>5. c \in Bitmaps /\ c.bits = b.bits \cup P
    BY <1>2, <1>3, <1>4 DEF Bitmaps
<1> HIDE DEF c
<1>6. \A p \in P : p < c.segments * L
    BY <1>3, InSegments
<1>7. b.segments * L <= c.segments * L
    BY <1>1, <1>2, <1>3
<1>8. b.segments * L \in Nat /\ c.segments * L \in Nat
    BY <1>1, <1>2, <1>3
<1>9. \A p \in Nat : p < b.segments * L => p < c.segments * L
    BY <1>7, <1>8
<1>10. QED BY <1>5, <1>6, <1>9 DEF c, Size

\* SetBits and ClearBits are one SetBit or ClearBit for each position, in any order: they do
\* nothing for no position, and one position more is one call more.
LEMMA OneBitMore ==
    ASSUME NEW b \in Bitmaps, NEW P \in SUBSET Nat, NEW m \in Nat, \A p \in P : p <= m,
           NEW p \in Nat
    PROVE  /\ SetBits(b, {}, L) = b /\ ClearBits(b, {}, L) = b
           /\ SetBits(b, P \cup {p}, L) = SetBit(SetBits(b, P, L), p, L)
           /\ ClearBits(b, P \cup {p}, L) = ClearBit(ClearBits(b, P, L), p, L)
<1>1. L \in Nat /\ L > 0
    BY RadixGraphAssumption
<1>2. b.segments \in Nat /\ b.bits \in SUBSET Nat
      /\ b = [segments |-> b.segments, bits |-> b.bits]
    BY DEF Bitmaps
<1>3. SetBits(b, {}, L) = b
  <2>1. \A x \in {} : x <= 0
      OBVIOUS
  <2>2. SetBits(b, {}, L).segments = b.segments
      BY <2>1, SetBitsSize
  <2>3. SetBits(b, {}, L) = [segments |-> SetBits(b, {}, L).segments, bits |-> b.bits \cup {}]
      BY DEF SetBits
  <2>4. QED BY <1>2, <2>2, <2>3
<1>4. ClearBits(b, {}, L) = b
    BY <1>2 DEF ClearBits
<1>5. SetBits(b, P \cup {p}, L) = SetBit(SetBits(b, P, L), p, L)
  <2> DEFINE c == SetBits(b, P, L)
             d == SetBits(b, P \cup {p}, L)
             e == (p + L) \div L
  <2>1. c.segments \in {b.segments} \cup {(x + L) \div L : x \in P} /\ c.segments \in Nat
        /\ b.segments <= c.segments /\ \A x \in P : (x + L) \div L <= c.segments
      BY SetBitsSize
  <2>2. /\ d.segments \in {b.segments} \cup {(x + L) \div L : x \in P \cup {p}} /\ d.segments \in Nat
        /\ b.segments <= d.segments /\ \A x \in P \cup {p} : (x + L) \div L <= d.segments
    <3>1. m + p \in Nat /\ (P \cup {p}) \in SUBSET Nat /\ \A x \in P \cup {p} : x <= m + p
        OBVIOUS
    <3>2. QED BY <3>1, SetBitsSize
  <2>3. c = [segments |-> c.segments, bits |-> b.bits \cup P]
        /\ d = [segments |-> d.segments, bits |-> b.bits \cup P \cup {p}]
      BY DEF SetBits
  <2> HIDE DEF c, d
  <2>4. p < c.segments * L <=> e <= c.segments
      BY <2>1, InSegments
  <2>5. e \in Nat
      BY <1>1
  <2> HIDE DEF e
  <2>6. d.segments = IF p >= c.segments * L THEN e ELSE c.segments
    <3>1. d.segments = e \/ d.segments = b.segments \/ d.segments \in {(x + L) \div L : x \in P}
        BY <2>2 DEF e
    <3>2. e <= d.segments
        BY <2>2 DEF e
    <3>3. c.segments <= d.segments
        BY <2>1, <2>2
    <3>4. d.segments = e \/ d.segments <= c.segments
        BY <2>1, <3>1
    <3>5. c.segments * L \in Nat
        BY <1>1, <2>1
    <3>6. QED BY <2>1, <2>2, <2>4, <2>5, <3>2, <3>3, <3>4, <3>5
  <2>7. SetBit(c, p, L) = [segments |-> d.segments, bits |-> c.bits \cup {p}]
      BY <2>6 DEF SetBit, Size, e
  <2>8. c.bits = b.bits \cup P
      BY <2>3
  <2>9. QED BY <2>3, <2>7, <2>8 DEF c, d
<1>6. ClearBits(b, P \cup {p}, L) = ClearBit(ClearBits(b, P, L), p, L)
  <2> DEFINE c == ClearBits(b, P, L)
             d == ClearBits(b, P \cup {p}, L)
             n == b.segments * L
  <2>1. n \in Nat
      BY <1>1, <1>2
  <2>a. \A Q : ClearBits(b, Q, L) = [segments |-> b.segments,
                                       bits |-> {x \in b.bits : x >= n \/ x \notin Q}]
      BY <1>2 DEF ClearBits, Size
  <2> HIDE DEF n
  <2>2. c = [segments |-> b.segments, bits |-> {x \in b.bits : x >= n \/ x \notin P}]
      BY <2>a
  <2>3. d = [segments |-> b.segments, bits |-> {x \in b.bits : x >= n \/ x \notin P \cup {p}}]
      BY <2>a
  <2> HIDE DEF c, d
  <2>4. Size(c, L) = n /\ c.bits = {x \in b.bits : x >= n \/ x \notin P}
      BY <2>2 DEF Size, n
  <2>5. ClearBit(c, p, L) = [segments |-> b.segments,
                             bits |-> IF p >= n THEN c.bits ELSE c.bits \ {p}]
      BY <2>2, <2>4 DEF ClearBit
  <2>6. (IF p >= n THEN c.bits ELSE c.bits \ {p}) = {x \in b.bits : x >= n \/ x \notin P \cup {p}}
      BY <1>2, <2>1, <2>4
  <2>7. QED BY <2>3, <2>5, <2>6 DEF c, d
<1>7. QED BY <1>3, <1>4, <1>5, <1>6

\* Positions that are set and cleared again leave a clear bitmap clear.
LEMMA SetAndCleared ==
    ASSUME NEW b \in Bitmaps, NEW P \in SUBSET Nat, NEW m \in Nat, \A p \in P : p <= m
    PROVE  LET c == ClearBits(SetBits(b, P, L), P, L)
           IN  c \in Bitmaps /\ (b.bits = {} => c.bits = {})
<1> DEFINE c == SetBits(b, P, L)
<1>1. c \in Bitmaps /\ c.bits = b.bits \cup P /\ \A p \in P : p < Size(c, L)
    BY SetBitsSound
<1>2. Size(c, L) \in Nat
    BY <1>1, RadixGraphAssumption DEF Size, Bitmaps
<1> HIDE DEF c
<1>3. ClearBits(c, P, L) = [c EXCEPT !.bits = {p \in c.bits : p >= Size(c, L) \/ p \notin P}]
    BY DEF ClearBits
<1>4. ClearBits(c, P, L) \in Bitmaps
      /\ ClearBits(c, P, L).bits = {p \in c.bits : p >= Size(c, L) \/ p \notin P}
    BY <1>1, <1>3 DEF Bitmaps
<1>5. b.bits = {} => ClearBits(c, P, L).bits = {}
  <2>1. HAVE b.bits = {}
  <2>2. \A p \in c.bits : p \in P /\ p \in Nat /\ p < Size(c, L)
      BY <1>1, <2>1
  <2>3. QED BY <1>2, <1>4, <2>2
<1>6. QED BY <1>4, <1>5 DEF c

\* A compaction leaves a clear bitmap clear.
LEMMA SweptSound ==
    ASSUME Types, NEW a \in EdgeArrays, Fits(a), NEW b \in Bitmaps
    PROVE  Swept(b, a) \in Bitmaps /\ (b.bits = {} => Swept(b, a).bits = {})
<1>1. table \in Seq(Vertices) /\ Len(table) \in Nat
    BY DEF Types
<1>2. CASE FastPath(a)
    BY <1>2 DEF Swept
<1>3. CASE ~FastPath(a)
  <2>1. PICK P : P = Logged(a, Len(a.log))
      OBVIOUS
  <2>2. P \in SUBSET Nat /\ \A p \in P : p <= Len(table)
    <3>1. a.log \in Seq(Entries) /\ a.snapDeg \in Nat
        BY DEF EdgeArrays
    <3>2. \A i \in (a.snapDeg + 1) .. Len(a.log) : a.log[i].idx \in Offsets
        BY <3>1 DEF Fits
    <3>3. QED BY <1>1, <2>1, <3>2 DEF Logged, Offsets
  <2>3. Swept(b, a) = ClearBits(SetBits(b, P, L), P, L)
      BY <1>3, <2>1 DEF Swept, Unmarked
  <2>4. QED BY <1>1, <2>2, <2>3, SetAndCleared
<1>4. QED BY <1>2, <1>3

-----------------------------------------------------------------------------
(* The shape of the state is kept. *)

\* The vertices and names that there are stay, and so does what the other threads carry.
Grows ==
    /\ numThreads' = numThreads /\ clock' \in Nat /\ clock <= clock'
    /\ Len(table) <= Len(table')
    /\ \A id \in Ids : index[id] # NoVertex => index'[id] = index[id]

LEMMA PlacedStays ==
    ASSUME Types, Types', Grows, NEW t, NEW l \in Locals, Placed(t, l)
    PROVE  Placed(t, l)'
<1>1. clock \in Nat /\ Len(table) \in Nat /\ Len(table)' \in Nat
    BY DEF Types
<1>2. \A v : v \in Offsets => v \in Offsets'
    BY <1>1 DEF Offsets, Grows
<1>3. \A a \in EdgeArrays : Fits(a) => Fits(a)'
  <2>1. TAKE a \in EdgeArrays
  <2>2. a.snapTs \in Nat
      BY DEF EdgeArrays
  <2>3. QED BY <1>1, <1>2, <2>2 DEF Fits, Grows
<1>4. l.ts \in Nat
    BY DEF Locals
<1>5. l.pc \in {"src", "des", "append"} => l.src \in Ids /\ l.des \in Ids
    BY DEF Placed
<1>6. l.pc \in {"des", "append"} => l.v = index'[l.src]
    BY <1>5 DEF Placed, Grows
<1>7. l.pc = "append" => l.d = index'[l.des] /\ l.d \in Offsets'
  <2>1. HAVE l.pc = "append"
  <2>2. l.d \in Offsets /\ l.d = index[l.des] /\ l.des \in Ids
      BY <2>1 DEF Placed
  <2>3. l.d # NoVertex
      BY <1>1, <2>2 DEF Offsets, NoVertex
  <2>4. QED BY <1>2, <2>2, <2>3 DEF Grows
<1>8. l.pc \in {"scan", "clear", "done"} => Fits(l.arr)'
    BY <1>3 DEF Placed
<1>9. l.pc = "mark" => l.ts <= clock'
    BY <1>1, <1>4 DEF Placed, Grows
<1>10. l.v \in Offsets' \cup {NoVertex}
    BY <1>2 DEF Placed
<1>11. QED BY <1>5, <1>6, <1>7, <1>8, <1>9, <1>10 DEF Placed, Grows

LEMMA ArraysStay ==
    ASSUME Shape, Types', Grows, table' = table
    PROVE  ArraysFit'
<1>1. clock \in Nat /\ table \in Seq(Vertices)
    BY DEF Shape, Types
<1>2. Offsets' = Offsets /\ \A v : Vertex(v)' = Vertex(v)
    BY DEF Offsets, Vertex
<1>3. \A v \in Offsets : Vertex(v) \in Vertices
    BY <1>1 DEF Offsets, Vertex
<1>4. \A v \in Offsets : Vertex(v).arr.snapTs \in Nat /\ Vertex(v).del \in Int
    BY <1>3 DEF Vertices, EdgeArrays, NoTime
<1>5. QED BY <1>1, <1>2, <1>4 DEF ArraysFit, Fits, Grows, Shape

\* A step of thread t to the local state l.
LEMMA StepShape ==
    ASSUME Shape, Types', Grows, NEW t \in Threads, NEW l \in Locals,
           th' = [th EXCEPT ![t] = l], Placed(t, l)', ArraysFit', NamesHeld'
    PROVE  Shape'
<1>1. th \in [Threads -> Locals]
    BY DEF Shape, Types
<1>2. ASSUME NEW u \in Threads
      PROVE  Placed(u, th[u])'
  <2>1. CASE u = t
      BY <1>1, <2>1
  <2>2. CASE u # t
    <3>1. PICK k \in Locals : k = th[u] /\ k = th'[u]
        BY <1>1, <2>2
    <3>2. Placed(u, k)
        BY <3>1 DEF Shape
    <3>3. Placed(u, k)'
        BY <3>2, PlacedStays DEF Shape
    <3>4. QED BY <3>1, <3>3
  <2>3. QED BY <2>1, <2>2
<1>3. QED BY <1>2 DEF Shape

LEMMA NamesStay ==
    ASSUME Shape, UNCHANGED <<index, table>>
    PROVE  NamesHeld'
    BY DEF Shape, NamesHeld, Offsets, Vertex

LEMMA IdleIsLocal == Idle \in Locals /\ Idle.pc = "idle" /\ Idle.v = NoVertex
<1>1. <<>> \in Seq(Entries)
    OBVIOUS
<1>2. QED BY <1>1 DEF Idle, Locals, Pcs, NoVertex, Forever

LEMMA IdlePlaced ==
    ASSUME NEW t
    PROVE  Placed(t, Idle) /\ Placed(t, Idle)'
    BY IdleIsLocal DEF Placed, Idle

\* A step that changes nothing but the local state and the bitmaps.
LEMMA LocalStep ==
    ASSUME Shape, NEW t \in Threads, NEW l \in Locals, th' = [th EXCEPT ![t] = l], Placed(t, l),
           UNCHANGED <<clock, mixed, isSorted, numThreads, dirty, index, table, hist>>,
           bitmap' \in [0 .. (numThreads - 1) -> Bitmaps]
    PROVE  Shape'
<1>1. Types /\ Types'
    BY DEF Shape, Types
<1>2. Grows
    BY <1>1 DEF Grows, Types
<1>3. ArraysFit' /\ NamesHeld'
    BY <1>1, <1>2, ArraysStay, NamesStay
<1>4. Placed(t, l)'
    BY <1>1, <1>2, PlacedStays
<1>5. QED BY <1>1, <1>2, <1>3, <1>4, StepShape

LEMMA ThreadFacts ==
    ASSUME Shape, NEW t \in Threads
    PROVE  /\ th[t] \in Locals /\ Placed(t, th[t]) /\ Types
           /\ clock \in Nat /\ table \in Seq(Vertices) /\ Len(table) \in Nat
           /\ bitmap \in [0 .. (numThreads - 1) -> Bitmaps]
           /\ index \in [Ids -> Nat \cup {NoVertex}]
    BY DEF Shape, Types

LEMMA VertexFacts ==
    ASSUME Shape, NEW v \in Offsets
    PROVE  /\ v \in Nat /\ v + 1 \in 1 .. Len(table) /\ v # NoVertex
           /\ Vertex(v) \in Vertices /\ Vertex(v) = table[v + 1]
           /\ Vertex(v).arr \in EdgeArrays /\ Vertex(v).arr.log \in Seq(Entries)
           /\ Vertex(v).node \in Ids /\ Vertex(v).del \in Nat \cup {NoTime}
           /\ Fits(Vertex(v).arr)
           /\ hist[v + 1] \in Seq(Appends)
<1>1. table \in Seq(Vertices) /\ hist \in Seq(Seq(Appends)) /\ Len(hist) = Len(table)
    BY DEF Shape, Types
<1>2. v \in Nat /\ v + 1 \in 1 .. Len(table)
    BY <1>1 DEF Offsets
<1>3. table[v + 1] \in Vertices /\ hist[v + 1] \in Seq(Appends)
    BY <1>1, <1>2, ElementOfSeq
<1>4. Fits(Vertex(v).arr)
    BY DEF Shape, ArraysFit
<1>5. QED BY <1>2, <1>3, <1>4 DEF Vertex, Vertices, EdgeArrays, NoVertex

LEMMA BeginWriteShape ==
    ASSUME Shape, NEW t \in Threads, BeginWrite(t)
    PROVE  Shape'
<1>1. PICK op \in {"insert", "update", "delete"}, s \in Sources, d \in Targets :
          th' = [th EXCEPT ![t] = [Idle EXCEPT !.pc = "src", !.op = op, !.src = s, !.des = d,
                    !.late = \E id \in {s, d} : index[id] # NoVertex /\ ~Live(index[id])]]
    BY DEF BeginWrite
<1>2. PICK late \in BOOLEAN : late = \E id \in {s, d} : index[id] # NoVertex /\ ~Live(index[id])
    OBVIOUS
<1> DEFINE l == [Idle EXCEPT !.pc = "src", !.op = op, !.src = s, !.des = d, !.late = late]
<1>3. s \in Ids /\ d \in Ids /\ s \in Nat /\ d \in Nat
    BY RadixGraphAssumption DEF Ids
<1>4. l \in Locals /\ l.pc = "src" /\ l.op = op /\ l.src = s /\ l.des = d /\ l.v = NoVertex
    BY <1>3, IdleIsLocal DEF Locals, Pcs
<1>5. th' = [th EXCEPT ![t] = l]
    BY <1>1, <1>2
<1> HIDE DEF l
<1>6. t \in 0 .. (numThreads - 1)
    BY RadixGraphAssumption DEF BeginWrite, MayStart, BitmapOf, Shape, Types
<1>7. Placed(t, l)
    BY <1>3, <1>4, <1>6 DEF Placed
<1>8. QED BY <1>4, <1>5, <1>7, LocalStep, ThreadFacts DEF BeginWrite, settings, ghosts

LEMMA BeginDeleteShape ==
    ASSUME Shape, NEW t \in Threads, BeginDelete(t)
    PROVE  Shape'
<1>1. PICK id \in Ids :
          th' = [th EXCEPT ![t] = IF index[id] = NoVertex THEN Idle
                                  ELSE [Idle EXCEPT !.pc = "mark", !.op = "delvertex",
                                                    !.v = index[id], !.ts = clock]]
    BY DEF BeginDelete
<1>2. PICK v \in Nat \cup {NoVertex} : v = index[id]
    BY ThreadFacts
<1>3. v = NoVertex \/ v \in Offsets
    BY <1>2 DEF Shape, NamesHeld
<1>4. PICK now \in Nat : now = clock
    BY ThreadFacts
<1>5. t \in 0 .. (numThreads - 1)
    BY RadixGraphAssumption DEF BeginDelete, MayStart, BitmapOf, Shape, Types
<1>6. UNCHANGED <<clock, mixed, isSorted, numThreads, dirty, index, table, hist, bitmap>>
    BY DEF BeginDelete, settings, ghosts
<1>7. CASE v = NoVertex
  <2>1. th' = [th EXCEPT ![t] = Idle]
      BY <1>1, <1>2, <1>7
  <2>2. QED BY <1>6, <2>1, IdleIsLocal, IdlePlaced, LocalStep, ThreadFacts
<1>8. CASE v # NoVertex
  <2> DEFINE l == [Idle EXCEPT !.pc = "mark", !.op = "delvertex", !.v = v, !.ts = now]
  <2>1. l \in Locals /\ l.pc = "mark" /\ l.v = v /\ l.ts = now
      BY IdleIsLocal DEF Locals, Pcs
  <2>2. th' = [th EXCEPT ![t] = l]
      BY <1>1, <1>2, <1>4, <1>8
  <2> HIDE DEF l
  <2>3. Placed(t, l)
      BY <1>3, <1>4, <1>5, <1>8, <2>1 DEF Placed
  <2>4. QED BY <1>6, <2>1, <2>2, <2>3, LocalStep, ThreadFacts
<1>9. QED BY <1>7, <1>8

LEMMA BeginReadShape ==
    ASSUME Shape, NEW t \in Threads, BeginRead(t)
    PROVE  Shape'
<1>1. PICK s \in Sources, i \in 0 .. GetNumVertices, byOffset \in BOOLEAN,
           ts \in {u \in Times : u < clock} \cup {Forever} :
          th' = [th EXCEPT ![t] = [Idle EXCEPT !.pc = "find", !.op = "read", !.ts = ts,
                       !.v = IF byOffset THEN (IF i < GetNumVertices THEN i ELSE NoVertex)
                             ELSE index[s]]]
    BY DEF BeginRead
<1>2. s \in Ids
    BY DEF Ids
<1>3. PICK v \in Nat \cup {NoVertex} :
          v = IF byOffset THEN (IF i < GetNumVertices THEN i ELSE NoVertex) ELSE index[s]
  <2>1. i \in Nat
      BY ThreadFacts DEF GetNumVertices
  <2>2. index[s] \in Nat \cup {NoVertex}
      BY <1>2, ThreadFacts
  <2>3. QED BY <2>1, <2>2
<1>4. v \in Offsets \cup {NoVertex}
  <2>1. CASE byOffset
      BY <1>3, <2>1, ThreadFacts DEF GetNumVertices, Offsets
  <2>2. CASE ~byOffset
      BY <1>2, <1>3, <2>2 DEF Shape, NamesHeld
  <2>3. QED BY <2>1, <2>2
<1>5. ts \in Nat
    BY RadixGraphAssumption DEF Forever
<1> DEFINE l == [Idle EXCEPT !.pc = "find", !.op = "read", !.ts = ts, !.v = v]
<1>6. l \in Locals /\ l.pc = "find" /\ l.v = v
    BY <1>5, IdleIsLocal DEF Locals, Pcs
<1>7. th' = [th EXCEPT ![t] = l]
    BY <1>1, <1>3
<1> HIDE DEF l
<1>8. t \in 0 .. (numThreads - 1)
    BY RadixGraphAssumption DEF BeginRead, MayStart, BitmapOf, Shape, Types
<1>9. Placed(t, l)
    BY <1>4, <1>6, <1>8 DEF Placed
<1>10. QED BY <1>6, <1>7, <1>9, LocalStep, ThreadFacts DEF BeginRead, settings, ghosts

\* The entries of an array that a read may see: all up to the last one that is old enough.
LEMMA LastVisibleSound ==
    ASSUME NEW a \in EdgeArrays, a.snapDeg <= Len(a.log), NEW ts \in Nat,
           NEW n, n = LastVisible(a, ts)
    PROVE  /\ n \in Nat /\ a.snapDeg <= n /\ n <= Len(a.log)
           /\ ~a.stamped => n = Len(a.log)
           /\ a.stamped => /\ n > a.snapDeg => a.log[n].stamp <= ts
                           /\ \A i \in (a.snapDeg + 1) .. Len(a.log) : i > n => ~(a.log[i].stamp <= ts)
<1>1. a.log \in Seq(Entries) /\ Len(a.log) \in Nat /\ a.snapDeg \in Nat
    BY DEF EdgeArrays
<1>2. CASE ~a.stamped
    BY <1>1, <1>2 DEF LastVisible
<1>3. CASE a.stamped
  <2> DEFINE Old == {i \in (a.snapDeg + 1) .. Len(a.log) : a.log[i].stamp <= ts}
             S == {a.snapDeg} \cup Old
  <2>1. S \in SUBSET Int /\ S # {} /\ Len(a.log) \in Int /\ \A x \in S : x <= Len(a.log)
      BY <1>1
  <2>2. Max(S) \in S /\ \A x \in S : x <= Max(S)
      BY ONLY <2>1, MaxOfBounded
  <2>3. n = Max(S)
      BY <1>3 DEF LastVisible
  <2>4. n \in S /\ \A x \in S : x <= n
      BY <2>2, <2>3
  <2>5. n \in Nat /\ a.snapDeg <= n /\ n <= Len(a.log)
      BY <1>1, <2>4
  <2>6. n > a.snapDeg => a.log[n].stamp <= ts
      BY <1>1, <2>4
  <2>7. \A i \in (a.snapDeg + 1) .. Len(a.log) : i > n => ~(a.log[i].stamp <= ts)
    <3>1. TAKE i \in (a.snapDeg + 1) .. Len(a.log)
    <3>2. HAVE i > n
    <3>3. i \notin S
        BY <1>1, <2>4, <2>5, <3>2
    <3>4. QED BY <3>3
  <2>8. QED BY <1>3, <2>5, <2>6, <2>7
<1>4. QED BY <1>2, <1>3 DEF EdgeArrays

\* Refusing a read.
LEMMA RefuseShape ==
    ASSUME Shape, NEW t \in Threads, th' = [th EXCEPT ![t] = Idle],
           UNCHANGED <<clock, settings, bitmap, index, table, hist, dirty>>
    PROVE  Shape'
    BY IdleIsLocal, IdlePlaced, LocalStep, ThreadFacts DEF settings

LEMMA FindVertexShape ==
    ASSUME Shape, NEW t \in Threads, FindVertex(t)
    PROVE  Shape'
<1>1. CASE th' = [th EXCEPT ![t] = Idle]
    BY <1>1, RefuseShape DEF FindVertex
<1>2. CASE /\ th[t].v # NoVertex
           /\ th' = [th EXCEPT ![t].pc = "pin", ![t].late = <<th[t].v, th[t].ts>> \in refused]
  <2>1. PICK late : late = (<<th[t].v, th[t].ts>> \in refused)
      OBVIOUS
  <2>b. late \in BOOLEAN
      BY <2>1
  <2>2. PICK k \in Locals : k = th[t] /\ Placed(t, k)
      BY ThreadFacts
  <2> DEFINE l == [k EXCEPT !.pc = "pin", !.late = late]
  <2>3. l \in Locals /\ l.pc = "pin" /\ l.v = k.v
      BY <2>b, <2>2 DEF Locals, Pcs
  <2>4. th' = [th EXCEPT ![t] = l]
      BY <1>2, <2>1, <2>2
  <2> HIDE DEF l
  <2>5. Placed(t, l)
      BY <1>2, <2>2, <2>3 DEF Placed, FindVertex
  <2>6. QED BY <2>3, <2>4, <2>5, LocalStep, ThreadFacts DEF FindVertex, settings
<1>3. QED BY <1>1, <1>2 DEF FindVertex, Refuse

LEMMA PinShape ==
    ASSUME Shape, NEW t \in Threads, Pin(t)
    PROVE  Shape'
<1>1. th[t].pc = "pin" /\ UNCHANGED <<clock, settings, bitmap, index, table, hist, dirty>>
    BY DEF Pin
<1>2. PICK k \in Locals : k = th[t] /\ Placed(t, k)
    BY ThreadFacts
<1>3. PICK v \in Offsets : v = k.v
    BY <1>1, <1>2 DEF Placed
<1>4. PICK a \in EdgeArrays : a = Vertex(v).arr /\ Fits(a)
    BY VertexFacts
<1>5. PICK ts \in Nat : ts = k.ts
    BY <1>2 DEF Locals
<1>6. PICK n \in Nat : n = LastVisible(a, ts) /\ a.snapDeg <= n /\ n <= Len(a.log)
  <2>1. a.snapDeg <= Len(a.log)
      BY <1>4 DEF Fits
  <2>2. QED BY <2>1, LastVisibleSound
<1>7. PICK m \in Nat : m = Len(hist[v + 1])
  <2>1. hist[v + 1] \in Seq(Appends)
      BY VertexFacts
  <2>2. QED BY <2>1
<1>8. PICK got \in Seq(Entries) : got = IF n = a.snapDeg THEN SubSeq(a.log, 1, n) ELSE <<>>
  <2>1. a.log \in Seq(Entries)
      BY DEF EdgeArrays
  <2>2. \A i \in 1 .. n : a.log[i] \in Entries
      BY <1>6, <2>1, ElementOfSeq
  <2>3. SubSeq(a.log, 1, n) \in Seq(Entries)
      BY <2>2, SubSeqProperties
  <2>4. <<>> \in Seq(Entries)
      OBVIOUS
  <2>5. QED BY <2>3, <2>4
<1>9. PICK pc \in {"done", "scan"} : pc = IF n = a.snapDeg THEN "done" ELSE "scan"
    OBVIOUS
<1>10. CASE th' = [th EXCEPT ![t] = Idle]
    BY <1>1, <1>10, RefuseShape
<1>11. CASE th' = [th EXCEPT ![t].arr = a, ![t].cnt = n, ![t].seen = m, ![t].pc = pc, ![t].pos = n,
                             ![t].got = got]
  <2> DEFINE l == [k EXCEPT !.arr = a, !.cnt = n, !.seen = m, !.pc = pc, !.pos = n, !.got = got]
  <2>1. l \in Locals /\ l.pc = pc /\ l.v = k.v /\ l.arr = a /\ l.cnt = n /\ l.pos = n
      BY <1>2 DEF Locals, Pcs
  <2>2. th' = [th EXCEPT ![t] = l]
      BY <1>2, <1>11
  <2> HIDE DEF l
  <2>3. t \in 0 .. (numThreads - 1) /\ k.v # NoVertex
      BY <1>1, <1>2 DEF Placed
  <2>4. pc = "scan" => n \in 1 .. n
      BY <1>6, <1>9 DEF EdgeArrays
  <2>5. Placed(t, l)
      BY <1>2, <1>3, <1>4, <1>6, <2>1, <2>3, <2>4 DEF Placed
  <2>6. QED BY <1>1, <2>1, <2>2, <2>5, LocalStep, ThreadFacts DEF settings
<1>12. QED
  <2>1. Vertex(th[t].v).arr = a /\ LastVisible(a, th[t].ts) = n /\ Len(hist[th[t].v + 1]) = m
      BY <1>2, <1>3, <1>4, <1>5, <1>6, <1>7
  <2>2. QED BY <1>8, <1>9, <1>10, <1>11, <2>1 DEF Pin, Refuse

LEMMA ReturnEdgesShape ==
    ASSUME Shape, NEW t \in Threads, ReturnEdges(t)
    PROVE  Shape'
    BY RefuseShape DEF ReturnEdges, ghosts

LEMMA ScanShape ==
    ASSUME Shape, NEW t \in Threads, Scan(t)
    PROVE  Shape'
<1>1. PICK k \in Locals : k = th[t] /\ Placed(t, k)
    BY ThreadFacts
<1>2. k.pc = "scan" /\ t \in 0 .. (numThreads - 1) /\ k.arr \in EdgeArrays /\ Fits(k.arr)
      /\ k.cnt \in Nat /\ k.pos \in 1 .. k.cnt /\ k.cnt <= Len(k.arr.log) /\ k.arr.log \in Seq(Entries)
    BY <1>1 DEF Scan, Placed, Locals, EdgeArrays
<1>3. PICK i \in 1 .. Len(k.arr.log) : i = k.pos
    BY <1>2
<1>4. PICK e \in Entries : e = k.arr.log[i]
    BY <1>2, ElementOfSeq
<1>5. PICK new \in BOOLEAN : new = ~GetBit(bitmap[t], e.idx, L)
    OBVIOUS
<1>6. PICK got \in Seq(Entries) : got = IF new /\ e.weight # 0 THEN Append(k.got, e) ELSE k.got
  <2>1. k.got \in Seq(Entries)
      BY DEF Locals
  <2>2. Append(k.got, e) \in Seq(Entries)
      BY <2>1
  <2>3. QED BY <2>1, <2>2
<1>7. PICK pc \in {"clear", "scan"} : pc = IF i = 1 THEN "clear" ELSE "scan"
    OBVIOUS
<1> DEFINE l == [k EXCEPT !.got = got, !.pos = i - 1, !.pc = pc]
<1>8. l \in Locals /\ l.pc = pc /\ l.v = k.v /\ l.arr = k.arr /\ l.cnt = k.cnt /\ l.pos = i - 1
  <2>1. i - 1 \in Nat
      BY <1>2, <1>3
  <2>2. QED BY <2>1 DEF Locals, Pcs
<1>9. th' = [th EXCEPT ![t] = l]
  <2>1. th' = [th EXCEPT ![t].got = got, ![t].pos = i - 1, ![t].pc = pc]
      BY <1>1, <1>3, <1>4, <1>5, <1>6, <1>7 DEF Scan, BitmapOf
  <2>2. QED BY <1>1, <2>1
<1> HIDE DEF l
<1>10. bitmap' \in [0 .. (numThreads - 1) -> Bitmaps]
  <2>1. bitmap[t] \in Bitmaps
      BY <1>2, ThreadFacts
  <2>2. SetBit(bitmap[t], e.idx, L) \in Bitmaps
    <3>1. e.idx \in Nat /\ L \in Nat /\ L > 0
        BY RadixGraphAssumption DEF Entries
    <3>2. (e.idx + L) \div L \in Nat
        BY <3>1
    <3>3. QED BY <2>1, <3>1, <3>2 DEF SetBit, Bitmaps
  <2>3. bitmap' = IF new /\ i > k.arr.snapDeg
                  THEN [bitmap EXCEPT ![t] = SetBit(bitmap[t], e.idx, L)] ELSE bitmap
      BY <1>1, <1>3, <1>4, <1>5 DEF Scan, BitmapOf
  <2>4. QED BY <2>2, <2>3, ThreadFacts
<1>11. Placed(t, l)
    BY <1>1, <1>2, <1>3, <1>7, <1>8 DEF Placed
<1>12. UNCHANGED <<clock, settings, index, table, hist, dirty>>
    BY DEF Scan, ghosts
<1>13. QED BY <1>8, <1>9, <1>10, <1>11, <1>12, LocalStep DEF settings

LEMMA ClearShape ==
    ASSUME Shape, NEW t \in Threads, Clear(t)
    PROVE  Shape'
<1>1. PICK k \in Locals : k = th[t] /\ Placed(t, k)
    BY ThreadFacts
<1>2. k.pc = "clear" /\ t \in 0 .. (numThreads - 1)
    BY <1>1 DEF Clear, Placed
<1> DEFINE l == [k EXCEPT !.pc = "done"]
<1>3. l \in Locals /\ l.pc = "done" /\ l.v = k.v /\ l.arr = k.arr /\ l.cnt = k.cnt
    BY DEF Locals, Pcs
<1>4. th' = [th EXCEPT ![t] = l]
    BY <1>1 DEF Clear, Goto
<1> HIDE DEF l
<1>5. bitmap' \in [0 .. (numThreads - 1) -> Bitmaps]
  <2>1. bitmap[t] \in Bitmaps
      BY <1>2, ThreadFacts
  <2>2. \A P : ClearBits(bitmap[t], P, L) \in Bitmaps
      BY <2>1 DEF ClearBits, Bitmaps
  <2>3. bitmap' = [bitmap EXCEPT ![t] = ClearBits(bitmap[t], Logged(th[t].arr, th[t].cnt), L)]
      BY DEF Clear, BitmapOf, Unmarked
  <2>4. QED BY <2>2, <2>3, ThreadFacts
<1>6. Placed(t, l)
    BY <1>1, <1>2, <1>3 DEF Placed
<1>7. UNCHANGED <<clock, settings, index, table, hist, dirty>>
    BY DEF Clear, ghosts
<1>8. QED BY <1>3, <1>4, <1>5, <1>6, <1>7, LocalStep DEF settings

\* One vertex is replaced.
LEMMA TableStore ==
    ASSUME Shape, NEW v \in Offsets, NEW x \in Vertices, table' = [table EXCEPT ![v + 1] = x]
    PROVE  /\ table' \in Seq(Vertices) /\ Len(table') = Len(table) /\ Offsets' = Offsets
           /\ Vertex(v)' = x
           /\ \A u \in Offsets : u # v => Vertex(u)' = Vertex(u)
<1>1. table \in Seq(Vertices) /\ v + 1 \in 1 .. Len(table)
    BY VertexFacts DEF Shape, Types
<1>2. /\ table' \in Seq(Vertices) /\ Len(table') = Len(table)
      /\ \A j \in 1 .. Len(table) : table'[j] = IF j = v + 1 THEN x ELSE table[j]
    BY <1>1, ExceptSeq
<1>3. \A u \in Offsets : u + 1 \in 1 .. Len(table) /\ (u # v => u + 1 # v + 1)
    BY <1>1 DEF Offsets
<1>4. QED BY <1>2, <1>3 DEF Vertex, Offsets

\* One vertex is replaced by one of the same name.
LEMMA StoreKeeps ==
    ASSUME Shape, Types', Grows, NEW v \in Offsets, NEW x \in Vertices,
           table' = [table EXCEPT ![v + 1] = x], x.node = Vertex(v).node, index' = index,
           Fits(x.arr)', x.del <= clock'
    PROVE  ArraysFit' /\ NamesHeld'
<1>1. Offsets' = Offsets /\ Vertex(v)' = x /\ \A u \in Offsets : u # v => Vertex(u)' = Vertex(u)
    BY TableStore
<1>2. clock \in Nat
    BY DEF Shape, Types
<1>3. \A a \in EdgeArrays : Fits(a) => Fits(a)'
    BY <1>1, <1>2 DEF Fits, Grows, EdgeArrays
<1>4. \A u \in Offsets : Vertex(u).arr \in EdgeArrays /\ Fits(Vertex(u).arr)
                         /\ Vertex(u).del \in Int /\ Vertex(u).del <= clock
    BY VertexFacts DEF Shape, ArraysFit, NoTime
<1>5. ArraysFit'
  <2>1. ASSUME NEW u \in Offsets
        PROVE  Fits(Vertex(u).arr)' /\ Vertex(u)'.del <= clock'
    <3>1. CASE u = v
        BY <1>1, <3>1
    <3>2. CASE u # v
      <4>1. PICK a \in EdgeArrays : a = Vertex(u).arr /\ a = Vertex(u)'.arr
          BY <1>1, <1>4, <3>2
      <4>2. Fits(a)'
          BY <1>3, <1>4, <4>1
      <4>3. Vertex(u)'.del <= clock'
          BY <1>1, <1>2, <1>4, <3>2 DEF Grows
      <4>4. QED BY <4>1, <4>2, <4>3
    <3>3. QED BY <3>1, <3>2
  <2>2. QED BY <1>1, <2>1 DEF ArraysFit
<1>6. NamesHeld'
  <2>1. \A u \in Offsets : Vertex(u)'.node = Vertex(u).node
      BY <1>1
  <2>2. QED BY <1>1, <2>1 DEF Shape, NamesHeld
<1>7. QED BY <1>5, <1>6

\* The array that a compaction makes keeps within its capacity.
LEMMA CompactedFits ==
    ASSUME Shape, NEW v \in Offsets, NEW b, NEW want \in Nat, NEW sorted \in BOOLEAN,
           NEW now \in Nat, now <= clock', Offsets' = Offsets, clock' \in Nat,
           NEW c, c = Compacted(Vertex(v).arr, b, want, sorted, now)
    PROVE  c \in EdgeArrays /\ Fits(c)'
<1>1. PICK a \in EdgeArrays : a = Vertex(v).arr /\ Fits(a)
    BY VertexFacts
<1>2. PICK s : s = Arranged(Kept(a, b), a, sorted)
    OBVIOUS
<1>3. mixed \in BOOLEAN
    BY DEF Shape, Types
<1>4. /\ c \in EdgeArrays /\ Len(c.log) <= Len(a.log)
      /\ c.snapDeg = Len(c.log) /\ Len(c.log) <= c.cap /\ c.snapTs = now
      /\ \A k \in 1 .. Len(c.log) :
            s[k] \in 1 .. Len(a.log) /\ c.log[k].idx = a.log[s[k]].idx
  <2>1. c = Compacted(a, b, want, sorted, now)
      BY <1>1
  <2>2. QED BY ONLY <1>2, <1>3, <2>1, CompactedSound, a \in EdgeArrays, want \in Nat,
                    sorted \in BOOLEAN, now \in Nat
<1>5. \A k \in 1 .. Len(c.log) : c.log[k].idx \in Offsets
    BY <1>1, <1>4 DEF Fits
<1>6. c.log \in Seq(Entries)
    BY <1>4 DEF EdgeArrays
<1>7. QED BY <1>4, <1>5, <1>6 DEF Fits

\* The capacities that are asked for are naturals.
LEMMA CapacityTypes ==
    ASSUME NEW a \in EdgeArrays
    PROVE  /\ \A dense \in BOOLEAN : Room(a, dense) \in Nat
           /\ a.cap <= Len(a.log) =>
                 AtLeastZero(a.deg) * ExpandRate + (Len(a.log) + 1 - a.cap + 1) + Slack \in Nat
<1>1. a.log \in Seq(Entries) /\ a.deg \in Int /\ a.cap \in Nat
    BY DEF EdgeArrays
<1>2. PICK n \in Nat : n = Len(a.log)
    BY <1>1
<1>3. PICK d \in Nat : d = AtLeastZero(a.deg)
    BY <1>1 DEF AtLeastZero
<1>4. ExpandRate \in Nat /\ Slack \in Nat
    BY RadixGraphAssumption
<1>5. PICK m \in Nat : m = d * ExpandRate
    BY <1>3, <1>4
<1>6. \A dense \in BOOLEAN : Room(a, dense) \in Nat
    BY <1>3, <1>4, <1>5 DEF Room
<1>7. a.cap <= n => m + (n + 1 - a.cap + 1) + Slack \in Nat
    BY <1>1, <1>4
<1>8. QED BY <1>2, <1>3, <1>5, <1>6, <1>7

\* What Compact does: the array a of vertex v is replaced by c.
CompactStep(t, v, w, a, b, want, c) ==
    /\ v = th[t].v /\ w = Vertex(v) /\ a = w.arr /\ Fits(a) /\ a.cap <= Len(a.log)
    /\ t \in 0 .. (numThreads - 1) /\ b = bitmap[t]
    /\ c = Compacted(a, b, want, FALSE, clock)
    /\ table' = [table EXCEPT ![v + 1] = [w EXCEPT !.arr = c]]
    /\ bitmap' = [bitmap EXCEPT ![t] = Swept(b, a)]
    /\ clock' = clock + 1 /\ UNCHANGED <<settings, index, th, ghosts>>

LEMMA CompactStores ==
    ASSUME Shape, NEW t \in Threads, Compact(t)
    PROVE  \E v \in Offsets, w \in Vertices, a \in EdgeArrays, b \in Bitmaps, want \in Nat,
              c \in EdgeArrays :
              CompactStep(t, v, w, a, b, want, c) /\ Fits(c)' /\ c.snapTs = clock
<1>1. PICK k \in Locals : k = th[t] /\ Placed(t, k)
    BY ThreadFacts
<1>2. PICK v \in Offsets : v = k.v
    BY <1>1 DEF Compact, Placed
<1>3. PICK a \in EdgeArrays : a = Vertex(v).arr /\ Fits(a)
    BY VertexFacts
<1>4. PICK now \in Nat : now = clock
    BY ThreadFacts
<1>5. t \in 0 .. (numThreads - 1)
    BY <1>1 DEF Compact, Placed
<1>6. PICK b \in Bitmaps : b = bitmap[t]
    BY <1>5, ThreadFacts
<1>7. a.cap <= Len(a.log)
  <2>1. Len(a.log) >= a.cap
      BY <1>1, <1>2, <1>3 DEF Compact
  <2>2. Len(a.log) \in Nat /\ a.cap \in Nat
      BY DEF EdgeArrays
  <2>3. QED BY <2>1, <2>2
<1>8. PICK want \in Nat : want = AtLeastZero(a.deg) * ExpandRate + (Len(a.log) + 1 - a.cap + 1) + Slack
    BY <1>7, CapacityTypes
<1>9. PICK c : c = Compacted(a, b, want, FALSE, now)
    OBVIOUS
<1>10. PICK w \in Vertices : w = Vertex(v) /\ w.arr = a
    BY <1>3, VertexFacts
<1>11. /\ table' = [table EXCEPT ![v + 1].arr = c]
       /\ bitmap' = [bitmap EXCEPT ![t] = Swept(b, a)]
       /\ clock' = clock + 1 /\ UNCHANGED <<settings, index, th, ghosts>>
    BY <1>1, <1>2, <1>3, <1>4, <1>6, <1>8, <1>9 DEF Compact, BitmapOf
<1>12. table' = [table EXCEPT ![v + 1] = [w EXCEPT !.arr = c]]
    BY <1>10, <1>11 DEF Vertex
<1>13. c \in EdgeArrays /\ Fits(c)'
  <2>1. clock' \in Nat /\ now <= clock'
      BY <1>4, <1>11
  <2>2. Offsets' = Offsets
    <3>1. table \in Seq(Vertices)
        BY ThreadFacts
    <3>2. Len(table') = Len(table)
        BY <1>11, <3>1
    <3>3. QED BY <3>2 DEF Offsets
  <2>3. QED BY <1>3, <1>9, <2>1, <2>2, CompactedFits
<1>14. c.snapTs = clock
    BY <1>4, <1>9 DEF Compacted
<1>15. CompactStep(t, v, w, a, b, want, c)
    BY <1>1, <1>2, <1>3, <1>4, <1>5, <1>6, <1>7, <1>9, <1>10, <1>11, <1>12 DEF CompactStep
<1>16. QED BY <1>13, <1>14, <1>15

LEMMA CompactShape ==
    ASSUME Shape, NEW t \in Threads, Compact(t)
    PROVE  Shape'
<1>1. PICK v \in Offsets, w \in Vertices, a \in EdgeArrays, b \in Bitmaps, want \in Nat,
           c \in EdgeArrays : CompactStep(t, v, w, a, b, want, c) /\ Fits(c)'
    BY CompactStores
<1>2. PICK k \in Locals : k = th[t] /\ Placed(t, k)
    BY ThreadFacts
<1>3. PICK now \in Nat : now = clock
    BY ThreadFacts
<1> DEFINE x == [w EXCEPT !.arr = c]
<1>4. x \in Vertices /\ x.arr = c /\ x.node = w.node /\ x.del = w.del
    BY DEF Vertices
<1>5. /\ table' = [table EXCEPT ![v + 1] = x] /\ bitmap' = [bitmap EXCEPT ![t] = Swept(b, a)]
      /\ clock' = now + 1 /\ UNCHANGED <<settings, index, th, ghosts>>
      /\ w = Vertex(v) /\ Fits(a) /\ t \in 0 .. (numThreads - 1)
    BY <1>1, <1>3 DEF CompactStep
<1> HIDE DEF x
<1>6. Types'
  <2>1. table' \in Seq(Vertices) /\ Len(table') = Len(table)
      BY <1>4, <1>5, TableStore
  <2>2. Swept(b, a) \in Bitmaps
      BY <1>5, SweptSound DEF Shape
  <2>3. bitmap' \in [0 .. (numThreads' - 1) -> Bitmaps]
      BY <1>5, <2>2, ThreadFacts DEF settings
  <2>4. clock' \in Nat
      BY <1>5
  <2>5. QED BY <1>5, <2>1, <2>3, <2>4 DEF Shape, Types, settings, ghosts
<1>7. Grows
    BY <1>3, <1>5, <1>6 DEF Grows, settings, Types, Shape
<1>8. ArraysFit' /\ NamesHeld'
  <2>1. x.del <= clock'
    <3>1. w.del \in Int /\ w.del <= clock
        BY <1>5 DEF Shape, ArraysFit, Vertices, NoTime
    <3>2. QED BY <1>3, <1>4, <1>5, <3>1
  <2>2. QED BY <1>1, <1>4, <1>5, <1>6, <1>7, <2>1, StoreKeeps
<1>9. th' = [th EXCEPT ![t] = k]
    BY <1>2, <1>5 DEF Shape, Types
<1>10. Placed(t, k)'
    BY <1>2, <1>6, <1>7, PlacedStays DEF Shape
<1>11. QED BY <1>6, <1>7, <1>8, <1>9, <1>10, StepShape

\* What Insert does: the entry e is appended to the array a of vertex v, which becomes c,
\* and the append is remembered as m.
InsertStep(t, v, w, a, e, c, m) ==
    /\ v = th[t].v /\ w = Vertex(v) /\ a = w.arr /\ Fits(a) /\ Len(a.log) < a.cap
    /\ e.idx = th[t].d /\ e.idx \in Offsets /\ e.weight = Weight(t)
    /\ e.stamp = (IF a.stamped THEN clock ELSE NoStamp)
    /\ m.idx = e.idx /\ m.id = th[t].des /\ m.weight = e.weight /\ m.at = clock
    /\ c.log = Append(a.log, e) /\ c.deg = a.deg + Delta(t)
    /\ c.snapDeg = a.snapDeg /\ c.cap = a.cap /\ c.snapTs = a.snapTs /\ c.stamped = a.stamped
    /\ table' = [table EXCEPT ![v + 1] = [w EXCEPT !.arr = c]]
    /\ clock' = (IF a.stamped THEN clock + 1 ELSE clock)
    /\ hist' = [hist EXCEPT ![v + 1] = Append(hist[v + 1], m)]
    /\ sloppy' = (IF InContract(t) THEN sloppy ELSE sloppy \cup {v})
    /\ th' = [th EXCEPT ![t] = Idle] /\ dirty' = TRUE
    /\ UNCHANGED <<settings, bitmap, index, twice, refused>>

LEMMA InsertStores ==
    ASSUME Shape, NEW t \in Threads, Insert(t)
    PROVE  \E v \in Offsets, w \in Vertices, a \in EdgeArrays, e \in Entries, c \in EdgeArrays,
              m \in Appends : InsertStep(t, v, w, a, e, c, m)
<1>1. PICK k \in Locals : k = th[t] /\ Placed(t, k)
    BY ThreadFacts
<1>2. PICK v \in Offsets, d \in Offsets : v = k.v /\ d = k.d
    BY <1>1 DEF Insert, Placed
<1>3. PICK a \in EdgeArrays : a = Vertex(v).arr /\ Fits(a)
    BY VertexFacts
<1>4. PICK now \in Nat : now = clock
    BY ThreadFacts
<1>5. PICK weight \in 0 .. 2, delta \in Int : weight = Weight(t) /\ delta = Delta(t)
    BY DEF Weight, Delta
<1>6. PICK stamp \in Nat \cup {NoStamp} : stamp = IF a.stamped THEN now ELSE NoStamp
    OBVIOUS
<1>7. PICK id \in Ids : id = k.des
    BY <1>1 DEF Insert, Placed
<1>8. PICK w \in Vertices : w = Vertex(v) /\ w.arr = a
    BY <1>3, VertexFacts
<1>9. a.log \in Seq(Entries) /\ a.deg \in Int /\ d \in Nat
    BY ThreadFacts DEF EdgeArrays, Offsets
<1> DEFINE e == [idx |-> d, weight |-> weight, stamp |-> stamp]
           m == [idx |-> d, id |-> id, weight |-> weight, at |-> now]
<1>10. e \in Entries /\ m \in Appends
    BY <1>9 DEF Entries, Appends
<1>11. /\ e.idx = d /\ e.weight = weight /\ e.stamp = stamp
       /\ m.idx = d /\ m.id = id /\ m.weight = weight /\ m.at = now
    OBVIOUS
<1>12. /\ Len(a.log) < a.cap
       /\ table' = [table EXCEPT ![v + 1].arr.log = Append(@, e), ![v + 1].arr.deg = @ + delta]
       /\ clock' = (IF a.stamped THEN now + 1 ELSE now)
       /\ hist' = [hist EXCEPT ![v + 1] = Append(hist[v + 1], m)]
       /\ sloppy' = (IF InContract(t) THEN sloppy ELSE sloppy \cup {v})
       /\ th' = [th EXCEPT ![t] = Idle]
       /\ dirty' = TRUE /\ UNCHANGED <<settings, bitmap, index, twice, refused>>
    BY <1>1, <1>2, <1>3, <1>4, <1>5, <1>6, <1>7 DEF Insert
<1> HIDE DEF e, m
<1>13. PICK log \in Seq(Entries) : log = Append(a.log, e)
  <2>1. Append(a.log, e) \in Seq(Entries)
      BY <1>9, <1>10
  <2>2. QED BY <2>1
<1>14. PICK deg \in Int : deg = a.deg + delta
    BY <1>9
<1> DEFINE c == [a EXCEPT !.log = log, !.deg = deg]
<1>15. table' = [table EXCEPT ![v + 1] = [w EXCEPT !.arr = c]]
    BY <1>3, <1>8, <1>12, <1>13, <1>14 DEF Vertex
<1>16. c \in EdgeArrays /\ c.log = log /\ c.deg = deg /\ c.snapDeg = a.snapDeg
       /\ c.cap = a.cap /\ c.snapTs = a.snapTs /\ c.stamped = a.stamped
    BY DEF EdgeArrays
<1> HIDE DEF c
<1>17. InsertStep(t, v, w, a, e, c, m)
    BY <1>1, <1>2, <1>3, <1>4, <1>5, <1>6, <1>7, <1>8, <1>11, <1>12, <1>13, <1>14, <1>15, <1>16
       DEF InsertStep
<1>18. QED BY <1>10, <1>16, <1>17

LEMMA InsertShape ==
    ASSUME Shape, NEW t \in Threads, Insert(t)
    PROVE  Shape'
<1>1. PICK v \in Offsets, w \in Vertices, a \in EdgeArrays, e \in Entries, c \in EdgeArrays,
           m \in Appends : InsertStep(t, v, w, a, e, c, m)
    BY InsertStores
<1>2. PICK now \in Nat : now = clock
    BY ThreadFacts
<1>3. a.log \in Seq(Entries) /\ a.cap \in Nat /\ a.snapDeg \in Nat /\ Len(a.log) \in Nat
      /\ a.snapTs \in Nat
    BY DEF EdgeArrays
<1> DEFINE x == [w EXCEPT !.arr = c]
<1>4. x \in Vertices /\ x.arr = c /\ x.node = w.node /\ x.del = w.del
    BY DEF Vertices
<1>5. /\ table' = [table EXCEPT ![v + 1] = x] /\ hist' = [hist EXCEPT ![v + 1] = Append(hist[v + 1], m)]
      /\ w = Vertex(v) /\ Fits(a) /\ Len(a.log) < a.cap /\ e.idx \in Offsets
      /\ clock' \in Nat /\ now <= clock'
      /\ th' = [th EXCEPT ![t] = Idle] /\ dirty' = TRUE /\ UNCHANGED <<settings, bitmap, index>>
    BY <1>1, <1>2 DEF InsertStep
<1>6. c.log = Append(a.log, e) /\ c.snapDeg = a.snapDeg /\ c.cap = a.cap /\ c.snapTs = a.snapTs
    BY <1>1 DEF InsertStep
<1> HIDE DEF x
<1>7. table' \in Seq(Vertices) /\ Len(table') = Len(table) /\ Offsets' = Offsets
    BY <1>4, <1>5, TableStore
<1>8. hist' \in Seq(Seq(Appends)) /\ Len(hist') = Len(hist)
  <2>1. hist \in Seq(Seq(Appends)) /\ v + 1 \in 1 .. Len(hist)
      BY VertexFacts DEF Shape, Types
  <2>2. Append(hist[v + 1], m) \in Seq(Appends)
      BY VertexFacts
  <2>3. QED BY <1>5, <2>1, <2>2, ExceptSeq
<1>9. Types'
    BY <1>5, <1>7, <1>8, IdleIsLocal DEF Shape, Types, settings
<1>10. Grows
    BY <1>2, <1>5, <1>7, <1>9 DEF Grows, settings, Types, Shape
<1>11. Fits(c)'
  <2>1. Len(c.log) = Len(a.log) + 1
      BY <1>3, <1>6
  <2>2. a.snapDeg <= Len(c.log) /\ Len(c.log) <= a.cap
      BY <1>3, <1>5, <2>1 DEF Fits
  <2>3. a.snapTs <= clock'
      BY <1>2, <1>3, <1>5 DEF Fits
  <2>4. \A i \in 1 .. Len(c.log) : c.log[i].idx \in Offsets
      BY <1>3, <1>5, <1>6, <2>1 DEF Fits
  <2>5. QED BY <1>6, <1>7, <2>2, <2>3, <2>4 DEF Fits
<1>12. ArraysFit' /\ NamesHeld'
  <2>1. x.del <= clock'
    <3>1. w.del \in Int /\ w.del <= clock
        BY <1>5 DEF Shape, ArraysFit, Vertices, NoTime
    <3>2. QED BY <1>2, <1>4, <1>5, <3>1
  <2>2. QED BY <1>4, <1>5, <1>9, <1>10, <1>11, <2>1, StoreKeeps
<1>13. QED BY <1>5, <1>9, <1>10, <1>12, IdleIsLocal, IdlePlaced, StepShape

\* What Mark does: vertex v gets the timestamp of the call as its del_time.
MarkStep(t, v, w, ts) ==
    /\ v = th[t].v /\ w = Vertex(v) /\ ts = th[t].ts /\ ts <= clock
    /\ table' = [table EXCEPT ![v + 1] = [w EXCEPT !.del = ts]]
    /\ twice' = (IF Live(v) THEN twice ELSE twice \cup {v})
    /\ th' = [th EXCEPT ![t] = Idle]
    /\ UNCHANGED <<clock, settings, bitmap, index, calls, hist, sloppy, refused, dirty>>

LEMMA MarkStores ==
    ASSUME Shape, NEW t \in Threads, Mark(t)
    PROVE  \E v \in Offsets, w \in Vertices, ts \in Nat : MarkStep(t, v, w, ts)
<1>1. PICK k \in Locals : k = th[t] /\ Placed(t, k)
    BY ThreadFacts
<1>2. PICK v \in Offsets : v = k.v
    BY <1>1 DEF Mark, Placed
<1>3. PICK ts \in Nat : ts = k.ts /\ ts <= clock
    BY <1>1 DEF Locals, Mark, Placed
<1>4. PICK w \in Vertices : w = Vertex(v)
    BY VertexFacts
<1>5. table' = [table EXCEPT ![v + 1] = [w EXCEPT !.del = ts]]
  <2>1. table' = [table EXCEPT ![v + 1].del = ts]
      BY <1>1, <1>2, <1>3 DEF Mark
  <2>2. QED BY <1>4, <2>1 DEF Vertex
<1>6. MarkStep(t, v, w, ts)
    BY <1>1, <1>2, <1>3, <1>4, <1>5 DEF MarkStep, Mark
<1>7. QED BY <1>6

LEMMA MarkShape ==
    ASSUME Shape, NEW t \in Threads, Mark(t)
    PROVE  Shape'
<1>1. PICK v \in Offsets, w \in Vertices, ts \in Nat : MarkStep(t, v, w, ts)
    BY MarkStores
<1> DEFINE x == [w EXCEPT !.del = ts]
<1>2. x \in Vertices /\ x.arr = w.arr /\ x.node = w.node /\ x.del = ts
    BY DEF Vertices
<1>3. table' = [table EXCEPT ![v + 1] = x] /\ w = Vertex(v) /\ ts <= clock
      /\ th' = [th EXCEPT ![t] = Idle] /\ UNCHANGED <<clock, settings, bitmap, index, hist, dirty>>
    BY <1>1 DEF MarkStep
<1> HIDE DEF x
<1>4. table' \in Seq(Vertices) /\ Len(table') = Len(table) /\ Offsets' = Offsets
    BY <1>2, <1>3, TableStore
<1>5. Types'
    BY <1>3, <1>4, IdleIsLocal DEF Shape, Types, settings
<1>6. Grows
    BY <1>3, <1>4, <1>5 DEF Grows, settings, Types, Shape
<1>7. Fits(x.arr)'
  <2>1. PICK a \in EdgeArrays : a = Vertex(v).arr /\ Fits(a)
      BY VertexFacts
  <2>2. Fits(a)'
      BY <1>3, <1>4, <2>1 DEF Fits
  <2>3. QED BY <1>2, <1>3, <2>1, <2>2
<1>8. ArraysFit' /\ NamesHeld'
    BY <1>2, <1>3, <1>5, <1>6, <1>7, StoreKeeps
<1>9. QED BY <1>3, <1>5, <1>6, <1>8, IdleIsLocal, IdlePlaced, StepShape

\* What RetrieveVertex does to the table: a new vertex at its end, or nothing.
LEMMA RetrieveSound ==
    ASSUME Shape, NEW t \in Threads, NEW id \in Ids, Retrieve(t, id), mixed' = mixed,
           clock' = clock
    PROVE  /\ table' \in Seq(Vertices) /\ hist' \in Seq(Seq(Appends)) /\ Len(hist') = Len(table')
           /\ index' \in [Ids -> Nat \cup {NoVertex}]
           /\ Len(table) <= Len(table') /\ Len(table') \in Nat
           /\ \A v \in Offsets : v \in Offsets' /\ Vertex(v)' = Vertex(v)
                                 /\ hist'[v + 1] = hist[v + 1]
           /\ \A v \in Offsets' : v \in Offsets \/
                 /\ Vertex(v)' = Made(t, id) /\ Made(t, id) \in Vertices /\ hist'[v + 1] = <<>>
                 /\ v = index'[id]
           /\ \A i \in Ids : index[i] # NoVertex => index'[i] = index[i]
           /\ \A i \in Ids : index'[i] = index[i] \/ i = id
           /\ index'[id] \in Offsets' \cup {NoVertex}
           /\ th[t].op = "insert" => index'[id] # NoVertex
           /\ index'[id] # NoVertex /\ index[id] = NoVertex => Vertex(index[id])' = Made(t, id)
<1>1. /\ table \in Seq(Vertices) /\ hist \in Seq(Seq(Appends)) /\ Len(hist) = Len(table)
      /\ Len(table) \in Nat /\ index \in [Ids -> Nat \cup {NoVertex}] /\ NamesHeld /\ mixed \in BOOLEAN
    BY DEF Shape, Types
<1>2. index[id] # NoVertex => index[id] \in Offsets
    BY <1>1 DEF NamesHeld
<1>3. CASE UNCHANGED <<index, table, hist>> /\ (th[t].op = "insert" => index[id] # NoVertex)
  <2>1. Offsets' = Offsets /\ \A v : Vertex(v)' = Vertex(v)
      BY <1>3 DEF Offsets, Vertex
  <2>2. QED BY <1>1, <1>2, <1>3, <2>1
<1>4. CASE /\ index[id] = NoVertex
           /\ index' = [index EXCEPT ![id] = Len(table)]
           /\ table' = Append(table, Made(t, id)) /\ hist' = Append(hist, <<>>)
  <2>1. PICK x : x = Made(t, id)
      OBVIOUS
  <2>2. x \in Vertices
    <3>1. <<>> \in Seq(Entries)
        OBVIOUS
    <3>2. QED BY <1>1, <2>1, <3>1, RadixGraphAssumption DEF Made, NewArray, Vertices, EdgeArrays
  <2>3. PICK n \in Nat : n = Len(table)
      BY <1>1
  <2>4. /\ table' \in Seq(Vertices) /\ Len(table') = n + 1 /\ table'[n + 1] = x
        /\ \A j \in 1 .. n : table'[j] = table[j]
      BY <1>1, <1>4, <2>1, <2>2, <2>3
  <2>5. /\ hist' \in Seq(Seq(Appends)) /\ Len(hist') = n + 1 /\ hist'[n + 1] = <<>>
        /\ \A j \in 1 .. n : hist'[j] = hist[j]
    <3>1. <<>> \in Seq(Appends)
        OBVIOUS
    <3>2. QED BY <1>1, <1>4, <2>3, <3>1
  <2>6. Offsets = 0 .. (n - 1) /\ Offsets' = 0 .. n /\ n # NoVertex
      BY <2>3, <2>4 DEF Offsets, NoVertex
  <2>7. index' \in [Ids -> Nat \cup {NoVertex}] /\ index'[id] = n
        /\ \A i \in Ids : i # id => index'[i] = index[i]
      BY <1>1, <1>4, <2>3
  <2>8. Vertex(n)' = x /\ \A v \in Offsets : Vertex(v)' = Vertex(v) /\ hist'[v + 1] = hist[v + 1]
      BY <2>4, <2>5, <2>6 DEF Vertex
  <2>9. \A v \in Offsets' : v \in Offsets \/ v = n
      BY <2>6
  <2>10. Vertex(index[id])' = x
      BY <2>4, <2>7 DEF Vertex
  <2>11. \A v \in Offsets : v \in Offsets'
      BY <2>6
  <2>12. Len(table) <= Len(table') /\ Len(table') \in Nat /\ Len(hist') = Len(table')
      BY <2>3, <2>4, <2>5
  <2>13. n \in Offsets'
      BY <2>6
  <2>14. \A v \in Offsets' : v \in Offsets \/
                 /\ Vertex(v)' = Made(t, id) /\ Made(t, id) \in Vertices /\ hist'[v + 1] = <<>>
                 /\ v = index'[id]
      BY <2>1, <2>2, <2>5, <2>7, <2>8, <2>9
  <2>15. \A i \in Ids : index[i] # NoVertex => index'[i] = index[i]
      BY <1>4, <2>7
  <2>16. QED BY <1>4, <2>1, <2>4, <2>5, <2>6, <2>7, <2>8, <2>10, <2>11, <2>12, <2>13, <2>14, <2>15
<1>5. QED BY <1>3, <1>4 DEF Retrieve, Found

\* A step that is a lookup with RetrieveVertex.
LEMMA LookupShape ==
    ASSUME Shape, NEW t \in Threads, NEW id \in Ids, Retrieve(t, id),
           UNCHANGED <<clock, settings, bitmap, dirty>>,
           NEW l \in Locals, th' = [th EXCEPT ![t] = l],
           Types' /\ Grows => Placed(t, l)'
    PROVE  Shape'
<1>1. /\ table' \in Seq(Vertices) /\ hist' \in Seq(Seq(Appends)) /\ Len(hist') = Len(table')
      /\ index' \in [Ids -> Nat \cup {NoVertex}] /\ Len(table) <= Len(table')
      /\ \A i \in Ids : index[i] # NoVertex => index'[i] = index[i]
    BY RetrieveSound DEF settings
<1>2. Types'
    BY <1>1 DEF Shape, Types, settings
<1>3. Grows
    BY <1>1, <1>2 DEF Grows, settings, Types, Shape
<1>4. PICK x : x = Made(t, id) /\ x = [node |-> id, del |-> NoTime, arr |-> NewArray]
    BY DEF Made
<1>5. \A v \in Offsets : v \in Offsets' /\ Vertex(v)' = Vertex(v)
    BY RetrieveSound DEF settings
<1>6. \A v \in Offsets' : v \in Offsets \/ Vertex(v)' = x
  <2>1. \A v \in Offsets' : v \in Offsets \/ Vertex(v)' = Made(t, id)
      BY RetrieveSound DEF settings
  <2>2. QED BY <1>4, <2>1
<1>7. clock \in Nat
    BY DEF Shape, Types
<1>8. ArraysFit'
  <2>1. ASSUME NEW v \in Offsets'
        PROVE  Fits(Vertex(v).arr)' /\ Vertex(v)'.del <= clock'
    <3>1. CASE v \in Offsets
      <4>1. PICK a \in EdgeArrays : a = Vertex(v).arr /\ Fits(a) /\ a = Vertex(v)'.arr
          BY <1>5, <3>1, VertexFacts
      <4>2. Fits(a)'
          BY <1>3, <1>5, <1>7, <4>1 DEF Fits, EdgeArrays, Grows
      <4>3. Vertex(v).del <= clock
          BY <3>1 DEF Shape, ArraysFit
      <4>4. QED BY <1>5, <3>1, <4>1, <4>2, <4>3
    <3>2. CASE v \notin Offsets
      <4>1. Vertex(v)' = x
          BY <1>6, <3>2
      <4>2. PICK a : a = NewArray
          OBVIOUS
      <4>3. a.log = <<>> /\ a.snapDeg = 0 /\ a.cap = InitCap /\ a.snapTs = 0
          BY <4>2 DEF NewArray
      <4>4. Len(a.log) = 0 /\ InitCap \in Nat
          BY <4>3, RadixGraphAssumption
      <4>5. Fits(a)'
          BY <1>7, <4>3, <4>4 DEF Fits
      <4>6. x.arr = a /\ x.del = NoTime
          BY <1>4, <4>2
      <4>7. QED BY <1>7, <4>1, <4>5, <4>6 DEF NoTime
    <3>3. QED BY <3>1, <3>2
  <2>2. QED BY <2>1 DEF ArraysFit
<1>9. NamesHeld'
  <2>1. ASSUME NEW i \in Ids, index'[i] # NoVertex
        PROVE  index'[i] \in Offsets' /\ Vertex(index[i])'.node = i
    <3>1. PICK v \in Nat : v = index'[i]
        BY <1>1, <2>1
    <3>2. CASE index[i] # NoVertex
      <4>1. v = index[i] /\ v \in Offsets /\ Vertex(v).node = i
          BY <1>1, <3>1, <3>2 DEF Shape, NamesHeld
      <4>2. v \in Offsets' /\ Vertex(v)'.node = i
          BY <1>5, <4>1
      <4>3. Vertex(index[i])' = Vertex(v)'
          BY <3>1 DEF Vertex
      <4>4. QED BY <3>1, <4>2, <4>3
    <3>3. CASE index[i] = NoVertex
      <4>1. i = id
          BY <2>1, <3>3, RetrieveSound DEF settings
      <4>2. index'[i] \in Offsets' /\ Vertex(index[i])' = x
          BY <1>4, <2>1, <3>3, <4>1, RetrieveSound DEF settings
      <4>3. x.node = id
          BY <1>4
      <4>4. QED BY <4>1, <4>2, <4>3
    <3>4. QED BY <3>2, <3>3
  <2>2. QED BY <2>1 DEF NamesHeld
<1>10. QED BY <1>2, <1>3, <1>8, <1>9, StepShape

LEMMA FindSrcShape ==
    ASSUME Shape, NEW t \in Threads, FindSrc(t)
    PROVE  Shape'
<1>1. PICK k \in Locals : k = th[t] /\ Placed(t, k)
    BY ThreadFacts
<1>2. k.pc = "src" /\ t \in 0 .. (numThreads - 1)
      /\ k.op \in {"insert", "update", "delete"} /\ k.src \in Ids /\ k.des \in Ids
    BY <1>1 DEF FindSrc, Placed
<1>3. Retrieve(t, k.src) /\ UNCHANGED <<clock, settings, bitmap, dirty>>
    BY <1>1 DEF FindSrc
<1>4. PICK u \in Nat \cup {NoVertex} : u = index'[k.src] /\ u \in Offsets' \cup {NoVertex}
    BY <1>2, <1>3, RetrieveSound DEF settings
<1>5. CASE th' = [th EXCEPT ![t] = Idle]
    BY <1>2, <1>3, <1>5, IdleIsLocal, IdlePlaced, LookupShape
<1>6. CASE u # NoVertex /\ th' = [th EXCEPT ![t] = [@ EXCEPT !.pc = "des", !.v = u]]
  <2> DEFINE l == [k EXCEPT !.pc = "des", !.v = u]
  <2>1. l \in Locals /\ l.pc = "des" /\ l.v = u /\ l.op = k.op /\ l.src = k.src /\ l.des = k.des
      BY DEF Locals, Pcs
  <2>2. th' = [th EXCEPT ![t] = l]
      BY <1>1, <1>6
  <2> HIDE DEF l
  <2>3. Placed(t, l)'
      BY <1>2, <1>3, <1>4, <1>6, <2>1 DEF Placed, settings
  <2>4. QED BY <1>2, <1>3, <2>1, <2>2, <2>3, LookupShape
<1>7. QED
  <2>1. Usable(t, u) => u # NoVertex
      BY <1>1, <1>2, <1>3, <1>4, RetrieveSound DEF Usable, Live, settings
  <2>2. th' = [th EXCEPT ![t] = IF Usable(t, u) THEN [@ EXCEPT !.pc = "des", !.v = u] ELSE Idle]
      BY <1>1, <1>4 DEF FindSrc
  <2>3. QED BY <1>5, <1>6, <2>1, <2>2

LEMMA FindDesShape ==
    ASSUME Shape, NEW t \in Threads, FindDes(t)
    PROVE  Shape'
<1>1. PICK k \in Locals : k = th[t] /\ Placed(t, k)
    BY ThreadFacts
<1>2. k.pc = "des" /\ t \in 0 .. (numThreads - 1)
      /\ k.op \in {"insert", "update", "delete"} /\ k.src \in Ids /\ k.des \in Ids
      /\ k.v # NoVertex /\ k.v \in Offsets /\ k.v = index[k.src]
    BY <1>1 DEF FindDes, Placed
<1>3. Retrieve(t, k.des) /\ UNCHANGED <<clock, settings, bitmap, dirty>>
    BY <1>1 DEF FindDes
<1>4. PICK u \in Nat \cup {NoVertex} : u = index'[k.des] /\ u \in Offsets' \cup {NoVertex}
    BY <1>2, <1>3, RetrieveSound DEF settings
<1>5. CASE th' = [th EXCEPT ![t] = Idle]
    BY <1>2, <1>3, <1>5, IdleIsLocal, IdlePlaced, LookupShape
<1>6. CASE u # NoVertex /\ th' = [th EXCEPT ![t] = [@ EXCEPT !.pc = "append", !.d = u]]
  <2> DEFINE l == [k EXCEPT !.pc = "append", !.d = u]
  <2>1. l \in Locals /\ l.pc = "append" /\ l.v = k.v /\ l.op = k.op /\ l.src = k.src
        /\ l.des = k.des /\ l.d = u
      BY DEF Locals, Pcs
  <2>2. th' = [th EXCEPT ![t] = l]
      BY <1>1, <1>6
  <2> HIDE DEF l
  <2>3. k.v = index'[k.src] /\ k.v \in Offsets'
      BY <1>2, <1>3, RetrieveSound DEF settings
  <2>4. Placed(t, l)'
      BY <1>2, <1>3, <1>4, <1>6, <2>1, <2>3 DEF Placed, settings
  <2>5. QED BY <1>2, <1>3, <2>1, <2>2, <2>4, LookupShape
<1>7. QED
  <2>1. Usable(t, u) => u # NoVertex
      BY <1>1, <1>2, <1>3, <1>4, RetrieveSound DEF Usable, Live, settings
  <2>2. th' = [th EXCEPT ![t] = IF Usable(t, u) THEN [@ EXCEPT !.pc = "append", !.d = u] ELSE Idle]
      BY <1>1, <1>4 DEF FindDes
  <2>3. QED BY <1>5, <1>6, <2>1, <2>2

LEMMA SetNumThreadsShape ==
    ASSUME Shape, NEW n \in 1 .. Cardinality(Threads), SetNumThreads(n)
    PROVE  Shape'
<1>1. /\ numThreads' = n /\ bitmap' = [k \in 0 .. (n - 1) |-> NewBitmap(0, L)]
      /\ UNCHANGED <<clock, mixed, isSorted, index, table, th, hist, dirty>>
      /\ \A t \in Threads : th[t].pc = "idle"
    BY DEF SetNumThreads, Exclusive, AllIdle, ghosts
<1>2. NewBitmap(0, L) \in Bitmaps
  <2>1. L \in Nat /\ L > 0
      BY RadixGraphAssumption
  <2>2. (0 + L - 1) \div L \in Nat
      BY <2>1
  <2>3. QED BY <2>2 DEF NewBitmap, Bitmaps
<1>3. Types'
    BY <1>1, <1>2 DEF Shape, Types
<1>4. ASSUME NEW t \in Threads
      PROVE  Placed(t, th[t])'
  <2>1. PICK k : k = th[t] /\ k = th'[t] /\ Placed(t, k) /\ k.pc = "idle"
      BY <1>1 DEF Shape
  <2>2. Placed(t, k)'
      BY <1>1, <2>1 DEF Placed, Offsets
  <2>3. QED BY <2>1, <2>2
<1>5. ArraysFit' /\ NamesHeld'
    BY <1>1 DEF Shape, ArraysFit, NamesHeld, Fits, Offsets, Vertex
<1>6. QED BY <1>3, <1>4, <1>5 DEF Shape

\* What CreateSnapshots makes of the array of vertex v.
Snapshot(v, sorted, dense) ==
    Compacted(Vertex(v).arr, bitmap[0], Room(Vertex(v).arr, dense), sorted, clock + v)

\* CreateSnapshots compacts the arrays and leaves the rest of the vertices alone.
LEMMA SnapshotTable ==
    ASSUME Shape, NEW switch \in BOOLEAN, NEW sorted \in BOOLEAN, NEW dense \in BOOLEAN,
           CreateSnapshots(switch, sorted, dense)
    PROVE  /\ mixed' \in BOOLEAN /\ clock' = clock + Len(table)
           /\ table' \in Seq(Vertices) /\ Len(table') = Len(table) /\ Offsets' = Offsets
           /\ \A v \in Offsets :
                 /\ Vertex(v)'.node = Vertex(v).node /\ Vertex(v)'.del = Vertex(v).del
                 /\ \E c \in EdgeArrays :
                       /\ c = Snapshot(v, sorted, dense) /\ Fits(c)'
                       /\ Vertex(v)'.arr = [c EXCEPT !.stamped = mixed']
<1>1. /\ table \in Seq(Vertices) /\ Len(table) \in Nat /\ clock \in Nat /\ mixed \in BOOLEAN
      /\ bitmap \in [0 .. (numThreads - 1) -> Bitmaps] /\ numThreads >= 1 /\ numThreads \in Nat
    BY RadixGraphAssumption, FS_CardinalityType DEF Shape, Types
<1>2. mixed' \in BOOLEAN /\ clock' = clock + Len(table)
    BY <1>1 DEF CreateSnapshots
<1>3. \A v \in Offsets : v \in Nat /\ clock + v \in Nat /\ clock + v <= clock' /\ clock' \in Nat
    BY <1>1, <1>2 DEF Offsets
<1>4. DOMAIN table' = 1 .. Len(table)
      /\ table' = [i \in 1 .. Len(table) |->
                     [table[i] EXCEPT !.arr = [Compacted(@, bitmap[0], Room(@, dense), sorted, clock + i - 1)
                                                EXCEPT !.stamped = mixed']]]
  <2>1. DOMAIN table = 1 .. Len(table)
      BY <1>1
  <2>2. QED BY <2>1 DEF CreateSnapshots
<1>5. ASSUME NEW v \in Offsets
      PROVE  \E c \in EdgeArrays :
                /\ c = Snapshot(v, sorted, dense) /\ (Offsets' = Offsets => Fits(c)')
                /\ table'[v + 1] = [Vertex(v) EXCEPT !.arr = [c EXCEPT !.stamped = mixed']]
  <2>1. PICK a \in EdgeArrays : a = Vertex(v).arr
      BY VertexFacts
  <2>2. PICK want \in Nat : want = Room(a, dense)
      BY CapacityTypes
  <2>3. PICK now \in Nat : now = clock + v /\ now <= clock'
      BY <1>3
  <2>4. PICK b : b = bitmap[0]
      OBVIOUS
  <2>5. PICK c : c = Snapshot(v, sorted, dense) /\ c = Compacted(a, b, want, sorted, now)
      BY <2>1, <2>2, <2>3, <2>4 DEF Snapshot
  <2>6. c \in EdgeArrays
    <3>1. Offsets' = Offsets => c \in EdgeArrays /\ Fits(c)'
        BY <1>3, <2>1, <2>2, <2>3, <2>5, CompactedFits
    <3>2. PICK s : s = Arranged(Kept(a, b), a, sorted)
        OBVIOUS
    <3>3. QED BY <1>1, <2>5, <3>2, CompactedSound
  <2>7. Offsets' = Offsets => Fits(c)'
      BY <1>3, <2>1, <2>2, <2>3, <2>5, CompactedFits
  <2>8. table'[v + 1] = [table[v + 1] EXCEPT
                !.arr = [Compacted(@, b, Room(@, dense), sorted, clock + (v + 1) - 1)
                          EXCEPT !.stamped = mixed']]
    <3>1. v + 1 \in 1 .. Len(table)
        BY VertexFacts
    <3>2. QED BY <1>4, <2>4, <3>1
  <2>9. clock + (v + 1) - 1 = now
      BY <1>1, <1>3, <2>3
  <2>10. PICK w \in Vertices : w = Vertex(v) /\ w = table[v + 1] /\ w.arr = a
      BY <2>1, VertexFacts
  <2>11. table'[v + 1] = [w EXCEPT !.arr = [c EXCEPT !.stamped = mixed']]
      BY <2>2, <2>5, <2>8, <2>9, <2>10
  <2>12. QED BY <2>5, <2>6, <2>7, <2>10, <2>11
<1>6. \A v \in Offsets :
        /\ table'[v + 1] \in Vertices
        /\ table'[v + 1].node = Vertex(v).node /\ table'[v + 1].del = Vertex(v).del
        /\ \E c \in EdgeArrays :
              /\ c = Snapshot(v, sorted, dense) /\ (Offsets' = Offsets => Fits(c)')
              /\ table'[v + 1].arr = [c EXCEPT !.stamped = mixed']
  <2>1. TAKE v \in Offsets
  <2>2. PICK w \in Vertices : w = Vertex(v)
      BY VertexFacts
  <2>3. PICK c \in EdgeArrays :
            /\ c = Snapshot(v, sorted, dense) /\ (Offsets' = Offsets => Fits(c)')
            /\ table'[v + 1] = [w EXCEPT !.arr = [c EXCEPT !.stamped = mixed']]
      BY <1>5, <2>2
  <2>4. PICK m \in BOOLEAN : m = mixed'
      BY <1>2
  <2>5. PICK d \in EdgeArrays : d = [c EXCEPT !.stamped = m]
    <3>1. [c EXCEPT !.stamped = m] \in EdgeArrays
        BY DEF EdgeArrays
    <3>2. QED BY <3>1
  <2>6. table'[v + 1] = [w EXCEPT !.arr = d]
      BY <2>3, <2>4, <2>5
  <2>7. [w EXCEPT !.arr = d] \in Vertices
      BY DEF Vertices
  <2>8. table'[v + 1].node = w.node /\ table'[v + 1].del = w.del /\ table'[v + 1].arr = d
      BY <2>6 DEF Vertices
  <2>9. QED BY <2>2, <2>3, <2>4, <2>5, <2>6, <2>7, <2>8
<1>7. table' \in [1 .. Len(table) -> Vertices]
  <2>1. \A i \in 1 .. Len(table) : i - 1 \in Offsets /\ i = (i - 1) + 1
      BY <1>1 DEF Offsets
  <2>2. \A i \in 1 .. Len(table) : table'[i] \in Vertices
      BY <1>6, <2>1
  <2>3. QED BY <1>4, <2>2
<1>8. table' \in Seq(Vertices) /\ Len(table') = Len(table)
  <2>1. table' \in Seq(Vertices)
      BY <1>1, <1>7, SeqDef
  <2>2. QED BY <1>1, <1>4, <2>1
<1>9. Offsets' = Offsets
    BY <1>8 DEF Offsets
<1>10. QED BY <1>2, <1>6, <1>8, <1>9 DEF Vertex

\* It leaves a clear bitmap clear.
LEMMA SnapshotBitmap ==
    ASSUME Shape, NEW switch, NEW sorted, NEW dense, CreateSnapshots(switch, sorted, dense)
    PROVE  \E c \in Bitmaps : /\ bitmap' = [bitmap EXCEPT ![0] = c]
                              /\ bitmap[0].bits = {} => c.bits = {}
<1>1. /\ Len(table) \in Nat /\ table \in Seq(Vertices)
      /\ bitmap \in [0 .. (numThreads - 1) -> Bitmaps] /\ numThreads \in Nat /\ numThreads >= 1
    BY RadixGraphAssumption, FS_CardinalityType DEF Shape, Types
<1> DEFINE P == UNION {Logged(x.arr, Len(x.arr.log)) : x \in {y \in Range(table) : ~FastPath(y.arr)}}
<1>2. P \in SUBSET Nat /\ \A p \in P : p <= Len(table)
  <2>1. ASSUME NEW p \in P
        PROVE  p \in Nat /\ p <= Len(table)
    <3>1. PICK x \in Range(table) : p \in Logged(x.arr, Len(x.arr.log))
        OBVIOUS
    <3>2. PICK i \in 1 .. Len(table) : x = table[i]
        BY <1>1, <3>1 DEF Range
    <3>3. i - 1 \in Offsets /\ Vertex(i - 1) = x
        BY <1>1, <3>2 DEF Offsets, Vertex
    <3>4. x.arr \in EdgeArrays /\ Fits(x.arr)
        BY <3>3, VertexFacts
    <3>5. x.arr.snapDeg \in Nat
        BY <3>4 DEF EdgeArrays
    <3>6. p \in Offsets
        BY <3>1, <3>4, <3>5 DEF Logged, Fits
    <3>7. QED BY <1>1, <3>6 DEF Offsets
  <2>2. QED BY <2>1
<1>3. PICK Q : Q = P
    OBVIOUS
<1>4. bitmap' = [bitmap EXCEPT ![0] = ClearBits(SetBits(bitmap[0], Q, L), Q, L)]
    BY <1>3 DEF CreateSnapshots
<1> HIDE DEF P
<1>5. PICK b \in Bitmaps : b = bitmap[0]
    BY <1>1
<1>6. PICK c : c = ClearBits(SetBits(b, Q, L), Q, L)
    OBVIOUS
<1>7. c \in Bitmaps /\ (b.bits = {} => c.bits = {})
    BY <1>1, <1>2, <1>3, <1>6, SetAndCleared
<1>8. QED BY <1>4, <1>5, <1>6, <1>7

LEMMA CreateSnapshotsShape ==
    ASSUME Shape, NEW switch \in BOOLEAN, NEW sorted \in BOOLEAN, NEW dense \in BOOLEAN,
           CreateSnapshots(switch, sorted, dense)
    PROVE  Shape'
<1>1. /\ mixed' \in BOOLEAN /\ clock' = clock + Len(table)
      /\ table' \in Seq(Vertices) /\ Len(table') = Len(table) /\ Offsets' = Offsets
    BY SnapshotTable
<1>2. /\ clock \in Nat /\ Len(table) \in Nat /\ table \in Seq(Vertices)
      /\ bitmap \in [0 .. (numThreads - 1) -> Bitmaps] /\ numThreads \in Nat /\ numThreads >= 1
    BY RadixGraphAssumption, FS_CardinalityType DEF Shape, Types
<1>3. UNCHANGED <<numThreads, index, th, hist>> /\ isSorted' = sorted /\ dirty' = FALSE
    BY DEF CreateSnapshots, Flag
<1>4. bitmap' \in [0 .. (numThreads - 1) -> Bitmaps]
  <2>1. PICK c \in Bitmaps : bitmap' = [bitmap EXCEPT ![0] = c]
      BY SnapshotBitmap
  <2>2. QED BY <1>2, <2>1
<1>5. Types'
  <2>1. th \in [Threads -> Locals] /\ hist \in Seq(Seq(Appends)) /\ Len(hist) = Len(table)
        /\ index \in [Ids -> Nat \cup {NoVertex}] /\ numThreads \in 1 .. Cardinality(Threads)
      BY DEF Shape, Types
  <2>2. clock' \in Nat
      BY <1>1, <1>2
  <2>3. bitmap' \in [0 .. (numThreads' - 1) -> Bitmaps]
      BY <1>3, <1>4
  <2>4. QED BY <1>1, <1>3, <2>1, <2>2, <2>3 DEF Types
<1>6. Grows
    BY <1>1, <1>2, <1>3, <1>5 DEF Grows
<1>7. ASSUME NEW t \in Threads
      PROVE  Placed(t, th[t])'
  <2>1. PICK k \in Locals : k = th[t] /\ k = th'[t] /\ Placed(t, k)
      BY <1>3 DEF Shape, Types
  <2>2. Placed(t, k)'
      BY <1>5, <1>6, <2>1, PlacedStays DEF Shape
  <2>3. QED BY <2>1, <2>2
<1>8. ArraysFit'
  <2>1. ASSUME NEW v \in Offsets
        PROVE  Fits(Vertex(v).arr)' /\ Vertex(v)'.del <= clock'
    <3>1. PICK c \in EdgeArrays : Fits(c)' /\ Vertex(v)'.arr = [c EXCEPT !.stamped = mixed']
        BY SnapshotTable
    <3>2. Vertex(v)'.del = Vertex(v).del
        BY SnapshotTable
    <3>3. PICK d : d = [c EXCEPT !.stamped = mixed']
        OBVIOUS
    <3>4. d.log = c.log /\ d.snapDeg = c.snapDeg /\ d.cap = c.cap /\ d.snapTs = c.snapTs
        BY <3>3 DEF EdgeArrays
    <3>5. Fits(d)'
        BY <3>1, <3>4 DEF Fits
    <3>6. Vertex(v).del \in Int /\ Vertex(v).del <= clock
        BY VertexFacts DEF Shape, ArraysFit, NoTime
    <3>7. QED BY <1>1, <1>2, <3>1, <3>2, <3>3, <3>5, <3>6
  <2>2. QED BY <1>1, <2>1 DEF ArraysFit
<1>9. NamesHeld'
  <2>1. \A v \in Offsets : Vertex(v)'.node = Vertex(v).node
      BY SnapshotTable
  <2>2. QED BY <1>1, <1>3, <2>1 DEF Shape, NamesHeld
<1>10. QED BY <1>5, <1>7, <1>8, <1>9 DEF Shape

LEMMA InitShape ==
    ASSUME Init
    PROVE  Shape
<1>1. Cardinality(Threads) \in Nat /\ Cardinality(Threads) >= 1
  <2>1. IsFiniteSet(Threads) /\ Threads # {}
      BY RadixGraphAssumption
  <2>2. QED BY <2>1, FS_CardinalityType, FS_EmptySet
<1>2. NewBitmap(0, L) \in Bitmaps
  <2>1. L \in Nat /\ L > 0
      BY RadixGraphAssumption
  <2>2. (0 + L - 1) \div L \in Nat
      BY <2>1
  <2>3. QED BY <2>2 DEF NewBitmap, Bitmaps
<1>3. table = <<>> /\ hist = <<>> /\ table \in Seq(Vertices) /\ hist \in Seq(Seq(Appends))
      /\ Len(table) = 0 /\ Len(hist) = 0 /\ Offsets = {}
    BY DEF Init, Offsets
<1>4. Types
  <2>1. numThreads \in 1 .. Cardinality(Threads)
      BY <1>1 DEF Init
  <2>2. bitmap \in [0 .. (numThreads - 1) -> Bitmaps]
      BY <1>2 DEF Init
  <2>3. index \in [Ids -> Nat \cup {NoVertex}] /\ th \in [Threads -> Locals]
      BY IdleIsLocal DEF Init
  <2>4. clock \in Nat /\ mixed \in BOOLEAN /\ isSorted \in BOOLEAN /\ dirty \in BOOLEAN
      BY DEF Init
  <2>5. QED BY <1>3, <2>1, <2>2, <2>3, <2>4 DEF Types
<1>5. \A t \in Threads : Placed(t, th[t])
    BY IdlePlaced DEF Init
<1>6. ArraysFit /\ NamesHeld
    BY <1>3 DEF Init, ArraysFit, NamesHeld
<1>7. QED BY <1>4, <1>5, <1>6 DEF Shape

LEMMA NextShape ==
    ASSUME Shape, [Next]_vars
    PROVE  Shape'
<1>1. ASSUME NEW t \in Threads, BeginWrite(t) \/ BeginDelete(t) \/ BeginRead(t) \/ Step(t)
      PROVE  Shape'
    BY <1>1, BeginWriteShape, BeginDeleteShape, BeginReadShape, FindSrcShape, FindDesShape,
       CompactShape, InsertShape, MarkShape, FindVertexShape, PinShape, ScanShape, ClearShape,
       ReturnEdgesShape DEF Step
<1>2. CASE UNCHANGED vars
    BY <1>2 DEF vars, Shape, Types, Placed, ArraysFit, NamesHeld, Fits, Offsets, Vertex
<1>3. QED BY <1>1, <1>2, CreateSnapshotsShape, SetNumThreadsShape DEF Next, Done

\* The shape of the state is an invariant.
LEMMA ShapeInvariant == Spec => []Shape
<1>1. QED BY InitShape, NextShape, PTL DEF Spec

\* Every variable has its type and no array is used beyond its end.
THEOREM TypeCorrect == Spec => []TypeOK
<1>1. ASSUME Shape
      PROVE  TypeOK
  <2>1. clock \in Nat /\ numThreads \in 1 .. Cardinality(Threads)
        /\ {mixed, isSorted, dirty} \subseteq BOOLEAN
      BY <1>1 DEF Shape, Types
  <2>2. DOMAIN bitmap = 0 .. (numThreads - 1)
      BY <1>1 DEF Shape, Types
  <2>3. index \in [Ids -> Offsets \cup {NoVertex}]
      BY <1>1 DEF Shape, Types, NamesHeld
  <2>4. ASSUME NEW v \in Offsets
        PROVE  /\ Vertex(v).node \in Ids /\ Vertex(v).del \in {NoTime} \cup 0 .. clock
               /\ LET a == Vertex(v).arr
                  IN  /\ a.snapDeg <= Len(a.log) /\ Len(a.log) <= a.cap
                      /\ a.deg \in Int /\ a.snapTs \in 0 .. clock /\ a.stamped \in BOOLEAN
    <3>1. PICK a \in EdgeArrays : a = Vertex(v).arr /\ Fits(a)
        BY <1>1, VertexFacts
    <3>2. Vertex(v).del <= clock
        BY <1>1 DEF Shape, ArraysFit
    <3>3. Vertex(v).node \in Ids /\ Vertex(v).del \in Nat \cup {NoTime}
        BY <1>1, VertexFacts
    <3>4. a.deg \in Int /\ a.snapTs \in Nat /\ a.stamped \in BOOLEAN
        BY DEF EdgeArrays
    <3>5. QED BY <2>1, <3>1, <3>2, <3>3, <3>4 DEF Fits
  <2>5. \A t \in Threads : th[t].pc \in Pcs /\ th[t].v \in Offsets \cup {NoVertex}
    <3>1. TAKE t \in Threads
    <3>2. th[t] \in Locals /\ Placed(t, th[t])
        BY <1>1, ThreadFacts
    <3>3. QED BY <3>2 DEF Locals, Placed
  <2>6. QED BY <2>1, <2>2, <2>3, <2>4, <2>5 DEF TypeOK
<1>2. QED BY <1>1, ShapeInvariant, PTL

-----------------------------------------------------------------------------
(* What a step does to the vertices. *)

\* Vertices keep their names, and arrays only get younger; del_time changes when a vertex
\* that is not deleted is deleted, or one that goes down in twice.
VerticesStay ==
    /\ \A v \in Offsets :
          /\ v \in Offsets' /\ Vertex(v)'.node = Vertex(v).node
          /\ Vertex(v).arr.snapTs <= Vertex(v)'.arr.snapTs
          /\ \/ Vertex(v)'.del = Vertex(v).del
             \/ Vertex(v)'.del \in Nat /\ (Live(v) \/ v \in twice')
    /\ \A id \in Ids : index[id] # NoVertex => index'[id] = index[id]
    /\ twice \subseteq twice'

LEMMA UnchangedVertices ==
    ASSUME Shape, UNCHANGED <<table, index, twice>>
    PROVE  VerticesStay
<1>1. Offsets' = Offsets /\ \A v : Vertex(v)' = Vertex(v)
    BY DEF Offsets, Vertex
<1>2. \A v \in Offsets : Vertex(v).arr.snapTs \in Nat
    BY VertexFacts DEF EdgeArrays
<1>3. QED BY <1>1, <1>2 DEF VerticesStay

LEMMA RetrieveVertices ==
    ASSUME Shape, NEW t \in Threads, NEW id \in Ids, Retrieve(t, id),
           UNCHANGED <<clock, mixed, twice>>
    PROVE  VerticesStay
<1>1. /\ \A v \in Offsets : v \in Offsets' /\ Vertex(v)' = Vertex(v)
      /\ \A i \in Ids : index[i] # NoVertex => index'[i] = index[i]
    BY RetrieveSound
<1>2. \A v \in Offsets : Vertex(v).arr.snapTs \in Nat
    BY VertexFacts DEF EdgeArrays
<1>3. QED BY <1>1, <1>2 DEF VerticesStay

\* One vertex is replaced.
LEMMA StoreVertices ==
    ASSUME Shape, NEW v \in Offsets, NEW x \in Vertices, table' = [table EXCEPT ![v + 1] = x],
           x.node = Vertex(v).node, Vertex(v).arr.snapTs <= x.arr.snapTs,
           x.del = Vertex(v).del \/ (x.del \in Nat /\ (Live(v) \/ v \in twice')),
           index' = index, twice \subseteq twice'
    PROVE  VerticesStay
<1>1. Offsets' = Offsets /\ Vertex(v)' = x /\ \A u \in Offsets : u # v => Vertex(u)' = Vertex(u)
    BY TableStore
<1>2. \A u \in Offsets : Vertex(u).arr.snapTs \in Nat
    BY VertexFacts DEF EdgeArrays
<1>3. QED BY <1>1, <1>2 DEF VerticesStay

LEMMA NextVertices ==
    ASSUME Shape, [Next]_vars
    PROVE  VerticesStay
<1>1. ASSUME NEW t \in Threads,
             BeginWrite(t) \/ BeginDelete(t) \/ BeginRead(t) \/ FindVertex(t) \/ Pin(t) \/ Scan(t)
                \/ Clear(t) \/ ReturnEdges(t)
      PROVE  VerticesStay
  <2>1. UNCHANGED <<table, index, twice>>
      BY <1>1 DEF BeginWrite, BeginDelete, BeginRead, FindVertex, Pin, Scan, Clear, ReturnEdges, ghosts
  <2>2. QED BY <2>1, UnchangedVertices
<1>2. ASSUME NEW t \in Threads, FindSrc(t) \/ FindDes(t)
      PROVE  VerticesStay
  <2>1. PICK id \in Ids : Retrieve(t, id)
      BY <1>2, ThreadFacts DEF FindSrc, FindDes, Placed
  <2>2. UNCHANGED <<clock, mixed, twice>>
      BY <1>2 DEF FindSrc, FindDes, settings
  <2>3. QED BY <2>1, <2>2, RetrieveVertices
<1>3. ASSUME NEW t \in Threads, Compact(t)
      PROVE  VerticesStay
  <2>1. PICK v \in Offsets, w \in Vertices, a \in EdgeArrays, b \in Bitmaps, want \in Nat,
             c \in EdgeArrays : CompactStep(t, v, w, a, b, want, c) /\ c.snapTs = clock
      BY <1>3, CompactStores
  <2> DEFINE x == [w EXCEPT !.arr = c]
  <2>2. x \in Vertices /\ x.arr = c /\ x.node = w.node /\ x.del = w.del
      BY DEF Vertices
  <2>3. table' = [table EXCEPT ![v + 1] = x] /\ w = Vertex(v) /\ a = w.arr /\ Fits(a)
        /\ index' = index /\ twice' = twice
      BY <2>1 DEF CompactStep, ghosts
  <2> HIDE DEF x
  <2>4. Vertex(v).arr.snapTs <= x.arr.snapTs
      BY <2>1, <2>2, <2>3 DEF Fits
  <2>5. x.node = Vertex(v).node /\ x.del = Vertex(v).del
      BY <2>2, <2>3
  <2>6. twice \subseteq twice'
      BY <2>3
  <2>d. x.del = Vertex(v).del \/ (x.del \in Nat /\ (Live(v) \/ v \in twice'))
      BY <2>5
  <2>7. QED BY <2>2, <2>3, <2>4, <2>5, <2>6, <2>d, StoreVertices
<1>4. ASSUME NEW t \in Threads, Insert(t)
      PROVE  VerticesStay
  <2>1. PICK v \in Offsets, w \in Vertices, a \in EdgeArrays, e \in Entries, c \in EdgeArrays,
             m \in Appends : InsertStep(t, v, w, a, e, c, m)
      BY <1>4, InsertStores
  <2> DEFINE x == [w EXCEPT !.arr = c]
  <2>2. x \in Vertices /\ x.arr = c /\ x.node = w.node /\ x.del = w.del
      BY DEF Vertices
  <2>3. table' = [table EXCEPT ![v + 1] = x] /\ w = Vertex(v) /\ a = w.arr /\ c.snapTs = a.snapTs
        /\ index' = index /\ twice' = twice /\ a.snapTs \in Nat
      BY <2>1 DEF InsertStep, EdgeArrays
  <2> HIDE DEF x
  <2>4. x.node = Vertex(v).node /\ x.del = Vertex(v).del /\ Vertex(v).arr.snapTs <= x.arr.snapTs
      BY <2>2, <2>3
  <2>5. twice \subseteq twice'
      BY <2>3
  <2>d. x.del = Vertex(v).del \/ (x.del \in Nat /\ (Live(v) \/ v \in twice'))
      BY <2>4
  <2>6. QED BY <2>2, <2>3, <2>4, <2>5, <2>d, StoreVertices
<1>5. ASSUME NEW t \in Threads, Mark(t)
      PROVE  VerticesStay
  <2>1. PICK v \in Offsets, w \in Vertices, ts \in Nat : MarkStep(t, v, w, ts)
      BY <1>5, MarkStores
  <2> DEFINE x == [w EXCEPT !.del = ts]
  <2>2. x \in Vertices /\ x.arr = w.arr /\ x.node = w.node /\ x.del = ts /\ w.arr.snapTs \in Nat
      BY DEF Vertices, EdgeArrays
  <2>3. table' = [table EXCEPT ![v + 1] = x] /\ w = Vertex(v) /\ index' = index
        /\ twice \subseteq twice' /\ (Live(v) \/ v \in twice')
      BY <2>1 DEF MarkStep
  <2> HIDE DEF x
  <2>4. x.node = Vertex(v).node /\ x.del \in Nat /\ Vertex(v).arr.snapTs <= x.arr.snapTs
      BY <2>2, <2>3
  <2>5. QED BY <2>2, <2>3, <2>4, StoreVertices
<1>6. ASSUME NEW switch \in BOOLEAN, NEW sorted \in BOOLEAN, NEW dense \in BOOLEAN,
             CreateSnapshots(switch, sorted, dense)
      PROVE  VerticesStay
  <2>1. Offsets' = Offsets /\ index' = index /\ twice' = twice
      BY <1>6, SnapshotTable DEF CreateSnapshots
  <2>2. ASSUME NEW v \in Offsets
        PROVE  /\ Vertex(v)'.node = Vertex(v).node /\ Vertex(v)'.del = Vertex(v).del
               /\ Vertex(v).arr.snapTs <= Vertex(v)'.arr.snapTs
    <3>1. PICK c \in EdgeArrays :
             c = Snapshot(v, sorted, dense) /\ Vertex(v)'.arr = [c EXCEPT !.stamped = mixed']
        BY <1>6, SnapshotTable
    <3>2. c.snapTs = clock + v
        BY <3>1 DEF Snapshot, Compacted
    <3>3. [c EXCEPT !.stamped = mixed'].snapTs = c.snapTs
        BY DEF EdgeArrays
    <3>4. PICK a \in EdgeArrays : a = Vertex(v).arr /\ Fits(a)
        BY VertexFacts
    <3>5. a.snapTs \in Nat /\ a.snapTs <= clock /\ clock \in Nat /\ v \in Nat
        BY <3>4, VertexFacts DEF EdgeArrays, Fits, Shape, Types
    <3>6. Vertex(v)'.node = Vertex(v).node /\ Vertex(v)'.del = Vertex(v).del
        BY <1>6, SnapshotTable
    <3>7. QED BY <3>1, <3>2, <3>3, <3>4, <3>5, <3>6
  <2>3. QED BY <2>1, <2>2 DEF VerticesStay
<1>7. CASE UNCHANGED vars
    BY <1>7, UnchangedVertices DEF vars
<1>8. ASSUME NEW n, SetNumThreads(n)
      PROVE  VerticesStay
    BY <1>8, UnchangedVertices DEF SetNumThreads, ghosts
<1>9. QED BY <1>1, <1>2, <1>3, <1>4, <1>5, <1>6, <1>7, <1>8 DEF Next, Step, Done

-----------------------------------------------------------------------------
(* Names. *)

\* Every append leads to the vertex whose ID the caller gave.
AppendsNamed ==
    \A v \in Offsets : \A i \in 1 .. Len(hist[v + 1]) :
        /\ hist[v + 1][i].idx \in Offsets
        /\ Vertex(hist[v + 1][i].idx).node = hist[v + 1][i].id

LEMMA NextNamed ==
    ASSUME Shape, AppendsNamed, [Next]_vars
    PROVE  AppendsNamed'
<1>1. \A v \in Offsets : v \in Offsets' /\ Vertex(v)'.node = Vertex(v).node
    BY NextVertices DEF VerticesStay
<1>2. \A v \in Offsets : \A i \in 1 .. Len(hist[v + 1]) :
        /\ hist[v + 1][i].idx \in Offsets'
        /\ \A d \in Offsets' : d = hist[v + 1][i].idx => Vertex(d)'.node = hist[v + 1][i].id
    BY <1>1 DEF AppendsNamed
<1>3. CASE /\ \A v \in Offsets' : (v \in Offsets /\ hist'[v + 1] = hist[v + 1]) \/ hist'[v + 1] = <<>>
  <2>1. ASSUME NEW v \in Offsets', NEW i \in 1 .. Len(hist'[v + 1])
        PROVE  /\ hist'[v + 1][i].idx \in Offsets'
               /\ \A d \in Offsets' : d = hist'[v + 1][i].idx => Vertex(d)'.node = hist'[v + 1][i].id
    <3>1. PICK g : g = hist'[v + 1]
        OBVIOUS
    <3>2. v \in Offsets /\ hist[v + 1] = g
        BY <1>3, <3>1
    <3>3. QED BY <1>2, <3>1, <3>2
  <2>2. QED BY <2>1 DEF AppendsNamed, Vertex
<1>4. CASE \E t \in Threads : Insert(t)
  <2>1. PICK t \in Threads : Insert(t)
      BY <1>4
  <2>2. PICK v \in Offsets, w \in Vertices, a \in EdgeArrays, e \in Entries, c \in EdgeArrays,
             m \in Appends : InsertStep(t, v, w, a, e, c, m)
      BY <2>1, InsertStores
  <2>3. Offsets' = Offsets
    <3>1. [w EXCEPT !.arr = c] \in Vertices
        BY DEF Vertices
    <3>2. QED BY <2>2, <3>1, TableStore DEF InsertStep
  <2>4. m.idx \in Offsets /\ Vertex(m.idx).node = m.id
    <3>1. PICK k \in Locals : k = th[t] /\ Placed(t, k)
        BY ThreadFacts
    <3>2. k.d = index[k.des] /\ k.d \in Offsets /\ k.des \in Ids
        BY <2>1, <3>1 DEF Insert, Placed
    <3>3. Vertex(k.d).node = k.des
        BY <3>2, VertexFacts DEF Shape, NamesHeld
    <3>4. m.idx = k.d /\ m.id = k.des
        BY <2>2, <3>1 DEF InsertStep
    <3>5. QED BY <3>2, <3>3, <3>4
  <2>5. ASSUME NEW u \in Offsets, NEW i \in 1 .. Len(hist'[u + 1])
        PROVE  /\ hist'[u + 1][i].idx \in Offsets'
               /\ \A d \in Offsets' : d = hist'[u + 1][i].idx => Vertex(d)'.node = hist'[u + 1][i].id
    <3>1. PICK g \in Seq(Appends) : g = hist[u + 1]
        BY VertexFacts
    <3>2. hist' = [hist EXCEPT ![v + 1] = Append(hist[v + 1], m)]
        BY <2>2 DEF InsertStep
    <3>3. PICK h : h = hist'[u + 1]
        OBVIOUS
    <3>4. u + 1 \in DOMAIN hist /\ u \in Nat /\ v \in Nat
        BY VertexFacts DEF Shape, Types
    <3>5. h = g \/ h = Append(g, m)
        BY <3>1, <3>2, <3>3, <3>4
    <3>6. \A j \in 1 .. Len(h) : h[j] = m \/ (j \in 1 .. Len(g) /\ h[j] = g[j])
      <4>1. CASE h = g
          BY <4>1
      <4>2. CASE h = Append(g, m)
        <5>1. Len(g) \in Nat /\ Len(h) = Len(g) + 1 /\ h[Len(g) + 1] = m
              /\ \A j \in 1 .. Len(g) : h[j] = g[j]
            BY <3>1, <4>2
        <5>2. QED BY <5>1
      <4>3. QED BY <3>5, <4>1, <4>2
    <3>7. CASE h[i] = m
        BY <1>1, <2>3, <2>4, <3>3, <3>7
    <3>8. CASE i \in 1 .. Len(g) /\ h[i] = g[i]
        BY <1>2, <3>1, <3>3, <3>8
    <3>9. QED BY <3>3, <3>6, <3>7, <3>8
  <2>6. QED BY <2>3, <2>5 DEF AppendsNamed, Vertex
<1>5. ASSUME NEW t \in Threads, FindSrc(t) \/ FindDes(t)
      PROVE  \A v \in Offsets' : (v \in Offsets /\ hist'[v + 1] = hist[v + 1]) \/ hist'[v + 1] = <<>>
  <2>1. PICK id \in Ids : Retrieve(t, id)
      BY <1>5, ThreadFacts DEF FindSrc, FindDes, Placed
  <2>2. UNCHANGED <<clock, mixed>>
      BY <1>5 DEF FindSrc, FindDes, settings
  <2>3. QED BY <2>1, <2>2, RetrieveSound
<1>6. (\E t \in Threads : Insert(t) \/ FindSrc(t) \/ FindDes(t)) \/ (UNCHANGED hist /\ Len(table') = Len(table))
  <2>1. ASSUME NEW t \in Threads, Compact(t)
        PROVE  UNCHANGED hist /\ Len(table') = Len(table)
    <3>1. PICK v \in Offsets, w \in Vertices, a \in EdgeArrays, b \in Bitmaps, want \in Nat,
               c \in EdgeArrays : CompactStep(t, v, w, a, b, want, c)
        BY <2>1, CompactStores
    <3>2. [w EXCEPT !.arr = c] \in Vertices
        BY DEF Vertices
    <3>3. QED BY <3>1, <3>2, TableStore DEF CompactStep, ghosts
  <2>2. ASSUME NEW t \in Threads, Mark(t)
        PROVE  UNCHANGED hist /\ Len(table') = Len(table)
    <3>1. PICK v \in Offsets, w \in Vertices, ts \in Nat : MarkStep(t, v, w, ts)
        BY <2>2, MarkStores
    <3>2. [w EXCEPT !.del = ts] \in Vertices
        BY DEF Vertices
    <3>3. QED BY <3>1, <3>2, TableStore DEF MarkStep
  <2>3. ASSUME NEW switch \in BOOLEAN, NEW sorted \in BOOLEAN, NEW dense \in BOOLEAN,
               CreateSnapshots(switch, sorted, dense)
        PROVE  UNCHANGED hist /\ Len(table') = Len(table)
      BY <2>3, SnapshotTable DEF CreateSnapshots
  <2>4. ASSUME NEW t \in Threads,
               BeginWrite(t) \/ BeginDelete(t) \/ BeginRead(t) \/ FindVertex(t) \/ Pin(t) \/ Scan(t)
                  \/ Clear(t) \/ ReturnEdges(t)
        PROVE  UNCHANGED hist /\ Len(table') = Len(table)
      BY <2>4 DEF BeginWrite, BeginDelete, BeginRead, FindVertex, Pin, Scan, Clear, ReturnEdges, ghosts
  <2>5. QED BY <2>1, <2>2, <2>3, <2>4 DEF Next, Step, Done, vars, SetNumThreads, ghosts
<1>7. QED BY <1>3, <1>4, <1>5, <1>6 DEF Offsets

\* Every edge leads to the vertex whose ID the caller gave (GetExternalID of an entry), and
\* the ID functions are inverse to each other.
THEOREM NamesAgree == Spec => []NamesRoundTrip
<1>1. Init => AppendsNamed
    BY DEF Init, AppendsNamed, Offsets
<1>2. ASSUME Shape, AppendsNamed
      PROVE  NamesRoundTrip
  <2>1. \A v \in Offsets : \A i \in DOMAIN hist[v + 1] :
            GetExternalID(hist[v + 1][i].idx) = hist[v + 1][i].id
    <3>1. TAKE v \in Offsets
    <3>2. hist[v + 1] \in Seq(Appends) /\ Len(table) \in Nat
        BY <1>2, VertexFacts DEF Shape, Types
    <3>3. TAKE i \in DOMAIN hist[v + 1]
    <3>4. i \in 1 .. Len(hist[v + 1])
        BY <3>2
    <3>5. PICK d \in Offsets : d = hist[v + 1][i].idx /\ Vertex(d).node = hist[v + 1][i].id
        BY <1>2, <3>4 DEF AppendsNamed
    <3>6. ~(d >= Len(table))
        BY <3>2 DEF Offsets
    <3>7. QED BY <3>5, <3>6 DEF GetExternalID, GetNumVertices
  <2>2. \A id \in Ids : GetInternalID(id) # NoVertex =>
            GetInternalID(id) < GetNumVertices /\ GetExternalID(GetInternalID(id)) = id
    <3>1. TAKE id \in Ids
    <3>2. HAVE GetInternalID(id) # NoVertex
    <3>3. GetInternalID(id) = index[id] /\ index[id] # NoVertex
        BY <3>2 DEF GetInternalID
    <3>4. PICK d \in Offsets : d = index[id] /\ Vertex(d).node = id
        BY <1>2, <3>3 DEF Shape, NamesHeld
    <3>5. d < Len(table) /\ ~(d >= Len(table))
        BY <1>2, <3>4 DEF Offsets, Shape, Types
    <3>6. QED BY <3>3, <3>4, <3>5 DEF GetExternalID, GetNumVertices
  <2>3. QED BY <2>1, <2>2 DEF NamesRoundTrip
<1>3. QED BY <1>1, <1>2, InitShape, NextShape, NextNamed, PTL DEF Spec

-----------------------------------------------------------------------------
(* What has been refused, and what was dead before a call began. *)

\* The vertex of the ID is deleted.
Dead(id) == index[id] # NoVertex /\ ~Live(index[id])

\* A read of v at time ts is refused.
Hidden(v, ts) == (~Live(v) /\ ts >= Vertex(v).del) \/ Vertex(v).arr.snapTs > ts

\* What is refused stays so, unless the vertex is deleted twice.
Refusals ==
    /\ refused \subseteq Nat \X Nat
    /\ \A v, ts \in Nat : <<v, ts>> \in refused => v \in Offsets /\ (v \in twice \/ Hidden(v, ts))

\* A call that began too late: an update or deletion has yet to meet its deleted vertex, a
\* read has yet to meet the array that is too young.
Late(l) ==
    /\ l.op \in {"update", "delete"} /\ l.late =>
          /\ l.pc = "src" => Dead(l.src) \/ Dead(l.des)
          /\ l.pc = "des" => Dead(l.des)
          /\ l.pc # "append"
    /\ l.late =>
          /\ l.pc = "pin" => l.v \in twice \/ Vertex(l.v).arr.snapTs > l.ts
          /\ l.pc \in {"scan", "clear", "done"} => l.v \in twice

Lateness == \A t \in Threads : Late(th[t])

\* A vertex that is deleted stays deleted, a read that is refused stays refused.
LEMMA DeadStays ==
    ASSUME Shape, Shape', VerticesStay
    PROVE  /\ \A v \in Offsets : ~Live(v) => ~Live(v)'
           /\ \A id \in Ids : Dead(id) => Dead(id)'
           /\ \A v \in Offsets, ts \in Nat :
                 Vertex(v).arr.snapTs > ts => Vertex(v)'.arr.snapTs > ts
           /\ \A v \in Offsets, ts \in Nat :
                 v \in twice \/ Hidden(v, ts) => v \in twice' \/ Hidden(v, ts)'
<1>1. \A v \in Offsets : ~Live(v) => ~Live(v)'
    BY VertexFacts DEF VerticesStay, Live, NoTime
<1>2. \A id \in Ids : Dead(id) => Dead(id)'
  <2>1. TAKE id \in Ids
  <2>2. HAVE Dead(id)
  <2>3. PICK v \in Offsets : v = index[id] /\ v = index'[id] /\ ~Live(v)
      BY <2>2 DEF Dead, Shape, NamesHeld, VerticesStay
  <2>4. ~Live(v)' /\ v # NoVertex
      BY <1>1, <2>3, VertexFacts
  <2>5. QED BY <2>3, <2>4 DEF Dead, Live, Vertex
<1>3. ASSUME NEW v \in Offsets, NEW ts \in Nat
      PROVE  Vertex(v).arr.snapTs > ts => Vertex(v)'.arr.snapTs > ts
  <2>a. table' \in Seq(Vertices) /\ v \in Offsets'
      BY DEF VerticesStay, Shape, Types
  <2>b. Len(table)' \in Nat
      BY <2>a
  <2>1. v + 1 \in 1 .. Len(table)' /\ table' \in Seq(Vertices)
      BY <2>a, <2>b DEF Offsets
  <2>2. Vertex(v)' \in Vertices
      BY <2>1, ElementOfSeq DEF Vertex
  <2>3. Vertex(v)'.arr.snapTs \in Nat
      BY <2>2 DEF Vertices, EdgeArrays
  <2>4. Vertex(v).arr.snapTs \in Nat
      BY VertexFacts DEF EdgeArrays
  <2>5. QED BY <2>3, <2>4 DEF VerticesStay
<1>4. ASSUME NEW v \in Offsets, NEW ts \in Nat, v \in twice \/ Hidden(v, ts)
      PROVE  v \in twice' \/ Hidden(v, ts)'
  <2>1. CASE v \in twice
      BY <2>1 DEF VerticesStay
  <2>2. CASE Vertex(v).arr.snapTs > ts
      BY <1>3, <2>2 DEF Hidden
  <2>3. CASE ~Live(v) /\ ts >= Vertex(v).del
      BY <1>1, <2>3 DEF Hidden, VerticesStay
  <2>4. QED BY <1>4, <2>1, <2>2, <2>3 DEF Hidden
<1>5. QED BY <1>1, <1>2, <1>3, <1>4

LEMMA NextRefusals ==
    ASSUME Shape, Shape', Refusals, [Next]_vars
    PROVE  Refusals'
<1>1. ASSUME NEW v \in Nat, NEW ts \in Nat, <<v, ts>> \in refused
      PROVE  v \in Offsets' /\ (v \in twice' \/ Hidden(v, ts)')
  <2>1. v \in Offsets /\ (v \in twice \/ Hidden(v, ts))
      BY <1>1 DEF Refusals
  <2>2. QED BY <2>1, NextVertices, DeadStays DEF VerticesStay
<1>2. CASE refused' = refused
    BY <1>1, <1>2 DEF Refusals
<1>3. ASSUME NEW t \in Threads, th[t].pc \in {"find", "pin"}, th[t].v # NoVertex, Refuse(t),
             Hidden(th[t].v, th[t].ts), table' = table
      PROVE  Refusals'
  <2>1. PICK k \in Locals : k = th[t] /\ Placed(t, k)
      BY ThreadFacts
  <2>2. PICK v \in Offsets : v = k.v
      BY <1>3, <2>1 DEF Placed
  <2>3. PICK ts \in Nat : ts = k.ts
      BY <2>1 DEF Locals
  <2>4. Hidden(v, ts)' /\ Offsets' = Offsets
      BY <1>3, <2>1, <2>2, <2>3 DEF Hidden, Live, Vertex, Offsets
  <2>5. refused' = refused \cup {<<v, ts>>}
      BY <1>3, <2>1, <2>2, <2>3 DEF Refuse
  <2>6. v \in Nat
      BY VertexFacts
  <2>7. QED BY <1>1, <2>4, <2>5, <2>6 DEF Refusals
<1>4. ASSUME NEW t \in Threads, FindVertex(t), refused' # refused
      PROVE  Refusals'
  <2>1. th[t].v # NoVertex /\ ~Live(th[t].v) /\ th[t].ts >= Vertex(th[t].v).del /\ Refuse(t)
        /\ table' = table /\ th[t].pc = "find"
      BY <1>4 DEF FindVertex
  <2>2. QED BY <1>3, <2>1 DEF Hidden
<1>5. ASSUME NEW t \in Threads, Pin(t), refused' # refused
      PROVE  Refusals'
  <2>1. Vertex(th[t].v).arr.snapTs > th[t].ts /\ Refuse(t) /\ table' = table /\ th[t].pc = "pin"
      BY <1>5 DEF Pin
  <2>2. th[t].v # NoVertex
      BY <2>1, ThreadFacts DEF Placed
  <2>3. QED BY <1>3, <2>1, <2>2 DEF Hidden
<1>6. refused' = refused \/ \E t \in Threads : FindVertex(t) \/ Pin(t)
    BY DEF Next, Step, Done, vars, BeginWrite, BeginDelete, BeginRead, FindSrc, FindDes, Compact,
       Insert, Mark, Scan, Clear, ReturnEdges, CreateSnapshots, SetNumThreads, ghosts
<1>7. QED BY <1>2, <1>4, <1>5, <1>6

LEMMA LateStays ==
    ASSUME Shape, Shape', VerticesStay, NEW t, NEW l \in Locals, Placed(t, l), Late(l)
    PROVE  Late(l)'
<1>1. l.ts \in Nat
    BY DEF Locals
<1>2. l.pc \in {"src", "des"} => l.src \in Ids /\ l.des \in Ids
    BY DEF Placed
<1>3. l.pc = "pin" => l.v \in Offsets
    BY DEF Placed
<1>4. QED BY <1>1, <1>2, <1>3, DeadStays DEF Late, VerticesStay

LEMMA LateStep ==
    ASSUME Shape, Shape', VerticesStay, Lateness, NEW t \in Threads, NEW l \in Locals,
           th' = [th EXCEPT ![t] = l], Late(l)'
    PROVE  Lateness'
<1>1. ASSUME NEW u \in Threads
      PROVE  Late(th[u])'
  <2>1. th \in [Threads -> Locals]
      BY DEF Shape, Types
  <2>2. CASE u = t
      BY <2>1, <2>2
  <2>3. CASE u # t
    <3>1. PICK k \in Locals : k = th[u] /\ k = th'[u] /\ Placed(u, k)
        BY <2>1, <2>3, ThreadFacts
    <3>2. Late(k)
        BY <3>1 DEF Lateness
    <3>3. Late(k)'
        BY <3>1, <3>2, LateStays
    <3>4. QED BY <3>1, <3>3
  <2>4. QED BY <2>2, <2>3
<1>2. QED BY <1>1 DEF Lateness

LEMMA LateWhenTold ==
    ASSUME NEW l, l.late = FALSE
    PROVE  Late(l)'
    BY DEF Late

\* The lookups of an update or a deletion: a deleted vertex ends the call.
LEMMA LookupMeets ==
    ASSUME Shape, NEW t \in Threads, NEW id \in Ids, Retrieve(t, id), Usable(t, index'[id]),
           th[t].op # "insert"
    PROVE  ~Dead(id)
<1>1. index'[id] = index[id]
    BY DEF Retrieve
<1>2. QED BY <1>1 DEF Usable, Dead

LEMMA BeginLate ==
    ASSUME Shape, Shape', VerticesStay, Lateness, NEW t \in Threads,
           BeginWrite(t) \/ BeginDelete(t) \/ BeginRead(t)
    PROVE  Lateness'
<1>1. CASE BeginWrite(t)
  <2>1. PICK op \in {"insert", "update", "delete"}, s \in Sources, d \in Targets :
            th' = [th EXCEPT ![t] = [Idle EXCEPT !.pc = "src", !.op = op, !.src = s, !.des = d,
                      !.late = \E id \in {s, d} : index[id] # NoVertex /\ ~Live(index[id])]]
      BY <1>1 DEF BeginWrite
  <2>2. PICK late \in BOOLEAN : late = \E id \in {s, d} : index[id] # NoVertex /\ ~Live(index[id])
      OBVIOUS
  <2> DEFINE l == [Idle EXCEPT !.pc = "src", !.op = op, !.src = s, !.des = d, !.late = late]
  <2>3. s \in Nat /\ d \in Nat
      BY RadixGraphAssumption DEF Ids
  <2>4. l \in Locals /\ l.pc = "src" /\ l.op = op /\ l.src = s /\ l.des = d /\ l.late = late
      BY <2>3, IdleIsLocal DEF Locals, Pcs
  <2>5. th' = [th EXCEPT ![t] = l]
      BY <2>1, <2>2
  <2> HIDE DEF l
  <2>6. late => Dead(s)' \/ Dead(d)'
      BY <1>1, <2>2 DEF BeginWrite, Dead, Live, Vertex
  <2>7. Late(l)'
      BY <2>4, <2>6 DEF Late
  <2>8. QED BY <2>4, <2>5, <2>7, LateStep
<1>2. CASE BeginDelete(t)
  <2>1. PICK id \in Ids :
            th' = [th EXCEPT ![t] = IF index[id] = NoVertex THEN Idle
                                    ELSE [Idle EXCEPT !.pc = "mark", !.op = "delvertex",
                                                      !.v = index[id], !.ts = clock]]
      BY <1>2 DEF BeginDelete
  <2>2. PICK v \in Nat \cup {NoVertex}, now \in Nat : v = index[id] /\ now = clock
      BY ThreadFacts
  <2> DEFINE l == [Idle EXCEPT !.pc = "mark", !.op = "delvertex", !.v = v, !.ts = now]
  <2>3. l \in Locals /\ l.late = FALSE /\ Idle.late = FALSE
      BY IdleIsLocal DEF Locals, Pcs, Idle
  <2>4. th' = [th EXCEPT ![t] = l] \/ th' = [th EXCEPT ![t] = Idle]
      BY <2>1, <2>2
  <2> HIDE DEF l
  <2>5. Late(l)' /\ Late(Idle)'
      BY <2>3, LateWhenTold
  <2>6. QED BY <2>3, <2>4, <2>5, IdleIsLocal, LateStep
<1>3. CASE BeginRead(t)
  <2>1. PICK s \in Sources, i \in 0 .. GetNumVertices, byOffset \in BOOLEAN,
             ts \in {u \in Times : u < clock} \cup {Forever} :
            th' = [th EXCEPT ![t] = [Idle EXCEPT !.pc = "find", !.op = "read", !.ts = ts,
                         !.v = IF byOffset THEN (IF i < GetNumVertices THEN i ELSE NoVertex)
                               ELSE index[s]]]
      BY <1>3 DEF BeginRead
  <2>2. PICK v \in Nat \cup {NoVertex} :
            v = IF byOffset THEN (IF i < GetNumVertices THEN i ELSE NoVertex) ELSE index[s]
    <3>1. i \in Nat
        BY ThreadFacts DEF GetNumVertices
    <3>2. index[s] \in Nat \cup {NoVertex}
        BY ThreadFacts DEF Ids
    <3>3. QED BY <3>1, <3>2
  <2>3. ts \in Nat
      BY RadixGraphAssumption DEF Forever
  <2> DEFINE l == [Idle EXCEPT !.pc = "find", !.op = "read", !.ts = ts, !.v = v]
  <2>4. l \in Locals /\ l.late = FALSE
      BY <2>3, IdleIsLocal DEF Locals, Pcs, Idle
  <2>5. th' = [th EXCEPT ![t] = l]
      BY <2>1, <2>2
  <2> HIDE DEF l
  <2>6. Late(l)'
      BY <2>4, LateWhenTold
  <2>7. QED BY <2>4, <2>5, <2>6, LateStep
<1>4. QED BY <1>1, <1>2, <1>3

\* A call ends.
LEMMA EndLate ==
    ASSUME Shape, Shape', VerticesStay, Lateness, NEW t \in Threads, th' = [th EXCEPT ![t] = Idle]
    PROVE  Lateness'
    BY IdleIsLocal, LateStep DEF Late

LEMMA LookupLate ==
    ASSUME Shape, Shape', VerticesStay, Lateness, NEW t \in Threads, FindSrc(t) \/ FindDes(t)
    PROVE  Lateness'
<1>1. PICK k \in Locals : k = th[t] /\ Placed(t, k) /\ Late(k)
    BY ThreadFacts DEF Lateness
<1>2. k.pc \in {"src", "des"} /\ k.src \in Ids /\ k.des \in Ids /\ k.op \in {"insert", "update", "delete"}
    BY <1>1 DEF FindSrc, FindDes, Placed
<1>3. CASE th' = [th EXCEPT ![t] = Idle]
    BY <1>3, EndLate
<1>4. CASE FindSrc(t) /\ Usable(t, index'[k.src])
  <2>1. PICK v \in Nat \cup {NoVertex} : v = index'[k.src]
      BY <1>2 DEF Shape, Types
  <2> DEFINE l == [k EXCEPT !.pc = "des", !.v = v]
  <2>2. l \in Locals /\ l.pc = "des" /\ l.op = k.op /\ l.late = k.late /\ l.des = k.des
      BY DEF Locals, Pcs
  <2>3. th' = [th EXCEPT ![t] = l]
      BY <1>1, <1>4, <2>1 DEF FindSrc
  <2> HIDE DEF l
  <2>4. k.op # "insert" => ~Dead(k.src)
      BY <1>1, <1>2, <1>4, LookupMeets DEF FindSrc
  <2>5. k.op # "insert" /\ k.late => Dead(k.des)
      BY <1>1, <1>2, <1>4, <2>4 DEF Late, FindSrc
  <2>6. k.op # "insert" /\ k.late => Dead(k.des)'
      BY <1>2, <2>5, DeadStays
  <2>7. Late(l)'
      BY <1>2, <2>2, <2>6 DEF Late
  <2>8. QED BY <2>2, <2>3, <2>7, LateStep
<1>5. CASE FindDes(t) /\ Usable(t, index'[k.des])
  <2>1. PICK d \in Nat \cup {NoVertex} : d = index'[k.des]
      BY <1>2 DEF Shape, Types
  <2> DEFINE l == [k EXCEPT !.pc = "append", !.d = d]
  <2>2. l \in Locals /\ l.pc = "append" /\ l.op = k.op /\ l.late = k.late
      BY DEF Locals, Pcs
  <2>3. th' = [th EXCEPT ![t] = l]
      BY <1>1, <1>5, <2>1 DEF FindDes
  <2> HIDE DEF l
  <2>4. k.op # "insert" => ~Dead(k.des)
      BY <1>1, <1>2, <1>5, LookupMeets DEF FindDes
  <2>5. ~(k.op # "insert" /\ k.late)
      BY <1>1, <1>2, <1>5, <2>4 DEF Late, FindDes
  <2>6. Late(l)'
      BY <1>2, <2>2, <2>5 DEF Late
  <2>7. QED BY <2>2, <2>3, <2>6, LateStep
<1>6. QED BY <1>1, <1>3, <1>4, <1>5 DEF FindSrc, FindDes

LEMMA FindVertexLate ==
    ASSUME Shape, Shape', VerticesStay, Refusals, Lateness, NEW t \in Threads, FindVertex(t)
    PROVE  Lateness'
<1>1. PICK k \in Locals : k = th[t] /\ Placed(t, k)
    BY ThreadFacts
<1>2. CASE th' = [th EXCEPT ![t] = Idle]
    BY <1>2, EndLate
<1>3. CASE /\ th[t].v # NoVertex
           /\ Live(th[t].v) \/ th[t].ts < Vertex(th[t].v).del
           /\ th' = [th EXCEPT ![t].pc = "pin", ![t].late = <<th[t].v, th[t].ts>> \in refused]
  <2>1. PICK v \in Offsets : v = k.v
      BY <1>1, <1>3 DEF Placed
  <2>2. PICK ts \in Nat : ts = k.ts
      BY DEF Locals
  <2>3. PICK late : late = (<<v, ts>> \in refused)
      OBVIOUS
  <2>b. late \in BOOLEAN
      BY <2>3
  <2> DEFINE l == [k EXCEPT !.pc = "pin", !.late = late]
  <2>4. l \in Locals /\ l.pc = "pin" /\ l.v = v /\ l.ts = ts /\ l.late = late
      BY <2>1, <2>2, <2>b DEF Locals, Pcs
  <2>5. th' = [th EXCEPT ![t] = l]
      BY <1>1, <1>3, <2>1, <2>2, <2>3
  <2> HIDE DEF l
  <2>6. late => v \in twice \/ Hidden(v, ts)
      BY <2>1, <2>3, VertexFacts DEF Refusals
  <2>7. Vertex(v).del \in Int /\ (Live(v) \/ ~(ts >= Vertex(v).del))
      BY <1>1, <1>3, <2>1, <2>2, VertexFacts DEF NoTime
  <2>8. late => v \in twice \/ Vertex(v).arr.snapTs > ts
      BY <2>6, <2>7 DEF Hidden
  <2>9. late => v \in twice' \/ Vertex(v)'.arr.snapTs > ts
      BY <2>8, DeadStays DEF VerticesStay
  <2>10. Late(l)'
      BY <2>4, <2>9 DEF Late
  <2>11. QED BY <2>4, <2>5, <2>10, LateStep
<1>4. QED BY <1>2, <1>3 DEF FindVertex, Refuse

\* A reader goes on with the same call.
LEMMA ReaderLate ==
    ASSUME Shape, Shape', VerticesStay, Lateness, NEW t \in Threads, NEW l \in Locals,
           th' = [th EXCEPT ![t] = l], l.pc \in {"scan", "clear", "done"},
           l.late => l.v \in twice
    PROVE  Lateness'
<1>1. Late(l)'
    BY DEF Late, VerticesStay
<1>2. QED BY <1>1, LateStep

LEMMA PinLate ==
    ASSUME Shape, Shape', VerticesStay, Lateness, NEW t \in Threads, Pin(t)
    PROVE  Lateness'
<1>1. PICK k \in Locals : k = th[t] /\ Placed(t, k) /\ Late(k)
    BY ThreadFacts DEF Lateness
<1>2. CASE th' = [th EXCEPT ![t] = Idle]
    BY <1>2, EndLate
<1>3. CASE ~(Vertex(th[t].v).arr.snapTs > th[t].ts) /\ th' # [th EXCEPT ![t] = Idle]
  <2>1. PICK l : l = th'[t] /\ th' = [th EXCEPT ![t] = l]
    <3>1. \E l : th' = [th EXCEPT ![t] = l]
        BY <1>3 DEF Pin
    <3>2. t \in DOMAIN th
        BY DEF Shape, Types
    <3>3. QED BY <3>1, <3>2
  <2>2. l \in Locals
      BY <2>1 DEF Shape, Types
  <2>3. l.pc \in {"done", "scan"} /\ l.v = k.v /\ l.late = k.late
    <3>a. PICK a : a = Vertex(th[t].v).arr
        OBVIOUS
    <3>b. PICK n, m : n = LastVisible(a, th[t].ts) /\ m = Len(hist[th[t].v + 1])
        OBVIOUS
    <3>c. PICK pc, got : /\ pc = IF n = a.snapDeg THEN "done" ELSE "scan"
                         /\ got = IF n = a.snapDeg THEN SubSeq(a.log, 1, n) ELSE <<>>
        OBVIOUS
    <3>1. /\ th' = [th EXCEPT ![t].arr = a, ![t].cnt = n, ![t].seen = m, ![t].pc = pc,
                              ![t].pos = n, ![t].got = got]
          /\ pc \in {"done", "scan"}
        BY <1>3, <3>a, <3>b, <3>c DEF Pin
    <3>2. l = [k EXCEPT !.arr = a, !.cnt = n, !.seen = m, !.pc = pc, !.pos = n, !.got = got]
        BY <1>1, <2>1, <3>1 DEF Shape, Types
    <3>3. QED BY <3>1, <3>2 DEF Locals
  <2>4. k.late => k.v \in twice
      BY <1>1, <1>3 DEF Late, Pin
  <2>5. QED BY <2>1, <2>2, <2>3, <2>4, ReaderLate
<1>4. QED BY <1>2, <1>3 DEF Pin, Refuse

LEMMA ReadLate ==
    ASSUME Shape, Shape', VerticesStay, Lateness, NEW t \in Threads, Scan(t) \/ Clear(t)
    PROVE  Lateness'
<1>1. PICK k \in Locals : k = th[t] /\ Placed(t, k) /\ Late(k)
    BY ThreadFacts DEF Lateness
<1>2. PICK l : l = th'[t] /\ th' = [th EXCEPT ![t] = l]
  <2>1. \E l : th' = [th EXCEPT ![t] = l]
      BY DEF Scan, Clear, Goto
  <2>2. t \in DOMAIN th
      BY DEF Shape, Types
  <2>3. QED BY <2>1, <2>2
<1>3. l \in Locals
    BY <1>2 DEF Shape, Types
<1>4. l.pc \in {"scan", "clear", "done"} /\ l.v = k.v /\ l.late = k.late
  <2>1. CASE Clear(t)
    <3>1. l = [k EXCEPT !.pc = "done"]
        BY <1>1, <1>2, <2>1 DEF Clear, Goto, Shape, Types
    <3>2. QED BY <3>1 DEF Locals
  <2>2. CASE Scan(t)
    <3>1. PICK got, i, pc :
             /\ th' = [th EXCEPT ![t].got = got, ![t].pos = i, ![t].pc = pc]
             /\ pc \in {"scan", "clear"}
        BY <2>2 DEF Scan
    <3>2. l = [k EXCEPT !.got = got, !.pos = i, !.pc = pc]
        BY <1>1, <1>2, <3>1 DEF Shape, Types
    <3>3. QED BY <3>1, <3>2 DEF Locals
  <2>3. QED BY <2>1, <2>2
<1>5. k.late => k.v \in twice
    BY <1>1 DEF Late, Scan, Clear
<1>6. QED BY <1>2, <1>3, <1>4, <1>5, ReaderLate

LEMMA NextLateness ==
    ASSUME Shape, Shape', Refusals, Lateness, [Next]_vars
    PROVE  Lateness'
<1>1. VerticesStay
    BY NextVertices
<1>2. CASE th' = th
  <2>1. ASSUME NEW u \in Threads
        PROVE  Late(th[u])'
    <3>1. PICK k \in Locals : k = th[u] /\ k = th'[u] /\ Placed(u, k) /\ Late(k)
        BY <1>2, ThreadFacts DEF Lateness
    <3>2. Late(k)'
        BY <1>1, <3>1, LateStays
    <3>3. QED BY <3>1, <3>2
  <2>2. QED BY <2>1 DEF Lateness
<1>3. ASSUME NEW t \in Threads, Insert(t) \/ Mark(t) \/ ReturnEdges(t)
      PROVE  Lateness'
    BY <1>1, <1>3, EndLate DEF Insert, Mark, ReturnEdges
<1>4. ASSUME NEW t \in Threads, BeginWrite(t) \/ BeginDelete(t) \/ BeginRead(t) \/ Step(t)
      PROVE  Lateness'
    BY <1>1, <1>2, <1>3, <1>4, BeginLate, LookupLate, FindVertexLate, PinLate, ReadLate
       DEF Step, Compact
<1>5. QED BY <1>2, <1>4 DEF Next, Done, vars, CreateSnapshots, SetNumThreads

LEMMA InitLateness ==
    ASSUME Init
    PROVE  Refusals /\ Lateness
    BY DEF Init, Refusals, Lateness, Late, Idle

\* A vertex that a read at some time was refused is refused at that time ever after, unless
\* it is deleted twice: insertions at a deleted vertex and compactions do not make it
\* readable again (radixgraph.cpp:99-127, sort.cpp:237).
THEOREM RefusalsStand == Spec => []RefusedForGood
<1>1. Lateness => RefusedForGood
    BY DEF Lateness, Late, RefusedForGood
<1>2. QED BY <1>1, InitShape, NextShape, InitLateness, NextRefusals, NextLateness, PTL DEF Spec

\* An update or a deletion that began after one of its vertices was deleted appends nothing.
THEOREM UpdatesMeetLive == Spec => UpdatesFindLive
<1>1. ASSUME Shape, Lateness
      PROVE  \A t \in Threads :
                (th[t].pc = "append" /\ th'[t].pc # "append" /\ th[t].op # "insert") => ~th[t].late
    BY <1>1, ThreadFacts DEF Lateness, Late, Placed
<1>2. QED BY <1>1, InitShape, NextShape, InitLateness, NextRefusals, NextLateness, PTL
          DEF Spec, UpdatesFindLive

-----------------------------------------------------------------------------
(* The duplicate checkers. *)

InBounds(b) == \A d \in b.bits : d < Size(b, L)

\* The bits that a thread with the local state l has set.
MarkedBy(l) ==
    IF l.pc \notin {"scan", "clear"} THEN {}
    ELSE {l.arr.log[i].idx : i \in {j \in (l.arr.snapDeg + 1) .. l.cnt : j > l.pos}}

\* A bitmap holds what its thread has marked, and a scan stops at the first entry.
Marks ==
    /\ \A n \in 0 .. (numThreads - 1) :
          /\ InBounds(bitmap[n])
          /\ bitmap[n].bits = IF n \in Threads THEN MarkedBy(th[n]) ELSE {}
    /\ \A t \in Threads : th[t].pc = "clear" => th[t].pos = 0

\* A step of thread t that leaves the bitmaps of the others alone.
LEMMA MarksStep ==
    ASSUME Shape, Marks, NEW t \in Threads, NEW l, th' = [th EXCEPT ![t] = l],
           numThreads' = numThreads,
           \A n \in 0 .. (numThreads - 1) : n # t => bitmap'[n] = bitmap[n],
           t \in 0 .. (numThreads - 1) =>
              \A b : b = bitmap'[t] => InBounds(b) /\ b.bits = MarkedBy(l),
           l.pc = "clear" => l.pos = 0
    PROVE  Marks'
<1>1. th \in [Threads -> Locals]
    BY DEF Shape, Types
<1>2. ASSUME NEW n \in 0 .. (numThreads - 1)
      PROVE  /\ \A b : b = bitmap'[n] => InBounds(b)
             /\ bitmap'[n].bits = IF n \in Threads THEN MarkedBy(th'[n]) ELSE {}
  <2>1. CASE n = t
      BY <1>1, <2>1
  <2>2. CASE n # t
      BY <1>1, <2>2 DEF Marks
  <2>3. QED BY <2>1, <2>2
<1>3. \A u \in Threads : th'[u].pc = "clear" => th'[u].pos = 0
    BY <1>1 DEF Marks
<1>4. QED BY <1>2, <1>3 DEF Marks, InBounds, MarkedBy

\* A step that leaves the bitmaps alone and takes t from one unmarked state to another.
LEMMA UnmarkedStep ==
    ASSUME Shape, Marks, NEW t \in Threads, NEW l, th' = [th EXCEPT ![t] = l],
           UNCHANGED <<numThreads, bitmap>>, MarkedBy(th[t]) = {}, MarkedBy(l) = {}, l.pc # "clear"
    PROVE  Marks'
<1>1. \A n \in 0 .. (numThreads - 1) : bitmap'[n] = bitmap[n]
    OBVIOUS
<1>2. t \in 0 .. (numThreads - 1) => InBounds(bitmap[t]) /\ bitmap[t].bits = MarkedBy(l)
    BY DEF Marks
<1>3. QED BY <1>1, <1>2, MarksStep

LEMMA OutsideScan ==
    ASSUME NEW l, l.pc \notin {"scan", "clear"}
    PROVE  MarkedBy(l) = {}
    BY DEF MarkedBy

\* A step that neither scans nor begins or ends a scan.
LEMMA QuietLocal ==
    ASSUME Shape, NEW t \in Threads,
           BeginWrite(t) \/ BeginDelete(t) \/ BeginRead(t) \/ FindSrc(t) \/ FindDes(t)
              \/ Insert(t) \/ Mark(t) \/ FindVertex(t) \/ ReturnEdges(t)
    PROVE  \E l : th' = [th EXCEPT ![t] = l] /\ l.pc \notin {"scan", "clear", "done"}
<1>a. PICK k \in Locals : k = th[t]
    BY ThreadFacts
<1>1. Idle.pc = "idle"
    BY IdleIsLocal
<1>2. CASE th' = [th EXCEPT ![t] = Idle]
    BY <1>1, <1>2
<1>3. CASE BeginWrite(t)
  <2>a. PICK op \in {"insert", "update", "delete"}, s \in Sources, d \in Targets :
            th' = [th EXCEPT ![t] = [Idle EXCEPT !.pc = "src", !.op = op, !.src = s, !.des = d,
                      !.late = \E id \in {s, d} : index[id] # NoVertex /\ ~Live(index[id])]]
      BY <1>3 DEF BeginWrite
  <2>b. PICK late : late = \E id \in {s, d} : index[id] # NoVertex /\ ~Live(index[id])
      OBVIOUS
  <2>1. th' = [th EXCEPT ![t] = [Idle EXCEPT !.pc = "src", !.op = op, !.src = s, !.des = d,
                                             !.late = late]]
      BY <2>a, <2>b
  <2>2. [Idle EXCEPT !.pc = "src", !.op = op, !.src = s, !.des = d, !.late = late].pc = "src"
      BY DEF Idle
  <2>3. QED BY <2>1, <2>2
<1>4. CASE BeginDelete(t)
  <2>1. PICK v :
            \/ th' = [th EXCEPT ![t] = Idle]
            \/ th' = [th EXCEPT ![t] = [Idle EXCEPT !.pc = "mark", !.op = "delvertex", !.v = v,
                                                    !.ts = clock]]
      BY <1>4 DEF BeginDelete
  <2>2. [Idle EXCEPT !.pc = "mark", !.op = "delvertex", !.v = v, !.ts = clock].pc = "mark"
      BY DEF Idle
  <2>3. QED BY <1>2, <2>1, <2>2
<1>5. CASE BeginRead(t)
  <2>1. PICK ts, v :
            th' = [th EXCEPT ![t] = [Idle EXCEPT !.pc = "find", !.op = "read", !.ts = ts, !.v = v]]
      BY <1>5 DEF BeginRead
  <2>2. [Idle EXCEPT !.pc = "find", !.op = "read", !.ts = ts, !.v = v].pc = "find"
      BY DEF Idle
  <2>3. QED BY <2>1, <2>2
<1>6. CASE FindSrc(t)
  <2>1. PICK v : th' = [th EXCEPT ![t] = Idle]
                 \/ th' = [th EXCEPT ![t] = [k EXCEPT !.pc = "des", !.v = v]]
      BY <1>a, <1>6 DEF FindSrc
  <2>2. [k EXCEPT !.pc = "des", !.v = v].pc = "des"
      BY DEF Locals
  <2>3. QED BY <1>2, <2>1, <2>2
<1>7. CASE FindDes(t)
  <2>1. PICK v : th' = [th EXCEPT ![t] = Idle]
                 \/ th' = [th EXCEPT ![t] = [k EXCEPT !.pc = "append", !.d = v]]
      BY <1>a, <1>7 DEF FindDes
  <2>2. [k EXCEPT !.pc = "append", !.d = v].pc = "append"
      BY DEF Locals
  <2>3. QED BY <1>2, <2>1, <2>2
<1>8. CASE FindVertex(t)
  <2>1. PICK late : th' = [th EXCEPT ![t] = Idle]
                    \/ th' = [th EXCEPT ![t].pc = "pin", ![t].late = late]
      BY <1>8 DEF FindVertex, Refuse
  <2>2. [k EXCEPT !.pc = "pin", !.late = late].pc = "pin"
      BY DEF Locals
  <2>3. [th EXCEPT ![t].pc = "pin", ![t].late = late]
           = [th EXCEPT ![t] = [k EXCEPT !.pc = "pin", !.late = late]]
      BY <1>a
  <2>4. QED BY <1>2, <2>1, <2>2, <2>3
<1>9. QED BY <1>2, <1>3, <1>4, <1>5, <1>6, <1>7, <1>8 DEF Insert, Mark, ReturnEdges

\* The steps from and to a state outside the scan.
LEMMA QuietMarks ==
    ASSUME Shape, Marks, NEW t \in Threads,
           BeginWrite(t) \/ BeginDelete(t) \/ BeginRead(t) \/ FindSrc(t) \/ FindDes(t)
              \/ Insert(t) \/ Mark(t) \/ FindVertex(t) \/ ReturnEdges(t)
    PROVE  Marks'
<1>1. UNCHANGED <<numThreads, bitmap>>
    BY DEF BeginWrite, BeginDelete, BeginRead, FindSrc, FindDes, Insert, Mark, FindVertex,
           ReturnEdges, settings
<1>2. th[t].pc \notin {"scan", "clear"}
    BY DEF BeginWrite, BeginDelete, BeginRead, MayStart, FindSrc, FindDes, Insert, Mark,
           FindVertex, ReturnEdges
<1>3. PICK l : th' = [th EXCEPT ![t] = l] /\ l.pc \notin {"scan", "clear"}
    BY QuietLocal
<1>4. MarkedBy(th[t]) = {} /\ MarkedBy(l) = {}
    BY <1>2, <1>3, OutsideScan
<1>5. QED BY <1>1, <1>3, <1>4, UnmarkedStep

LEMMA PinMarks ==
    ASSUME Shape, Marks, NEW t \in Threads, Pin(t)
    PROVE  Marks'
<1>1. PICK k \in Locals : k = th[t] /\ Placed(t, k)
    BY ThreadFacts
<1>2. UNCHANGED <<numThreads, bitmap>> /\ th[t].pc = "pin"
    BY DEF Pin, settings
<1>3. MarkedBy(th[t]) = {}
    BY <1>2, OutsideScan
<1>4. CASE th' = [th EXCEPT ![t] = Idle]
  <2>1. MarkedBy(Idle) = {} /\ Idle.pc = "idle"
      BY IdleIsLocal, OutsideScan
  <2>2. QED BY <1>2, <1>3, <1>4, <2>1, UnmarkedStep
<1>5. CASE th' # [th EXCEPT ![t] = Idle]
  <2>1. PICK a : a = Vertex(th[t].v).arr
      OBVIOUS
  <2>2. PICK n, m : n = LastVisible(a, th[t].ts) /\ m = Len(hist[th[t].v + 1])
      OBVIOUS
  <2>3. PICK pc, got : /\ pc = IF n = a.snapDeg THEN "done" ELSE "scan"
                       /\ got = IF n = a.snapDeg THEN SubSeq(a.log, 1, n) ELSE <<>>
      OBVIOUS
  <2>4. th' = [th EXCEPT ![t].arr = a, ![t].cnt = n, ![t].seen = m, ![t].pc = pc,
                         ![t].pos = n, ![t].got = got]
        /\ pc \in {"done", "scan"}
      BY <1>5, <2>1, <2>2, <2>3 DEF Pin, Refuse
  <2>5. n \in Int
    <3>1. PICK v \in Offsets : v = k.v
        BY <1>1, <1>2 DEF Placed
    <3>2. a \in EdgeArrays /\ Fits(a)
        BY <1>1, <2>1, <3>1, VertexFacts
    <3>3. k.ts \in Nat /\ a.snapDeg <= Len(a.log)
        BY <3>2 DEF Fits, Locals
    <3>4. QED BY <1>1, <2>2, <3>2, <3>3, LastVisibleSound
  <2> DEFINE l == [k EXCEPT !.arr = a, !.cnt = n, !.seen = m, !.pc = pc, !.pos = n, !.got = got]
  <2>6. l.pc = pc /\ l.arr = a /\ l.cnt = n /\ l.pos = n
      BY DEF Locals
  <2>7. th' = [th EXCEPT ![t] = l]
      BY <1>1, <2>4
  <2> HIDE DEF l
  <2>8. MarkedBy(l) = {}
    <3>1. {j \in (a.snapDeg + 1) .. n : j > n} = {}
        BY <2>5
    <3>2. QED BY <2>6, <3>1 DEF MarkedBy
  <2>9. QED BY <1>2, <1>3, <2>4, <2>6, <2>7, <2>8, UnmarkedStep
<1>6. QED BY <1>4, <1>5

LEMMA ScanMarks ==
    ASSUME Shape, Marks, NEW t \in Threads, Scan(t)
    PROVE  Marks'
<1>1. PICK k \in Locals : k = th[t] /\ Placed(t, k)
    BY ThreadFacts
<1>2. k.pc = "scan" /\ t \in 0 .. (numThreads - 1) /\ k.arr \in EdgeArrays
      /\ k.cnt \in Nat /\ k.pos \in 1 .. k.cnt /\ k.cnt <= Len(k.arr.log) /\ k.arr.log \in Seq(Entries)
      /\ k.arr.snapDeg \in Nat
    BY <1>1 DEF Scan, Placed, Locals, EdgeArrays
<1>3. PICK i \in 1 .. Len(k.arr.log) : i = k.pos
    BY <1>2
<1>4. PICK e \in Entries : e = k.arr.log[i]
    BY <1>2, ElementOfSeq
<1>5. PICK b \in Bitmaps : b = bitmap[t]
    BY <1>2, ThreadFacts
<1>6. PICK new \in BOOLEAN : new = ~GetBit(b, e.idx, L)
    OBVIOUS
<1>7. PICK got : got = IF new /\ e.weight # 0 THEN Append(k.got, e) ELSE k.got
    OBVIOUS
<1>8. PICK pc \in {"clear", "scan"} : pc = IF i = 1 THEN "clear" ELSE "scan"
    OBVIOUS
<1> DEFINE l == [k EXCEPT !.got = got, !.pos = i - 1, !.pc = pc]
<1>9. l.pc = pc /\ l.arr = k.arr /\ l.cnt = k.cnt /\ l.pos = i - 1
    BY DEF Locals
<1>10. th' = [th EXCEPT ![t] = l]
  <2>1. th' = [th EXCEPT ![t].got = got, ![t].pos = i - 1, ![t].pc = pc]
      BY <1>1, <1>3, <1>4, <1>5, <1>6, <1>7, <1>8 DEF Scan, BitmapOf
  <2>2. QED BY <1>1, <2>1
<1> HIDE DEF l
<1>11. InBounds(b) /\ b.bits = MarkedBy(k)
    BY <1>1, <1>2, <1>5 DEF Marks
<1>12. new <=> e.idx \notin b.bits
    BY <1>6, <1>11 DEF GetBit, InBounds
<1>13. PICK c : c = IF new /\ i > k.arr.snapDeg THEN SetBit(b, e.idx, L) ELSE b
    OBVIOUS
<1>14. bitmap' = [bitmap EXCEPT ![t] = c] /\ numThreads' = numThreads
  <2>1. bitmap' = IF new /\ i > k.arr.snapDeg
                  THEN [bitmap EXCEPT ![t] = SetBit(bitmap[t], e.idx, L)] ELSE bitmap
      BY <1>1, <1>3, <1>4, <1>5, <1>6 DEF Scan, BitmapOf
  <2>2. bitmap = [bitmap EXCEPT ![t] = bitmap[t]]
      BY <1>2, ThreadFacts
  <2>3. CASE new /\ i > k.arr.snapDeg
      BY <1>5, <1>13, <2>1, <2>3 DEF Scan, settings
  <2>4. CASE ~(new /\ i > k.arr.snapDeg)
      BY <1>5, <1>13, <2>1, <2>2, <2>4 DEF Scan, settings
  <2>5. QED BY <2>3, <2>4
<1>15. c.bits = MarkedBy(l)
  <2>1. MarkedBy(k) = {k.arr.log[j].idx : j \in {j \in (k.arr.snapDeg + 1) .. k.cnt : j > i}}
      BY <1>2, <1>3 DEF MarkedBy
  <2>2. MarkedBy(l) = {k.arr.log[j].idx : j \in {j \in (k.arr.snapDeg + 1) .. k.cnt : j > i - 1}}
      BY <1>8, <1>9 DEF MarkedBy
  <2>3. CASE i > k.arr.snapDeg
    <3>1. {j \in (k.arr.snapDeg + 1) .. k.cnt : j > i - 1}
             = {j \in (k.arr.snapDeg + 1) .. k.cnt : j > i} \cup {i}
        BY <1>2, <1>3, <2>3
    <3>2. MarkedBy(l) = MarkedBy(k) \cup {e.idx}
        BY <1>4, <2>1, <2>2, <3>1
    <3>3. c.bits = b.bits \cup {e.idx}
        BY <1>12, <1>13, <2>3 DEF SetBit
    <3>4. QED BY <1>11, <3>2, <3>3
  <2>4. CASE ~(i > k.arr.snapDeg)
    <3>1. {j \in (k.arr.snapDeg + 1) .. k.cnt : j > i - 1}
             = {j \in (k.arr.snapDeg + 1) .. k.cnt : j > i}
        BY <1>2, <1>3, <2>4
    <3>2. QED BY <1>11, <1>13, <2>1, <2>2, <2>4, <3>1
  <2>5. QED BY <2>3, <2>4
<1>16. InBounds(c)
  <2>1. CASE c = b
      BY <1>11, <2>1
  <2>2. CASE c = SetBit(b, e.idx, L)
    <3>1. e.idx \in Nat
        BY DEF Entries
    <3>2. {} \in SUBSET Nat /\ \A p \in {} : p <= 0
        OBVIOUS
    <3>3. SetBits(b, {}, L) = b /\ SetBits(b, {e.idx}, L) = SetBit(b, e.idx, L)
      <4>1. SetBits(b, {}, L) = b /\ SetBits(b, {} \cup {e.idx}, L) = SetBit(SetBits(b, {}, L), e.idx, L)
          BY <3>1, <3>2, OneBitMore
      <4>2. {} \cup {e.idx} = {e.idx}
          OBVIOUS
      <4>3. QED BY <4>1, <4>2
    <3>4. /\ c.bits = b.bits \cup {e.idx} /\ e.idx < Size(c, L)
          /\ \A p \in Nat : p < Size(b, L) => p < Size(c, L)
      <4>1. {e.idx} \in SUBSET Nat /\ \A p \in {e.idx} : p <= e.idx
          BY <3>1
      <4>2. QED BY <2>2, <3>1, <3>3, <4>1, SetBitsSound
    <3>5. QED BY <1>11, <3>4 DEF InBounds, Bitmaps
  <2>3. QED BY <1>13, <2>1, <2>2
<1>17. \A n \in 0 .. (numThreads - 1) : n # t => bitmap'[n] = bitmap[n]
    BY <1>14
<1>18. bitmap'[t] = c
    BY <1>2, <1>14, ThreadFacts
<1>19. l.pc = "clear" => l.pos = 0
    BY <1>8, <1>9
<1>20. QED BY <1>10, <1>14, <1>15, <1>16, <1>17, <1>18, <1>19, MarksStep

LEMMA ClearMarks ==
    ASSUME Shape, Marks, NEW t \in Threads, Clear(t)
    PROVE  Marks'
<1>1. PICK k \in Locals : k = th[t] /\ Placed(t, k)
    BY ThreadFacts
<1>2. k.pc = "clear" /\ t \in 0 .. (numThreads - 1) /\ k.arr \in EdgeArrays /\ k.pos = 0
      /\ k.arr.snapDeg \in Nat
    BY <1>1 DEF Clear, Placed, Marks, EdgeArrays
<1>3. PICK b \in Bitmaps : b = bitmap[t]
    BY <1>2, ThreadFacts
<1>4. InBounds(b) /\ b.bits = MarkedBy(k)
    BY <1>1, <1>2, <1>3 DEF Marks
<1> DEFINE l == [k EXCEPT !.pc = "done"]
<1>5. l.pc = "done"
    BY DEF Locals
<1>6. th' = [th EXCEPT ![t] = l]
    BY <1>1 DEF Clear, Goto
<1> HIDE DEF l
<1>7. PICK P : P = Logged(k.arr, k.cnt)
    OBVIOUS
<1>8. PICK c : c = ClearBits(b, P, L)
    OBVIOUS
<1>9. bitmap' = [bitmap EXCEPT ![t] = c] /\ numThreads' = numThreads
    BY <1>1, <1>3, <1>7, <1>8 DEF Clear, BitmapOf, Unmarked, settings
<1>10. b.bits = P
  <2>1. {j \in (k.arr.snapDeg + 1) .. k.cnt : j > 0} = (k.arr.snapDeg + 1) .. k.cnt
      BY <1>2 DEF Locals
  <2>2. QED BY <1>2, <1>4, <1>7, <2>1 DEF MarkedBy, Logged
<1>11. c.bits = {}
  <2>1. c.bits = {p \in b.bits : p >= Size(b, L) \/ p \notin P}
      BY <1>8 DEF ClearBits, Bitmaps
  <2>2. Size(b, L) \in Nat /\ \A p \in b.bits : p \in Nat /\ p < Size(b, L)
      BY <1>4, RadixGraphAssumption DEF Size, Bitmaps, InBounds
  <2>3. QED BY <1>10, <2>1, <2>2
<1>12. \A n \in 0 .. (numThreads - 1) : n # t => bitmap'[n] = bitmap[n]
    BY <1>9
<1>13. bitmap'[t] = c
    BY <1>2, <1>9, ThreadFacts
<1>14. MarkedBy(l) = {}
    BY <1>5, OutsideScan
<1>15. QED BY <1>5, <1>6, <1>9, <1>11, <1>12, <1>13, <1>14, MarksStep DEF InBounds

LEMMA CompactMarks ==
    ASSUME Shape, Marks, NEW t \in Threads, Compact(t)
    PROVE  Marks'
<1>1. PICK v \in Offsets, w \in Vertices, a \in EdgeArrays, b \in Bitmaps, want \in Nat,
           c \in EdgeArrays : CompactStep(t, v, w, a, b, want, c)
    BY CompactStores
<1>2. t \in 0 .. (numThreads - 1) /\ b = bitmap[t] /\ Fits(a)
      /\ bitmap' = [bitmap EXCEPT ![t] = Swept(b, a)] /\ th' = th /\ numThreads' = numThreads
    BY <1>1 DEF CompactStep, settings
<1>3. PICK k \in Locals : k = th[t] /\ k.pc = "append"
    BY ThreadFacts DEF Compact
<1>4. MarkedBy(k) = {}
    BY <1>3, OutsideScan
<1>5. b.bits = {}
    BY <1>2, <1>3, <1>4 DEF Marks
<1>6. PICK d \in Bitmaps : d = Swept(b, a) /\ d.bits = {}
    BY <1>2, <1>5, SweptSound, ThreadFacts
<1>7. th' = [th EXCEPT ![t] = k]
    BY <1>2, <1>3, ThreadFacts DEF Shape, Types
<1>8. \A n \in 0 .. (numThreads - 1) : n # t => bitmap'[n] = bitmap[n]
    BY <1>2
<1>9. bitmap'[t] = d
    BY <1>2, <1>6, ThreadFacts
<1>10. QED BY <1>2, <1>3, <1>4, <1>6, <1>7, <1>8, <1>9, MarksStep DEF InBounds

\* All threads are idle and all bitmaps are clear.
LEMMA IdleMarks ==
    ASSUME AllIdle', \A n \in 0 .. (numThreads' - 1) : bitmap'[n].bits = {}
    PROVE  Marks'
<1>1. \A t \in Threads : th'[t].pc = "idle"
    BY DEF AllIdle
<1>2. \A t \in Threads : MarkedBy(th[t])' = {}
    BY <1>1 DEF MarkedBy
<1>3. \A n \in 0 .. (numThreads' - 1) : InBounds(bitmap[n])'
    BY DEF InBounds
<1>4. QED BY <1>1, <1>2, <1>3 DEF Marks

LEMMA NextMarks ==
    ASSUME Shape, Marks, [Next]_vars
    PROVE  Marks'
<1>1. ASSUME NEW t \in Threads, BeginWrite(t) \/ BeginDelete(t) \/ BeginRead(t) \/ Step(t)
      PROVE  Marks'
    BY <1>1, QuietMarks, PinMarks, ScanMarks, ClearMarks, CompactMarks DEF Step
<1>2. ASSUME AllIdle
      PROVE  \A n \in 0 .. (numThreads - 1) : bitmap[n].bits = {}
    BY <1>2, OutsideScan DEF Marks, AllIdle
<1>3. ASSUME NEW switch \in BOOLEAN, NEW sorted \in BOOLEAN, NEW dense \in BOOLEAN,
             CreateSnapshots(switch, sorted, dense)
      PROVE  Marks'
  <2>1. AllIdle /\ UNCHANGED <<numThreads, th>>
      BY <1>3 DEF CreateSnapshots, Exclusive
  <2>2. bitmap \in [0 .. (numThreads - 1) -> Bitmaps] /\ numThreads \in Nat /\ numThreads >= 1
      BY RadixGraphAssumption, FS_CardinalityType DEF Shape, Types
  <2>3. PICK c \in Bitmaps : bitmap' = [bitmap EXCEPT ![0] = c] /\ c.bits = {}
      BY <1>2, <1>3, <2>1, <2>2, SnapshotBitmap
  <2>4. \A n \in 0 .. (numThreads - 1) : bitmap'[n].bits = {}
      BY <1>2, <2>1, <2>2, <2>3
  <2>5. QED BY <2>1, <2>4, IdleMarks DEF AllIdle
<1>4. ASSUME NEW n \in 1 .. Cardinality(Threads), SetNumThreads(n)
      PROVE  Marks'
  <2>1. AllIdle /\ th' = th /\ numThreads' = n /\ bitmap' = [k \in 0 .. (n - 1) |-> NewBitmap(0, L)]
      BY <1>4 DEF SetNumThreads, Exclusive
  <2>2. \A k \in 0 .. (numThreads' - 1) : bitmap'[k].bits = {}
      BY <2>1 DEF NewBitmap
  <2>3. QED BY <2>1, <2>2, IdleMarks DEF AllIdle
<1>5. CASE UNCHANGED vars
    BY <1>5 DEF vars, Marks, InBounds, MarkedBy
<1>6. QED BY <1>1, <1>3, <1>4, <1>5 DEF Next, Done

LEMMA InitMarks ==
    ASSUME Init
    PROVE  Marks
<1>1. \A t \in Threads : th[t].pc = "idle"
    BY IdleIsLocal DEF Init
<1>2. \A n \in 0 .. (numThreads - 1) : bitmap[n].bits = {}
    BY DEF Init, NewBitmap
<1>3. \A t \in Threads : MarkedBy(th[t]) = {}
    BY <1>1, OutsideScan
<1>4. QED BY <1>1, <1>2, <1>3 DEF Marks, InBounds

\* No array and no bitmap is used beyond its end, and a scan leaves nothing in the bitmap
\* that the next scan or compaction of its thread starts from (radixgraph.cpp:156-171, 213-260).
THEOREM BuffersHold == Spec => []BuffersSound
<1>1. ASSUME Shape, Marks
      PROVE  BitmapsClean
  <2>1. DOMAIN bitmap = 0 .. (numThreads - 1)
      BY <1>1 DEF Shape, Types
  <2>2. QED BY <1>1, <2>1 DEF Marks, InBounds, MarkedBy, BitmapsClean
<1>2. QED BY <1>1, TypeCorrect, InitShape, NextShape, InitMarks, NextMarks, PTL
          DEF Spec, BuffersSound

-----------------------------------------------------------------------------
(* The order of the lists. *)

\* All entries of the array are edges, in the order of their destinations.
InOrder(a) ==
    FastPath(a) /\ \A i, j \in 1 .. Len(a.log) : i < j => a.log[i].idx <= a.log[j].idx

Ordered == isSorted /\ ~dirty => \A v \in Offsets : InOrder(Vertex(v).arr)

\* A compaction that sorts makes order, and one that does not keeps it.
LEMMA CompactedInOrder ==
    ASSUME NEW a \in EdgeArrays, NEW b, NEW want \in Nat, NEW sorted \in BOOLEAN,
           NEW now \in Nat, mixed \in BOOLEAN, NEW c, c = Compacted(a, b, want, sorted, now),
           sorted \/ InOrder(a)
    PROVE  InOrder(c)
<1>1. PICK s : s = Arranged(Kept(a, b), a, sorted)
    OBVIOUS
<1>2. /\ Len(c.log) = Cardinality(Kept(a, b)) /\ c.deg = Len(c.log)
      /\ \A k \in 1 .. Len(c.log) :
            /\ s[k] \in 1 .. Len(a.log) /\ c.log[k].idx = a.log[s[k]].idx
            /\ a.log[s[k]] \in Entries
    BY <1>1, CompactedSound
<1>3. \A i, j \in 1 .. Len(c.log) : i < j => Before(a, sorted, s[i], s[j])
  <2>1. Kept(a, b) \in SUBSET (1 .. Len(a.log))
      BY KeptAreEntries
  <2>2. QED BY <1>1, <1>2, <2>1, ArrangedSound
<1>4. Len(a.log) \in Nat
    BY DEF EdgeArrays
<1>5. ASSUME NEW i \in 1 .. Len(c.log), NEW j \in 1 .. Len(c.log), i < j
      PROVE  c.log[i].idx <= c.log[j].idx
  <2>1. PICK x \in 1 .. Len(a.log), y \in 1 .. Len(a.log) : x = s[i] /\ y = s[j]
      BY <1>2
  <2>2. PICK p \in Nat, q \in Nat : p = a.log[x].idx /\ q = a.log[y].idx
      BY <1>2, <2>1 DEF Entries
  <2>3. Before(a, sorted, x, y)
      BY <1>3, <1>5, <2>1
  <2>4. p <= q
    <3>1. CASE sorted
        BY <2>2, <2>3, <3>1 DEF Before
    <3>2. CASE ~sorted
      <4>1. x < y
          BY <2>3, <3>2 DEF Before, InOrder
      <4>2. QED BY <2>2, <3>2, <4>1 DEF InOrder
    <3>3. QED BY <3>1, <3>2
  <2>5. QED BY <1>2, <2>1, <2>2, <2>4
<1>6. QED BY <1>2, <1>5 DEF InOrder, FastPath

\* One vertex is replaced by one whose array is in order if all are.
LEMMA StoreOrdered ==
    ASSUME Shape, Ordered, NEW v \in Offsets, NEW x \in Vertices,
           table' = [table EXCEPT ![v + 1] = x], UNCHANGED <<isSorted, dirty>>,
           InOrder(Vertex(v).arr) => InOrder(x.arr)
    PROVE  Ordered'
<1>1. Offsets' = Offsets /\ Vertex(v)' = x /\ \A u \in Offsets : u # v => Vertex(u)' = Vertex(u)
    BY TableStore
<1>2. SUFFICES ASSUME isSorted, ~dirty, NEW u \in Offsets
               PROVE  InOrder(Vertex(u).arr)'
    BY <1>1 DEF Ordered
<1>3. InOrder(Vertex(u).arr) /\ InOrder(x.arr)
    BY <1>2 DEF Ordered
<1>4. CASE u = v
  <2>1. PICK a : a = x.arr /\ a = Vertex(u)'.arr
      BY <1>1, <1>4
  <2>2. InOrder(a)
      BY <1>3, <2>1
  <2>3. QED BY <2>1, <2>2 DEF InOrder, FastPath
<1>5. CASE u # v
  <2>1. PICK a : a = Vertex(u).arr /\ a = Vertex(u)'.arr
      BY <1>1, <1>5
  <2>2. InOrder(a)
      BY <1>3, <2>1
  <2>3. QED BY <2>1, <2>2 DEF InOrder, FastPath
<1>6. QED BY <1>4, <1>5

LEMMA NextOrdered ==
    ASSUME Shape, Ordered, [Next]_vars
    PROVE  Ordered'
<1>1. CASE UNCHANGED <<table, isSorted, dirty>>
    BY <1>1 DEF Ordered, Offsets, Vertex, InOrder, FastPath
<1>2. ASSUME NEW t \in Threads, FindSrc(t) \/ FindDes(t)
      PROVE  Ordered'
  <2>1. PICK id \in Ids : Retrieve(t, id)
      BY <1>2, ThreadFacts DEF FindSrc, FindDes, Placed
  <2>2. UNCHANGED <<clock, mixed, isSorted, dirty>>
      BY <1>2 DEF FindSrc, FindDes, settings
  <2>3. SUFFICES ASSUME isSorted, ~dirty, NEW v \in Offsets'
                 PROVE  \A a : a = Vertex(v)'.arr => InOrder(a)
      BY <2>2 DEF Ordered, InOrder, FastPath
  <2>4. CASE v \in Offsets
    <3>1. Vertex(v)' = Vertex(v)
        BY <2>1, <2>2, <2>4, RetrieveSound
    <3>2. QED BY <2>3, <2>4, <3>1 DEF Ordered
  <2>5. CASE v \notin Offsets
    <3>1. Vertex(v)' = Made(t, id)
        BY <2>1, <2>2, <2>5, RetrieveSound
    <3>2. InOrder(NewArray)
        BY DEF InOrder, FastPath, NewArray
    <3>3. Made(t, id).arr = NewArray
        BY DEF Made
    <3>4. QED BY <3>1, <3>2, <3>3
  <2>6. QED BY <2>4, <2>5
<1>3. ASSUME NEW t \in Threads, Compact(t)
      PROVE  Ordered'
  <2>1. PICK v \in Offsets, w \in Vertices, a \in EdgeArrays, b \in Bitmaps, want \in Nat,
             c \in EdgeArrays : CompactStep(t, v, w, a, b, want, c)
      BY <1>3, CompactStores
  <2> DEFINE x == [w EXCEPT !.arr = c]
  <2>2. x \in Vertices /\ x.arr = c
      BY DEF Vertices
  <2>3. table' = [table EXCEPT ![v + 1] = x] /\ UNCHANGED <<isSorted, dirty>>
        /\ a = Vertex(v).arr /\ c = Compacted(a, b, want, FALSE, clock)
      BY <2>1 DEF CompactStep, settings, ghosts
  <2> HIDE DEF x
  <2>4. PICK now \in Nat : now = clock /\ c = Compacted(a, b, want, FALSE, now)
      BY <2>3, ThreadFacts
  <2>5. InOrder(a) => InOrder(c)
      BY <2>4, CompactedInOrder DEF Shape, Types
  <2>6. QED BY <2>2, <2>3, <2>5, StoreOrdered
<1>4. ASSUME NEW t \in Threads, Mark(t)
      PROVE  Ordered'
  <2>1. PICK v \in Offsets, w \in Vertices, ts \in Nat : MarkStep(t, v, w, ts)
      BY <1>4, MarkStores
  <2> DEFINE x == [w EXCEPT !.del = ts]
  <2>2. x \in Vertices /\ x.arr = w.arr
      BY DEF Vertices
  <2>3. table' = [table EXCEPT ![v + 1] = x] /\ UNCHANGED <<isSorted, dirty>> /\ w = Vertex(v)
      BY <2>1 DEF MarkStep, settings
  <2> HIDE DEF x
  <2>4. QED BY <2>2, <2>3, StoreOrdered
<1>5. ASSUME NEW t \in Threads, Insert(t)
      PROVE  Ordered'
    BY <1>5 DEF Insert, Ordered
<1>6. ASSUME NEW switch \in BOOLEAN, NEW sorted \in BOOLEAN, NEW dense \in BOOLEAN,
             CreateSnapshots(switch, sorted, dense)
      PROVE  Ordered'
  <2>1. isSorted' = sorted /\ Offsets' = Offsets
      BY <1>6, SnapshotTable DEF CreateSnapshots, Flag
  <2>2. SUFFICES ASSUME sorted, NEW v \in Offsets
                 PROVE  \A a : a = Vertex(v)'.arr => InOrder(a)
      BY <2>1 DEF Ordered, InOrder, FastPath
  <2>3. PICK c \in EdgeArrays :
            c = Snapshot(v, sorted, dense) /\ Vertex(v)'.arr = [c EXCEPT !.stamped = mixed']
      BY <1>6, SnapshotTable
  <2>4. PICK a \in EdgeArrays : a = Vertex(v).arr
      BY VertexFacts
  <2>5. PICK want \in Nat : want = Room(a, dense)
      BY CapacityTypes
  <2>6. PICK now \in Nat : now = clock + v
      BY VertexFacts DEF Shape, Types
  <2>7. PICK b : b = bitmap[0]
      OBVIOUS
  <2>8. c = Compacted(a, b, want, sorted, now) /\ mixed \in BOOLEAN
      BY <2>3, <2>4, <2>5, <2>6, <2>7 DEF Snapshot, Shape, Types
  <2>9. InOrder(c)
      BY <2>2, <2>8, CompactedInOrder
  <2>a. PICK d : d = [c EXCEPT !.stamped = mixed']
      OBVIOUS
  <2>10. d.log = c.log /\ d.deg = c.deg
      BY <2>a DEF EdgeArrays
  <2>11. InOrder(d)
      BY <2>9, <2>10 DEF InOrder, FastPath
  <2>12. QED BY <2>3, <2>a, <2>11
<1>7. ASSUME NEW t \in Threads,
             BeginWrite(t) \/ BeginDelete(t) \/ BeginRead(t) \/ FindVertex(t) \/ Pin(t) \/ Scan(t)
                \/ Clear(t) \/ ReturnEdges(t)
      PROVE  UNCHANGED <<table, isSorted, dirty>>
    BY <1>7 DEF BeginWrite, BeginDelete, BeginRead, FindVertex, Pin, Scan, Clear, ReturnEdges,
                ghosts, settings
<1>8. ASSUME NEW n, SetNumThreads(n)
      PROVE  UNCHANGED <<table, isSorted, dirty>>
    BY <1>8 DEF SetNumThreads, ghosts
<1>9. QED BY <1>1, <1>2, <1>3, <1>4, <1>5, <1>6, <1>7, <1>8 DEF Next, Step, Done, vars

\* After CreateSnapshots(true), every list is in the order of the internal IDs until the
\* next append (radixgraph.cpp:197-262, 285-318).
THEOREM SortedLists == Spec => []SortedWhenFlagged
<1>1. Init => Ordered
    BY DEF Init, Ordered
<1>2. ASSUME Shape, Ordered
      PROVE  SortedWhenFlagged
  <2>1. SUFFICES ASSUME isSorted, ~dirty, NEW v \in Offsets, NEW log, log = Vertex(v).arr.log,
                        NEW i \in 1 .. (Len(log) - 1)
                 PROVE  log[i].idx <= log[i + 1].idx
      BY DEF SortedWhenFlagged
  <2>2. InOrder(Vertex(v).arr)
      BY <1>2, <2>1 DEF Ordered
  <2>3. Len(log) \in Nat
      BY <1>2, <2>1, VertexFacts
  <2>4. i \in 1 .. Len(log) /\ i + 1 \in 1 .. Len(log) /\ i < i + 1
      BY <2>3
  <2>5. QED BY <2>1, <2>2, <2>4 DEF InOrder
<1>3. QED BY <1>1, <1>2, InitShape, NextShape, NextOrdered, PTL DEF Spec

-----------------------------------------------------------------------------
(* Edges of a list of appends. *)

\* The first n entries of the list are the edges E, each once.
Lists(log, n, E) ==
    /\ {<<log[i].idx, log[i].weight>> : i \in 1 .. n} = E
    /\ \A i, j \in 1 .. n : log[i].idx = log[j].idx => i = j

\* The i-th append in I is the last one for its destination, and no deletion.
Stands(log, I, i) ==
    i \in I /\ log[i].weight # 0 /\ \A j \in I : j > i => log[j].idx # log[i].idx

LEMMA EdgeStands ==
    ASSUME NEW log, NEW I, NEW p \in EdgesOf(log, I)
    PROVE  \E i \in I : Stands(log, I, i) /\ p = <<log[i].idx, log[i].weight>>
    BY DEF EdgesOf, Stands

LEMMA StandsEdge ==
    ASSUME NEW log, NEW I, NEW i \in I, Stands(log, I, i)
    PROVE  <<log[i].idx, log[i].weight>> \in EdgesOf(log, I)
    BY DEF EdgesOf, Stands

\* A destination has one weight.
LEMMA OneWeight ==
    ASSUME NEW log, NEW I \in SUBSET Nat, NEW p \in EdgesOf(log, I), NEW q \in EdgesOf(log, I),
           p[1] = q[1]
    PROVE  p = q
<1>1. PICK i \in I : Stands(log, I, i) /\ p = <<log[i].idx, log[i].weight>>
    BY DEF EdgesOf, Stands
<1>2. PICK j \in I : Stands(log, I, j) /\ q = <<log[j].idx, log[j].weight>>
    BY DEF EdgesOf, Stands
<1>3. log[i].idx = log[j].idx
    BY <1>1, <1>2
<1>4. i = j
    BY <1>1, <1>2, <1>3 DEF Stands
<1>5. QED BY <1>1, <1>2, <1>4

\* What one more append does to the edges.
LEMMA EdgesAppended ==
    ASSUME NEW h \in Seq(Appends), NEW x \in Appends, NEW g, g = Append(h, x)
    PROVE  EdgesOf(g, 1 .. Len(g)) =
              {p \in EdgesOf(h, 1 .. Len(h)) : p[1] # x.idx}
                 \cup (IF x.weight = 0 THEN {} ELSE {<<x.idx, x.weight>>})
<1> DEFINE m == Len(h)
           E == EdgesOf(h, 1 .. m)
           F == EdgesOf(g, 1 .. Len(g))
           R == {p \in E : p[1] # x.idx} \cup (IF x.weight = 0 THEN {} ELSE {<<x.idx, x.weight>>})
<1>1. m \in Nat /\ Len(g) = m + 1 /\ g[m + 1] = x /\ \A i \in 1 .. m : g[i] = h[i]
    OBVIOUS
<1>2. ASSUME NEW p \in F
      PROVE  p \in R
  <2>1. PICK i \in 1 .. (m + 1) : Stands(g, 1 .. (m + 1), i) /\ p = <<g[i].idx, g[i].weight>>
      BY <1>1 DEF EdgesOf, Stands
  <2>2. CASE i = m + 1
      BY <1>1, <2>1, <2>2 DEF Stands
  <2>3. CASE i # m + 1
    <3>1. i \in 1 .. m /\ g[i] = h[i] /\ m + 1 > i /\ m + 1 \in 1 .. (m + 1)
        BY <1>1, <2>3
    <3>2. p[1] # x.idx
        BY <1>1, <2>1, <3>1 DEF Stands
    <3>3. \A j \in 1 .. m : j > i => h[j].idx # h[i].idx
        BY <1>1, <2>1, <3>1 DEF Stands
    <3>4. Stands(h, 1 .. m, i)
        BY <2>1, <3>1, <3>3 DEF Stands
    <3>5. p \in E
        BY <2>1, <3>1, <3>4, StandsEdge
    <3>6. QED BY <3>2, <3>5
  <2>4. QED BY <2>2, <2>3
<1>3. ASSUME NEW p \in R
      PROVE  p \in F
  <2>1. CASE p \in E /\ p[1] # x.idx
    <3>1. PICK i \in 1 .. m : Stands(h, 1 .. m, i) /\ p = <<h[i].idx, h[i].weight>>
        BY <2>1, EdgeStands
    <3>2. i \in 1 .. (m + 1) /\ g[i] = h[i] /\ h[i].idx # x.idx
        BY <1>1, <2>1, <3>1
    <3>3. \A j \in 1 .. (m + 1) : j > i => g[j].idx # g[i].idx
      <4>1. TAKE j \in 1 .. (m + 1)
      <4>2. HAVE j > i
      <4>3. CASE j = m + 1
          BY <1>1, <3>2, <4>3
      <4>4. CASE j \in 1 .. m
          BY <1>1, <3>1, <3>2, <4>2, <4>4 DEF Stands
      <4>5. QED BY <1>1, <4>3, <4>4
    <3>4. Stands(g, 1 .. (m + 1), i)
        BY <3>1, <3>2, <3>3 DEF Stands
    <3>5. QED BY <1>1, <3>1, <3>2, <3>4, StandsEdge
  <2>2. CASE x.weight # 0 /\ p = <<x.idx, x.weight>>
    <3>1. m + 1 \in 1 .. (m + 1) /\ \A j \in 1 .. (m + 1) : ~(j > m + 1)
        BY <1>1
    <3>2. Stands(g, 1 .. (m + 1), m + 1)
        BY <1>1, <2>2, <3>1 DEF Stands
    <3>3. QED BY <1>1, <2>2, <3>1, <3>2, StandsEdge
  <2>3. QED BY <2>1, <2>2
<1>4. QED BY <1>2, <1>3

\* Latest finds the edge, and 0 says that there is none.
LEMMA LatestSound ==
    ASSUME NEW h \in Seq(Appends), NEW d
    PROVE  Latest(h, d) = 0 <=> \A p \in EdgesOf(h, 1 .. Len(h)) : p[1] # d
<1> DEFINE I == {i \in DOMAIN h : h[i].idx = d}
<1>1. DOMAIN h = 1 .. Len(h) /\ Len(h) \in Nat
    OBVIOUS
<1>2. CASE I = {}
  <2>1. Latest(h, d) = 0
      BY <1>2 DEF Latest
  <2>2. \A p \in EdgesOf(h, 1 .. Len(h)) : p[1] # d
    <3>1. TAKE p \in EdgesOf(h, 1 .. Len(h))
    <3>2. PICK i \in 1 .. Len(h) : p = <<h[i].idx, h[i].weight>>
        BY EdgeStands
    <3>3. QED BY <1>1, <1>2, <3>2
  <2>3. QED BY <2>1, <2>2
<1>3. CASE I # {}
  <2>1. I \in SUBSET Int /\ \A x \in I : x <= Len(h)
      BY <1>1
  <2>a. Len(h) \in Int
      BY <1>1
  <2>2. Max(I) \in I /\ \A x \in I : x <= Max(I)
      BY ONLY <1>3, <2>1, <2>a, MaxOfBounded
  <2>3. PICK k \in I : k = Max(I) /\ \A x \in I : x <= k
      BY <2>2
  <2>4. Latest(h, d) = h[k].weight
      BY <1>3, <2>3 DEF Latest
  <2>5. k \in 1 .. Len(h) /\ h[k].idx = d
      BY <1>1
  <2>6. \A j \in 1 .. Len(h) : j > k => h[j].idx # h[k].idx
    <3>1. TAKE j \in 1 .. Len(h)
    <3>2. HAVE j > k
    <3>3. ASSUME j \in I
          PROVE  FALSE
      <4>1. j <= k
          BY <2>3, <3>3
      <4>2. j \in Nat /\ k \in Nat
          BY <1>1, <2>5
      <4>3. QED BY <3>2, <4>1, <4>2
    <3>4. QED BY <1>1, <2>5, <3>3
  <2>7. ASSUME h[k].weight = 0, NEW p \in EdgesOf(h, 1 .. Len(h))
        PROVE  p[1] # d
    <3>1. PICK i \in 1 .. Len(h) : Stands(h, 1 .. Len(h), i) /\ p = <<h[i].idx, h[i].weight>>
        BY EdgeStands
    <3>2. ASSUME h[i].idx = d
          PROVE  FALSE
      <4>1. i <= k /\ i # k
          BY <1>1, <2>3, <2>7, <3>1, <3>2 DEF Stands
      <4>2. k > i
          BY <2>5, <4>1
      <4>3. QED BY <2>5, <3>1, <3>2, <4>2 DEF Stands
    <3>3. QED BY <3>1, <3>2
  <2>8. ASSUME h[k].weight # 0
        PROVE  \E p \in EdgesOf(h, 1 .. Len(h)) : p[1] = d
    <3>1. Stands(h, 1 .. Len(h), k)
        BY <2>5, <2>6, <2>8 DEF Stands
    <3>2. <<h[k].idx, h[k].weight>> \in EdgesOf(h, 1 .. Len(h))
        BY <2>5, <3>1, StandsEdge
    <3>3. QED BY <2>5, <3>2
  <2>9. QED BY <2>4, <2>7, <2>8
<1>4. QED BY <1>2, <1>3

\* A list of n edges, each once, is a set of n edges.
LEMMA ListedCount ==
    ASSUME NEW log, NEW n \in Nat, NEW E, Lists(log, n, E)
    PROVE  IsFiniteSet(E) /\ Cardinality(E) = n
<1> DEFINE f == [i \in 1 .. n |-> <<log[i].idx, log[i].weight>>]
<1>1. f \in [1 .. n -> E]
    BY DEF Lists
<1>2. \A i, j \in 1 .. n : f[i] = f[j] => i = j
    BY DEF Lists
<1>3. \A p \in E : \E i \in 1 .. n : f[i] = p
    BY DEF Lists
<1> HIDE DEF f
<1>4. f \in Bijection(1 .. n, E)
    BY <1>1, <1>2, <1>3 DEF Bijection, Injection, Surjection, IsInjective
<1>5. ExistsBijection(1 .. n, E)
    BY <1>4 DEF ExistsBijection
<1>6. IsFiniteSet(1 .. n)
    BY FS_Interval
<1>7. QED BY <1>5, <1>6, FS_Bijection, FS_CountingElements

\* The edges of an empty list of appends.
LEMMA NoEdges ==
    ASSUME NEW log
    PROVE  EdgesOf(log, 1 .. 0) = {}
<1>1. 1 .. 0 = {}
    OBVIOUS
<1>2. QED BY <1>1 DEF EdgesOf

\* The size of a set of edges follows deg: an insertion of an absent edge adds one, an
\* update of a present edge replaces one, a deletion of a present edge removes one.
LEMMA DegreeStep ==
    ASSUME NEW h \in Seq(Appends), NEW x \in Appends, NEW g, g = Append(h, x),
           IsFiniteSet(EdgesOf(h, 1 .. Len(h))),
           NEW op \in {"insert", "update", "delete"},
           x.weight = CASE op = "insert" -> 1 [] op = "update" -> 2 [] OTHER -> 0,
           op = "insert" <=> Latest(h, x.idx) = 0
    PROVE  /\ IsFiniteSet(EdgesOf(g, 1 .. Len(g)))
           /\ Cardinality(EdgesOf(g, 1 .. Len(g))) =
                 Cardinality(EdgesOf(h, 1 .. Len(h)))
                    + (CASE op = "insert" -> 1 [] op = "update" -> 0 [] OTHER -> -1)
           /\ op = "insert" =>
                 /\ EdgesOf(g, 1 .. Len(g)) = EdgesOf(h, 1 .. Len(h)) \cup {<<x.idx, 1>>}
                 /\ \A p \in EdgesOf(h, 1 .. Len(h)) : p[1] # x.idx
<1>1. PICK E : E = EdgesOf(h, 1 .. Len(h))
    OBVIOUS
<1>2. PICK F : F = EdgesOf(g, 1 .. Len(g))
    OBVIOUS
<1>3. IsFiniteSet(E) /\ Cardinality(E) \in Nat
    BY <1>1, FS_CardinalityType
<1>4. PICK d \in Nat : d = x.idx
    BY DEF Appends
<1>5. F = {p \in E : p[1] # d} \cup (IF x.weight = 0 THEN {} ELSE {<<d, x.weight>>})
  <2>1. EdgesOf(g, 1 .. Len(g)) =
           {p \in EdgesOf(h, 1 .. Len(h)) : p[1] # x.idx}
              \cup (IF x.weight = 0 THEN {} ELSE {<<x.idx, x.weight>>})
      BY ONLY h \in Seq(Appends), x \in Appends, g = Append(h, x), EdgesAppended
  <2>2. QED BY <1>1, <1>2, <1>4, <2>1
<1>6. op = "insert" <=> \A p \in E : p[1] # d
    BY <1>1, <1>4, LatestSound
<1>7. \A p, q \in E : p[1] = q[1] => p = q
  <2>1. 1 .. Len(h) \in SUBSET Nat
      OBVIOUS
  <2>2. QED BY <1>1, <2>1, OneWeight
<1>8. CASE op = "insert"
  <2>1. x.weight = 1 /\ {p \in E : p[1] # d} = E
      BY <1>6, <1>8
  <2>2. F = E \cup {<<d, 1>>}
      BY <1>5, <2>1
  <2>3. <<d, 1>> \notin E
      BY <1>6, <1>8
  <2>4. IsFiniteSet(F) /\ Cardinality(F) = Cardinality(E) + 1
      BY <1>3, <2>2, <2>3, FS_AddElement
  <2>5. QED BY <1>1, <1>2, <1>4, <1>6, <1>8, <2>2, <2>4
<1>9. CASE op # "insert"
  <2>1. PICK p \in E : p[1] = d
      BY <1>6, <1>9
  <2> DEFINE R == E \ {p}
  <2>2. {q \in E : q[1] # d} = R
      BY <1>7, <2>1
  <2>3. IsFiniteSet(R) /\ Cardinality(R) = Cardinality(E) - 1
      BY <1>3, <2>1, FS_RemoveElement
  <2>4. CASE op = "update"
    <3>1. x.weight = 2
        BY <2>4
    <3>2. F = R \cup {<<d, 2>>}
        BY <1>5, <2>2, <3>1
    <3>3. <<d, 2>> \notin R
        BY <1>7, <2>1
    <3>4. IsFiniteSet(F) /\ Cardinality(F) = Cardinality(E)
      <4>1. Cardinality(R \cup {<<d, 2>>}) = Cardinality(R) + 1 /\ IsFiniteSet(R \cup {<<d, 2>>})
          BY <2>3, <3>3, FS_AddElement
      <4>2. QED BY <1>3, <2>3, <3>2, <4>1
    <3>5. QED BY <1>1, <1>2, <1>3, <1>9, <2>4, <3>4
  <2>5. CASE op = "delete"
    <3>1. x.weight = 0
        BY <2>5
    <3>2. F = R
        BY <1>5, <2>2, <3>1
    <3>3. QED BY <1>1, <1>2, <1>3, <1>9, <2>3, <2>5, <3>2
  <2>6. QED BY <1>9, <2>4, <2>5
<1>10. QED BY <1>8, <1>9

-----------------------------------------------------------------------------
(* An array and the appends it stands for. *)

\* The array a holds what the first m appends of h say: its log segment is the last of them,
\* its snapshot segment the edges that the others leave.
Mirrors(a, h, m) ==
    /\ a.snapDeg + (m - Len(a.log)) \in 0 .. m
    /\ \A i \in (a.snapDeg + 1) .. Len(a.log) :
          /\ a.log[i].idx = h[i + (m - Len(a.log))].idx
          /\ a.log[i].weight = h[i + (m - Len(a.log))].weight
          /\ a.stamped => a.log[i].stamp = h[i + (m - Len(a.log))].at
    /\ Lists(a.log, a.snapDeg, EdgesOf(h, 1 .. (a.snapDeg + (m - Len(a.log)))))
    /\ \A i \in 1 .. (a.snapDeg + (m - Len(a.log))) : h[i].at <= a.snapTs

\* The entries among p + 1, ..., n of the array that a scan of its first n entries takes.
Wanted(a, n, p) ==
    {i \in (p + 1) .. n :
        /\ a.log[i].weight # 0
        /\ \A j \in (a.snapDeg + 1) .. n : j > i => a.log[j].idx # a.log[i].idx}

EdgesAt(a, W) == {<<a.log[i].idx, a.log[i].weight>> : i \in W}

\* A scan of the first n entries takes the edges that the appends up to the n-th entry leave.
LEMMA WantedEdges ==
    ASSUME NEW a \in EdgeArrays, NEW h, NEW m \in Nat, Mirrors(a, h, m),
           NEW n \in a.snapDeg .. Len(a.log)
    PROVE  /\ EdgesAt(a, Wanted(a, n, 0)) = EdgesOf(h, 1 .. (n + (m - Len(a.log))))
           /\ \A i, j \in Wanted(a, n, 0) : a.log[i].idx = a.log[j].idx => i = j
<1>1. PICK sd \in Nat : sd = a.snapDeg
    BY DEF EdgeArrays
<1>2. Len(a.log) \in Nat /\ n \in Nat /\ sd <= n /\ n <= Len(a.log)
  <2>1. a.log \in Seq(Entries)
      BY DEF EdgeArrays
  <2>2. QED BY <1>1, <2>1
<1>3. PICK x \in Int : x = m - Len(a.log)
  <2>1. m - Len(a.log) \in Int
      BY <1>2
  <2>2. QED BY <2>1
<1>4. PICK r \in Nat : r = sd + x
    BY <1>1, <1>3 DEF Mirrors
<1>5. PICK k \in Nat : k = n + x
  <2>1. n + x \in Nat
      BY <1>2, <1>4
  <2>2. QED BY <2>1
<1>6. \A i \in (sd + 1) .. Len(a.log) : a.log[i].idx = h[i + x].idx /\ a.log[i].weight = h[i + x].weight
    BY <1>1, <1>3 DEF Mirrors
<1>7. Lists(a.log, sd, EdgesOf(h, 1 .. r))
    BY <1>1, <1>3, <1>4 DEF Mirrors
<1>8. \A i \in (sd + 1) .. n : i \in (sd + 1) .. Len(a.log) /\ i + x \in (r + 1) .. k
    BY <1>2, <1>4, <1>5
<1>9. \A i \in (r + 1) .. k : i - x \in (sd + 1) .. n /\ (i - x) + x = i
    BY <1>2, <1>4, <1>5
<1>10. Wanted(a, n, 0) = {i \in 1 .. n : /\ a.log[i].weight # 0
                                         /\ \A j \in (sd + 1) .. n : j > i => a.log[j].idx # a.log[i].idx}
    BY <1>1 DEF Wanted
<1>11. ASSUME NEW i \in Wanted(a, n, 0)
       PROVE  <<a.log[i].idx, a.log[i].weight>> \in EdgesOf(h, 1 .. k)
  <2>1. i \in 1 .. n /\ a.log[i].weight # 0
        /\ \A j \in (sd + 1) .. n : j > i => a.log[j].idx # a.log[i].idx
      BY <1>10
  <2>2. CASE i > sd
    <3>1. i \in (sd + 1) .. n
        BY <1>2, <2>1, <2>2
    <3>2. i + x \in 1 .. k /\ a.log[i].idx = h[i + x].idx /\ a.log[i].weight = h[i + x].weight
        BY <1>4, <1>6, <1>8, <3>1
    <3>3. ASSUME NEW y \in 1 .. k, y > i + x
          PROVE  h[y].idx # h[i + x].idx
      <4>1. y \in (r + 1) .. k
          BY <1>4, <1>5, <3>1, <3>3
      <4>2. PICK j \in (sd + 1) .. n : j = y - x /\ j + x = y
          BY <1>9, <4>1
      <4>3. j > i
          BY <3>1, <3>3, <4>2
      <4>4. QED BY <1>6, <1>8, <2>1, <3>2, <4>2, <4>3
    <3>4. Stands(h, 1 .. k, i + x)
        BY <2>1, <3>2, <3>3 DEF Stands
    <3>5. QED BY <3>2, <3>4, StandsEdge
  <2>3. CASE i <= sd
    <3>1. <<a.log[i].idx, a.log[i].weight>> \in EdgesOf(h, 1 .. r)
        BY <1>1, <1>7, <2>1, <2>3 DEF Lists
    <3>2. PICK y \in 1 .. r : Stands(h, 1 .. r, y) /\ <<a.log[i].idx, a.log[i].weight>> = <<h[y].idx, h[y].weight>>
        BY <3>1 DEF EdgesOf, Stands
    <3>3. a.log[i].idx = h[y].idx /\ a.log[i].weight = h[y].weight
        BY <3>2
    <3>4. y \in 1 .. k
        BY <1>2, <1>4, <1>5
    <3>5. ASSUME NEW z \in 1 .. k, z > y
          PROVE  h[z].idx # h[y].idx
      <4>1. CASE z \in 1 .. r
          BY <3>2, <3>5, <4>1 DEF Stands
      <4>2. CASE z \in (r + 1) .. k
        <5>1. PICK j \in (sd + 1) .. n : j = z - x /\ j + x = z
            BY <1>9, <4>2
        <5>2. j > i
            BY <2>1, <2>3, <5>1
        <5>3. QED BY <1>6, <1>8, <2>1, <3>3, <5>1, <5>2
      <4>3. QED BY <1>4, <1>5, <4>1, <4>2
    <3>6. Stands(h, 1 .. k, y)
        BY <2>1, <3>3, <3>4, <3>5 DEF Stands
    <3>7. QED BY <3>3, <3>4, <3>6, StandsEdge
  <2>4. QED BY <1>1, <2>1, <2>2, <2>3
<1>12. ASSUME NEW p \in EdgesOf(h, 1 .. k)
       PROVE  \E i \in Wanted(a, n, 0) : p = <<a.log[i].idx, a.log[i].weight>>
  <2>1. PICK y \in 1 .. k : Stands(h, 1 .. k, y) /\ p = <<h[y].idx, h[y].weight>>
      BY DEF EdgesOf, Stands
  <2>2. CASE y > r
    <3>1. y \in (r + 1) .. k
        BY <1>4, <1>5, <2>2
    <3>2. PICK i \in (sd + 1) .. n : i = y - x /\ i + x = y
        BY <1>9, <3>1
    <3>3. a.log[i].idx = h[y].idx /\ a.log[i].weight = h[y].weight
        BY <1>6, <1>8, <3>2
    <3>4. ASSUME NEW j \in (sd + 1) .. n, j > i
          PROVE  a.log[j].idx # a.log[i].idx
      <4>1. j + x \in 1 .. k /\ j + x > y
          BY <1>1, <1>4, <1>8, <3>2, <3>4
      <4>2. QED BY <1>6, <1>8, <2>1, <3>3, <4>1 DEF Stands
    <3>5. i \in 1 .. n
        BY <1>1
    <3>6. i \in Wanted(a, n, 0)
        BY <1>10, <2>1, <3>3, <3>4, <3>5 DEF Stands
    <3>7. QED BY <2>1, <3>3, <3>6
  <2>3. CASE y <= r
    <3>1. y \in 1 .. r /\ \A z \in 1 .. r : z \in 1 .. k
        BY <1>2, <1>4, <1>5, <2>3
    <3>2. Stands(h, 1 .. r, y)
        BY <2>1, <3>1 DEF Stands
    <3>3. p \in EdgesOf(h, 1 .. r)
        BY <2>1, <3>1, <3>2, StandsEdge
    <3>4. PICK i \in 1 .. sd : p = <<a.log[i].idx, a.log[i].weight>>
        BY <1>7, <3>3 DEF Lists
    <3>5. a.log[i].idx = h[y].idx /\ a.log[i].weight = h[y].weight
        BY <2>1, <3>4
    <3>6. ASSUME NEW j \in (sd + 1) .. n
          PROVE  a.log[j].idx # a.log[i].idx
      <4>a. j + x \in (r + 1) .. k /\ y \in Nat
          BY <1>8
      <4>1. j + x \in 1 .. k /\ j + x > y
          BY <1>4, <1>5, <2>3, <4>a
      <4>2. QED BY <1>6, <1>8, <2>1, <3>5, <4>1 DEF Stands
    <3>7. i \in 1 .. n
        BY <1>1, <1>2
    <3>8. i \in Wanted(a, n, 0)
        BY <1>10, <2>1, <3>5, <3>6, <3>7 DEF Stands
    <3>9. QED BY <3>4, <3>8
  <2>4. QED BY <1>4, <1>5, <2>2, <2>3
<1>13. ASSUME NEW i \in Wanted(a, n, 0), NEW j \in Wanted(a, n, 0), a.log[i].idx = a.log[j].idx
       PROVE  i = j
  <2>1. i \in 1 .. n /\ j \in 1 .. n
      BY <1>10
  <2>2. ~(j > i /\ j \in (sd + 1) .. n) /\ ~(i > j /\ i \in (sd + 1) .. n)
      BY <1>10, <1>13
  <2>3. CASE i \in 1 .. sd /\ j \in 1 .. sd
      BY <1>7, <1>13, <2>3 DEF Lists
  <2>4. QED BY <1>1, <1>2, <2>1, <2>2, <2>3
<1>14. EdgesAt(a, Wanted(a, n, 0)) = EdgesOf(h, 1 .. k)
    BY <1>11, <1>12 DEF EdgesAt
<1>15. QED BY <1>3, <1>5, <1>13, <1>14

\* The same appends leave the same edges.
LEMMA SamePrefix ==
    ASSUME NEW h, NEW g, NEW r \in Nat, \A i \in 1 .. r : g[i] = h[i]
    PROVE  EdgesOf(g, 1 .. r) = EdgesOf(h, 1 .. r)
    BY DEF EdgesOf

LEMMA SameList ==
    ASSUME NEW l, NEW k, NEW n, NEW E, Lists(l, n, E), \A i \in 1 .. n : k[i] = l[i]
    PROVE  Lists(k, n, E)
    BY DEF Lists

\* More appends do not matter.
LEMMA MirrorsStay ==
    ASSUME NEW a \in EdgeArrays, NEW h, NEW g, NEW m \in Nat, Mirrors(a, h, m),
           \A i \in 1 .. m : g[i] = h[i]
    PROVE  Mirrors(a, g, m)
<1>1. PICK n \in Nat, sd \in Nat : n = Len(a.log) /\ sd = a.snapDeg
  <2>1. a.log \in Seq(Entries)
      BY DEF EdgeArrays
  <2>2. Len(a.log) \in Nat /\ a.snapDeg \in Nat
      BY <2>1 DEF EdgeArrays
  <2>3. QED BY <2>2
<1>2. PICK x \in Int : x = m - n
    OBVIOUS
<1>3. PICK r \in Nat : r = sd + x /\ r <= m
    BY <1>1, <1>2 DEF Mirrors
<1>4. \A i \in (sd + 1) .. n : g[i + x] = h[i + x]
  <2>1. \A i \in (sd + 1) .. n : i + x \in 1 .. m
      BY <1>2, <1>3
  <2>2. QED BY <2>1
<1>5. \A i \in 1 .. r : i \in 1 .. m /\ g[i] = h[i]
    BY <1>3
<1>6. EdgesOf(g, 1 .. r) = EdgesOf(h, 1 .. r)
    BY <1>5, SamePrefix
<1>7. QED BY <1>1, <1>2, <1>3, <1>4, <1>5, <1>6 DEF Mirrors

\* The array of a vertex, its degree, and what was appended at the vertex.
Content(a, h) ==
    /\ Mirrors(a, h, Len(h))
    /\ IsFiniteSet(EdgesOf(h, 1 .. Len(h))) /\ a.deg = Cardinality(EdgesOf(h, 1 .. Len(h)))
    /\ a.deg <= Len(a.log)
    /\ a.deg = Len(a.log) => Lists(a.log, Len(a.log), EdgesOf(h, 1 .. Len(h)))

LEMMA NewContent ==
    ASSUME NEW h, h = <<>>, NEW a, a = NewArray
    PROVE  Content(a, h)
<1>1. Len(h) = 0 /\ a.log = h /\ a.snapDeg = 0 /\ a.deg = 0
    BY DEF NewArray
<1>2. EdgesOf(h, 1 .. 0) = {}
    BY NoEdges
<1>3. Lists(h, 0, {})
    BY DEF Lists
<1>4. IsFiniteSet({}) /\ Cardinality({}) = 0
    BY FS_EmptySet
<1>5. Mirrors(a, h, 0)
  <2>1. 0 + (0 - 0) = 0 /\ 0 \in 0 .. 0 /\ (0 + 1) .. 0 = {} /\ 1 .. 0 = {}
      OBVIOUS
  <2>2. QED BY <1>1, <1>2, <1>3, <2>1 DEF Mirrors
<1>6. EdgesOf(h, 1 .. Len(h)) = {} /\ Len(a.log) = 0 /\ Len(h) = 0
    BY <1>1, <1>2
<1>7. 0 <= 0
    OBVIOUS
<1>8. QED BY <1>1, <1>3, <1>4, <1>5, <1>6, <1>7 DEF Content

\* What a compaction keeps is the edges of the vertex, each once.
LEMMA KeptContent ==
    ASSUME NEW a \in EdgeArrays, a.snapDeg <= Len(a.log), NEW h \in Seq(Appends), Content(a, h),
           NEW b \in Bitmaps, b.bits = {}
    PROVE  /\ EdgesAt(a, Kept(a, b)) = EdgesOf(h, 1 .. Len(h))
           /\ \A i, j \in Kept(a, b) : a.log[i].idx = a.log[j].idx => i = j
<1>1. a.log \in Seq(Entries) /\ Len(a.log) \in Nat /\ DOMAIN a.log = 1 .. Len(a.log)
      /\ a.snapDeg \in Nat /\ Len(h) \in Nat
    BY DEF EdgeArrays
<1>2. CASE FastPath(a)
  <2>1. Kept(a, b) = 1 .. Len(a.log) /\ a.deg = Len(a.log)
      BY <1>1, <1>2 DEF Kept, FastPath
  <2>2. Lists(a.log, Len(a.log), EdgesOf(h, 1 .. Len(h)))
      BY <2>1 DEF Content
  <2>3. QED BY <2>1, <2>2 DEF Lists, EdgesAt
<1>3. CASE ~FastPath(a)
  <2>1. \A d : ~GetBit(b, d, L)
      BY DEF GetBit
  <2>2. Kept(a, b) = Wanted(a, Len(a.log), 0)
      BY <1>1, <1>3, <2>1 DEF Kept, Wanted
  <2>3. PICK n \in Nat, m \in Nat : n = Len(a.log) /\ m = Len(h)
      BY <1>1
  <2>4. Mirrors(a, h, m) /\ n \in a.snapDeg .. Len(a.log)
      BY <1>1, <2>3 DEF Content
  <2>5. /\ EdgesAt(a, Wanted(a, n, 0)) = EdgesOf(h, 1 .. (n + (m - Len(a.log))))
        /\ \A i, j \in Wanted(a, n, 0) : a.log[i].idx = a.log[j].idx => i = j
      BY <2>4, WantedEdges
  <2>6. n + (m - n) = m
      OBVIOUS
  <2>7. QED BY <2>2, <2>3, <2>5, <2>6
<1>4. QED BY <1>2, <1>3

\* A compaction makes an array for the same edges, d, whatever its use of timestamps.
LEMMA CompactedContent ==
    ASSUME NEW a \in EdgeArrays, a.snapDeg <= Len(a.log), NEW h \in Seq(Appends), Content(a, h),
           NEW b \in Bitmaps, b.bits = {}, NEW want \in Nat, NEW sorted \in BOOLEAN,
           NEW now \in Nat, \A i \in 1 .. Len(h) : h[i].at <= now,
           mixed \in BOOLEAN, NEW c, c = Compacted(a, b, want, sorted, now),
           NEW d, d.log = c.log, d.snapDeg = c.snapDeg, d.deg = c.deg, d.snapTs = c.snapTs
    PROVE  Content(d, h)
<1>1. PICK s : s = Arranged(Kept(a, b), a, sorted)
    OBVIOUS
<1>2. PICK K : K = Kept(a, b)
    OBVIOUS
<1>3. PICK n \in Nat : n = Len(c.log) /\ n = Cardinality(K)
  <2>1. Len(c.log) = Cardinality(K)
      BY <1>1, <1>2, CompactedSound
  <2>2. Cardinality(K) \in Nat
      BY <1>2, ArrangedSound, KeptAreEntries
  <2>3. QED BY <2>1, <2>2
<1>4. /\ c.snapDeg = n /\ c.deg = n /\ c.snapTs = now
      /\ \A k \in 1 .. n : /\ s[k] \in K /\ c.log[k].idx = a.log[s[k]].idx
                           /\ c.log[k].weight = a.log[s[k]].weight
    BY <1>1, <1>2, <1>3, CompactedSound
<1>5. /\ \A k \in K : \E i \in 1 .. n : s[i] = k
      /\ \A i, j \in 1 .. n : s[i] = s[j] => i = j
  <2>1. K \in SUBSET (1 .. Len(a.log))
      BY <1>2, KeptAreEntries
  <2>2. s = Arranged(K, a, sorted)
      BY <1>1, <1>2
  <2>3. \A k \in K : \E i \in 1 .. Cardinality(K) : Arranged(K, a, sorted)[i] = k
      BY ONLY a \in EdgeArrays, sorted \in BOOLEAN, <2>1, ArrangedSound
  <2>4. \A i, j \in 1 .. Cardinality(K) :
              Arranged(K, a, sorted)[i] = Arranged(K, a, sorted)[j] => i = j
      BY ONLY a \in EdgeArrays, sorted \in BOOLEAN, <2>1, ArrangedSound
  <2>5. n = Cardinality(K)
      BY <1>3
  <2>6. QED BY ONLY <2>2, <2>3, <2>4, <2>5
<1>6. PICK E : E = EdgesOf(h, 1 .. Len(h))
    OBVIOUS
<1>7. EdgesAt(a, K) = E /\ \A i, j \in K : a.log[i].idx = a.log[j].idx => i = j
    BY <1>2, <1>6, KeptContent
<1>8. Lists(c.log, n, E)
  <2>1. {<<c.log[i].idx, c.log[i].weight>> : i \in 1 .. n} = E
    <3>1. \A i \in 1 .. n : <<c.log[i].idx, c.log[i].weight>> \in E
      <4>1. TAKE i \in 1 .. n
      <4>2. PICK k \in K : k = s[i]
          BY <1>4
      <4>3. <<a.log[k].idx, a.log[k].weight>> \in E
          BY <1>7 DEF EdgesAt
      <4>4. QED BY <1>4, <4>2, <4>3
    <3>2. \A p \in E : \E i \in 1 .. n : p = <<c.log[i].idx, c.log[i].weight>>
      <4>1. TAKE p \in E
      <4>2. PICK k \in K : p = <<a.log[k].idx, a.log[k].weight>>
          BY <1>7 DEF EdgesAt
      <4>3. PICK i \in 1 .. n : s[i] = k
          BY <1>5
      <4>4. QED BY <1>4, <4>2, <4>3
    <3>3. QED BY <3>1, <3>2
  <2>2. \A i, j \in 1 .. n : c.log[i].idx = c.log[j].idx => i = j
    <3>1. TAKE i, j \in 1 .. n
    <3>2. PICK x \in K, y \in K : x = s[i] /\ y = s[j]
        BY <1>4
    <3>3. HAVE c.log[i].idx = c.log[j].idx
    <3>4. a.log[x].idx = a.log[y].idx
        BY <1>4, <3>2, <3>3
    <3>5. x = y
        BY <1>7, <3>4
    <3>6. s[i] = s[j]
        BY <3>2, <3>5
    <3>7. QED BY <1>5, <3>6
  <2>3. QED BY <2>1, <2>2 DEF Lists
<1>9. IsFiniteSet(E) /\ Cardinality(E) = n
    BY <1>8, ListedCount
<1>10. PICK m \in Nat : m = Len(h)
    OBVIOUS
<1>11. Mirrors(d, h, m)
  <2>1. n + (m - n) = m /\ m \in 0 .. m /\ (n + 1) .. n = {}
      BY <1>3, <1>10
  <2>2. Lists(d.log, n, EdgesOf(h, 1 .. m))
      BY <1>6, <1>8, <1>10
  <2>3. d.snapDeg = n /\ Len(d.log) = n /\ d.snapTs = now
      BY <1>3, <1>4
  <2>4. QED BY <1>10, <2>1, <2>2, <2>3 DEF Mirrors
<1>12. QED BY <1>3, <1>4, <1>6, <1>8, <1>9, <1>10, <1>11 DEF Content

\* An append in the contract keeps the array, its degree and the appends in step.
LEMMA InsertContent ==
    ASSUME NEW a \in EdgeArrays, a.snapDeg <= Len(a.log), NEW h \in Seq(Appends), Content(a, h),
           NEW e \in Entries, NEW x \in Appends, NEW g, g = Append(h, x),
           NEW c \in EdgeArrays, c.log = Append(a.log, e), c.snapDeg = a.snapDeg,
           c.snapTs = a.snapTs, c.stamped = a.stamped,
           e.idx = x.idx, e.weight = x.weight, a.stamped => e.stamp = x.at,
           NEW op \in {"insert", "update", "delete"},
           x.weight = CASE op = "insert" -> 1 [] op = "update" -> 2 [] OTHER -> 0,
           c.deg = a.deg + (CASE op = "insert" -> 1 [] op = "update" -> 0 [] OTHER -> -1),
           op = "insert" <=> Latest(h, x.idx) = 0
    PROVE  Content(c, g)
<1>1. PICK l \in Seq(Entries) : l = a.log
    BY DEF EdgeArrays
<1>2. PICK k \in Seq(Entries) : k = c.log
    BY DEF EdgeArrays
<1>3. PICK n \in Nat, m \in Nat : n = Len(l) /\ m = Len(h)
  <2>1. Len(l) \in Nat /\ Len(h) \in Nat
      OBVIOUS
  <2>2. QED BY <2>1
<1>4. Len(k) = n + 1 /\ k[n + 1] = e /\ \A i \in 1 .. n : k[i] = l[i]
    BY <1>1, <1>2, <1>3
<1>5. Len(g) = m + 1 /\ g[m + 1] = x /\ \A i \in 1 .. m : g[i] = h[i]
    BY <1>3
<1>6. PICK sd \in Nat, y \in Int : sd = a.snapDeg /\ y = m - n
    BY <1>3 DEF EdgeArrays
<1>7. sd <= n /\ y = (m + 1) - (n + 1)
    BY <1>1, <1>3, <1>6
<1>8. PICK E, F : E = EdgesOf(h, 1 .. m) /\ F = EdgesOf(g, 1 .. (m + 1))
    OBVIOUS
<1>9. Mirrors(a, h, m) /\ IsFiniteSet(E) /\ a.deg = Cardinality(E) /\ a.deg <= n
      /\ (a.deg = n => Lists(l, n, E))
    BY <1>1, <1>3, <1>8 DEF Content
<1>10. Mirrors(c, g, m + 1)
  <2>1. PICK r \in Nat : r = sd + y /\ r <= m
      BY <1>1, <1>3, <1>6, <1>9 DEF Mirrors
  <2>2. \A i \in (sd + 1) .. n : /\ l[i].idx = h[i + y].idx /\ l[i].weight = h[i + y].weight
                                 /\ a.stamped => l[i].stamp = h[i + y].at
      BY <1>1, <1>3, <1>6, <1>9 DEF Mirrors
  <2>3. Lists(l, sd, EdgesOf(h, 1 .. r)) /\ \A i \in 1 .. r : h[i].at <= a.snapTs
      BY <1>1, <1>3, <1>6, <1>9, <2>1 DEF Mirrors
  <2>4. \A i \in (sd + 1) .. (n + 1) : /\ k[i].idx = g[i + y].idx /\ k[i].weight = g[i + y].weight
                                       /\ c.stamped => k[i].stamp = g[i + y].at
    <3>1. TAKE i \in (sd + 1) .. (n + 1)
    <3>2. CASE i = n + 1
      <4>1. i + y = m + 1
          BY <1>6, <3>2
      <4>2. QED BY <1>4, <1>5, <3>2, <4>1
    <3>3. CASE i \in (sd + 1) .. n
      <4>a. i \in Nat /\ sd + 1 <= i /\ i <= n
          BY <3>3
      <4>b. i + y >= r + 1 /\ i >= 1
          BY ONLY <1>6, <2>1, <4>a
      <4>c. i + y <= m /\ i + y \in Int
          BY <1>6, <4>a
      <4>1. i + y \in 1 .. m /\ i \in 1 .. n
          BY <4>a, <4>b, <4>c
      <4>2. QED BY <1>4, <1>5, <2>2, <3>3, <4>1
    <3>a. i = n + 1 \/ i \in (sd + 1) .. n
        OBVIOUS
    <3>4. QED BY <3>2, <3>3, <3>a
  <2>5. EdgesOf(g, 1 .. r) = EdgesOf(h, 1 .. r)
    <3>1. \A i \in 1 .. r : g[i] = h[i]
        BY <1>3, <1>5, <2>1
    <3>2. QED BY <3>1, SamePrefix
  <2>6. Lists(k, sd, EdgesOf(g, 1 .. r))
    <3>1. \A i \in 1 .. sd : k[i] = l[i]
        BY <1>4, <1>7
    <3>2. QED BY <2>3, <2>5, <3>1, SameList
  <2>7. \A i \in 1 .. r : g[i].at <= c.snapTs
      BY <1>3, <1>5, <2>1, <2>3
  <2>8. r \in 0 .. (m + 1)
      BY <1>3, <2>1
  <2>9. c.snapDeg = sd /\ (m + 1) - Len(c.log) = y /\ Len(c.log) = n + 1
      BY <1>2, <1>4, <1>6, <1>7
  <2>10. QED BY <1>2, <2>1, <2>4, <2>6, <2>7, <2>8, <2>9 DEF Mirrors
<1> DEFINE delta == CASE op = "insert" -> 1 [] op = "update" -> 0 [] OTHER -> -1
<1>11. /\ IsFiniteSet(F) /\ Cardinality(F) = Cardinality(E) + delta
       /\ op = "insert" => F = E \cup {<<x.idx, 1>>} /\ \A p \in E : p[1] # x.idx
  <2>1. IsFiniteSet(EdgesOf(h, 1 .. Len(h)))
      BY DEF Content
  <2>2. /\ IsFiniteSet(EdgesOf(g, 1 .. Len(g)))
        /\ Cardinality(EdgesOf(g, 1 .. Len(g))) =
              Cardinality(EdgesOf(h, 1 .. Len(h)))
                 + (CASE op = "insert" -> 1 [] op = "update" -> 0 [] OTHER -> -1)
        /\ op = "insert" =>
              /\ EdgesOf(g, 1 .. Len(g)) = EdgesOf(h, 1 .. Len(h)) \cup {<<x.idx, 1>>}
              /\ \A p \in EdgesOf(h, 1 .. Len(h)) : p[1] # x.idx
      BY ONLY <2>1, h \in Seq(Appends), x \in Appends, g = Append(h, x),
              op \in {"insert", "update", "delete"},
              x.weight = CASE op = "insert" -> 1 [] op = "update" -> 2 [] OTHER -> 0,
              op = "insert" <=> Latest(h, x.idx) = 0, DegreeStep
  <2>3. QED BY <1>3, <1>5, <1>8, <2>2
<1>12. delta \in Int /\ delta <= 1 /\ (delta = 1 <=> op = "insert")
    OBVIOUS
<1>13. c.deg = a.deg + delta
    OBVIOUS
<1> HIDE DEF delta
<1>14. a.deg \in Int
    BY DEF EdgeArrays
<1>15. c.deg = Cardinality(F) /\ c.deg <= n + 1
    BY <1>9, <1>11, <1>12, <1>13, <1>14
<1>16. ASSUME c.deg = n + 1
       PROVE  Lists(k, n + 1, F)
  <2>1. op = "insert" /\ a.deg = n
      BY <1>9, <1>12, <1>13, <1>14, <1>16
  <2>2. Lists(l, n, E) /\ F = E \cup {<<x.idx, 1>>} /\ \A p \in E : p[1] # x.idx
      BY <1>9, <1>11, <2>1
  <2>3. e.idx = x.idx /\ e.weight = 1
      BY <2>1
  <2>4. {<<k[i].idx, k[i].weight>> : i \in 1 .. (n + 1)} = F
    <3>1. \A i \in 1 .. (n + 1) : <<k[i].idx, k[i].weight>> \in F
      <4>1. TAKE i \in 1 .. (n + 1)
      <4>2. CASE i = n + 1
          BY <1>4, <2>2, <2>3, <4>2
      <4>3. CASE i \in 1 .. n
          BY <1>4, <2>2, <4>3 DEF Lists
      <4>4. QED BY <4>2, <4>3
    <3>2. \A p \in F : \E i \in 1 .. (n + 1) : p = <<k[i].idx, k[i].weight>>
      <4>1. TAKE p \in F
      <4>2. CASE p = <<x.idx, 1>>
        <5>1. n + 1 \in 1 .. (n + 1)
            BY <1>3
        <5>2. QED BY <1>4, <2>3, <4>2, <5>1
      <4>3. CASE p \in E
        <5>1. PICK i \in 1 .. n : p = <<l[i].idx, l[i].weight>>
            BY <2>2, <4>3 DEF Lists
        <5>2. i \in 1 .. (n + 1) /\ k[i] = l[i]
            BY <1>3, <1>4
        <5>3. QED BY <5>1, <5>2
      <4>4. QED BY <2>2, <4>2, <4>3
    <3>3. QED BY <3>1, <3>2
  <2>5. \A i, j \in 1 .. (n + 1) : k[i].idx = k[j].idx => i = j
    <3>1. \A i \in 1 .. n : k[i].idx # x.idx
      <4>1. TAKE i \in 1 .. n
      <4>2. <<l[i].idx, l[i].weight>> \in E
          BY <2>2 DEF Lists
      <4>3. QED BY <1>4, <2>2, <4>2
    <3>2. \A i, j \in 1 .. n : k[i].idx = k[j].idx => i = j
        BY <1>4, <2>2 DEF Lists
    <3>3. k[n + 1].idx = x.idx
        BY <1>4, <2>3
    <3>4. \A i \in 1 .. (n + 1) : i = n + 1 \/ i \in 1 .. n
        OBVIOUS
    <3>5. QED BY <3>1, <3>2, <3>3, <3>4
  <2>6. QED BY <2>4, <2>5 DEF Lists
<1>17. Content(c, g)
  <2>1. Len(c.log) = n + 1 /\ c.log = k
      BY <1>2, <1>4
  <2>2. QED BY <1>5, <1>8, <1>10, <1>11, <1>15, <1>16, <2>1 DEF Content
<1>18. QED BY <1>17

-----------------------------------------------------------------------------
(* The lists of appends. *)

\* What a step may do to the lists of appends: add one append at the current time.
HistStep ==
    /\ clock <= clock'
    /\ \A v \in Offsets' : v \notin Offsets => hist'[v + 1] = <<>>
    /\ \A v \in Offsets :
          /\ v \in Offsets'
          /\ \/ hist'[v + 1] = hist[v + 1]
             \/ \E x \in Appends : x.at = clock /\ hist'[v + 1] = Append(hist[v + 1], x)
    /\ sloppy \subseteq sloppy'

LEMMA NextHist ==
    ASSUME Shape, [Next]_vars
    PROVE  HistStep
<1>a. clock \in Nat /\ clock <= clock
    BY DEF Shape, Types
<1>1. ASSUME UNCHANGED <<clock, table, hist, sloppy>>
      PROVE  HistStep
    BY <1>a, <1>1 DEF HistStep, Offsets
<1>2. ASSUME NEW t \in Threads, FindSrc(t) \/ FindDes(t)
      PROVE  HistStep
  <2>1. PICK id \in Ids : Retrieve(t, id)
      BY <1>2, ThreadFacts DEF FindSrc, FindDes, Placed
  <2>2. UNCHANGED <<clock, mixed, sloppy>>
      BY <1>2 DEF FindSrc, FindDes, settings
  <2>3. /\ \A v \in Offsets : v \in Offsets' /\ hist'[v + 1] = hist[v + 1]
        /\ \A v \in Offsets' : v \in Offsets \/ hist'[v + 1] = <<>>
      BY <2>1, <2>2, RetrieveSound
  <2>4. QED BY <1>a, <2>2, <2>3 DEF HistStep
<1>3. ASSUME NEW t \in Threads, Compact(t)
      PROVE  HistStep
  <2>1. PICK v \in Offsets, w \in Vertices, a \in EdgeArrays, b \in Bitmaps, want \in Nat,
             c \in EdgeArrays : CompactStep(t, v, w, a, b, want, c)
      BY <1>3, CompactStores
  <2>2. UNCHANGED <<hist, sloppy>> /\ clock' = clock + 1
      BY <2>1 DEF CompactStep, ghosts
  <2>3. Offsets' = Offsets
    <3>1. [w EXCEPT !.arr = c] \in Vertices
        BY DEF Vertices
    <3>2. QED BY <2>1, <3>1, TableStore DEF CompactStep
  <2>4. QED BY <1>a, <2>2, <2>3 DEF HistStep
<1>4. ASSUME NEW t \in Threads, Mark(t)
      PROVE  HistStep
  <2>1. PICK v \in Offsets, w \in Vertices, ts \in Nat : MarkStep(t, v, w, ts)
      BY <1>4, MarkStores
  <2>2. UNCHANGED <<clock, hist, sloppy>>
      BY <2>1 DEF MarkStep
  <2>3. Offsets' = Offsets
    <3>1. [w EXCEPT !.del = ts] \in Vertices
        BY DEF Vertices
    <3>2. QED BY <2>1, <3>1, TableStore DEF MarkStep
  <2>4. QED BY <1>a, <2>2, <2>3 DEF HistStep
<1>5. ASSUME NEW t \in Threads, Insert(t)
      PROVE  HistStep
  <2>1. PICK v \in Offsets, w \in Vertices, a \in EdgeArrays, e \in Entries, c \in EdgeArrays,
             m \in Appends : InsertStep(t, v, w, a, e, c, m)
      BY <1>5, InsertStores
  <2>2. /\ clock' = (IF a.stamped THEN clock + 1 ELSE clock) /\ m.at = clock
        /\ hist' = [hist EXCEPT ![v + 1] = Append(hist[v + 1], m)]
        /\ sloppy' = (IF InContract(t) THEN sloppy ELSE sloppy \cup {v})
      BY <2>1 DEF InsertStep
  <2>3. Offsets' = Offsets
    <3>1. [w EXCEPT !.arr = c] \in Vertices
        BY DEF Vertices
    <3>2. QED BY <2>1, <3>1, TableStore DEF InsertStep
  <2>4. clock <= clock'
      BY <1>a, <2>2
  <2>5. sloppy \subseteq sloppy'
      BY <2>2
  <2>6. ASSUME NEW u \in Offsets
        PROVE  IF u = v THEN hist'[u + 1] = Append(hist[u + 1], m) ELSE hist'[u + 1] = hist[u + 1]
    <3>1. u + 1 \in 1 .. Len(hist) /\ u \in Int /\ v \in Int /\ hist \in Seq(Seq(Appends))
        BY VertexFacts DEF Shape, Types
    <3>2. u + 1 \in DOMAIN hist /\ (u + 1 = v + 1 <=> u = v)
        BY <3>1
    <3>3. QED BY <2>2, <3>2
  <2>7. QED BY <2>2, <2>3, <2>4, <2>5, <2>6 DEF HistStep
<1>6. ASSUME NEW switch \in BOOLEAN, NEW sorted \in BOOLEAN, NEW dense \in BOOLEAN,
             CreateSnapshots(switch, sorted, dense)
      PROVE  HistStep
  <2>1. UNCHANGED <<hist, sloppy>>
      BY <1>6 DEF CreateSnapshots
  <2>2. clock' = clock + Len(table) /\ Offsets' = Offsets
      BY <1>6, SnapshotTable
  <2>3. Len(table) \in Nat
      BY DEF Shape, Types
  <2>4. clock <= clock'
      BY <1>a, <2>2, <2>3
  <2>5. QED BY <2>1, <2>2, <2>4 DEF HistStep
<1>7. ASSUME NEW t \in Threads,
             BeginWrite(t) \/ BeginDelete(t) \/ BeginRead(t) \/ FindVertex(t) \/ Pin(t) \/ Scan(t)
                \/ Clear(t) \/ ReturnEdges(t)
      PROVE  UNCHANGED <<clock, table, hist, sloppy>>
    BY <1>7 DEF BeginWrite, BeginDelete, BeginRead, FindVertex, Pin, Scan, Clear, ReturnEdges,
                ghosts
<1>8. ASSUME NEW n, SetNumThreads(n)
      PROVE  UNCHANGED <<clock, table, hist, sloppy>>
    BY <1>8 DEF SetNumThreads, ghosts
<1>9. CASE UNCHANGED vars
    BY <1>1, <1>9 DEF vars, ghosts
<1>10. QED BY <1>1, <1>2, <1>3, <1>4, <1>5, <1>6, <1>7, <1>8, <1>9 DEF Next, Step, Done

\* Appends come in the order of their times, none of them later than the clock.
InTime(h) ==
    /\ \A i \in 1 .. Len(h) : h[i].at <= clock
    /\ \A i, j \in 1 .. Len(h) : i < j => h[i].at <= h[j].at

Timely == \A v \in Offsets : InTime(hist[v + 1])

LEMMA NextTimely ==
    ASSUME Shape, Shape', Timely, HistStep
    PROVE  Timely'
<1>1. SUFFICES ASSUME NEW v \in Offsets'
               PROVE  \A g : g = hist'[v + 1] => InTime(g)'
    BY DEF Timely, InTime
<1>2. CASE v \notin Offsets
    BY <1>2 DEF HistStep, InTime
<1>3. CASE v \in Offsets
  <2>1. PICK h \in Seq(Appends) : h = hist[v + 1]
      BY <1>3, VertexFacts
  <2>2. InTime(h)
      BY <1>3, <2>1 DEF Timely
  <2>3. clock \in Nat /\ clock' \in Nat /\ clock <= clock'
      BY DEF Shape, Types, HistStep
  <2>4. \A i \in 1 .. Len(h) : h[i].at \in Nat
    <3>1. TAKE i \in 1 .. Len(h)
    <3>2. h[i] \in Appends
        BY ElementOfSeq
    <3>3. QED BY <3>2 DEF Appends
  <2>5. CASE hist'[v + 1] = hist[v + 1]
      BY <2>1, <2>2, <2>3, <2>4, <2>5 DEF InTime
  <2>6. ASSUME NEW x \in Appends, x.at = clock, NEW g, g = Append(h, x)
        PROVE  InTime(g)'
    <3>1. PICK m \in Nat : m = Len(h)
        OBVIOUS
    <3>2. Len(g) = m + 1 /\ g[m + 1] = x /\ \A i \in 1 .. m : g[i] = h[i]
        BY <2>6, <3>1
    <3>3. \A i \in 1 .. (m + 1) : i = m + 1 \/ i \in 1 .. m
        OBVIOUS
    <3>4. \A i \in 1 .. m : h[i].at \in Nat /\ h[i].at <= clock
        BY <2>2, <2>4, <3>1 DEF InTime
    <3>5. \A i \in 1 .. (m + 1) : g[i].at <= clock'
        BY <2>3, <2>6, <3>2, <3>3, <3>4
    <3>6. \A i, j \in 1 .. (m + 1) : i < j => g[i].at <= g[j].at
      <4>1. TAKE i, j \in 1 .. (m + 1)
      <4>2. HAVE i < j
      <4>3. i \in 1 .. m
          BY <4>2
      <4>4. CASE j = m + 1
          BY <2>6, <3>2, <3>4, <4>3, <4>4
      <4>5. CASE j \in 1 .. m
          BY <2>2, <3>1, <3>2, <4>2, <4>3, <4>5 DEF InTime
      <4>6. QED BY <3>3, <4>4, <4>5
    <3>7. QED BY <3>2, <3>5, <3>6 DEF InTime
  <2>7. QED BY <1>3, <2>1, <2>5, <2>6 DEF HistStep
<1>4. QED BY <1>2, <1>3

-----------------------------------------------------------------------------
(* The arrays of the vertices and what was appended at them. *)

Contents == \A v \in Offsets : v \notin sloppy => Content(Vertex(v).arr, hist[v + 1])

\* One vertex gets another array, the others keep theirs.
LEMMA StoreContents ==
    ASSUME Shape, Contents, sloppy \subseteq sloppy', NEW v \in Offsets, NEW x \in Vertices,
           table' = [table EXCEPT ![v + 1] = x],
           \A u \in Offsets : u # v => hist'[u + 1] = hist[u + 1],
           NEW g, g = hist'[v + 1], v \notin sloppy' => Content(x.arr, g)
    PROVE  Contents'
<1>1. Offsets' = Offsets /\ Vertex(v)' = x /\ \A u \in Offsets : u # v => Vertex(u)' = Vertex(u)
    BY TableStore
<1>2. ASSUME NEW u \in Offsets', u \notin sloppy'
      PROVE  \A a, h : a = Vertex(u)'.arr /\ h = hist'[u + 1] => Content(a, h)
    BY <1>1, <1>2 DEF Contents
<1>3. QED BY <1>2 DEF Contents, Content, Mirrors, Lists, EdgesOf

LEMMA RetrieveContents ==
    ASSUME Shape, Contents, NEW t \in Threads, NEW id \in Ids, Retrieve(t, id),
           UNCHANGED <<clock, mixed, sloppy>>
    PROVE  Contents'
<1>1. ASSUME NEW u \in Offsets', u \notin sloppy'
      PROVE  \A a, h : a = Vertex(u)'.arr /\ h = hist'[u + 1] => Content(a, h)
  <2>1. CASE u \in Offsets
    <3>1. Vertex(u)' = Vertex(u) /\ hist'[u + 1] = hist[u + 1]
        BY <2>1, RetrieveSound
    <3>2. QED BY <1>1, <2>1, <3>1 DEF Contents
  <2>2. CASE u \notin Offsets
    <3>1. Vertex(u)' = Made(t, id) /\ hist'[u + 1] = <<>>
        BY <2>2, RetrieveSound
    <3>2. Made(t, id).arr = NewArray
        BY DEF Made
    <3>3. QED BY <3>1, <3>2, NewContent
  <2>3. QED BY <2>1, <2>2
<1>2. QED BY <1>1 DEF Contents, Content, Mirrors, Lists, EdgesOf

LEMMA CompactContents ==
    ASSUME Shape, Marks, Timely, Contents, NEW t \in Threads, Compact(t)
    PROVE  Contents'
<1>1. PICK v \in Offsets, w \in Vertices, a \in EdgeArrays, b \in Bitmaps, want \in Nat,
           c \in EdgeArrays : CompactStep(t, v, w, a, b, want, c)
    BY CompactStores
<1> DEFINE x == [w EXCEPT !.arr = c]
<1>2. x \in Vertices /\ x.arr = c
    BY DEF Vertices
<1>3. /\ table' = [table EXCEPT ![v + 1] = x] /\ UNCHANGED <<hist, sloppy>>
      /\ a = Vertex(v).arr /\ c = Compacted(a, b, want, FALSE, clock) /\ Fits(a)
      /\ b = bitmap[t] /\ t \in 0 .. (numThreads - 1)
    BY <1>1 DEF CompactStep, settings, ghosts
<1> HIDE DEF x
<1>4. PICK now \in Nat : now = clock /\ c = Compacted(a, b, want, FALSE, now)
    BY <1>3, ThreadFacts
<1>5. b.bits = {}
  <2>1. th[t].pc = "append"
      BY DEF Compact
  <2>2. QED BY <1>3, <2>1, OutsideScan DEF Marks
<1>6. PICK h \in Seq(Appends) : h = hist[v + 1]
    BY VertexFacts
<1>7. \A i \in 1 .. Len(h) : h[i].at <= now
    BY <1>4, <1>6 DEF Timely, InTime
<1>8. v \notin sloppy => Content(c, h)
  <2>1. SUFFICES ASSUME v \notin sloppy
                 PROVE  Content(c, h)
      OBVIOUS
  <2>2. Content(a, h)
      BY <1>3, <1>6, <2>1 DEF Contents
  <2>3. a.snapDeg <= Len(a.log) /\ mixed \in BOOLEAN
      BY <1>3 DEF Fits, Shape, Types
  <2>4. QED BY <1>4, <1>5, <1>7, <2>2, <2>3, CompactedContent
<1>9. h = hist'[v + 1] /\ sloppy' = sloppy /\ \A u \in Offsets : hist'[u + 1] = hist[u + 1]
    BY <1>3, <1>6
<1>10. QED BY <1>2, <1>3, <1>8, <1>9, StoreContents

LEMMA InsertContents ==
    ASSUME Shape, Contents, NEW t \in Threads, Insert(t)
    PROVE  Contents'
<1>1. PICK v \in Offsets, w \in Vertices, a \in EdgeArrays, e \in Entries, c \in EdgeArrays,
           m \in Appends : InsertStep(t, v, w, a, e, c, m)
    BY InsertStores
<1> DEFINE x == [w EXCEPT !.arr = c]
<1>2. x \in Vertices /\ x.arr = c
    BY DEF Vertices
<1>3. /\ table' = [table EXCEPT ![v + 1] = x] /\ v = th[t].v /\ a = Vertex(v).arr /\ Fits(a)
      /\ hist' = [hist EXCEPT ![v + 1] = Append(hist[v + 1], m)]
      /\ sloppy' = (IF InContract(t) THEN sloppy ELSE sloppy \cup {v})
    BY <1>1 DEF InsertStep
<1> HIDE DEF x
<1>4. PICK h \in Seq(Appends) : h = hist[v + 1]
    BY VertexFacts
<1>5. PICK g : g = Append(h, m)
    OBVIOUS
<1>6. hist'[v + 1] = g /\ \A u \in Offsets : u # v => hist'[u + 1] = hist[u + 1]
  <2>1. \A u \in Offsets : u + 1 \in 1 .. Len(hist) /\ u \in Int
      BY VertexFacts DEF Shape, Types
  <2>2. hist \in Seq(Seq(Appends)) /\ v \in Int
      BY <2>1 DEF Shape, Types
  <2>3. \A u \in Offsets : u + 1 \in DOMAIN hist /\ (u + 1 = v + 1 <=> u = v)
      BY <2>1, <2>2
  <2>4. QED BY <1>3, <1>4, <1>5, <2>3
<1>7. v \notin sloppy' => Content(c, g)
  <2>1. SUFFICES ASSUME v \notin sloppy'
                 PROVE  Content(c, g)
      OBVIOUS
  <2>2. v \notin sloppy /\ InContract(t)
      BY <1>3, <2>1
  <2>3. Content(a, h)
      BY <1>3, <1>4, <2>2 DEF Contents
  <2>4. a.snapDeg <= Len(a.log)
      BY <1>3 DEF Fits
  <2>5. PICK op \in {"insert", "update", "delete"} : op = th[t].op
    <3>1. th[t].pc = "append"
        BY DEF Insert
    <3>2. QED BY <3>1, ThreadFacts DEF Placed
  <2>6. /\ c.log = Append(a.log, e) /\ c.snapDeg = a.snapDeg /\ c.snapTs = a.snapTs
        /\ c.stamped = a.stamped /\ e.idx = m.idx /\ e.weight = m.weight
        /\ (a.stamped => e.stamp = m.at) /\ m.idx = th[t].d
      BY <1>1 DEF InsertStep
  <2>7. m.weight = CASE op = "insert" -> 1 [] op = "update" -> 2 [] OTHER -> 0
      BY <1>1, <2>5 DEF InsertStep, Weight
  <2>8. c.deg = a.deg + (CASE op = "insert" -> 1 [] op = "update" -> 0 [] OTHER -> -1)
      BY <1>1, <2>5 DEF InsertStep, Delta
  <2>9. op = "insert" <=> Latest(h, m.idx) = 0
      BY <1>3, <1>4, <2>2, <2>5, <2>6 DEF InContract
  <2>10. QED BY <1>5, <2>3, <2>4, <2>6, <2>7, <2>8, <2>9, InsertContent
<1>8. sloppy \subseteq sloppy'
    BY <1>3
<1>9. QED BY <1>2, <1>3, <1>6, <1>7, <1>8, StoreContents

LEMMA NextContents ==
    ASSUME Shape, Marks, Timely, Contents, [Next]_vars
    PROVE  Contents'
<1>1. ASSUME UNCHANGED <<table, hist, sloppy>>
      PROVE  Contents'
  <2>1. ASSUME NEW v \in Offsets', v \notin sloppy'
        PROVE  \A a, h : a = Vertex(v)'.arr /\ h = hist'[v + 1] => Content(a, h)
      BY <1>1, <2>1 DEF Contents, Offsets, Vertex
  <2>2. QED BY <2>1 DEF Contents, Content, Mirrors, Lists, EdgesOf
<1>2. ASSUME NEW t \in Threads, FindSrc(t) \/ FindDes(t)
      PROVE  Contents'
  <2>1. PICK id \in Ids : Retrieve(t, id)
      BY <1>2, ThreadFacts DEF FindSrc, FindDes, Placed
  <2>2. UNCHANGED <<clock, mixed, sloppy>>
      BY <1>2 DEF FindSrc, FindDes, settings
  <2>3. QED BY <2>1, <2>2, RetrieveContents
<1>3. ASSUME NEW t \in Threads, Mark(t)
      PROVE  Contents'
  <2>1. PICK v \in Offsets, w \in Vertices, ts \in Nat : MarkStep(t, v, w, ts)
      BY <1>3, MarkStores
  <2> DEFINE x == [w EXCEPT !.del = ts]
  <2>2. x \in Vertices /\ x.arr = w.arr
      BY DEF Vertices
  <2>3. table' = [table EXCEPT ![v + 1] = x] /\ UNCHANGED <<hist, sloppy>> /\ w = Vertex(v)
      BY <2>1 DEF MarkStep
  <2> HIDE DEF x
  <2>4. PICK h : h = hist[v + 1] /\ h = hist'[v + 1]
      BY <2>3
  <2>5. v \notin sloppy => Content(x.arr, h)
      BY <2>2, <2>3, <2>4 DEF Contents
  <2>6. sloppy' = sloppy /\ \A u \in Offsets : hist'[u + 1] = hist[u + 1]
      BY <2>3
  <2>7. QED BY <2>2, <2>3, <2>4, <2>5, <2>6, StoreContents
<1>4. ASSUME NEW switch \in BOOLEAN, NEW sorted \in BOOLEAN, NEW dense \in BOOLEAN,
             CreateSnapshots(switch, sorted, dense)
      PROVE  Contents'
  <2>1. Offsets' = Offsets /\ UNCHANGED <<hist, sloppy>>
      BY <1>4, SnapshotTable DEF CreateSnapshots
  <2>2. ASSUME NEW v \in Offsets, v \notin sloppy
        PROVE  \A a, h : a = Vertex(v)'.arr /\ h = hist'[v + 1] => Content(a, h)
    <3>1. PICK c \in EdgeArrays :
              c = Snapshot(v, sorted, dense) /\ Vertex(v)'.arr = [c EXCEPT !.stamped = mixed']
        BY <1>4, SnapshotTable
    <3>2. PICK a \in EdgeArrays : a = Vertex(v).arr /\ a.snapDeg <= Len(a.log)
        BY VertexFacts DEF Fits
    <3>3. PICK want \in Nat : want = Room(a, dense)
        BY CapacityTypes
    <3>4. PICK now \in Nat : now = clock + v
        BY VertexFacts DEF Shape, Types
    <3>5. PICK b \in Bitmaps : b = bitmap[0] /\ b.bits = {}
      <4>1. AllIdle /\ 0 \in Threads /\ 0 \in 0 .. (numThreads - 1)
          BY <1>4, RadixGraphAssumption DEF CreateSnapshots, Exclusive, Shape, Types
      <4>2. bitmap[0] \in Bitmaps
          BY <4>1 DEF Shape, Types
      <4>3. bitmap[0].bits = {}
          BY <4>1, OutsideScan DEF Marks, AllIdle
      <4>4. QED BY <4>2, <4>3
    <3>6. c = Compacted(a, b, want, sorted, now) /\ mixed \in BOOLEAN
        BY <3>1, <3>2, <3>3, <3>4, <3>5 DEF Snapshot, Shape, Types
    <3>7. PICK h \in Seq(Appends) : h = hist[v + 1]
        BY VertexFacts
    <3>8. \A i \in 1 .. Len(h) : h[i].at <= now
      <4>1. TAKE i \in 1 .. Len(h)
      <4>2. h[i] \in Appends
          BY ElementOfSeq
      <4>3. h[i].at <= clock
          BY <3>7 DEF Timely, InTime
      <4>4. h[i].at \in Nat /\ clock \in Nat /\ v \in Nat
          BY <4>2, VertexFacts DEF Appends, Shape, Types
      <4>5. QED BY <3>4, <4>3, <4>4
    <3>9. Content(a, h)
        BY <2>2, <3>2, <3>7 DEF Contents
    <3>10. PICK d : d = [c EXCEPT !.stamped = mixed']
        OBVIOUS
    <3>11. d.log = c.log /\ d.snapDeg = c.snapDeg /\ d.deg = c.deg /\ d.snapTs = c.snapTs
        BY <3>10 DEF EdgeArrays
    <3>12. Content(d, h)
        BY <3>2, <3>5, <3>6, <3>8, <3>9, <3>11, CompactedContent
    <3>13. QED BY <2>1, <3>1, <3>7, <3>10, <3>12
  <2>3. QED BY <2>1, <2>2 DEF Contents, Content, Mirrors, Lists, EdgesOf
<1>5. ASSUME NEW t \in Threads,
             BeginWrite(t) \/ BeginDelete(t) \/ BeginRead(t) \/ FindVertex(t) \/ Pin(t) \/ Scan(t)
                \/ Clear(t) \/ ReturnEdges(t)
      PROVE  UNCHANGED <<table, hist, sloppy>>
    BY <1>5 DEF BeginWrite, BeginDelete, BeginRead, FindVertex, Pin, Scan, Clear, ReturnEdges,
                ghosts
<1>6. ASSUME NEW n, SetNumThreads(n)
      PROVE  UNCHANGED <<table, hist, sloppy>>
    BY <1>6 DEF SetNumThreads, ghosts
<1>7. CASE UNCHANGED vars
    BY <1>1, <1>7 DEF vars, ghosts
<1>8. QED BY <1>1, <1>2, <1>3, <1>4, <1>5, <1>6, <1>7, CompactContents, InsertContents
          DEF Next, Step, Done

\* deg counts the edges of a vertex, and the snapshot segment is its edges at the time
\* of the snapshot, each once, for callers who keep the contract: LogCompaction
\* (radixgraph.cpp:197-262) and InsertEdge, UpdateEdge and DeleteEdge (lines 10-66).
THEOREM DegreesCount == Spec => []DegreesExact
<1>1. ASSUME Init
      PROVE  Timely /\ Contents
  <2>1. Offsets = {}
      BY <1>1 DEF Init, Offsets
  <2>2. QED BY <2>1 DEF Timely, Contents
<1>2. ASSUME Shape, Contents
      PROVE  DegreesExact
  <2>1. ASSUME NEW v \in Offsets, v \notin sloppy,
               NEW a, a = Vertex(v).arr, NEW h, h = hist[v + 1],
               NEW n, n = Len(h) - (Len(a.log) - a.snapDeg)
        PROVE  /\ a.deg = Cardinality(EdgesOf(h, 1 .. Len(h)))
               /\ IsEdgeList(SubSeq(a.log, 1, a.snapDeg), EdgesOf(h, 1 .. n))
    <3>1. Content(a, h)
        BY <1>2, <2>1 DEF Contents
    <3>2. /\ a.log \in Seq(Entries) /\ Len(a.log) \in Nat /\ a.snapDeg \in Nat
          /\ a.snapDeg <= Len(a.log) /\ Len(h) \in Nat
        BY <1>2, <2>1, VertexFacts DEF Fits, EdgeArrays
    <3>a. \A p, q, r \in Nat : p - (q - r) = r + (p - q)
        OBVIOUS
    <3>3. n = a.snapDeg + (Len(h) - Len(a.log))
        BY <2>1, <3>2, <3>a
    <3>4. PICK sd \in Nat : sd = a.snapDeg
        BY <3>2
    <3>5. Lists(a.log, sd, EdgesOf(h, 1 .. n))
        BY <3>1, <3>3, <3>4 DEF Content, Mirrors
    <3>6. PICK s : s = SubSeq(a.log, 1, sd)
        OBVIOUS
    <3>7. DOMAIN s = 1 .. sd /\ \A i \in 1 .. sd : s[i] = a.log[i]
        BY <3>2, <3>4, <3>6
    <3>8. Lists(s, sd, EdgesOf(h, 1 .. n))
        BY <3>5, <3>7, SameList
    <3>9. IsEdgeList(s, EdgesOf(h, 1 .. n))
        BY <3>7, <3>8 DEF Lists, IsEdgeList
    <3>10. QED BY <3>1, <3>4, <3>6, <3>9 DEF Content
  <2>2. QED BY <2>1 DEF DegreesExact
<1>3. QED BY <1>1, <1>2, InitShape, NextShape, InitMarks, NextMarks, NextHist, NextTimely,
             NextContents, PTL DEF Spec

-----------------------------------------------------------------------------
(* Reads. *)

\* The number of appends that a read with the local state l sees.
Span(l) == l.cnt + (l.seen - Len(l.arr.log))

\* What a read with the local state l has, h being the appends at its vertex: the array
\* stands for the first l.seen of them, those that the time asked for makes visible are
\* the first Span(l), and got is the part of their edges that the scan has come to.
ReadRight(l, h) ==
    /\ l.seen <= Len(h) /\ Mirrors(l.arr, h, l.seen)
    /\ {i \in 1 .. l.seen : l.arr.stamped => h[i].at <= l.ts} = 1 .. Span(l) /\ Span(l) \in Nat
    /\ l.pc \in {"scan", "clear"} =>
          Lists(l.got, Len(l.got), EdgesAt(l.arr, Wanted(l.arr, l.cnt, l.pos)))
    /\ l.pc = "done" => Lists(l.got, Len(l.got), EdgesOf(h, 1 .. Span(l)))

Reads(l) == l.pc \in {"scan", "clear", "done"}

Readers ==
    \A t \in Threads :
        Reads(th[t]) /\ th[t].v \notin sloppy => ReadRight(th[t], hist[th[t].v + 1])

\* More appends do not matter to a read.
LEMMA ReadStays ==
    ASSUME NEW l \in Locals, l.arr \in EdgeArrays, NEW h \in Seq(Appends), ReadRight(l, h),
           NEW g \in Seq(Appends), Len(h) <= Len(g), \A i \in 1 .. Len(h) : g[i] = h[i]
    PROVE  ReadRight(l, g)
<1>1. PICK m \in Nat, n \in Nat, o \in Nat : m = l.seen /\ n = Len(h) /\ o = Len(g) /\ m <= n /\ n <= o
  <2>1. l.seen \in Nat /\ Len(h) \in Nat /\ Len(g) \in Nat
      BY DEF Locals
  <2>2. QED BY <2>1 DEF ReadRight
<1>2. \A i \in 1 .. m : g[i] = h[i]
    BY <1>1
<1>3. Mirrors(l.arr, g, m)
  <2>1. Mirrors(l.arr, h, m)
      BY <1>1 DEF ReadRight
  <2>2. QED BY <1>2, <2>1, MirrorsStay
<1>4. PICK k \in Nat : k = Span(l) /\ {i \in 1 .. m : l.arr.stamped => h[i].at <= l.ts} = 1 .. k
    BY <1>1 DEF ReadRight
<1>5. {i \in 1 .. m : l.arr.stamped => g[i].at <= l.ts} = 1 .. k
  <2>1. {i \in 1 .. m : l.arr.stamped => g[i].at <= l.ts}
           = {i \in 1 .. m : l.arr.stamped => h[i].at <= l.ts}
      BY <1>2
  <2>2. QED BY <1>4, <2>1
<1>6. EdgesOf(g, 1 .. k) = EdgesOf(h, 1 .. k)
  <2>1. \A i \in 1 .. k : g[i] = h[i]
      BY <1>2, <1>4
  <2>2. QED BY <2>1, SamePrefix
<1>7. l.seen <= Len(g)
    BY <1>1
<1>8. QED BY <1>1, <1>3, <1>4, <1>5, <1>6, <1>7 DEF ReadRight

\* The lists of appends, for the reads.
LEMMA HistReads ==
    ASSUME Shape, HistStep, NEW v \in Offsets, NEW l \in Locals, l.arr \in EdgeArrays,
           ReadRight(l, hist[v + 1]), NEW g, g = hist'[v + 1]
    PROVE  ReadRight(l, g)
<1>1. PICK h \in Seq(Appends) : h = hist[v + 1]
    BY VertexFacts
<1>2. CASE g = h
    BY <1>1, <1>2
<1>3. ASSUME NEW x \in Appends, g = Append(h, x)
      PROVE  ReadRight(l, g)
  <2>1. PICK n \in Nat : n = Len(h)
      OBVIOUS
  <2>2. g \in Seq(Appends) /\ Len(g) = n + 1 /\ \A i \in 1 .. n : g[i] = h[i]
      BY <1>3, <2>1
  <2>3. QED BY <1>1, <2>1, <2>2, ReadStays
<1>4. QED BY <1>1, <1>2, <1>3 DEF HistStep

LEMMA ReadersStep ==
    ASSUME Shape, Readers, HistStep, NEW t \in Threads, NEW l, th' = [th EXCEPT ![t] = l],
           Reads(l) /\ l.v \notin sloppy' => \A g : g = hist'[l.v + 1] => ReadRight(l, g)
    PROVE  Readers'
<1>1. ASSUME NEW u \in Threads
      PROVE  \A k, g : k = th'[u] /\ g = hist'[k.v + 1] /\ Reads(k) /\ k.v \notin sloppy'
                          => ReadRight(k, g)
  <2>1. CASE u = t
    <3>1. th'[u] = l
        BY <2>1, ThreadFacts DEF Shape, Types
    <3>2. QED BY <3>1
  <2>2. CASE u # t
    <3>1. PICK k \in Locals : k = th[u] /\ k = th'[u] /\ Placed(u, k)
        BY <2>2, ThreadFacts DEF Shape, Types
    <3>2. SUFFICES ASSUME Reads(k), k.v \notin sloppy', NEW g, g = hist'[k.v + 1]
                   PROVE  ReadRight(k, g)
        BY <3>1
    <3>3. k.v \in Offsets /\ k.arr \in EdgeArrays
        BY <3>1, <3>2 DEF Placed, Reads
    <3>4. k.v \notin sloppy
        BY <3>2 DEF HistStep
    <3>5. ReadRight(k, hist[k.v + 1])
        BY <3>1, <3>2, <3>4 DEF Readers
    <3>6. QED BY <3>2, <3>3, <3>5, HistReads
  <2>3. QED BY <2>1, <2>2
<1>2. QED BY <1>1 DEF Readers, Reads, ReadRight, Span, Mirrors, Lists, EdgesOf, EdgesAt, Wanted

\* Threads that begin or end no scan.
LEMMA OtherReaders ==
    ASSUME Shape, Readers, HistStep, NEW t \in Threads,
           BeginWrite(t) \/ BeginDelete(t) \/ BeginRead(t) \/ FindSrc(t) \/ FindDes(t)
              \/ Insert(t) \/ Mark(t) \/ FindVertex(t) \/ ReturnEdges(t)
    PROVE  Readers'
<1>1. PICK l : th' = [th EXCEPT ![t] = l] /\ ~Reads(l)
    BY QuietLocal DEF Reads
<1>2. QED BY <1>1, ReadersStep

\* One more entry in a list.
LEMMA ListsAppended ==
    ASSUME NEW s \in Seq(Entries), NEW e \in Entries, NEW E, Lists(s, Len(s), E),
           \A p \in E : p[1] # e.idx, NEW r, r = Append(s, e)
    PROVE  Lists(r, Len(r), E \cup {<<e.idx, e.weight>>})
<1>1. PICK n \in Nat : n = Len(s)
    OBVIOUS
<1>2. Len(r) = n + 1 /\ r[n + 1] = e /\ \A i \in 1 .. n : r[i] = s[i]
    BY <1>1
<1>3. \A i \in 1 .. (n + 1) : i = n + 1 \/ i \in 1 .. n
    OBVIOUS
<1>4. n + 1 \in 1 .. (n + 1) /\ \A i \in 1 .. n : i \in 1 .. (n + 1)
    OBVIOUS
<1>5. /\ {<<s[i].idx, s[i].weight>> : i \in 1 .. n} = E
      /\ \A i, j \in 1 .. n : s[i].idx = s[j].idx => i = j
    BY <1>1 DEF Lists
<1>6. {<<r[i].idx, r[i].weight>> : i \in 1 .. (n + 1)} = E \cup {<<e.idx, e.weight>>}
    BY <1>2, <1>3, <1>4, <1>5
<1>7. \A i \in 1 .. n : r[i].idx # e.idx
  <2>1. TAKE i \in 1 .. n
  <2>2. <<s[i].idx, s[i].weight>> \in E
      BY <1>5
  <2>3. QED BY <1>2, <2>2
<1>8. \A i, j \in 1 .. (n + 1) : r[i].idx = r[j].idx => i = j
    BY <1>2, <1>3, <1>5, <1>7
<1>9. QED BY <1>2, <1>6, <1>8 DEF Lists

\* What the scan makes of the entry at i: it is wanted if it is no deletion and no later
\* entry of the log segment has its destination.
LEMMA WantedStep ==
    ASSUME NEW a \in EdgeArrays, NEW n \in Nat, NEW i \in 1 .. n
    PROVE  LET wanted == /\ a.log[i].weight # 0
                         /\ \A j \in (a.snapDeg + 1) .. n : j > i => a.log[j].idx # a.log[i].idx
           IN  /\ wanted => Wanted(a, n, i - 1) = Wanted(a, n, i) \cup {i}
               /\ ~wanted => Wanted(a, n, i - 1) = Wanted(a, n, i)
<1>1. i - 1 + 1 = i /\ \A j \in i .. n : j = i \/ j \in (i + 1) .. n
    OBVIOUS
<1>2. i \in i .. n /\ \A j \in (i + 1) .. n : j \in i .. n
    OBVIOUS
<1>3. QED BY <1>1, <1>2 DEF Wanted

LEMMA PinRight ==
    ASSUME NEW a \in EdgeArrays, a.snapDeg <= Len(a.log), NEW h \in Seq(Appends), Content(a, h),
           InTime(h), NEW ts \in Nat, a.snapTs <= ts, NEW n, n = LastVisible(a, ts),
           NEW l \in Locals, l.arr = a, l.cnt = n, l.seen = Len(h), l.ts = ts, l.pos = n,
           \/ l.pc = "done" /\ n = a.snapDeg /\ l.got = SubSeq(a.log, 1, n)
           \/ l.pc = "scan" /\ l.got = <<>>
    PROVE  ReadRight(l, h)
<1>1. PICK sd \in Nat, len \in Nat, m \in Nat :
          sd = a.snapDeg /\ len = Len(a.log) /\ m = Len(h) /\ a.log \in Seq(Entries)
  <2>1. a.snapDeg \in Nat /\ a.log \in Seq(Entries)
      BY DEF EdgeArrays
  <2>2. Len(a.log) \in Nat /\ Len(h) \in Nat
      BY <2>1
  <2>3. QED BY <2>1, <2>2
<1>a. /\ n \in Nat /\ a.snapDeg <= n /\ n <= Len(a.log)
      /\ ~a.stamped => n = Len(a.log)
      /\ a.stamped => /\ n > a.snapDeg => a.log[n].stamp <= ts
                      /\ \A i \in (a.snapDeg + 1) .. Len(a.log) : i > n => ~(a.log[i].stamp <= ts)
    BY ONLY a \in EdgeArrays, a.snapDeg <= Len(a.log), ts \in Nat, n = LastVisible(a, ts),
            LastVisibleSound
<1>2. PICK k \in Nat : k = n /\ sd <= k /\ k <= len
    BY <1>1, <1>a
<1>3. PICK x \in Int : x = m - len
    OBVIOUS
<1>4. PICK r \in Nat : r = sd + x /\ r <= m
  <2>1. sd + x \in 0 .. m
      BY <1>1, <1>3 DEF Content, Mirrors
  <2>2. QED BY <2>1
<1>5. /\ Mirrors(a, h, m)
      /\ \A i \in (sd + 1) .. len : a.stamped => a.log[i].stamp = h[i + x].at
      /\ Lists(a.log, sd, EdgesOf(h, 1 .. r))
      /\ \A i \in 1 .. r : h[i].at <= a.snapTs
    BY <1>1, <1>3, <1>4 DEF Content, Mirrors
<1>6. PICK q \in Nat : q = k + x /\ q <= m /\ r <= q
  <2>1. k + x \in Nat /\ k + x <= m /\ r <= k + x
      BY <1>2, <1>3, <1>4
  <2>2. QED BY <2>1
<1>7. \A i \in 1 .. m : h[i].at \in Nat
  <2>1. TAKE i \in 1 .. m
  <2>2. h[i] \in Appends
      BY <1>1, ElementOfSeq
  <2>3. QED BY <2>2 DEF Appends
<1>8. ASSUME a.stamped, NEW i \in 1 .. m
      PROVE  h[i].at <= ts <=> i <= q
  <2>1. CASE i <= r
    <3>1. h[i].at <= a.snapTs /\ h[i].at \in Nat /\ a.snapTs \in Nat
        BY <1>5, <1>7, <2>1 DEF EdgeArrays
    <3>2. QED BY <1>6, <2>1, <3>1
  <2>2. CASE r < i /\ i <= q
    <3>1. k \in (sd + 1) .. len /\ k + x = q /\ q \in 1 .. m
        BY <1>2, <1>4, <1>6, <2>2
    <3>2. a.log[k].stamp <= ts
        BY <1>1, <1>2, <1>8, <1>a, <3>1
    <3>3. h[q].at <= ts
        BY <1>5, <1>8, <3>1, <3>2
    <3>4. h[i].at <= h[q].at
      <4>1. i \in 1 .. Len(h) /\ q \in 1 .. Len(h) /\ i <= q
          BY <1>1, <2>2, <3>1
      <4>2. CASE i = q
          BY <1>7, <3>1, <4>2
      <4>3. CASE i < q
          BY ONLY InTime(h), <4>1, <4>3 DEF InTime
      <4>4. QED BY <4>1, <4>2, <4>3
    <3>5. h[i].at \in Nat /\ h[q].at \in Nat
        BY <1>7, <3>1
    <3>6. QED BY <2>2, <3>3, <3>4, <3>5
  <2>3. CASE i > q
    <3>1. PICK j \in (sd + 1) .. len : j = i - x /\ j > k /\ j + x = i
      <4>1. i - x \in (sd + 1) .. len /\ i - x > k /\ i - x + x = i
          BY <1>2, <1>3, <1>4, <1>6, <2>3
      <4>2. QED BY <4>1
    <3>2. ~(a.log[j].stamp <= ts)
        BY <1>1, <1>2, <1>8, <1>a, <3>1
    <3>3. a.log[j].stamp = h[i].at
        BY <1>5, <1>8, <3>1
    <3>4. QED BY <2>3, <3>2, <3>3
  <2>4. QED BY <1>4, <1>6, <2>1, <2>2, <2>3
<1>9. {i \in 1 .. m : a.stamped => h[i].at <= ts} = 1 .. q
  <2>1. CASE a.stamped
    <3>1. \A i \in 1 .. m : (a.stamped => h[i].at <= ts) <=> i \in 1 .. q
        BY <1>8, <2>1
    <3>2. \A i \in 1 .. q : i \in 1 .. m
        BY <1>6
    <3>3. QED BY <3>1, <3>2
  <2>2. CASE ~a.stamped
    <3>1. n = Len(a.log)
        BY <1>a, <2>2
    <3>2. q = m
        BY <1>1, <1>2, <1>3, <1>6, <3>1
    <3>3. QED BY <2>2, <3>2
  <2>3. QED BY <2>1, <2>2
<1>10. Span(l) = q
    BY <1>1, <1>2, <1>3, <1>6 DEF Span
<1>11. l.seen <= Len(h) /\ l.seen = m
    BY <1>1
<1>12. CASE l.pc = "done"
  <2>1. n = sd /\ q = r /\ l.got = SubSeq(a.log, 1, sd)
      BY <1>1, <1>2, <1>4, <1>6, <1>12
  <2>2. Len(l.got) = sd /\ \A i \in 1 .. sd : l.got[i] = a.log[i]
      BY <1>1, <1>2, <2>1
  <2>a. Lists(l.got, sd, EdgesOf(h, 1 .. r))
      BY <1>5, <2>2, SameList
  <2>3. Lists(l.got, Len(l.got), EdgesOf(h, 1 .. q))
      BY <2>1, <2>2, <2>a
  <2>4. QED BY <1>5, <1>9, <1>10, <1>11, <1>12, <2>3 DEF ReadRight
<1>13. CASE l.pc = "scan"
  <2>1. Wanted(a, n, n) = {}
      BY <1>2 DEF Wanted
  <2>2. Lists(l.got, 0, {}) /\ Len(l.got) = 0
      BY <1>13 DEF Lists
  <2>3. EdgesAt(a, {}) = {}
      BY DEF EdgesAt
  <2>4. Lists(l.got, Len(l.got), EdgesAt(l.arr, Wanted(l.arr, l.cnt, l.pos)))
      BY <2>1, <2>2, <2>3
  <2>5. QED BY <1>5, <1>9, <1>10, <1>11, <1>13, <2>4 DEF ReadRight
<1>14. QED BY <1>12, <1>13

\* One entry of the scan.
LEMMA ScanRight ==
    ASSUME NEW k \in Locals, k.arr \in EdgeArrays, k.arr.snapDeg <= k.cnt,
           k.cnt <= Len(k.arr.log), k.pc = "scan", k.pos \in 1 .. k.cnt,
           NEW h \in Seq(Appends), ReadRight(k, h),
           NEW e \in Entries, e = k.arr.log[k.pos], NEW new \in BOOLEAN,
           new <=> \A j \in (k.arr.snapDeg + 1) .. k.cnt : j > k.pos => k.arr.log[j].idx # e.idx,
           NEW l \in Locals, l.arr = k.arr, l.cnt = k.cnt, l.seen = k.seen, l.ts = k.ts,
           l.pos = k.pos - 1, l.pc \in {"scan", "clear"},
           l.got = IF new /\ e.weight # 0 THEN Append(k.got, e) ELSE k.got
    PROVE  ReadRight(l, h)
<1>1. PICK a \in EdgeArrays, n \in Nat, i \in Nat, m \in Nat :
          a = k.arr /\ n = k.cnt /\ i = k.pos /\ i \in 1 .. n /\ m = k.seen
    BY DEF Locals
<1>2. PICK E : E = EdgesAt(a, Wanted(a, n, i))
    OBVIOUS
<1>3. k.got \in Seq(Entries) /\ Lists(k.got, Len(k.got), E)
    BY <1>1, <1>2 DEF ReadRight, Locals
<1> DEFINE wanted == /\ a.log[i].weight # 0
                     /\ \A j \in (a.snapDeg + 1) .. n : j > i => a.log[j].idx # a.log[i].idx
<1>a. /\ wanted => Wanted(a, n, i - 1) = Wanted(a, n, i) \cup {i}
      /\ ~wanted => Wanted(a, n, i - 1) = Wanted(a, n, i)
    BY ONLY <1>1, a \in EdgeArrays, n \in Nat, WantedStep
<1>b. wanted <=> (new /\ e.weight # 0)
    BY <1>1
<1> HIDE DEF wanted
<1>4. Lists(l.got, Len(l.got), EdgesAt(a, Wanted(a, n, i - 1)))
  <2>1. CASE new /\ e.weight # 0
    <3>1. Wanted(a, n, i - 1) = Wanted(a, n, i) \cup {i}
        BY <1>a, <1>b, <2>1
    <3>2. EdgesAt(a, Wanted(a, n, i - 1)) = E \cup {<<e.idx, e.weight>>}
      <4>1. PICK W : W = Wanted(a, n, i)
          OBVIOUS
      <4>2. EdgesAt(a, W \cup {i}) = EdgesAt(a, W) \cup {<<a.log[i].idx, a.log[i].weight>>}
          BY ONLY TRUE DEF EdgesAt
      <4>3. a.log[i] = e
          BY <1>1
      <4>4. QED BY ONLY <1>2, <3>1, <4>1, <4>2, <4>3
    <3>3. \A p \in E : p[1] # e.idx
      <4>1. TAKE p \in E
      <4>2. PICK j \in Wanted(a, n, i) : p = <<a.log[j].idx, a.log[j].weight>>
          BY <1>2 DEF EdgesAt
      <4>3. i \in Wanted(a, n, 0) /\ j \in Wanted(a, n, 0) /\ j # i
        <5>1. i \in Wanted(a, n, i - 1) /\ j \in Wanted(a, n, i - 1)
            BY <3>1
        <5>2. \A y \in (i - 1 + 1) .. n : y \in (0 + 1) .. n
            BY <1>1
        <5>3. i \notin (i + 1) .. n
            OBVIOUS
        <5>4. QED BY <4>2, <5>1, <5>2, <5>3 DEF Wanted
      <4>4. \A y, z \in Wanted(a, n, 0) : a.log[y].idx = a.log[z].idx => y = z
        <5>1. Mirrors(a, h, m)
            BY <1>1 DEF ReadRight
        <5>2. n \in a.snapDeg .. Len(a.log)
            BY <1>1 DEF EdgeArrays
        <5>3. QED BY <5>1, <5>2, WantedEdges
      <4>5. a.log[i].idx = e.idx
          BY <1>1
      <4>6. QED BY <4>2, <4>3, <4>4, <4>5
    <3>4. l.got = Append(k.got, e)
        BY <2>1
    <3>5. PICK r : r = Append(k.got, e)
        OBVIOUS
    <3>6. Lists(r, Len(r), E \cup {<<e.idx, e.weight>>})
        BY ONLY <1>3, <3>3, <3>5, e \in Entries, ListsAppended
    <3>7. QED BY <3>2, <3>4, <3>5, <3>6
  <2>2. CASE ~(new /\ e.weight # 0)
    <3>1. Wanted(a, n, i - 1) = Wanted(a, n, i)
        BY <1>a, <1>b, <2>2
    <3>2. QED BY <1>2, <1>3, <2>2, <3>1
  <2>3. QED BY <2>1, <2>2
<1>5. Span(l) = Span(k)
    BY DEF Span
<1>6. l.pc # "done"
    OBVIOUS
<1>7. Lists(l.got, Len(l.got), EdgesAt(l.arr, Wanted(l.arr, l.cnt, l.pos)))
    BY <1>1, <1>4
<1>8. QED BY <1>5, <1>6, <1>7 DEF ReadRight

\* At the end of the scan, got is all the edges.
LEMMA ClearRight ==
    ASSUME NEW k \in Locals, k.arr \in EdgeArrays, k.arr.snapDeg <= k.cnt,
           k.cnt <= Len(k.arr.log), k.pc = "clear", k.pos = 0,
           NEW h, ReadRight(k, h),
           NEW l \in Locals, l.arr = k.arr, l.cnt = k.cnt, l.seen = k.seen, l.ts = k.ts,
           l.pc = "done", l.got = k.got
    PROVE  ReadRight(l, h)
<1>1. PICK a \in EdgeArrays, n \in Nat, m \in Nat : a = k.arr /\ n = k.cnt /\ m = k.seen
    BY DEF Locals
<1>2. Mirrors(a, h, m) /\ n \in a.snapDeg .. Len(a.log)
    BY <1>1 DEF ReadRight, EdgeArrays
<1>3. EdgesAt(a, Wanted(a, n, 0)) = EdgesOf(h, 1 .. (n + (m - Len(a.log))))
    BY ONLY a \in EdgeArrays, m \in Nat, <1>2, WantedEdges, Zenon
<1>4. Span(l) = Span(k) /\ Span(k) = n + (m - Len(a.log))
    BY <1>1 DEF Span
<1>5. Lists(l.got, Len(l.got), EdgesOf(h, 1 .. Span(l)))
    BY <1>1, <1>3, <1>4 DEF ReadRight
<1>6. QED BY <1>4, <1>5 DEF ReadRight

\* The scan steps of a thread, for the reads.
LEMMA PinReaders ==
    ASSUME Shape, Timely, Contents, Readers, HistStep, NEW t \in Threads, Pin(t)
    PROVE  Readers'
<1>1. th[t].pc = "pin" /\ UNCHANGED <<hist, sloppy>>
    BY DEF Pin
<1>2. PICK k \in Locals : k = th[t] /\ Placed(t, k)
    BY ThreadFacts
<1>3. PICK v \in Offsets : v = k.v
    BY <1>1, <1>2 DEF Placed
<1>4. PICK a \in EdgeArrays : a = Vertex(v).arr /\ Fits(a)
    BY VertexFacts
<1>5. PICK ts \in Nat : ts = k.ts
    BY <1>2 DEF Locals
<1>6. PICK n \in Nat : n = LastVisible(a, ts) /\ a.snapDeg <= n /\ n <= Len(a.log)
  <2>1. a.snapDeg <= Len(a.log)
      BY <1>4 DEF Fits
  <2>2. QED BY <2>1, LastVisibleSound
<1>7. PICK h \in Seq(Appends), m \in Nat : h = hist[v + 1] /\ m = Len(h)
  <2>1. PICK h \in Seq(Appends) : h = hist[v + 1]
      BY VertexFacts
  <2>2. Len(h) \in Nat
      OBVIOUS
  <2>3. QED BY <2>1, <2>2
<1>8. PICK got \in Seq(Entries) : got = IF n = a.snapDeg THEN SubSeq(a.log, 1, n) ELSE <<>>
  <2>1. a.log \in Seq(Entries)
      BY DEF EdgeArrays
  <2>2. \A i \in 1 .. n : a.log[i] \in Entries
      BY <1>6, <2>1, ElementOfSeq
  <2>3. SubSeq(a.log, 1, n) \in Seq(Entries)
      BY <2>2, SubSeqProperties
  <2>4. <<>> \in Seq(Entries)
      OBVIOUS
  <2>5. QED BY <2>3, <2>4
<1>9. PICK pc \in {"done", "scan"} : pc = IF n = a.snapDeg THEN "done" ELSE "scan"
    OBVIOUS
<1>10. CASE th' = [th EXCEPT ![t] = Idle]
  <2>1. ~Reads(Idle)
      BY IdleIsLocal DEF Reads
  <2>2. QED BY <1>10, <2>1, ReadersStep
<1>11. CASE a.snapTs <= ts
            /\ th' = [th EXCEPT ![t].arr = a, ![t].cnt = n, ![t].seen = m, ![t].pc = pc, ![t].pos = n,
                                ![t].got = got]
  <2> DEFINE l == [k EXCEPT !.arr = a, !.cnt = n, !.seen = m, !.pc = pc, !.pos = n, !.got = got]
  <2>1. /\ l \in Locals /\ l.pc = pc /\ l.v = v /\ l.arr = a /\ l.cnt = n /\ l.pos = n
        /\ l.seen = m /\ l.ts = ts /\ l.got = got
      BY <1>2, <1>3, <1>5 DEF Locals, Pcs
  <2>2. th' = [th EXCEPT ![t] = l]
      BY <1>2, <1>11
  <2> HIDE DEF l
  <2>3. a.snapDeg <= Len(a.log)
      BY <1>4 DEF Fits
  <2>4. \/ l.pc = "done" /\ n = a.snapDeg /\ l.got = SubSeq(a.log, 1, n)
        \/ l.pc = "scan" /\ l.got = <<>>
      BY <1>8, <1>9, <2>1
  <2>5. v \notin sloppy => ReadRight(l, h)
    <3>1. SUFFICES ASSUME v \notin sloppy
                   PROVE  ReadRight(l, h)
        OBVIOUS
    <3>2. Content(a, h) /\ InTime(h)
        BY <1>4, <1>7, <3>1 DEF Contents, Timely
    <3>3. l.seen = Len(h) /\ a.snapTs <= ts
        BY <1>7, <1>11, <2>1
    <3>4. QED BY <1>6, <2>1, <2>3, <2>4, <3>2, <3>3, PinRight
  <2>6. QED BY <1>1, <1>7, <2>1, <2>2, <2>5, ReadersStep
<1>12. QED
  <2>1. th[t].v = v /\ th[t].ts = ts /\ Vertex(th[t].v).arr = a /\ Len(hist[th[t].v + 1]) = m
      BY <1>2, <1>3, <1>4, <1>5, <1>7
  <2>2. a.snapTs > ts \/ a.snapTs <= ts
      BY DEF EdgeArrays
  <2>3. QED BY <1>6, <1>8, <1>9, <1>10, <1>11, <2>1, <2>2 DEF Pin, Refuse

LEMMA ScanReaders ==
    ASSUME Shape, Marks, Readers, HistStep, NEW t \in Threads, Scan(t)
    PROVE  Readers'
<1>1. PICK k \in Locals : k = th[t] /\ Placed(t, k)
    BY ThreadFacts
<1>2. k.pc = "scan" /\ t \in 0 .. (numThreads - 1) /\ k.arr \in EdgeArrays
      /\ k.cnt \in Nat /\ k.pos \in 1 .. k.cnt /\ k.arr.snapDeg <= k.cnt /\ k.cnt <= Len(k.arr.log)
      /\ k.arr.log \in Seq(Entries) /\ k.arr.snapDeg \in Nat
    BY <1>1 DEF Scan, Placed, Locals, EdgeArrays
<1>3. PICK i \in 1 .. Len(k.arr.log) : i = k.pos
    BY <1>2
<1>4. PICK e \in Entries : e = k.arr.log[i]
    BY <1>2, ElementOfSeq
<1>5. PICK b \in Bitmaps : b = bitmap[t]
    BY <1>2, ThreadFacts
<1>6. PICK new \in BOOLEAN : new = ~GetBit(b, e.idx, L)
    OBVIOUS
<1>7. PICK got \in Seq(Entries) : got = IF new /\ e.weight # 0 THEN Append(k.got, e) ELSE k.got
  <2>1. k.got \in Seq(Entries)
      BY DEF Locals
  <2>2. Append(k.got, e) \in Seq(Entries)
      BY <2>1
  <2>3. QED BY <2>1, <2>2
<1>8. PICK pc \in {"clear", "scan"} : pc = IF i = 1 THEN "clear" ELSE "scan"
    OBVIOUS
<1>a. PICK pos \in Nat : pos = i - 1
    BY <1>3
<1> DEFINE l == [k EXCEPT !.got = got, !.pos = pos, !.pc = pc]
<1>9. /\ l \in Locals /\ l.pc = pc /\ l.arr = k.arr /\ l.cnt = k.cnt /\ l.pos = pos
      /\ l.seen = k.seen /\ l.ts = k.ts /\ l.got = got /\ l.v = k.v
    BY DEF Locals, Pcs
<1>10. th' = [th EXCEPT ![t] = l]
  <2>1. th' = [th EXCEPT ![t].got = got, ![t].pos = i - 1, ![t].pc = pc]
      BY <1>1, <1>3, <1>4, <1>5, <1>6, <1>7, <1>8 DEF Scan, BitmapOf
  <2>2. QED BY <1>1, <1>a, <2>1
<1> HIDE DEF l
<1>11. InBounds(b) /\ b.bits = MarkedBy(k)
    BY <1>1, <1>2, <1>5 DEF Marks
<1>12. new <=> e.idx \notin b.bits
    BY <1>6, <1>11 DEF GetBit, InBounds
<1>13. new <=> \A j \in (k.arr.snapDeg + 1) .. k.cnt : j > k.pos => k.arr.log[j].idx # e.idx
  <2>1. MarkedBy(k) = {k.arr.log[j].idx : j \in {j \in (k.arr.snapDeg + 1) .. k.cnt : j > k.pos}}
      BY <1>2 DEF MarkedBy
  <2>2. QED BY <1>11, <1>12, <2>1
<1>14. PICK v \in Offsets : v = k.v
    BY <1>1, <1>2 DEF Placed
<1>15. PICK h \in Seq(Appends) : h = hist[v + 1]
    BY <1>14, VertexFacts
<1>16. UNCHANGED <<hist, sloppy>>
    BY DEF Scan, ghosts
<1>17. v \notin sloppy => ReadRight(l, h)
  <2>1. SUFFICES ASSUME v \notin sloppy
                 PROVE  ReadRight(l, h)
      OBVIOUS
  <2>2. ReadRight(k, h)
      BY <1>1, <1>2, <1>14, <1>15, <2>1 DEF Readers, Reads
  <2>3. e = k.arr.log[k.pos] /\ l.pos = k.pos - 1 /\ l.pc \in {"scan", "clear"}
        /\ l.got = IF new /\ e.weight # 0 THEN Append(k.got, e) ELSE k.got
      BY <1>3, <1>4, <1>7, <1>8, <1>9, <1>a
  <2>4. QED BY ONLY k \in Locals, h \in Seq(Appends), e \in Entries, new \in BOOLEAN,
                    <1>2, <1>9, <1>13, <2>2, <2>3, ScanRight
<1>18. QED BY <1>9, <1>10, <1>14, <1>15, <1>16, <1>17, ReadersStep

LEMMA ClearReaders ==
    ASSUME Shape, Marks, Readers, HistStep, NEW t \in Threads, Clear(t)
    PROVE  Readers'
<1>1. PICK k \in Locals : k = th[t] /\ Placed(t, k)
    BY ThreadFacts
<1>2. /\ k.pc = "clear" /\ k.arr \in EdgeArrays /\ k.arr.snapDeg <= k.cnt
      /\ k.cnt <= Len(k.arr.log) /\ k.pos = 0
    BY <1>1 DEF Clear, Placed, Marks
<1> DEFINE l == [k EXCEPT !.pc = "done"]
<1>3. /\ l \in Locals /\ l.pc = "done" /\ l.arr = k.arr /\ l.cnt = k.cnt
      /\ l.seen = k.seen /\ l.ts = k.ts /\ l.got = k.got /\ l.v = k.v
    BY DEF Locals, Pcs
<1>4. th' = [th EXCEPT ![t] = l] /\ UNCHANGED <<hist, sloppy>>
    BY <1>1 DEF Clear, Goto, ghosts
<1> HIDE DEF l
<1>5. PICK v \in Offsets : v = k.v
    BY <1>1, <1>2 DEF Placed
<1>6. PICK h : h = hist[v + 1]
    OBVIOUS
<1>7. v \notin sloppy => ReadRight(l, h)
  <2>1. SUFFICES ASSUME v \notin sloppy
                 PROVE  ReadRight(l, h)
      OBVIOUS
  <2>2. ReadRight(k, h)
      BY <1>1, <1>2, <1>5, <1>6, <2>1 DEF Readers, Reads
  <2>3. QED BY ONLY k \in Locals, <1>2, <1>3, <2>2, ClearRight
<1>8. QED BY <1>3, <1>4, <1>5, <1>6, <1>7, ReadersStep

\* Compaction leaves the reads alone: they work on the version that they have pinned.
LEMMA NextReaders ==
    ASSUME Shape, Marks, Timely, Contents, Readers, [Next]_vars
    PROVE  Readers'
<1>1. HistStep
    BY NextHist
<1>2. ASSUME UNCHANGED <<th, hist, sloppy>>
      PROVE  Readers'
  <2>1. ASSUME NEW u \in Threads
        PROVE  \A k, g : k = th'[u] /\ g = hist'[k.v + 1] /\ Reads(k) /\ k.v \notin sloppy'
                            => ReadRight(k, g)
      BY <1>2 DEF Readers
  <2>2. QED BY <2>1 DEF Readers, Reads, ReadRight, Span, Mirrors, Lists, EdgesOf, EdgesAt, Wanted
<1>3. ASSUME NEW t \in Threads, Compact(t)
      PROVE  UNCHANGED <<th, hist, sloppy>>
    BY <1>3 DEF Compact, ghosts
<1>4. ASSUME NEW switch, NEW sorted, NEW dense, CreateSnapshots(switch, sorted, dense)
      PROVE  UNCHANGED <<th, hist, sloppy>>
    BY <1>4 DEF CreateSnapshots
<1>5. ASSUME NEW n, SetNumThreads(n)
      PROVE  UNCHANGED <<th, hist, sloppy>>
    BY <1>5 DEF SetNumThreads, ghosts
<1>6. CASE UNCHANGED vars
    BY <1>2, <1>6 DEF vars, ghosts
<1>7. QED BY <1>1, <1>2, <1>3, <1>4, <1>5, <1>6, OtherReaders, PinReaders, ScanReaders, ClearReaders
          DEF Next, Step, Done

\* A read that is not refused returns the edges at the time asked for, each once, however
\* it is interleaved with compactions, scans and appends: GetNeighbours and the scan of
\* the log (radixgraph.cpp:68-195).
THEOREM ReadsRight == Spec => []ReadsAsOf
<1>1. ASSUME Init
      PROVE  Timely /\ Contents /\ Readers
  <2>1. Offsets = {} /\ \A t \in Threads : th[t] = Idle
      BY <1>1 DEF Init, Offsets
  <2>2. ~Reads(Idle)
      BY IdleIsLocal DEF Reads
  <2>3. QED BY <2>1, <2>2 DEF Timely, Contents, Readers
<1>2. ASSUME Shape, Readers
      PROVE  ReadsAsOf
  <2>1. SUFFICES ASSUME NEW t \in Threads, th[t].pc = "done", th[t].v \notin sloppy,
                        NEW h, h = hist[th[t].v + 1]
                 PROVE  IsEdgeList(th[t].got,
                            EdgesOf(h, {i \in 1 .. th[t].seen : th[t].arr.stamped => h[i].at <= th[t].ts}))
      BY DEF ReadsAsOf
  <2>2. PICK l \in Locals : l = th[t] /\ l.got \in Seq(Entries)
      BY <1>2, ThreadFacts DEF Locals
  <2>3. ReadRight(l, h)
      BY <1>2, <2>1, <2>2 DEF Readers, Reads
  <2>4. Lists(l.got, Len(l.got), EdgesOf(h, {i \in 1 .. l.seen : l.arr.stamped => h[i].at <= l.ts}))
      BY <2>1, <2>2, <2>3 DEF ReadRight
  <2>5. DOMAIN l.got = 1 .. Len(l.got)
      BY <2>2
  <2>6. QED BY <2>2, <2>4, <2>5 DEF Lists, IsEdgeList
<1>3. QED BY <1>1, <1>2, InitShape, NextShape, InitMarks, NextMarks, NextHist, NextTimely,
             NextContents, NextReaders, PTL DEF Spec
=============================================================================
