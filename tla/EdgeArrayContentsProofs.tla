----------------------- MODULE EdgeArrayContentsProofs -----------------------
(***************************************************************************)
(* Proofs about the edges that an edge array stands for, for every value   *)
(* of the constants, provided the interface is used as documented          *)
(* (Contract: insertions of absent edges, changes of present ones, no two  *)
(* calls on one edge at once).                                             *)
(*                                                                         *)
(* The edges are what the log of the current version says: View = ViewOf   *)
(* (Log).  Contents is the inductive invariant about them.  Its heart is   *)
(* DegreeExact: deg is the number of edges, up to the writers that own a   *)
(* slot and have still to adjust it.  The expander waits until nobody owns *)
(* a slot, so what it finds is exact; LogCompaction's short cut, taken     *)
(* when physical_size = deg, then keeps everything for a good reason: as   *)
(* many edges as entries means that every entry is the latest of an edge   *)
(* that is there.  So either path builds an array with the same edges, and *)
(* the only steps that change an edge are those that hand out a slot.      *)
(***************************************************************************)
EXTENDS EdgeArrayHistoryProofs, WellFoundedInduction

(***************************************************************************)
(* The log as a function from slots to entries, and what it says.          *)
(***************************************************************************)
Log == [i \in Reserved(cur) |-> Entry(cur, i)]

IsLog(L) == \E n \in Nat : DOMAIN L = 0 .. (n - 1) /\ \A i \in DOMAIN L : L[i].idx \in Dest

\* Slot i holds the newest entry of L for its destination.
Newest(L, i) == \A j \in DOMAIN L : L[j].idx = L[i].idx => j <= i

ViewOf(L) == [d \in Dest |->
                 LET I == {i \in DOMAIN L : L[i].idx = d}
                 IN  IF I = {} THEN 0 ELSE L[CHOOSE i \in I : \A j \in I : j <= i].weight]

\* The slots of the edges that L says are there, and these edges' destinations.
LatestOf(L) == {i \in DOMAIN L : L[i].weight # 0 /\ Newest(L, i)}
LiveOf(A) == {d \in Dest : A[d] # 0}

-----------------------------------------------------------------------------
(* Facts about any log. *)

\* A set of slots that is not empty has a last one.
LEMMA Largest ==
    ASSUME NEW n \in Nat, NEW S, S \subseteq 0 .. (n - 1), S # {}
    PROVE  \E i \in S : \A j \in S : j <= i
<1> DEFINE U(i) == {j \in S : j >= i}
           F == {U(i) : i \in S}
<1>1. IsFiniteSet(S) /\ \A i \in S : i \in Int
  <2>1. n - 1 \in Int /\ IsFiniteSet(0 .. (n - 1))
      BY FS_Interval
  <2>2. S \in SUBSET (0 .. (n - 1))
      OBVIOUS
  <2>3. IsFiniteSet(S)
      BY <2>1, <2>2, FS_Subset
  <2>4. \A i \in S : i \in Int
      BY <2>1
  <2> QED BY <2>3, <2>4
<1>2. F \subseteq FiniteSubsetsOf(S) /\ F # {}
  <2>1. \A i \in S : IsFiniteSet(U(i)) /\ U(i) \in SUBSET S
      BY <1>1, FS_Subset
  <2> QED BY <2>1 DEF FiniteSubsetsOf
<1>3. PICK T \in F : \A V \in F : ~ (<<V, T>> \in StrictSubsetOrdering(S))
  <2> HIDE DEF F
  <2> QED BY <1>2, FS_StrictSubsetOrderingWellFounded, WFMin
<1>4. PICK i \in S : T = U(i)
    BY <1>3
<1>5. ASSUME NEW j \in S, ~ (j <= i)
      PROVE  FALSE
  <2>1. U(j) \in SUBSET S /\ T \in SUBSET S /\ U(j) \subseteq T /\ U(j) # T
    <3>1. i \in Int /\ j \in Int /\ \A k \in S : k \in Int
        BY <1>1
    <3>2. \A k \in S : k >= j => k >= i
        BY <1>5, <3>1
    <3>3. i \in T /\ i \notin U(j)
        BY <1>4, <1>5, <3>1
    <3> QED BY <1>4, <3>2, <3>3
  <2> HIDE DEF U
  <2>2. <<U(j), T>> \in StrictSubsetOrdering(S)
      BY <2>1 DEF StrictSubsetOrdering
  <2> QED BY <1>3, <2>2
<1> QED BY <1>5

\* What ViewOf says of a destination, in terms of its newest entry.
LEMMA ViewOfFacts ==
    ASSUME NEW L, IsLog(L), NEW d \in Dest
    PROVE  /\ (\A i \in DOMAIN L : L[i].idx # d) => ViewOf(L)[d] = 0
           /\ \A i \in DOMAIN L : L[i].idx = d /\ Newest(L, i) => ViewOf(L)[d] = L[i].weight
           /\ \/ \A i \in DOMAIN L : L[i].idx # d
              \/ \E i \in DOMAIN L : L[i].idx = d /\ Newest(L, i)
<1> DEFINE I == {i \in DOMAIN L : L[i].idx = d}
           m == CHOOSE i \in I : \A j \in I : j <= i
<1>1. ViewOf(L)[d] = IF I = {} THEN 0 ELSE L[m].weight
    BY DEF ViewOf
<1>2. PICK n \in Nat : DOMAIN L = 0 .. (n - 1)
    BY DEF IsLog
<1>3. I # {} => m \in I /\ \A j \in I : j <= m
  <2>1. I \subseteq 0 .. (n - 1)
      BY <1>2
  <2> HIDE DEF I
  <2>2. I # {} => \E i \in I : \A j \in I : j <= i
      BY <2>1, Largest
  <2> QED BY <2>2
<1> HIDE DEF m
<1>4. ASSUME NEW i \in DOMAIN L, L[i].idx = d, Newest(L, i)
      PROVE  i = m /\ I # {}
  <2>1. i \in I /\ \A j \in I : j <= i
      BY <1>4 DEF Newest
  <2>2. m \in I /\ i <= m /\ m <= i
      BY <1>3, <2>1
  <2>3. i \in Int /\ m \in Int
      BY <1>2, <2>2
  <2> QED BY <2>1, <2>2, <2>3
<1>5. I # {} => Newest(L, m) /\ m \in DOMAIN L /\ L[m].idx = d
    BY <1>3 DEF Newest
<1>6. (\A i \in DOMAIN L : L[i].idx # d) => ViewOf(L)[d] = 0
    BY <1>1
<1>7. \A i \in DOMAIN L : L[i].idx = d /\ Newest(L, i) => ViewOf(L)[d] = L[i].weight
    BY <1>1, <1>4
<1>8. (\A i \in DOMAIN L : L[i].idx # d) \/ I # {}
    OBVIOUS
<1> QED BY <1>5, <1>6, <1>7, <1>8

\* A log with one more entry: the view changes at its destination only.
LEMMA ViewOfAppended ==
    ASSUME NEW L, IsLog(L), NEW K, IsLog(K), NEW n, DOMAIN K = DOMAIN L \cup {n},
           n \in Int, \A i \in DOMAIN L : i \in Int /\ i < n,
           \A i \in DOMAIN L : K[i] = L[i]
    PROVE  ViewOf(K) = [ViewOf(L) EXCEPT ![K[n].idx] = K[n].weight]
<1> DEFINE e == K[n].idx
<1>1. e \in Dest
    BY DEF IsLog
<1>2. ViewOf(L) = [d \in Dest |-> ViewOf(L)[d]] /\ ViewOf(K) = [d \in Dest |-> ViewOf(K)[d]]
    BY DEF ViewOf
<1>3. ViewOf(K)[e] = K[n].weight
  <2>1. \A i \in DOMAIN K : i <= n
      OBVIOUS
  <2>2. Newest(K, n) /\ n \in DOMAIN K
      BY <2>1 DEF Newest
  <2> QED BY <1>1, <2>2, ViewOfFacts
<1>4. ASSUME NEW d \in Dest, d # e
      PROVE  ViewOf(K)[d] = ViewOf(L)[d]
  <2>1. CASE \A i \in DOMAIN L : L[i].idx # d
    <3>1. \A i \in DOMAIN K : K[i].idx # d
        BY <1>4, <2>1
    <3> QED BY <2>1, <3>1, ViewOfFacts
  <2>2. ASSUME NEW i \in DOMAIN L, L[i].idx = d, Newest(L, i)
        PROVE  ViewOf(K)[d] = ViewOf(L)[d]
    <3>1. i \in DOMAIN K /\ K[i] = L[i] /\ Newest(K, i)
        BY <1>4, <2>2 DEF Newest
    <3> QED BY <2>2, <3>1, ViewOfFacts
  <2> QED BY <2>1, <2>2, ViewOfFacts
<1> HIDE DEF e
<1>5. ViewOf(K) = [ViewOf(L) EXCEPT ![e] = K[n].weight]
    BY <1>1, <1>2, <1>3, <1>4
<1> QED BY <1>5 DEF e

\* Two logs with the same entries, timestamps aside.
LEMMA ViewOfSame ==
    ASSUME NEW L, IsLog(L), NEW K, IsLog(K), DOMAIN K = DOMAIN L,
           \A i \in DOMAIN L : K[i].idx = L[i].idx /\ K[i].weight = L[i].weight
    PROVE  ViewOf(K) = ViewOf(L)
<1>1. ViewOf(L) = [d \in Dest |-> ViewOf(L)[d]] /\ ViewOf(K) = [d \in Dest |-> ViewOf(K)[d]]
    BY DEF ViewOf
<1>2. ASSUME NEW d \in Dest
      PROVE  ViewOf(K)[d] = ViewOf(L)[d]
  <2>1. \A i \in DOMAIN L : Newest(K, i) <=> Newest(L, i)
      BY DEF Newest
  <2> QED BY <2>1, ViewOfFacts
<1> HIDE DEF ViewOf
<1> QED BY <1>1, <1>2

\* The edges that are there have one latest slot each.
LEMMA LatestCount ==
    ASSUME NEW L, IsLog(L)
    PROVE  /\ IsFiniteSet(LatestOf(L)) /\ IsFiniteSet(LiveOf(ViewOf(L)))
           /\ Cardinality(LatestOf(L)) \in Nat
           /\ Cardinality(LiveOf(ViewOf(L))) = Cardinality(LatestOf(L))
<1> DEFINE S == LatestOf(L)
           T == LiveOf(ViewOf(L))
           f == [i \in S |-> L[i].idx]
<1>1. PICK n \in Nat : DOMAIN L = 0 .. (n - 1) /\ \A i \in DOMAIN L : L[i].idx \in Dest
    BY DEF IsLog
<1>2. IsFiniteSet(S) /\ Cardinality(S) \in Nat
  <2>1. n - 1 \in Int /\ IsFiniteSet(0 .. (n - 1))
      BY FS_Interval
  <2>2. S \in SUBSET (0 .. (n - 1))
      BY <1>1 DEF LatestOf
  <2> HIDE DEF S
  <2> QED BY <2>1, <2>2, FS_Subset, FS_CardinalityType
<1>3. \A i \in S : L[i].idx \in T
  <2> SUFFICES ASSUME NEW i \in S PROVE L[i].idx \in T
      OBVIOUS
  <2>1. i \in DOMAIN L /\ L[i].weight # 0 /\ Newest(L, i) /\ L[i].idx \in Dest
      BY <1>1 DEF LatestOf
  <2>2. ViewOf(L)[L[i].idx] = L[i].weight
      BY <2>1, ViewOfFacts
  <2> QED BY <2>1, <2>2 DEF LiveOf
<1>4. \A i, j \in S : L[i].idx = L[j].idx => i = j
  <2> SUFFICES ASSUME NEW i \in S, NEW j \in S, L[i].idx = L[j].idx PROVE i = j
      OBVIOUS
  <2>1. i \in DOMAIN L /\ j \in DOMAIN L /\ Newest(L, i) /\ Newest(L, j)
      BY DEF LatestOf
  <2>2. i <= j /\ j <= i /\ i \in Int /\ j \in Int
      BY <1>1, <2>1 DEF Newest
  <2> QED BY <2>2
<1>5. \A d \in T : \E i \in S : L[i].idx = d
  <2> SUFFICES ASSUME NEW d \in T PROVE \E i \in S : L[i].idx = d
      OBVIOUS
  <2>1. d \in Dest /\ ViewOf(L)[d] # 0
      BY DEF LiveOf
  <2>2. PICK i \in DOMAIN L : L[i].idx = d /\ Newest(L, i)
      BY <2>1, ViewOfFacts
  <2>3. L[i].weight # 0
      BY <2>1, <2>2, ViewOfFacts
  <2> QED BY <2>2, <2>3 DEF LatestOf
<1> HIDE DEF S, T
<1>6. f \in Bijection(S, T)
  <2>1. f \in [S -> T] /\ (\A i, j \in S : f[i] = f[j] => i = j) /\ \A d \in T : \E i \in S : f[i] = d
      BY <1>3, <1>4, <1>5
  <2> HIDE DEF f
  <2> QED BY <2>1, Fun_IsBij
<1>7. IsFiniteSet(T) /\ Cardinality(T) = Cardinality(S)
    BY <1>2, <1>6, FS_Bijection DEF ExistsBijection
<1> QED BY <1>2, <1>7 DEF S, T

\* An array without a second entry for any destination, and without deletions, that
\* holds the edges A: what a snapshot is.
Represents(b, n, A) ==
    /\ \A i \in 0 .. (n - 1) : b[i].idx \in Dest /\ b[i].weight # 0 /\ b[i].weight = A[b[i].idx]
    /\ \A i, j \in 0 .. (n - 1) : b[i].idx = b[j].idx => i = j
    /\ \A d \in Dest : A[d] # 0 => \E i \in 0 .. (n - 1) : b[i].idx = d

\* The log of a new array says the edges that the array represents.
LEMMA RepresentedView ==
    ASSUME NEW b, NEW n \in Nat, NEW A, A = [d \in Dest |-> A[d]], Represents(b, n, A)
    PROVE  ViewOf([i \in 0 .. (n - 1) |-> b[i]]) = A
<1> DEFINE L == [i \in 0 .. (n - 1) |-> b[i]]
<1>1. DOMAIN L = 0 .. (n - 1) /\ \A i \in DOMAIN L : L[i] = b[i] /\ i \in Int
    OBVIOUS
<1> HIDE DEF L
<1>2. IsLog(L)
    BY <1>1 DEF IsLog, Represents
<1>3. \A i \in DOMAIN L : Newest(L, i)
    BY <1>1 DEF Newest, Represents
<1>4. ASSUME NEW d \in Dest
      PROVE  ViewOf(L)[d] = A[d]
  <2>1. CASE \A i \in DOMAIN L : L[i].idx # d
    <3>1. A[d] = 0
        BY <1>1, <2>1 DEF Represents
    <3> QED BY <1>2, <2>1, <3>1, ViewOfFacts
  <2>2. ASSUME NEW i \in DOMAIN L, L[i].idx = d
        PROVE  ViewOf(L)[d] = A[d]
    <3>1. L[i].weight = A[d]
        BY <1>1, <2>2 DEF Represents
    <3> QED BY <1>2, <1>3, <2>2, <3>1, ViewOfFacts
  <2> QED BY <2>1, <2>2
<1>5. ViewOf(L) = [d \in Dest |-> ViewOf(L)[d]]
    BY DEF ViewOf
<1>6. ViewOf(L) = A
    BY <1>4, <1>5
<1> QED BY <1>6 DEF L

-----------------------------------------------------------------------------
(* The log of the current version. *)

\* What the proofs below know of a state, before and after a step.
Base == IInv /\ Linked /\ LogWritten /\ SlotsNotShared

\* What most steps need to know of the current version.
LEMMA BaseFacts ==
    ASSUME Base
    PROVE  /\ IInv /\ TypeOK /\ Linked /\ LogWritten /\ cur \in Versions /\ cur \in Nat
           /\ arr[cur].mem = "live" /\ arr[cur].size \in Nat /\ arr[cur].cap \in Nat
           /\ arr[cur].phys \in Nat /\ arr[cur].snapDeg \in Nat /\ arr[cur].deg \in Int
           /\ DOMAIN buf[cur] = 0 .. (arr[cur].cap - 1)
BY CurFacts, HeaderFields DEF Base, IInv, TypeOK, VersionsSane

\* The slots handed out are the first ones.
LEMMA ReservedIsPrefix == TypeOK => \E n \in Nat : Reserved(cur) = 0 .. (n - 1)
<1> SUFFICES ASSUME TypeOK
             PROVE  \E n \in Nat : Reserved(cur) = 0 .. (n - 1)
    OBVIOUS
<1> DEFINE n == IF arr[cur].size < arr[cur].cap THEN arr[cur].size ELSE arr[cur].cap
<1>1. cur \in Versions
    BY DEF TypeOK
<1>2. arr[cur].size \in Nat /\ arr[cur].cap \in Nat
    BY <1>1, HeaderFields
<1>3. n \in Nat /\ Reserved(cur) = 0 .. (n - 1)
    BY <1>2 DEF Reserved
<1> QED BY <1>3

\* The adjacency that the model states is what the log says.
LEMMA ViewIsOfLog == TypeOK => View = ViewOf(Log)
<1> SUFFICES ASSUME TypeOK
             PROVE  View = ViewOf(Log)
    OBVIOUS
<1>1. PICK n \in Nat : Reserved(cur) = 0 .. (n - 1)
    BY ReservedIsPrefix
<1>2. DOMAIN Log = Reserved(cur) /\ \A i \in Reserved(cur) : Log[i] = Entry(cur, i)
    BY DEF Log
<1>3. ASSUME NEW d \in Dest
      PROVE  View[d] = ViewOf(Log)[d]
  <2> DEFINE I == {i \in Reserved(cur) : Entry(cur, i).idx = d}
             m == CHOOSE i \in I : \A j \in I : j <= i
  <2>1. View[d] = IF I = {} THEN 0 ELSE Entry(cur, m).weight
      BY DEF View
  <2> DEFINE J == {i \in DOMAIN Log : Log[i].idx = d}
             k == CHOOSE i \in J : \A j \in J : j <= i
  <2>2. ViewOf(Log)[d] = IF J = {} THEN 0 ELSE Log[k].weight
      BY DEF ViewOf
  <2>eq. J = I
      BY <1>2
  <2>3. ViewOf(Log)[d] = IF I = {} THEN 0 ELSE Log[m].weight
    <3> HIDE DEF I, J
    <3> QED BY <2>2, <2>eq
  <2>4. I # {} => m \in I
    <3>1. I \subseteq 0 .. (n - 1)
        BY <1>1
    <3> HIDE DEF I
    <3>2. I # {} => \E i \in I : \A j \in I : j <= i
        BY <3>1, Largest
    <3> QED BY <3>2
  <2>5. I # {} => Log[m] = Entry(cur, m)
      BY <1>2, <2>4
  <2> HIDE DEF I, m
  <2> QED BY <2>1, <2>3, <2>5
<1>4. View = [d \in Dest |-> View[d]]
    BY DEF View
<1>5. ViewOf(Log) = [d \in Dest |-> ViewOf(Log)[d]]
    BY DEF ViewOf
<1> QED BY <1>3, <1>4, <1>5

\* A slot in progress stands for the call of its owner, any other one for its cell.
OwnedEntries ==
    \A t \in Holding(cur) : wr[t].slot \in Reserved(cur) /\ Entry(cur, wr[t].slot) = wr[t].call

\* A slot has one owner, so Entry is the call of that owner.
LEMMA EntriesOwned == IInv => OwnedEntries
<1> SUFFICES ASSUME IInv, NEW t \in Holding(cur)
             PROVE  wr[t].slot \in Reserved(cur) /\ Entry(cur, wr[t].slot) = wr[t].call
    BY DEF OwnedEntries
<1> DEFINE s == wr[t].slot
           u == CHOOSE x \in Holding(cur) : wr[x].slot = s
<1>1. u \in Holding(cur) /\ wr[u].slot = s
    OBVIOUS
<1>2. Entry(cur, s) = wr[u].call
    BY DEF Entry
<1> HIDE DEF u
<1>3. u = t
    BY <1>1 DEF IInv, SlotsOfWriters
<1>4. t \in Writers /\ s < arr[cur].cap /\ s < arr[cur].size
    BY DEF Holding, IInv, SlotsOfWriters
<1>5. s \in Nat /\ arr[cur].cap \in Nat
    BY <1>4, WriterFields, HeaderFields, CurFacts DEF IInv
<1>6. s \in Reserved(cur)
    BY <1>4, <1>5 DEF Reserved
<1> QED BY <1>2, <1>3, <1>6

\* The entry of a slot nobody owns is what is stored there.
LEMMA EntryFree ==
    ASSUME NEW i, \A t \in Holding(cur) : wr[t].slot # i
    PROVE  Entry(cur, i) = buf[cur][i]
BY DEF Entry

\* Every entry of the log is about a destination.
LEMMA LogTyped == Base => IsLog(Log)
<1> SUFFICES ASSUME Base
             PROVE  IsLog(Log)
    OBVIOUS
<1>1. /\ IInv /\ LogWritten /\ arr[cur].mem = "live" /\ cur \in Versions
      /\ DOMAIN buf[cur] = 0 .. (arr[cur].cap - 1)
    BY BaseFacts
<1>2. PICK n \in Nat : Reserved(cur) = 0 .. (n - 1)
    BY <1>1, ReservedIsPrefix DEF IInv
<1>3. DOMAIN Log = Reserved(cur) /\ \A i \in Reserved(cur) : Log[i] = Entry(cur, i)
    BY DEF Log
<1>4. ASSUME NEW i \in Reserved(cur)
      PROVE  Entry(cur, i).idx \in Dest
  <2>1. ASSUME NEW t \in Holding(cur), wr[t].slot = i
        PROVE  Entry(cur, i).idx \in Dest
    <3>1. t \in Writers /\ wr[t].pc # "idle"
        BY DEF Holding, Writing
    <3>2. wr[t].call.idx \in Dest
        BY <1>1, <3>1 DEF LogWritten, CallsMade
    <3> QED BY <1>1, <2>1, <3>2, EntriesOwned DEF OwnedEntries
  <2>2. CASE \A t \in Holding(cur) : wr[t].slot # i
    <3>1. Entry(cur, i) = buf[cur][i]
        BY <2>2, EntryFree
    <3>2. i \in DOMAIN buf[cur]
        BY <1>1 DEF Reserved
    <3>3. LogCell(buf[cur][i]) /\ buf[cur][i].idx # NoIdx
        BY <1>1, <2>2, <3>2 DEF LogWritten, CellsTyped, Committed, Written
    <3>4. buf[cur][i].idx \in Dest
        BY <3>3 DEF LogCell
    <3> QED BY <3>1, <3>4
  <2> QED BY <2>1, <2>2
<1> QED BY <1>2, <1>3, <1>4 DEF IsLog

\* Both facts about the log, before and after a step.
LEMMA LogAtStep ==
    ASSUME Base, Base'
    PROVE  /\ IsLog(Log) /\ IsLog(Log') /\ View = ViewOf(Log) /\ View' = ViewOf(Log')
           /\ DOMAIN Log = Reserved(cur) /\ DOMAIN Log' = Reserved(cur)'
           /\ \A i \in Reserved(cur) : Log[i] = Entry(cur, i)
           /\ \A i \in Reserved(cur)' : Log'[i] = Entry(cur, i)'
<1>1. TypeOK /\ TypeOK'
    BY DEF Base, IInv
<1>2. View = ViewOf(Log) /\ IsLog(Log)
    BY <1>1, ViewIsOfLog, LogTyped
<1>3. TypeOK' => (View = ViewOf(Log))'
    BY ViewIsOfLog, PTL
<1>4. Base' => IsLog(Log)'
    BY LogTyped, PTL
<1>5. View' = ViewOf(Log')
    BY <1>1, <1>3
<1>6. IsLog(Log')
    BY <1>4
<1>7. /\ DOMAIN Log = Reserved(cur) /\ DOMAIN Log' = Reserved(cur)'
      /\ \A i \in Reserved(cur) : Log[i] = Entry(cur, i)
      /\ \A i \in Reserved(cur)' : Log'[i] = Entry(cur, i)'
    BY DEF Log
<1> QED BY <1>2, <1>5, <1>6, <1>7

\* A step that leaves the owners and the cells nobody owns alone: the log is the same.
LEMMA LogSame ==
    ASSUME Base, Base', cur' = cur, Reserved(cur)' = Reserved(cur),
           \A t \in Writers :
              /\ wr'[t].pc \in Writing <=> wr[t].pc \in Writing
              /\ wr[t].pc \in Writing => wr'[t].slot = wr[t].slot /\ wr'[t].call = wr[t].call,
           \A i \in Reserved(cur) : (\A t \in Holding(cur) : wr[t].slot # i) =>
              buf'[cur][i] = buf[cur][i]
    PROVE  View' = View
<1>1. \A t \in Writers : /\ wr[t].pc \in Writing => wr[t].arr = cur
                         /\ wr'[t].pc \in Writing => wr'[t].arr = cur
    BY DEF Base, IInv, SlotsOfWriters
<1>2. /\ Holding(cur)' = Holding(cur)
      /\ \A t \in Holding(cur) : t \in Writers /\ wr'[t].slot = wr[t].slot /\ wr'[t].call = wr[t].call
    BY <1>1 DEF Holding
<1>3. OwnedEntries /\ OwnedEntries'
  <2>1. IInv => OwnedEntries
      BY EntriesOwned
  <2>2. IInv' => OwnedEntries'
      BY EntriesOwned, PTL
  <2> QED BY <2>1, <2>2 DEF Base
<1>4. ASSUME NEW i \in Reserved(cur)
      PROVE  Entry(cur, i)' = Entry(cur, i)
  <2>1. ASSUME NEW t \in Holding(cur), wr[t].slot = i
        PROVE  Entry(cur, i)' = Entry(cur, i)
    <3>1. Entry(cur, i) = wr[t].call
        BY <1>3, <2>1 DEF OwnedEntries
    <3>2. Entry(cur, i)' = wr'[t].call
        BY <1>2, <1>3, <2>1 DEF OwnedEntries
    <3> QED BY <1>2, <3>1, <3>2
  <2>2. CASE \A t \in Holding(cur) : wr[t].slot # i
    <3>1. \A t \in Holding(cur)' : wr'[t].slot # i
        BY <1>2, <2>2
    <3>2. Entry(cur, i)' = buf'[cur'][i]
        BY <3>1 DEF Entry
    <3> QED BY <2>2, <3>2, EntryFree
  <2> QED BY <2>1, <2>2
<1>5. Log' = Log
    BY <1>4 DEF Log
<1> QED BY <1>5, LogAtStep

-----------------------------------------------------------------------------
(* What the counters and the buffers say about the edges. *)

Live == LiveOf(View)

\* The writers that have their slot and have not adjusted the degree yet.
Counting == {"tick", "stamp"}
Adding == {t \in Writers : wr[t].pc \in Counting /\ wr[t].call.delta = 1}
Removing == {t \in Writers : wr[t].pc \in Counting /\ wr[t].call.delta = -1}

\* deg is the number of edges, up to the writers that have still to adjust it.
DegreeExact == arr[cur].deg + Cardinality(Adding) = Cardinality(Live) + Cardinality(Removing)

\* A call deletes exactly if it takes one from the degree, and no two calls in
\* progress are about the same destination.
CallsSound ==
    /\ \A t \in Writers : wr[t].pc # "idle" =>
          /\ wr[t].call.delta \in {-1, 0, 1}
          /\ wr[t].call.delta = -1 <=> wr[t].call.weight = 0
    /\ \A t, u \in Writers : t # u /\ wr[t].pc # "idle" /\ wr[u].pc # "idle" =>
          wr[t].call.idx # wr[u].call.idx

\* A call that has not taken effect is still what the documented use allows.
CallsLegal ==
    \A t \in Writers : wr[t].pc \in Unplaced =>
        (wr[t].call.delta = 1 <=> View[wr[t].call.idx] = 0)

\* What the owner of a slot has stored of its call.
Stored ==
    \A t \in Writers :
        /\ wr[t].pc \in {"weight", "commit"} => buf[cur][wr[t].slot].idx = wr[t].call.idx
        /\ wr[t].pc = "commit" => buf[cur][wr[t].slot].weight = wr[t].call.weight

\* A snapshot segment holds no deletion and no destination twice.
SnapshotSound ==
    \A v \in Versions : arr[v].mem = "live" =>
        \A i \in 0 .. (arr[v].snapDeg - 1) :
            /\ buf[v][i].weight # 0
            /\ \A j \in 0 .. (arr[v].snapDeg - 1) : buf[v][i].idx = buf[v][j].idx => i = j

\* The array that waits to be published holds the edges of the current one.
NewArraySame ==
    \A t \in Writers : wr[t].pc = "publish" =>
        /\ Represents(buf[cur + 1], arr[cur + 1].size, View)
        /\ arr[cur + 1].deg = Cardinality(Live)

Contents ==
    CallsSound /\ CallsLegal /\ Stored /\ SnapshotSound /\ DegreeExact /\ NewArraySame

-----------------------------------------------------------------------------
(* Steps that leave a part of it alone. *)

\* The calls in progress, when the edges are the same and no call begins.
LEMMA CallsFrame ==
    ASSUME CallsSound, CallsLegal, View' = View,
           \A t \in Writers :
              /\ wr'[t].pc # "idle" => wr[t].pc # "idle" /\ wr'[t].call = wr[t].call
              /\ wr'[t].pc \in Unplaced => wr[t].pc \in Unplaced
    PROVE  CallsSound' /\ CallsLegal'
<1>1. CallsSound'
    BY DEF CallsSound
<1>2. CallsLegal'
  <2>1. \A t \in Writers : wr'[t].pc \in Unplaced => wr'[t].pc # "idle"
      BY DEF Unplaced
  <2> QED BY <2>1 DEF CallsLegal
<1> QED BY <1>1, <1>2

\* The degree, when the edges and the writers that adjust it are the same.
LEMMA DegreeFrame ==
    ASSUME DegreeExact, View' = View, arr'[cur'].deg = arr[cur].deg,
           \A t \in Writers : /\ wr'[t].pc \in Counting <=> wr[t].pc \in Counting
                              /\ wr[t].pc \in Counting => wr'[t].call = wr[t].call
    PROVE  DegreeExact'
<1>1. Adding' = Adding /\ Removing' = Removing
    BY DEF Adding, Removing
<1>2. Live' = Live
    BY DEF Live
<1> QED BY <1>1, <1>2 DEF DegreeExact

\* The snapshot segments, when those of the live versions are the same.
LEMMA SnapshotFrame ==
    ASSUME SnapshotSound,
           \A v \in Versions : arr'[v].mem = "live" =>
              /\ arr[v].mem = "live" /\ arr'[v].snapDeg = arr[v].snapDeg
              /\ \A i \in 0 .. (arr[v].snapDeg - 1) : buf'[v][i] = buf[v][i]
    PROVE  SnapshotSound'
BY DEF SnapshotSound

\* The array that waits to be published, when it and the edges are the same.
LEMMA NewArrayFrame ==
    ASSUME IInv, NewArraySame, View' = View, cur' = cur,
           \A t \in Writers : wr'[t].pc = "publish" => wr[t].pc = "publish",
           cur + 1 \in Versions => /\ arr'[cur + 1].size = arr[cur + 1].size
                                   /\ arr'[cur + 1].deg = arr[cur + 1].deg
                                   /\ buf'[cur + 1] = buf[cur + 1]
    PROVE  NewArraySame'
<1>1. Live' = Live
    BY DEF Live
<1> SUFFICES ASSUME NEW t \in Writers, wr'[t].pc = "publish"
             PROVE  /\ Represents(buf'[cur' + 1], arr'[cur' + 1].size, View')
                    /\ arr'[cur' + 1].deg = Cardinality(Live')
    BY DEF NewArraySame
<1>2. cur + 1 \in Versions
    BY DEF IInv, Handover
<1> QED BY <1>1, <1>2 DEF NewArraySame

\* Between steps at which a call takes effect nothing changes that concerns the edges.
LEMMA ContentsFrame ==
    ASSUME Base, Contents, View' = View, cur' = cur,
           NEW t \in Writers, \A u \in Writers : u # t => wr'[u] = wr[u],
           wr[t].pc # "idle", wr'[t].pc # "idle" => wr'[t].call = wr[t].call,
           wr'[t].pc \in Unplaced => wr[t].pc \in Unplaced,
           wr'[t].pc \in Counting <=> wr[t].pc \in Counting,
           wr'[t].pc # "publish",
           arr'[cur].deg = arr[cur].deg,
           cur + 1 \in Versions => /\ arr'[cur + 1].size = arr[cur + 1].size
                                   /\ arr'[cur + 1].deg = arr[cur + 1].deg
                                   /\ buf'[cur + 1] = buf[cur + 1],
           \A v \in Versions : arr'[v].mem = "live" =>
              /\ arr[v].mem = "live" /\ arr'[v].snapDeg = arr[v].snapDeg
              /\ \A i \in 0 .. (arr[v].snapDeg - 1) : buf'[v][i] = buf[v][i],
           Stored'
    PROVE  Contents'
<1>1. \A u \in Writers :
         /\ wr'[u].pc # "idle" => wr[u].pc # "idle" /\ wr'[u].call = wr[u].call
         /\ wr'[u].pc \in Unplaced => wr[u].pc \in Unplaced
         /\ wr'[u].pc \in Counting <=> wr[u].pc \in Counting
         /\ wr[u].pc \in Counting => wr'[u].call = wr[u].call
         /\ wr'[u].pc = "publish" => wr[u].pc = "publish"
    BY DEF Counting
<1>2. CallsSound' /\ CallsLegal'
    BY <1>1, CallsFrame DEF Contents
<1>3. DegreeExact'
    BY <1>1, DegreeFrame DEF Contents
<1>4. SnapshotSound'
    BY SnapshotFrame DEF Contents
<1>5. NewArraySame'
    BY <1>1, NewArrayFrame DEF Contents, Base
<1> QED BY <1>2, <1>3, <1>4, <1>5 DEF Contents

\* The owners of slots whose cells stay as they are.
LEMMA StoredFrame ==
    ASSUME Stored,
           \A t \in Writers : wr'[t].pc \in {"weight", "commit"} =>
              /\ wr'[t].pc = wr[t].pc /\ wr'[t].slot = wr[t].slot /\ wr'[t].call = wr[t].call
              /\ buf'[cur'][wr[t].slot] = buf[cur][wr[t].slot]
    PROVE  Stored'
BY DEF Stored

-----------------------------------------------------------------------------
(* The steps of a writer. *)

\* The new call is about an edge that no other call is about.
LEMMA ContentsCall ==
    ASSUME Contract, Base, Base', Contents, NEW t \in Writers, Call(t)
    PROVE  Contents' /\ View' = View
<1>1. PICK d \in Dest, w \in Weights : \E c \in {Insertion(d, w), Update(d, w), Deletion(d)} :
          /\ Contract => Allowed(c)
          /\ wr' = [wr EXCEPT ![t] = [IdleWriter EXCEPT !.pc = "reserve", !.arr = cur, !.call = c]]
          /\ rd' = [r \in Readers |-> [rd[r] EXCEPT !.still = @ \ {d}]]
    BY DEF Call
<1>2. PICK c \in {Insertion(d, w), Update(d, w), Deletion(d)} :
          /\ Allowed(c)
          /\ wr' = [wr EXCEPT ![t] = [IdleWriter EXCEPT !.pc = "reserve", !.arr = cur, !.call = c]]
    BY <1>1
<1>3. c.idx = d /\ c.delta \in {-1, 0, 1} /\ (c.delta = -1 <=> c.weight = 0)
  <2>1. w # 0
      BY ConstantsAssumption DEF ConstantsAssumption
  <2> QED BY <2>1 DEF Insertion, Update, Deletion
<1> HIDE DEF Insertion, Update, Deletion
<1>4. /\ wr'[t].pc = "reserve" /\ wr'[t].call = c
      /\ \A u \in Writers : u # t => wr'[u] = wr[u]
    BY <1>2 DEF Base, IInv, TypeOK, IdleWriter
<1>5. wr[t].pc = "idle" /\ cur' = cur /\ buf' = buf /\ arr' = arr
    BY DEF Call
<1>6. Reserved(cur)' = Reserved(cur)
    BY <1>5 DEF Reserved
<1>7. \A u \in Writers : /\ wr'[u].pc \in Writing <=> wr[u].pc \in Writing
                         /\ wr[u].pc \in Writing => wr'[u] = wr[u]
    BY <1>4, <1>5 DEF Writing
<1>8. View' = View
    BY <1>5, <1>6, <1>7, LogSame
<1>9. CallsSound'
    BY <1>2, <1>3, <1>4 DEF Contents, CallsSound, Allowed
<1>10. CallsLegal'
    BY <1>2, <1>4, <1>8 DEF Contents, CallsLegal, Allowed
<1>11. DegreeExact'
  <2>1. \A u \in Writers : /\ wr'[u].pc \in Counting <=> wr[u].pc \in Counting
                           /\ wr[u].pc \in Counting => wr'[u].call = wr[u].call
      BY <1>4, <1>5 DEF Counting
  <2> QED BY <1>5, <1>8, <2>1, DegreeFrame DEF Contents
<1>12. SnapshotSound'
    BY <1>5, SnapshotFrame DEF Contents
<1>13. NewArraySame'
    BY <1>4, <1>5, <1>8, NewArrayFrame DEF Contents, Base
<1>14. Stored'
    BY <1>4, <1>5, StoredFrame DEF Contents
<1> QED BY <1>8, <1>9, <1>10, <1>11, <1>12, <1>13, <1>14 DEF Contents

\* A writer that takes the lock, or stops at a deleted array, changes no edge.
LEMMA ContentsLocal ==
    ASSUME Base, Base', Contents, NEW t \in Writers, UseAfterFree(t) \/ Lock(t)
    PROVE  Contents' /\ View' = View
<1>1. wr \in [Writers -> WriterStates] /\ wr[t] \in WriterStates
    BY DEF Base, IInv, TypeOK
<1>2. /\ wr[t].pc \in {"reserve", "lock"} /\ cur' = cur /\ buf' = buf /\ arr' = arr
    BY DEF UseAfterFree, Lock
<1>3. /\ wr'[t].pc \in {"fault", "reload", "wait"} /\ wr'[t].call = wr[t].call
      /\ \A u \in Writers : u # t => wr'[u] = wr[u]
  <2>1. CASE SetWriter(t, "fault") \/ SetWriter(t, "reload")
      BY <2>1, SetWriterFields, SetWriterKeeps DEF Base, IInv, WriterPcs
  <2>2. CASE wr' = [wr EXCEPT ![t].pc = "wait", ![t].arr = cur]
    <3>1. wr' = [wr EXCEPT ![t] = [wr[t] EXCEPT !.pc = "wait", !.arr = cur]]
        BY <2>2
    <3>2. wr'[t] = [wr[t] EXCEPT !.pc = "wait", !.arr = cur]
        BY <1>1, <3>1
    <3> QED BY <1>1, <3>1, <3>2 DEF WriterStates
  <2> QED BY <2>1, <2>2 DEF UseAfterFree, Lock
<1>4. Reserved(cur)' = Reserved(cur)
    BY <1>2 DEF Reserved
<1>5. \A u \in Writers : /\ wr'[u].pc \in Writing <=> wr[u].pc \in Writing
                         /\ wr[u].pc \in Writing => wr'[u] = wr[u]
    BY <1>2, <1>3 DEF Writing
<1>6. View' = View
    BY <1>2, <1>4, <1>5, LogSame
<1>7. Stored'
    BY <1>2, <1>3, StoredFrame DEF Contents
<1>8. /\ wr[t].pc # "idle" /\ wr[t].pc \in Unplaced /\ wr'[t].pc # "publish"
      /\ wr'[t].pc \notin Counting /\ wr[t].pc \notin Counting
    BY <1>2, <1>3 DEF Unplaced, Counting
<1> QED BY <1>2, <1>3, <1>6, <1>7, <1>8, ContentsFrame

\* A slot number beyond the capacity: nothing but the counter changes.
LEMMA ContentsOverflow ==
    ASSUME Base, Base', Contents, NEW t \in Writers, NEW v \in Versions, v <= cur,
           wr[t].pc \in {"reserve", "reload"}, TakeSlot(t, v),
           arr[v].size >= arr[v].cap, cur' = cur, buf' = buf
    PROVE  Contents' /\ View' = View /\ wr'[t].pc = "lock"
<1>1. /\ IInv /\ TypeOK /\ cur \in Versions /\ cur \in Nat /\ v \in Int
      /\ arr[cur].size \in Nat /\ arr[cur].cap \in Nat /\ arr[v].size \in Nat
      /\ \A u \in Versions : arr[u] \in Headers
    BY BaseFacts, HeaderFields, VersionFacts
<1>2. /\ wr'[t].pc = "lock" /\ wr'[t].call = wr[t].call
      /\ \A u \in Writers : u # t => wr'[u] = wr[u]
      /\ arr'[v] = [arr[v] EXCEPT !.size = arr[v].size + 1]
      /\ \A u \in Versions : u # v => arr'[u] = arr[u]
    BY <1>1, TakeSlotFields, TakeSlotKeeps
<1>3. /\ arr'[v].size = arr[v].size + 1 /\ arr'[v].cap = arr[v].cap /\ arr'[v].deg = arr[v].deg
      /\ arr'[v].mem = arr[v].mem /\ arr'[v].snapDeg = arr[v].snapDeg
    BY <1>1, <1>2 DEF Headers
<1>4. /\ \A u \in Versions : /\ arr'[u].mem = arr[u].mem /\ arr'[u].snapDeg = arr[u].snapDeg
                             /\ arr'[u].deg = arr[u].deg /\ arr'[u].cap = arr[u].cap
      /\ cur + 1 \in Versions => arr'[cur + 1] = arr[cur + 1]
  <2>1. v # cur + 1
      BY <1>1
  <2>2. \A u \in Versions : arr'[u] = arr[u] \/ u = v
      BY <1>2
  <2> QED BY <1>2, <1>3, <2>1, <2>2
<1>5. Reserved(cur)' = Reserved(cur)
  <2>1. CASE v = cur
    <3>1. \A i \in 0 .. (arr[cur].cap - 1) : i < arr[cur].size /\ i < arr[cur].size + 1
        BY <1>1, <2>1
    <3> QED BY <1>3, <2>1, <3>1 DEF Reserved
  <2>2. CASE v # cur
    <3>1. arr'[cur] = arr[cur]
        BY <1>1, <1>2, <2>2
    <3> QED BY <3>1 DEF Reserved
  <2> QED BY <2>1, <2>2
<1>6. \A u \in Writers : /\ wr'[u].pc \in Writing <=> wr[u].pc \in Writing
                         /\ wr[u].pc \in Writing => wr'[u] = wr[u]
    BY <1>2 DEF Writing
<1>7. View' = View
    BY <1>5, <1>6, LogSame
<1>8. Stored'
    BY <1>2, StoredFrame DEF Contents
<1>9. /\ wr[t].pc # "idle" /\ wr[t].pc \in Unplaced /\ wr'[t].pc # "publish"
      /\ wr'[t].pc \notin Counting /\ wr[t].pc \notin Counting
    BY <1>2 DEF Unplaced, Counting
<1> QED BY <1>1, <1>2, <1>4, <1>7, <1>8, <1>9, ContentsFrame

\* A slot number within the capacity: the entry is the newest of the log.
LEMMA ViewTake ==
    ASSUME Base, Base', NEW t \in Writers, wr[t].pc \in {"reserve", "reload"}, TakeSlot(t, cur),
           ~(arr[cur].size >= arr[cur].cap), cur' = cur, buf' = buf
    PROVE  /\ wr[t].call.idx \in Dest
           /\ View' = [View EXCEPT ![wr[t].call.idx] = wr[t].call.weight]
<1>size. PICK n : n = arr[cur].size
    OBVIOUS
<1> DEFINE c == wr[t].call
<1>1. /\ IInv /\ TypeOK /\ cur \in Versions /\ n \in Nat /\ arr[cur].cap \in Nat
      /\ arr[cur] \in Headers /\ n < arr[cur].cap
    BY <1>size, BaseFacts, HeaderFields
<1>2. /\ wr'[t].arr = cur /\ wr'[t].slot = n /\ wr'[t].call = c
      /\ wr'[t].pc = IF Mixed THEN "tick" ELSE "stamp"
      /\ \A u \in Writers : u # t => wr'[u] = wr[u]
      /\ arr'[cur] = [arr[cur] EXCEPT !.size = n + 1]
    BY <1>size, <1>1, TakeSlotFields, TakeSlotKeeps
<1>3. arr'[cur].size = n + 1 /\ arr'[cur].cap = arr[cur].cap
    BY <1>1, <1>2 DEF Headers
<1> HIDE DEF c
<1>4. /\ Reserved(cur)' = Reserved(cur) \cup {n}
      /\ \A i \in Reserved(cur) : i \in Int /\ i < n
  <2>1. \A i \in Reserved(cur) : i \in Int /\ i < n
      BY <1>size, <1>1 DEF Reserved
  <2>2. Reserved(cur)' = {i \in 0 .. (arr[cur].cap - 1) : i < n + 1}
      BY <1>3 DEF Reserved
  <2>3. Reserved(cur) = {i \in 0 .. (arr[cur].cap - 1) : i < n}
      BY <1>size DEF Reserved
  <2>4. \A i \in 0 .. (arr[cur].cap - 1) : i < n + 1 <=> i < n \/ i = n
      BY <1>1
  <2>5. n \in 0 .. (arr[cur].cap - 1)
      BY <1>1
  <2> HIDE DEF Reserved
  <2> QED BY <2>1, <2>2, <2>3, <2>4, <2>5
<1>5. /\ t \in Holding(cur)' /\ t \notin Holding(cur)
      /\ \A u \in Writers : u # t => (u \in Holding(cur)' <=> u \in Holding(cur)) /\ wr'[u] = wr[u]
  <2>1. t \in Holding(cur)'
      BY <1>2 DEF Holding, Writing
  <2>2. t \notin Holding(cur)
      BY DEF Holding, Writing
  <2>3. \A u \in Writers : u # t => (u \in Holding(cur)' <=> u \in Holding(cur))
      BY <1>2 DEF Holding
  <2> QED BY <1>2, <2>1, <2>2, <2>3
<1>6. OwnedEntries /\ OwnedEntries'
  <2>1. IInv => OwnedEntries
      BY EntriesOwned
  <2>2. IInv' => OwnedEntries'
      BY EntriesOwned, PTL
  <2> QED BY <2>1, <2>2 DEF Base
<1>7. ASSUME NEW i \in Reserved(cur)
      PROVE  Entry(cur, i)' = Entry(cur, i)
  <2>1. ASSUME NEW u \in Holding(cur), wr[u].slot = i
        PROVE  Entry(cur, i)' = Entry(cur, i)
    <3>1. u \in Writers /\ u # t
        BY <1>5 DEF Holding
    <3>2. u \in Holding(cur)' /\ wr'[u] = wr[u]
        BY <1>5, <2>1, <3>1
    <3>3. Entry(cur, i) = wr[u].call
        BY <1>6, <2>1 DEF OwnedEntries
    <3>4. Entry(cur, i)' = wr'[u].call
        BY <1>6, <2>1, <3>2 DEF OwnedEntries
    <3> QED BY <3>2, <3>3, <3>4
  <2>2. CASE \A u \in Holding(cur) : wr[u].slot # i
    <3>1. i # n
        BY <1>1, <1>4
    <3>2. \A u \in Holding(cur)' : wr'[u].slot # i
      <4> SUFFICES ASSUME NEW u \in Holding(cur)' PROVE wr'[u].slot # i
          OBVIOUS
      <4>1. CASE u = t
          BY <1>2, <3>1, <4>1
      <4>2. CASE u # t
        <5>1. u \in Writers
            BY DEF Holding
        <5> QED BY <1>5, <2>2, <4>2, <5>1
      <4> QED BY <4>1, <4>2
    <3>3. Entry(cur, i)' = buf'[cur'][i]
        BY <3>2 DEF Entry
    <3> QED BY <2>2, <3>3, EntryFree
  <2> QED BY <2>1, <2>2
<1>8. Entry(cur, n)' = c
    BY <1>2, <1>5, <1>6 DEF OwnedEntries
<1>9. /\ DOMAIN Log' = DOMAIN Log \cup {n} /\ Log'[n] = c
      /\ \A i \in DOMAIN Log : i \in Int /\ i < n /\ Log'[i] = Log[i]
    BY <1>4, <1>7, <1>8, LogAtStep
<1>10. n \in Int
    BY <1>1
<1>11. ViewOf(Log') = [ViewOf(Log) EXCEPT ![c.idx] = c.weight]
    BY <1>9, <1>10, LogAtStep, ViewOfAppended
<1>12. c.idx \in Dest
  <2>1. wr[t].pc # "idle"
      OBVIOUS
  <2> QED BY <2>1 DEF Base, LogWritten, CallsMade, c
<1> QED BY <1>11, <1>12, LogAtStep DEF c

\* One edge changes: how the number of edges follows.
LEMMA LiveCount ==
    ASSUME NEW A, A = [d \in Dest |-> A[d]], NEW e \in Dest, NEW w, NEW delta \in {-1, 0, 1},
           delta = -1 <=> w = 0, delta = 1 <=> A[e] = 0, IsFiniteSet(LiveOf(A))
    PROVE  Cardinality(LiveOf([A EXCEPT ![e] = w])) = Cardinality(LiveOf(A)) + delta
<1> DEFINE B == [A EXCEPT ![e] = w]
<1>1. B[e] = w /\ \A d \in Dest : d # e => B[d] = A[d]
    OBVIOUS
<1> HIDE DEF B
<1>2. Cardinality(LiveOf(A)) \in Nat
    BY FS_CardinalityType
<1>3. CASE delta = 1
  <2>1. LiveOf(B) = LiveOf(A) \cup {e} /\ e \notin LiveOf(A)
      BY <1>1, <1>3 DEF LiveOf
  <2>2. Cardinality(LiveOf(B)) = Cardinality(LiveOf(A)) + 1
      BY <2>1, FS_AddElement
  <2> QED BY <1>3, <2>2 DEF B
<1>4. CASE delta = 0
  <2>1. LiveOf(B) = LiveOf(A)
      BY <1>1, <1>4 DEF LiveOf
  <2> QED BY <1>2, <1>4, <2>1 DEF B
<1>5. CASE delta = -1
  <2>1. LiveOf(B) = LiveOf(A) \ {e} /\ e \in LiveOf(A)
      BY <1>1, <1>5 DEF LiveOf
  <2>2. Cardinality(LiveOf(B)) = Cardinality(LiveOf(A)) - 1
      BY <2>1, FS_RemoveElement
  <2> QED BY <1>2, <1>5, <2>2 DEF B
<1> QED BY <1>3, <1>4, <1>5

\* The writers that owe the degree a change are finitely many, and one that begins
\* to owe one changes their numbers by its own.
LEMMA CountingFinite ==
    /\ IsFiniteSet(Adding) /\ Cardinality(Adding) \in Nat
    /\ IsFiniteSet(Removing) /\ Cardinality(Removing) \in Nat
<1>1. Adding \in SUBSET Writers /\ Removing \in SUBSET Writers
    BY DEF Adding, Removing
<1> QED BY <1>1, FiniteThreads, FS_Subset, FS_CardinalityType

\* A writer takes its slot: it is one more that has still to adjust the degree.
LEMMA BeginsCounting ==
    ASSUME NEW t \in Writers, \A u \in Writers : u # t => wr'[u] = wr[u],
           wr[t].pc \notin Counting, wr'[t].pc \in Counting, wr'[t].call.delta \in {-1, 0, 1}
    PROVE  Cardinality(Adding') - Cardinality(Removing') =
               Cardinality(Adding) - Cardinality(Removing) + wr'[t].call.delta
<1> DEFINE delta == wr'[t].call.delta
<1>1. t \notin Adding /\ t \notin Removing
    BY DEF Adding, Removing
<1>2. /\ Adding' = IF delta = 1 THEN Adding \cup {t} ELSE Adding
      /\ Removing' = IF delta = -1 THEN Removing \cup {t} ELSE Removing
    BY DEF Adding, Removing
<1>3. /\ Cardinality(Adding \cup {t}) = Cardinality(Adding) + 1
      /\ Cardinality(Removing \cup {t}) = Cardinality(Removing) + 1
    BY <1>1, CountingFinite, FS_AddElement
<1>4. Cardinality(Adding) \in Nat /\ Cardinality(Removing) \in Nat /\ delta \in {-1, 0, 1}
    BY CountingFinite
<1> HIDE DEF delta, Adding, Removing
<1>5. Cardinality(Adding') - Cardinality(Removing') = Cardinality(Adding) - Cardinality(Removing) + delta
    BY <1>2, <1>3, <1>4
<1> QED BY <1>5 DEF delta

\* A slot is handed out: the call takes effect, the degree is still to be adjusted.
LEMMA ContentsPlace ==
    ASSUME Base, Base', Contents, NEW t \in Writers, wr[t].pc \in {"reserve", "reload"},
           TakeSlot(t, cur), ~(arr[cur].size >= arr[cur].cap), cur' = cur, buf' = buf
    PROVE  Contents' /\ wr'[t].pc \in Counting
<1> DEFINE c == wr[t].call
<1>1. /\ IInv /\ TypeOK /\ cur \in Versions /\ cur \in Nat
      /\ arr[cur].size \in Nat /\ arr[cur].cap \in Nat /\ arr[cur].phys \in Nat
      /\ arr[cur].deg \in Int /\ \A u \in Versions : arr[u] \in Headers
    BY BaseFacts, HeaderFields
<1>2. /\ wr'[t].call = c /\ wr'[t].pc \in Counting
      /\ \A u \in Writers : u # t => wr'[u] = wr[u]
      /\ arr'[cur] = [arr[cur] EXCEPT !.size = arr[cur].size + 1]
      /\ \A u \in Versions : u # cur => arr'[u] = arr[u]
    BY <1>1, TakeSlotFields, TakeSlotKeeps DEF Counting
<1>3. \A u \in Versions : /\ arr'[u].mem = arr[u].mem /\ arr'[u].snapDeg = arr[u].snapDeg
                          /\ arr'[u].deg = arr[u].deg
    BY <1>1, <1>2 DEF Headers
<1>4. c.idx \in Dest /\ View' = [View EXCEPT ![c.idx] = c.weight]
    BY ViewTake
<1>5. /\ c.delta \in {-1, 0, 1} /\ (c.delta = -1 <=> c.weight = 0)
      /\ (c.delta = 1 <=> View[c.idx] = 0)
      /\ \A u \in Writers : u # t /\ wr[u].pc # "idle" => wr[u].call.idx # c.idx
    BY DEF Contents, CallsSound, CallsLegal, Unplaced
<1>6. View = [d \in Dest |-> View[d]]
    BY DEF View
<1> HIDE DEF c
<1>7. \A u \in Writers : wr[u].pc # "publish"
  <2> SUFFICES ASSUME NEW u \in Writers, wr[u].pc = "publish"
               PROVE  FALSE
      OBVIOUS
  <2>1. Holding(cur) = {} /\ arr[cur].phys = arr[cur].cap
      BY <1>1, NoneHolding DEF IInv, Handover
  <2>2. Cardinality(Holding(cur)) = 0
      BY <2>1, FS_EmptySet
  <2>3. arr[cur].phys = arr[cur].size
      BY <1>1, <2>2 DEF IInv, SlotsAccounted
  <2> QED BY <1>1, <2>1, <2>3
<1>8. CallsSound'
  <2>1. wr'[t].call = wr[t].call /\ wr[t].pc # "idle"
      BY <1>2 DEF c
  <2> QED BY <1>2, <2>1 DEF Contents, CallsSound
<1>9. CallsLegal'
  <2> SUFFICES ASSUME NEW u \in Writers, wr'[u].pc \in Unplaced
               PROVE  wr'[u].call.delta = 1 <=> View'[wr'[u].call.idx] = 0
      BY DEF CallsLegal
  <2>1. u # t /\ wr'[u] = wr[u] /\ wr[u].pc # "idle"
      BY <1>2 DEF Unplaced, Counting
  <2>2. wr[u].call.idx \in Dest /\ wr[u].call.idx # c.idx
      BY <1>5, <2>1 DEF Base, LogWritten, CallsMade
  <2>3. View'[wr[u].call.idx] = View[wr[u].call.idx]
      BY <1>4, <1>6, <2>2
  <2> QED BY <2>1, <2>3 DEF Contents, CallsLegal
<1>10. Stored'
    BY <1>2, StoredFrame DEF Contents, Counting
<1>11. SnapshotSound'
    BY <1>3, SnapshotFrame DEF Contents
<1>12. NewArraySame'
    BY <1>2, <1>7 DEF NewArraySame, Counting
<1>13. DegreeExact'
  <2>1. Cardinality(Adding') - Cardinality(Removing') =
            Cardinality(Adding) - Cardinality(Removing) + c.delta
    <3>1. wr[t].pc \notin Counting
        BY DEF Counting
    <3> QED BY <1>2, <1>5, <3>1, BeginsCounting
  <2>2. IsFiniteSet(LiveOf(View)) /\ Cardinality(LiveOf(View)) \in Nat
      BY LogAtStep, LatestCount
  <2>3. Cardinality(Live') = Cardinality(Live) + c.delta
    <3> HIDE DEF View
    <3>1. Cardinality(LiveOf([View EXCEPT ![c.idx] = c.weight])) = Cardinality(LiveOf(View)) + c.delta
        BY <1>4, <1>5, <1>6, <2>2, LiveCount
    <3> QED BY <1>4, <3>1 DEF Live
  <2>4. Cardinality(Live) \in Nat
      BY <2>2 DEF Live
  <2>5. /\ Cardinality(Adding) \in Nat /\ Cardinality(Removing) \in Nat
        /\ Cardinality(Adding') \in Nat /\ Cardinality(Removing') \in Nat
    <3>1. (Cardinality(Adding) \in Nat /\ Cardinality(Removing) \in Nat)'
        BY CountingFinite, PTL
    <3> QED BY <3>1, CountingFinite
  <2>6. arr'[cur'].deg = arr[cur].deg
      BY <1>1, <1>3
  <2>7. arr[cur].deg + Cardinality(Adding) = Cardinality(Live) + Cardinality(Removing)
      BY DEF Contents, DegreeExact
  <2> HIDE DEF Adding, Removing, Live
  <2>8. arr'[cur'].deg + Cardinality(Adding') = Cardinality(Live') + Cardinality(Removing')
      BY <1>1, <1>5, <2>1, <2>3, <2>4, <2>5, <2>6, <2>7
  <2> QED BY <2>8 DEF DegreeExact
<1> QED BY <1>2, <1>8, <1>9, <1>10, <1>11, <1>12, <1>13 DEF Contents

\* What taking a slot number comes to: an overflow, or the call takes effect.
TakesEffect(t) ==
    /\ wr'[t].pc \in Counting /\ wr[t].call.idx \in Dest
    /\ View' = [View EXCEPT ![wr[t].call.idx] = wr[t].call.weight]

\* fetch_add hands out a slot, or sends the writer to the lock.
LEMMA ContentsTake ==
    ASSUME Base, Base', Contents, NEW t \in Writers, Reserve(t) \/ Reload(t)
    PROVE  Contents' /\ (TakesEffect(t) \/ (View' = View /\ wr'[t].pc = "lock"))
<1>1. /\ IInv /\ cur \in Versions /\ cur \in Nat /\ \A v \in 0 .. cur : v \in Versions
    BY CurFacts, BaseFacts
<1>2. PICK v \in Versions :
          /\ v <= cur /\ wr[t].pc \in {"reserve", "reload"} /\ TakeSlot(t, v)
          /\ (v # cur => arr[v].size >= arr[v].cap) /\ cur' = cur /\ buf' = buf
  <2>1. CASE Reserve(t)
    <3>1. /\ wr[t].pc = "reserve" /\ TakeSlot(t, wr[t].arr) /\ cur' = cur /\ buf' = buf
          /\ arr[wr[t].arr].mem # "freed"
        BY <2>1 DEF Reserve
    <3>2. wr[t].arr \in 0 .. cur
        BY <1>1, <3>1 DEF IInv, PointersInChain
    <3>3. wr[t].arr # cur => arr[wr[t].arr].size >= arr[wr[t].arr].cap
        BY <1>1, <3>1, <3>2 DEF IInv, RetiredOverfull
    <3>4. wr[t].arr \in Versions /\ wr[t].arr <= cur
        BY <1>1, <3>2
    <3> QED BY <3>1, <3>3, <3>4
  <2>2. CASE Reload(t)
    <3>1. wr[t].pc = "reload" /\ TakeSlot(t, cur) /\ cur' = cur /\ buf' = buf
        BY <2>2 DEF Reload
    <3> QED BY <1>1, <3>1
  <2> QED BY <2>1, <2>2
<1>3. CASE arr[v].size >= arr[v].cap
  <2>1. Contents' /\ View' = View /\ wr'[t].pc = "lock"
      BY <1>2, <1>3, ContentsOverflow
  <2> QED BY <2>1
<1>4. CASE ~(arr[v].size >= arr[v].cap)
  <2>1. v = cur
      BY <1>2, <1>4
  <2>2. Contents' /\ wr'[t].pc \in Counting
      BY <1>2, <1>4, <2>1, ContentsPlace
  <2>3. wr[t].call.idx \in Dest /\ View' = [View EXCEPT ![wr[t].call.idx] = wr[t].call.weight]
      BY <1>2, <1>4, <2>1, ViewTake
  <2> QED BY <2>2, <2>3 DEF TakesEffect
<1> QED BY <1>3, <1>4

\* Drawing a timestamp changes no edge.
LEMMA ContentsTick ==
    ASSUME Base, Base', Contents, NEW t \in Writers, Tick(t)
    PROVE  Contents' /\ View' = View
<1>1. /\ cur \in Versions /\ cur' = cur /\ arr' = arr /\ buf' = buf /\ wr[t].pc = "tick"
      /\ wr[t] \in WriterStates
    BY BaseFacts DEF Tick, TypeOK
<1>2. /\ wr'[t].pc = "stamp" /\ wr'[t].slot = wr[t].slot /\ wr'[t].call = wr[t].call
      /\ \A u \in Writers : u # t => wr'[u] = wr[u]
  <2>1. wr' = [wr EXCEPT ![t] = [wr[t] EXCEPT !.pc = "stamp", !.stamp = clock]]
      BY DEF Tick
  <2>2. /\ wr'[t] = [wr[t] EXCEPT !.pc = "stamp", !.stamp = clock]
        /\ \A u \in Writers : u # t => wr'[u] = wr[u]
      BY <2>1 DEF Base, IInv, TypeOK
  <2> QED BY <1>1, <2>2 DEF WriterStates
<1>3. Reserved(cur)' = Reserved(cur)
    BY <1>1 DEF Reserved
<1>4. \A u \in Writers :
         /\ wr'[u].pc \in Writing <=> wr[u].pc \in Writing
         /\ wr[u].pc \in Writing => wr'[u].slot = wr[u].slot /\ wr'[u].call = wr[u].call
    BY <1>1, <1>2 DEF Writing
<1>5. View' = View
    BY <1>1, <1>3, <1>4, LogSame
<1>6. Stored'
    BY <1>1, <1>2, StoredFrame DEF Contents
<1>7. /\ wr'[t].pc \in Counting /\ wr[t].pc \in Counting /\ wr'[t].pc \notin Unplaced
      /\ wr'[t].pc # "publish" /\ wr[t].pc # "idle"
    BY <1>1, <1>2 DEF Counting, Unplaced
<1> QED BY <1>1, <1>2, <1>5, <1>6, <1>7, ContentsFrame

\* One store of an owner to its cell, and the change of deg that goes with the first.
LEMMA FillFields ==
    ASSUME Base, NEW t \in Writers, Stamp(t) \/ WriteIdx(t) \/ WriteWeight(t)
    PROVE  /\ cur' = cur /\ wr[t].arr = cur /\ wr[t].pc \in {"stamp", "idx", "weight"}
           /\ wr[t].slot \in DOMAIN buf[cur] /\ wr[t].slot >= arr[cur].snapDeg
           /\ wr'[t].slot = wr[t].slot /\ wr'[t].call = wr[t].call
           /\ \A u \in Writers : u # t => wr'[u] = wr[u]
           /\ wr'[t].pc = IF wr[t].pc = "stamp" THEN "idx"
                          ELSE IF wr[t].pc = "idx" THEN "weight" ELSE "commit"
           /\ \A v \in Versions : /\ arr'[v].mem = arr[v].mem /\ arr'[v].snapDeg = arr[v].snapDeg
                                  /\ arr'[v].size = arr[v].size /\ arr'[v].cap = arr[v].cap
           /\ \A v \in Versions : v # cur => arr'[v] = arr[v] /\ buf'[v] = buf[v]
           /\ arr'[cur].deg = IF wr[t].pc = "stamp" THEN arr[cur].deg + wr[t].call.delta
                              ELSE arr[cur].deg
           /\ \A i \in DOMAIN buf[cur] : i # wr[t].slot => buf'[cur][i] = buf[cur][i]
           /\ wr[t].pc = "idx" => buf'[cur][wr[t].slot].idx = wr[t].call.idx
           /\ wr[t].pc = "weight" => /\ buf'[cur][wr[t].slot].idx = buf[cur][wr[t].slot].idx
                                     /\ buf'[cur][wr[t].slot].weight = wr[t].call.weight
<1> DEFINE s == wr[t].slot
           b == buf[cur][s]
<1>1. /\ TypeOK /\ IInv /\ cur \in Versions /\ wr[t].pc \in {"stamp", "idx", "weight"}
      /\ wr[t].arr = cur /\ cur' = cur
      /\ arr[cur].mem = "live" /\ s < arr[cur].cap /\ s \in Nat /\ arr[cur].cap \in Nat
      /\ arr \in [Versions -> Headers] /\ \A v \in Versions : arr[v] \in Headers
  <2>1. /\ wr[t].pc \in {"stamp", "idx", "weight"} /\ cur' = cur
      BY DEF Stamp, WriteIdx, WriteWeight
  <2>2. /\ TypeOK /\ IInv /\ cur \in Versions /\ arr[cur].mem = "live" /\ arr[cur].cap \in Nat
        /\ arr \in [Versions -> Headers] /\ \A v \in Versions : arr[v] \in Headers
      BY BaseFacts, HeaderFields DEF TypeOK
  <2> QED BY <2>1, <2>2, WriterFields DEF Writing, IInv, SlotsOfWriters
<1>2. s \in DOMAIN buf[cur]
  <2>1. DOMAIN buf[cur] = 0 .. (arr[cur].cap - 1)
      BY BaseFacts
  <2> QED BY <1>1, <2>1
<1>3. s >= arr[cur].snapDeg
  <2>1. t \in Holding(cur)
      BY <1>1 DEF Holding, Writing
  <2> QED BY <2>1 DEF Base, SlotsNotShared
<1>4. LogCell(b)
    BY <1>1, <1>2 DEF Base, LogWritten, CellsTyped
<1>cell. PICK x \in Dest \cup {NoIdx} : \E y, z : b = [idx |-> x, weight |-> y, stamp |-> z]
    BY <1>4 DEF LogCell
<1>5. PICK y, z : b = [idx |-> x, weight |-> y, stamp |-> z]
    BY <1>cell
<1>6. SetWriter(t, IF wr[t].pc = "stamp" THEN "idx" ELSE IF wr[t].pc = "idx" THEN "weight" ELSE "commit")
    BY DEF Stamp, WriteIdx, WriteWeight
<1>7. PICK p \in {"idx", "weight", "commit"} :
          /\ p = IF wr[t].pc = "stamp" THEN "idx" ELSE IF wr[t].pc = "idx" THEN "weight" ELSE "commit"
          /\ SetWriter(t, p)
    BY <1>6
<1>8. /\ wr'[t].pc = p /\ wr'[t].slot = s /\ wr'[t].call = wr[t].call
      /\ \A u \in Writers : u # t => wr'[u] = wr[u]
    BY <1>1, <1>7, SetWriterFields, SetWriterKeeps DEF WriterPcs
<1>9. /\ \A v \in Versions : /\ arr'[v].mem = arr[v].mem /\ arr'[v].snapDeg = arr[v].snapDeg
                             /\ arr'[v].size = arr[v].size /\ arr'[v].cap = arr[v].cap
      /\ \A v \in Versions : v # cur => arr'[v] = arr[v]
      /\ arr'[cur].deg = IF wr[t].pc = "stamp" THEN arr[cur].deg + wr[t].call.delta
                         ELSE arr[cur].deg
  <2>1. CASE Stamp(t)
    <3> DEFINE n == arr[cur].deg + wr[t].call.delta
    <3>1. arr' = [arr EXCEPT ![cur] = [arr[cur] EXCEPT !.deg = n]] /\ wr[t].pc = "stamp"
        BY <1>1, <2>1 DEF Stamp
    <3>2. n = arr[cur].deg + wr[t].call.delta
        OBVIOUS
    <3> HIDE DEF n, b, s
    <3>3. arr'[cur].deg = n
        BY <1>1, <3>1 DEF Headers
    <3>4. \A v \in Versions : /\ arr'[v].mem = arr[v].mem /\ arr'[v].snapDeg = arr[v].snapDeg
                              /\ arr'[v].size = arr[v].size /\ arr'[v].cap = arr[v].cap
        BY <1>1, <3>1 DEF Headers
    <3> QED BY <1>1, <3>1, <3>2, <3>3, <3>4
  <2>2. CASE WriteIdx(t) \/ WriteWeight(t)
      BY <2>2 DEF WriteIdx, WriteWeight
  <2> QED BY <2>1, <2>2
<1>10. \E c : /\ buf' = [buf EXCEPT ![cur] = [buf[cur] EXCEPT ![s] = c]]
              /\ wr[t].pc = "idx" => c.idx = wr[t].call.idx
              /\ wr[t].pc = "weight" => c.idx = b.idx /\ c.weight = wr[t].call.weight
  <2>1. CASE Stamp(t)
      BY <1>1, <2>1 DEF Stamp
  <2>2. CASE WriteIdx(t)
    <3> DEFINE n == wr[t].call.idx
               c == [b EXCEPT !.idx = n]
    <3>1. buf' = [buf EXCEPT ![cur] = [buf[cur] EXCEPT ![s] = c]] /\ wr[t].pc = "idx"
        BY <1>1, <2>2 DEF WriteIdx
    <3>2. n = wr[t].call.idx
        OBVIOUS
    <3> HIDE DEF b, n
    <3>3. c = [idx |-> n, weight |-> y, stamp |-> z]
        BY <1>5
    <3> QED BY <3>1, <3>2, <3>3
  <2>3. CASE WriteWeight(t)
    <3> DEFINE n == wr[t].call.weight
               c == [b EXCEPT !.weight = n]
    <3>1. buf' = [buf EXCEPT ![cur] = [buf[cur] EXCEPT ![s] = c]] /\ wr[t].pc = "weight"
        BY <1>1, <2>3 DEF WriteWeight
    <3>2. n = wr[t].call.weight
        OBVIOUS
    <3> HIDE DEF b, n
    <3>3. c = [idx |-> x, weight |-> n, stamp |-> z] /\ b.idx = x
        BY <1>5
    <3> QED BY <3>1, <3>2, <3>3
  <2> QED BY <2>1, <2>2, <2>3
<1>11. PICK c : /\ buf' = [buf EXCEPT ![cur] = [buf[cur] EXCEPT ![s] = c]]
                /\ wr[t].pc = "idx" => c.idx = wr[t].call.idx
                /\ wr[t].pc = "weight" => c.idx = b.idx /\ c.weight = wr[t].call.weight
    BY <1>10
<1>12. /\ DOMAIN buf'[cur] = DOMAIN buf[cur] /\ buf'[cur][s] = c
       /\ \A j \in DOMAIN buf[cur] : j # s => buf'[cur][j] = buf[cur][j]
       /\ \A v \in Versions : v # cur => buf'[v] = buf[v]
    BY <1>1, <1>2, <1>11, CellStored
<1> QED BY <1>1, <1>2, <1>3, <1>7, <1>8, <1>9, <1>11, <1>12

\* The stores of an owner touch no cell that anybody else reads an entry from.
LEMMA FillKeeps ==
    ASSUME Base, Base', Contents, NEW t \in Writers, Stamp(t) \/ WriteIdx(t) \/ WriteWeight(t)
    PROVE  /\ View' = View /\ Stored'
           /\ \A v \in Versions : \A i \in 0 .. (arr[v].snapDeg - 1) :
                 arr[v].mem = "live" => buf'[v][i] = buf[v][i]
<1> DEFINE s == wr[t].slot
<1>1. /\ IInv /\ cur \in Versions /\ cur' = cur /\ wr[t].arr = cur
      /\ wr[t].pc \in {"stamp", "idx", "weight"} /\ s \in DOMAIN buf[cur]
      /\ arr[cur].cap \in Nat /\ DOMAIN buf[cur] = 0 .. (arr[cur].cap - 1)
    BY FillFields, BaseFacts
<1>2. /\ wr'[t].slot = s /\ wr'[t].call = wr[t].call
      /\ \A u \in Writers : u # t => wr'[u] = wr[u]
      /\ wr'[t].pc = IF wr[t].pc = "stamp" THEN "idx"
                     ELSE IF wr[t].pc = "idx" THEN "weight" ELSE "commit"
    BY FillFields
<1>3. /\ \A i \in DOMAIN buf[cur] : i # s => buf'[cur][i] = buf[cur][i]
      /\ \A v \in Versions : v # cur => buf'[v] = buf[v]
    BY FillFields
<1>4. Reserved(cur)' = Reserved(cur)
    BY <1>1, FillFields DEF Reserved
<1>5. t \in Holding(cur)
    BY <1>1 DEF Holding, Writing
<1>6. View' = View
  <2>1. \A u \in Writers :
           /\ wr'[u].pc \in Writing <=> wr[u].pc \in Writing
           /\ wr[u].pc \in Writing => wr'[u].slot = wr[u].slot /\ wr'[u].call = wr[u].call
      BY <1>1, <1>2 DEF Writing
  <2>2. ASSUME NEW i \in Reserved(cur), \A u \in Holding(cur) : wr[u].slot # i
        PROVE  buf'[cur][i] = buf[cur][i]
    <3>1. i \in DOMAIN buf[cur] /\ i # s
        BY <1>1, <1>5, <2>2 DEF Reserved
    <3> QED BY <1>3, <3>1
  <2> QED BY <1>1, <1>4, <2>1, <2>2, LogSame
<1>7. Stored'
  <2>1. \A u \in Writers : u # t /\ wr[u].pc \in Writing =>
            wr[u].slot # s /\ wr[u].slot \in DOMAIN buf[cur]
    <3> SUFFICES ASSUME NEW u \in Writers, u # t, wr[u].pc \in Writing
                 PROVE  wr[u].slot # s /\ wr[u].slot \in DOMAIN buf[cur]
        OBVIOUS
    <3>1. wr[u].arr = cur /\ wr[u].slot < arr[cur].cap /\ wr[u].slot \in Nat
        BY <1>1, WriterFields DEF IInv, SlotsOfWriters
    <3>2. u \in Holding(cur)
        BY <3>1 DEF Holding
    <3>3. wr[u].slot # s
        BY <1>1, <1>5, <3>2 DEF IInv, SlotsOfWriters
    <3> QED BY <1>1, <3>1, <3>3
  <2> SUFFICES ASSUME NEW u \in Writers
               PROVE  /\ wr'[u].pc \in {"weight", "commit"} =>
                            buf'[cur'][wr'[u].slot].idx = wr'[u].call.idx
                      /\ wr'[u].pc = "commit" =>
                            buf'[cur'][wr'[u].slot].weight = wr'[u].call.weight
      BY DEF Stored
  <2>2. CASE u = t
    <3>1. wr[t].pc = "idx" => buf'[cur][s].idx = wr[t].call.idx
        BY FillFields
    <3>2. wr[t].pc = "weight" => /\ buf'[cur][s].idx = buf[cur][s].idx
                                 /\ buf'[cur][s].weight = wr[t].call.weight
        BY FillFields
    <3>3. wr[t].pc = "weight" => buf[cur][s].idx = wr[t].call.idx
        BY DEF Contents, Stored
    <3> QED BY <1>1, <1>2, <2>2, <3>1, <3>2, <3>3
  <2>3. CASE u # t
    <3>1. wr'[u] = wr[u]
        BY <1>2, <2>3
    <3>2. wr[u].pc \in {"weight", "commit"} => buf'[cur'][wr[u].slot] = buf[cur][wr[u].slot]
        BY <1>1, <1>3, <2>1, <2>3 DEF Writing
    <3> QED BY <3>1, <3>2 DEF Contents, Stored
  <2> QED BY <2>2, <2>3
<1>8. ASSUME NEW v \in Versions, NEW i \in 0 .. (arr[v].snapDeg - 1), arr[v].mem = "live"
      PROVE  buf'[v][i] = buf[v][i]
  <2>1. CASE v # cur
      BY <1>3, <2>1
  <2>2. CASE v = cur
    <3>1. arr[cur].snapDeg \in Nat /\ arr[cur].snapDeg <= arr[cur].cap
      <4>1. arr[cur].snapDeg <= arr[cur].phys /\ arr[cur].phys <= arr[cur].cap
          BY <1>1 DEF IInv, VersionsSane
      <4>2. arr[cur].snapDeg \in Nat /\ arr[cur].phys \in Nat
          BY BaseFacts
      <4> QED BY <1>1, <4>1, <4>2
    <3>2. i \in DOMAIN buf[cur] /\ i # s
      <4>1. s >= arr[cur].snapDeg
          BY FillFields
      <4> QED BY <1>1, <2>2, <3>1, <4>1
    <3> QED BY <1>3, <2>2, <3>2
  <2> QED BY <2>1, <2>2
<1> QED BY <1>6, <1>7, <1>8

\* Storing the entry changes no edge, for the slot counts as written by its owner.
LEMMA ContentsWrite ==
    ASSUME Base, Base', Contents, NEW t \in Writers, WriteIdx(t) \/ WriteWeight(t)
    PROVE  Contents' /\ View' = View
<1>1. wr[t].pc \in {"idx", "weight"}
    BY DEF WriteIdx, WriteWeight
<1>2. View' = View /\ Stored'
    BY FillKeeps
<1>3. /\ wr'[t].pc \in {"weight", "commit"} /\ cur' = cur /\ wr'[t].call = wr[t].call
      /\ \A u \in Writers : u # t => wr'[u] = wr[u]
      /\ arr'[cur].deg = arr[cur].deg
    BY <1>1, FillFields
<1>4. cur + 1 \in Versions => arr'[cur + 1] = arr[cur + 1] /\ buf'[cur + 1] = buf[cur + 1]
  <2>1. cur + 1 # cur
      BY BaseFacts
  <2> QED BY <2>1, FillFields
<1>5. \A v \in Versions : arr'[v].mem = "live" =>
         /\ arr[v].mem = "live" /\ arr'[v].snapDeg = arr[v].snapDeg
         /\ \A i \in 0 .. (arr[v].snapDeg - 1) : buf'[v][i] = buf[v][i]
    BY FillKeeps, FillFields
<1>6. /\ wr'[t].pc \notin Counting /\ wr[t].pc \notin Counting /\ wr'[t].pc \notin Unplaced
      /\ wr'[t].pc # "publish" /\ wr[t].pc # "idle"
    BY <1>1, <1>3 DEF Counting, Unplaced
<1> QED BY <1>2, <1>3, <1>4, <1>5, <1>6, ContentsFrame

\* A writer that adjusts the degree owes it nothing any more.
LEMMA EndsCounting ==
    ASSUME NEW t \in Writers, \A u \in Writers : u # t => wr'[u] = wr[u],
           wr[t].pc \in Counting, wr'[t].pc \notin Counting, wr[t].call.delta \in {-1, 0, 1}
    PROVE  Cardinality(Adding') - Cardinality(Removing') =
               Cardinality(Adding) - Cardinality(Removing) - wr[t].call.delta
<1> DEFINE delta == wr[t].call.delta
<1>1. (t \in Adding <=> delta = 1) /\ (t \in Removing <=> delta = -1)
    BY DEF Adding, Removing
<1>2. Adding' = Adding \ {t} /\ Removing' = Removing \ {t}
    BY DEF Adding, Removing
<1>3. /\ Cardinality(Adding \ {t}) = IF delta = 1 THEN Cardinality(Adding) - 1 ELSE Cardinality(Adding)
      /\ Cardinality(Removing \ {t}) =
            IF delta = -1 THEN Cardinality(Removing) - 1 ELSE Cardinality(Removing)
    BY <1>1, CountingFinite, FS_RemoveElement
<1>4. Cardinality(Adding) \in Nat /\ Cardinality(Removing) \in Nat /\ delta \in {-1, 0, 1}
    BY CountingFinite
<1> HIDE DEF delta, Adding, Removing
<1>5. Cardinality(Adding') - Cardinality(Removing') = Cardinality(Adding) - Cardinality(Removing) - delta
    BY <1>2, <1>3, <1>4
<1> QED BY <1>5 DEF delta

\* The degree is adjusted by the call that took the slot.
LEMMA ContentsStamp ==
    ASSUME Base, Base', Contents, NEW t \in Writers, Stamp(t)
    PROVE  Contents' /\ View' = View
<1>1. wr[t].pc = "stamp" /\ wr[t].call.delta \in {-1, 0, 1}
    BY DEF Stamp, Contents, CallsSound
<1>2. View' = View /\ Stored'
    BY FillKeeps
<1>3. /\ wr'[t].pc = "idx" /\ cur' = cur /\ wr'[t].call = wr[t].call
      /\ \A u \in Writers : u # t => wr'[u] = wr[u]
      /\ arr'[cur].deg = arr[cur].deg + wr[t].call.delta
    BY <1>1, FillFields
<1>4. cur + 1 \in Versions => arr'[cur + 1] = arr[cur + 1] /\ buf'[cur + 1] = buf[cur + 1]
  <2>1. cur + 1 # cur
      BY BaseFacts
  <2> QED BY <2>1, FillFields
<1>5. \A v \in Versions : arr'[v].mem = "live" =>
         /\ arr[v].mem = "live" /\ arr'[v].snapDeg = arr[v].snapDeg
         /\ \A i \in 0 .. (arr[v].snapDeg - 1) : buf'[v][i] = buf[v][i]
    BY FillKeeps, FillFields
<1>6. \A u \in Writers :
         /\ wr'[u].pc # "idle" => wr[u].pc # "idle" /\ wr'[u].call = wr[u].call
         /\ wr'[u].pc \in Unplaced => wr[u].pc \in Unplaced
         /\ wr'[u].pc = "publish" => wr[u].pc = "publish"
    BY <1>1, <1>3 DEF Unplaced
<1>7. CallsSound' /\ CallsLegal'
    BY <1>2, <1>6, CallsFrame DEF Contents
<1>8. SnapshotSound'
    BY <1>5, SnapshotFrame DEF Contents
<1>9. NewArraySame'
    BY <1>2, <1>3, <1>4, <1>6, NewArrayFrame DEF Contents, Base
<1>10. DegreeExact'
  <2>1. Cardinality(Adding') - Cardinality(Removing') =
            Cardinality(Adding) - Cardinality(Removing) - wr[t].call.delta
    <3>1. wr[t].pc \in Counting /\ wr'[t].pc \notin Counting
        BY <1>1, <1>3 DEF Counting
    <3> QED BY <1>1, <1>3, <3>1, EndsCounting
  <2>2. Live' = Live /\ Cardinality(Live) \in Nat
    <3>1. IsFiniteSet(LiveOf(View)) /\ Cardinality(LiveOf(View)) \in Nat
        BY LogAtStep, LatestCount
    <3> QED BY <1>2, <3>1 DEF Live
  <2>3. /\ Cardinality(Adding) \in Nat /\ Cardinality(Removing) \in Nat
        /\ Cardinality(Adding') \in Nat /\ Cardinality(Removing') \in Nat
    <3>1. (Cardinality(Adding) \in Nat /\ Cardinality(Removing) \in Nat)'
        BY CountingFinite, PTL
    <3> QED BY <3>1, CountingFinite
  <2>4. /\ arr[cur].deg + Cardinality(Adding) = Cardinality(Live) + Cardinality(Removing)
        /\ arr[cur].deg \in Int
      BY BaseFacts DEF Contents, DegreeExact
  <2> HIDE DEF Adding, Removing, Live
  <2>5. arr'[cur'].deg = arr[cur].deg + wr[t].call.delta /\ Cardinality(Live') = Cardinality(Live)
      BY <1>3, <2>2
  <2>6. wr[t].call.delta \in Int
      BY <1>1
  <2>7. arr'[cur'].deg + Cardinality(Adding') = Cardinality(Live') + Cardinality(Removing')
      BY <2>1, <2>2, <2>3, <2>4, <2>5, <2>6
  <2> QED BY <2>7 DEF DegreeExact
<1> QED BY <1>2, <1>7, <1>8, <1>9, <1>10 DEF Contents

\* A committed cell says what the call said.
LEMMA ContentsCommit ==
    ASSUME Base, Base', Contents, NEW t \in Writers, Commit(t)
    PROVE  Contents' /\ View' = View
<1>1. /\ IInv /\ TypeOK /\ cur \in Versions /\ cur \in Nat /\ wr[t].pc = "commit"
      /\ cur' = cur /\ buf' = buf /\ wr' = [wr EXCEPT ![t] = IdleWriter]
      /\ arr \in [Versions -> Headers] /\ \A v \in Versions : arr[v] \in Headers
    BY BaseFacts, HeaderFields DEF Commit, TypeOK
<1>2. wr[t].arr = cur /\ t \in Holding(cur)
    BY <1>1 DEF IInv, SlotsOfWriters, Writing, Holding
<1>3. wr'[t].pc = "idle" /\ \A u \in Writers : u # t => wr'[u] = wr[u]
    BY <1>1 DEF TypeOK, IdleWriter
<1>4. \A v \in Versions : /\ arr'[v].mem = arr[v].mem /\ arr'[v].snapDeg = arr[v].snapDeg
                          /\ arr'[v].size = arr[v].size /\ arr'[v].cap = arr[v].cap
                          /\ arr'[v].deg = arr[v].deg
  <2> DEFINE n == arr[cur].phys + 1
  <2>1. arr' = [arr EXCEPT ![cur] = [arr[cur] EXCEPT !.phys = n]]
      BY <1>2 DEF Commit
  <2> HIDE DEF n
  <2> QED BY <1>1, <2>1 DEF Headers
<1>5. Reserved(cur)' = Reserved(cur)
    BY <1>1, <1>4 DEF Reserved
<1>6. /\ \A u \in Holding(cur)' : u \in Holding(cur) /\ u # t /\ wr'[u] = wr[u]
      /\ \A u \in Holding(cur) : u # t => u \in Holding(cur)' /\ wr'[u] = wr[u]
  <2>1. \A u \in Holding(cur)' : u \in Writers /\ u # t
      BY <1>3 DEF Holding, Writing
  <2>2. \A u \in Writers : u # t => (u \in Holding(cur)' <=> u \in Holding(cur)) /\ wr'[u] = wr[u]
      BY <1>1, <1>3 DEF Holding
  <2>3. \A u \in Holding(cur) : u \in Writers
      BY DEF Holding
  <2> QED BY <2>1, <2>2, <2>3
<1>7. OwnedEntries /\ OwnedEntries'
  <2>1. IInv => OwnedEntries
      BY EntriesOwned
  <2>2. IInv' => OwnedEntries'
      BY EntriesOwned, PTL
  <2> QED BY <2>1, <2>2 DEF Base
<1>8. ASSUME NEW i \in Reserved(cur)
      PROVE  Entry(cur, i)'.idx = Entry(cur, i).idx /\ Entry(cur, i)'.weight = Entry(cur, i).weight
  <2>1. ASSUME NEW u \in Holding(cur), u # t, wr[u].slot = i
        PROVE  Entry(cur, i)' = Entry(cur, i)
    <3>1. Entry(cur, i) = wr[u].call
        BY <1>7, <2>1 DEF OwnedEntries
    <3>2. Entry(cur, i)' = wr'[u].call
        BY <1>6, <1>7, <2>1 DEF OwnedEntries
    <3> QED BY <1>6, <2>1, <3>1, <3>2
  <2>2. CASE \A u \in Holding(cur) : u # t => wr[u].slot # i
    <3>1. Entry(cur, i)' = buf[cur][i]
      <4>1. \A u \in Holding(cur)' : wr'[u].slot # i
          BY <1>6, <2>2
      <4> QED BY <1>1, <4>1 DEF Entry
    <3>2. CASE wr[t].slot = i
      <4>1. Entry(cur, i) = wr[t].call
          BY <1>2, <1>7, <3>2 DEF OwnedEntries
      <4>2. buf[cur][i].idx = wr[t].call.idx /\ buf[cur][i].weight = wr[t].call.weight
          BY <1>1, <3>2 DEF Contents, Stored
      <4> QED BY <3>1, <4>1, <4>2
    <3>3. CASE wr[t].slot # i
      <4>1. Entry(cur, i) = buf[cur][i]
          BY <2>2, <3>3, EntryFree
      <4> QED BY <3>1, <4>1
    <3> QED BY <3>2, <3>3
  <2> QED BY <2>1, <2>2
<1>9. View' = View
  <2>1. DOMAIN Log' = DOMAIN Log
      BY <1>5, LogAtStep
  <2>2. \A i \in DOMAIN Log : Log'[i].idx = Log[i].idx /\ Log'[i].weight = Log[i].weight
      BY <1>5, <1>8, LogAtStep
  <2> QED BY <2>1, <2>2, LogAtStep, ViewOfSame
<1>10. Stored'
    BY <1>1, <1>3, StoredFrame DEF Contents
<1>11. /\ wr'[t].pc \notin Counting /\ wr[t].pc \notin Counting /\ wr'[t].pc \notin Unplaced
       /\ wr'[t].pc # "publish" /\ wr[t].pc # "idle"
    BY <1>1, <1>3 DEF Counting, Unplaced
<1>12. \A v \in Versions : arr'[v].mem = "live" =>
         /\ arr[v].mem = "live" /\ arr'[v].snapDeg = arr[v].snapDeg
         /\ \A i \in 0 .. (arr[v].snapDeg - 1) : buf'[v][i] = buf[v][i]
    BY <1>1, <1>4
<1> QED BY <1>1, <1>3, <1>4, <1>9, <1>10, <1>11, <1>12, ContentsFrame

-----------------------------------------------------------------------------
(* Steps that take old arrays apart, and the steps of readers. *)

\* What concerns the edges is in arrays that nobody takes apart.
LEMMA ContentsBackground ==
    ASSUME Base, Base', Contents, cur' = cur,
           \A v \in Versions :
              /\ SameSlots(arr'[v], arr[v])
              /\ arr'[v].mem = "live" => arr[v].mem = "live" /\ buf'[v] = buf[v],
           \A u \in Writers :
              \/ wr'[u] = wr[u]
              \/ wr[u].pc = "reclaim" /\ wr'[u].pc = "reload" /\ wr'[u].call = wr[u].call
    PROVE  Contents' /\ View' = View
<1>1. cur \in Versions /\ IInv' /\ arr'[cur].mem = "live" /\ buf'[cur] = buf[cur]
  <2>1. cur \in Versions
      BY BaseFacts
  <2>2. IInv' /\ arr'[cur].mem = "live"
      BY DEF Base, IInv, VersionsSane
  <2> QED BY <2>1, <2>2
<1>2. Reserved(cur)' = Reserved(cur)
    BY <1>1 DEF Reserved, SameSlots
<1>3. \A u \in Writers :
         /\ wr'[u].pc \in Writing <=> wr[u].pc \in Writing
         /\ wr[u].pc \in Writing => wr'[u] = wr[u]
    BY DEF Writing
<1>4. View' = View
    BY <1>1, <1>2, <1>3, LogSame
<1>5. \A u \in Writers :
         /\ wr'[u].pc # "idle" => wr[u].pc # "idle" /\ wr'[u].call = wr[u].call
         /\ wr'[u].pc \in Unplaced => wr[u].pc \in Unplaced
         /\ wr'[u].pc \in Counting <=> wr[u].pc \in Counting
         /\ wr[u].pc \in Counting => wr'[u].call = wr[u].call
         /\ wr'[u].pc = "publish" => wr[u].pc = "publish"
         /\ wr'[u].pc \in {"weight", "commit"} => wr'[u] = wr[u]
    BY DEF Unplaced, Counting
<1>6. CallsSound' /\ CallsLegal'
    BY <1>4, <1>5, CallsFrame DEF Contents
<1>7. DegreeExact'
  <2>1. arr'[cur'].deg = arr[cur].deg
      BY <1>1 DEF SameSlots
  <2> QED BY <1>4, <1>5, <2>1, DegreeFrame DEF Contents
<1>8. SnapshotSound'
  <2>1. \A v \in Versions : arr'[v].mem = "live" =>
           /\ arr[v].mem = "live" /\ arr'[v].snapDeg = arr[v].snapDeg
           /\ \A i \in 0 .. (arr[v].snapDeg - 1) : buf'[v][i] = buf[v][i]
      BY DEF SameSlots
  <2> QED BY <2>1, SnapshotFrame DEF Contents
<1>9. NewArraySame'
  <2> SUFFICES ASSUME NEW u \in Writers, wr'[u].pc = "publish"
               PROVE  NewArraySame'
      BY DEF NewArraySame
  <2>1. cur + 1 \in Versions /\ arr'[cur + 1].mem = "live"
      BY <1>1 DEF IInv, Handover
  <2>2. /\ arr'[cur + 1].size = arr[cur + 1].size /\ arr'[cur + 1].deg = arr[cur + 1].deg
        /\ buf'[cur + 1] = buf[cur + 1]
      BY <2>1 DEF SameSlots
  <2> QED BY <1>4, <1>5, <2>2, NewArrayFrame DEF Contents, Base
<1>10. Stored'
    BY <1>1, <1>5, StoredFrame DEF Contents
<1> QED BY <1>4, <1>6, <1>7, <1>8, <1>9, <1>10 DEF Contents

\* Purging the retired array and deleting the one before it change no edge.
LEMMA ContentsReclaim ==
    ASSUME Base, Base', Contents, NEW t \in Writers, Reclaim(t)
    PROVE  Contents' /\ View' = View
<1>1. IInv /\ TypeOK /\ Linked /\ wr[t].pc = "reclaim" /\ cur' = cur /\ SetWriter(t, "reload")
    BY BaseFacts DEF Reclaim
<1>2. \A v \in Versions : /\ SameSlots(arr'[v], arr[v])
                          /\ arr'[v].mem = "live" => arr[v].mem = "live" /\ buf'[v] = buf[v]
    BY <1>1, ReclaimFields DEF Retiring
<1>3. /\ wr'[t].pc = "reload" /\ wr'[t].call = wr[t].call
      /\ \A u \in Writers : u # t => wr'[u] = wr[u]
    BY <1>1, SetWriterFields, SetWriterKeeps DEF WriterPcs
<1> QED BY <1>1, <1>2, <1>3, ContentsBackground

\* A reader changes no edge, also when it deletes a version.
LEMMA ContentsReader ==
    ASSUME Base, Base', Contents, NEW r \in Readers, QuietReader(r) \/ Unpin(r)
    PROVE  Contents' /\ View' = View
<1>1. IInv
    BY DEF Base
<1>2. /\ cur' = cur /\ wr' = wr
      /\ \A v \in Versions : /\ SameSlots(arr'[v], arr[v])
                             /\ arr'[v].mem = "live" => arr[v].mem = "live" /\ buf'[v] = buf[v]
  <2>1. CASE QuietReader(r)
      BY <1>1, <2>1, QuietReaderFields DEF SameVersion
  <2>2. CASE Unpin(r)
    <3>1. cur' = cur /\ wr' = wr
        BY <2>2 DEF Unpin
    <3> QED BY <1>1, <2>2, <3>1, UnpinFields DEF Retiring
  <2> QED BY <2>1, <2>2
<1> QED BY <1>2, ContentsBackground

\* Neither does a step that changes nothing.
LEMMA ContentsStutter ==
    ASSUME Base, Base', Contents, UNCHANGED vars
    PROVE  Contents' /\ View' = View
BY ContentsBackground DEF vars, SameSlots

-----------------------------------------------------------------------------
(* Compactions. *)

\* Once nobody owns a slot, the log is in the buffer and the degree is exact.
LEMMA QuietLog ==
    ASSUME Base, Contents, Holding(cur) = {}
    PROVE  /\ arr[cur].phys \in Nat /\ Reserved(cur) = 0 .. (arr[cur].phys - 1)
           /\ Log = [i \in 0 .. (arr[cur].phys - 1) |-> buf[cur][i]]
           /\ IsLog(Log) /\ View = ViewOf(Log)
           /\ arr[cur].deg = Cardinality(LatestOf(Log)) /\ arr[cur].deg = Cardinality(Live)
<1>1. /\ IInv /\ TypeOK /\ arr[cur].size \in Nat /\ arr[cur].cap \in Nat /\ arr[cur].phys \in Nat
      /\ arr[cur].deg \in Int
    BY BaseFacts
<1>2. Reserved(cur) = 0 .. (arr[cur].phys - 1)
  <2>1. Cardinality(Holding(cur)) = 0
      BY FS_EmptySet
  <2>2. arr[cur].phys = IF arr[cur].size < arr[cur].cap THEN arr[cur].size ELSE arr[cur].cap
      BY <1>1, <2>1 DEF IInv, SlotsAccounted
  <2> QED BY <1>1, <2>2 DEF Reserved
<1>3. \A i : Entry(cur, i) = buf[cur][i]
    BY EntryFree
<1>4. Log = [i \in 0 .. (arr[cur].phys - 1) |-> buf[cur][i]]
    BY <1>2, <1>3 DEF Log
<1>5. IsLog(Log) /\ View = ViewOf(Log)
    BY <1>1, LogTyped, ViewIsOfLog
<1>6. Adding = {} /\ Removing = {}
  <2>1. \A t \in Writers : wr[t].pc \in Counting => t \in Holding(cur)
    <3>1. \A t \in Writers : wr[t].pc \in Counting => wr[t].pc \in Writing
        BY DEF Counting, Writing
    <3> QED BY <1>1, <3>1 DEF Holding, IInv, SlotsOfWriters
  <2> QED BY <2>1 DEF Adding, Removing
<1>7. arr[cur].deg = Cardinality(Live)
  <2>1. Cardinality(Adding) = 0 /\ Cardinality(Removing) = 0
      BY <1>6, FS_EmptySet
  <2>2. Cardinality(Live) \in Nat
      BY <1>5, LatestCount DEF Live
  <2>3. arr[cur].deg + Cardinality(Adding) = Cardinality(Live) + Cardinality(Removing)
      BY DEF Contents, DegreeExact
  <2> HIDE DEF Adding, Removing, Live
  <2> QED BY <1>1, <2>1, <2>2, <2>3
<1>8. Cardinality(Live) = Cardinality(LatestOf(Log))
    BY <1>5, LatestCount DEF Live
<1> QED BY <1>1, <1>2, <1>4, <1>5, <1>7, <1>8

\* LogCompaction keeps the latest entry of each edge that is there, both when it trusts
\* the counters and when it scans the log.
LEMMA KeptIsLatest ==
    ASSUME Base, Contents, Holding(cur) = {}
    PROVE  Kept(cur) = LatestOf(Log)
<1>size. PICK n : n = arr[cur].phys
    OBVIOUS
<1>1. /\ n \in Nat /\ DOMAIN Log = 0 .. (n - 1) /\ \A i \in 0 .. (n - 1) : Log[i] = buf[cur][i]
      /\ IsLog(Log) /\ arr[cur].deg = Cardinality(LatestOf(Log))
    BY <1>size, QuietLog
<1>2. cur \in Versions /\ arr[cur].mem = "live" /\ arr[cur].snapDeg \in Nat
    BY BaseFacts
<1>3. CASE FastPath(cur)
  <2>1. Kept(cur) = 0 .. (n - 1)
      BY <1>size, <1>3 DEF Kept
  <2>2. LatestOf(Log) \in SUBSET (0 .. (n - 1))
      BY <1>1 DEF LatestOf
  <2>3. IsFiniteSet(0 .. (n - 1)) /\ Cardinality(0 .. (n - 1)) = n
    <3>1. n - 1 \in Int
        BY <1>1
    <3>2. /\ IsFiniteSet(0 .. (n - 1))
          /\ Cardinality(0 .. (n - 1)) = IF 0 > n - 1 THEN 0 ELSE (n - 1) - 0 + 1
        BY <3>1, FS_Interval
    <3> QED BY <1>1, <3>2
  <2>4. Cardinality(LatestOf(Log)) = n
      BY <1>size, <1>1, <1>3 DEF FastPath
  <2>5. 0 .. (n - 1) = LatestOf(Log)
      BY <2>2, <2>3, <2>4, FS_Subset
  <2> QED BY <2>1, <2>5
<1>4. CASE ~FastPath(cur)
  <2>1. Kept(cur) = {i \in 0 .. (n - 1) :
            /\ buf[cur][i].weight # 0
            /\ \A j \in (i + 1) .. (n - 1) :
                  j >= arr[cur].snapDeg => buf[cur][j].idx # buf[cur][i].idx}
      BY <1>size, <1>4 DEF Kept
  <2>2. LatestOf(Log) = {i \in 0 .. (n - 1) :
            /\ buf[cur][i].weight # 0
            /\ \A j \in 0 .. (n - 1) : buf[cur][j].idx = buf[cur][i].idx => j <= i}
      BY <1>1 DEF LatestOf, Newest
  <2>3. ASSUME NEW i \in 0 .. (n - 1)
        PROVE  (\A j \in (i + 1) .. (n - 1) :
                   j >= arr[cur].snapDeg => buf[cur][j].idx # buf[cur][i].idx)
               <=> \A j \in 0 .. (n - 1) : buf[cur][j].idx = buf[cur][i].idx => j <= i
    <3>1. ASSUME \A j \in (i + 1) .. (n - 1) :
                    j >= arr[cur].snapDeg => buf[cur][j].idx # buf[cur][i].idx,
                 NEW j \in 0 .. (n - 1), buf[cur][j].idx = buf[cur][i].idx, ~(j <= i)
          PROVE  FALSE
      <4>1. ~(j >= arr[cur].snapDeg)
          BY <1>1, <3>1
      <4>2. i \in 0 .. (arr[cur].snapDeg - 1) /\ j \in 0 .. (arr[cur].snapDeg - 1)
          BY <1>1, <1>2, <3>1, <4>1
      <4>3. i = j
          BY <1>2, <3>1, <4>2 DEF Contents, SnapshotSound
      <4> QED BY <1>1, <3>1, <4>3
    <3>2. ASSUME \A j \in 0 .. (n - 1) : buf[cur][j].idx = buf[cur][i].idx => j <= i,
                 NEW j \in (i + 1) .. (n - 1), buf[cur][j].idx = buf[cur][i].idx
          PROVE  FALSE
        BY <1>1, <3>2
    <3> QED BY <3>1, <3>2
  <2> QED BY <2>1, <2>2, <2>3
<1> QED BY <1>3, <1>4

\* LogCompaction makes an array that holds the edges of the current one, once each.
LEMMA CompactedRepresents ==
    ASSUME Base, Contents, Holding(cur) = {}, NEW want \in Nat, NEW sorted \in BOOLEAN
    PROVE  /\ Represents(CompactedBuffer(cur, want, sorted), Compacted(cur, want).size, View)
           /\ Compacted(cur, want).size \in Nat
           /\ Compacted(cur, want).size = Compacted(cur, want).snapDeg
           /\ Compacted(cur, want).size = Compacted(cur, want).phys
           /\ Compacted(cur, want).size <= Compacted(cur, want).cap
           /\ Compacted(cur, want).cap \in Nat
           /\ Compacted(cur, want).deg = Cardinality(Live)
<1> DEFINE num == Cardinality(Kept(cur))
           P(k) == CHOOSE i \in Kept(cur) : Rank(cur, sorted, i) = k
           b == CompactedBuffer(cur, want, sorted)
           C == GrownCap(want, num)
<1>1. /\ IInv /\ TypeOK /\ LogWritten /\ cur \in Versions /\ arr[cur].phys \in Nat
    BY BaseFacts
<1>2. num \in Nat /\ C \in Nat /\ num <= C
  <2>1. num \in Nat
      BY <1>1, KeptFinite
  <2> HIDE DEF num
  <2> QED BY <2>1, GrownCapFits
<1>3. /\ Compacted(cur, want).size = num /\ Compacted(cur, want).snapDeg = num
      /\ Compacted(cur, want).phys = num /\ Compacted(cur, want).deg = num
      /\ Compacted(cur, want).cap = C
    BY DEF Compacted, Unallocated
<1>4. Kept(cur) = LatestOf(Log)
    BY KeptIsLatest
<1>5. num = Cardinality(Live)
  <2>1. IsLog(Log) /\ View = ViewOf(Log)
      BY QuietLog
  <2> QED BY <1>4, <2>1, LatestCount DEF Live
<1>6. \A i \in Kept(cur) : buf[cur][i].idx \in Int
  <2>1. \A i \in Kept(cur) : LogCell(buf[cur][i])
      BY <1>1, AllWritten
  <2>2. \A c : LogCell(c) => c.idx \in Dest \cup {NoIdx}
      BY DEF LogCell
  <2> QED BY <2>1, <2>2, DestinationsAreIntegers
<1>7. /\ \A i \in Kept(cur) : Rank(cur, sorted, i) \in 0 .. (num - 1)
      /\ \A i, j \in Kept(cur) : Rank(cur, sorted, i) = Rank(cur, sorted, j) => i = j
      /\ \A k \in 0 .. (num - 1) : \E i \in Kept(cur) : Rank(cur, sorted, i) = k
    BY <1>1, <1>6, RankExact
<1>8. \A k \in 0 .. (num - 1) : P(k) \in Kept(cur) /\ Rank(cur, sorted, P(k)) = k
    BY <1>7
<1>9. ASSUME NEW k \in 0 .. (num - 1)
      PROVE  b[k].idx = buf[cur][P(k)].idx /\ b[k].weight = buf[cur][P(k)].weight
  <2>1. k \in 0 .. (C - 1) /\ k < num
      BY <1>2
  <2>2. b[k] = [idx |-> buf[cur][P(k)].idx, weight |-> buf[cur][P(k)].weight, stamp |-> NoStamp]
    <3>1. b = [m \in 0 .. (C - 1) |->
                  IF m < num
                  THEN [idx |-> buf[cur][P(m)].idx, weight |-> buf[cur][P(m)].weight,
                        stamp |-> NoStamp]
                  ELSE Cell]
        BY DEF CompactedBuffer
    <3> HIDE DEF P, num, C, b
    <3> QED BY <2>1, <3>1
  <2> QED BY <2>2
<1> HIDE DEF P, b, num, C
<1>10. \A i \in Kept(cur) : /\ i \in DOMAIN Log /\ Log[i] = buf[cur][i] /\ Newest(Log, i)
                            /\ i \in Int /\ Log[i].weight # 0 /\ Log[i].idx \in Dest
  <2>1. /\ DOMAIN Log = 0 .. (arr[cur].phys - 1) /\ IsLog(Log)
        /\ \A i \in DOMAIN Log : Log[i] = buf[cur][i]
      BY QuietLog
  <2>2. \A i \in DOMAIN Log : Log[i].idx \in Dest /\ i \in Int
      BY <2>1 DEF IsLog
  <2> QED BY <1>4, <2>1, <2>2 DEF LatestOf
<1>11. ASSUME NEW k \in 0 .. (num - 1)
       PROVE  b[k].idx \in Dest /\ b[k].weight # 0 /\ b[k].weight = View[b[k].idx]
  <2>1. P(k) \in Kept(cur) /\ b[k].idx = Log[P(k)].idx /\ b[k].weight = Log[P(k)].weight
      BY <1>8, <1>9, <1>10
  <2>2. ViewOf(Log)[Log[P(k)].idx] = Log[P(k)].weight
      BY <1>10, <2>1, QuietLog, ViewOfFacts
  <2> QED BY <1>10, <2>1, <2>2, QuietLog
<1>12. ASSUME NEW k \in 0 .. (num - 1), NEW m \in 0 .. (num - 1), b[k].idx = b[m].idx
       PROVE  k = m
  <2>1. /\ P(k) \in Kept(cur) /\ P(m) \in Kept(cur)
        /\ Log[P(k)].idx = Log[P(m)].idx
      BY <1>8, <1>9, <1>10, <1>12
  <2>2. P(k) <= P(m) /\ P(m) <= P(k) /\ P(k) \in Int /\ P(m) \in Int
      BY <1>10, <2>1 DEF Newest
  <2>3. P(k) = P(m)
      BY <2>2
  <2> QED BY <1>8, <2>3
<1>13. ASSUME NEW d \in Dest, View[d] # 0
       PROVE  \E k \in 0 .. (num - 1) : b[k].idx = d
  <2>1. IsLog(Log) /\ View = ViewOf(Log)
      BY QuietLog
  <2>2. PICK i \in DOMAIN Log : Log[i].idx = d /\ Newest(Log, i)
      BY <1>13, <2>1, ViewOfFacts
  <2>3. Log[i].weight # 0
      BY <1>13, <2>1, <2>2, ViewOfFacts
  <2>4. i \in Kept(cur)
      BY <1>4, <2>2, <2>3 DEF LatestOf
  <2>5. PICK k \in 0 .. (num - 1) : k = Rank(cur, sorted, i)
      BY <1>7, <2>4
  <2>6. P(k) = i
      BY <1>7, <1>8, <2>4, <2>5
  <2>7. b[k].idx = d
      BY <1>9, <1>10, <2>2, <2>4, <2>6
  <2> QED BY <2>7
<1>14. Represents(b, num, View)
    BY <1>11, <1>12, <1>13 DEF Represents
<1> QED BY <1>2, <1>3, <1>5, <1>14 DEF b

\* The expander makes the new array beside the current one.
LEMMA ContentsCompact ==
    ASSUME Base, Base', Contents, NEW t \in Writers, Compact(t)
    PROVE  Contents' /\ View' = View
<1>1. /\ IInv /\ TypeOK /\ cur \in Versions /\ cur \in Nat /\ wr[t].pc = "wait" /\ cur' = cur
      /\ SetWriter(t, "publish") /\ cur + 1 \in Versions /\ Holding(cur) = {} /\ DOMAIN buf = Versions
    BY BaseFacts, CompactWant DEF Compact, TypeOK
<1>2. PICK want \in Nat :
          /\ arr' = [arr EXCEPT ![cur + 1] = Compacted(cur, want), ![cur].next = cur + 1]
          /\ buf' = [buf EXCEPT ![cur + 1] = CompactedBuffer(cur, want, FALSE)]
    BY <1>1, CompactWant
<1>3. /\ arr'[cur + 1] = Compacted(cur, want) /\ arr'[cur].mem = arr[cur].mem
      /\ SameSlots(arr'[cur], arr[cur])
      /\ \A v \in Versions : v # cur /\ v # cur + 1 => arr'[v] = arr[v]
    BY <1>1, <1>2, AppendedFields
<1>4. PICK b : b = CompactedBuffer(cur, want, FALSE)
    OBVIOUS
<1>5. buf'[cur + 1] = b /\ \A v \in Versions : v # cur + 1 => buf'[v] = buf[v]
    BY <1>1, <1>2, <1>4
<1>6. PICK h : h = Compacted(cur, want)
    OBVIOUS
<1>7. Represents(b, h.size, View) /\ h.snapDeg = h.size /\ h.deg = Cardinality(Live)
    BY <1>1, <1>4, <1>6, CompactedRepresents
<1>8. /\ wr'[t].pc = "publish" /\ wr'[t].call = wr[t].call
      /\ \A u \in Writers : u # t => wr'[u] = wr[u]
    BY <1>1, SetWriterFields, SetWriterKeeps DEF WriterPcs
<1>9. Reserved(cur)' = Reserved(cur)
    BY <1>1, <1>3 DEF Reserved, SameSlots
<1>10. buf'[cur] = buf[cur]
    BY <1>1, <1>5
<1>11. \A u \in Writers :
          /\ wr'[u].pc \in Writing <=> wr[u].pc \in Writing
          /\ wr[u].pc \in Writing => wr'[u] = wr[u]
    BY <1>1, <1>8 DEF Writing
<1>12. View' = View
    BY <1>1, <1>9, <1>10, <1>11, LogSame
<1>13. \A u \in Writers :
         /\ wr'[u].pc # "idle" => wr[u].pc # "idle" /\ wr'[u].call = wr[u].call
         /\ wr'[u].pc \in Unplaced => wr[u].pc \in Unplaced
         /\ wr'[u].pc \in Counting <=> wr[u].pc \in Counting
         /\ wr[u].pc \in Counting => wr'[u].call = wr[u].call
         /\ wr'[u].pc \in {"weight", "commit"} => wr'[u] = wr[u]
    BY <1>1, <1>8 DEF Unplaced, Counting
<1>14. CallsSound' /\ CallsLegal'
    BY <1>12, <1>13, CallsFrame DEF Contents
<1>15. DegreeExact'
  <2>1. arr'[cur'].deg = arr[cur].deg
      BY <1>1, <1>3 DEF SameSlots
  <2> QED BY <1>12, <1>13, <2>1, DegreeFrame DEF Contents
<1>16. SnapshotSound'
  <2> SUFFICES ASSUME NEW v \in Versions, arr'[v].mem = "live"
               PROVE  \A i \in 0 .. (arr'[v].snapDeg - 1) :
                         /\ buf'[v][i].weight # 0
                         /\ \A j \in 0 .. (arr'[v].snapDeg - 1) :
                               buf'[v][i].idx = buf'[v][j].idx => i = j
      BY DEF SnapshotSound
  <2>1. CASE v = cur + 1
      BY <1>3, <1>5, <1>6, <1>7, <2>1 DEF Represents
  <2>2. CASE v # cur + 1
    <3>1. buf'[v] = buf[v] /\ arr'[v].snapDeg = arr[v].snapDeg /\ arr[v].mem = "live"
        BY <1>3, <1>5, <2>2 DEF SameSlots
    <3> QED BY <3>1 DEF Contents, SnapshotSound
  <2> QED BY <2>1, <2>2
<1>17. NewArraySame'
  <2>1. Live' = Live
      BY <1>12 DEF Live
  <2> QED BY <1>1, <1>3, <1>5, <1>6, <1>7, <1>12, <2>1 DEF NewArraySame
<1>18. Stored'
    BY <1>1, <1>10, <1>13, StoredFrame DEF Contents
<1> QED BY <1>12, <1>14, <1>15, <1>16, <1>17, <1>18 DEF Contents

\* An array that holds exactly the edges becomes the current one while nobody writes.
LEMMA ViewOfNew ==
    ASSUME Base, Base', \A t \in Writers : wr'[t].pc \notin Writing,
           NEW n \in Nat, arr'[cur'].size = n, n <= arr'[cur'].cap,
           NEW b, b = buf'[cur'], Represents(b, n, View), arr'[cur'].deg = Cardinality(Live)
    PROVE  View' = View /\ DegreeExact'
<1>1. arr'[cur'].cap \in Nat
  <2>1. Base' => (arr[cur].cap \in Nat)'
      BY BaseFacts, PTL
  <2> QED BY <2>1
<1>2. Reserved(cur)' = 0 .. (n - 1)
    BY <1>1 DEF Reserved
<1>3. \A i : Entry(cur, i)' = b[i]
  <2>1. Holding(cur)' = {}
      BY DEF Holding
  <2> QED BY <2>1 DEF Entry
<1>4. Log' = [i \in 0 .. (n - 1) |-> b[i]]
    BY <1>2, <1>3 DEF Log
<1>5. View = [d \in Dest |-> View[d]]
    BY DEF View
<1>6. ViewOf([i \in 0 .. (n - 1) |-> b[i]]) = View
  <2>1. PICK A : A = View
      OBVIOUS
  <2>2. A = [d \in Dest |-> A[d]] /\ Represents(b, n, A)
      BY <1>5, <2>1
  <2>3. ViewOf([i \in 0 .. (n - 1) |-> b[i]]) = A
      BY <2>2, RepresentedView
  <2> QED BY <2>1, <2>3
<1>7. View' = View
    BY <1>4, <1>6, LogAtStep
<1>8. Adding' = {} /\ Removing' = {}
  <2>1. Counting \subseteq Writing
      BY DEF Counting, Writing
  <2> QED BY <2>1 DEF Adding, Removing
<1>9. DegreeExact'
  <2>1. Cardinality(Adding') = 0 /\ Cardinality(Removing') = 0
      BY <1>8, FS_EmptySet
  <2>2. Cardinality(Live) \in Nat
      BY LogAtStep, LatestCount DEF Live
  <2>3. Live' = Live
      BY <1>7 DEF Live
  <2> HIDE DEF Adding, Removing, Live
  <2>4. arr'[cur'].deg + Cardinality(Adding') = Cardinality(Live') + Cardinality(Removing')
      BY <2>1, <2>2, <2>3
  <2> QED BY <2>4 DEF DegreeExact
<1> QED BY <1>7, <1>9

\* src->next.store changes no edge: the new array says the same.
LEMMA ContentsPublish ==
    ASSUME Base, Base', Contents, NEW t \in Writers, Publish(t)
    PROVE  Contents' /\ View' = View
<1>1. /\ IInv /\ TypeOK /\ cur \in Versions /\ cur \in Nat /\ wr[t].pc = "publish"
      /\ cur' = cur + 1 /\ SetWriter(t, "reclaim") /\ arr' = arr /\ buf' = buf
    BY BaseFacts DEF Publish
<1>2. Holding(cur) = {}
    BY <1>1, NoneHolding
<1>3. /\ cur + 1 \in Versions /\ arr[cur + 1].size <= arr[cur + 1].cap
      /\ arr[cur + 1].size \in Nat
    BY <1>1, HeaderFields DEF IInv, Handover
<1>4. /\ Represents(buf[cur + 1], arr[cur + 1].size, View)
      /\ arr[cur + 1].deg = Cardinality(Live)
    BY <1>1 DEF Contents, NewArraySame
<1>5. /\ wr'[t].pc = "reclaim" /\ wr'[t].call = wr[t].call
      /\ \A u \in Writers : u # t => wr'[u] = wr[u]
    BY <1>1, SetWriterFields, SetWriterKeeps DEF WriterPcs
<1>6. \A u \in Writers : wr'[u].pc \notin Writing
  <2>1. \A u \in Writers : wr[u].pc \notin Writing
      BY <1>1, <1>2 DEF Holding, IInv, SlotsOfWriters
  <2> QED BY <1>5, <2>1 DEF Writing
<1>7. View' = View /\ DegreeExact'
    BY <1>1, <1>3, <1>4, <1>6, ViewOfNew
<1>8. CallsSound' /\ CallsLegal'
  <2>1. \A u \in Writers :
           /\ wr'[u].pc # "idle" => wr[u].pc # "idle" /\ wr'[u].call = wr[u].call
           /\ wr'[u].pc \in Unplaced => wr[u].pc \in Unplaced
      BY <1>1, <1>5 DEF Unplaced
  <2> QED BY <1>7, <2>1, CallsFrame DEF Contents
<1>9. Stored'
    BY <1>6 DEF Stored, Writing
<1>10. SnapshotSound'
    BY <1>1, SnapshotFrame DEF Contents
<1>11. NewArraySame'
  <2>1. \A u \in Writers : u # t => wr[u].pc # "publish"
      BY <1>1, OneInside DEF WriterInside
  <2> QED BY <1>5, <2>1 DEF NewArraySame
<1> QED BY <1>7, <1>8, <1>9, <1>10, <1>11 DEF Contents

\* CreateSnapshots compacts, publishes and deletes the old array, while nobody writes.
LEMMA ContentsSnapshot ==
    ASSUME Base, Base', Contents, NEW sorted \in BOOLEAN, NEW dense \in BOOLEAN,
           CreateSnapshot(sorted, dense)
    PROVE  Contents' /\ View' = View
<1>1. /\ IInv /\ TypeOK /\ cur \in Versions /\ cur \in Nat /\ cur' = cur + 1 /\ wr' = wr
      /\ cur + 1 \in Versions /\ DOMAIN buf = Versions
      /\ \A u \in Writers : wr[u].pc = "idle"
    BY BaseFacts, SnapshotWant DEF CreateSnapshot, AllIdle, TypeOK
<1>2. PICK want \in Nat :
          /\ arr' = Delete([arr EXCEPT ![cur + 1] = Compacted(cur, want),
                                       ![cur].next = cur + 1], cur, cur + 1)
          /\ buf' = [buf EXCEPT ![cur + 1] = CompactedBuffer(cur, want, sorted),
                                ![cur] = NoBuffer]
    BY <1>1, SnapshotWant
<1>3. PICK a : a = [arr EXCEPT ![cur + 1] = Compacted(cur, want), ![cur].next = cur + 1]
    OBVIOUS
<1>4. /\ a \in [Versions -> Headers] /\ a[cur + 1] = Compacted(cur, want)
      /\ \A v \in Versions : v # cur /\ v # cur + 1 => a[v] = arr[v]
    BY <1>1, <1>3, AppendedFields
<1>5. PICK b : b = CompactedBuffer(cur, want, sorted)
    OBVIOUS
<1>6. PICK h : h = Compacted(cur, want)
    OBVIOUS
<1>7. Holding(cur) = {}
    BY <1>1 DEF Holding, Writing
<1>8. /\ Represents(b, h.size, View) /\ h.size \in Nat /\ h.snapDeg = h.size
      /\ h.size <= h.cap /\ h.deg = Cardinality(Live)
    BY <1>5, <1>6, <1>7, CompactedRepresents
<1>9. buf'[cur + 1] = b /\ \A v \in Versions : v # cur /\ v # cur + 1 => buf'[v] = buf[v]
    BY <1>1, <1>2, <1>5
<1>10. /\ arr'[cur].mem = "freed"
       /\ \A v \in Versions :
             /\ arr'[v].size = a[v].size /\ arr'[v].cap = a[v].cap
             /\ arr'[v].snapDeg = a[v].snapDeg /\ arr'[v].deg = a[v].deg
             /\ v # cur => arr'[v].mem = a[v].mem
  <2>1. arr' = Delete(a, cur, cur + 1) /\ cur + 1 \in Nat
      BY <1>1, <1>2, <1>3
  <2> QED BY <1>1, <1>4, <2>1, DeleteFields, DeleteKeeps
<1>11. /\ arr'[cur'].size = h.size /\ arr'[cur'].cap = h.cap /\ arr'[cur'].deg = h.deg
       /\ buf'[cur'] = b
    BY <1>1, <1>4, <1>6, <1>9, <1>10
<1>12. \A u \in Writers : wr'[u].pc \notin Writing
    BY <1>1 DEF Writing
<1>13. View' = View /\ DegreeExact'
    BY <1>8, <1>11, <1>12, ViewOfNew
<1>14. CallsSound' /\ CallsLegal'
    BY <1>1, <1>13, CallsFrame DEF Contents
<1>15. Stored' /\ NewArraySame'
    BY <1>1 DEF Stored, NewArraySame
<1>16. SnapshotSound'
  <2> SUFFICES ASSUME NEW v \in Versions, arr'[v].mem = "live"
               PROVE  \A i \in 0 .. (arr'[v].snapDeg - 1) :
                         /\ buf'[v][i].weight # 0
                         /\ \A j \in 0 .. (arr'[v].snapDeg - 1) :
                               buf'[v][i].idx = buf'[v][j].idx => i = j
      BY DEF SnapshotSound
  <2>1. v # cur
      BY <1>10
  <2>2. CASE v = cur + 1
      BY <1>4, <1>6, <1>8, <1>9, <1>10, <2>2 DEF Represents
  <2>3. CASE v # cur + 1
    <3>1. buf'[v] = buf[v] /\ arr'[v].snapDeg = arr[v].snapDeg /\ arr[v].mem = "live"
        BY <1>4, <1>9, <1>10, <2>1, <2>3
    <3> QED BY <3>1 DEF Contents, SnapshotSound
  <2> QED BY <2>2, <2>3
<1> QED BY <1>13, <1>14, <1>15, <1>16 DEF Contents

\* A vertex without edges.
LEMMA ContentsInit ==
    ASSUME Init, Base
    PROVE  Contents /\ View = [d \in Dest |-> 0]
<1>1. /\ 0 \in Versions /\ cur = 0 /\ InitCap \in Nat
      /\ \A v \in Versions : arr[v] = IF v = 0 THEN [Unallocated EXCEPT !.cap = InitCap, !.mem = "live"]
                                       ELSE Unallocated
      /\ \A t \in Writers : wr[t].pc = "idle"
    BY BaseFacts, ConstantsAssumption DEF Init, IdleWriter, ConstantsAssumption
<1>2. arr[0].size = 0 /\ arr[0].deg = 0 /\ \A v \in Versions : arr[v].snapDeg = 0
    BY <1>1 DEF Unallocated
<1>3. Reserved(cur) = {}
    BY <1>1, <1>2 DEF Reserved
<1>4. View = [d \in Dest |-> 0]
    BY <1>3 DEF View
<1>5. Live = {}
    BY <1>4 DEF Live, LiveOf
<1>6. Adding = {} /\ Removing = {}
    BY <1>1 DEF Adding, Removing, Counting
<1>7. DegreeExact
    BY <1>1, <1>2, <1>5, <1>6, FS_EmptySet DEF DegreeExact
<1>8. CallsSound /\ CallsLegal /\ Stored /\ NewArraySame
    BY <1>1 DEF CallsSound, CallsLegal, Stored, NewArraySame, Unplaced
<1>9. SnapshotSound
    BY <1>2 DEF SnapshotSound
<1> QED BY <1>4, <1>7, <1>8, <1>9 DEF Contents

-----------------------------------------------------------------------------
(* Every step. *)

\* A step either leaves the edges alone or is the one at which a call takes effect.
LEMMA ContentsStep ==
    ASSUME Contract, Base, Base', Contents, [Next]_vars
    PROVE  /\ Contents'
           /\ \/ View' = View /\ \A t \in Writers : Reserve(t) \/ Reload(t) => wr'[t].pc = "lock"
              \/ \E t \in Writers : (Reserve(t) \/ Reload(t)) /\ TakesEffect(t)
<1> DEFINE Quiet == \A t \in Writers : Reserve(t) \/ Reload(t) => wr'[t].pc = "lock"
           Good == /\ Contents'
                   /\ \/ View' = View /\ Quiet
                      \/ \E t \in Writers : (Reserve(t) \/ Reload(t)) /\ TakesEffect(t)
<1>1. ASSUME \A t \in Writers : ~(Reserve(t) \/ Reload(t)), Contents' /\ View' = View
      PROVE  Good
    BY <1>1
<1>2. ASSUME NEW t \in Writers, Reserve(t) \/ Reload(t)
      PROVE  Good
  <2>1. Contents' /\ (TakesEffect(t) \/ (View' = View /\ wr'[t].pc = "lock"))
      BY <1>2, ContentsTake
  <2>2. \A u \in Writers : u # t => ~(Reserve(u) \/ Reload(u))
    <3> SUFFICES ASSUME NEW u \in Writers, u # t, Reserve(u) \/ Reload(u)
                 PROVE  FALSE
        OBVIOUS
    <3>1. IInv
        BY DEF Base
    <3>2. QuietWriter(t) /\ QuietWriter(u)
        BY <1>2 DEF QuietWriter
    <3>3. wr'[u] = wr[u]
        BY <3>1, <3>2, QuietWriterFields
    <3>4. wr[u].pc \in {"reserve", "reload"} /\ TakeSlot(u, IF Reserve(u) THEN wr[u].arr ELSE cur)
        BY DEF Reserve, Reload
    <3>5. PICK v : TakeSlot(u, v)
        BY <3>4
    <3>6. wr'[u].pc \in {"lock", "tick", "stamp"}
        BY <3>5 DEF Base, IInv, TypeOK, TakeSlot, WriterStates
    <3> QED BY <3>3, <3>4, <3>6
  <2> QED BY <1>2, <2>1, <2>2
<1>3. CASE \A t \in Writers : ~(Reserve(t) \/ Reload(t))
  <2>1. CASE UNCHANGED vars
      BY <1>1, <1>3, <2>1, ContentsStutter
  <2>2. ASSUME NEW t \in Writers, Call(t) \/ WriterStep(t)
        PROVE  Contents' /\ View' = View
    <3>1. CASE Call(t)
        BY <3>1, ContentsCall
    <3>2. CASE UseAfterFree(t) \/ Lock(t)
        BY <3>2, ContentsLocal
    <3>3. CASE Compact(t)
        BY <3>3, ContentsCompact
    <3>4. CASE Publish(t)
        BY <3>4, ContentsPublish
    <3>5. CASE Reclaim(t)
        BY <3>5, ContentsReclaim
    <3>6. CASE Tick(t)
        BY <3>6, ContentsTick
    <3>7. CASE Stamp(t)
        BY <3>7, ContentsStamp
    <3>8. CASE WriteIdx(t) \/ WriteWeight(t)
        BY <3>8, ContentsWrite
    <3>9. CASE Commit(t)
        BY <3>9, ContentsCommit
    <3> QED BY <1>3, <2>2, <3>1, <3>2, <3>3, <3>4, <3>5, <3>6, <3>7, <3>8, <3>9 DEF WriterStep
  <2>3. ASSUME NEW r \in Readers, Ask(r) \/ ReaderStep(r)
        PROVE  Contents' /\ View' = View
    <3>1. QuietReader(r) \/ Unpin(r)
        BY <2>3 DEF ReaderStep, QuietReader
    <3> QED BY <3>1, ContentsReader
  <2>4. ASSUME NEW sorted \in BOOLEAN, NEW dense \in BOOLEAN, CreateSnapshot(sorted, dense)
        PROVE  Contents' /\ View' = View
      BY <2>4, ContentsSnapshot
  <2>5. CASE Done
      BY <1>1, <1>3, <2>5, ContentsStutter DEF Done
  <2> QED BY <1>1, <1>3, <2>1, <2>2, <2>3, <2>4, <2>5 DEF Next
<1> QED BY <1>2, <1>3

\* The invariants of the other modules hold in every state.
LEMMA BaseAlways == Spec => []Base
<1>1. Init => IInv /\ Linked /\ LogWritten
    BY InitIInv, LinkedInit, LogInit
<1>2. IInv /\ Linked /\ LogWritten /\ [Next]_vars => IInv' /\ Linked' /\ LogWritten'
    BY NextPreserves, LinkedStep, LogStep
<1>3. IInv /\ Linked /\ LogWritten /\ SlotsNotShared => Base
    BY DEF Base
<1> QED BY <1>1, <1>2, <1>3, SlotsHaveOneOwner, PTL DEF Spec

\* Used as documented, so do the contents.
LEMMA ContentsAlways ==
    ASSUME Contract
    PROVE  Spec => []Contents
<1>1. Init /\ Base => Contents
    BY ContentsInit
<1>2. Base /\ Base' /\ Contents /\ [Next]_vars => Contents'
    BY ContentsStep
<1> QED BY <1>1, <1>2, BaseAlways, PTL DEF Spec

-----------------------------------------------------------------------------
(* The edge store implements an atomic map. *)

\* The change that a call has still to make.
Pending ==
    [t \in Writers |->
        IF wr[t].pc \in Unplaced
        THEN {[idx |-> wr[t].call.idx, weight |-> wr[t].call.weight]}
        ELSE {}]

\* A writer that has its slot, or has returned, gives the change up for good; until it
\* has one it keeps it.
LEMMA WriterMoves ==
    ASSUME Base, NEW t \in Writers, WriterStep(t)
    PROVE  /\ \A u \in Writers : u # t => wr'[u] = wr[u]
           /\ wr'[t].pc \in Unplaced => wr[t].pc \in Unplaced /\ wr'[t].call = wr[t].call
           /\ wr[t].pc \in Unplaced /\ ~(Reserve(t) \/ Reload(t)) => wr'[t].pc \in Unplaced
           /\ wr[t].pc # "idle" /\ (wr'[t].pc # "idle" => wr'[t].call = wr[t].call)
<1>1. TypeOK /\ wr \in [Writers -> WriterStates] /\ wr[t] \in WriterStates
    BY DEF Base, IInv, TypeOK
<1>2. ASSUME NEW p \in WriterPcs, SetWriter(t, p), p \in Unplaced <=> wr[t].pc \in Unplaced
      PROVE  /\ \A u \in Writers : u # t => wr'[u] = wr[u]
             /\ wr'[t].call = wr[t].call
             /\ wr'[t].pc \in Unplaced => wr[t].pc \in Unplaced /\ wr'[t].call = wr[t].call
             /\ wr[t].pc \in Unplaced => wr'[t].pc \in Unplaced
    BY <1>1, <1>2, SetWriterFields, SetWriterKeeps
<1>3. CASE UseAfterFree(t) \/ Compact(t) \/ Publish(t) \/ Reclaim(t)
            \/ Stamp(t) \/ WriteIdx(t) \/ WriteWeight(t)
  <2>1. PICK p \in WriterPcs : /\ SetWriter(t, p) /\ wr[t].pc # "idle"
                               /\ p \in Unplaced <=> wr[t].pc \in Unplaced
      BY <1>3 DEF UseAfterFree, Compact, Publish, Reclaim, Stamp, WriteIdx, WriteWeight,
                  WriterPcs, Unplaced
  <2> QED BY <1>2, <2>1
<1>4. CASE Lock(t)
  <2>1. wr[t].pc = "lock"
      BY <1>4 DEF Lock
  <2>2. CASE SetWriter(t, "reload")
      BY <1>2, <2>1, <2>2 DEF WriterPcs, Unplaced
  <2>3. CASE wr' = [wr EXCEPT ![t].pc = "wait", ![t].arr = cur]
    <3>1. wr' = [wr EXCEPT ![t] = [wr[t] EXCEPT !.pc = "wait", !.arr = cur]]
        BY <2>3
    <3>2. /\ wr'[t] = [wr[t] EXCEPT !.pc = "wait", !.arr = cur]
          /\ \A u \in Writers : u # t => wr'[u] = wr[u]
        BY <1>1, <3>1
    <3>3. wr'[t].pc = "wait" /\ wr'[t].call = wr[t].call
        BY <1>1, <3>2 DEF WriterStates
    <3> QED BY <2>1, <3>2, <3>3 DEF Unplaced
  <2> QED BY <1>4, <2>2, <2>3 DEF Lock
<1>5. CASE Reserve(t) \/ Reload(t)
  <2>1. wr[t].pc \in Unplaced /\ wr[t].pc # "idle" /\ \E v : TakeSlot(t, v)
      BY <1>5 DEF Reserve, Reload, Unplaced
  <2>2. PICK v : TakeSlot(t, v)
      BY <2>1
  <2>3. wr'[t].call = wr[t].call /\ \A u \in Writers : u # t => wr'[u] = wr[u]
    <3>1. \E a, s, p : wr' = [wr EXCEPT ![t].arr = a, ![t].slot = s, ![t].pc = p]
        BY <2>2 DEF TakeSlot
    <3>2. \A u \in Writers : u # t => wr'[u] = wr[u]
        BY <1>1, <3>1
    <3>3. TypeOK
        BY BaseFacts
    <3> QED BY <2>2, <3>2, <3>3, TakeSlotKeeps
  <2> QED BY <1>5, <2>1, <2>3
<1>6. CASE Tick(t) \/ Commit(t)
  <2>1. wr[t].pc \in {"tick", "commit"} /\ \A u \in Writers : u # t => wr'[u] = wr[u]
      BY <1>1, <1>6 DEF Tick, Commit
  <2>2. wr'[t].pc = "idle" \/ (wr'[t].pc = "stamp" /\ wr'[t].call = wr[t].call)
      BY <1>1, <1>6 DEF Tick, Commit, WriterStates, IdleWriter
  <2> QED BY <2>1, <2>2 DEF Unplaced
<1> QED BY <1>3, <1>4, <1>5, <1>6 DEF WriterStep

\* A call enters, as an invocation of the map.
LEMMA CallInvokes ==
    ASSUME Base, NEW t \in Writers, Call(t)
    PROVE  /\ Pending[t] = {}
           /\ \E c \in [idx : Dest, weight : Weights \cup {0}] :
                 Pending' = [Pending EXCEPT ![t] = {c}]
<1>1. PICK d \in Dest, w \in Weights : \E c \in {Insertion(d, w), Update(d, w), Deletion(d)} :
          wr' = [wr EXCEPT ![t] = [IdleWriter EXCEPT !.pc = "reserve", !.arr = cur, !.call = c]]
    BY DEF Call
<1>2. PICK c \in {Insertion(d, w), Update(d, w), Deletion(d)} :
          wr' = [wr EXCEPT ![t] = [IdleWriter EXCEPT !.pc = "reserve", !.arr = cur, !.call = c]]
    BY <1>1
<1>3. c.idx \in Dest /\ c.weight \in Weights \cup {0}
    BY DEF Insertion, Update, Deletion
<1>4. /\ wr'[t].pc = "reserve" /\ wr'[t].call = c
      /\ \A u \in Writers : u # t => wr'[u] = wr[u]
    BY <1>2 DEF Base, IInv, TypeOK, IdleWriter
<1>5. wr[t].pc = "idle"
    BY DEF Call
<1> DEFINE x == [idx |-> c.idx, weight |-> c.weight]
<1>6. x \in [idx : Dest, weight : Weights \cup {0}]
    BY <1>3
<1>7. Pending[t] = {}
    BY <1>5 DEF Pending, Unplaced
<1>8. Pending' = [Pending EXCEPT ![t] = {x}]
    BY <1>4 DEF Pending, Unplaced
<1> QED BY <1>6, <1>7, <1>8

\* A slot within the capacity is taken, and the map changes.
LEMMA TakeApplies ==
    ASSUME Base, NEW t \in Writers, Reserve(t) \/ Reload(t), TakesEffect(t)
    PROVE  \E c \in Pending[t] : /\ View' = [View EXCEPT ![c.idx] = c.weight]
                                 /\ Pending' = [Pending EXCEPT ![t] = {}]
<1> DEFINE x == [idx |-> wr[t].call.idx, weight |-> wr[t].call.weight]
<1>1. \A u \in Writers : u # t => wr'[u] = wr[u]
    BY WriterMoves DEF WriterStep
<1>2. wr[t].pc \in Unplaced /\ wr'[t].pc \notin Unplaced
    BY DEF Reserve, Reload, TakesEffect, Counting, Unplaced
<1>3. x \in Pending[t]
    BY <1>2 DEF Pending
<1>4. Pending' = [Pending EXCEPT ![t] = {}]
    BY <1>1, <1>2 DEF Pending
<1>5. View' = [View EXCEPT ![x.idx] = x.weight]
    BY DEF TakesEffect
<1> QED BY <1>3, <1>4, <1>5

\* Every other step is none of the map.
LEMMA PendingSame ==
    ASSUME Base, [Next]_vars, \A t \in Writers : ~Call(t),
           \A t \in Writers : Reserve(t) \/ Reload(t) => wr'[t].pc = "lock"
    PROVE  Pending' = Pending
<1>1. CASE wr' = wr
    BY <1>1 DEF Pending
<1>2. ASSUME NEW t \in Writers, WriterStep(t)
      PROVE  Pending' = Pending
  <2>1. /\ \A u \in Writers : u # t => wr'[u] = wr[u]
        /\ wr'[t].pc \in Unplaced => wr[t].pc \in Unplaced /\ wr'[t].call = wr[t].call
      BY <1>2, WriterMoves
  <2>2. wr[t].pc \in Unplaced => wr'[t].pc \in Unplaced
    <3>1. Reserve(t) \/ Reload(t) => wr'[t].pc \in Unplaced
        BY DEF Unplaced
    <3> QED BY <1>2, <3>1, WriterMoves
  <2> QED BY <2>1, <2>2 DEF Pending
<1>3. ASSUME NEW r \in Readers, Ask(r) \/ ReaderStep(r)
      PROVE  wr' = wr
    BY <1>3 DEF Ask, ReaderStep, LockForRead, WalkBack, Pin, Count, Scan, Read, Unpin
<1>4. ASSUME NEW sorted \in BOOLEAN, NEW dense \in BOOLEAN, CreateSnapshot(sorted, dense)
      PROVE  wr' = wr
    BY <1>4 DEF CreateSnapshot
<1>5. CASE UNCHANGED vars
    BY <1>1, <1>5 DEF vars
<1>6. CASE Done
    BY <1>1, <1>6 DEF Done, vars
<1> QED BY <1>1, <1>2, <1>3, <1>4, <1>5, <1>6 DEF Next

\* Used as documented, the edge store is an atomic map: each of InsertEdge, UpdateEdge and
\* DeleteEdge changes one edge, at the fetch_add that hands out its slot
\* (radixgraph.cpp:23 and 49), and no compaction, publication, purge, deletion or
\* CreateSnapshots changes any.
THEOREM EdgeArrayImplementsMap ==
    ASSUME Contract
    PROVE  Spec => ImplementsAdjacencyMap
<1>1. Init /\ Base => Abstract!Init
  <2> SUFFICES ASSUME Init, Base
               PROVE  Abstract!Init
      OBVIOUS
  <2>1. View = [d \in Dest |-> 0]
      BY ContentsInit
  <2>2. Pending = [t \in Writers |-> {}]
    <3>1. \A t \in Writers : wr[t].pc \notin Unplaced
        BY DEF Init, IdleWriter, Unplaced
    <3> QED BY <3>1 DEF Pending
  <2> QED BY <2>1, <2>2 DEF Abstract!Init, Abstract!Absent, Pending
<1>2. ASSUME Base, Base', Contents, [Next]_vars
      PROVE  [Abstract!Next]_(Abstract!avars)
  <2>1. CASE \E t \in Writers : Call(t)
    <3>1. PICK t \in Writers : Call(t)
        BY <2>1
    <3>2. View' = View
        BY <1>2, <3>1, ContentsCall
    <3>3. /\ Pending[t] = {}
          /\ \E c \in Abstract!Changes : Pending' = [Pending EXCEPT ![t] = {c}]
        BY <1>2, <3>1, CallInvokes DEF Abstract!Changes, Abstract!Absent
    <3>4. Abstract!Invoke(t)
        BY <3>2, <3>3 DEF Abstract!Invoke, Pending
    <3> QED BY <3>4 DEF Abstract!Next
  <2>2. CASE \E t \in Writers : (Reserve(t) \/ Reload(t)) /\ TakesEffect(t)
    <3>1. PICK t \in Writers : (Reserve(t) \/ Reload(t)) /\ TakesEffect(t)
        BY <2>2
    <3>2. \E c \in Pending[t] : /\ View' = [View EXCEPT ![c.idx] = c.weight]
                                /\ Pending' = [Pending EXCEPT ![t] = {}]
        BY <1>2, <3>1, TakeApplies
    <3>3. Abstract!Apply(t)
        BY <3>2 DEF Abstract!Apply, Pending
    <3> QED BY <3>3 DEF Abstract!Next
  <2>3. CASE /\ \A t \in Writers : ~Call(t)
             /\ View' = View /\ \A t \in Writers : Reserve(t) \/ Reload(t) => wr'[t].pc = "lock"
    <3>1. Pending' = Pending
        BY <1>2, <2>3, PendingSame
    <3> QED BY <2>3, <3>1 DEF Abstract!avars, Pending
  <2> QED BY <1>2, <2>1, <2>2, <2>3, ContentsStep
<1> QED BY <1>1, <1>2, BaseAlways, ContentsAlways, PTL DEF Spec, ImplementsAdjacencyMap, Abstract!Spec
==============================================================================
