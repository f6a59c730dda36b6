--------------------------- MODULE KernelsProofs ---------------------------
(***************************************************************************)
(* Proofs about the analytics kernels for any graph, team, weights and     *)
(* schedule that the constants allow: ComponentsCorrect, BfsCorrect and    *)
(* SsspCorrect.                                                            *)
(*                                                                         *)
(* The argument.  Components: a label is a number of its component and not *)
(* above the vertex.  While `change' is clear no label has been changed in *)
(* this iteration, since a hook, lost or not, sets it; so an edge whose    *)
(* ends differ is still to be looked at (HookingExact), and the iteration  *)
(* that ends the loop has found equal labels at every edge.                *)
(*                                                                         *)
(* A search.  SearchInv: the slots of the queue below the window are       *)
(* written, and each slot from there to shared_in is written or some flush *)
(* is about to write it.  TreeInv: there are ranks that fall from a vertex *)
(* to its parent, namely the step of the search in which the vertex was    *)
(* visited; so that going up ends at the source within N steps.  LevelInv, *)
(* for a team of one: what has a parent is exactly what is within so many  *)
(* steps of the source, and the queue or the bits of the frontier hold the *)
(* last of these levels.                                                   *)
(*                                                                         *)
(* Shortest paths.  N rounds of relaxation end at the greatest function    *)
(* that is 0 at the source and that no edge makes less (ShortestIsSettled; *)
(* a vertex that changed in round N would need N vertices that did so in   *)
(* the rounds before).  PathsInv: no distance, nor one that a thread is    *)
(* about to write, is less than that.  ExactInv, for a team of one: a      *)
(* vertex with an edge to relax is in the thread's hands, in the frontier  *)
(* or in the bin of its distance, and not in a bin that is done with.      *)
(*                                                                         *)
(* What a recursive function of the model computes is proved step by step  *)
(* over 0 .. n (UpTo, IteratesExist).                                      *)
(***************************************************************************)
EXTENDS KernelsProperties, SequenceTheorems, FunctionTheorems, FiniteSetTheorems, WellFoundedInduction, TLAPS

-----------------------------------------------------------------------------
(* Numbers. *)

\* A non-empty set of naturals has a least member.
LEMMA LeastNatural ==
    ASSUME NEW T \in SUBSET Nat, T # {}
    PROVE  \E m \in T : \A n \in T : m <= n
<1> DEFINE R == {ss \in Nat \X Nat : ss[1] < ss[2]}
<1>1. IsWellFoundedOn(R, Nat)
    BY NatLessThanWellFounded DEF OpToRel
<1> HIDE DEF R
<1>2. PICK m \in T : \A n \in T : <<n, m>> \notin R
    BY <1>1, WFMin
<1>3. ASSUME NEW n \in T
      PROVE  m <= n
  <2>1. <<n, m>> \notin R /\ m \in Nat /\ n \in Nat
      BY <1>2
  <2>2. QED BY <2>1 DEF R
<1>4. QED BY <1>3

\* Min is the least member.
LEMMA MinIsLeast ==
    ASSUME NEW T \in SUBSET Nat, T # {}
    PROVE  Min(T) \in T /\ \A n \in T : Min(T) <= n
<1>1. \E m \in T : \A n \in T : m <= n
    BY LeastNatural
<1>2. QED BY <1>1 DEF Min

\* Max is the greater of two.
LEMMA MaxOfTwo ==
    ASSUME NEW m \in Nat, NEW n \in Nat
    PROVE  Max({m, n}) \in {m, n} /\ m <= Max({m, n}) /\ n <= Max({m, n})
<1>1. \E x \in {m, n} : \A y \in {m, n} : x >= y
  <2>1. CASE m >= n
      BY <2>1
  <2>2. CASE n >= m
      BY <2>2
  <2>3. QED BY <2>1, <2>2
<1>2. Max({m, n}) \in {m, n} /\ \A y \in {m, n} : Max({m, n}) >= y
    BY <1>1 DEF Max
<1>3. QED BY <1>2

\* A set that holds 0, and the successor of each number it holds below n, holds all up to n.
LEMMA UpTo ==
    ASSUME NEW n \in Nat, NEW S, 0 \in S, \A i \in 0 .. (n - 1) : i \in S => i + 1 \in S
    PROVE  \A i \in 0 .. n : i \in S
<1> DEFINE T == {i \in 0 .. n : i \notin S}
<1>1. SUFFICES ASSUME T # {}
               PROVE  FALSE
    OBVIOUS
<1>2. PICK m \in T : \A i \in T : m <= i
  <2>1. T \in SUBSET Nat
      OBVIOUS
  <2>2. QED BY ONLY <1>1, <2>1, LeastNatural
<1>3. m \in 0 .. n /\ m # 0 /\ m \notin S
    BY <1>2
<1>4. m - 1 \in 0 .. (n - 1) /\ m - 1 \notin T /\ (m - 1) + 1 = m
    BY <1>2, <1>3
<1>5. m - 1 \in S
    BY <1>4
<1>6. QED BY <1>3, <1>4, <1>5

-----------------------------------------------------------------------------
(* Functions that are defined step by step. *)

\* f starts with a and applies G at each of the k steps.
Iterates(f, a, G, k) == f = [i \in 0 .. k |-> IF i = 0 THEN a ELSE G[f[i - 1]]]

LEMMA IteratesExist ==
    ASSUME NEW a, NEW G, NEW k \in Nat
    PROVE  \E f : Iterates(f, a, G, k)
<1> DEFINE S == {d \in 0 .. k : \E f : Iterates(f, a, G, d)}
<1>1. 0 \in S
  <2>1. Iterates([i \in 0 .. 0 |-> a], a, G, 0)
      BY DEF Iterates
  <2>2. QED BY <2>1
<1>2. ASSUME NEW d \in 0 .. (k - 1), d \in S
      PROVE  d + 1 \in S
  <2>1. PICK f : Iterates(f, a, G, d)
      BY <1>2
  <2>2. PICK g : g = [i \in 0 .. (d + 1) |-> IF i <= d THEN f[i] ELSE G[f[d]]]
      OBVIOUS
  <2>3. \A i \in 0 .. d : f[i] = IF i = 0 THEN a ELSE G[f[i - 1]]
      BY <2>1 DEF Iterates
  <2>4. ASSUME NEW i \in 0 .. (d + 1)
        PROVE  g[i] = IF i = 0 THEN a ELSE G[g[i - 1]]
    <3>1. CASE i <= d
      <4>1. i \in 0 .. d /\ g[i] = f[i]
          BY <2>2, <3>1
      <4>2. i # 0 => g[i - 1] = f[i - 1]
          BY <2>2, <3>1
      <4>3. QED BY <2>3, <4>1, <4>2
    <3>2. CASE i = d + 1
      <4>1. g[i] = G[f[d]] /\ i # 0 /\ i - 1 = d
          BY <2>2, <3>2
      <4>2. g[d] = f[d]
          BY <2>2
      <4>3. QED BY <4>1, <4>2
    <3>3. QED BY <3>1, <3>2
  <2>5. Iterates(g, a, G, d + 1)
      BY <2>2, <2>4 DEF Iterates
  <2>6. QED BY <2>5
<1> HIDE DEF S
<1>3. k \in S
    BY <1>1, <1>2, UpTo
<1>4. QED BY <1>3 DEF S

\* Each value of f is G of the one before.
LEMMA IteratesStep ==
    ASSUME NEW a, NEW G, NEW k \in Nat, NEW f, Iterates(f, a, G, k)
    PROVE  f[0] = a /\ \A i \in 0 .. (k - 1) : f[i + 1] = G[f[i]]
<1>1. \A i \in 0 .. k : f[i] = IF i = 0 THEN a ELSE G[f[i - 1]]
    BY DEF Iterates
<1>2. QED BY <1>1

\* G adds members of V to a set of members of V.
Grows(G, V) == G \in [SUBSET V -> SUBSET V] /\ \A A \in SUBSET V : A \subseteq G[A]

\* f is k steps of such growth, as many as V has members, or one less.
Growing(f, a, G, V, k) ==
    /\ IsFiniteSet(V) /\ Grows(G, V) /\ a \in SUBSET V /\ a # {}
    /\ k \in Nat /\ Cardinality(V) <= k + 1 /\ Iterates(f, a, G, k)

\* Sets that grow within V have stopped to grow when there are as many steps as
\* members of V less one.
LEMMA GrowthEnds ==
    ASSUME NEW f, NEW a, NEW G, NEW V, NEW k, Growing(f, a, G, V, k)
    PROVE  /\ \A i \in 0 .. k : f[i] \in SUBSET V
           /\ G[f[k]] = f[k]
<1>0. G \in [SUBSET V -> SUBSET V] /\ \A A \in SUBSET V : A \subseteq G[A]
    BY DEF Growing, Grows
<1>a. IsFiniteSet(V) /\ k \in Nat /\ Cardinality(V) <= k + 1
    BY DEF Growing
<1>b. a \in SUBSET V /\ a # {} /\ Iterates(f, a, G, k)
    BY DEF Growing
<1>1. f[0] = a /\ \A i \in 0 .. (k - 1) : f[i + 1] = G[f[i]]
  <2>1. \A i \in 0 .. k : f[i] = IF i = 0 THEN a ELSE G[f[i - 1]]
      BY <1>b DEF Iterates
  <2>2. QED BY ONLY <1>a, <2>1
<1>2. \A i \in 0 .. k : f[i] \in SUBSET V
  <2> DEFINE S == {i \in 0 .. k : f[i] \in SUBSET V}
  <2>1. 0 \in S
      BY <1>a, <1>b, <1>1
  <2>2. \A i \in 0 .. (k - 1) : i \in S => i + 1 \in S
      BY <1>a, <1>0, <1>1
  <2> HIDE DEF S
  <2>3. \A i \in 0 .. k : i \in S
      BY <1>a, <2>1, <2>2, UpTo
  <2>4. QED BY <2>3 DEF S
<1>3. SUFFICES ASSUME G[f[k]] # f[k]
               PROVE  FALSE
    BY <1>a, <1>2
<1>4. \A i \in 0 .. k : G[f[i]] # f[i]
  <2> DEFINE S == {j \in 0 .. k : G[f[k - j]] # f[k - j]}
  <2>1. 0 \in S
      BY <1>a, <1>3
  <2>2. ASSUME NEW j \in 0 .. (k - 1), j \in S
        PROVE  j + 1 \in S
    <3>1. k - (j + 1) \in 0 .. (k - 1) /\ k - (j + 1) + 1 = k - j /\ j + 1 \in 0 .. k
        BY <1>a
    <3>2. f[k - j] = G[f[k - (j + 1)]]
        BY <1>1, <3>1
    <3>3. G[f[k - (j + 1)]] # f[k - (j + 1)]
        BY <2>2, <3>2
    <3>4. QED BY <3>1, <3>3
  <2> HIDE DEF S
  <2>3. \A j \in 0 .. k : j \in S
      BY <1>a, <2>1, <2>2, UpTo
  <2>4. ASSUME NEW i \in 0 .. k
        PROVE  G[f[i]] # f[i]
    <3>1. k - i \in 0 .. k /\ k - (k - i) = i
        BY <1>a
    <3>2. QED BY <2>3, <3>1 DEF S
  <2>5. QED BY <2>4
<1>5. \A i \in 0 .. k : IsFiniteSet(f[i]) /\ Cardinality(f[i]) \in Nat
    BY <1>a, <1>2, FS_Subset, FS_CardinalityType
<1>6. \A i \in 0 .. k : Cardinality(f[i]) >= i + 1
  <2> DEFINE S == {i \in 0 .. k : Cardinality(f[i]) >= i + 1}
  <2>1. 0 \in S
    <3>1. IsFiniteSet(a)
        BY <1>a, <1>b, FS_Subset
    <3>2. Cardinality(a) # 0 /\ Cardinality(a) \in Nat
        BY <1>b, <3>1, FS_EmptySet, FS_CardinalityType
    <3>3. QED BY <1>a, <1>1, <3>2
  <2>2. ASSUME NEW i \in 0 .. (k - 1), i \in S
        PROVE  i + 1 \in S
    <3>1. f[i + 1] = G[f[i]] /\ i \in 0 .. k /\ i + 1 \in 0 .. k
        BY <1>a, <1>1
    <3>2. f[i] \subseteq f[i + 1] /\ f[i] # f[i + 1]
        BY <1>a, <1>0, <1>2, <1>4, <3>1
    <3>3. Cardinality(f[i]) <= Cardinality(f[i + 1]) /\ Cardinality(f[i]) # Cardinality(f[i + 1])
        BY <1>a, <1>5, <3>1, <3>2, FS_Subset
    <3>4. Cardinality(f[i]) >= i + 1
        BY <2>2
    <3>5. QED BY <1>5, <3>1, <3>3, <3>4
  <2> HIDE DEF S
  <2>3. \A i \in 0 .. k : i \in S
      BY <1>a, <2>1, <2>2, UpTo
  <2>4. QED BY <2>3 DEF S
<1>7. f[k] \subseteq G[f[k]] /\ G[f[k]] \in SUBSET V /\ f[k] \in SUBSET V
    BY <1>a, <1>0, <1>2
<1>8. Cardinality(f[k]) >= k + 1 /\ Cardinality(V) \in Nat
    BY <1>a, <1>6, FS_CardinalityType
<1>9. Cardinality(f[k]) <= Cardinality(V)
    BY <1>a, <1>7, FS_Subset
<1>10. Cardinality(f[k]) = Cardinality(V)
    BY <1>a, <1>5, <1>8, <1>9
<1>11. f[k] = V
    BY <1>a, <1>7, <1>10, FS_Subset
<1>12. QED BY <1>3, <1>7, <1>11

-----------------------------------------------------------------------------
(* Sequences of the members of a set, and sequences of sequences. *)

\* A finite set of naturals, in order, is a sequence of its members, each once.
LEMMA Ordered ==
    ASSUME NEW S \in SUBSET Nat, IsFiniteSet(S)
    PROVE  /\ InOrder(S) \in Seq(S) /\ DOMAIN InOrder(S) = 1 .. Cardinality(S)
           /\ \A x \in S : \E i \in DOMAIN InOrder(S) : InOrder(S)[i] = x
           /\ \A i, j \in DOMAIN InOrder(S) : InOrder(S)[i] = InOrder(S)[j] => i = j
           /\ Cardinality(S) \in Nat
<1> DEFINE Less(x) == {y \in S : y < x}
           n == Cardinality(S)
           rank == [x \in S |-> Cardinality(Less(x)) + 1]
<1>1. n \in Nat
    BY FS_CardinalityType
<1>2. \A x \in S : IsFiniteSet(Less(x)) /\ Cardinality(Less(x)) \in Nat
  <2>1. TAKE x \in S
  <2>2. Less(x) \in SUBSET S
      OBVIOUS
  <2> HIDE DEF Less
  <2>3. IsFiniteSet(Less(x))
      BY <2>2, FS_Subset
  <2>4. QED BY <2>3, FS_CardinalityType
<1>3. \A x, z \in S : x < z => Cardinality(Less(x)) < Cardinality(Less(z))
  <2>1. TAKE x, z \in S
  <2>2. HAVE x < z
  <2>a. x \in Nat /\ z \in Nat
      OBVIOUS
  <2>b. ASSUME NEW y \in S, y < x
        PROVE  y < z
      BY ONLY <2>2, <2>a, <2>b, y \in S, S \in SUBSET Nat
  <2>3. Less(x) \in SUBSET Less(z) /\ x \in Less(z) /\ x \notin Less(x)
    <3>1. Less(x) \in SUBSET Less(z)
        BY <2>b
    <3>2. x \in Less(z)
        BY <2>2
    <3>3. ~(x < x)
        BY <2>a
    <3>4. QED BY <3>1, <3>2, <3>3
  <2>4. Cardinality(Less(x)) <= Cardinality(Less(z)) /\ Cardinality(Less(x)) # Cardinality(Less(z))
    <3> HIDE DEF Less
    <3>1. QED BY <1>2, <2>3, FS_Subset
  <2>5. QED BY <1>2, <2>4
<1>4. \A x \in S : Cardinality(Less(x)) < n
  <2>1. TAKE x \in S
  <2>2. Less(x) \in SUBSET S /\ Less(x) # S
      OBVIOUS
  <2>3. Cardinality(Less(x)) <= n /\ Cardinality(Less(x)) # n
    <3> HIDE DEF Less
    <3>1. QED BY <1>2, <2>2, FS_Subset
  <2>4. QED BY <1>1, <1>2, <2>3
<1>5. rank \in [S -> 1 .. n] /\ \A x, z \in S : rank[x] = rank[z] => x = z
  <2>1. \A x \in S : Cardinality(Less(x)) + 1 \in 1 .. n
      BY <1>1, <1>2, <1>4
  <2>2. \A x, z \in S : Cardinality(Less(x)) + 1 = Cardinality(Less(z)) + 1 => x = z
    <3>1. TAKE x, z \in S
    <3>2. x = z \/ x < z \/ z < x
        OBVIOUS
    <3> HIDE DEF Less
    <3>3. QED BY <1>2, <1>3, <3>2
  <2> HIDE DEF Less
  <2>3. QED BY <2>1, <2>2
<1>6. \A i \in 1 .. n : \E x \in S : rank[x] = i
  <2> HIDE DEF rank
  <2>1. rank \in Injection(S, 1 .. n)
      BY ONLY <1>5 DEF Injection, IsInjective
  <2>2. IsFiniteSet(1 .. n) /\ Cardinality(1 .. n) = n
      BY <1>1, FS_Interval
  <2>3. rank \in Surjection(S, 1 .. n)
      BY <2>1, <2>2, FS_Injection
  <2>4. QED BY <2>3 DEF Surjection
<1> DEFINE s == InOrder(S)
<1>7. s = [i \in 1 .. n |-> CHOOSE x \in S : Cardinality(Less(x)) = i - 1]
    BY DEF InOrder
<1>8. \A x \in S : rank[x] = Cardinality(Less(x)) + 1
    OBVIOUS
<1> HIDE DEF rank, s, Less
<1>9. \A i \in 1 .. n : s[i] \in S /\ rank[s[i]] = i
  <2>1. TAKE i \in 1 .. n
  <2>2. PICK x \in S : Cardinality(Less(x)) = i - 1
      BY <1>1, <1>2, <1>6, <1>8
  <2>3. s[i] \in S /\ Cardinality(Less(s[i])) = i - 1
      BY <1>7, <2>2
  <2>4. rank[s[i]] = (i - 1) + 1
      BY ONLY <1>8, <2>3
  <2>5. (i - 1) + 1 = i
      BY <1>1
  <2>6. QED BY <2>3, <2>4, <2>5
<1>10. s \in Seq(S) /\ DOMAIN s = 1 .. n
  <2>1. s \in [1 .. n -> S]
      BY <1>7, <1>9
  <2>2. QED BY <1>1, <2>1, SeqDef
<1>11. \A x \in S : \E i \in 1 .. n : s[i] = x
    BY <1>5, <1>9
<1>12. \A i, j \in 1 .. n : s[i] = s[j] => i = j
    BY <1>9
<1>13. QED BY <1>1, <1>10, <1>11, <1>12 DEF s

\* Flattening keeps every element of every sequence, and adds none.
LEMMA Flattened ==
    ASSUME NEW T, NEW n \in Nat, NEW seqs \in [1 .. n -> Seq(T)]
    PROVE  /\ FlattenSeq(seqs) \in Seq(T)
           /\ \A x \in T : (\E k \in DOMAIN FlattenSeq(seqs) : FlattenSeq(seqs)[k] = x)
                             <=> \E i \in 1 .. n : \E j \in DOMAIN seqs[i] : seqs[i][j] = x
<1> DEFINE F(f, d) == f = [i \in 1 .. d |-> IF i = 1 THEN seqs[i] ELSE f[i - 1] \o seqs[i]]
           Good(s, d) == /\ s \in Seq(T)
                         /\ \A x \in T : (\E k \in DOMAIN s : s[k] = x)
                               <=> \E i \in 1 .. d : \E j \in DOMAIN seqs[i] : seqs[i][j] = x
           S == {d \in 0 .. n : \E f : F(f, d) /\ (d > 0 => Good(f[d], d))}
<1>1. Len(seqs) = n /\ seqs \in Seq(Seq(T))
  <2>1. seqs \in Seq(Seq(T))
      BY SeqDef
  <2>2. QED BY <2>1
<1>2. 0 \in S
  <2>1. F([i \in 1 .. 0 |-> i], 0)
      OBVIOUS
  <2> HIDE DEF F, Good
  <2>2. QED BY <2>1
<1>3. ASSUME NEW d \in 0 .. (n - 1), d \in S
      PROVE  d + 1 \in S
  <2>1. PICK f : F(f, d) /\ (d > 0 => Good(f[d], d))
      BY <1>3
  <2>2. PICK g : g = [i \in 1 .. (d + 1) |-> IF i <= d THEN f[i]
                         ELSE IF i = 1 THEN seqs[i] ELSE f[d] \o seqs[i]]
      OBVIOUS
  <2>3. ASSUME NEW i \in 1 .. (d + 1)
        PROVE  g[i] = IF i = 1 THEN seqs[i] ELSE g[i - 1] \o seqs[i]
    <3>1. CASE i <= d
      <4>1. g[i] = f[i] /\ i \in 1 .. d
          BY <2>2, <3>1
      <4>2. i # 1 => i - 1 \in 1 .. (d + 1) /\ i - 1 <= d
          BY <3>1
      <4>3. i # 1 => g[i - 1] = f[i - 1]
          BY <2>2, <4>2
      <4>4. f[i] = IF i = 1 THEN seqs[i] ELSE f[i - 1] \o seqs[i]
          BY <2>1, <4>1
      <4>5. QED BY <4>1, <4>3, <4>4
    <3>2. CASE i = d + 1
      <4>1. g[i] = IF i = 1 THEN seqs[i] ELSE f[d] \o seqs[i]
          BY <2>2, <3>2
      <4>2. i # 1 => i - 1 = d /\ d \in 1 .. (d + 1) /\ d <= d
          BY <3>2
      <4>3. i # 1 => g[i - 1] = f[d]
          BY <2>2, <4>2
      <4>4. QED BY <4>1, <4>3
    <3>3. QED BY <3>1, <3>2
  <2>4. F(g, d + 1)
      BY <2>2, <2>3
  <2> HIDE DEF F
  <2>5. PICK s, r : s = seqs[d + 1] /\ r = g[d + 1] /\ s \in Seq(T)
    <3>1. seqs[d + 1] \in Seq(T)
        OBVIOUS
    <3>2. QED BY <3>1
  <2>a. d + 1 \in 0 .. n /\ d \in Nat /\ d \in 0 .. (n - 1)
      BY ONLY d \in 0 .. (n - 1), n \in Nat
  <2>6. \A i \in 1 .. (d + 1) : i \in 1 .. d \/ i = d + 1
      OBVIOUS
  <2>7. CASE d = 0
    <3>1. r = s /\ \A i \in 1 .. (d + 1) : i = 1
        BY <2>3, <2>5, <2>7
    <3>2. Good(r, d + 1)
        BY <2>5, <2>7, <3>1
    <3> HIDE DEF Good
    <3>3. QED BY ONLY <2>4, <2>5, <2>a, <3>2
  <2>8. CASE d > 0
    <3>1. PICK q : q = f[d] /\ q \in Seq(T)
        BY <2>1, <2>8
    <3>2. d + 1 # 1 /\ (d + 1) - 1 = d /\ d \in 1 .. (d + 1)
        BY <2>8
    <3>3. r = q \o s
      <4>1. \A i \in 1 .. (d + 1) : g[i] = IF i = 1 THEN seqs[i] ELSE g[i - 1] \o seqs[i]
          BY <2>3
      <4>2. d + 1 \in 1 .. (d + 1)
          BY <2>a
      <4>3. g[d + 1] = g[d] \o seqs[d + 1]
          BY ONLY <3>2, <4>1, <4>2
      <4>4. g[d] = f[d]
          BY ONLY <2>2, <3>2, <2>a
      <4>5. QED BY ONLY <2>5, <3>1, <4>3, <4>4
    <3>4. /\ r \in Seq(T) /\ Len(r) = Len(q) + Len(s)
          /\ \A i \in 1 .. (Len(q) + Len(s)) : r[i] = IF i <= Len(q) THEN q[i] ELSE s[i - Len(q)]
      <4>1. /\ q \o s \in Seq(T) /\ Len(q \o s) = Len(q) + Len(s)
            /\ \A i \in 1 .. (Len(q) + Len(s)) : (q \o s)[i] = IF i <= Len(q) THEN q[i] ELSE s[i - Len(q)]
          BY ONLY <2>5, <3>1, ConcatProperties
      <4>2. QED BY ONLY <3>3, <4>1
    <3>5. Len(q) \in Nat /\ Len(s) \in Nat
        BY <2>5, <3>1
    <3>6. ASSUME NEW x \in T
          PROVE  (\E k \in DOMAIN r : r[k] = x)
                    <=> (\E k \in DOMAIN q : q[k] = x) \/ (\E k \in DOMAIN s : s[k] = x)
      <4>1. DOMAIN r = 1 .. (Len(q) + Len(s)) /\ DOMAIN q = 1 .. Len(q) /\ DOMAIN s = 1 .. Len(s)
        <5>1. s \in Seq(T) /\ q \in Seq(T) /\ r \in Seq(T) /\ Len(r) = Len(q) + Len(s)
            BY <2>5, <3>1, <3>4
        <5>2. QED BY ONLY <5>1, LenProperties
      <4>2. ASSUME NEW k \in DOMAIN r
            PROVE  (k \in DOMAIN q /\ r[k] = q[k]) \/ (k - Len(q) \in DOMAIN s /\ r[k] = s[k - Len(q)])
          BY <3>4, <3>5, <4>1
      <4>3. ASSUME NEW k \in DOMAIN q
            PROVE  k \in DOMAIN r /\ r[k] = q[k]
          BY <3>4, <3>5, <4>1
      <4>4. ASSUME NEW k \in DOMAIN s
            PROVE  k + Len(q) \in DOMAIN r /\ r[k + Len(q)] = s[k]
        <5>1. k + Len(q) \in 1 .. (Len(q) + Len(s)) /\ ~(k + Len(q) <= Len(q)) /\ (k + Len(q)) - Len(q) = k
            BY <3>5, <4>1
        <5>2. QED BY <3>4, <4>1, <5>1
      <4>5. QED BY <4>2, <4>3, <4>4
    <3>7. ASSUME NEW x \in T
          PROVE  (\E k \in DOMAIN r : r[k] = x)
                    <=> \E i \in 1 .. (d + 1) : \E j \in DOMAIN seqs[i] : seqs[i][j] = x
      <4>1. (\E k \in DOMAIN q : q[k] = x) <=> \E i \in 1 .. d : \E j \in DOMAIN seqs[i] : seqs[i][j] = x
          BY <2>1, <2>8, <3>1
      <4>2. (\E k \in DOMAIN s : s[k] = x) <=> \E j \in DOMAIN seqs[d + 1] : seqs[d + 1][j] = x
          BY <2>5
      <4>3. d + 1 \in 1 .. (d + 1) /\ \A i \in 1 .. d : i \in 1 .. (d + 1)
          OBVIOUS
      <4>4. QED BY <2>6, <3>6, <4>1, <4>2, <4>3
    <3>8. Good(r, d + 1)
        BY <3>4, <3>7
    <3> HIDE DEF Good
    <3>9. QED BY ONLY <2>4, <2>5, <2>a, <3>8
  <2>9. QED BY <2>7, <2>8
<1> HIDE DEF S
<1>4. n \in S
  <2>1. \A i \in 0 .. (n - 1) : i \in S => i + 1 \in S
      BY <1>3
  <2>2. \A i \in 0 .. n : i \in S
      BY ONLY n \in Nat, <1>2, <2>1, UpTo
  <2>3. QED BY ONLY n \in Nat, <2>2
<1>5. CASE n = 0
  <2>1. FlattenSeq(seqs) = seqs /\ seqs = <<>> /\ seqs \in Seq(T)
      BY <1>1, <1>5 DEF FlattenSeq
  <2>2. DOMAIN FlattenSeq(seqs) = {} /\ 1 .. n = {}
      BY <1>5, <2>1
  <2>3. QED BY <2>1, <2>2
<1>6. CASE n # 0
  <2>1. \E f : F(f, n) /\ Good(f[n], n)
    <3>1. \E f : F(f, n) /\ (n > 0 => Good(f[n], n))
      <4> HIDE DEF F, Good
      <4>1. QED BY ONLY <1>4 DEF S
    <3>2. n > 0
        BY ONLY n \in Nat, <1>6
    <3>3. QED BY ONLY <3>1, <3>2
  <2>2. FlattenSeq(seqs) = (CHOOSE f : F(f, n))[n]
      BY <1>1, <1>6 DEF FlattenSeq
  <2>3. \A f, g : F(f, n) /\ F(g, n) => f[n] = g[n]
    <3>1. SUFFICES ASSUME NEW f, NEW g, F(f, n), F(g, n)
                   PROVE  f[n] = g[n]
        OBVIOUS
    <3> DEFINE R == {i \in 0 .. (n - 1) : f[i + 1] = g[i + 1]}
    <3>2. \A i \in 1 .. n : /\ f[i] = IF i = 1 THEN seqs[i] ELSE f[i - 1] \o seqs[i]
                            /\ g[i] = IF i = 1 THEN seqs[i] ELSE g[i - 1] \o seqs[i]
        BY <3>1
    <3> HIDE DEF F
    <3>3. 0 \in R
        BY <1>6, <3>2
    <3>4. ASSUME NEW i \in 0 .. ((n - 1) - 1), i \in R
          PROVE  i + 1 \in R
      <4>1. f[i + 1] = g[i + 1]
          BY <3>4
      <4>2. (i + 1) + 1 \in 1 .. n /\ (i + 1) + 1 # 1 /\ ((i + 1) + 1) - 1 = i + 1 /\ i + 1 \in 0 .. (n - 1)
          OBVIOUS
      <4>3. f[(i + 1) + 1] = g[(i + 1) + 1]
          BY <3>2, <4>1, <4>2
      <4>4. QED BY <4>2, <4>3
    <3> HIDE DEF R
    <3>5. n - 1 \in R
      <4>1. n - 1 \in Nat
          BY <1>6
      <4>2. \A i \in 0 .. ((n - 1) - 1) : i \in R => i + 1 \in R
          BY <3>4
      <4>3. \A i \in 0 .. (n - 1) : i \in R
          BY ONLY <3>3, <4>1, <4>2, UpTo
      <4>4. QED BY ONLY <4>1, <4>3
    <3>6. (n - 1) + 1 = n
        OBVIOUS
    <3>7. QED BY <3>5, <3>6 DEF R
  <2> HIDE DEF F, Good
  <2>4. QED
    <3>1. PICK f : F(f, n) /\ Good(f[n], n)
        BY <2>1
    <3>2. F(CHOOSE h : F(h, n), n)
        BY <3>1
    <3>3. FlattenSeq(seqs) = f[n]
        BY <2>2, <2>3, <3>1, <3>2
    <3>4. QED BY <3>1, <3>3 DEF Good
<1>7. QED BY <1>5, <1>6

-----------------------------------------------------------------------------
(* The graph, the team, and what a thread is given. *)

\* The graph and the team are ones that the constants allow.
GraphTyped == adj \in GraphSet /\ team \in Teams

\* The vertices are the numbers below N, and so are their neighbours.
LEMMA GraphFacts ==
    ASSUME GraphTyped
    PROVE  /\ N \in Nat \ {0} /\ Vertices = 0 .. (N - 1) /\ IsFiniteSet(Vertices)
           /\ adj \in [Vertices -> Seq(Vertices)] /\ Source \in Vertices
           /\ IsFiniteSet(team) /\ Cardinality(team) \in Nat \ {0}
           /\ team = 0 .. (Cardinality(team) - 1)
<1>1. Numbered(Vertices) /\ adj \in [Vertices -> Seq(Vertices)] /\ Source \in Vertices
    BY GraphViewAssumption DEF GraphTyped, Vertices
<1>2. Numbered(team)
    BY GraphViewAssumption DEF GraphTyped
<1>3. ASSUME NEW S, Numbered(S)
      PROVE  IsFiniteSet(S) /\ Cardinality(S) \in Nat \ {0} /\ S = 0 .. (Cardinality(S) - 1)
  <2>1. IsFiniteSet(S) /\ S # {} /\ S = 0 .. (Cardinality(S) - 1)
      BY <1>3 DEF Numbered
  <2>2. Cardinality(S) \in Nat /\ Cardinality(S) # 0
      BY <2>1, FS_CardinalityType, FS_EmptySet
  <2>3. QED BY <2>1, <2>2
<1>4. QED BY <1>1, <1>2, <1>3 DEF N

\* The neighbours of a vertex are vertices.
LEMMA NeighboursAreVertices ==
    ASSUME GraphTyped, NEW v \in Vertices
    PROVE  Neighbours(v) \in SUBSET Vertices
<1>1. adj[v] \in Seq(Vertices)
    BY GraphFacts
<1>2. \A i \in DOMAIN adj[v] : adj[v][i] \in Vertices
    BY <1>1
<1>3. QED BY <1>2 DEF Neighbours, ToSet

\* What division by a positive number leaves.
LEMMA DivBounds ==
    ASSUME NEW a \in Nat, NEW b \in Nat \ {0}
    PROVE  a \div b \in Nat /\ b * (a \div b) <= a /\ a < b * (a \div b) + b
OBVIOUS

\* The blocks of the threads of the team are the iterations, all of them.
LEMMA SharesCover ==
    ASSUME GraphTyped, NEW n \in Nat
    PROVE  /\ \A t \in team : /\ Share(t, n) \in SUBSET (0 .. (n - 1)) /\ Share(t, n) \in SUBSET Nat
                              /\ IsFiniteSet(Share(t, n))
           /\ \A i \in 0 .. (n - 1) : \E t \in team : i \in Share(t, n)
<1> DEFINE k == Cardinality(team)
           size == (n + k - 1) \div k
<1>1. k \in Nat \ {0} /\ team = 0 .. (k - 1)
    BY GraphFacts
<1> HIDE DEF k
<1>2. ASSUME NEW t \in team
      PROVE  /\ Share(t, n) \in SUBSET (0 .. (n - 1)) /\ Share(t, n) \in SUBSET Nat
             /\ IsFiniteSet(Share(t, n))
  <2>1. Share(t, n) \in SUBSET (0 .. (n - 1))
      BY DEF Share
  <2>2. IsFiniteSet(0 .. (n - 1))
      BY FS_Interval
  <2>3. IsFiniteSet(Share(t, n))
      BY <2>1, <2>2, FS_Subset
  <2>4. QED BY <2>1, <2>3
<1>3. ASSUME NEW i \in 0 .. (n - 1)
      PROVE  \E t \in team : i \in Share(t, n)
  <2>1. n + k - 1 \in Nat /\ n + k - 1 >= k
      BY <1>1
  <2>2. size \in Nat /\ n + k - 1 < k * size + k
      BY <1>1, <2>1, DivBounds
  <2> DEFINE s == size
             q == i \div s
  <2>3. s \in Nat /\ n + k - 1 < k * s + k /\ s = size
      BY <2>2
  <2> HIDE DEF s
  <2>4. s # 0
      BY <1>1, <2>1, <2>3
  <2>5. q \in Nat /\ s * q <= i
      BY <2>3, <2>4, DivBounds
  <2> HIDE DEF q
  <2>6. q < k
    <3>1. SUFFICES ASSUME q >= k
                   PROVE  FALSE
        BY <1>1, <2>5
    <3>2. PICK d \in Nat : q = k + d
        BY <1>1, <2>5, <3>1
    <3>3. s * q = s * k + s * d /\ s * d >= 0
        BY <1>1, <2>3, <3>2
    <3>4. k * s >= n
        BY <1>1, <2>3
    <3>5. s * k = k * s
        BY <1>1, <2>3
    <3>6. QED BY <1>1, <2>3, <2>5, <3>3, <3>4, <3>5
  <2>7. q \in team
      BY <1>1, <2>5, <2>6
  <2>8. i \in Share(q, n)
      BY <2>3 DEF Share, k, q
  <2>9. QED BY <2>7, <2>8
<1>4. QED BY <1>2, <1>3

-----------------------------------------------------------------------------
(* Connected components. *)

\* The edges as the threads see them: an external ID, an internal ID.
Links == {e \in Vertices \X Vertices : e[2] \in Neighbours(place[e[1]])}

Placed == GraphTyped /\ \A v \in Vertices : place[v] \in Vertices

LEMMA LinkedFacts ==
    ASSUME Placed
    PROVE  \A u, v \in Vertices : /\ Linked(u) \in SUBSET Vertices
                                  /\ v \in Linked(u) => u \in Linked(v)
<1>1. \A u \in Vertices : Neighbours(place[u]) \in SUBSET Vertices
    BY NeighboursAreVertices DEF Placed
<1>2. QED BY <1>1 DEF Linked

\* A component is what following links from a vertex reaches, and no step more leaves it.
LEMMA ComponentGrows ==
    ASSUME Placed, NEW u \in Vertices
    PROVE  LET G == [A \in SUBSET Vertices |-> A \cup UNION {Linked(x) : x \in A}]
           IN  /\ G \in [SUBSET Vertices -> SUBSET Vertices]
               /\ \E f : Iterates(f, {u}, G, N) /\ Component(u) = f[N]
<1> DEFINE G == [A \in SUBSET Vertices |-> A \cup UNION {Linked(x) : x \in A}]
           P(f) == f = [i \in 0 .. N |-> IF i = 0 THEN {u} ELSE f[i - 1] \cup UNION {Linked(x) : x \in f[i - 1]}]
<1>1. N \in Nat /\ \A x \in Vertices : Linked(x) \in SUBSET Vertices
    BY GraphFacts, LinkedFacts DEF Placed
<1>2. G \in [SUBSET Vertices -> SUBSET Vertices]
    BY <1>1
<1>3. \A A \in SUBSET Vertices : G[A] = A \cup UNION {Linked(x) : x \in A}
    OBVIOUS
<1>4. Component(u) = (CHOOSE f : P(f))[N]
    BY DEF Component, Within
<1> HIDE DEF G
<1>5. PICK h : Iterates(h, {u}, G, N)
    BY <1>1, IteratesExist
<1>6. h[0] = {u} /\ \A i \in 0 .. (N - 1) : h[i + 1] = G[h[i]]
  <2>1. N \in Nat
      BY <1>1
  <2>2. QED BY ONLY <1>5, <2>1, IteratesStep
<1>7. \A i \in 0 .. N : h[i] \in SUBSET Vertices
  <2> DEFINE S == {i \in 0 .. N : h[i] \in SUBSET Vertices}
  <2>1. 0 \in S
      BY <1>1, <1>6
  <2>2. \A i \in 0 .. (N - 1) : i \in S => i + 1 \in S
      BY <1>1, <1>2, <1>6
  <2> HIDE DEF S
  <2>3. \A i \in 0 .. N : i \in S
      BY ONLY <1>1, <2>1, <2>2, UpTo
  <2>4. QED BY <2>3 DEF S
<1>8. P(h)
  <2>1. h = [i \in 0 .. N |-> IF i = 0 THEN {u} ELSE G[h[i - 1]]]
      BY <1>5 DEF Iterates
  <2>2. ASSUME NEW i \in 0 .. N, i # 0
        PROVE  G[h[i - 1]] = h[i - 1] \cup UNION {Linked(x) : x \in h[i - 1]}
    <3>1. i - 1 \in 0 .. N
        BY <1>1, <2>2
    <3>2. QED BY <1>3, <1>7, <3>1
  <2>3. \A i \in 0 .. N : (IF i = 0 THEN {u} ELSE G[h[i - 1]])
                             = IF i = 0 THEN {u} ELSE h[i - 1] \cup UNION {Linked(x) : x \in h[i - 1]}
      BY <2>2
  <2>4. QED BY ONLY <2>1, <2>3
<1>9. \A g : P(g) => g[N] = h[N]
  <2>1. SUFFICES ASSUME NEW g, P(g)
                 PROVE  g[N] = h[N]
      OBVIOUS
  <2>2. \A i \in 0 .. N : g[i] = IF i = 0 THEN {u} ELSE g[i - 1] \cup UNION {Linked(x) : x \in g[i - 1]}
      BY <2>1
  <2>3. \A i \in 0 .. N : h[i] = IF i = 0 THEN {u} ELSE h[i - 1] \cup UNION {Linked(x) : x \in h[i - 1]}
      BY <1>8
  <2> HIDE DEF P
  <2> DEFINE S == {i \in 0 .. N : g[i] = h[i]}
  <2>4. 0 \in S
    <3>1. 0 \in 0 .. N
        BY <1>1
    <3>2. QED BY ONLY <2>2, <2>3, <3>1
  <2>5. ASSUME NEW i \in 0 .. (N - 1), i \in S
        PROVE  i + 1 \in S
    <3>1. i + 1 \in 0 .. N /\ i + 1 # 0 /\ (i + 1) - 1 = i /\ g[i] = h[i]
        BY <1>1, <2>5
    <3>2. QED BY <2>2, <2>3, <3>1
  <2> HIDE DEF S
  <2>6. \A i \in 0 .. (N - 1) : i \in S => i + 1 \in S
      BY <2>5
  <2>7. \A i \in 0 .. N : i \in S
      BY ONLY <1>1, <2>4, <2>6, UpTo
  <2>8. QED BY <1>1, <2>7 DEF S
<1> HIDE DEF P
<1>10. P(CHOOSE f : P(f))
    BY <1>8
<1>11. Component(u) = h[N]
    BY ONLY <1>4, <1>9, <1>10
<1>12. QED BY <1>2, <1>5, <1>11 DEF G

\* A component holds what its vertices are linked to, and lies in every set that
\* does so too.
LEMMA ComponentLeast ==
    ASSUME Placed, NEW u \in Vertices
    PROVE  /\ u \in Component(u) /\ Component(u) \in SUBSET Vertices
           /\ \A x \in Component(u) : Linked(x) \in SUBSET Component(u)
           /\ \A A \in SUBSET Vertices :
                 u \in A /\ (\A x \in A : Linked(x) \in SUBSET A) => Component(u) \in SUBSET A
<1> DEFINE G == [A \in SUBSET Vertices |-> A \cup UNION {Linked(x) : x \in A}]
<1>1. G \in [SUBSET Vertices -> SUBSET Vertices] /\ \E f : Iterates(f, {u}, G, N) /\ Component(u) = f[N]
    BY ComponentGrows
<1>2. PICK f : Iterates(f, {u}, G, N) /\ Component(u) = f[N]
    BY <1>1
<1>3. \A A \in SUBSET Vertices : G[A] = A \cup UNION {Linked(x) : x \in A}
    OBVIOUS
<1> HIDE DEF G
<1>4. N \in Nat /\ IsFiniteSet(Vertices) /\ Cardinality(Vertices) <= N + 1
    BY GraphFacts DEF Placed, N
<1>5. f[0] = {u} /\ \A i \in 0 .. (N - 1) : f[i + 1] = G[f[i]]
    BY <1>2, <1>4, IteratesStep
<1>6. \A A \in SUBSET Vertices : A \subseteq G[A]
    BY <1>3
<1>7. (\A i \in 0 .. N : f[i] \in SUBSET Vertices) /\ G[f[N]] = f[N]
  <2>2. Grows(G, Vertices)
      BY <1>1, <1>6 DEF Grows
  <2>3. IsFiniteSet(Vertices)
      BY <1>4
  <2>4. N \in Nat
      BY <1>4
  <2>5. Cardinality(Vertices) <= N + 1
      BY <1>4
  <2>6. Iterates(f, {u}, G, N)
      BY <1>2
  <2>7. {u} \in SUBSET Vertices
      OBVIOUS
  <2>8. {u} # {}
      OBVIOUS
  <2>9. Growing(f, {u}, G, Vertices, N)
      BY ONLY <2>2, <2>3, <2>4, <2>5, <2>6, <2>7, <2>8 DEF Growing
  <2>10. QED BY ONLY <2>9, GrowthEnds
<1>8. \A i \in 0 .. N : u \in f[i]
  <2> DEFINE S == {i \in 0 .. N : u \in f[i]}
  <2>1. 0 \in S
      BY <1>4, <1>5
  <2>2. \A i \in 0 .. (N - 1) : i \in S => i + 1 \in S
      BY <1>4, <1>5, <1>6, <1>7
  <2> HIDE DEF S
  <2>3. \A i \in 0 .. N : i \in S
      BY ONLY <1>4, <2>1, <2>2, UpTo
  <2>4. QED BY <2>3 DEF S
<1>9. f[N] \in SUBSET Vertices /\ u \in f[N]
    BY <1>4, <1>7, <1>8
<1>10. \A x \in f[N] : Linked(x) \in SUBSET f[N]
    BY <1>3, <1>7, <1>9
<1>11. ASSUME NEW A \in SUBSET Vertices, u \in A, \A x \in A : Linked(x) \in SUBSET A
       PROVE  f[N] \in SUBSET A
  <2> DEFINE S == {i \in 0 .. N : f[i] \in SUBSET A}
  <2>1. 0 \in S
      BY <1>4, <1>5, <1>11
  <2>2. ASSUME NEW i \in 0 .. (N - 1), i \in S
        PROVE  i + 1 \in S
    <3>1. f[i] \in SUBSET Vertices /\ f[i] \in SUBSET A /\ f[i + 1] = G[f[i]] /\ i + 1 \in 0 .. N
        BY <1>4, <1>5, <1>7, <2>2
    <3>2. G[f[i]] = f[i] \cup UNION {Linked(x) : x \in f[i]}
        BY <1>3, <3>1
    <3>3. f[i + 1] \in SUBSET A
        BY <1>11, <3>1, <3>2
    <3>4. QED BY <3>1, <3>3
  <2> HIDE DEF S
  <2>3. \A i \in 0 .. (N - 1) : i \in S => i + 1 \in S
      BY <2>2
  <2>4. \A i \in 0 .. N : i \in S
      BY ONLY <1>4, <2>1, <2>3, UpTo
  <2>5. QED BY <1>4, <2>4 DEF S
<1>12. QED BY <1>2, <1>9, <1>10, <1>11

\* Components are the classes of an equivalence.
LEMMA ComponentClasses ==
    ASSUME Placed
    PROVE  \A u, v, w \in Vertices :
              /\ v \in Component(u) => u \in Component(v)
              /\ v \in Component(u) /\ w \in Component(v) => w \in Component(u)
<1>1. ASSUME NEW u \in Vertices, NEW v \in Vertices, NEW w \in Vertices,
             v \in Component(u), w \in Component(v)
      PROVE  w \in Component(u)
  <2>1. Component(u) \in SUBSET Vertices /\ \A x \in Component(u) : Linked(x) \in SUBSET Component(u)
      BY ComponentLeast
  <2>2. Component(v) \in SUBSET Component(u)
      BY <1>1, <2>1, ComponentLeast
  <2>3. QED BY <1>1, <2>2
<1>2. ASSUME NEW u \in Vertices, NEW v \in Vertices, v \in Component(u)
      PROVE  u \in Component(v)
  <2> DEFINE A == {x \in Vertices : u \in Component(x)}
  <2>1. u \in A
      BY ComponentLeast
  <2>2. ASSUME NEW x \in A, NEW y \in Linked(x)
        PROVE  y \in A
    <3>1. x \in Vertices /\ y \in Vertices /\ x \in Linked(y) /\ u \in Component(x)
        BY <2>2, LinkedFacts
    <3>2. y \in Component(y) /\ Linked(y) \in SUBSET Component(y)
        BY <3>1, ComponentLeast
    <3>3. x \in Component(y)
        BY <3>1, <3>2
    <3>4. u \in Component(y)
        BY <1>1, <3>1, <3>3
    <3>5. QED BY <3>1, <3>4
  <2>3. A \in SUBSET Vertices /\ \A x \in A : Linked(x) \in SUBSET A
      BY <2>2
  <2> HIDE DEF A
  <2>4. Component(u) \in SUBSET A
      BY <2>1, <2>3, ComponentLeast
  <2>5. QED BY <1>2, <2>4 DEF A
<1>3. QED BY <1>1, <1>2

\* What a thread knows in the loop that hooks, and in the loop that compresses.
HookStates ==
    [pc : {"own", "other", "root", "hook"}, edges : Seq(Links), high : Vertices, low : Vertices]
CompressStates == [pc : {"test", "load", "jump"}, todo : Seq(Vertices), read : Vertices]

ComponentsTyped ==
    /\ \A v \in Vertices : place[v] \in Vertices
    /\ comp \in [Vertices -> Vertices] /\ change \in BOOLEAN
    /\ loop \in {"hook", "compress", "done"}
    /\ cc \in [team -> IF loop = "hook" THEN HookStates ELSE CompressStates]

\* What a thread has read is of the component that it was read for, and lies below
\* what it is to replace.
HookSound(s) ==
    s.edges # <<>> =>
        /\ s.pc = "other" => s.high \in Component(Head(s.edges)[1])
        /\ s.pc \in {"root", "hook"} => s.low < s.high /\ s.low \in Component(s.high)
JumpSound(s) ==
    s.todo # <<>> /\ s.pc = "jump" => s.read <= Head(s.todo) /\ s.read \in Component(Head(s.todo))

LabelsKept ==
    /\ \A v \in Vertices : comp[v] <= v /\ comp[v] \in Component(v)
    /\ loop = "hook" => \A t \in team : HookSound(cc[t])
    /\ loop # "hook" => \A t \in team : JumpSound(cc[t])

Compressed(v) == comp[comp[v]] = comp[v]
Agree(e) == comp[e[1]] = comp[e[2]]

\* Until a component is hooked, the labels are compressed, an edge whose ends differ is
\* still to be looked at, and what a thread has read is still so.
HookExact(s) ==
    s.edges # <<>> =>
        /\ s.pc = "other" => s.high = comp[Head(s.edges)[1]]
        /\ s.pc = "root" => IsRoot(s.high)
HookingExact ==
    loop = "hook" /\ ~change =>
        /\ \A v \in Vertices : Compressed(v)
        /\ \A e \in Links : Agree(e) \/ \E t \in team : e \in ToSet(cc[t].edges)
        /\ \A t \in team : HookExact(cc[t])

\* A label that is not compressed is still to be looked at, and a root is never written.
JumpExact(s) ==
    s.todo # <<>> =>
        /\ s.pc \in {"load", "jump"} => comp[Head(s.todo)] < Head(s.todo)
        /\ s.pc = "jump" => s.read < Head(s.todo)
CompressingExact ==
    loop = "compress" =>
        /\ \A v \in Vertices : Compressed(v) \/ \E t \in team : v \in ToSet(cc[t].todo)
        /\ \A t \in team : JumpExact(cc[t])

\* An iteration that hooks nothing changes nothing.
NothingHooked ==
    loop = "compress" /\ ~change =>
        /\ \A v \in Vertices : Compressed(v)
        /\ \A e \in Links : Agree(e)
        /\ \A t \in team : cc[t].todo # <<>> => cc[t].pc = "test"
DoneExact == loop = "done" => \A e \in Links : Agree(e)

ComponentsInv ==
    /\ GraphTyped /\ ComponentsTyped /\ LabelsKept
    /\ HookingExact /\ CompressingExact /\ NothingHooked /\ DoneExact

\* The edges of the threads are the edges, all of them; so are their vertices.
LEMMA EdgesCover ==
    ASSUME Placed
    PROVE  /\ \A t \in team : Edges(t) \in Seq(Links)
           /\ \A e \in Links : \E t \in team : e \in ToSet(Edges(t))
<1> DEFINE at(m) == adj[place[m]]
           of(m) == [i \in 1 .. Len(at(m)) |-> <<m, at(m)[i]>>]
           own(t) == InOrder(Share(t, N))
           seqs(t) == [i \in DOMAIN own(t) |-> of(own(t)[i])]
<1>1. N \in Nat /\ Vertices = 0 .. (N - 1) /\ GraphTyped
    BY GraphFacts DEF Placed
<1>2. ASSUME NEW m \in Vertices
      PROVE  /\ of(m) \in Seq(Links)
             /\ \A e \in Links : e[1] = m => \E j \in DOMAIN of(m) : of(m)[j] = e
  <2>1. place[m] \in Vertices /\ at(m) \in Seq(Vertices)
      BY <1>1, GraphFacts DEF Placed
  <2>2. \A i \in 1 .. Len(at(m)) : <<m, at(m)[i]>> \in Links
      BY <2>1 DEF Links, Neighbours, ToSet
  <2>3. of(m) \in Seq(Links) /\ DOMAIN of(m) = 1 .. Len(at(m))
      BY <2>1, <2>2
  <2>4. ASSUME NEW e \in Links, e[1] = m
        PROVE  \E j \in DOMAIN of(m) : of(m)[j] = e
    <3>1. e = <<m, e[2]>> /\ e[2] \in Neighbours(place[m])
        BY <2>4 DEF Links
    <3>2. PICK j \in DOMAIN at(m) : at(m)[j] = e[2]
        BY <3>1 DEF Neighbours, ToSet
    <3>3. j \in DOMAIN of(m) /\ of(m)[j] = <<m, e[2]>>
        BY <2>1, <2>3, <3>2
    <3>4. QED BY <3>1, <3>3
  <2>5. QED BY <2>3, <2>4
<1> HIDE DEF of
<1>3. ASSUME NEW t \in team
      PROVE  /\ Share(t, N) \in SUBSET Vertices
             /\ own(t) \in Seq(Share(t, N))
             /\ \A x \in Share(t, N) : \E i \in DOMAIN own(t) : own(t)[i] = x
             /\ \E k \in Nat : DOMAIN own(t) = 1 .. k
  <2>1. Share(t, N) \in SUBSET (0 .. (N - 1)) /\ Share(t, N) \in SUBSET Nat /\ IsFiniteSet(Share(t, N))
      BY <1>1, SharesCover
  <2>2. QED BY <1>1, <2>1, Ordered
<1>4. ASSUME NEW t \in team
      PROVE  /\ Edges(t) \in Seq(Links)
             /\ \A e \in Links : e[1] \in Share(t, N) => e \in ToSet(Edges(t))
  <2>1. Edges(t) = FlattenSeq(seqs(t))
      BY DEF Edges, of
  <2>2. PICK k \in Nat : DOMAIN own(t) = 1 .. k
      BY <1>3
  <2>a. \A i \in 1 .. k : own(t)[i] \in Share(t, N) /\ own(t)[i] \in Vertices
      BY <1>3, <2>2
  <2>b. \A x \in Share(t, N) : \E i \in 1 .. k : own(t)[i] = x
      BY <1>3, <2>2
  <2> HIDE DEF own
  <2>3. seqs(t) \in [1 .. k -> Seq(Links)] /\ \A i \in 1 .. k : seqs(t)[i] = of(own(t)[i])
      BY <1>2, <2>2, <2>a
  <2> DEFINE ss == seqs(t)
  <2>4. ss \in [1 .. k -> Seq(Links)] /\ \A i \in 1 .. k : ss[i] = of(own(t)[i])
      BY <2>3
  <2>5. Edges(t) = FlattenSeq(ss)
      BY <2>1
  <2> HIDE DEF ss, seqs
  <2>6. /\ FlattenSeq(ss) \in Seq(Links)
        /\ \A e \in Links : (\E i \in 1 .. k : \E j \in DOMAIN ss[i] : ss[i][j] = e)
                               => \E i \in DOMAIN FlattenSeq(ss) : FlattenSeq(ss)[i] = e
    <3>1. k \in Nat
        BY <2>2
    <3>2. ss \in [1 .. k -> Seq(Links)]
        BY <2>4
    <3>3. /\ FlattenSeq(ss) \in Seq(Links)
          /\ \A e \in Links : (\E i \in DOMAIN FlattenSeq(ss) : FlattenSeq(ss)[i] = e)
                                 <=> \E i \in 1 .. k : \E j \in DOMAIN ss[i] : ss[i][j] = e
        BY ONLY <3>1, <3>2, Flattened
    <3>4. QED BY ONLY <3>3
  <2>7. ASSUME NEW e \in Links, e[1] \in Share(t, N)
        PROVE  e \in ToSet(Edges(t))
    <3>1. PICK i \in 1 .. k : own(t)[i] = e[1]
        BY <2>7, <2>b
    <3>2. \E j \in DOMAIN ss[i] : ss[i][j] = e
        BY <1>2, <2>4, <2>a, <3>1
    <3>3. \E m \in DOMAIN Edges(t) : Edges(t)[m] = e
        BY <2>5, <2>6, <3>2
    <3>4. QED BY <3>3 DEF ToSet
  <2>8. QED BY <2>5, <2>6, <2>7
<1>5. ASSUME NEW e \in Links
      PROVE  \E t \in team : e \in ToSet(Edges(t))
  <2>1. e[1] \in 0 .. (N - 1)
      BY <1>1 DEF Links
  <2>2. PICK t \in team : e[1] \in Share(t, N)
      BY <1>1, <2>1, SharesCover
  <2>3. QED BY <1>4, <2>2
<1>6. QED BY <1>4, <1>5

LEMMA VerticesCover ==
    ASSUME GraphTyped
    PROVE  /\ \A t \in team : InOrder(Share(t, N)) \in Seq(Vertices)
           /\ \A v \in Vertices : \E t \in team : v \in ToSet(InOrder(Share(t, N)))
<1>1. N \in Nat /\ Vertices = 0 .. (N - 1)
    BY GraphFacts
<1>2. ASSUME NEW t \in team
      PROVE  /\ InOrder(Share(t, N)) \in Seq(Vertices)
             /\ \A v \in Share(t, N) : v \in ToSet(InOrder(Share(t, N)))
  <2>1. Share(t, N) \in SUBSET Vertices /\ Share(t, N) \in SUBSET Nat /\ IsFiniteSet(Share(t, N))
      BY <1>1, SharesCover
  <2> DEFINE s == InOrder(Share(t, N))
  <2>2. s \in Seq(Share(t, N)) /\ \A x \in Share(t, N) : \E i \in DOMAIN s : s[i] = x
      BY <2>1, Ordered
  <2> HIDE DEF s
  <2>3. s \in Seq(Vertices) /\ \A v \in Share(t, N) : v \in ToSet(s)
      BY <2>1, <2>2 DEF ToSet
  <2>4. QED BY <2>3 DEF s
<1>3. QED BY <1>1, <1>2, SharesCover

\* What is left of a sequence when its head is taken.
LEMMA HeadAndRest ==
    ASSUME NEW S, NEW s \in Seq(S), s # <<>>
    PROVE  /\ Head(s) \in S /\ Tail(s) \in Seq(S) /\ Head(s) \in ToSet(s)
           /\ \A x \in ToSet(s) : x = Head(s) \/ x \in ToSet(Tail(s))
           /\ \A x \in ToSet(Tail(s)) : x \in ToSet(s)
<1>1. Len(s) \in Nat /\ Len(s) # 0 /\ DOMAIN s = 1 .. Len(s)
    BY EmptySeq
<1>2. /\ Head(s) = s[1] /\ Tail(s) \in Seq(S) /\ Len(Tail(s)) = Len(s) - 1
      /\ \A i \in 1 .. (Len(s) - 1) : Tail(s)[i] = s[i + 1]
    BY <1>1, HeadTailProperties
<1>3. DOMAIN Tail(s) = 1 .. (Len(s) - 1)
    BY <1>2, LenProperties
<1>4. 1 \in DOMAIN s
    BY <1>1
<1>5. ASSUME NEW i \in DOMAIN s
      PROVE  s[i] = Head(s) \/ \E j \in DOMAIN Tail(s) : Tail(s)[j] = s[i]
  <2>1. CASE i = 1
      BY <1>2, <2>1
  <2>2. CASE i # 1
    <3>1. i - 1 \in 1 .. (Len(s) - 1) /\ (i - 1) + 1 = i
        BY <1>1, <2>2
    <3>2. QED BY <1>2, <1>3, <3>1
  <2>3. QED BY <2>1, <2>2
<1>6. ASSUME NEW j \in DOMAIN Tail(s)
      PROVE  \E i \in DOMAIN s : s[i] = Tail(s)[j]
  <2>1. j + 1 \in DOMAIN s
      BY <1>1, <1>3
  <2>2. QED BY <1>2, <1>3, <2>1
<1>7. Head(s) \in S /\ Head(s) \in ToSet(s)
    BY <1>2, <1>4 DEF ToSet
<1>8. \A x \in ToSet(s) : x = Head(s) \/ x \in ToSet(Tail(s))
    BY ONLY <1>5 DEF ToSet
<1>9. \A x \in ToSet(Tail(s)) : x \in ToSet(s)
    BY ONLY <1>6 DEF ToSet
<1>10. QED BY ONLY <1>2, <1>7, <1>8, <1>9

\* What does not depend on the labels stays as it is.
LEMMA Unmoved ==
    ASSUME UNCHANGED view, place' = place
    PROVE  /\ GraphTyped' = GraphTyped /\ Vertices' = Vertices /\ Links' = Links
           /\ HookStates' = HookStates /\ CompressStates' = CompressStates
           /\ \A u : Component(u)' = Component(u)
<1>1. Vertices' = Vertices /\ N' = N /\ adj' = adj /\ team' = team
    BY DEF view, Vertices, N
<1>2. GraphTyped' = GraphTyped
    BY <1>1 DEF GraphTyped
<1>3. Links' = Links
    BY <1>1 DEF Links, Neighbours, ToSet
<1>4. ASSUME NEW u
      PROVE  Component(u)' = Component(u)
    BY <1>1 DEF Component, Within, Linked, Neighbours, ToSet
<1>5. HookStates' = HookStates
    BY <1>1, <1>3 DEF HookStates
<1>6. CompressStates' = CompressStates
    BY <1>1 DEF CompressStates
<1>7. QED BY <1>1, <1>2, <1>3, <1>4, <1>5, <1>6

\* A thread takes a step in the loop that hooks and writes no label.
LEMMA HookTurn ==
    ASSUME ComponentsInv, UNCHANGED view, place' = place, loop = "hook", loop' = loop,
           comp' = comp, change' = change, NEW t \in team, NEW s \in HookStates,
           cc' = [cc EXCEPT ![t] = s], HookSound(s),
           ~change => HookExact(s) /\ \A e \in ToSet(cc[t].edges) : Agree(e) \/ e \in ToSet(s.edges)
    PROVE  ComponentsInv'
<1>1. /\ GraphTyped' = GraphTyped /\ Vertices' = Vertices /\ Links' = Links
      /\ HookStates' = HookStates /\ \A u : Component(u)' = Component(u)
    BY Unmoved
<1>2. team' = team
    BY DEF view
<1>3. cc \in [team -> HookStates] /\ cc' \in [team -> HookStates]
    BY DEF ComponentsInv, ComponentsTyped
<1>4. cc'[t] = s /\ \A x \in team : x # t => cc'[x] = cc[x]
    BY <1>3
<1>5. GraphTyped' /\ ComponentsTyped'
    BY <1>1, <1>2, <1>3 DEF ComponentsInv, ComponentsTyped
<1>6. LabelsKept'
  <2>1. \A v \in Vertices : comp[v] <= v /\ comp[v] \in Component(v)
      BY DEF ComponentsInv, LabelsKept
  <2>2. ASSUME NEW x \in team
        PROVE  HookSound(cc'[x])
      BY <1>4 DEF ComponentsInv, LabelsKept
  <2>3. \A r : HookSound(r)' = HookSound(r)
      BY <1>1 DEF HookSound
  <2>4. QED BY <1>1, <1>2, <2>1, <2>2, <2>3 DEF LabelsKept
<1>7. HookingExact'
  <2>1. SUFFICES ASSUME ~change
                 PROVE  HookingExact'
      BY DEF HookingExact
  <2>2. /\ \A v \in Vertices : Compressed(v)
        /\ \A e \in Links : Agree(e) \/ \E x \in team : e \in ToSet(cc[x].edges)
        /\ \A x \in team : HookExact(cc[x])
      BY <2>1 DEF ComponentsInv, HookingExact
  <2>3. /\ \A v : Compressed(v)' = Compressed(v)
        /\ \A e : Agree(e)' = Agree(e)
        /\ \A r : HookExact(r)' = HookExact(r)
      BY <1>1 DEF Compressed, Agree, HookExact, IsRoot
  <2>4. \A x \in team : HookExact(cc'[x])
      BY <1>4, <2>1, <2>2
  <2>5. ASSUME NEW e \in Links, ~Agree(e)
        PROVE  \E x \in team : e \in ToSet(cc'[x].edges)
    <3>1. PICK x \in team : e \in ToSet(cc[x].edges)
        BY <2>2, <2>5
    <3>2. CASE x = t
        BY <1>4, <2>1, <2>5, <3>1, <3>2
    <3>3. CASE x # t
        BY <1>4, <3>1, <3>3
    <3>4. QED BY <3>2, <3>3
  <2>6. \A x : ToSet(cc[x].edges)' = ToSet(cc'[x].edges)
      BY DEF ToSet
  <2>7. QED BY <1>1, <1>2, <2>2, <2>3, <2>4, <2>5, <2>6 DEF HookingExact
<1>8. CompressingExact' /\ NothingHooked' /\ DoneExact'
    BY DEF CompressingExact, NothingHooked, DoneExact
<1>9. QED BY <1>5, <1>6, <1>7, <1>8 DEF ComponentsInv

\* The edge that a thread has in hand.
LEMMA EdgeInHand ==
    ASSUME ComponentsInv, loop = "hook", NEW t \in team, cc[t].edges # <<>>
    PROVE  /\ cc[t] \in HookStates /\ Placed
           /\ Head(cc[t].edges) \in Links /\ Tail(cc[t].edges) \in Seq(Links)
           /\ Head(cc[t].edges)[1] \in Vertices /\ Head(cc[t].edges)[2] \in Vertices
           /\ Head(cc[t].edges)[2] \in Component(Head(cc[t].edges)[1])
           /\ \A e \in ToSet(cc[t].edges) : e = Head(cc[t].edges) \/ e \in ToSet(Tail(cc[t].edges))
<1>1. cc[t] \in HookStates /\ Placed
    BY DEF ComponentsInv, ComponentsTyped, Placed
<1>2. cc[t].edges \in Seq(Links)
    BY <1>1 DEF HookStates
<1> DEFINE s == cc[t].edges
           e == Head(s)
<1>3. s \in Seq(Links) /\ s # <<>>
    BY <1>2
<1>4. cc[t].edges = s
    OBVIOUS
<1> HIDE DEF s
<1>5. /\ e \in Links /\ Tail(s) \in Seq(Links)
      /\ \A x \in ToSet(s) : x = Head(s) \/ x \in ToSet(Tail(s))
    BY ONLY <1>3, HeadAndRest
<1>6. e[1] \in Vertices /\ e[2] \in Vertices /\ e[2] \in Linked(e[1])
    BY <1>5 DEF Links, Linked
<1>7. e[2] \in Component(e[1])
    BY <1>1, <1>6, ComponentLeast
<1>8. QED BY <1>1, <1>4, <1>5, <1>6, <1>7

LEMMA ReadOwnKeeps ==
    ASSUME ComponentsInv, UNCHANGED view, NEW t \in team, ReadOwn(t)
    PROVE  ComponentsInv'
<1> DEFINE e == Head(cc[t].edges)
           s == [cc[t] EXCEPT !.pc = "other", !.high = comp[e[1]]]
<1>1. /\ loop = "hook" /\ cc[t].edges # <<>> /\ cc[t].pc = "own"
      /\ cc' = [cc EXCEPT ![t] = s]
      /\ place' = place /\ comp' = comp /\ change' = change /\ loop' = loop
    BY DEF ReadOwn, Hooking, Become
<1>2. cc[t] \in HookStates /\ Placed /\ e[1] \in Vertices
    BY <1>1, EdgeInHand
<1>3. comp[e[1]] \in Vertices /\ comp[e[1]] \in Component(e[1])
    BY <1>2 DEF ComponentsInv, ComponentsTyped, LabelsKept
<1>4. s \in HookStates /\ s.edges = cc[t].edges /\ s.pc = "other" /\ s.high = comp[e[1]]
    BY <1>2, <1>3 DEF HookStates
<1> HIDE DEF s
<1>5. HookSound(s) /\ HookExact(s)
    BY <1>3, <1>4 DEF HookSound, HookExact
<1>6. QED BY <1>1, <1>4, <1>5, HookTurn

LEMMA ReadOtherKeeps ==
    ASSUME ComponentsInv, UNCHANGED view, NEW t \in team, ReadOther(t)
    PROVE  ComponentsInv'
<1> DEFINE e == Head(cc[t].edges)
           u == cc[t].high
           v == comp[e[2]]
           s == IF u = v THEN [cc[t] EXCEPT !.pc = "own", !.edges = Tail(@)]
                ELSE [cc[t] EXCEPT !.pc = "root", !.high = Max({u, v}), !.low = Min({u, v})]
<1>1. /\ loop = "hook" /\ cc[t].edges # <<>> /\ cc[t].pc = "other"
      /\ cc' = [cc EXCEPT ![t] = s]
      /\ place' = place /\ comp' = comp /\ change' = change /\ loop' = loop
    BY DEF ReadOther, Hooking, Become
<1>2. /\ cc[t] \in HookStates /\ Placed /\ e[1] \in Vertices /\ e[2] \in Vertices
      /\ Tail(cc[t].edges) \in Seq(Links) /\ e[2] \in Component(e[1])
      /\ \A x \in ToSet(cc[t].edges) : x = e \/ x \in ToSet(Tail(cc[t].edges))
    BY <1>1, EdgeInHand
<1>3. v \in Vertices /\ v \in Component(e[2]) /\ u \in Component(e[1]) /\ u \in Vertices
  <2>1. v \in Vertices /\ v \in Component(e[2])
      BY <1>2 DEF ComponentsInv, ComponentsTyped, LabelsKept
  <2>2. HookSound(cc[t])
      BY <1>1 DEF ComponentsInv, LabelsKept
  <2>3. u \in Component(e[1])
      BY <1>1, <2>2 DEF HookSound
  <2>4. u \in Vertices
      BY <1>2 DEF HookStates
  <2>5. QED BY <2>1, <2>3, <2>4
<1>4. u \in Component(v) /\ v \in Component(u)
  <2>1. v \in Component(e[1]) /\ e[1] \in Component(u)
      BY <1>2, <1>3, ComponentClasses
  <2>2. v \in Component(u)
      BY <1>2, <1>3, <2>1, ComponentClasses
  <2>3. QED BY <1>2, <1>3, <2>2, ComponentClasses
<1>5. ~change => u = comp[e[1]] /\ IsRoot(u) /\ IsRoot(v)
  <2>1. ~change => HookExact(cc[t]) /\ \A x \in Vertices : Compressed(x)
      BY <1>1 DEF ComponentsInv, HookingExact
  <2>2. QED BY <1>1, <1>2, <2>1 DEF HookExact, Compressed, IsRoot
<1>6. CASE u = v
  <2>1. s \in HookStates /\ s.pc = "own" /\ s.edges = Tail(cc[t].edges)
      BY <1>2, <1>6 DEF HookStates
  <2>2. ~change => Agree(e)
      BY <1>5, <1>6 DEF Agree
  <2> HIDE DEF s
  <2>3. HookSound(s) /\ HookExact(s)
      BY <2>1 DEF HookSound, HookExact
  <2>4. ~change => \A x \in ToSet(cc[t].edges) : Agree(x) \/ x \in ToSet(s.edges)
      BY <1>2, <2>1, <2>2
  <2>5. QED BY <1>1, <2>1, <2>3, <2>4, HookTurn
<1>7. CASE u # v
  <2> DEFINE h == Max({u, v})
             l == Min({u, v})
  <2>1. u \in Nat /\ v \in Nat
    <3>1. N \in Nat /\ Vertices = 0 .. (N - 1)
        BY <1>2, GraphFacts DEF Placed
    <3> HIDE DEF u, v
    <3>2. QED BY <1>3, <3>1
  <2>2. ((h = u /\ l = v) \/ (h = v /\ l = u)) /\ l < h
    <3>1. l \in {u, v} /\ l <= u /\ l <= v
        BY <2>1, MinIsLeast
    <3>2. h \in {u, v} /\ u <= h /\ v <= h
        BY <2>1, MaxOfTwo
    <3> HIDE DEF h, l, u, v
    <3>3. QED BY ONLY <1>7, <2>1, <3>1, <3>2
  <2>3. s = [cc[t] EXCEPT !.pc = "root", !.high = h, !.low = l]
      BY <1>7
  <2> HIDE DEF h, l, s
  <2>4. h \in Vertices /\ l \in Vertices /\ l \in Component(h)
      BY <1>3, <1>4, <2>2
  <2>5. s \in HookStates /\ s.pc = "root" /\ s.edges = cc[t].edges /\ s.high = h /\ s.low = l
      BY <1>2, <2>3, <2>4 DEF HookStates
  <2>6. HookSound(s)
      BY <2>2, <2>4, <2>5 DEF HookSound
  <2>7. ~change => HookExact(s)
      BY <1>5, <2>2, <2>5 DEF HookExact
  <2>8. \A x \in ToSet(cc[t].edges) : x \in ToSet(s.edges)
      BY <2>5
  <2>9. QED BY <1>1, <2>5, <2>6, <2>7, <2>8, HookTurn
<1>8. QED BY <1>6, <1>7

LEMMA TestRootKeeps ==
    ASSUME ComponentsInv, UNCHANGED view, NEW t \in team, TestRoot(t)
    PROVE  ComponentsInv'
<1> DEFINE s == IF IsRoot(cc[t].high) THEN [cc[t] EXCEPT !.pc = "hook"]
                ELSE [cc[t] EXCEPT !.pc = "own", !.edges = Tail(@)]
<1>1. /\ loop = "hook" /\ cc[t].edges # <<>> /\ cc[t].pc = "root"
      /\ cc' = [cc EXCEPT ![t] = s]
      /\ place' = place /\ comp' = comp /\ change' = change /\ loop' = loop
    BY DEF TestRoot, Hooking, Become
<1>2. cc[t] \in HookStates /\ Tail(cc[t].edges) \in Seq(Links)
    BY <1>1, EdgeInHand
<1>3. HookSound(cc[t])
    BY <1>1 DEF ComponentsInv, LabelsKept
<1>4. ~change => HookExact(cc[t])
    BY <1>1 DEF ComponentsInv, HookingExact
<1>5. CASE IsRoot(cc[t].high)
  <2>1. /\ s \in HookStates /\ s.pc = "hook" /\ s.edges = cc[t].edges
        /\ s.high = cc[t].high /\ s.low = cc[t].low
      BY <1>2, <1>5 DEF HookStates
  <2> HIDE DEF s
  <2>2. HookSound(s) /\ HookExact(s)
      BY <1>1, <1>3, <2>1 DEF HookSound, HookExact
  <2>3. \A x \in ToSet(cc[t].edges) : x \in ToSet(s.edges)
      BY <2>1
  <2>4. QED BY <1>1, <2>1, <2>2, <2>3, HookTurn
<1>6. CASE ~IsRoot(cc[t].high)
  <2>1. s \in HookStates /\ s.pc = "own" /\ s.edges = Tail(cc[t].edges)
      BY <1>2, <1>6 DEF HookStates
  <2> HIDE DEF s
  <2>2. HookSound(s) /\ HookExact(s)
      BY <2>1 DEF HookSound, HookExact
  <2>3. change
      BY <1>1, <1>4, <1>6 DEF HookExact
  <2>4. QED BY <1>1, <2>1, <2>2, <2>3, HookTurn
<1>7. QED BY <1>5, <1>6

LEMMA HookKeeps ==
    ASSUME ComponentsInv, UNCHANGED view, NEW t \in team, Hook(t)
    PROVE  ComponentsInv'
<1> DEFINE h == cc[t].high
           l == cc[t].low
           s == [cc[t] EXCEPT !.pc = "own", !.edges = Tail(@)]
<1>1. /\ loop = "hook" /\ cc[t].edges # <<>> /\ cc[t].pc = "hook"
      /\ cc' = [cc EXCEPT ![t] = s]
      /\ place' = place /\ comp' = [comp EXCEPT ![h] = l] /\ change' = TRUE /\ loop' = loop
    BY DEF Hook, Hooking, Become, Low, Changed
<1>2. cc[t] \in HookStates /\ Tail(cc[t].edges) \in Seq(Links)
    BY <1>1, EdgeInHand
<1>3. HookSound(cc[t])
    BY <1>1 DEF ComponentsInv, LabelsKept
<1>4. h \in Vertices /\ l \in Vertices /\ l < h /\ l \in Component(h)
    BY <1>1, <1>2, <1>3 DEF HookSound, HookStates
<1>5. s \in HookStates /\ s.pc = "own"
    BY <1>2 DEF HookStates
<1> HIDE DEF s, h, l
<1>6. /\ GraphTyped' = GraphTyped /\ Vertices' = Vertices /\ Links' = Links
      /\ HookStates' = HookStates /\ \A u : Component(u)' = Component(u)
    BY <1>1, Unmoved
<1>7. team' = team
    BY DEF view
<1>8. cc \in [team -> HookStates] /\ cc' \in [team -> HookStates] /\ comp \in [Vertices -> Vertices]
    BY <1>1, <1>5 DEF ComponentsInv, ComponentsTyped
<1>9. GraphTyped' /\ ComponentsTyped'
    BY <1>1, <1>4, <1>6, <1>7, <1>8 DEF ComponentsInv, ComponentsTyped
<1>10. LabelsKept'
  <2>1. \A v \in Vertices : comp'[v] <= v /\ comp'[v] \in Component(v)
    <3>1. TAKE v \in Vertices
    <3>2. comp[v] <= v /\ comp[v] \in Component(v)
        BY DEF ComponentsInv, LabelsKept
    <3>3. CASE v = h
      <4>1. comp'[v] = l /\ l \in Nat /\ h \in Nat
          BY <1>1, <1>4, <1>8, <3>3, GraphFacts DEF ComponentsInv
      <4>2. QED BY <1>4, <3>3, <4>1
    <3>4. CASE v # h
        BY <1>1, <1>8, <3>2, <3>4
    <3>5. QED BY <3>3, <3>4
  <2>2. \A x \in team : HookSound(cc'[x])
    <3>1. TAKE x \in team
    <3>2. CASE x = t
        BY <1>1, <1>5, <1>8, <3>2 DEF HookSound
    <3>3. CASE x # t
        BY <1>1, <1>8, <3>3 DEF ComponentsInv, LabelsKept
    <3>4. QED BY <3>2, <3>3
  <2>3. \A r : HookSound(r)' = HookSound(r)
      BY <1>6 DEF HookSound
  <2>4. QED BY <1>1, <1>6, <1>7, <2>1, <2>2, <2>3 DEF LabelsKept
<1>11. HookingExact' /\ CompressingExact' /\ NothingHooked' /\ DoneExact'
    BY <1>1 DEF HookingExact, CompressingExact, NothingHooked, DoneExact
<1>12. QED BY <1>9, <1>10, <1>11 DEF ComponentsInv

LEMMA EndHookKeeps ==
    ASSUME ComponentsInv, UNCHANGED view, EndHook
    PROVE  ComponentsInv'
<1>1. /\ loop = "hook" /\ loop' = "compress" /\ cc' = [t \in team |-> AtVertices(t)]
      /\ place' = place /\ comp' = comp /\ change' = change
      /\ \A t \in team : cc[t].edges = <<>>
    BY DEF EndHook
<1>2. /\ GraphTyped' = GraphTyped /\ Vertices' = Vertices /\ Links' = Links
      /\ CompressStates' = CompressStates /\ \A u : Component(u)' = Component(u)
    BY <1>1, Unmoved
<1>3. team' = team
    BY DEF view
<1>4. GraphTyped /\ 0 \in Vertices
    BY GraphFacts DEF ComponentsInv
<1>5. \A t \in team : /\ cc'[t] = AtVertices(t) /\ AtVertices(t) \in CompressStates
                      /\ cc'[t].pc = "test" /\ cc'[t].todo = InOrder(Share(t, N))
    BY <1>1, <1>4, VerticesCover DEF AtVertices, CompressStates
<1>6. GraphTyped' /\ ComponentsTyped'
  <2>1. cc' \in [team -> CompressStates]
      BY <1>1, <1>5
  <2>2. QED BY <1>1, <1>2, <1>3, <1>4, <2>1 DEF ComponentsInv, ComponentsTyped
<1>7. LabelsKept'
  <2>1. \A v \in Vertices : comp[v] <= v /\ comp[v] \in Component(v)
      BY DEF ComponentsInv, LabelsKept
  <2>2. \A t \in team : JumpSound(cc[t])'
      BY <1>5 DEF JumpSound
  <2>3. QED BY <1>1, <1>2, <1>3, <2>1, <2>2 DEF LabelsKept
<1>8. HookingExact' /\ DoneExact'
    BY <1>1 DEF HookingExact, DoneExact
<1>9. CompressingExact'
  <2>1. \A v \in Vertices : \E t \in team : v \in ToSet(cc'[t].todo)
      BY <1>4, <1>5, VerticesCover
  <2>2. \A t \in team : JumpExact(cc[t])'
      BY <1>5 DEF JumpExact
  <2>3. \A t : ToSet(cc[t].todo)' = ToSet(cc'[t].todo)
      BY DEF ToSet
  <2>4. QED BY <1>2, <1>3, <2>1, <2>2, <2>3 DEF CompressingExact
<1>10. NothingHooked'
  <2>1. SUFFICES ASSUME ~change
                 PROVE  NothingHooked'
      BY <1>1 DEF NothingHooked
  <2>2. /\ \A v \in Vertices : Compressed(v)
        /\ \A e \in Links : Agree(e) \/ \E x \in team : e \in ToSet(cc[x].edges)
      BY <1>1, <2>1 DEF ComponentsInv, HookingExact
  <2>3. \A x \in team : ToSet(cc[x].edges) = {}
      BY <1>1 DEF ToSet
  <2>4. (\A v : Compressed(v)' = Compressed(v)) /\ \A e : Agree(e)' = Agree(e)
      BY <1>1 DEF Compressed, Agree
  <2>5. QED BY <1>2, <1>3, <1>5, <2>2, <2>3, <2>4 DEF NothingHooked
<1>11. QED BY <1>6, <1>7, <1>8, <1>9, <1>10 DEF ComponentsInv

\* The vertex that a thread has in hand.
LEMMA VertexInHand ==
    ASSUME ComponentsInv, loop = "compress", NEW t \in team, cc[t].todo # <<>>
    PROVE  /\ cc[t] \in CompressStates /\ Placed
           /\ Head(cc[t].todo) \in Vertices /\ Tail(cc[t].todo) \in Seq(Vertices)
           /\ Head(cc[t].todo) \in ToSet(cc[t].todo)
           /\ \A v \in ToSet(cc[t].todo) : v = Head(cc[t].todo) \/ v \in ToSet(Tail(cc[t].todo))
           /\ JumpSound(cc[t]) /\ JumpExact(cc[t])
<1>1. cc[t] \in CompressStates /\ Placed
    BY DEF ComponentsInv, ComponentsTyped, Placed
<1>2. JumpSound(cc[t]) /\ JumpExact(cc[t])
    BY DEF ComponentsInv, LabelsKept, CompressingExact
<1> DEFINE s == cc[t].todo
<1>3. s \in Seq(Vertices) /\ s # <<>>
    BY <1>1 DEF CompressStates
<1>4. cc[t].todo = s
    OBVIOUS
<1> HIDE DEF s
<1>5. /\ Head(s) \in Vertices /\ Tail(s) \in Seq(Vertices) /\ Head(s) \in ToSet(s)
      /\ \A x \in ToSet(s) : x = Head(s) \/ x \in ToSet(Tail(s))
    BY ONLY <1>3, HeadAndRest
<1>6. QED BY <1>1, <1>2, <1>4, <1>5

\* The numbers of the vertices are numbers.
LEMMA VerticesAreNumbers ==
    ASSUME GraphTyped
    PROVE  \A v \in Vertices : v \in Nat
<1>1. N \in Nat /\ Vertices = 0 .. (N - 1)
    BY GraphFacts
<1>2. QED BY <1>1

\* A thread takes a step in the loop that compresses.
LEMMA CompressTurn ==
    ASSUME ComponentsInv, UNCHANGED view, place' = place, loop = "compress", loop' = loop,
           change' = change, NEW t \in team, NEW s \in CompressStates, NEW m \in Vertices, NEW r \in Vertices,
           cc' = [cc EXCEPT ![t] = s], comp' = [comp EXCEPT ![m] = r],
           r # comp[m] => /\ change /\ comp[m] < m /\ r < m /\ r \in Component(m)
                          /\ m \in ToSet(s.todo),
           JumpSound(s), JumpExact(s)',
           ~change /\ s.todo # <<>> => s.pc = "test",
           \A v \in ToSet(cc[t].todo) : Compressed(v) \/ v \in ToSet(s.todo)
    PROVE  ComponentsInv'
<1>1. /\ GraphTyped' = GraphTyped /\ Vertices' = Vertices /\ Links' = Links
      /\ CompressStates' = CompressStates /\ \A u : Component(u)' = Component(u)
    BY Unmoved
<1>2. team' = team
    BY DEF view
<1>3. cc \in [team -> CompressStates] /\ cc' \in [team -> CompressStates] /\ comp \in [Vertices -> Vertices]
    BY DEF ComponentsInv, ComponentsTyped
<1>4. cc'[t] = s /\ \A x \in team : x # t => cc'[x] = cc[x]
    BY <1>3
<1>5. /\ GraphTyped' /\ ComponentsTyped'
    BY <1>1, <1>2, <1>3 DEF ComponentsInv, ComponentsTyped
<1>6. /\ \A v \in Vertices : v \in Nat /\ comp[v] \in Vertices /\ comp[v] <= v /\ comp[v] \in Component(v)
      /\ \A x \in team : JumpSound(cc[x]) /\ JumpExact(cc[x])
      /\ \A v \in Vertices : Compressed(v) \/ \E x \in team : v \in ToSet(cc[x].todo)
    BY <1>3, VerticesAreNumbers DEF ComponentsInv, LabelsKept, CompressingExact
<1>7. \A v \in Vertices : comp'[v] = comp[v] \/ (v = m /\ comp'[v] = r /\ r # comp[m])
    BY <1>3
<1>8. LabelsKept'
  <2>1. \A v \in Vertices : comp'[v] <= v /\ comp'[v] \in Component(v)
      BY <1>6, <1>7
  <2>2. \A x \in team : JumpSound(cc'[x])
      BY <1>4, <1>6
  <2>3. \A y : JumpSound(y)' = JumpSound(y)
      BY <1>1 DEF JumpSound
  <2>4. QED BY <1>1, <1>2, <2>1, <2>2, <2>3 DEF LabelsKept
<1>9. CompressingExact'
  <2>1. ASSUME NEW v \in Vertices
        PROVE  Compressed(v)' \/ \E x \in team : v \in ToSet(cc'[x].todo)
    <3>1. CASE v = m /\ r # comp[m]
      <4>1. QED BY <1>4, <3>1
    <3>2. CASE ~(v = m /\ r # comp[m])
      <4>1. comp'[v] = comp[v]
          BY <1>7, <3>2
      <4>2. CASE Compressed(v)
        <5>1. comp[comp[v]] = comp[v] /\ comp[v] \in Vertices
            BY <1>6, <4>2 DEF Compressed
        <5>2. comp[v] = m => r = comp[m]
            BY <1>6, <5>1
        <5>3. comp'[comp[v]] = comp[comp[v]]
            BY <1>7, <5>1, <5>2
        <5>4. QED BY <4>1, <5>1, <5>3 DEF Compressed
      <4>3. CASE ~Compressed(v)
        <5>1. PICK x \in team : v \in ToSet(cc[x].todo)
            BY <1>6, <4>3
        <5>2. CASE x = t
            BY <1>4, <4>3, <5>1, <5>2
        <5>3. CASE x # t
            BY <1>4, <5>1, <5>3
        <5>4. QED BY <5>2, <5>3
      <4>4. QED BY <4>2, <4>3
    <3>3. QED BY <3>1, <3>2
  <2>2. ASSUME NEW x \in team
        PROVE  JumpExact(cc[x])'
    <3>1. CASE x = t
        BY <1>4, <3>1 DEF JumpExact
    <3>2. CASE x # t
      <4>1. cc'[x] = cc[x] /\ cc[x] \in CompressStates
          BY <1>3, <1>4, <3>2
      <4>2. SUFFICES ASSUME cc[x].todo # <<>>
                     PROVE  /\ cc[x].pc \in {"load", "jump"} => comp'[Head(cc[x].todo)] < Head(cc[x].todo)
                            /\ cc[x].pc = "jump" => cc[x].read < Head(cc[x].todo)
          BY <4>1 DEF JumpExact
      <4>3. JumpExact(cc[x]) /\ Head(cc[x].todo) \in Vertices
          BY <1>6, <4>2, VertexInHand
      <4>4. QED BY <1>6, <1>7, <4>2, <4>3 DEF JumpExact
    <3>3. QED BY <3>1, <3>2
  <2>3. \A x : ToSet(cc[x].todo)' = ToSet(cc'[x].todo)
      BY DEF ToSet
  <2>4. QED BY <1>1, <1>2, <2>1, <2>2, <2>3 DEF CompressingExact
<1>10. NothingHooked'
  <2>1. SUFFICES ASSUME ~change
                 PROVE  NothingHooked'
      BY DEF NothingHooked
  <2>2. /\ \A v \in Vertices : Compressed(v)
        /\ \A e \in Links : Agree(e)
        /\ \A x \in team : cc[x].todo # <<>> => cc[x].pc = "test"
      BY <2>1 DEF ComponentsInv, NothingHooked
  <2>3. comp' = comp
      BY <1>3, <2>1
  <2>4. (\A v : Compressed(v)' = Compressed(v)) /\ \A e : Agree(e)' = Agree(e)
      BY <2>3 DEF Compressed, Agree
  <2>5. \A x \in team : cc'[x].todo # <<>> => cc'[x].pc = "test"
      BY <1>4, <2>1, <2>2
  <2>6. QED BY <1>1, <1>2, <2>2, <2>4, <2>5 DEF NothingHooked
<1>11. HookingExact' /\ DoneExact'
    BY DEF HookingExact, DoneExact
<1>12. QED BY <1>5, <1>8, <1>9, <1>10, <1>11 DEF ComponentsInv

LEMMA TestJumpKeeps ==
    ASSUME ComponentsInv, UNCHANGED view, NEW t \in team, TestJump(t)
    PROVE  ComponentsInv'
<1>1. PICK n : n = Head(cc[t].todo)
    OBVIOUS
<1>2. PICK s : s = IF comp[n] = comp[comp[n]] THEN [cc[t] EXCEPT !.todo = Tail(@)]
                   ELSE [cc[t] EXCEPT !.pc = "load"]
    OBVIOUS
<1>3. /\ loop = "compress" /\ cc[t].todo # <<>> /\ cc[t].pc = "test"
      /\ cc' = [cc EXCEPT ![t] = s]
      /\ place' = place /\ comp' = comp /\ change' = change /\ loop' = loop
    BY <1>1, <1>2 DEF TestJump, Compressing, Become
<1>4. /\ cc[t] \in CompressStates /\ n \in Vertices /\ Tail(cc[t].todo) \in Seq(Vertices)
      /\ \A v \in ToSet(cc[t].todo) : v = n \/ v \in ToSet(Tail(cc[t].todo))
      /\ GraphTyped
    BY <1>1, <1>3, VertexInHand DEF Placed
<1>5. comp \in [Vertices -> Vertices] /\ comp[n] <= n /\ n \in Nat /\ comp[n] \in Nat
  <2>1. comp \in [Vertices -> Vertices] /\ comp[n] <= n
      BY <1>4 DEF ComponentsInv, ComponentsTyped, LabelsKept
  <2>2. QED BY <1>4, <2>1, VerticesAreNumbers
<1>6. comp' = [comp EXCEPT ![n] = comp[n]] /\ comp[n] \in Vertices
    BY <1>3, <1>4, <1>5
<1>7. CASE comp[n] = comp[comp[n]]
  <2>1. s \in CompressStates /\ s.pc = "test" /\ s.todo = Tail(cc[t].todo)
      BY <1>2, <1>3, <1>4, <1>7 DEF CompressStates
  <2>2. \A v \in ToSet(cc[t].todo) : Compressed(v) \/ v \in ToSet(s.todo)
      BY <1>4, <1>7, <2>1 DEF Compressed
  <2>3. JumpSound(s) /\ JumpExact(s)'
      BY <2>1 DEF JumpSound, JumpExact
  <2>4. QED BY <1>3, <1>4, <1>6, <2>1, <2>2, <2>3, CompressTurn
<1>8. CASE comp[n] # comp[comp[n]]
  <2>1. s \in CompressStates /\ s.pc = "load" /\ s.todo = cc[t].todo
      BY <1>2, <1>3, <1>4, <1>8 DEF CompressStates
  <2>2. comp[n] < n
      BY <1>5, <1>8
  <2>3. change
    <3>1. ~Compressed(n)
        BY <1>8 DEF Compressed
    <3>2. QED BY <1>3, <1>4, <3>1 DEF ComponentsInv, NothingHooked
  <2>4. JumpSound(s) /\ JumpExact(s)'
      BY <1>1, <1>3, <2>1, <2>2 DEF JumpSound, JumpExact
  <2>5. \A v \in ToSet(cc[t].todo) : v \in ToSet(s.todo)
      BY <2>1
  <2>6. QED BY <1>3, <1>4, <1>6, <2>1, <2>3, <2>4, <2>5, CompressTurn
<1>9. QED BY <1>7, <1>8

LEMMA LoadJumpKeeps ==
    ASSUME ComponentsInv, UNCHANGED view, NEW t \in team, LoadJump(t)
    PROVE  ComponentsInv'
<1>1. PICK n : n = Head(cc[t].todo)
    OBVIOUS
<1>2. PICK s : s = [cc[t] EXCEPT !.pc = "jump", !.read = comp[comp[n]]]
    OBVIOUS
<1>3. /\ loop = "compress" /\ cc[t].todo # <<>> /\ cc[t].pc = "load"
      /\ cc' = [cc EXCEPT ![t] = s]
      /\ place' = place /\ comp' = comp /\ change' = change /\ loop' = loop
    BY <1>1, <1>2 DEF LoadJump, Compressing, Become
<1>4. cc[t] \in CompressStates /\ n \in Vertices /\ JumpExact(cc[t]) /\ Placed
    BY <1>1, <1>3, VertexInHand
<1>5. /\ comp \in [Vertices -> Vertices]
      /\ \A v \in Vertices : v \in Nat /\ comp[v] <= v /\ comp[v] \in Component(v)
    BY VerticesAreNumbers DEF ComponentsInv, ComponentsTyped, LabelsKept
<1>6. comp' = [comp EXCEPT ![n] = comp[n]] /\ comp[n] \in Vertices /\ comp[comp[n]] \in Vertices
    BY <1>3, <1>4, <1>5
<1>7. comp[n] < n
    BY <1>1, <1>3, <1>4 DEF JumpExact
<1>8. comp[comp[n]] < n /\ comp[comp[n]] \in Component(n)
  <2>1. comp[comp[n]] <= comp[n] /\ comp[comp[n]] \in Component(comp[n]) /\ comp[n] \in Component(n)
      BY <1>4, <1>5, <1>6
  <2>2. comp[comp[n]] \in Nat /\ comp[n] \in Nat /\ n \in Nat
      BY <1>4, <1>5, <1>6
  <2>3. comp[comp[n]] \in Component(n)
      BY <1>4, <1>6, <2>1, ComponentClasses
  <2>4. QED BY <1>7, <2>1, <2>2, <2>3
<1>9. s \in CompressStates /\ s.pc = "jump" /\ s.todo = cc[t].todo /\ s.read = comp[comp[n]]
    BY <1>2, <1>4, <1>6 DEF CompressStates
<1>10. change
    BY <1>3 DEF ComponentsInv, NothingHooked
<1>11. JumpSound(s) /\ JumpExact(s)'
  <2>1. comp[comp[n]] <= n
      BY <1>4, <1>5, <1>6, <1>8
  <2>2. QED BY <1>1, <1>3, <1>7, <1>8, <1>9, <2>1 DEF JumpSound, JumpExact
<1>12. \A v \in ToSet(cc[t].todo) : v \in ToSet(s.todo)
    BY <1>9
<1>13. QED BY <1>3, <1>4, <1>6, <1>9, <1>10, <1>11, <1>12, CompressTurn

LEMMA JumpKeeps ==
    ASSUME ComponentsInv, UNCHANGED view, NEW t \in team, Jump(t)
    PROVE  ComponentsInv'
<1>1. PICK n : n = Head(cc[t].todo)
    OBVIOUS
<1>2. PICK s : s = [cc[t] EXCEPT !.pc = "test"]
    OBVIOUS
<1>3. PICK r : r = cc[t].read
    OBVIOUS
<1>4. /\ loop = "compress" /\ cc[t].todo # <<>> /\ cc[t].pc = "jump"
      /\ cc' = [cc EXCEPT ![t] = s]
      /\ place' = place /\ comp' = [comp EXCEPT ![n] = r] /\ change' = change /\ loop' = loop
    BY <1>1, <1>2, <1>3 DEF Jump, Compressing, Become
<1>5. /\ cc[t] \in CompressStates /\ n \in Vertices /\ JumpExact(cc[t]) /\ JumpSound(cc[t])
      /\ n \in ToSet(cc[t].todo)
    BY <1>1, <1>4, VertexInHand
<1>6. comp[n] < n /\ r < n /\ r \in Component(n) /\ r \in Vertices
    BY <1>1, <1>3, <1>4, <1>5 DEF JumpExact, JumpSound, CompressStates
<1>7. s \in CompressStates /\ s.pc = "test" /\ s.todo = cc[t].todo
    BY <1>2, <1>5 DEF CompressStates
<1>8. change
    BY <1>4 DEF ComponentsInv, NothingHooked
<1>9. JumpSound(s) /\ JumpExact(s)'
    BY <1>7 DEF JumpSound, JumpExact
<1>10. (\A v \in ToSet(cc[t].todo) : v \in ToSet(s.todo)) /\ n \in ToSet(s.todo)
    BY <1>5, <1>7
<1>11. QED BY <1>4, <1>5, <1>6, <1>7, <1>8, <1>9, <1>10, CompressTurn

LEMMA EndCompressKeeps ==
    ASSUME ComponentsInv, UNCHANGED view, EndCompress
    PROVE  ComponentsInv'
<1>1. /\ loop = "compress" /\ \A t \in team : cc[t].todo = <<>>
      /\ change' = FALSE /\ place' = place /\ comp' = comp
      /\ IF change THEN loop' = "hook" /\ cc' = [t \in team |-> AtEdges(t)]
                   ELSE loop' = "done" /\ cc' = cc
    BY DEF EndCompress, Reset
<1>2. /\ GraphTyped' = GraphTyped /\ Vertices' = Vertices /\ Links' = Links
      /\ HookStates' = HookStates /\ CompressStates' = CompressStates /\ \A u : Component(u)' = Component(u)
    BY <1>1, Unmoved
<1>3. team' = team
    BY DEF view
<1>4. Placed /\ 0 \in Vertices
    BY GraphFacts DEF ComponentsInv, ComponentsTyped, Placed
<1>5. \A t \in team : ToSet(cc[t].todo) = {}
    BY <1>1 DEF ToSet
<1>6. \A v \in Vertices : Compressed(v) /\ comp[v] <= v /\ comp[v] \in Component(v)
    BY <1>1, <1>5 DEF ComponentsInv, CompressingExact, LabelsKept
<1>7. (\A v : Compressed(v)' = Compressed(v)) /\ \A e : Agree(e)' = Agree(e)
    BY <1>1 DEF Compressed, Agree
<1>8. CASE change
  <2>1. loop' = "hook" /\ cc' = [t \in team |-> AtEdges(t)]
      BY <1>1, <1>8
  <2>2. \A t \in team : /\ cc'[t] = AtEdges(t) /\ AtEdges(t) \in HookStates
                        /\ cc'[t].pc = "own" /\ cc'[t].edges = Edges(t)
      BY <1>4, <2>1, EdgesCover DEF AtEdges, HookStates
  <2>3. GraphTyped' /\ ComponentsTyped'
    <3>1. cc' \in [team -> HookStates]
        BY <2>1, <2>2
    <3>2. QED BY <1>1, <1>2, <1>3, <2>1, <3>1 DEF ComponentsInv, ComponentsTyped
  <2>4. LabelsKept'
    <3>1. \A t \in team : HookSound(cc[t])'
        BY <2>2 DEF HookSound
    <3>2. QED BY <1>1, <1>2, <1>3, <1>6, <2>1, <3>1 DEF LabelsKept
  <2>5. HookingExact'
    <3>1. \A t \in team : HookExact(cc[t])'
        BY <2>2 DEF HookExact
    <3>2. \A e \in Links : \E t \in team : e \in ToSet(cc'[t].edges)
        BY <1>4, <2>2, EdgesCover
    <3>3. \A t : ToSet(cc[t].edges)' = ToSet(cc'[t].edges)
        BY DEF ToSet
    <3>4. QED BY <1>2, <1>3, <1>6, <1>7, <3>1, <3>2, <3>3 DEF HookingExact
  <2>6. CompressingExact' /\ NothingHooked' /\ DoneExact'
      BY <2>1 DEF CompressingExact, NothingHooked, DoneExact
  <2>7. QED BY <2>3, <2>4, <2>5, <2>6 DEF ComponentsInv
<1>9. CASE ~change
  <2>1. loop' = "done" /\ cc' = cc
      BY <1>1, <1>9
  <2>2. GraphTyped' /\ ComponentsTyped'
      BY <1>1, <1>2, <1>3, <2>1 DEF ComponentsInv, ComponentsTyped
  <2>3. LabelsKept'
    <3>1. \A t \in team : JumpSound(cc[t])'
        BY <1>1, <2>1 DEF JumpSound
    <3>2. QED BY <1>1, <1>2, <1>3, <1>6, <2>1, <3>1 DEF LabelsKept
  <2>4. HookingExact' /\ CompressingExact' /\ NothingHooked'
      BY <2>1 DEF HookingExact, CompressingExact, NothingHooked
  <2>5. DoneExact'
      BY <1>1, <1>2, <1>7, <1>9 DEF DoneExact, ComponentsInv, NothingHooked
  <2>6. QED BY <2>2, <2>3, <2>4, <2>5 DEF ComponentsInv
<1>10. QED BY <1>8, <1>9

LEMMA ComponentsStart ==
    ASSUME Init
    PROVE  ComponentsInv
<1>1. /\ adj \in GraphSet /\ team \in Teams /\ DOMAIN place = Vertices /\ place \in Places
      /\ comp = [n \in Vertices |-> n] /\ change = FALSE /\ loop = "hook"
      /\ cc = [t \in team |-> AtEdges(t)]
    BY DEF Init, ComponentsInit
<1>2. GraphTyped
    BY <1>1 DEF GraphTyped
<1>3. Placed
    BY <1>1, <1>2, ComponentsAssumption DEF Placed
<1>4. 0 \in Vertices /\ \A v \in Vertices : v \in Nat
    BY <1>2, GraphFacts, VerticesAreNumbers
<1>5. \A t \in team : /\ cc[t] = AtEdges(t) /\ AtEdges(t) \in HookStates
                      /\ cc[t].pc = "own" /\ cc[t].edges = Edges(t)
    BY <1>1, <1>3, <1>4, EdgesCover DEF AtEdges, HookStates
<1>6. ComponentsTyped
  <2>1. cc \in [team -> HookStates]
      BY <1>1, <1>5
  <2>2. QED BY <1>1, <1>3, <2>1 DEF ComponentsTyped, Placed
<1>7. LabelsKept
  <2>1. \A v \in Vertices : v <= v /\ comp[v] = v /\ v \in Component(v)
      BY <1>1, <1>3, <1>4, ComponentLeast
  <2>2. QED BY <1>1, <1>5, <2>1 DEF LabelsKept, HookSound
<1>8. HookingExact
  <2>1. \A v \in Vertices : Compressed(v)
      BY <1>1 DEF Compressed
  <2>2. \A e \in Links : \E t \in team : e \in ToSet(cc[t].edges)
      BY <1>3, <1>5, EdgesCover
  <2>3. \A t \in team : HookExact(cc[t])
      BY <1>5 DEF HookExact
  <2>4. QED BY <2>1, <2>2, <2>3 DEF HookingExact
<1>9. CompressingExact /\ NothingHooked /\ DoneExact
    BY <1>1 DEF CompressingExact, NothingHooked, DoneExact
<1>10. QED BY <1>2, <1>6, <1>7, <1>8, <1>9 DEF ComponentsInv

\* A step leaves the graph alone, and is one of a kernel that leaves the others alone.
LEMMA StepKinds ==
    ASSUME [Next]_vars
    PROVE  /\ UNCHANGED view
           /\ UNCHANGED components \/ ComponentsNext
           /\ UNCHANGED bfs \/ BfsNext
           /\ UNCHANGED sssp \/ (kernel = "sssp" /\ SsspNext)
<1>1. CASE UNCHANGED vars
    BY <1>1 DEF vars
<1>2. CASE Next
  <2>1. CASE Runs("bfs") /\ BfsNext
      BY <2>1 DEF Runs
  <2>2. CASE Runs("components") /\ ComponentsNext
      BY <2>2 DEF Runs
  <2>3. CASE Runs("sssp") /\ SsspNext
      BY <2>3 DEF Runs
  <2>4. CASE Runs("triangles") /\ Count
      BY <2>4 DEF Runs
  <2>5. CASE Return
      BY <2>5 DEF Return, vars
  <2>6. QED BY <1>2, <2>1, <2>2, <2>3, <2>4, <2>5 DEF Next, Step
<1>3. QED BY <1>1, <1>2

LEMMA ComponentsKept ==
    ASSUME ComponentsInv, [Next]_vars
    PROVE  ComponentsInv'
<1>1. UNCHANGED view /\ (UNCHANGED components \/ ComponentsNext)
    BY StepKinds
<1>2. CASE UNCHANGED components
  <2>1. UNCHANGED <<place, comp, change, loop, cc>>
      BY <1>2 DEF components
  <2>2. /\ GraphTyped' = GraphTyped /\ Vertices' = Vertices /\ Links' = Links
        /\ HookStates' = HookStates /\ CompressStates' = CompressStates /\ \A u : Component(u)' = Component(u)
      BY <1>1, <2>1, Unmoved
  <2>3. team' = team
      BY <1>1 DEF view
  <2>4. GraphTyped' /\ ComponentsTyped'
      BY <2>1, <2>2, <2>3 DEF ComponentsInv, ComponentsTyped
  <2>5. LabelsKept'
    <3>1. \A r : HookSound(r)' = HookSound(r) /\ JumpSound(r)' = JumpSound(r)
        BY <2>2 DEF HookSound, JumpSound
    <3>2. QED BY <2>1, <2>2, <2>3, <3>1 DEF ComponentsInv, LabelsKept
  <2>6. /\ \A v : Compressed(v)' = Compressed(v)
        /\ \A e : Agree(e)' = Agree(e)
        /\ \A r : HookExact(r)' = HookExact(r) /\ JumpExact(r)' = JumpExact(r)
        /\ \A t : ToSet(cc[t].edges)' = ToSet(cc[t].edges) /\ ToSet(cc[t].todo)' = ToSet(cc[t].todo)
      BY <2>1 DEF Compressed, Agree, HookExact, JumpExact, IsRoot, ToSet
  <2>7. HookingExact'
      BY <2>1, <2>2, <2>3, <2>6 DEF ComponentsInv, HookingExact
  <2>8. CompressingExact' /\ NothingHooked' /\ DoneExact'
      BY <2>1, <2>2, <2>3, <2>6 DEF ComponentsInv, CompressingExact, NothingHooked, DoneExact
  <2>9. QED BY <2>4, <2>5, <2>7, <2>8 DEF ComponentsInv
<1>3. CASE ComponentsNext
  <2>1. CASE EndHook
      BY <1>1, <2>1, EndHookKeeps
  <2>2. CASE EndCompress
      BY <1>1, <2>2, EndCompressKeeps
  <2>3. ASSUME NEW t \in team, ComponentsStep(t)
        PROVE  ComponentsInv'
    <3>1. CASE ReadOwn(t)
        BY <1>1, <3>1, ReadOwnKeeps
    <3>2. CASE ReadOther(t)
        BY <1>1, <3>2, ReadOtherKeeps
    <3>3. CASE TestRoot(t)
        BY <1>1, <3>3, TestRootKeeps
    <3>4. CASE Hook(t)
        BY <1>1, <3>4, HookKeeps
    <3>5. CASE TestJump(t)
        BY <1>1, <3>5, TestJumpKeeps
    <3>6. CASE LoadJump(t)
        BY <1>1, <3>6, LoadJumpKeeps
    <3>7. CASE Jump(t)
        BY <1>1, <3>7, JumpKeeps
    <3>8. QED BY <2>3, <3>1, <3>2, <3>3, <3>4, <3>5, <3>6, <3>7 DEF ComponentsStep
  <2>4. QED BY <1>3, <2>1, <2>2, <2>3 DEF ComponentsNext
<1>4. QED BY <1>1, <1>2, <1>3

\* Labels that agree along every edge agree in a component, so that each is the smallest.
LEMMA ComponentsAgree ==
    ASSUME ComponentsInv
    PROVE  ComponentsCorrect
<1>1. Placed /\ comp \in [Vertices -> Vertices] /\ \A v \in Vertices : comp[v] <= v /\ comp[v] \in Component(v)
    BY DEF ComponentsInv, ComponentsTyped, LabelsKept, Placed
<1>2. LabelsSound
    BY <1>1 DEF LabelsSound
<1>3. ASSUME loop = "done", NEW v \in Vertices
      PROVE  comp[v] = Min(Component(v))
  <2>1. \A e \in Links : Agree(e)
      BY <1>3 DEF ComponentsInv, DoneExact
  <2> DEFINE A == {x \in Vertices : comp[x] = comp[v]}
  <2>2. v \in A /\ A \in SUBSET Vertices
      OBVIOUS
  <2>3. ASSUME NEW x \in A, NEW y \in Linked(x)
        PROVE  y \in A
    <3>1. x \in Vertices /\ y \in Vertices
        BY <1>1, <2>3, LinkedFacts
    <3>2. <<x, y>> \in Links \/ <<y, x>> \in Links
        BY <2>3, <3>1 DEF Linked, Links
    <3>3. comp[x] = comp[y]
        BY <2>1, <3>2 DEF Agree
    <3>4. QED BY <2>3, <3>1, <3>3
  <2>4. \A x \in A : Linked(x) \in SUBSET A
      BY <2>3
  <2> HIDE DEF A
  <2>5. Component(v) \in SUBSET A /\ v \in Component(v) /\ Component(v) \in SUBSET Vertices
      BY <1>1, <2>2, <2>4, ComponentLeast
  <2>6. \A x \in Vertices : x \in Nat
      BY VerticesAreNumbers DEF ComponentsInv
  <2> DEFINE m == Min(Component(v))
  <2>7. m \in Component(v) /\ \A x \in Component(v) : m <= x
    <3>1. Component(v) \in SUBSET Nat /\ Component(v) # {}
        BY <2>5, <2>6
    <3>2. QED BY <3>1, MinIsLeast
  <2> HIDE DEF m
  <2>8. comp[m] = comp[v] /\ comp[m] <= m /\ m \in Vertices
      BY <1>1, <2>5, <2>7 DEF A
  <2>9. m <= comp[v] /\ comp[v] <= m
      BY <1>1, <2>7, <2>8
  <2>10. m \in Nat /\ comp[v] \in Nat
      BY <1>1, <2>6, <2>8
  <2>11. m = comp[v]
      BY <2>9, <2>10
  <2>12. QED BY <2>11 DEF m
<1>4. QED BY <1>2, <1>3 DEF ComponentsCorrect, ComponentsExact

\* Whatever the graph, and however the threads of a team race on the labels, a label is
\* always a smaller or equal number of the same component, and at the end the smallest
\* (ShiloachVishkin): a hook that another overwrote set `change' all the same, so that an
\* iteration that leaves `change' alone has found every edge to join equal labels.
THEOREM ComponentsAreRight == Spec => []ComponentsCorrect
<1>1. Init => ComponentsInv
    BY ComponentsStart
<1>2. ComponentsInv /\ [Next]_vars => ComponentsInv'
    BY ComponentsKept
<1>3. ComponentsInv => ComponentsCorrect
    BY ComponentsAgree
<1>4. QED BY <1>1, <1>2, <1>3, PTL DEF Spec

-----------------------------------------------------------------------------
(* Breadth-first search: the arrays and the tree, for any team. *)

Visited(v) == parent[v] # NoParent

\* What a thread knows in a parallel region.
SearchStates ==
    [pc : {"rest", "take", "look", "swap", "fetch", "add", "copy", "load", "compare", "store", "gather"},
     todo : Seq(Nat), from : Vertices, v : Vertices \cup {NoParent}, word : SUBSET Vertices,
     buffer : Seq(Vertices), base : Nat]

\* What it has to do is of the region it is in.
AtWork(s) ==
    /\ phase = "topdown" =>
          /\ s.pc \in {"take", "look", "swap", "fetch", "add", "copy", "rest"} /\ s.todo \in Seq(Vertices)
          /\ s.pc = "swap" => s.v \in Vertices \ {Source}
          /\ s.pc \in {"take", "look"} => s.v = NoParent
    /\ phase = "mark" =>
          /\ s.pc \in {"load", "compare", "store", "rest"}
          /\ s.todo \in Seq(window.first .. (window.last - 1))
          /\ s.pc \in {"compare", "store"} => s.todo # <<>>
    /\ phase = "collect" =>
          /\ s.pc \in {"gather", "fetch", "add", "copy", "rest"} /\ s.todo \in Seq(Vertices)
          /\ s.v = NoParent

WindowTyped ==
    /\ window \in [first : Nat, last : Nat] /\ in \in Nat
    /\ window.first <= window.last /\ window.last <= N /\ window.last <= in

SearchWorks ==
    /\ GraphTyped
    /\ phase \in {"choose", "topdown", "mark", "bottomup", "collect", "done", "lost"}
    /\ parent \in [Vertices -> Vertices \cup {NoParent}]
    /\ queue \in [0 .. (N - 1) -> Vertices \cup {Garbage}]
    /\ WindowTyped
    /\ front \in SUBSET Vertices /\ awake \in 0 .. N /\ next \in Nat
    /\ phase = "topdown" => window.first <= next /\ next <= window.last
    /\ wk \in [team -> SearchStates]
    /\ \A t \in team : AtWork(wk[t])

\* A slot that is written, or that a thread is about to write.
Covered(i) ==
    \/ i < N /\ queue[i] # Garbage
    \/ \E t \in team : wk[t].pc = "copy" /\ wk[t].base <= i /\ i < Added(t)

\* Where a thread writes, no slot below is left out, and none of the window is written again.
WritesOn(s) ==
    /\ s.pc = "add" => \A i \in 0 .. (s.base - 1) : Covered(i)
    /\ s.pc \in {"add", "copy"} => window.last <= s.base

SlotsCovered ==
    /\ \A i \in 0 .. (window.last - 1) : queue[i] # Garbage
    /\ phase \in {"choose", "mark", "bottomup", "done"} => in = window.last
    /\ Collecting => /\ \A i \in 0 .. (in - 1) : Covered(i)
                     /\ \A t \in team : WritesOn(wk[t])

\* What a thread holds was visited.
HoldsVisited(s) ==
    /\ Collecting => \A x \in ToSet(s.buffer) : Visited(x)
    /\ phase = "topdown" /\ s.pc \in {"fetch", "add", "copy"} /\ s.v # NoParent => Visited(s.v)
    /\ phase = "mark" => \A x \in s.word : Visited(x)
    /\ phase = "collect" => \A x \in ToSet(s.todo) : Visited(x)

VisitedOnly ==
    /\ parent[Source] = Source
    /\ \A i \in 0 .. (N - 1) : queue[i] # Garbage => Visited(queue[i])
    /\ \A v \in front : Visited(v)
    /\ \A t \in team : HoldsVisited(wk[t])

SearchInv == SearchWorks /\ SlotsCovered /\ VisitedOnly

LEMMA SearchUnmoved ==
    ASSUME UNCHANGED view
    PROVE  /\ GraphTyped' = GraphTyped /\ Vertices' = Vertices /\ N' = N /\ adj' = adj /\ team' = team
           /\ SearchStates' = SearchStates /\ \A v : Neighbours(v)' = Neighbours(v)
<1>1. Vertices' = Vertices /\ N' = N /\ adj' = adj /\ team' = team
    BY DEF view, Vertices, N
<1>2. GraphTyped' = GraphTyped
    BY <1>1 DEF GraphTyped
<1>3. SearchStates' = SearchStates
    BY <1>1 DEF SearchStates
<1>4. \A v : Neighbours(v)' = Neighbours(v)
    BY <1>1 DEF Neighbours, ToSet
<1>5. QED BY <1>1, <1>2, <1>3, <1>4

\* A thread takes a step within its region: what is of the right kind stays so, ...
LEMMA WorksTurn ==
    ASSUME SearchWorks, UNCHANGED <<view, phase, window, awake>>,
           NEW t \in team, NEW s \in SearchStates, wk' = [wk EXCEPT ![t] = s], AtWork(s),
           parent' \in [Vertices -> Vertices \cup {NoParent}],
           queue' \in [0 .. (N - 1) -> Vertices \cup {Garbage}],
           in' \in Nat, window.last <= in', front' \in SUBSET Vertices, next' \in Nat,
           phase = "topdown" => window.first <= next' /\ next' <= window.last
    PROVE  SearchWorks'
<1>1. /\ GraphTyped' = GraphTyped /\ Vertices' = Vertices /\ N' = N /\ team' = team
      /\ SearchStates' = SearchStates
    BY SearchUnmoved
<1>2. wk' \in [team -> SearchStates] /\ wk'[t] = s /\ \A x \in team : x # t => wk'[x] = wk[x]
    BY DEF SearchWorks
<1>3. \A r : AtWork(r)' = AtWork(r)
    BY <1>1 DEF AtWork
<1>4. \A x \in team : AtWork(wk'[x])
    BY <1>2 DEF SearchWorks
<1>5. \A x \in team : AtWork(wk[x])'
    BY <1>3, <1>4
<1>6. WindowTyped'
    BY <1>1 DEF SearchWorks, WindowTyped
<1>7. QED BY <1>1, <1>2, <1>5, <1>6 DEF SearchWorks

\* ... what is covered stays so, ...
LEMMA SlotsTurn ==
    ASSUME SearchWorks, SlotsCovered, UNCHANGED <<view, phase, window>>, Collecting,
           NEW t \in team, NEW s, wk' = [wk EXCEPT ![t] = s],
           \A i \in Nat : Covered(i) => Covered(i)',
           \A i \in 0 .. (N - 1) : queue[i] # Garbage => queue'[i] # Garbage,
           \A i \in 0 .. (in' - 1) : Covered(i)', WritesOn(s)'
    PROVE  SlotsCovered'
<1>1. N' = N /\ team' = team /\ N \in Nat
    BY SearchUnmoved, GraphFacts DEF SearchWorks
<1>2. window \in [first : Nat, last : Nat] /\ window.last <= N /\ window.last \in Nat
    BY DEF SearchWorks, WindowTyped
<1>3. \A i \in 0 .. (window.last - 1) : queue'[i] # Garbage
    BY <1>1, <1>2 DEF SlotsCovered
<1>4. \A x \in team : x # t => wk'[x] = wk[x]
    BY DEF SearchWorks
<1>5. wk'[t] = s
    BY DEF SearchWorks
<1>6. ASSUME NEW x \in team
      PROVE  WritesOn(wk[x])'
  <2>1. CASE x = t
      BY <1>5, <2>1 DEF WritesOn
  <2>2. CASE x # t
    <3>1. WritesOn(wk[x]) /\ wk'[x] = wk[x] /\ wk[x].base \in Nat
        BY <1>4, <2>2 DEF SlotsCovered, SearchWorks, SearchStates
    <3>2. wk[x].pc = "add" => \A i \in 0 .. (wk[x].base - 1) : Covered(i)'
        BY <3>1 DEF WritesOn
    <3>3. QED BY <3>1, <3>2 DEF WritesOn
  <2>3. QED BY <2>1, <2>2
<1>7. phase' \in {"topdown", "collect"}
    BY DEF Collecting
<1>8. QED BY <1>1, <1>3, <1>6, <1>7 DEF SlotsCovered

\* ... also when it is not writing and queue and shared_in stay as they are, ...
LEMMA SlotsRest ==
    ASSUME SearchWorks, SlotsCovered, UNCHANGED <<view, phase, window, queue, in>>,
           NEW t \in team, NEW s, wk' = [wk EXCEPT ![t] = s],
           Collecting => wk[t].pc \notin {"add", "copy"} /\ s.pc \notin {"add", "copy"}
    PROVE  SlotsCovered'
<1>1. CASE Collecting
  <2>1. /\ wk[t].pc \notin {"add", "copy"} /\ s.pc \notin {"add", "copy"}
        /\ N' = N /\ team' = team /\ wk'[t] = s /\ \A x \in team : x # t => wk'[x] = wk[x]
      BY <1>1, SearchUnmoved DEF SearchWorks
  <2>2. ASSUME NEW i \in Nat, Covered(i)
        PROVE  Covered(i)'
    <3>1. CASE i < N /\ queue[i] # Garbage
        BY <2>1, <3>1 DEF Covered
    <3>2. ASSUME NEW x \in team, wk[x].pc = "copy", wk[x].base <= i, i < Added(x)
          PROVE  Covered(i)'
      <4>1. wk'[x] = wk[x]
          BY <2>1, <3>2
      <4>2. QED BY <2>1, <3>2, <4>1 DEF Covered, Added
    <3>3. QED BY <2>2, <3>1, <3>2 DEF Covered
  <2>3. \A i \in 0 .. (in' - 1) : Covered(i)'
      BY <1>1, <2>2 DEF SlotsCovered
  <2>4. WritesOn(s)'
      BY <2>1 DEF WritesOn
  <2>5. QED BY <1>1, <2>2, <2>3, <2>4, SlotsTurn
<1>2. CASE ~Collecting
    BY <1>2 DEF SlotsCovered, Collecting
<1>3. QED BY <1>1, <1>2

\* ... and what was visited stays so.
LEMMA VisitedTurn ==
    ASSUME SearchWorks, VisitedOnly, UNCHANGED <<view, phase>>,
           NEW t \in team, NEW s, wk' = [wk EXCEPT ![t] = s],
           \A v : Visited(v) => Visited(v)', parent'[Source] = Source,
           \A i \in 0 .. (N - 1) : queue'[i] # Garbage => Visited(queue[i])',
           \A v \in front' : Visited(v)', HoldsVisited(s)'
    PROVE  VisitedOnly'
<1>1. /\ N' = N /\ team' = team /\ wk'[t] = s /\ \A x \in team : x # t => wk'[x] = wk[x]
    BY SearchUnmoved DEF SearchWorks
<1>2. ASSUME NEW x \in team
      PROVE  HoldsVisited(wk[x])'
  <2>1. CASE x = t
      BY <1>1, <2>1 DEF HoldsVisited
  <2>2. CASE x # t
    <3>1. wk'[x] = wk[x] /\ HoldsVisited(wk[x])
        BY <1>1, <2>2 DEF VisitedOnly
    <3>2. PICK r : r = wk[x]
        OBVIOUS
    <3>3. HoldsVisited(r)'
        BY <3>1, <3>2 DEF HoldsVisited, Collecting
    <3>4. QED BY <3>1, <3>2, <3>3 DEF HoldsVisited
  <2>3. QED BY <2>1, <2>2
<1>3. QED BY <1>1, <1>2 DEF VisitedOnly

\* What is known of a thread at work.
LEMMA WorkerFacts ==
    ASSUME SearchInv, NEW t \in team
    PROVE  /\ wk[t] \in SearchStates /\ AtWork(wk[t]) /\ HoldsVisited(wk[t])
           /\ Collecting => WritesOn(wk[t])
           /\ N \in Nat \ {0} /\ Vertices = 0 .. (N - 1) /\ Source \in Vertices
           /\ adj \in [Vertices -> Seq(Vertices)]
           /\ window.first \in Nat /\ window.last \in Nat /\ in \in Nat
           /\ window.first <= window.last /\ window.last <= N /\ window.last <= in
           /\ \A i \in 0 .. (window.last - 1) : queue[i] \in Vertices
<1>1. N \in Nat \ {0} /\ Vertices = 0 .. (N - 1) /\ Source \in Vertices /\ adj \in [Vertices -> Seq(Vertices)]
    BY GraphFacts DEF SearchInv, SearchWorks
<1>2. /\ window.first \in Nat /\ window.last \in Nat /\ in \in Nat
      /\ window.first <= window.last /\ window.last <= N /\ window.last <= in
    BY DEF SearchInv, SearchWorks, WindowTyped
<1>3. \A i \in 0 .. (window.last - 1) : queue[i] \in Vertices
  <2>1. \A i \in 0 .. (window.last - 1) : i \in 0 .. (N - 1) /\ queue[i] # Garbage
      BY <1>1, <1>2 DEF SearchInv, SlotsCovered
  <2>2. queue \in [0 .. (N - 1) -> Vertices \cup {Garbage}]
      BY DEF SearchInv, SearchWorks
  <2>3. QED BY <2>1, <2>2
<1>4. wk[t] \in SearchStates /\ AtWork(wk[t])
    BY DEF SearchInv, SearchWorks
<1>5. HoldsVisited(wk[t]) /\ (Collecting => WritesOn(wk[t]))
    BY DEF SearchInv, VisitedOnly, SlotsCovered
<1>6. QED BY <1>1, <1>2, <1>3, <1>4, <1>5

\* Steps that touch nothing but what the thread knows, and the next iteration.
LEMMA PrivateTurn ==
    ASSUME SearchInv, UNCHANGED <<view, phase, window, awake, parent, queue, in, front>>,
           NEW t \in team, NEW s \in SearchStates, wk' = [wk EXCEPT ![t] = s],
           AtWork(s), HoldsVisited(s), next' \in Nat,
           phase = "topdown" => window.first <= next' /\ next' <= window.last,
           Collecting => wk[t].pc \notin {"add", "copy"} /\ s.pc \notin {"add", "copy"}
    PROVE  SearchInv'
<1>1. SearchWorks /\ SlotsCovered /\ VisitedOnly
    BY DEF SearchInv
<1>2. SearchWorks'
  <2>1. /\ parent' \in [Vertices -> Vertices \cup {NoParent}]
        /\ queue' \in [0 .. (N - 1) -> Vertices \cup {Garbage}]
        /\ in' \in Nat /\ window.last <= in' /\ front' \in SUBSET Vertices
      BY <1>1 DEF SearchWorks, WindowTyped
  <2>2. QED BY <1>1, <2>1, WorksTurn
<1>3. SlotsCovered'
    BY <1>1, SlotsRest
<1>4. VisitedOnly'
  <2>1. \A v : Visited(v)' = Visited(v)
      BY DEF Visited
  <2>2. HoldsVisited(s)'
      BY <2>1 DEF HoldsVisited, Collecting
  <2>3. /\ parent'[Source] = Source
        /\ \A i \in 0 .. (N - 1) : queue'[i] # Garbage => Visited(queue[i])'
        /\ \A v \in front' : Visited(v)'
      BY <1>1, <2>1 DEF VisitedOnly, Visited
  <2>4. QED BY <1>1, <2>1, <2>2, <2>3, VisitedTurn
<1>5. QED BY <1>2, <1>3, <1>4 DEF SearchInv

LEMMA TakeKeeps ==
    ASSUME SearchInv, UNCHANGED view, NEW t \in team, Take(t)
    PROVE  SearchInv'
<1>1. /\ phase = "topdown" /\ wk[t].pc = "take"
      /\ UNCHANGED <<phase, parent, queue, in, window, front, awake>>
    BY DEF Take
<1>2. /\ wk[t] \in SearchStates /\ AtWork(wk[t]) /\ HoldsVisited(wk[t])
      /\ \A i \in 0 .. (window.last - 1) : queue[i] \in Vertices
      /\ adj \in [Vertices -> Seq(Vertices)] /\ window.last \in Nat /\ window.first \in Nat
      /\ \A v \in Vertices : v \in Nat
    BY WorkerFacts
<1>3. next \in Nat /\ window.first <= next /\ next <= window.last
    BY <1>1 DEF SearchInv, SearchWorks
<1>4. wk[t].v = NoParent
    BY <1>1, <1>2 DEF AtWork
<1>5. \A x \in ToSet(wk[t].buffer) : Visited(x)
    BY <1>1, <1>2 DEF HoldsVisited, Collecting
<1>6. CASE next = window.last
  <2>1. PICK s : s = [wk[t] EXCEPT !.pc = "fetch"]
      OBVIOUS
  <2>2. wk' = [wk EXCEPT ![t] = s] /\ next' = next
      BY <1>6, <2>1 DEF Take, Set
  <2>3. s \in SearchStates /\ s.pc = "fetch" /\ s.todo = wk[t].todo /\ s.v = wk[t].v /\ s.buffer = wk[t].buffer
      BY <1>2, <2>1 DEF SearchStates
  <2>4. AtWork(s) /\ HoldsVisited(s)
      BY <1>1, <1>2, <1>4, <1>5, <2>3 DEF AtWork, HoldsVisited
  <2>5. QED BY <1>1, <1>3, <2>2, <2>3, <2>4, PrivateTurn
<1>7. CASE next # window.last
  <2>1. PICK u : u = queue[next]
      OBVIOUS
  <2>2. PICK s : s = [wk[t] EXCEPT !.pc = "look", !.from = u, !.todo = adj[u]]
      OBVIOUS
  <2>3. wk' = [wk EXCEPT ![t] = s] /\ next' = next + 1
      BY <1>7, <2>1, <2>2 DEF Take, Set
  <2>4. u \in Vertices
      BY <1>2, <1>3, <1>7, <2>1
  <2>5. adj[u] \in Seq(Vertices) /\ adj[u] \in Seq(Nat)
      BY <1>2, <2>4
  <2>6. s \in SearchStates /\ s.pc = "look" /\ s.todo = adj[u] /\ s.v = wk[t].v /\ s.buffer = wk[t].buffer
      BY <1>2, <2>2, <2>4, <2>5 DEF SearchStates
  <2>7. AtWork(s) /\ HoldsVisited(s)
      BY <1>1, <1>4, <1>5, <2>5, <2>6 DEF AtWork, HoldsVisited
  <2>8. next' \in Nat /\ window.first <= next' /\ next' <= window.last
      BY <1>2, <1>3, <1>7, <2>3
  <2>9. QED BY <1>1, <2>3, <2>6, <2>7, <2>8, PrivateTurn
<1>8. QED BY <1>6, <1>7

LEMMA LookKeeps ==
    ASSUME SearchInv, UNCHANGED view, NEW t \in team, Look(t)
    PROVE  SearchInv'
<1>1. PICK todo : todo = wk[t].todo
    OBVIOUS
<1>2. PICK s : s = IF todo = <<>> THEN [wk[t] EXCEPT !.pc = "take"]
                   ELSE IF Unvisited(Head(todo))
                   THEN [wk[t] EXCEPT !.pc = "swap", !.v = Head(todo), !.todo = Tail(todo)]
                   ELSE [wk[t] EXCEPT !.todo = Tail(todo)]
    OBVIOUS
<1>3. /\ phase = "topdown" /\ wk[t].pc = "look" /\ wk' = [wk EXCEPT ![t] = s]
      /\ UNCHANGED <<phase, parent, queue, in, window, front, awake, next>>
    BY <1>1, <1>2 DEF Look, Set
<1>4. wk[t] \in SearchStates /\ AtWork(wk[t]) /\ HoldsVisited(wk[t]) /\ \A v \in Vertices : v \in Nat
    BY WorkerFacts
<1>5. next \in Nat /\ window.first <= next /\ next <= window.last
    BY <1>3 DEF SearchInv, SearchWorks
<1>6. wk[t].v = NoParent /\ todo \in Seq(Vertices) /\ todo \in Seq(Nat)
    BY <1>1, <1>3, <1>4 DEF AtWork, SearchStates
<1>7. \A x \in ToSet(wk[t].buffer) : Visited(x)
    BY <1>3, <1>4 DEF HoldsVisited, Collecting
<1>8. todo # <<>> => Head(todo) \in Vertices /\ Tail(todo) \in Seq(Vertices) /\ Tail(todo) \in Seq(Nat)
    BY <1>6, HeadAndRest
<1>9. /\ s \in SearchStates /\ s.buffer = wk[t].buffer /\ s.todo \in Seq(Vertices)
      /\ s.pc \in {"take", "look", "swap"} /\ (s.pc = "swap" => s.v \in Vertices \ {Source})
      /\ s.pc \in {"take", "look"} => s.v = NoParent
  <2>1. CASE todo = <<>>
      BY <1>1, <1>2, <1>3, <1>4, <1>6, <2>1 DEF SearchStates
  <2>2. CASE todo # <<>> /\ Unvisited(Head(todo))
    <3>1. Head(todo) # Source
        BY <2>2, WorkerFacts DEF SearchInv, VisitedOnly, Unvisited, NoParent
    <3>2. QED BY <3>1, <1>2, <1>3, <1>4, <1>6, <1>8, <2>2 DEF SearchStates
  <2>3. CASE todo # <<>> /\ ~Unvisited(Head(todo))
      BY <1>2, <1>3, <1>4, <1>6, <1>8, <2>3 DEF SearchStates
  <2>4. QED BY <2>1, <2>2, <2>3
<1>10. AtWork(s) /\ HoldsVisited(s)
    BY <1>3, <1>7, <1>9 DEF AtWork, HoldsVisited
<1>11. QED BY <1>3, <1>5, <1>9, <1>10, PrivateTurn

LEMMA GatherKeeps ==
    ASSUME SearchInv, UNCHANGED view, NEW t \in team, Gather(t)
    PROVE  SearchInv'
<1>1. PICK todo : todo = wk[t].todo
    OBVIOUS
<1>2. PICK n : n = Min({BufferSize, Len(todo)})
    OBVIOUS
<1>3. PICK s : s = [wk[t] EXCEPT !.pc = "fetch", !.buffer = SubSeq(todo, 1, n), !.todo = SubSeq(todo, n + 1, Len(todo))]
    OBVIOUS
<1>4. /\ phase = "collect" /\ wk[t].pc = "gather" /\ wk' = [wk EXCEPT ![t] = s]
      /\ UNCHANGED <<phase, parent, queue, in, window, front, awake, next>>
    BY <1>1, <1>2, <1>3 DEF Gather, Set
<1>5. wk[t] \in SearchStates /\ AtWork(wk[t]) /\ HoldsVisited(wk[t]) /\ \A v \in Vertices : v \in Nat
    BY WorkerFacts
<1>6. next \in Nat
    BY DEF SearchInv, SearchWorks
<1>7. todo \in Seq(Vertices) /\ wk[t].v = NoParent /\ \A x \in ToSet(todo) : Visited(x)
    BY <1>1, <1>4, <1>5 DEF AtWork, HoldsVisited
<1>8. Len(todo) \in Nat /\ n \in Nat /\ n <= Len(todo)
    BY <1>2, <1>7, MinIsLeast, BfsAssumption
<1>9. /\ SubSeq(todo, 1, n) \in Seq(Vertices) /\ SubSeq(todo, n + 1, Len(todo)) \in Seq(Vertices)
      /\ SubSeq(todo, n + 1, Len(todo)) \in Seq(Nat)
      /\ \A x \in ToSet(SubSeq(todo, 1, n)) : x \in ToSet(todo)
      /\ \A x \in ToSet(SubSeq(todo, n + 1, Len(todo))) : x \in ToSet(todo)
  <2>1. /\ SubSeq(todo, 1, n) \in Seq(Vertices) /\ Len(SubSeq(todo, 1, n)) = n
        /\ \A i \in 1 .. n : SubSeq(todo, 1, n)[i] = todo[i]
      BY <1>7, <1>8, SubSeqProperties
  <2>2. /\ SubSeq(todo, n + 1, Len(todo)) \in Seq(Vertices) /\ Len(SubSeq(todo, n + 1, Len(todo))) = Len(todo) - n
        /\ \A i \in 1 .. (Len(todo) - n) : SubSeq(todo, n + 1, Len(todo))[i] = todo[n + i]
      BY <1>7, <1>8, SubSeqProperties
  <2>3. ASSUME NEW x \in ToSet(SubSeq(todo, 1, n))
        PROVE  x \in ToSet(todo)
    <3>1. PICK i \in 1 .. n : x = todo[i]
        BY <2>1 DEF ToSet
    <3>2. i \in DOMAIN todo
        BY <1>7, <1>8
    <3>3. QED BY <3>1, <3>2 DEF ToSet
  <2>4. ASSUME NEW x \in ToSet(SubSeq(todo, n + 1, Len(todo)))
        PROVE  x \in ToSet(todo)
    <3>1. PICK i \in 1 .. (Len(todo) - n) : x = todo[n + i]
        BY <2>2 DEF ToSet
    <3>2. n + i \in DOMAIN todo
        BY <1>7, <1>8
    <3>3. QED BY <3>1, <3>2 DEF ToSet
  <2>5. SubSeq(todo, n + 1, Len(todo)) \in Seq(Nat)
      BY <1>5, <2>2
  <2>6. QED BY <2>1, <2>2, <2>3, <2>4, <2>5
<1>10. /\ s \in SearchStates /\ s.pc = "fetch" /\ s.v = wk[t].v
       /\ s.buffer = SubSeq(todo, 1, n) /\ s.todo = SubSeq(todo, n + 1, Len(todo))
    BY <1>3, <1>5, <1>9 DEF SearchStates
<1>11. AtWork(s) /\ HoldsVisited(s)
    BY <1>4, <1>7, <1>9, <1>10 DEF AtWork, HoldsVisited
<1>12. QED BY <1>4, <1>6, <1>10, <1>11, PrivateTurn

LEMMA MarkLoadKeeps ==
    ASSUME SearchInv, UNCHANGED view, NEW t \in team, MarkLoad(t)
    PROVE  SearchInv'
<1>1. PICK s : s = IF wk[t].todo = <<>> THEN [wk[t] EXCEPT !.pc = "rest"]
                   ELSE [wk[t] EXCEPT !.pc = "compare", !.word = front]
    OBVIOUS
<1>2. /\ phase = "mark" /\ wk' = [wk EXCEPT ![t] = s]
      /\ UNCHANGED <<phase, parent, queue, in, window, front, awake, next>>
    BY <1>1 DEF MarkLoad, Set
<1>3. wk[t] \in SearchStates /\ AtWork(wk[t]) /\ HoldsVisited(wk[t])
    BY WorkerFacts
<1>4. next \in Nat /\ front \in SUBSET Vertices /\ \A v \in front : Visited(v)
    BY DEF SearchInv, SearchWorks, VisitedOnly
<1>5. /\ s \in SearchStates /\ s.todo = wk[t].todo
      /\ s.pc = "rest" \/ (s.pc = "compare" /\ s.todo # <<>>)
      /\ s.word = wk[t].word \/ s.word = front
  <2>1. CASE wk[t].todo = <<>>
      BY <1>1, <1>3, <2>1 DEF SearchStates
  <2>2. CASE wk[t].todo # <<>>
      BY <1>1, <1>3, <1>4, <2>2 DEF SearchStates
  <2>3. QED BY <2>1, <2>2
<1>6. AtWork(s) /\ HoldsVisited(s)
    BY <1>2, <1>3, <1>4, <1>5 DEF AtWork, HoldsVisited, Collecting
<1>7. ~Collecting
    BY <1>2 DEF Collecting
<1>8. QED BY <1>2, <1>4, <1>5, <1>6, <1>7, PrivateTurn

LEMMA MarkCompareKeeps ==
    ASSUME SearchInv, UNCHANGED view, NEW t \in team, MarkCompare(t)
    PROVE  SearchInv'
<1>1. PICK s : s = [wk[t] EXCEPT !.pc = IF front = wk[t].word THEN "store" ELSE "load"]
    OBVIOUS
<1>2. /\ phase = "mark" /\ wk[t].pc = "compare" /\ wk' = [wk EXCEPT ![t] = s]
      /\ UNCHANGED <<phase, parent, queue, in, window, front, awake, next>>
    BY <1>1 DEF MarkCompare, Set
<1>3. wk[t] \in SearchStates /\ AtWork(wk[t]) /\ HoldsVisited(wk[t])
    BY WorkerFacts
<1>4. next \in Nat
    BY DEF SearchInv, SearchWorks
<1>5. s \in SearchStates /\ s.todo = wk[t].todo /\ s.pc \in {"store", "load"} /\ s.word = wk[t].word
    BY <1>1, <1>3 DEF SearchStates
<1>6. AtWork(s) /\ HoldsVisited(s)
    BY <1>2, <1>3, <1>5 DEF AtWork, HoldsVisited, Collecting
<1>7. ~Collecting
    BY <1>2 DEF Collecting
<1>8. QED BY <1>2, <1>4, <1>5, <1>6, <1>7, PrivateTurn

\* A pending bit of a thread that marks.
LEMMA SlotInHand ==
    ASSUME SearchInv, phase = "mark", NEW t \in team, wk[t].todo # <<>>
    PROVE  /\ Head(wk[t].todo) \in window.first .. (window.last - 1)
           /\ Tail(wk[t].todo) \in Seq(window.first .. (window.last - 1)) /\ Tail(wk[t].todo) \in Seq(Nat)
           /\ queue[Head(wk[t].todo)] \in Vertices /\ Visited(queue[Head(wk[t].todo)])
           /\ \A i \in ToSet(wk[t].todo) : i = Head(wk[t].todo) \/ i \in ToSet(Tail(wk[t].todo))
<1> DEFINE s == wk[t].todo
           W == window.first .. (window.last - 1)
<1>1. s \in Seq(W) /\ s # <<>>
    BY WorkerFacts DEF AtWork
<1>2. window.first \in Nat /\ window.last \in Nat /\ window.last <= N /\ N \in Nat
    BY WorkerFacts
<1>3. \A i \in 0 .. (window.last - 1) : queue[i] \in Vertices
    BY WorkerFacts
<1>4. wk[t].todo = s
    OBVIOUS
<1> HIDE DEF s
<1>5. /\ Head(s) \in W /\ Tail(s) \in Seq(W)
      /\ \A x \in ToSet(s) : x = Head(s) \/ x \in ToSet(Tail(s))
    BY ONLY <1>1, HeadAndRest
<1>6. Tail(s) \in Seq(Nat)
    BY <1>2, <1>5
<1>7. Head(s) \in 0 .. (window.last - 1) /\ Head(s) \in 0 .. (N - 1)
    BY <1>2, <1>5
<1>8. queue[Head(s)] \in Vertices /\ queue[Head(s)] # Garbage
    BY <1>3, <1>7 DEF SearchInv, SlotsCovered
<1>9. Visited(queue[Head(s)])
    BY <1>7, <1>8 DEF SearchInv, VisitedOnly
<1>10. QED BY <1>4, <1>5, <1>6, <1>8, <1>9

LEMMA MarkStoreKeeps ==
    ASSUME SearchInv, UNCHANGED view, NEW t \in team, MarkStore(t)
    PROVE  SearchInv'
<1>1. PICK s : s = [wk[t] EXCEPT !.pc = "load", !.todo = Tail(@)]
    OBVIOUS
<1>2. /\ phase = "mark" /\ wk[t].pc = "store" /\ wk' = [wk EXCEPT ![t] = s]
      /\ front' = wk[t].word \cup {queue[Head(wk[t].todo)]}
      /\ UNCHANGED <<phase, parent, queue, in, window, awake, next>>
    BY <1>1 DEF MarkStore, Set, Marked
<1>3. wk[t] \in SearchStates /\ HoldsVisited(wk[t]) /\ wk[t].todo # <<>>
    BY <1>2, WorkerFacts DEF AtWork
<1>4. /\ Tail(wk[t].todo) \in Seq(window.first .. (window.last - 1)) /\ Tail(wk[t].todo) \in Seq(Nat)
      /\ queue[Head(wk[t].todo)] \in Vertices /\ Visited(queue[Head(wk[t].todo)])
    BY <1>2, <1>3, SlotInHand
<1>5. s \in SearchStates /\ s.todo = Tail(wk[t].todo) /\ s.pc = "load" /\ s.word = wk[t].word
    BY <1>1, <1>3, <1>4 DEF SearchStates
<1>6. AtWork(s)
    BY <1>2, <1>4, <1>5 DEF AtWork
<1>7. wk[t].word \in SUBSET Vertices /\ \A x \in wk[t].word : Visited(x)
    BY <1>2, <1>3 DEF SearchStates, HoldsVisited
<1>8. SearchWorks /\ SlotsCovered /\ VisitedOnly /\ ~Collecting
    BY <1>2 DEF SearchInv, Collecting
<1>9. SearchWorks'
  <2>1. /\ parent' \in [Vertices -> Vertices \cup {NoParent}]
        /\ queue' \in [0 .. (N - 1) -> Vertices \cup {Garbage}]
        /\ in' \in Nat /\ window.last <= in' /\ front' \in SUBSET Vertices /\ next' \in Nat
        /\ phase = "topdown" => window.first <= next' /\ next' <= window.last
      BY <1>2, <1>4, <1>7, <1>8 DEF SearchWorks, WindowTyped
  <2>2. QED BY <1>2, <1>5, <1>6, <1>8, <2>1, WorksTurn
<1>10. SlotsCovered'
    BY <1>2, <1>8, SlotsRest
<1>11. VisitedOnly'
  <2>1. \A v : Visited(v)' = Visited(v)
      BY <1>2 DEF Visited
  <2>2. HoldsVisited(s)'
      BY <1>2, <1>5, <1>7, <2>1 DEF HoldsVisited, Collecting
  <2>3. /\ parent'[Source] = Source
        /\ \A i \in 0 .. (N - 1) : queue'[i] # Garbage => Visited(queue[i])'
        /\ \A v \in front' : Visited(v)'
      BY <1>2, <1>4, <1>7, <1>8, <2>1 DEF VisitedOnly, Visited
  <2>4. QED BY <1>2, <1>8, <2>1, <2>2, <2>3, VisitedTurn
<1>12. QED BY <1>9, <1>10, <1>11 DEF SearchInv

LEMMA SwapKeeps ==
    ASSUME SearchInv, UNCHANGED view, NEW t \in team, Swap(t)
    PROVE  SearchInv'
<1>1. PICK s : s = IF Len(wk[t].buffer) = BufferSize
                   THEN [wk[t] EXCEPT !.pc = "fetch"]
                   ELSE [wk[t] EXCEPT !.pc = "look", !.buffer = Append(@, wk[t].v), !.v = NoParent]
    OBVIOUS
<1>2. PICK v : v = wk[t].v
    OBVIOUS
<1>3. /\ phase = "topdown" /\ wk[t].pc = "swap" /\ wk' = [wk EXCEPT ![t] = s]
      /\ parent' = [parent EXCEPT ![v] = wk[t].from]
      /\ UNCHANGED <<phase, queue, in, window, front, awake, next>>
    BY <1>1, <1>2 DEF Swap, Set
<1>4. /\ wk[t] \in SearchStates /\ AtWork(wk[t]) /\ HoldsVisited(wk[t]) /\ Source \in Vertices
      /\ Vertices \in SUBSET Nat
    BY WorkerFacts
<1>5. v \in Vertices /\ v # Source /\ wk[t].todo \in Seq(Vertices) /\ wk[t].from \in Vertices /\ wk[t].buffer \in Seq(Vertices)
    BY <1>2, <1>3, <1>4 DEF AtWork, SearchStates
<1>6. SearchWorks /\ SlotsCovered /\ VisitedOnly
    BY DEF SearchInv
<1>7. parent \in [Vertices -> Vertices \cup {NoParent}] /\ NoParent \notin Vertices
    BY <1>4, <1>6 DEF SearchWorks, NoParent
<1>8. Append(wk[t].buffer, v) \in Seq(Vertices) /\ \A x \in ToSet(Append(wk[t].buffer, v)) : x = v \/ x \in ToSet(wk[t].buffer)
  <2> DEFINE b == wk[t].buffer
             c == Append(b, v)
  <2>1. /\ c \in Seq(Vertices) /\ DOMAIN c = 1 .. (Len(b) + 1) /\ Len(b) \in Nat /\ DOMAIN b = 1 .. Len(b)
        /\ c[Len(b) + 1] = v /\ \A i \in 1 .. Len(b) : c[i] = b[i]
      BY <1>5
  <2> HIDE DEF b, c
  <2>2. ASSUME NEW i \in DOMAIN c
        PROVE  c[i] = v \/ \E j \in DOMAIN b : b[j] = c[i]
      BY <2>1
  <2>3. \A x \in ToSet(c) : x = v \/ x \in ToSet(b)
      BY <2>2 DEF ToSet
  <2>4. QED BY <2>1, <2>3 DEF c, b
<1>9. /\ s \in SearchStates /\ s.todo = wk[t].todo
      /\ \/ s.pc = "fetch" /\ s.v = v /\ s.buffer = wk[t].buffer
         \/ s.pc = "look" /\ s.v = NoParent /\ s.buffer = Append(wk[t].buffer, v)
  <2>1. CASE Len(wk[t].buffer) = BufferSize
      BY <1>1, <1>2, <1>4, <2>1 DEF SearchStates
  <2>2. CASE Len(wk[t].buffer) # BufferSize
      BY <1>1, <1>2, <1>4, <1>8, <2>2 DEF SearchStates
  <2>3. QED BY <2>1, <2>2
<1>10. AtWork(s)
    BY <1>3, <1>5, <1>9 DEF AtWork
<1>11. Visited(v)' /\ \A x : Visited(x) => Visited(x)'
    BY <1>3, <1>5, <1>7 DEF Visited
<1>12. SearchWorks'
  <2>1. /\ parent' \in [Vertices -> Vertices \cup {NoParent}]
        /\ queue' \in [0 .. (N - 1) -> Vertices \cup {Garbage}]
        /\ in' \in Nat /\ window.last <= in' /\ front' \in SUBSET Vertices /\ next' \in Nat
        /\ phase = "topdown" => window.first <= next' /\ next' <= window.last
      BY <1>3, <1>5, <1>6, <1>7 DEF SearchWorks, WindowTyped
  <2>2. QED BY <1>3, <1>6, <1>9, <1>10, <2>1, WorksTurn
<1>13. SlotsCovered'
    BY <1>3, <1>6, <1>9, SlotsRest
<1>14. VisitedOnly'
  <2>1. HoldsVisited(s)'
    <3>1. \A x \in ToSet(wk[t].buffer) : Visited(x)
        BY <1>3, <1>4 DEF HoldsVisited, Collecting
    <3>2. \A x \in ToSet(s.buffer) : Visited(x)'
        BY <1>8, <1>9, <1>11, <3>1
    <3>3. s.pc \in {"fetch", "add", "copy"} /\ s.v # NoParent => Visited(s.v)'
        BY <1>9, <1>11
    <3>4. QED BY <1>3, <3>2, <3>3 DEF HoldsVisited
  <2>2. parent'[Source] = Source
    <3>1. parent[Source] = Source /\ Visited(Source)
        BY <1>4, <1>6, <1>7 DEF VisitedOnly, Visited
    <3>2. QED BY <1>3, <1>4, <1>5, <1>7, <3>1
  <2>3. /\ \A i \in 0 .. (N - 1) : queue'[i] # Garbage => Visited(queue[i])'
        /\ \A x \in front' : Visited(x)'
    <3>1. \A i \in 0 .. (N - 1) : queue[i] # Garbage => Visited(queue[i])
        BY <1>6 DEF VisitedOnly
    <3>2. \A i : Visited(queue[i])' = (parent'[queue[i]] # NoParent)
        BY <1>3 DEF Visited
    <3>3. \A i \in 0 .. (N - 1) : queue[i] # Garbage => Visited(queue[i])'
        BY <1>11, <3>1, <3>2 DEF Visited
    <3>4. \A x \in front : Visited(x)'
        BY <1>6, <1>11 DEF VisitedOnly
    <3>5. QED BY <1>3, <3>3, <3>4
  <2>4. QED BY <1>3, <1>6, <1>11, <2>1, <2>2, <2>3, VisitedTurn
<1>15. QED BY <1>12, <1>13, <1>14 DEF SearchInv

LEMMA FlushFetchKeeps ==
    ASSUME SearchInv, UNCHANGED view, NEW t \in team, FlushFetch(t)
    PROVE  SearchInv'
<1>1. PICK s : s = [wk[t] EXCEPT !.pc = "add", !.base = in]
    OBVIOUS
<1>2. /\ Collecting /\ wk[t].pc = "fetch" /\ wk' = [wk EXCEPT ![t] = s]
      /\ UNCHANGED <<phase, parent, queue, in, window, front, awake, next>>
    BY <1>1 DEF FlushFetch, Set
<1>3. /\ wk[t] \in SearchStates /\ AtWork(wk[t]) /\ HoldsVisited(wk[t])
      /\ in \in Nat /\ window.last <= in
    BY WorkerFacts
<1>4. SearchWorks /\ SlotsCovered /\ VisitedOnly
    BY DEF SearchInv
<1>5. /\ s \in SearchStates /\ s.pc = "add" /\ s.base = in
      /\ s.todo = wk[t].todo /\ s.v = wk[t].v /\ s.buffer = wk[t].buffer
    BY <1>1, <1>3 DEF SearchStates
<1>6. AtWork(s) /\ HoldsVisited(s)
    BY <1>2, <1>3, <1>5 DEF AtWork, HoldsVisited, Collecting
<1>7. SearchWorks'
  <2>1. /\ parent' \in [Vertices -> Vertices \cup {NoParent}]
        /\ queue' \in [0 .. (N - 1) -> Vertices \cup {Garbage}]
        /\ in' \in Nat /\ window.last <= in' /\ front' \in SUBSET Vertices /\ next' \in Nat
        /\ phase = "topdown" => window.first <= next' /\ next' <= window.last
      BY <1>2, <1>4 DEF SearchWorks, WindowTyped
  <2>2. QED BY <1>2, <1>4, <1>5, <1>6, <2>1, WorksTurn
<1>8. SlotsCovered'
  <2>1. N' = N /\ team' = team /\ wk'[t] = s /\ \A x \in team : x # t => wk'[x] = wk[x]
      BY <1>2, <1>4, SearchUnmoved DEF SearchWorks
  <2>2. ASSUME NEW i \in Nat, Covered(i)
        PROVE  Covered(i)'
    <3>1. CASE i < N /\ queue[i] # Garbage
        BY <1>2, <2>1, <3>1 DEF Covered
    <3>2. ASSUME NEW x \in team, wk[x].pc = "copy", wk[x].base <= i, i < Added(x)
          PROVE  Covered(i)'
      <4>1. wk'[x] = wk[x]
          BY <1>2, <2>1, <3>2
      <4>2. QED BY <2>1, <3>2, <4>1 DEF Covered, Added
    <3>3. QED BY <2>2, <3>1, <3>2 DEF Covered
  <2>3. \A i \in 0 .. (in - 1) : Covered(i)'
      BY <1>2, <1>3, <1>4, <2>2 DEF SlotsCovered
  <2>4. WritesOn(s)'
      BY <1>2, <1>3, <1>5, <2>3 DEF WritesOn
  <2>5. QED BY <1>2, <1>4, <2>2, <2>3, <2>4, SlotsTurn
<1>9. VisitedOnly'
  <2>1. \A v : Visited(v)' = Visited(v)
      BY <1>2 DEF Visited
  <2>2. HoldsVisited(s)'
      BY <1>2, <1>6, <2>1 DEF HoldsVisited, Collecting
  <2>3. /\ parent'[Source] = Source
        /\ \A i \in 0 .. (N - 1) : queue'[i] # Garbage => Visited(queue[i])'
        /\ \A v \in front' : Visited(v)'
      BY <1>2, <1>4, <2>1 DEF VisitedOnly, Visited
  <2>4. QED BY <1>2, <1>4, <2>1, <2>2, <2>3, VisitedTurn
<1>10. QED BY <1>7, <1>8, <1>9 DEF SearchInv

LEMMA FlushAddKeeps ==
    ASSUME SearchInv, UNCHANGED view, NEW t \in team, FlushAdd(t)
    PROVE  SearchInv'
<1>1. PICK s : s = [wk[t] EXCEPT !.pc = "copy"]
    OBVIOUS
<1>2. /\ Collecting /\ wk[t].pc = "add" /\ wk' = [wk EXCEPT ![t] = s] /\ in' = Added(t)
      /\ UNCHANGED <<phase, parent, queue, window, front, awake, next>>
    BY <1>1 DEF FlushAdd, Set
<1>3. /\ wk[t] \in SearchStates /\ AtWork(wk[t]) /\ HoldsVisited(wk[t]) /\ WritesOn(wk[t])
      /\ window.last \in Nat
    BY <1>2, WorkerFacts
<1>4. SearchWorks /\ SlotsCovered /\ VisitedOnly
    BY DEF SearchInv
<1>5. /\ s \in SearchStates /\ s.pc = "copy" /\ s.base = wk[t].base
      /\ s.todo = wk[t].todo /\ s.v = wk[t].v /\ s.buffer = wk[t].buffer
    BY <1>1, <1>3 DEF SearchStates
<1>6. AtWork(s) /\ HoldsVisited(s)
    BY <1>2, <1>3, <1>5 DEF AtWork, HoldsVisited, Collecting
<1>7. /\ wk[t].base \in Nat /\ Len(wk[t].buffer) \in Nat /\ Added(t) = wk[t].base + Len(wk[t].buffer)
      /\ window.last <= wk[t].base
    BY <1>2, <1>3 DEF SearchStates, Added, WritesOn
<1>8. SearchWorks'
  <2>1. /\ parent' \in [Vertices -> Vertices \cup {NoParent}]
        /\ queue' \in [0 .. (N - 1) -> Vertices \cup {Garbage}]
        /\ in' \in Nat /\ window.last <= in' /\ front' \in SUBSET Vertices /\ next' \in Nat
        /\ phase = "topdown" => window.first <= next' /\ next' <= window.last
      BY <1>2, <1>3, <1>4, <1>7 DEF SearchWorks, WindowTyped
  <2>2. QED BY <1>2, <1>4, <1>5, <1>6, <2>1, WorksTurn
<1>9. SlotsCovered'
  <2>1. N' = N /\ team' = team /\ wk'[t] = s /\ \A x \in team : x # t => wk'[x] = wk[x]
      BY <1>2, <1>4, SearchUnmoved DEF SearchWorks
  <2>2. ASSUME NEW i \in Nat, Covered(i)
        PROVE  Covered(i)'
    <3>1. CASE i < N /\ queue[i] # Garbage
        BY <1>2, <2>1, <3>1 DEF Covered
    <3>2. ASSUME NEW x \in team, wk[x].pc = "copy", wk[x].base <= i, i < Added(x)
          PROVE  Covered(i)'
      <4>1. wk'[x] = wk[x]
          BY <1>2, <2>1, <3>2
      <4>2. QED BY <2>1, <3>2, <4>1 DEF Covered, Added
    <3>3. QED BY <2>2, <3>1, <3>2 DEF Covered
  <2>3. \A i \in 0 .. (in' - 1) : Covered(i)'
    <3>1. TAKE i \in 0 .. (in' - 1)
    <3>2. i \in Nat /\ i < Added(t)
        BY <1>2, <1>7
    <3>3. CASE i < wk[t].base
      <4>1. Covered(i)
          BY <1>2, <1>3, <1>7, <3>2, <3>3 DEF WritesOn
      <4>2. QED BY <2>2, <3>2, <4>1
    <3>4. CASE wk[t].base <= i
        BY <1>5, <2>1, <3>2, <3>4 DEF Covered, Added
    <3>5. QED BY <1>7, <3>2, <3>3, <3>4
  <2>4. WritesOn(s)'
      BY <1>2, <1>5, <1>7 DEF WritesOn
  <2>5. QED BY <1>2, <1>4, <2>2, <2>3, <2>4, SlotsTurn
<1>10. VisitedOnly'
  <2>1. \A v : Visited(v)' = Visited(v)
      BY <1>2 DEF Visited
  <2>2. HoldsVisited(s)'
      BY <1>2, <1>6, <2>1 DEF HoldsVisited, Collecting
  <2>3. /\ parent'[Source] = Source
        /\ \A i \in 0 .. (N - 1) : queue'[i] # Garbage => Visited(queue[i])'
        /\ \A v \in front' : Visited(v)'
      BY <1>2, <1>4, <2>1 DEF VisitedOnly, Visited
  <2>4. QED BY <1>2, <1>4, <2>1, <2>2, <2>3, VisitedTurn
<1>11. QED BY <1>8, <1>9, <1>10 DEF SearchInv

\* What the copy writes: the buffer, from base on.
LEMMA CopyWrites ==
    ASSUME SearchInv, NEW t \in team, Collecting, wk[t].pc = "copy", FlushCopy(t), phase' # "lost"
    PROVE  LET b == wk[t].base
               end == b + Len(wk[t].buffer)
           IN  /\ b \in Nat /\ end \in Nat /\ b <= end /\ end <= N /\ window.last <= b
               /\ queue' \in [0 .. (N - 1) -> Vertices \cup {Garbage}]
               /\ \A i \in b .. (end - 1) : /\ i \in 0 .. (N - 1) /\ i - b + 1 \in DOMAIN wk[t].buffer
                                            /\ queue'[i] = wk[t].buffer[i - b + 1]
                                            /\ queue'[i] \in ToSet(wk[t].buffer) /\ queue'[i] \in Vertices
               /\ \A i \in 0 .. (N - 1) : i \notin b .. (end - 1) => queue'[i] = queue[i]
<1>1. PICK b, buffer, end : b = wk[t].base /\ buffer = wk[t].buffer /\ end = b + Len(buffer)
    OBVIOUS
<1>2. wk[t] \in SearchStates /\ WritesOn(wk[t]) /\ N \in Nat /\ window.last \in Nat
    BY WorkerFacts
<1>3. b \in Nat /\ buffer \in Seq(Vertices) /\ Len(buffer) \in Nat /\ DOMAIN buffer = 1 .. Len(buffer)
    BY <1>1, <1>2 DEF SearchStates
<1>4. window.last <= b
    BY <1>1, <1>2 DEF WritesOn
<1>5. ~(end > N) /\ queue' = [i \in DOMAIN queue |-> IF i \in b .. (end - 1) THEN buffer[i - b + 1] ELSE queue[i]]
  <2>1. [wk[t] EXCEPT !.buffer = <<>>].base = b
      BY <1>1, <1>2 DEF SearchStates
  <2>2. QED BY <1>1, <2>1 DEF FlushCopy
<1>6. end \in Nat /\ b <= end /\ end <= N
    BY <1>1, <1>2, <1>3, <1>5
<1>7. queue \in [0 .. (N - 1) -> Vertices \cup {Garbage}]
    BY DEF SearchInv, SearchWorks
<1>8. ASSUME NEW i \in b .. (end - 1)
      PROVE  /\ i \in 0 .. (N - 1) /\ i - b + 1 \in DOMAIN buffer
             /\ queue'[i] = buffer[i - b + 1] /\ queue'[i] \in ToSet(buffer) /\ queue'[i] \in Vertices
  <2>1. i \in 0 .. (N - 1) /\ i - b + 1 \in 1 .. Len(buffer)
    <3>1. i \in Int /\ b <= i /\ i <= end - 1 /\ end = b + Len(buffer)
        BY <1>1, <1>3, <1>6
    <3>2. N \in Nat
        BY <1>2
    <3>3. QED BY ONLY <1>3, <1>6, <3>1, <3>2
  <2>2. queue'[i] = buffer[i - b + 1]
      BY <1>5, <1>7, <2>1
  <2>3. buffer[i - b + 1] \in Vertices /\ buffer[i - b + 1] \in ToSet(buffer)
      BY <1>3, <2>1 DEF ToSet
  <2>4. QED BY <1>3, <2>1, <2>2, <2>3
<1>9. \A i \in 0 .. (N - 1) : i \notin b .. (end - 1) => queue'[i] = queue[i]
    BY <1>5, <1>7
<1>10. queue' \in [0 .. (N - 1) -> Vertices \cup {Garbage}]
  <2>1. \A i \in 0 .. (N - 1) : queue'[i] \in Vertices \cup {Garbage}
      BY <1>7, <1>8, <1>9
  <2>2. QED BY <1>5, <1>7, <2>1
<1>11. QED BY <1>1, <1>3, <1>4, <1>6, <1>8, <1>9, <1>10

LEMMA FlushCopyKeeps ==
    ASSUME SearchInv, UNCHANGED view, NEW t \in team, FlushCopy(t)
    PROVE  SearchInv'
<1>1. /\ Collecting /\ wk[t].pc = "copy"
      /\ UNCHANGED <<parent, in, window, front, awake, next>>
    BY DEF FlushCopy
<1>2. SearchWorks /\ SlotsCovered /\ VisitedOnly
    BY DEF SearchInv
<1>3. CASE wk[t].base + Len(wk[t].buffer) > N
  <2>1. phase' = "lost" /\ queue' = queue /\ wk' = wk
      BY <1>3 DEF FlushCopy
  <2>2. /\ GraphTyped' = GraphTyped /\ Vertices' = Vertices /\ N' = N /\ team' = team
        /\ SearchStates' = SearchStates
      BY SearchUnmoved
  <2>3. SearchWorks'
    <3>1. WindowTyped'
        BY <1>1, <1>2, <2>2 DEF SearchWorks, WindowTyped
    <3>2. \A x \in team : AtWork(wk[x])'
        BY <2>1 DEF AtWork
    <3>3. QED BY <1>1, <1>2, <2>1, <2>2, <3>1, <3>2 DEF SearchWorks
  <2>4. SlotsCovered'
      BY <1>1, <1>2, <2>1 DEF SlotsCovered, Collecting
  <2>5. VisitedOnly'
    <3>1. \A v : Visited(v)' = Visited(v)
        BY <1>1 DEF Visited
    <3>2. \A x \in team : HoldsVisited(wk[x])'
        BY <2>1 DEF HoldsVisited, Collecting
    <3>3. QED BY <1>1, <1>2, <2>1, <2>2, <3>1, <3>2 DEF VisitedOnly, Visited
  <2>6. QED BY <2>3, <2>4, <2>5 DEF SearchInv
<1>4. CASE ~(wk[t].base + Len(wk[t].buffer) > N)
  <2> DEFINE w == [wk[t] EXCEPT !.buffer = <<>>]
  <2>1. PICK s : s = IF w.v # NoParent
                     THEN [w EXCEPT !.pc = "look", !.buffer = <<w.v>>, !.v = NoParent]
                     ELSE [w EXCEPT !.pc = IF phase = "collect" /\ w.todo # <<>> THEN "gather" ELSE "rest"]
      OBVIOUS
  <2>2. wk' = [wk EXCEPT ![t] = s] /\ phase' = phase
      BY <1>4, <2>1 DEF FlushCopy, Set
  <2>3. wk[t] \in SearchStates /\ AtWork(wk[t]) /\ HoldsVisited(wk[t]) /\ N \in Nat /\ window.last \in Nat
      BY WorkerFacts
  <2>4. /\ s \in SearchStates /\ s.todo = wk[t].todo
        /\ \/ /\ wk[t].v # NoParent /\ s.pc = "look" /\ s.v = NoParent
              /\ \A x \in ToSet(s.buffer) : x = wk[t].v
           \/ /\ wk[t].v = NoParent /\ s.v = NoParent /\ s.buffer = <<>>
              /\ s.pc = "rest" \/ (s.pc = "gather" /\ phase = "collect")
    <3>1. w \in SearchStates /\ w.v = wk[t].v /\ w.todo = wk[t].todo /\ w.buffer = <<>>
      <4>1. <<>> \in Seq(Vertices)
          OBVIOUS
      <4>2. PICK r : r = wk[t] /\ r \in SearchStates
          BY <2>3
      <4>3. w = [r EXCEPT !.buffer = <<>>]
          BY <4>2
      <4>4. QED BY ONLY <4>1, <4>2, <4>3 DEF SearchStates
    <3> HIDE DEF w
    <3>2. CASE w.v # NoParent
      <4>1. PICK v : v = w.v /\ v \in Vertices
          BY <3>1, <3>2 DEF SearchStates
      <4>2. <<v>> \in Seq(Vertices) /\ \A x \in ToSet(<<v>>) : x = v
          BY <4>1 DEF ToSet
      <4>3. s = [w EXCEPT !.pc = "look", !.buffer = <<v>>, !.v = NoParent]
          BY <2>1, <3>2, <4>1
      <4>4. QED BY <3>1, <3>2, <4>1, <4>2, <4>3 DEF SearchStates
    <3>3. CASE w.v = NoParent
        BY <2>1, <3>1, <3>3 DEF SearchStates
    <3>4. QED BY <3>2, <3>3
  <2>5. Collecting' /\ phase' # "lost" /\ phase # "mark" /\ (phase = "topdown" \/ phase = "collect")
      BY <1>1, <2>2 DEF Collecting
  <2> HIDE DEF w
  <2>6. AtWork(s)
      BY <2>3, <2>4, <2>5 DEF AtWork
  <2> DEFINE b == wk[t].base
             end == b + Len(wk[t].buffer)
  <2>7. /\ b \in Nat /\ end \in Nat /\ b <= end /\ end <= N /\ window.last <= b
        /\ queue' \in [0 .. (N - 1) -> Vertices \cup {Garbage}]
        /\ \A i \in b .. (end - 1) : /\ i \in 0 .. (N - 1)
                                     /\ queue'[i] \in ToSet(wk[t].buffer) /\ queue'[i] \in Vertices
        /\ \A i \in 0 .. (N - 1) : i \notin b .. (end - 1) => queue'[i] = queue[i]
      BY <1>1, <2>5, CopyWrites
  <2>8. Added(t) = end
      BY DEF Added
  <2> HIDE DEF b, end
  <2>9. Garbage \notin Vertices
    <3>1. Vertices \in SUBSET Nat
        BY WorkerFacts
    <3>2. QED BY <3>1 DEF Garbage
  <2>10. \A i \in 0 .. (N - 1) : queue[i] # Garbage => queue'[i] # Garbage
      BY <2>7, <2>9
  <2>11. SearchWorks'
    <3>1. /\ parent' \in [Vertices -> Vertices \cup {NoParent}]
          /\ in' \in Nat /\ window.last <= in' /\ front' \in SUBSET Vertices /\ next' \in Nat
          /\ phase = "topdown" => window.first <= next' /\ next' <= window.last
        BY <1>1, <1>2 DEF SearchWorks, WindowTyped
    <3>2. QED BY <1>1, <1>2, <2>2, <2>4, <2>6, <2>7, <3>1, WorksTurn
  <2>12. SlotsCovered'
    <3>1. N' = N /\ team' = team /\ wk'[t] = s /\ \A x \in team : x # t => wk'[x] = wk[x]
        BY <1>2, <2>2, SearchUnmoved DEF SearchWorks
    <3>2. ASSUME NEW i \in Nat, Covered(i)
          PROVE  Covered(i)'
      <4>1. CASE i < N /\ queue[i] # Garbage
        <5>1. queue'[i] # Garbage
            BY <2>10, <2>3, <4>1
        <5>2. QED BY <3>1, <4>1, <5>1 DEF Covered
      <4>2. ASSUME NEW x \in team, wk[x].pc = "copy", wk[x].base <= i, i < Added(x)
            PROVE  Covered(i)'
        <5>1. CASE x = t
          <6>1. i \in b .. (end - 1)
              BY <2>7, <2>8, <4>2, <5>1 DEF b
          <6>2. queue'[i] # Garbage /\ i < N
              BY <2>3, <2>7, <2>9, <6>1
          <6>3. QED BY <3>1, <6>2 DEF Covered
        <5>2. CASE x # t
          <6>1. wk'[x] = wk[x]
              BY <3>1, <5>2
          <6>2. QED BY <3>1, <4>2, <6>1 DEF Covered, Added
        <5>3. QED BY <5>1, <5>2
      <4>3. QED BY <3>2, <4>1, <4>2 DEF Covered
    <3>3. \A i \in 0 .. (in' - 1) : Covered(i)'
        BY <1>1, <1>2, <3>2 DEF SlotsCovered
    <3>4. WritesOn(s)'
        BY <2>4 DEF WritesOn
    <3>5. QED BY <1>1, <1>2, <2>2, <2>10, <3>2, <3>3, <3>4, SlotsTurn
  <2>13. VisitedOnly'
    <3>1. \A v : Visited(v)' = Visited(v)
        BY <1>1 DEF Visited
    <3>2. \A x \in ToSet(wk[t].buffer) : Visited(x)
        BY <1>1, <2>3 DEF HoldsVisited
    <3>3. HoldsVisited(s)'
      <4>1. \A x \in ToSet(s.buffer) : Visited(x)
        <5>1. CASE wk[t].v # NoParent
          <6>1. phase = "topdown"
              BY <2>3, <2>5, <5>1 DEF AtWork
          <6>2. Visited(wk[t].v)
              BY <1>1, <2>3, <5>1, <6>1 DEF HoldsVisited
          <6>3. QED BY <2>4, <5>1, <6>2
        <5>2. CASE wk[t].v = NoParent
            BY <2>4, <5>2 DEF ToSet
        <5>3. QED BY <5>1, <5>2
      <4>2. phase = "collect" => \A x \in ToSet(s.todo) : Visited(x)
          BY <2>3, <2>4 DEF HoldsVisited
      <4>3. QED BY <2>2, <2>4, <2>5, <3>1, <4>1, <4>2 DEF HoldsVisited
    <3>4. /\ parent'[Source] = Source
          /\ \A v \in front' : Visited(v)'
        BY <1>1, <1>2, <3>1 DEF VisitedOnly
    <3>5. ASSUME NEW i \in 0 .. (N - 1), queue'[i] # Garbage
          PROVE  Visited(queue[i])'
      <4>1. Visited(queue'[i])
        <5>1. CASE i \in b .. (end - 1)
            BY <2>7, <3>2, <5>1
        <5>2. CASE i \notin b .. (end - 1)
            BY <1>2, <2>7, <3>5, <5>2 DEF VisitedOnly
        <5>3. QED BY <5>1, <5>2
      <4>2. QED BY <1>1, <4>1 DEF Visited
    <3>6. QED BY <1>2, <2>2, <3>1, <3>3, <3>4, <3>5, VisitedTurn
  <2>14. QED BY <2>11, <2>12, <2>13 DEF SearchInv
<1>5. QED BY <1>3, <1>4

\* The slots of the window, in order, are handed out to the threads, all of them.
LEMMA SlotsGiven ==
    ASSUME GraphTyped, WindowTyped
    PROVE  /\ \A t \in team : Slots(t) \in Seq(window.first .. (window.last - 1))
           /\ \A i \in window.first .. (window.last - 1) : \E t \in team : i \in ToSet(Slots(t))
<1> DEFINE first == window.first
           n == window.last - window.first
           W == window.first .. (window.last - 1)
<1>1. first \in Nat /\ n \in Nat /\ window.last \in Nat /\ window.last = first + n
    BY DEF WindowTyped
<1>2. ASSUME NEW t \in team
      PROVE  Slots(t) \in Seq(W) /\ \A i \in W : i - first \in Share(t, n) => i \in ToSet(Slots(t))
  <2> DEFINE S == {first + i : i \in Share(t, n)}
  <2>1. Share(t, n) \in SUBSET (0 .. (n - 1))
      BY <1>1, SharesCover
  <2>2. S \in SUBSET W /\ \A i \in W : i - first \in Share(t, n) => i \in S
    <3>1. ASSUME NEW i \in 0 .. (n - 1)
          PROVE  first + i \in W
        BY <1>1
    <3>2. \A i \in W : first + (i - first) = i
        BY <1>1
    <3> HIDE DEF W
    <3>3. S \in SUBSET W
        BY <2>1, <3>1
    <3>4. QED BY <3>2, <3>3
  <2>3. IsFiniteSet(W) /\ W \in SUBSET Nat
    <3>1. window.first \in Int /\ window.last - 1 \in Int
        BY <1>1
    <3>2. IsFiniteSet(W)
        BY ONLY <3>1, FS_Interval
    <3>3. QED BY <1>1, <3>2
  <2>4. Slots(t) = InOrder(S)
      BY DEF Slots
  <2> HIDE DEF S, W
  <2>5. IsFiniteSet(S) /\ S \in SUBSET Nat
      BY <2>2, <2>3, FS_Subset
  <2> DEFINE s == InOrder(S)
  <2>6. s \in Seq(S) /\ \A x \in S : \E i \in DOMAIN s : s[i] = x
      BY <2>5, Ordered
  <2> HIDE DEF s
  <2>7. s \in Seq(W) /\ \A x \in S : x \in ToSet(s)
      BY <2>2, <2>6 DEF ToSet
  <2>8. QED BY <2>2, <2>4, <2>7 DEF s
<1>3. ASSUME NEW i \in W
      PROVE  \E t \in team : i \in ToSet(Slots(t))
  <2>1. i - first \in 0 .. (n - 1)
      BY <1>1
  <2> HIDE DEF W, n, first
  <2>2. PICK t \in team : i - first \in Share(t, n)
      BY <1>1, <2>1, SharesCover
  <2>3. QED BY <1>2, <2>2
<1>4. QED BY <1>2, <1>3

LEMMA RestingTyped ==
    ASSUME GraphTyped
    PROVE  /\ Resting \in SearchStates /\ Resting.pc = "rest" /\ Resting.todo = <<>> /\ Resting.v = NoParent
           /\ Resting.buffer = <<>> /\ Resting.word = {}
<1>1. 0 \in Vertices /\ <<>> \in Seq(Nat) /\ <<>> \in Seq(Vertices) /\ {} \in SUBSET Vertices
    BY GraphFacts
<1>2. QED BY <1>1 DEF Resting, SearchStates

\* The steps between the parallel regions.
LEMMA ChooseKeeps ==
    ASSUME SearchInv, UNCHANGED view, Choose
    PROVE  SearchInv'
<1>1. SearchWorks /\ SlotsCovered /\ VisitedOnly
    BY DEF SearchInv
<1>2. phase = "choose" /\ UNCHANGED <<parent, queue, in, window, front, awake>>
    BY DEF Choose
<1>3. /\ GraphTyped' = GraphTyped /\ Vertices' = Vertices /\ N' = N /\ team' = team
      /\ SearchStates' = SearchStates
    BY SearchUnmoved
<1>4. /\ window.first \in Nat /\ window.last \in Nat /\ in = window.last /\ window.first <= window.last
      /\ window.last <= N /\ N \in Nat /\ GraphTyped /\ WindowTyped
    BY <1>1, <1>2, GraphFacts DEF SlotsCovered, SearchWorks, WindowTyped
<1>5. \A i \in 0 .. (window.last - 1) : queue[i] # Garbage
    BY <1>1 DEF SlotsCovered
<1>6. WindowTyped'
    BY <1>2, <1>3, <1>4 DEF WindowTyped
<1>7. \A v : Visited(v)' = Visited(v)
    BY <1>2 DEF Visited
<1>8. /\ phase' \in {"done", "mark", "topdown"} /\ next' \in Nat
      /\ phase' = "topdown" => window.first <= next' /\ next' <= window.last
      /\ wk' \in [team -> SearchStates]
      /\ \A t \in team : AtWork(wk[t])' /\ HoldsVisited(wk[t])'
      /\ phase' = "topdown" => \A t \in team : wk'[t].pc \notin {"add", "copy"}
  <2>1. CASE phase' = "done" /\ UNCHANGED <<next, wk>>
    <3>1. next' \in Nat /\ wk' \in [team -> SearchStates]
        BY <1>1, <2>1 DEF SearchWorks
    <3>2. \A t \in team : AtWork(wk[t])' /\ HoldsVisited(wk[t])'
        BY <2>1 DEF AtWork, HoldsVisited, Collecting
    <3>3. QED BY <2>1, <3>1, <3>2
  <2>2. CASE /\ phase' = "mark" /\ next' = next
             /\ wk' = [t \in team |-> [Resting EXCEPT !.pc = "load", !.todo = Slots(t)]]
    <3>1. ASSUME NEW t \in team
          PROVE  /\ wk'[t] \in SearchStates /\ wk'[t].pc = "load" /\ wk'[t].word = {}
                 /\ wk'[t].todo \in Seq(window.first .. (window.last - 1))
      <4>1. PICK s : s = Slots(t)
          OBVIOUS
      <4>2. s \in Seq(window.first .. (window.last - 1)) /\ s \in Seq(Nat)
          BY <1>4, <4>1, SlotsGiven
      <4>3. PICK r : r = Resting /\ r \in SearchStates /\ r.word = {}
          BY <1>4, RestingTyped
      <4>4. wk'[t] = [r EXCEPT !.pc = "load", !.todo = s]
          BY <2>2, <4>1, <4>3
      <4>5. QED BY ONLY <4>2, <4>3, <4>4 DEF SearchStates
    <3>2. next' \in Nat /\ wk' \in [team -> SearchStates]
        BY <1>1, <2>2, <3>1 DEF SearchWorks
    <3>3. \A t \in team : AtWork(wk[t])' /\ HoldsVisited(wk[t])'
        BY <1>2, <2>2, <3>1 DEF AtWork, HoldsVisited, Collecting
    <3>4. QED BY <2>2, <3>2, <3>3
  <2>3. CASE phase' = "topdown" /\ wk' = Working("take") /\ next' = window.first
    <3>1. ASSUME NEW t \in team
          PROVE  /\ wk'[t] \in SearchStates /\ wk'[t].pc = "take" /\ wk'[t].todo = <<>>
                 /\ wk'[t].v = NoParent /\ wk'[t].buffer = <<>>
      <4>1. PICK r : /\ r = Resting /\ r \in SearchStates /\ r.todo = <<>>
                     /\ r.v = NoParent /\ r.buffer = <<>>
          BY <1>4, RestingTyped
      <4>2. wk'[t] = [r EXCEPT !.pc = "take"]
          BY <2>3, <4>1 DEF Working
      <4>3. QED BY ONLY <4>1, <4>2 DEF SearchStates
    <3>2. next' \in Nat /\ wk' \in [team -> SearchStates]
        BY <1>4, <2>3, <3>1 DEF Working
    <3>3. \A t \in team : AtWork(wk[t])' /\ HoldsVisited(wk[t])'
      <4>1. TAKE t \in team
      <4>2. /\ wk'[t].pc = "take" /\ wk'[t].todo \in Seq(Vertices') /\ wk'[t].v = NoParent
            /\ wk'[t].buffer = <<>> /\ phase' = "topdown"
        <5>1. <<>> \in Seq(Vertices')
            OBVIOUS
        <5>2. QED BY ONLY <2>3, <3>1, <5>1, t \in team
      <4>3. ToSet(wk[t].buffer)' = {}
          BY <4>2 DEF ToSet
      <4>4. AtWork(wk[t])'
          BY ONLY <4>2 DEF AtWork
      <4>5. HoldsVisited(wk[t])'
          BY ONLY <4>2, <4>3 DEF HoldsVisited
      <4>6. QED BY <4>4, <4>5
    <3>4. QED BY <1>4, <2>3, <3>1, <3>2, <3>3
  <2>4. QED BY ONLY Choose, <2>1, <2>2, <2>3 DEF Choose
<1>9. \A t \in team : AtWork(wk[t])' /\ HoldsVisited(wk[t])'
    BY <1>8
<1>10. SearchWorks'
    BY <1>1, <1>2, <1>3, <1>6, <1>8, <1>9 DEF SearchWorks
<1>11. SlotsCovered'
  <2>1. ASSUME phase' = "topdown"
        PROVE  (\A i \in 0 .. (in' - 1) : Covered(i)') /\ \A t \in team : WritesOn(wk[t])'
    <3>1. \A i \in 0 .. (in' - 1) : Covered(i)'
        BY <1>2, <1>3, <1>4, <1>5 DEF Covered
    <3>2. \A t \in team : wk'[t].pc \notin {"add", "copy"}
        BY <1>8, <2>1
    <3>3. QED BY <3>1, <3>2 DEF WritesOn
  <2>2. QED BY <1>2, <1>3, <1>4, <1>5, <1>8, <2>1 DEF SlotsCovered, Collecting
<1>12. VisitedOnly'
    BY <1>1, <1>2, <1>3, <1>7, <1>9 DEF VisitedOnly, Visited
<1>13. QED BY <1>10, <1>11, <1>12 DEF SearchInv

\* Every vertex that BUStep wakes takes a parent from the frontier.
LEMMA WakerFacts ==
    ASSUME GraphTyped, NEW v \in Vertices, Waking(v) # {}
    PROVE  Waker(v) \in Vertices /\ Waker(v) \in front /\ Waker(v) \in Neighbours(v)
<1>1. adj[v] \in Seq(Vertices)
    BY GraphFacts
<1>2. Waking(v) \in SUBSET Nat
    BY <1>1 DEF Waking
<1>3. Min(Waking(v)) \in Waking(v)
    BY <1>2, MinIsLeast
<1>4. Min(Waking(v)) \in DOMAIN adj[v] /\ adj[v][Min(Waking(v))] \in front
    BY <1>3 DEF Waking
<1>5. QED BY <1>1, <1>4 DEF Waker, Neighbours, ToSet

\* A region that fills the queue ends: the window moves over what was written.
LEMMA RegionEnds ==
    ASSUME SearchInv, UNCHANGED view, Collecting, phase' = "choose",
           window' = [first |-> window.last, last |-> in],
           UNCHANGED <<parent, queue, in, front, awake, next, wk>>, \A t \in team : wk[t].pc = "rest"
    PROVE  SearchInv'
<1>1. SearchWorks /\ SlotsCovered /\ VisitedOnly
    BY DEF SearchInv
<1>2. /\ GraphTyped' = GraphTyped /\ Vertices' = Vertices /\ N' = N /\ team' = team
      /\ SearchStates' = SearchStates
    BY SearchUnmoved
<1>3. window.last \in Nat /\ in \in Nat /\ window.last <= in /\ N \in Nat
    BY <1>1, GraphFacts DEF SearchWorks, WindowTyped
<1>4. \A i \in 0 .. (in - 1) : i < N /\ queue[i] # Garbage
    BY <1>1 DEF SlotsCovered, Covered
<1>5. in <= N
  <2>1. SUFFICES ASSUME in > N
                 PROVE  FALSE
      BY <1>3
  <2>2. N \in 0 .. (in - 1)
      BY <1>3, <2>1
  <2>3. QED BY <1>3, <1>4, <2>2
<1>6. WindowTyped'
    BY <1>2, <1>3, <1>5 DEF WindowTyped
<1>7. \A t \in team : AtWork(wk[t])' /\ HoldsVisited(wk[t])'
    BY DEF AtWork, HoldsVisited, Collecting
<1>8. SearchWorks'
    BY <1>1, <1>2, <1>6, <1>7 DEF SearchWorks
<1>9. SlotsCovered'
    BY <1>2, <1>4 DEF SlotsCovered, Collecting
<1>10. VisitedOnly'
  <2>1. \A v : Visited(v)' = Visited(v)
      BY DEF Visited
  <2>2. QED BY <1>1, <1>2, <1>7, <2>1 DEF VisitedOnly, Visited
<1>11. QED BY <1>8, <1>9, <1>10 DEF SearchInv

LEMMA EndTopDownKeeps ==
    ASSUME SearchInv, UNCHANGED view, EndTopDown
    PROVE  SearchInv'
<1>2. /\ phase = "topdown" /\ phase' = "choose" /\ window' = [first |-> window.last, last |-> in]
      /\ UNCHANGED <<parent, queue, in, front, awake, next, wk>>
      /\ \A t \in team : wk[t].pc = "rest"
    BY DEF EndTopDown, Slid, Rested
<1>3. QED BY <1>2, RegionEnds DEF Collecting

LEMMA EndCollectKeeps ==
    ASSUME SearchInv, UNCHANGED view, EndCollect
    PROVE  SearchInv'
<1>2. /\ phase = "collect" /\ phase' = "choose" /\ window' = [first |-> window.last, last |-> in]
      /\ UNCHANGED <<parent, queue, in, front, awake, next, wk>>
      /\ \A t \in team : wk[t].pc = "rest"
    BY DEF EndCollect, Slid, Rested
<1>3. QED BY <1>2, RegionEnds DEF Collecting

LEMMA EndMarkKeeps ==
    ASSUME SearchInv, UNCHANGED view, EndMark
    PROVE  SearchInv'
<1>1. SearchWorks /\ SlotsCovered /\ VisitedOnly
    BY DEF SearchInv
<1>2. /\ phase = "mark" /\ phase' = "bottomup" /\ awake' = window.last - window.first
      /\ window' = [first |-> window.last, last |-> in]
      /\ UNCHANGED <<parent, queue, in, front, next, wk>>
    BY DEF EndMark, Slid
<1>3. /\ GraphTyped' = GraphTyped /\ Vertices' = Vertices /\ N' = N /\ team' = team
      /\ SearchStates' = SearchStates
    BY SearchUnmoved
<1>4. /\ window.first \in Nat /\ window.last \in Nat /\ in = window.last /\ window.first <= window.last
      /\ window.last <= N /\ N \in Nat
    BY <1>1, <1>2, GraphFacts DEF SlotsCovered, SearchWorks, WindowTyped
<1>5. WindowTyped' /\ awake' \in 0 .. N
    BY <1>2, <1>3, <1>4 DEF WindowTyped
<1>6. \A t \in team : AtWork(wk[t])' /\ HoldsVisited(wk[t])'
    BY <1>2 DEF AtWork, HoldsVisited, Collecting
<1>7. SearchWorks'
    BY <1>1, <1>2, <1>3, <1>5, <1>6 DEF SearchWorks
<1>8. SlotsCovered'
    BY <1>1, <1>2, <1>3, <1>4 DEF SlotsCovered, Collecting
<1>9. VisitedOnly'
  <2>1. \A v : Visited(v)' = Visited(v)
      BY <1>2 DEF Visited
  <2>2. QED BY <1>1, <1>2, <1>3, <1>6, <2>1 DEF VisitedOnly, Visited
<1>10. QED BY <1>7, <1>8, <1>9 DEF SearchInv

LEMMA BUStepKeeps ==
    ASSUME SearchInv, UNCHANGED view, BUStep
    PROVE  SearchInv'
<1>1. SearchWorks /\ SlotsCovered /\ VisitedOnly
    BY DEF SearchInv
<1>2. PICK woken : woken = {v \in Vertices : parent[v] = NoParent /\ Waking(v) # {}}
    OBVIOUS
<1>3. /\ phase = "bottomup" /\ UNCHANGED <<queue, in, window, next>>
      /\ parent' = [v \in Vertices |-> IF v \in woken THEN Waker(v) ELSE parent[v]]
      /\ front' = woken /\ awake' = Cardinality(woken)
      /\ \/ phase' = "bottomup" /\ wk' = wk
         \/ /\ phase' = "collect"
            /\ wk' = [t \in team |-> [Resting EXCEPT !.pc = "gather", !.todo = Bits(t, woken)]]
    BY <1>2 DEF BUStep
<1>4. /\ GraphTyped' = GraphTyped /\ Vertices' = Vertices /\ N' = N /\ team' = team
      /\ SearchStates' = SearchStates /\ GraphTyped
    BY <1>1, SearchUnmoved DEF SearchWorks
<1>5. /\ window.first \in Nat /\ window.last \in Nat /\ in = window.last /\ window.first <= window.last
      /\ window.last <= N /\ N \in Nat /\ IsFiniteSet(Vertices) /\ Vertices = 0 .. (N - 1)
    BY <1>1, <1>3, GraphFacts DEF SlotsCovered, SearchWorks, WindowTyped
<1>6. \A v \in woken : /\ v \in Vertices /\ ~Visited(v) /\ Waker(v) \in Vertices
                       /\ Waker(v) \in front /\ Waker(v) \in Neighbours(v)
    BY <1>1, <1>2, <1>4, WakerFacts DEF Visited, SearchWorks
<1>7. NoParent \notin Vertices
    BY <1>5 DEF NoParent
<1>8. /\ parent' \in [Vertices -> Vertices \cup {NoParent}]
      /\ \A v \in Vertices : Visited(v)' <=> Visited(v) \/ v \in woken
    BY <1>1, <1>3, <1>6, <1>7 DEF SearchWorks, Visited
<1>9. woken \in SUBSET Vertices /\ Cardinality(woken) \in 0 .. N
  <2>1. woken \in SUBSET Vertices
      BY <1>2
  <2>2. IsFiniteSet(woken) /\ Cardinality(woken) <= Cardinality(Vertices)
      BY <1>5, <2>1, FS_Subset
  <2>3. QED BY <1>5, <2>1, <2>2, FS_CardinalityType DEF N
<1>10. WindowTyped'
  <2>1. window' = window /\ in' = in /\ N' = N /\ WindowTyped
      BY <1>1, <1>3, <1>4 DEF SearchWorks
  <2>2. QED BY ONLY <2>1 DEF WindowTyped
<1>11. /\ wk' \in [team -> SearchStates] /\ \A t \in team : AtWork(wk[t])' /\ HoldsVisited(wk[t])'
       /\ phase' = "collect" => \A t \in team : wk'[t].pc = "gather"
  <2>1. CASE phase' = "bottomup" /\ wk' = wk
    <3>1. \A t \in team : AtWork(wk[t])' /\ HoldsVisited(wk[t])'
        BY <2>1 DEF AtWork, HoldsVisited, Collecting
    <3>2. QED BY <1>1, <2>1, <3>1 DEF SearchWorks
  <2>2. CASE /\ phase' = "collect"
             /\ wk' = [t \in team |-> [Resting EXCEPT !.pc = "gather", !.todo = Bits(t, woken)]]
    <3>1. ASSUME NEW t \in team
          PROVE  /\ wk'[t] \in SearchStates /\ wk'[t].pc = "gather" /\ wk'[t].v = NoParent
                 /\ wk'[t].buffer = <<>> /\ wk'[t].todo \in Seq(Vertices)
                 /\ \A x \in ToSet(wk'[t].todo) : x \in woken
      <4>1. PICK s : s = Bits(t, woken)
          OBVIOUS
      <4>2. s \in Seq(woken) /\ s \in Seq(Vertices) /\ s \in Seq(Nat) /\ \A x \in ToSet(s) : x \in woken
        <5>1. PICK S : S = woken \cap Share(t, N)
            OBVIOUS
        <5>2. woken \in SUBSET Vertices /\ woken \in SUBSET Nat
            BY <1>5, <1>9
        <5>3. S \in SUBSET woken
            BY ONLY <5>1
        <5>4. S \in SUBSET Nat /\ S \in SUBSET Vertices
            BY ONLY <5>2, <5>3
        <5>5. IsFiniteSet(S)
            BY ONLY <1>5, <5>4, FS_Subset
        <5>6. s = InOrder(S)
            BY ONLY <4>1, <5>1 DEF Bits
        <5>7. s \in Seq(S)
            BY ONLY <5>4, <5>5, <5>6, Ordered
        <5>8. \A x \in ToSet(s) : x \in S
            BY ONLY <5>7 DEF ToSet
        <5>9. s \in Seq(woken)
            BY ONLY <5>3, <5>7
        <5>10. s \in Seq(Vertices)
          <6>1. woken \in SUBSET Vertices
              BY <5>2
          <6>2. QED BY ONLY <6>1, <5>9
        <5>11. s \in Seq(Nat)
          <6>1. \A x \in woken : x \in Nat
              BY <5>2
          <6>2. \A i \in 1 .. Len(s) : s[i] \in woken
              BY ONLY <5>9
          <6>3. Len(s) \in Nat /\ s = [i \in 1 .. Len(s) |-> s[i]]
              BY ONLY <5>9
          <6>4. \A i \in 1 .. Len(s) : s[i] \in Nat
              BY ONLY <6>1, <6>2
          <6>5. QED BY ONLY <6>3, <6>4
        <5>12. QED BY ONLY <5>3, <5>8, <5>9, <5>10, <5>11
      <4>3. PICK r : r = Resting /\ r \in SearchStates /\ r.v = NoParent /\ r.buffer = <<>>
          BY <1>4, RestingTyped
      <4>4. wk'[t] = [r EXCEPT !.pc = "gather", !.todo = s]
          BY <2>2, <4>1, <4>3
      <4>5. QED BY ONLY <4>2, <4>3, <4>4 DEF SearchStates
    <3>2. wk' \in [team -> SearchStates]
        BY <2>2, <3>1
    <3>3. ASSUME NEW t \in team
          PROVE  AtWork(wk[t])' /\ HoldsVisited(wk[t])'
      <4>1. /\ wk'[t].pc = "gather" /\ wk'[t].v = NoParent /\ wk'[t].todo \in Seq(Vertices')
            /\ phase' = "collect"
          BY <1>4, <2>2, <3>1
      <4>2. /\ \A x \in ToSet(wk'[t].todo) : parent'[x] # NoParent
            /\ \A x \in ToSet(wk'[t].buffer) : parent'[x] # NoParent
        <5>1. \A x \in woken : parent'[x] # NoParent
            BY <1>8, <1>9 DEF Visited
        <5>2. ToSet(wk'[t].buffer) = {}
            BY <3>1 DEF ToSet
        <5>3. QED BY <3>1, <5>1, <5>2
      <4>3. AtWork(wk[t])'
          BY ONLY <4>1 DEF AtWork
      <4>4. HoldsVisited(wk[t])'
          BY ONLY <4>1, <4>2 DEF HoldsVisited, Visited, ToSet
      <4>5. QED BY <4>3, <4>4
    <3>4. QED BY <2>2, <3>1, <3>2, <3>3
  <2>3. QED BY <1>3, <2>1, <2>2
<1>12. SearchWorks'
    BY <1>1, <1>3, <1>4, <1>8, <1>9, <1>10, <1>11 DEF SearchWorks
<1>13. SlotsCovered'
  <2>1. \A i \in 0 .. (window.last - 1) : queue[i] # Garbage
      BY <1>1 DEF SlotsCovered
  <2>2. ASSUME phase' = "collect"
        PROVE  (\A i \in 0 .. (in' - 1) : Covered(i)') /\ \A t \in team : WritesOn(wk[t])'
    <3>1. \A i \in 0 .. (in' - 1) : Covered(i)'
      <4>1. \A i \in 0 .. (in' - 1) : i < N' /\ queue'[i] # Garbage
        <5>1. in' = window.last /\ queue' = queue /\ N' = N
            BY <1>3, <1>4, <1>5
        <5>2. QED BY ONLY <1>5, <2>1, <5>1
      <4>2. QED BY ONLY <4>1 DEF Covered
    <3>2. QED BY <1>11, <2>2, <3>1 DEF WritesOn
  <2>3. QED BY <1>3, <1>4, <1>5, <2>1, <2>2 DEF SlotsCovered, Collecting
<1>14. VisitedOnly'
  <2>1. parent'[Source] = Source
    <3>1. Source \in Vertices /\ parent[Source] = Source /\ Source # NoParent
        BY <1>1, <1>4, <1>7, GraphFacts DEF VisitedOnly
    <3>2. Source \notin woken
        BY <1>2, <3>1
    <3>3. QED BY <1>3, <3>1, <3>2
  <2>2. ASSUME NEW i \in 0 .. (N - 1), queue[i] # Garbage
        PROVE  Visited(queue[i])'
    <3>1. queue[i] \in Vertices /\ Visited(queue[i])
        BY <1>1, <2>2 DEF SearchWorks, VisitedOnly
    <3>2. parent'[queue[i]] # NoParent
        BY <1>8, <3>1 DEF Visited
    <3>3. QED BY <1>3, <3>2 DEF Visited
  <2>3. \A v \in front' : Visited(v)'
      BY <1>3, <1>8, <1>9
  <2>4. QED BY <1>3, <1>4, <1>11, <2>1, <2>2, <2>3 DEF VisitedOnly
<1>15. QED BY <1>12, <1>13, <1>14 DEF SearchInv

LEMMA SearchStart ==
    ASSUME Init
    PROVE  SearchInv
<1>1. /\ adj \in GraphSet /\ team \in Teams
      /\ phase = "choose"
      /\ parent = [v \in Vertices |-> IF v = Source THEN Source ELSE NoParent]
      /\ queue = [i \in 0 .. (N - 1) |-> IF i = 0 THEN Source ELSE Garbage]
      /\ in = 1 /\ window = [first |-> 0, last |-> 1]
      /\ front = {} /\ awake = 0 /\ next = 0 /\ wk = Working("rest")
    BY DEF Init, BfsInit
<1>2. GraphTyped
    BY <1>1 DEF GraphTyped
<1>3. N \in Nat \ {0} /\ Vertices = 0 .. (N - 1) /\ Source \in Vertices
    BY <1>2, GraphFacts
<1>4. NoParent \notin Vertices /\ Garbage \notin Vertices
    BY <1>3 DEF NoParent, Garbage
<1>5. ASSUME NEW t \in team
      PROVE  /\ wk[t] \in SearchStates /\ wk[t].pc = "rest" /\ wk[t].todo = <<>>
             /\ wk[t].v = NoParent /\ wk[t].buffer = <<>> /\ wk[t].word = {}
  <2>1. PICK r : /\ r = Resting /\ r \in SearchStates /\ r.todo = <<>> /\ r.word = {}
                 /\ r.v = NoParent /\ r.buffer = <<>>
      BY <1>2, RestingTyped
  <2>2. wk[t] = [r EXCEPT !.pc = "rest"]
      BY <1>1, <2>1 DEF Working
  <2>3. QED BY ONLY <2>1, <2>2 DEF SearchStates
<1>6. wk \in [team -> SearchStates]
    BY <1>1, <1>5 DEF Working
<1>7. WindowTyped
    BY <1>1, <1>3 DEF WindowTyped
<1>8. \A t \in team : AtWork(wk[t]) /\ HoldsVisited(wk[t])
    BY <1>1, <1>5 DEF AtWork, HoldsVisited, Collecting
<1>9. /\ parent \in [Vertices -> Vertices \cup {NoParent}]
      /\ queue \in [0 .. (N - 1) -> Vertices \cup {Garbage}]
    BY <1>1, <1>3
<1>10. SearchWorks
    BY <1>1, <1>2, <1>3, <1>6, <1>7, <1>8, <1>9 DEF SearchWorks
<1>11. SlotsCovered
    BY <1>1, <1>3, <1>4 DEF SlotsCovered, Collecting
<1>12. VisitedOnly
    BY <1>1, <1>3, <1>4, <1>8 DEF VisitedOnly, Visited
<1>13. QED BY <1>10, <1>11, <1>12 DEF SearchInv

LEMMA SearchKept ==
    ASSUME SearchInv, [Next]_vars
    PROVE  SearchInv'
<1>1. UNCHANGED view /\ (UNCHANGED bfs \/ BfsNext)
    BY StepKinds
<1>2. CASE UNCHANGED bfs
  <2>1. UNCHANGED <<phase, parent, queue, in, window, front, awake, next, wk>>
      BY <1>2 DEF bfs
  <2>2. /\ GraphTyped' = GraphTyped /\ Vertices' = Vertices /\ N' = N /\ team' = team
        /\ SearchStates' = SearchStates
      BY <1>1, SearchUnmoved
  <2>3. \A t : AtWork(wk[t])' = AtWork(wk[t]) /\ HoldsVisited(wk[t])' = HoldsVisited(wk[t])
      BY <2>1, <2>2 DEF AtWork, HoldsVisited, Collecting, Visited, ToSet
  <2>4. WindowTyped' = WindowTyped
      BY <2>1, <2>2 DEF WindowTyped
  <2>5. SearchWorks'
      BY <2>1, <2>2, <2>3, <2>4 DEF SearchInv, SearchWorks
  <2>6. \A i : Covered(i)' = Covered(i)
      BY <2>1, <2>2 DEF Covered, Added
  <2>7. \A t : WritesOn(wk[t])' = WritesOn(wk[t])
      BY <2>1, <2>6 DEF WritesOn
  <2>8. SlotsCovered'
      BY <2>1, <2>2, <2>6, <2>7 DEF SearchInv, SlotsCovered, Collecting
  <2>9. VisitedOnly'
      BY <2>1, <2>2, <2>3 DEF SearchInv, VisitedOnly, Visited
  <2>10. QED BY <2>5, <2>8, <2>9 DEF SearchInv
<1>3. CASE BfsNext
  <2>1. CASE Choose
      BY <1>1, <2>1, ChooseKeeps
  <2>2. CASE EndTopDown
      BY <1>1, <2>2, EndTopDownKeeps
  <2>3. CASE EndMark
      BY <1>1, <2>3, EndMarkKeeps
  <2>4. CASE BUStep
      BY <1>1, <2>4, BUStepKeeps
  <2>5. CASE EndCollect
      BY <1>1, <2>5, EndCollectKeeps
  <2>6. ASSUME NEW t \in team, BfsStep(t)
        PROVE  SearchInv'
    <3>1. CASE Take(t)
        BY <1>1, <3>1, TakeKeeps
    <3>2. CASE Look(t)
        BY <1>1, <3>2, LookKeeps
    <3>3. CASE Swap(t)
        BY <1>1, <3>3, SwapKeeps
    <3>4. CASE FlushFetch(t)
        BY <1>1, <3>4, FlushFetchKeeps
    <3>5. CASE FlushAdd(t)
        BY <1>1, <3>5, FlushAddKeeps
    <3>6. CASE FlushCopy(t)
        BY <1>1, <3>6, FlushCopyKeeps
    <3>7. CASE MarkLoad(t)
        BY <1>1, <3>7, MarkLoadKeeps
    <3>8. CASE MarkCompare(t)
        BY <1>1, <3>8, MarkCompareKeeps
    <3>9. CASE MarkStore(t)
        BY <1>1, <3>9, MarkStoreKeeps
    <3>10. CASE Gather(t)
        BY <1>1, <3>10, GatherKeeps
    <3>11. QED BY <2>6, <3>1, <3>2, <3>3, <3>4, <3>5, <3>6, <3>7, <3>8, <3>9, <3>10 DEF BfsStep
  <2>7. QED BY <1>3, <2>1, <2>2, <2>3, <2>4, <2>5, <2>6 DEF BfsNext
<1>4. QED BY <1>1, <1>2, <1>3

\* What a search reads and writes is there.
LEMMA SearchKnown ==
    ASSUME SearchInv
    PROVE  SearchTyped /\ SlotsWritten
<1>1. SearchTyped
    BY DEF SearchInv, SearchWorks, WindowTyped, SearchTyped
<1>2. SlotsWritten
    BY DEF SearchInv, SlotsCovered, SlotsWritten
<1>3. QED BY <1>1, <1>2

-----------------------------------------------------------------------------
(* Breadth-first search: the tree, for any team. *)

\* A thread that holds a vertex, or looks for one, has it from the frontier.
RankedWorker(s, r, c) ==
    s.pc = "look" \/ s.v # NoParent =>
        /\ Visited(s.from) /\ r[s.from] < c
        /\ ToSet(s.todo) \in SUBSET Neighbours(s.from)
        /\ s.pc = "swap" => s.v \in Neighbours(s.from) /\ r[s.v] = c

\* Every visited vertex but the source has a parent of a lower rank, visited before
\* it.  During a top-down step the vertices of the window are below c, the rank of
\* all that the step may still visit.
Ranked(r, c) ==
    /\ \A v \in Vertices : r[v] <= c
    /\ \A v \in Vertices \ {Source} : Visited(v) =>
          /\ parent[v] \in Vertices /\ Visited(parent[v]) /\ r[parent[v]] < r[v]
          /\ Symmetric => v \in Neighbours(parent[v])
    /\ phase = "topdown" =>
          /\ \A i \in window.first .. (window.last - 1) : r[queue[i]] < c
          /\ \A v \in Vertices : ~Visited(v) => r[v] = c
          /\ \A t \in team : RankedWorker(wk[t], r, c)

TreeInv == \E r \in [Vertices -> Nat], c \in Nat : Ranked(r, c)

LEMMA SymmetricUnmoved ==
    ASSUME UNCHANGED view
    PROVE  Symmetric' = Symmetric
<1>1. Vertices' = Vertices /\ \A v : Neighbours(v)' = Neighbours(v)
    BY SearchUnmoved
<1>2. QED BY <1>1 DEF Symmetric

\* Outside a top-down step only a new parent matters.
LEMMA RankedAway ==
    ASSUME NEW r, NEW c, Ranked(r, c), UNCHANGED <<view, parent>>, phase' # "topdown"
    PROVE  Ranked(r, c)'
<1>1. Vertices' = Vertices /\ Symmetric' = Symmetric /\ \A v : Neighbours(v)' = Neighbours(v)
    BY SearchUnmoved, SymmetricUnmoved
<1>2. \A v : Visited(v)' = Visited(v)
    BY DEF Visited
<1>3. \A v \in Vertices : Visited(parent[v])' = Visited(parent[v])
    BY DEF Visited
<1>4. QED BY <1>1, <1>2, <1>3 DEF Ranked

\* In a top-down step a thread takes one that leaves the window and the parents alone.
LEMMA RankedTurn ==
    ASSUME SearchInv, NEW r, NEW c, Ranked(r, c), UNCHANGED <<view, phase, parent, window>>, phase = "topdown",
           \A i \in window.first .. (window.last - 1) : queue'[i] = queue[i],
           NEW t \in team, NEW s, wk' = [wk EXCEPT ![t] = s], RankedWorker(s, r, c)
    PROVE  Ranked(r, c)'
<1>1. /\ Vertices' = Vertices /\ Symmetric' = Symmetric /\ team' = team
      /\ \A v : Neighbours(v)' = Neighbours(v)
    BY SearchUnmoved, SymmetricUnmoved
<1>2. \A v : Visited(v)' = Visited(v)
    BY DEF Visited
<1>3. \A v \in Vertices : Visited(parent[v])' = Visited(parent[v])
    BY DEF Visited
<1>4. wk'[t] = s /\ \A x \in team : x # t => wk'[x] = wk[x]
    BY DEF SearchInv, SearchWorks
<1>5. ASSUME NEW x \in team
      PROVE  RankedWorker(wk[x], r, c)'
  <2>1. RankedWorker(wk'[x], r, c)
      BY <1>4 DEF Ranked
  <2>2. PICK q : q = wk'[x]
      OBVIOUS
  <2>3. Visited(q.from)' = Visited(q.from)
      BY DEF Visited
  <2>4. RankedWorker(q, r, c)'
      BY <1>1, <2>1, <2>2, <2>3 DEF RankedWorker
  <2>5. QED BY <2>2, <2>4 DEF RankedWorker, Visited, ToSet
<1>6. \A i \in window.first .. (window.last - 1) : r[queue'[i]] < c
    BY DEF Ranked
<1>7. QED BY <1>1, <1>2, <1>3, <1>5, <1>6 DEF Ranked

LEMMA TakeRanks ==
    ASSUME SearchInv, NEW r, NEW c, Ranked(r, c), UNCHANGED view, NEW t \in team, Take(t)
    PROVE  Ranked(r, c)'
<1>1. /\ phase = "topdown" /\ wk[t].pc = "take"
      /\ UNCHANGED <<phase, parent, queue, window>>
    BY DEF Take
<1>2. /\ wk[t] \in SearchStates /\ AtWork(wk[t])
      /\ \A i \in 0 .. (window.last - 1) : queue[i] \in Vertices
      /\ window.last \in Nat /\ window.last <= N /\ window.first \in Nat /\ N \in Nat
    BY WorkerFacts
<1>3. wk[t].v = NoParent
    BY <1>1, <1>2 DEF AtWork
<1>4. CASE next = window.last
  <2>1. PICK s : s = [wk[t] EXCEPT !.pc = "fetch"]
      OBVIOUS
  <2>2. wk' = [wk EXCEPT ![t] = s]
      BY <1>4, <2>1 DEF Take, Set
  <2>3. s.pc = "fetch" /\ s.v = NoParent
      BY <1>2, <1>3, <2>1 DEF SearchStates
  <2>4. RankedWorker(s, r, c)
      BY <2>3 DEF RankedWorker
  <2>5. QED BY <1>1, <2>2, <2>4, RankedTurn
<1>5. CASE next # window.last
  <2>1. PICK u : u = queue[next]
      OBVIOUS
  <2>2. PICK s : s = [wk[t] EXCEPT !.pc = "look", !.from = u, !.todo = adj[u]]
      OBVIOUS
  <2>3. wk' = [wk EXCEPT ![t] = s]
      BY <1>5, <2>1, <2>2 DEF Take, Set
  <2>4. next \in Nat /\ window.first <= next /\ next <= window.last
      BY <1>1 DEF SearchInv, SearchWorks
  <2>5. next \in 0 .. (window.last - 1) /\ next \in window.first .. (window.last - 1) /\ next \in 0 .. (N - 1)
      BY <1>2, <1>5, <2>4
  <2>6. s.pc = "look" /\ s.from = u /\ s.todo = adj[u]
      BY <1>2, <2>2 DEF SearchStates
  <2>7. Visited(u) /\ r[u] < c
    <3>1. queue[next] # Garbage
        BY <2>5 DEF SearchInv, SlotsCovered
    <3>2. Visited(queue[next])
        BY <2>5, <3>1 DEF SearchInv, VisitedOnly
    <3>3. r[queue[next]] < c
        BY <1>1, <2>5 DEF Ranked
    <3>4. QED BY <2>1, <3>2, <3>3
  <2>8. RankedWorker(s, r, c)
      BY <2>6, <2>7 DEF RankedWorker, Neighbours
  <2>9. QED BY <1>1, <2>3, <2>8, RankedTurn
<1>6. QED BY <1>4, <1>5

LEMMA LookRanks ==
    ASSUME SearchInv, NEW r, NEW c, Ranked(r, c), UNCHANGED view, NEW t \in team, Look(t)
    PROVE  Ranked(r, c)'
<1>1. PICK todo, from : todo = wk[t].todo /\ from = wk[t].from
    OBVIOUS
<1>2. PICK s : s = IF todo = <<>> THEN [wk[t] EXCEPT !.pc = "take"]
                   ELSE IF Unvisited(Head(todo))
                   THEN [wk[t] EXCEPT !.pc = "swap", !.v = Head(todo), !.todo = Tail(todo)]
                   ELSE [wk[t] EXCEPT !.todo = Tail(todo)]
    OBVIOUS
<1>3. /\ phase = "topdown" /\ wk[t].pc = "look" /\ UNCHANGED <<phase, parent, queue, window>>
      /\ wk' = [wk EXCEPT ![t] = s]
    BY <1>1, <1>2 DEF Look, Set
<1>4. wk[t] \in SearchStates /\ AtWork(wk[t])
    BY WorkerFacts
<1>5. wk[t].v = NoParent /\ todo \in Seq(Vertices)
    BY <1>1, <1>3, <1>4 DEF AtWork
<1>6. Visited(from) /\ r[from] < c /\ ToSet(todo) \in SUBSET Neighbours(from)
    BY <1>1, <1>3 DEF Ranked, RankedWorker
<1>7. todo # <<>> => Head(todo) \in ToSet(todo) /\ Head(todo) \in Vertices /\ ToSet(Tail(todo)) \in SUBSET ToSet(todo)
  <2>1. SUFFICES ASSUME todo # <<>>
                 PROVE  /\ Head(todo) \in ToSet(todo) /\ Head(todo) \in Vertices
                        /\ ToSet(Tail(todo)) \in SUBSET ToSet(todo)
      OBVIOUS
  <2>2. Head(todo) = todo[1] /\ 1 \in DOMAIN todo /\ Head(todo) \in Vertices
      BY <1>5, <2>1
  <2>3. \A i \in DOMAIN Tail(todo) : i + 1 \in DOMAIN todo /\ Tail(todo)[i] = todo[i + 1]
      BY <1>5, <2>1
  <2>4. QED BY <2>2, <2>3 DEF ToSet
<1>8. CASE todo = <<>>
  <2>1. s.pc = "take" /\ s.v = NoParent
      BY <1>2, <1>4, <1>5, <1>8 DEF SearchStates
  <2>2. RankedWorker(s, r, c)
      BY <2>1 DEF RankedWorker
  <2>3. QED BY <1>3, <2>2, RankedTurn
<1>9. CASE todo # <<>> /\ Unvisited(Head(todo))
  <2>1. s.pc = "swap" /\ s.v = Head(todo) /\ s.todo = Tail(todo) /\ s.from = from
      BY <1>1, <1>2, <1>4, <1>9 DEF SearchStates
  <2>2. r[Head(todo)] = c
      BY <1>3, <1>7, <1>9 DEF Ranked, Unvisited, Visited
  <2>3. RankedWorker(s, r, c)
      BY <1>6, <1>7, <1>9, <2>1, <2>2 DEF RankedWorker
  <2>4. QED BY <1>3, <2>3, RankedTurn
<1>10. CASE todo # <<>> /\ ~Unvisited(Head(todo))
  <2>1. s.pc = "look" /\ s.todo = Tail(todo) /\ s.from = from
      BY <1>1, <1>2, <1>3, <1>4, <1>10 DEF SearchStates
  <2>2. RankedWorker(s, r, c)
      BY <1>6, <1>7, <1>10, <2>1 DEF RankedWorker
  <2>3. QED BY <1>3, <2>2, RankedTurn
<1>11. QED BY <1>8, <1>9, <1>10

LEMMA SwapRanks ==
    ASSUME SearchInv, NEW r \in [Vertices -> Nat], NEW c \in Nat, Ranked(r, c),
           UNCHANGED view, NEW t \in team, Swap(t)
    PROVE  Ranked(r, c)'
<1>1. PICK s : s = IF Len(wk[t].buffer) = BufferSize
                   THEN [wk[t] EXCEPT !.pc = "fetch"]
                   ELSE [wk[t] EXCEPT !.pc = "look", !.buffer = Append(@, wk[t].v), !.v = NoParent]
    OBVIOUS
<1>2. PICK v, from : v = wk[t].v /\ from = wk[t].from
    OBVIOUS
<1>3. /\ phase = "topdown" /\ wk[t].pc = "swap" /\ wk' = [wk EXCEPT ![t] = s]
      /\ parent' = [parent EXCEPT ![v] = from]
      /\ UNCHANGED <<phase, queue, window>>
    BY <1>1, <1>2 DEF Swap, Set
<1>4. /\ wk[t] \in SearchStates /\ AtWork(wk[t]) /\ Source \in Vertices /\ Vertices \in SUBSET Nat
    BY WorkerFacts
<1>5. v \in Vertices /\ v # Source /\ from \in Vertices /\ v # NoParent
    BY <1>2, <1>3, <1>4 DEF AtWork, SearchStates, NoParent
<1>6. /\ Visited(from) /\ r[from] < c /\ ToSet(wk[t].todo) \in SUBSET Neighbours(from)
      /\ v \in Neighbours(from) /\ r[v] = c
    BY <1>2, <1>3, <1>5 DEF Ranked, RankedWorker
<1>7. parent \in [Vertices -> Vertices \cup {NoParent}] /\ NoParent \notin Vertices
    BY <1>4 DEF SearchInv, SearchWorks, NoParent
<1>8. parent'[v] = from /\ \A x \in Vertices : x # v => parent'[x] = parent[x]
    BY <1>3, <1>5, <1>7
<1>9. \A x \in Vertices : Visited(x)' <=> Visited(x) \/ x = v
    BY <1>5, <1>7, <1>8 DEF Visited
<1>10. /\ Vertices' = Vertices /\ Symmetric' = Symmetric /\ team' = team
       /\ \A x : Neighbours(x)' = Neighbours(x)
    BY SearchUnmoved, SymmetricUnmoved
<1>11. wk'[t] = s /\ \A x \in team : x # t => wk'[x] = wk[x]
    BY <1>3 DEF SearchInv, SearchWorks
<1>12. s.from = from /\ s.todo = wk[t].todo /\ s.pc # "swap"
  <2>1. CASE Len(wk[t].buffer) = BufferSize
      BY <1>1, <1>2, <1>4, <2>1 DEF SearchStates
  <2>2. CASE Len(wk[t].buffer) # BufferSize
      BY <1>1, <1>2, <1>4, <2>2 DEF SearchStates
  <2>3. QED BY <2>1, <2>2
<1>13. ASSUME NEW x \in team
       PROVE  RankedWorker(wk[x], r, c)'
  <2>1. PICK q : q = wk'[x]
      OBVIOUS
  <2>2. RankedWorker(q, r, c)
    <3>1. CASE x = t
        BY <1>6, <1>11, <1>12, <2>1, <3>1 DEF RankedWorker
    <3>2. CASE x # t
        BY <1>3, <1>11, <2>1, <3>2 DEF Ranked
    <3>3. QED BY <3>1, <3>2
  <2>3. q.from \in Vertices
    <3>1. q = s \/ q = wk[x]
        BY <1>11, <2>1
    <3>2. wk[x].from \in Vertices
        BY DEF SearchInv, SearchWorks, SearchStates
    <3>3. QED BY <1>5, <1>12, <3>1, <3>2
  <2>4. Visited(q.from) => Visited(q.from)'
      BY <1>9, <2>3 DEF Visited
  <2>5. RankedWorker(q, r, c)'
      BY <1>10, <2>1, <2>2, <2>4 DEF RankedWorker
  <2>6. QED BY <2>1, <2>5 DEF RankedWorker, Visited, ToSet
<1>14. ASSUME NEW x \in Vertices \ {Source}, Visited(x)'
       PROVE  /\ parent'[x] \in Vertices /\ Visited(parent[x])' /\ r[parent'[x]] < r[x]
              /\ Symmetric => x \in Neighbours(parent'[x])
  <2>1. CASE x = v
    <3>1. parent'[x] = from /\ Visited(from)'
        BY <1>5, <1>6, <1>8, <1>9, <2>1
    <3>2. Visited(parent[x])'
        BY <3>1 DEF Visited
    <3>3. QED BY <1>5, <1>6, <2>1, <3>1, <3>2
  <2>2. CASE x # v
    <3>1. parent'[x] = parent[x] /\ Visited(x)
        BY <1>8, <1>9, <1>14, <2>2
    <3>2. /\ parent[x] \in Vertices /\ Visited(parent[x]) /\ r[parent[x]] < r[x]
          /\ Symmetric => x \in Neighbours(parent[x])
        BY <3>1 DEF Ranked
    <3>3. Visited(parent[x])'
        BY <1>9, <3>1, <3>2 DEF Visited
    <3>4. QED BY <3>1, <3>2, <3>3
  <2>3. QED BY <2>1, <2>2
<1>15. \A x \in Vertices : ~Visited(x)' => r[x] = c
    BY <1>3, <1>9 DEF Ranked
<1>16. \A x \in Vertices : r[x] <= c
    BY DEF Ranked
<1>17. \A i \in window.first .. (window.last - 1) : r[queue[i]] < c
    BY <1>3 DEF Ranked
<1>18. QED BY <1>3, <1>10, <1>13, <1>14, <1>15, <1>16, <1>17 DEF Ranked

\* The steps of a flush keep what the thread holds, and write below the window.
LEMMA FlushRanks ==
    ASSUME SearchInv, NEW r, NEW c, Ranked(r, c), UNCHANGED view, NEW t \in team,
           FlushFetch(t) \/ FlushAdd(t) \/ FlushCopy(t)
    PROVE  Ranked(r, c)'
<1>1. /\ Collecting /\ wk[t].pc \in {"fetch", "add", "copy"} /\ UNCHANGED <<parent, window>>
      /\ phase' = phase \/ phase' = "lost"
    BY DEF FlushFetch, FlushAdd, FlushCopy
<1>2. CASE phase # "topdown" \/ phase' = "lost"
    BY <1>1, <1>2, RankedAway
<1>3. CASE phase = "topdown" /\ phase' # "lost"
  <2>1. phase = "topdown" /\ phase' = phase
      BY <1>1, <1>3
  <2>2. /\ wk[t] \in SearchStates /\ WritesOn(wk[t]) /\ N \in Nat /\ window.last \in Nat /\ window.first \in Nat
        /\ window.last <= N
      BY <1>1, WorkerFacts
  <2>3. RankedWorker(wk[t], r, c)
      BY <2>1 DEF Ranked
  <2>4. ASSUME NEW s, wk' = [wk EXCEPT ![t] = s], s.from = wk[t].from, s.todo = wk[t].todo, s.pc # "swap",
               s.pc = "look" \/ s.v # NoParent => wk[t].v # NoParent,
               \A i \in window.first .. (window.last - 1) : queue'[i] = queue[i]
        PROVE  Ranked(r, c)'
    <3>1. RankedWorker(s, r, c)
        BY <2>3, <2>4 DEF RankedWorker
    <3>2. QED BY <1>1, <2>1, <2>4, <3>1, RankedTurn
  <2>5. CASE FlushFetch(t)
    <3>1. PICK s : s = [wk[t] EXCEPT !.pc = "add", !.base = in]
        OBVIOUS
    <3>2. wk' = [wk EXCEPT ![t] = s] /\ queue' = queue
        BY <2>5, <3>1 DEF FlushFetch, Set
    <3>3. s.from = wk[t].from /\ s.todo = wk[t].todo /\ s.pc = "add" /\ s.v = wk[t].v
        BY <2>2, <3>1 DEF SearchStates
    <3>4. QED BY <2>4, <3>2, <3>3
  <2>6. CASE FlushAdd(t)
    <3>1. PICK s : s = [wk[t] EXCEPT !.pc = "copy"]
        OBVIOUS
    <3>2. wk' = [wk EXCEPT ![t] = s] /\ queue' = queue
        BY <2>6, <3>1 DEF FlushAdd, Set
    <3>3. s.from = wk[t].from /\ s.todo = wk[t].todo /\ s.pc = "copy" /\ s.v = wk[t].v
        BY <2>2, <3>1 DEF SearchStates
    <3>4. QED BY <2>4, <3>2, <3>3
  <2>7. CASE FlushCopy(t)
    <3>1. wk[t].pc = "copy"
        BY <2>7 DEF FlushCopy
    <3>2. PICK w : w = [wk[t] EXCEPT !.buffer = <<>>]
        OBVIOUS
    <3>3. PICK s : s = IF w.v # NoParent
                       THEN [w EXCEPT !.pc = "look", !.buffer = <<w.v>>, !.v = NoParent]
                       ELSE [w EXCEPT !.pc = IF phase = "collect" /\ w.todo # <<>> THEN "gather" ELSE "rest"]
        OBVIOUS
    <3>4. wk' = [wk EXCEPT ![t] = s]
        BY <1>3, <2>7, <3>2, <3>3 DEF FlushCopy, Set
    <3>5. w.from = wk[t].from /\ w.todo = wk[t].todo /\ w.v = wk[t].v /\ DOMAIN w = DOMAIN wk[t]
        BY <2>2, <3>2 DEF SearchStates
    <3>6. /\ s.from = wk[t].from /\ s.todo = wk[t].todo /\ s.pc # "swap"
          /\ s.pc = "look" \/ s.v # NoParent => wk[t].v # NoParent
      <4>1. DOMAIN w = {"pc", "todo", "from", "v", "word", "buffer", "base"}
          BY <2>2, <3>5 DEF SearchStates
      <4>2. CASE w.v # NoParent
        <5>1. s.from = w.from /\ s.todo = w.todo /\ s.pc = "look"
            BY <3>3, <4>1, <4>2
        <5>2. QED BY <3>5, <4>2, <5>1
      <4>3. CASE w.v = NoParent
        <5>1. s.from = w.from /\ s.todo = w.todo /\ s.pc \in {"gather", "rest"} /\ s.v = NoParent
            BY <3>3, <4>1, <4>3
        <5>2. QED BY <3>5, <5>1
      <4>4. QED BY <4>2, <4>3
    <3>7. \A i \in window.first .. (window.last - 1) : queue'[i] = queue[i]
      <4>1. PICK b, end : b = wk[t].base /\ end = b + Len(wk[t].buffer)
          OBVIOUS
      <4>2. /\ b \in Nat /\ end \in Nat /\ window.last <= b
            /\ \A i \in 0 .. (N - 1) : i \notin b .. (end - 1) => queue'[i] = queue[i]
          BY <1>1, <1>3, <2>7, <3>1, <4>1, CopyWrites
      <4>3. QED BY <2>2, <4>2
    <3>8. QED BY <2>4, <3>4, <3>6, <3>7
  <2>8. QED BY <2>5, <2>6, <2>7
<1>4. QED BY <1>2, <1>3

\* What is visited later ranks above all that was visited.
LEMMA NextRank ==
    ASSUME GraphTyped, NEW r \in [Vertices -> Nat], NEW c \in Nat
    PROVE  LET q == [v \in Vertices |-> IF Visited(v) THEN r[v] ELSE c + 1]
           IN  /\ q \in [Vertices -> Nat] /\ c + 1 \in Nat
               /\ \A v \in Vertices : q[v] = IF Visited(v) THEN r[v] ELSE c + 1
OBVIOUS

LEMMA ChooseRanks ==
    ASSUME SearchInv, TreeInv, UNCHANGED view, Choose
    PROVE  TreeInv'
<1>1. Vertices' = Vertices /\ UNCHANGED <<parent, queue, window>> /\ team' = team
    BY SearchUnmoved DEF Choose
<1>2. PICK r \in [Vertices -> Nat], c \in Nat : Ranked(r, c)
    BY DEF TreeInv
<1>3. CASE phase' # "topdown"
  <2>1. Ranked(r, c)'
      BY <1>1, <1>2, <1>3, RankedAway
  <2>2. QED BY <1>1, <1>2, <2>1 DEF TreeInv
<1>4. CASE phase' = "topdown"
  <2>1. wk' = Working("take")
      BY <1>4 DEF Choose
  <2>2. GraphTyped
      BY DEF SearchInv, SearchWorks
  <2>3. PICK q : q = [v \in Vertices |-> IF Visited(v) THEN r[v] ELSE c + 1]
      OBVIOUS
  <2>4. /\ q \in [Vertices -> Nat] /\ c + 1 \in Nat
        /\ \A v \in Vertices : q[v] = IF Visited(v) THEN r[v] ELSE c + 1
      BY <1>2, <2>2, <2>3, NextRank
  <2>5. \A v \in Vertices : r[v] <= c /\ r[v] \in Nat
      BY <1>2 DEF Ranked
  <2>6. Symmetric' = Symmetric /\ \A v : Neighbours(v)' = Neighbours(v)
      BY SearchUnmoved, SymmetricUnmoved
  <2>7. \A v : Visited(v)' = Visited(v)
      BY <1>1 DEF Visited
  <2>8. \A v \in Vertices : q[v] <= c + 1
      BY <2>4, <2>5
  <2>9. ASSUME NEW v \in Vertices \ {Source}, Visited(v)
        PROVE  /\ parent[v] \in Vertices /\ Visited(parent[v])' /\ q[parent[v]] < q[v]
               /\ Symmetric => v \in Neighbours(parent[v])
    <3>1. /\ parent[v] \in Vertices /\ Visited(parent[v]) /\ r[parent[v]] < r[v]
          /\ Symmetric => v \in Neighbours(parent[v])
        BY <1>2, <2>9 DEF Ranked
    <3>2. Visited(parent[v])'
        BY <1>1, <3>1 DEF Visited
    <3>3. QED BY <2>4, <2>9, <3>1, <3>2
  <2>10. ASSUME NEW i \in window.first .. (window.last - 1)
         PROVE  q[queue[i]] < c + 1
    <3>1. window.last \in Nat /\ window.first \in Nat /\ window.last <= N /\ N \in Nat
        BY <2>2, GraphFacts DEF SearchInv, SearchWorks, WindowTyped
    <3>2. i \in 0 .. (N - 1) /\ i \in 0 .. (window.last - 1)
        BY <3>1
    <3>3. queue[i] # Garbage
        BY <3>2 DEF SearchInv, SlotsCovered
    <3>4. queue[i] \in Vertices /\ Visited(queue[i])
        BY <3>2, <3>3 DEF SearchInv, SearchWorks, VisitedOnly
    <3>5. QED BY <2>4, <2>5, <3>4
  <2>11. \A v \in Vertices : ~Visited(v) => q[v] = c + 1
      BY <2>4
  <2>12. \A t \in team : RankedWorker(wk[t], q, c + 1)'
    <3>1. \A t \in team : wk'[t].pc = "take" /\ wk'[t].v = NoParent
        BY <2>1 DEF Working, Resting
    <3>2. QED BY <3>1 DEF RankedWorker
  <2>13. Ranked(q, c + 1)'
    <3>2. QED BY <1>1, <2>6, <2>7, <2>8, <2>9, <2>10, <2>11, <2>12 DEF Ranked
  <2>14. QED BY <1>1, <2>4, <2>13 DEF TreeInv
<1>5. QED BY <1>3, <1>4

LEMMA BUStepRanks ==
    ASSUME SearchInv, TreeInv, UNCHANGED view, BUStep
    PROVE  TreeInv'
<1>1. PICK r \in [Vertices -> Nat], c \in Nat : Ranked(r, c)
    BY DEF TreeInv
<1>2. PICK woken : woken = {v \in Vertices : parent[v] = NoParent /\ Waking(v) # {}}
    OBVIOUS
<1>3. /\ parent' = [v \in Vertices |-> IF v \in woken THEN Waker(v) ELSE parent[v]]
      /\ phase' \in {"bottomup", "collect"}
    BY <1>2 DEF BUStep
<1>4. GraphTyped /\ Source \in Vertices /\ NoParent \notin Vertices
  <2>1. GraphTyped
      BY DEF SearchInv, SearchWorks
  <2>2. QED BY <2>1, GraphFacts DEF NoParent
<1>5. \A v \in woken : /\ v \in Vertices /\ ~Visited(v) /\ Waker(v) \in Vertices
                       /\ Waker(v) \in front /\ Waker(v) \in Neighbours(v)
    BY <1>2, <1>4, WakerFacts DEF Visited
<1>6. \A v \in Vertices : Visited(v)' <=> Visited(v) \/ v \in woken
    BY <1>3, <1>4, <1>5 DEF Visited
<1>7. PICK q : q = [v \in Vertices |-> IF Visited(v) THEN r[v] ELSE c + 1]
    OBVIOUS
<1>8. /\ q \in [Vertices -> Nat] /\ c + 1 \in Nat
      /\ \A v \in Vertices : q[v] = IF Visited(v) THEN r[v] ELSE c + 1
    BY <1>1, <1>4, <1>7, NextRank
<1>9. \A v \in Vertices : r[v] <= c /\ r[v] \in Nat
    BY <1>1 DEF Ranked
<1>10. /\ Vertices' = Vertices /\ Symmetric' = Symmetric /\ \A v : Neighbours(v)' = Neighbours(v)
    BY SearchUnmoved, SymmetricUnmoved
<1>11. \A v \in Vertices : q[v] <= c + 1
    BY <1>8, <1>9
<1>12. ASSUME NEW v \in Vertices \ {Source}, Visited(v)'
       PROVE  /\ parent'[v] \in Vertices /\ parent'[parent'[v]] # NoParent /\ q[parent'[v]] < q[v]
              /\ Symmetric => v \in Neighbours(parent'[v])
  <2>1. CASE v \in woken
    <3>1. /\ parent'[v] = Waker(v) /\ Waker(v) \in Vertices /\ Waker(v) \in front
          /\ Waker(v) \in Neighbours(v) /\ ~Visited(v)
        BY <1>3, <1>5, <2>1
    <3>2. PICK w \in Vertices : w = Waker(v)
        BY <3>1
    <3>3. Visited(w)
        BY <3>1, <3>2 DEF SearchInv, VisitedOnly
    <3>4. parent'[w] # NoParent
        BY <1>6, <3>2, <3>3 DEF Visited
    <3>5. q[w] < q[v]
        BY <1>8, <1>9, <3>1, <3>2, <3>3
    <3>6. Symmetric => v \in Neighbours(w)
        BY <3>1, <3>2 DEF Symmetric
    <3>7. QED BY <3>1, <3>2, <3>4, <3>5, <3>6
  <2>2. CASE v \notin woken
    <3>1. parent'[v] = parent[v] /\ Visited(v)
        BY <1>3, <1>6, <1>12, <2>2
    <3>2. /\ parent[v] \in Vertices /\ Visited(parent[v]) /\ r[parent[v]] < r[v]
          /\ Symmetric => v \in Neighbours(parent[v])
        BY <1>1, <3>1 DEF Ranked
    <3>3. PICK w \in Vertices : w = parent[v]
        BY <3>2
    <3>4. parent'[w] # NoParent
        BY <1>6, <3>2, <3>3 DEF Visited
    <3>5. Visited(w) /\ Visited(v) /\ r[w] < r[v] /\ (Symmetric => v \in Neighbours(w))
        BY <3>1, <3>2, <3>3
    <3>6. q[w] < q[v]
        BY <1>8, <3>5
    <3>7. QED BY <3>1, <3>3, <3>4, <3>5, <3>6
  <2>3. QED BY <2>1, <2>2
<1>13. Ranked(q, c + 1)'
  <2>1. \A v \in Vertices : Visited(parent[v])' <=> parent'[parent'[v]] # NoParent
      BY DEF Visited
  <2>2. \A v \in Vertices \ {Source} : Visited(v)' =>
           /\ parent'[v] \in Vertices /\ Visited(parent[v])' /\ q[parent'[v]] < q[v]
           /\ Symmetric => v \in Neighbours(parent'[v])
      BY <1>12, <2>1 DEF Visited
  <2>3. QED BY <1>3, <1>10, <1>11, <2>2 DEF Ranked
<1>14. QED BY <1>8, <1>10, <1>13 DEF TreeInv

LEMMA TreeStart ==
    ASSUME Init
    PROVE  TreeInv
<1>1. /\ phase = "choose" /\ parent = [v \in Vertices |-> IF v = Source THEN Source ELSE NoParent]
    BY DEF Init, BfsInit
<1>2. PICK r : r = [v \in Vertices |-> 0]
    OBVIOUS
<1>3. r \in [Vertices -> Nat] /\ 0 \in Nat /\ \A v \in Vertices : r[v] = 0
    BY <1>2
<1>4. \A v \in Vertices \ {Source} : ~Visited(v)
    BY <1>1 DEF Visited
<1>5. Ranked(r, 0)
    BY <1>1, <1>3, <1>4 DEF Ranked
<1>6. QED BY <1>3, <1>5 DEF TreeInv

LEMMA TreeKept ==
    ASSUME SearchInv, TreeInv, [Next]_vars
    PROVE  TreeInv'
<1>1. UNCHANGED view /\ (UNCHANGED bfs \/ BfsNext)
    BY StepKinds
<1>2. PICK r \in [Vertices -> Nat], c \in Nat : Ranked(r, c)
    BY DEF TreeInv
<1>3. Vertices' = Vertices /\ team' = team
    BY <1>1, SearchUnmoved
<1>4. SUFFICES ASSUME ~(Choose \/ BUStep)
               PROVE  Ranked(r, c)'
  <2>1. CASE Choose
      BY <1>1, <2>1, ChooseRanks
  <2>2. CASE BUStep
      BY <1>1, <2>2, BUStepRanks
  <2>3. QED BY <1>2, <1>3, <2>1, <2>2 DEF TreeInv
<1>5. CASE UNCHANGED bfs
  <2>1. UNCHANGED <<phase, parent, queue, window, wk>>
      BY <1>5 DEF bfs
  <2>2. Symmetric' = Symmetric /\ \A v : Neighbours(v)' = Neighbours(v)
      BY <1>1, SearchUnmoved, SymmetricUnmoved
  <2>3. \A v : Visited(v)' = Visited(v) /\ Visited(parent[v])' = Visited(parent[v])
      BY <2>1 DEF Visited
  <2>4. \A t : RankedWorker(wk[t], r, c)' = RankedWorker(wk[t], r, c)
      BY <2>1, <2>2 DEF RankedWorker, Visited, ToSet
  <2>5. QED BY <1>2, <1>3, <2>1, <2>2, <2>3, <2>4 DEF Ranked
<1>6. CASE EndTopDown \/ EndMark \/ EndCollect
  <2>1. parent' = parent /\ phase' # "topdown"
      BY <1>6 DEF EndTopDown, EndMark, EndCollect
  <2>2. QED BY <1>1, <1>2, <2>1, RankedAway
<1>7. ASSUME NEW t \in team, BfsStep(t)
      PROVE  Ranked(r, c)'
  <2>1. CASE Take(t)
      BY <1>1, <1>2, <2>1, TakeRanks
  <2>2. CASE Look(t)
      BY <1>1, <1>2, <2>2, LookRanks
  <2>3. CASE Swap(t)
      BY <1>1, <1>2, <2>3, SwapRanks
  <2>4. CASE FlushFetch(t) \/ FlushAdd(t) \/ FlushCopy(t)
      BY <1>1, <1>2, <2>4, FlushRanks
  <2>5. CASE MarkLoad(t) \/ MarkCompare(t) \/ MarkStore(t) \/ Gather(t)
    <3>1. parent' = parent /\ phase' # "topdown"
        BY <2>5 DEF MarkLoad, MarkCompare, MarkStore, Gather
    <3>2. QED BY <1>1, <1>2, <3>1, RankedAway
  <2>6. QED BY <1>7, <2>1, <2>2, <2>3, <2>4, <2>5 DEF BfsStep
<1>8. QED BY <1>1, <1>4, <1>5, <1>6, <1>7 DEF BfsNext

\* One step up.
Above(x) == IF x = NoParent THEN NoParent ELSE parent[x]

\* What Climb computes is what any way up from the vertex has at that place.
LEMMA ClimbIs ==
    ASSUME NEW v, NEW k \in Nat, NEW f, f[0] = v, \A i \in 0 .. (k - 1) : f[i + 1] = Above(f[i])
    PROVE  Climb(v, k) = f[k]
<1> DEFINE P(g) == g = [i \in 0 .. k |-> IF i = 0 THEN v ELSE IF g[i - 1] = NoParent THEN NoParent ELSE parent[g[i - 1]]]
<1>1. Climb(v, k) = (CHOOSE g : P(g))[k]
    BY DEF Climb
<1>2. PICK h : h = [i \in 0 .. k |-> f[i]]
    OBVIOUS
<1>3. P(h)
  <2>1. ASSUME NEW i \in 0 .. k
        PROVE  f[i] = IF i = 0 THEN v ELSE IF h[i - 1] = NoParent THEN NoParent ELSE parent[h[i - 1]]
    <3>1. CASE i = 0
        BY <3>1
    <3>2. CASE i # 0
      <4>1. i - 1 \in 0 .. (k - 1) /\ i - 1 \in 0 .. k /\ (i - 1) + 1 = i
          BY <3>2
      <4>2. h[i - 1] = f[i - 1] /\ f[i] = Above(f[i - 1])
          BY <1>2, <4>1
      <4>3. QED BY <3>2, <4>2 DEF Above
    <3>3. QED BY <3>1, <3>2
  <2>2. QED BY ONLY <1>2, <2>1
<1>4. ASSUME NEW g, P(g)
      PROVE  g[k] = f[k]
  <2>1. \A i \in 0 .. k : g[i] = IF i = 0 THEN v ELSE IF g[i - 1] = NoParent THEN NoParent ELSE parent[g[i - 1]]
      BY <1>4
  <2> HIDE DEF P
  <2> DEFINE S == {i \in 0 .. k : g[i] = f[i]}
  <2>2. 0 \in S
      BY <2>1
  <2>3. ASSUME NEW i \in 0 .. (k - 1), i \in S
        PROVE  i + 1 \in S
    <3>1. i + 1 \in 0 .. k /\ i + 1 # 0 /\ (i + 1) - 1 = i /\ g[i] = f[i]
        BY <2>3
    <3>2. g[i + 1] = IF g[i] = NoParent THEN NoParent ELSE parent[g[i]]
        BY <2>1, <3>1
    <3>3. f[i + 1] = Above(f[i])
        OBVIOUS
    <3>4. QED BY <3>1, <3>2, <3>3 DEF Above
  <2> HIDE DEF S
  <2>4. \A i \in 0 .. (k - 1) : i \in S => i + 1 \in S
      BY <2>3
  <2>5. \A i \in 0 .. k : i \in S
      BY ONLY <2>2, <2>4, k \in Nat, UpTo
  <2>6. k \in S
      BY <2>5
  <2>7. QED BY <2>6 DEF S
<1> HIDE DEF P
<1>5. P(CHOOSE g : P(g))
    BY <1>3
<1>6. QED BY <1>1, <1>4, <1>5

\* Each step of Climb goes from a vertex to its parent.
LEMMA ClimbSteps ==
    ASSUME SearchWorks, NEW v \in Vertices, NEW k \in Nat
    PROVE  Climb(v, 0) = v /\ Climb(v, k + 1) = Above(Climb(v, k))
<1> DEFINE G == [x \in Vertices \cup {NoParent} |-> Above(x)]
<1>1. \A x \in Vertices \cup {NoParent} : G[x] = Above(x) /\ Above(x) \in Vertices \cup {NoParent}
    BY DEF SearchWorks, Above
<1> HIDE DEF G
<1>2. k + 1 \in Nat
    OBVIOUS
<1>3. PICK f : Iterates(f, v, G, k + 1)
    BY <1>2, IteratesExist
<1>4. f[0] = v /\ \A i \in 0 .. ((k + 1) - 1) : f[i + 1] = G[f[i]]
    BY ONLY <1>2, <1>3, IteratesStep
<1> DEFINE S == {i \in 0 .. (k + 1) : f[i] \in Vertices \cup {NoParent}}
<1>5. \A i \in 0 .. (k + 1) : i \in S
  <2>1. 0 \in S
      BY <1>4
  <2>2. ASSUME NEW i \in 0 .. ((k + 1) - 1), i \in S
        PROVE  i + 1 \in S
    <3>1. f[i] \in Vertices \cup {NoParent} /\ f[i + 1] = G[f[i]] /\ i + 1 \in 0 .. (k + 1)
        BY <1>4, <2>2
    <3>2. QED BY <1>1, <3>1
  <2> HIDE DEF S
  <2>3. \A i \in 0 .. ((k + 1) - 1) : i \in S => i + 1 \in S
      BY <2>2
  <2>4. QED BY ONLY <1>2, <2>1, <2>3, UpTo
<1>6. \A i \in 0 .. k : f[i + 1] = Above(f[i])
  <2>1. TAKE i \in 0 .. k
  <2>2. i \in 0 .. ((k + 1) - 1) /\ i \in S
      BY <1>5
  <2>3. QED BY <1>1, <1>4, <2>2 DEF S
<1>7. Climb(v, 0) = f[0]
    BY <1>4, ClimbIs
<1>8. Climb(v, k) = f[k]
  <2>1. \A i \in 0 .. (k - 1) : f[i + 1] = Above(f[i])
      BY <1>6
  <2>2. QED BY ONLY <1>4, <2>1, ClimbIs, k \in Nat
<1>9. Climb(v, k + 1) = f[k + 1]
  <2>1. \A i \in 0 .. ((k + 1) - 1) : f[i + 1] = Above(f[i])
      BY <1>6
  <2>2. QED BY ONLY <1>2, <1>4, <2>1, ClimbIs
<1>10. QED BY <1>4, <1>6, <1>7, <1>8, <1>9

\* The ranks fall on the way up, so that it meets the source before it has made as
\* many steps as there are vertices.
LEMMA ClimbEnds ==
    ASSUME SearchInv, TreeInv, NEW v \in Vertices, Visited(v)
    PROVE  Climb(v, N) = Source
<1>1. PICK r \in [Vertices -> Nat], c \in Nat : Ranked(r, c)
    BY DEF TreeInv
<1>2. SearchWorks /\ parent[Source] = Source
    BY DEF SearchInv, VisitedOnly
<1>3. N \in Nat \ {0} /\ IsFiniteSet(Vertices) /\ Cardinality(Vertices) = N /\ Source \in Vertices
      /\ NoParent \notin Vertices
    BY <1>2, GraphFacts DEF SearchWorks, N, NoParent
<1>4. \A x \in Vertices \ {Source} : Visited(x) =>
         parent[x] \in Vertices /\ Visited(parent[x]) /\ r[parent[x]] < r[x]
    BY <1>1 DEF Ranked
<1> DEFINE Lower(x) == {y \in Vertices : r[y] < r[x]}
           C(x) == Cardinality(Lower(x))
<1>5. \A x \in Vertices : IsFiniteSet(Lower(x)) /\ C(x) \in Nat /\ C(x) <= N - 1
  <2>1. TAKE x \in Vertices
  <2>2. Lower(x) \in SUBSET Vertices /\ x \notin Lower(x)
      BY <1>1
  <2> HIDE DEF Lower
  <2>3. IsFiniteSet(Lower(x)) /\ C(x) <= N
      BY <1>3, <2>2, FS_Subset
  <2>4. C(x) # N
      BY <1>3, <2>2, FS_Subset
  <2>5. C(x) \in Nat
      BY <2>3, FS_CardinalityType
  <2>6. QED BY <1>3, <2>3, <2>4, <2>5
<1>6. ASSUME NEW x \in Vertices, NEW y \in Vertices, r[y] < r[x]
      PROVE  C(y) + 1 <= C(x)
  <2>1. Lower(y) \in SUBSET Lower(x) /\ y \in Lower(x) /\ y \notin Lower(y)
      BY <1>1, <1>6
  <2>2. IsFiniteSet(Lower(x)) /\ IsFiniteSet(Lower(y)) /\ C(x) \in Nat /\ C(y) \in Nat
      BY <1>5
  <2> HIDE DEF Lower
  <2>3. C(y) <= C(x)
      BY <2>1, <2>2, FS_Subset
  <2>4. C(y) # C(x)
      BY <2>1, <2>2, FS_Subset
  <2>5. QED BY <2>2, <2>3, <2>4
<1> HIDE DEF C
<1> DEFINE S == {i \in 0 .. N : /\ Climb(v, i) \in Vertices /\ Visited(Climb(v, i))
                                /\ Climb(v, i) = Source \/ C(Climb(v, i)) + i <= N - 1}
<1>7. 0 \in S
  <2>1. Climb(v, 0) = v
      BY <1>2, ClimbSteps
  <2>2. C(v) \in Nat /\ C(v) <= N - 1
      BY <1>5
  <2>3. QED BY <1>3, <2>1, <2>2
<1>8. ASSUME NEW i \in 0 .. (N - 1), i \in S
      PROVE  i + 1 \in S
  <2>1. PICK x : x = Climb(v, i)
      OBVIOUS
  <2>2. i \in Nat /\ i + 1 \in 0 .. N
      BY <1>3
  <2>3. Climb(v, i + 1) = Above(x)
      BY <1>2, <2>1, <2>2, ClimbSteps
  <2>4. x \in Vertices /\ Visited(x) /\ (x = Source \/ C(x) + i <= N - 1)
      BY <1>8, <2>1
  <2>5. Above(x) = parent[x]
      BY <1>3, <2>4 DEF Above
  <2>6. CASE x = Source
      BY <1>2, <2>2, <2>3, <2>4, <2>5, <2>6
  <2>7. CASE x # Source
    <3>1. PICK y : y = parent[x]
        OBVIOUS
    <3>2. y \in Vertices /\ Visited(y) /\ r[y] < r[x]
        BY <1>4, <2>4, <2>7, <3>1
    <3>3. C(y) + 1 <= C(x) /\ C(x) \in Nat /\ C(y) \in Nat
        BY <1>5, <1>6, <2>4, <3>2
    <3>4. C(y) + (i + 1) <= N - 1
        BY <1>3, <2>2, <2>4, <2>7, <3>3
    <3>5. QED BY <2>2, <2>3, <2>5, <3>1, <3>2, <3>4
  <2>8. QED BY <2>6, <2>7
<1> HIDE DEF S
<1>9. N \in S
  <2>1. \A i \in 0 .. (N - 1) : i \in S => i + 1 \in S
      BY <1>8
  <2>2. N \in Nat
      BY <1>3
  <2>3. \A i \in 0 .. N : i \in S
      BY ONLY <1>7, <2>1, <2>2, UpTo
  <2>4. QED BY <2>2, <2>3
<1>10. PICK x : x = Climb(v, N)
    OBVIOUS
<1>11. x \in Vertices /\ (x = Source \/ C(x) + N <= N - 1)
    BY <1>9, <1>10 DEF S
<1>12. x = Source
  <2>1. C(x) \in Nat
      BY <1>5, <1>11
  <2>2. QED BY <1>3, <1>11, <2>1
<1>13. QED BY <1>10, <1>12

LEMMA TreeIsSound ==
    ASSUME SearchInv, TreeInv
    PROVE  TreeSound
<1>1. ASSUME Symmetric, NEW v \in Vertices, parent[v] # NoParent
      PROVE  (v = Source \/ v \in Neighbours(parent[v])) /\ Climb(v, N) = Source
  <2>1. Visited(v)
      BY <1>1 DEF Visited
  <2>2. v = Source \/ v \in Neighbours(parent[v])
      BY <1>1, <2>1 DEF TreeInv, Ranked
  <2>3. QED BY <2>1, <2>2, ClimbEnds
<1>2. QED BY <1>1 DEF TreeSound

-----------------------------------------------------------------------------
(* Breadth-first search: the distances, for a team of one and edges that go both ways. *)

One == team = {0} /\ Symmetric

Deep(v) == Distance(Source, v)

\* The vertices at distance L that can be reached, and those within it.
Level(L) == {v \in Vertices : Deep(v) = L /\ Deep(v) < N}
Levels(L) == {v \in Vertices : Deep(v) <= L /\ Deep(v) < N}

Seen == {v \in Vertices : Visited(v)}

\* A parent is one step nearer.
Nearer ==
    \A v \in Vertices \ {Source} : Visited(v) =>
        parent[v] \in Vertices /\ Deep(v) < N /\ Deep(parent[v]) + 1 = Deep(v)

Windowed == {queue[i] : i \in window.first .. (window.last - 1)}

\* How far the queue is written, what waits for the buffer, and what a region has
\* gathered, when the one thread knows s.
Flushing(s) == s.pc \in {"fetch", "add", "copy"}
Top(s) == IF s.pc = "copy" THEN s.base ELSE in
Pending(s) ==
    IF phase = "collect" THEN ToSet(s.todo) ELSE IF Flushing(s) /\ s.v # NoParent THEN {s.v} ELSE {}
Gathered(s) == {queue[i] : i \in window.last .. (Top(s) - 1)} \cup ToSet(s.buffer) \cup Pending(s)

\* Neighbours that it has still to look at.
Holding(s) == s.pc = "look" \/ s.v # NoParent
InHand(s) == IF Holding(s) THEN ToSet(s.todo) \cup {s.v} ELSE {}

TopDownLevel(s, L) ==
    /\ Windowed = Level(L) /\ Levels(L) \in SUBSET Seen
    /\ Gathered(s) = {v \in Seen : Deep(v) > L} /\ Gathered(s) \in SUBSET Level(L + 1)
    /\ \A i \in window.first .. (next - 1) : Neighbours(queue[i]) \in SUBSET (Seen \cup InHand(s))
    /\ Holding(s) => s.from \in Level(L) /\ ToSet(s.todo) \in SUBSET Neighbours(s.from)
    /\ s.pc = "swap" => s.v \in Neighbours(s.from) \ Seen
    /\ Flushing(s) /\ s.v = NoParent => next = window.last
    /\ s.pc = "rest" => s.buffer = <<>> /\ s.v = NoParent /\ next = window.last

MarkLevel(s, L) ==
    /\ Seen = Levels(L) /\ Windowed = Level(L)
    /\ \A i \in window.first .. (window.last - 1) : queue[i] \in front \/ i \in ToSet(s.todo)
    /\ s.pc \in {"compare", "store"} => s.word = front
    /\ s.pc = "rest" => s.todo = <<>>

CollectLevel(s, L) ==
    /\ Seen = Levels(L) /\ Gathered(s) = Level(L)
    /\ s.pc = "rest" => s.todo = <<>> /\ s.buffer = <<>>
    /\ s.pc = "gather" => s.buffer = <<>>

AtLevel(s, L) ==
    /\ phase = "choose" => Seen = Levels(L) /\ Windowed = Level(L)
    /\ phase = "topdown" => TopDownLevel(s, L)
    /\ phase = "mark" => MarkLevel(s, L)
    /\ phase = "bottomup" => Seen = Levels(L) /\ Level(L) \in SUBSET front
    /\ phase = "collect" => CollectLevel(s, L)
    /\ phase = "done" => Seen = Levels(L) /\ Level(L) = {}

\* The queue has room: what is in it, and what will be, was visited, and once only.
Load(s) ==
    Top(s) + Len(s.buffer)
        + IF phase = "collect" THEN Len(s.todo) ELSE IF Flushing(s) /\ s.v # NoParent THEN 1 ELSE 0

Room(s) ==
    /\ Collecting => /\ Load(s) <= Cardinality(Seen)
                     /\ s.pc = "add" => s.base = in
                     /\ s.pc = "copy" => in = s.base + Len(s.buffer)
    /\ ~Collecting => in <= Cardinality(Seen)

LevelInv ==
    /\ phase # "lost" /\ Nearer
    /\ \E L \in Nat : \A s \in {wk[0]} : AtLevel(s, L) /\ Room(s)

\* What Within computes is what any spreading from the source has at that step.
LEMMA SpreadIs ==
    ASSUME NEW k \in Nat, NEW f, f[0] = {Source},
           \A i \in 0 .. (k - 1) : f[i + 1] = f[i] \cup UNION {Neighbours(u) : u \in f[i]}
    PROVE  Within(Source, Neighbours, k) = f[k]
<1> DEFINE P(g) == g = [i \in 0 .. k |-> IF i = 0 THEN {Source} ELSE g[i - 1] \cup UNION {Neighbours(u) : u \in g[i - 1]}]
<1>1. Within(Source, Neighbours, k) = (CHOOSE g : P(g))[k]
    BY DEF Within
<1>2. PICK h : h = [i \in 0 .. k |-> f[i]]
    OBVIOUS
<1>3. P(h)
  <2>1. ASSUME NEW i \in 0 .. k
        PROVE  f[i] = IF i = 0 THEN {Source} ELSE h[i - 1] \cup UNION {Neighbours(u) : u \in h[i - 1]}
    <3>1. CASE i = 0
        BY <3>1
    <3>2. CASE i # 0
      <4>1. i - 1 \in 0 .. (k - 1) /\ i - 1 \in 0 .. k /\ (i - 1) + 1 = i
          BY <3>2
      <4>2. h[i - 1] = f[i - 1] /\ f[i] = f[i - 1] \cup UNION {Neighbours(u) : u \in f[i - 1]}
          BY <1>2, <4>1
      <4>3. QED BY <3>2, <4>2
    <3>3. QED BY <3>1, <3>2
  <2>2. QED BY ONLY <1>2, <2>1
<1>4. ASSUME NEW g, P(g)
      PROVE  g[k] = f[k]
  <2>1. \A i \in 0 .. k : g[i] = IF i = 0 THEN {Source} ELSE g[i - 1] \cup UNION {Neighbours(u) : u \in g[i - 1]}
      BY <1>4
  <2> HIDE DEF P
  <2> DEFINE S == {i \in 0 .. k : g[i] = f[i]}
  <2>2. 0 \in S
    <3>1. 0 \in 0 .. k /\ f[0] = {Source}
        OBVIOUS
    <3>2. g[0] = {Source}
        BY ONLY <2>1, <3>1
    <3>3. QED BY <3>1, <3>2
  <2>3. ASSUME NEW i \in 0 .. (k - 1), i \in S
        PROVE  i + 1 \in S
    <3>1. i + 1 \in 0 .. k /\ i + 1 # 0 /\ (i + 1) - 1 = i /\ g[i] = f[i]
        BY <2>3
    <3>2. g[i + 1] = g[i] \cup UNION {Neighbours(u) : u \in g[i]}
        BY <2>1, <3>1
    <3>3. f[i + 1] = f[i] \cup UNION {Neighbours(u) : u \in f[i]}
        OBVIOUS
    <3>4. QED BY <3>1, <3>2, <3>3
  <2> HIDE DEF S
  <2>4. \A i \in 0 .. (k - 1) : i \in S => i + 1 \in S
      BY <2>3
  <2>5. \A i \in 0 .. k : i \in S
      BY ONLY <2>2, <2>4, k \in Nat, UpTo
  <2>6. k \in S
      BY <2>5
  <2>7. QED BY <2>6 DEF S
<1> HIDE DEF P
<1>5. P(CHOOSE g : P(g))
    BY <1>3
<1>6. QED BY <1>1, <1>4, <1>5

\* What N - 1 steps reach, no more steps add to.
LEMMA SpreadEnds ==
    ASSUME GraphTyped
    PROVE  \E f : /\ f[0] = {Source}
                  /\ \A i \in 0 .. N : f[i] \in SUBSET Vertices /\ Within(Source, Neighbours, i) = f[i]
                  /\ \A i \in 0 .. (N - 1) : f[i + 1] = f[i] \cup UNION {Neighbours(u) : u \in f[i]}
                  /\ f[N] = f[N - 1]
<1> DEFINE G == [A \in SUBSET Vertices |-> A \cup UNION {Neighbours(x) : x \in A}]
<1>1. /\ N \in Nat \ {0} /\ Source \in Vertices /\ IsFiniteSet(Vertices) /\ Cardinality(Vertices) = N
      /\ \A x \in Vertices : Neighbours(x) \in SUBSET Vertices
    BY GraphFacts, NeighboursAreVertices DEF N
<1>2. /\ G \in [SUBSET Vertices -> SUBSET Vertices]
      /\ \A A \in SUBSET Vertices : G[A] = A \cup UNION {Neighbours(x) : x \in A}
    BY <1>1
<1> HIDE DEF G
<1>3. PICK f : Iterates(f, {Source}, G, N)
    BY <1>1, IteratesExist
<1>4. f[0] = {Source} /\ \A i \in 0 .. (N - 1) : f[i + 1] = G[f[i]]
  <2>1. N \in Nat
      BY <1>1
  <2>2. \A i \in 0 .. N : f[i] = IF i = 0 THEN {Source} ELSE G[f[i - 1]]
      BY <1>3 DEF Iterates
  <2>3. QED BY ONLY <2>1, <2>2
<1>5. \A i \in 0 .. N : f[i] \in SUBSET Vertices
  <2> DEFINE S == {i \in 0 .. N : f[i] \in SUBSET Vertices}
  <2>1. 0 \in S
      BY <1>1, <1>4
  <2>2. \A i \in 0 .. (N - 1) : i \in S => i + 1 \in S
      BY <1>1, <1>2, <1>4
  <2> HIDE DEF S
  <2>3. \A i \in 0 .. N : i \in S
      BY ONLY <1>1, <2>1, <2>2, UpTo
  <2>4. QED BY <2>3 DEF S
<1>6. \A i \in 0 .. (N - 1) : f[i + 1] = f[i] \cup UNION {Neighbours(u) : u \in f[i]}
  <2>1. TAKE i \in 0 .. (N - 1)
  <2>2. f[i] \in SUBSET Vertices
      BY <1>1, <1>5
  <2>3. QED BY <1>2, <1>4, <2>2
<1>7. ASSUME NEW i \in 0 .. N
      PROVE  Within(Source, Neighbours, i) = f[i]
  <2>1. i \in Nat /\ \A j \in 0 .. (i - 1) : j \in 0 .. (N - 1)
      BY <1>1
  <2>2. \A j \in 0 .. (i - 1) : f[j + 1] = f[j] \cup UNION {Neighbours(u) : u \in f[j]}
      BY <1>6, <2>1
  <2>3. QED BY ONLY <1>4, <2>1, <2>2, SpreadIs
<1>8. f[N] = f[N - 1]
  <2>1. PICK k : k = N - 1 /\ k \in Nat /\ Cardinality(Vertices) <= k + 1 /\ k \in 0 .. (N - 1) /\ k + 1 = N
      BY <1>1
  <2>2. PICK h : h = [i \in 0 .. k |-> f[i]]
      OBVIOUS
  <2>3. Iterates(h, {Source}, G, k)
    <3>1. ASSUME NEW i \in 0 .. k
          PROVE  f[i] = IF i = 0 THEN {Source} ELSE G[h[i - 1]]
      <4>1. CASE i = 0
          BY <1>4, <4>1
      <4>2. CASE i # 0
        <5>1. i - 1 \in 0 .. k /\ i - 1 \in 0 .. (N - 1) /\ (i - 1) + 1 = i
            BY <1>1, <2>1, <4>2
        <5>2. QED BY <1>4, <2>2, <4>2, <5>1
      <4>3. QED BY <4>1, <4>2
    <3>2. QED BY ONLY <2>2, <3>1 DEF Iterates
  <2>4. Grows(G, Vertices)
      BY <1>2 DEF Grows
  <2>5. {Source} \in SUBSET Vertices /\ {Source} # {}
      BY <1>1
  <2>6. Growing(h, {Source}, G, Vertices, k)
      BY ONLY <1>1, <2>1, <2>3, <2>4, <2>5 DEF Growing
  <2>7. G[h[k]] = h[k]
      BY ONLY <2>6, GrowthEnds
  <2>8. h[k] = f[k] /\ f[k + 1] = G[f[k]]
      BY <1>4, <2>1, <2>2
  <2>9. QED BY <2>1, <2>7, <2>8
<1>9. QED BY <1>4, <1>5, <1>6, <1>7, <1>8

\* Distances, by the edges.
LEMMA DistanceFacts ==
    ASSUME GraphTyped
    PROVE  /\ \A v \in Vertices : Deep(v) \in 0 .. N
           /\ Deep(Source) = 0 /\ \A v \in Vertices : Deep(v) = 0 => v = Source
           /\ \A u \in Vertices : Deep(u) < N =>
                 \A v \in Neighbours(u) : Deep(v) <= Deep(u) + 1 /\ Deep(v) < N
           /\ \A v \in Vertices : 0 < Deep(v) /\ Deep(v) < N =>
                 \E u \in Vertices : Deep(u) + 1 = Deep(v) /\ v \in Neighbours(u)
<1>1. PICK f : /\ f[0] = {Source}
               /\ \A i \in 0 .. N : f[i] \in SUBSET Vertices /\ Within(Source, Neighbours, i) = f[i]
               /\ \A i \in 0 .. (N - 1) : f[i + 1] = f[i] \cup UNION {Neighbours(u) : u \in f[i]}
               /\ f[N] = f[N - 1]
    BY SpreadEnds
<1>2. N \in Nat \ {0} /\ Source \in Vertices /\ \A x \in Vertices : Neighbours(x) \in SUBSET Vertices
    BY GraphFacts, NeighboursAreVertices
<1>3. ASSUME NEW v \in Vertices
      PROVE  /\ Deep(v) \in 0 .. N /\ (Deep(v) < N => v \in f[Deep(v)])
             /\ \A i \in 0 .. N : v \in f[i] => Deep(v) <= i
  <2> DEFINE T == {k \in 0 .. N : k = N \/ v \in Within(Source, Neighbours, k)}
  <2>1. Deep(v) = Min(T)
      BY DEF Deep, Distance
  <2>2. T \in SUBSET Nat /\ N \in T
      BY <1>2
  <2>3. \A i \in 0 .. N : i \in T <=> i = N \/ v \in f[i]
      BY <1>1
  <2>4. T \in SUBSET (0 .. N)
      OBVIOUS
  <2> HIDE DEF T
  <2>5. Min(T) \in T /\ \A i \in T : Min(T) <= i
      BY <2>2, MinIsLeast
  <2>6. PICK m : m = Min(T)
      OBVIOUS
  <2>7. m \in T /\ m \in 0 .. N /\ \A i \in T : m <= i
      BY <2>4, <2>5, <2>6
  <2>8. m < N => v \in f[m]
      BY <1>2, <2>3, <2>7
  <2>9. \A i \in 0 .. N : v \in f[i] => m <= i
      BY <2>3, <2>7
  <2>10. QED BY <2>1, <2>6, <2>7, <2>8, <2>9
<1>4. Deep(Source) = 0
  <2>1. 0 \in 0 .. N /\ Source \in f[0]
      BY <1>1, <1>2
  <2>2. QED BY <1>2, <1>3, <2>1
<1>5. \A v \in Vertices : Deep(v) = 0 => v = Source
  <2>1. TAKE v \in Vertices
  <2>2. Deep(v) = 0 => v \in f[0]
      BY <1>2, <1>3
  <2>3. QED BY <1>1, <2>2
<1>6. ASSUME NEW u \in Vertices, Deep(u) < N, NEW v \in Neighbours(u)
      PROVE  Deep(v) <= Deep(u) + 1 /\ Deep(v) < N
  <2>1. PICK k : k = Deep(u) /\ k \in 0 .. (N - 1) /\ u \in f[k]
      BY <1>2, <1>3, <1>6
  <2>2. v \in Vertices /\ v \in f[k + 1]
      BY <1>1, <1>2, <1>6, <2>1
  <2>3. k + 1 \in 0 .. N /\ N - 1 \in 0 .. N
      BY <1>2, <2>1
  <2>4. Deep(v) <= k + 1 /\ Deep(v) \in 0 .. N
      BY <1>3, <2>2, <2>3
  <2>5. CASE k + 1 < N
      BY <1>2, <2>1, <2>4, <2>5
  <2>6. CASE k + 1 = N
    <3>1. v \in f[N - 1]
        BY <1>1, <2>2, <2>6
    <3>2. Deep(v) <= N - 1
        BY <1>3, <2>2, <2>3, <3>1
    <3>3. QED BY <1>2, <2>1, <2>4, <3>2
  <2>7. QED BY <1>2, <2>1, <2>5, <2>6
<1>7. ASSUME NEW v \in Vertices, 0 < Deep(v), Deep(v) < N
      PROVE  \E u \in Vertices : Deep(u) + 1 = Deep(v) /\ v \in Neighbours(u)
  <2>1. PICK k : k + 1 = Deep(v) /\ k \in 0 .. (N - 1) /\ v \in f[k + 1]
    <3>1. Deep(v) \in 0 .. N /\ v \in f[Deep(v)]
        BY <1>3, <1>7
    <3>2. PICK d : d = Deep(v)
        OBVIOUS
    <3>3. d - 1 \in 0 .. (N - 1) /\ (d - 1) + 1 = d /\ v \in f[d]
        BY <1>2, <1>7, <3>1, <3>2
    <3>4. QED BY <3>2, <3>3
  <2>2. v \notin f[k]
    <3>1. SUFFICES ASSUME v \in f[k]
                   PROVE  FALSE
        OBVIOUS
    <3>2. k \in 0 .. N
        BY <1>2, <2>1
    <3>3. Deep(v) <= k
        BY <1>3, <3>1, <3>2
    <3>4. QED BY <2>1, <3>3
  <2>3. PICK u \in f[k] : v \in Neighbours(u)
      BY <1>1, <2>1, <2>2
  <2>4. u \in Vertices /\ k \in 0 .. N
    <3>1. k \in 0 .. N
        BY <1>2, <2>1
    <3>2. QED BY <1>1, <2>3, <3>1
  <2>5. Deep(u) <= k /\ Deep(u) \in 0 .. N
      BY <1>3, <2>3, <2>4
  <2>6. Deep(v) <= Deep(u) + 1
      BY <1>2, <1>6, <2>1, <2>3, <2>4, <2>5
  <2>7. Deep(u) + 1 = Deep(v)
      BY <1>2, <2>1, <2>5, <2>6
  <2>8. QED BY <2>3, <2>4, <2>7
<1>8. QED BY <1>3, <1>4, <1>5, <1>6, <1>7

LEMMA LevelUnmoved ==
    ASSUME UNCHANGED view
    PROVE  /\ Vertices' = Vertices /\ N' = N /\ team' = team /\ One' = One
           /\ (\A v : Neighbours(v)' = Neighbours(v)) /\ (\A v : Deep(v)' = Deep(v))
           /\ (\A L : Level(L)' = Level(L)) /\ (\A L : Levels(L)' = Levels(L))
<1>1. Vertices' = Vertices /\ N' = N /\ team' = team /\ \A v : Neighbours(v)' = Neighbours(v)
    BY SearchUnmoved
<1>2. \A v : Deep(v)' = Deep(v)
  <2>1. adj' = adj
      BY DEF view
  <2>2. \A k : Within(Source, Neighbours, k)' = Within(Source, Neighbours, k)
      BY <2>1 DEF Within, Neighbours, ToSet
  <2>3. QED BY <1>1, <2>2 DEF Deep, Distance
<1>3. (\A L : Level(L)' = Level(L)) /\ (\A L : Levels(L)' = Levels(L))
    BY <1>1, <1>2 DEF Level, Levels
<1>4. One' = One
    BY <1>1, SymmetricUnmoved DEF One
<1>5. QED BY <1>1, <1>2, <1>3, <1>4

\* Nothing new is visited.
LEMMA SeenUnmoved ==
    ASSUME UNCHANGED <<view, parent>>
    PROVE  Seen' = Seen /\ Nearer' = Nearer
<1>1. Vertices' = Vertices /\ N' = N /\ \A v : Deep(v)' = Deep(v)
    BY LevelUnmoved
<1>2. \A v : Visited(v)' = Visited(v)
    BY DEF Visited
<1>3. Seen' = Seen
    BY <1>1, <1>2 DEF Seen
<1>4. \A v : Deep(parent[v])' = Deep(parent[v])
    BY <1>1
<1>5. QED BY <1>1, <1>2, <1>3, <1>4 DEF Nearer

\* What is known of a search by one thread.
LEMMA OneFacts ==
    ASSUME One, SearchInv
    PROVE  /\ 0 \in team /\ (\A t \in team : t = 0) /\ GraphTyped /\ SearchWorks
           /\ wk[0] \in SearchStates /\ AtWork(wk[0]) /\ HoldsVisited(wk[0])
           /\ N \in Nat \ {0} /\ Vertices = 0 .. (N - 1) /\ Source \in Vertices /\ NoParent \notin Vertices
           /\ Seen \in SUBSET Vertices /\ IsFiniteSet(Seen) /\ Cardinality(Seen) \in Nat /\ Cardinality(Seen) <= N
           /\ \A v \in Vertices : Deep(v) \in 0 .. N
<1>1. 0 \in team /\ \A t \in team : t = 0
    BY DEF One
<1>2. GraphTyped /\ SearchWorks
    BY DEF SearchInv, SearchWorks
<1>3. /\ N \in Nat \ {0} /\ Vertices = 0 .. (N - 1) /\ Source \in Vertices /\ IsFiniteSet(Vertices)
      /\ Cardinality(Vertices) = N /\ NoParent \notin Vertices
    BY <1>2, GraphFacts DEF N, NoParent
<1>4. Seen \in SUBSET Vertices
    BY DEF Seen
<1>5. IsFiniteSet(Seen) /\ Cardinality(Seen) <= N /\ Cardinality(Seen) \in Nat
    BY <1>3, <1>4, FS_Subset, FS_CardinalityType
<1>6. wk[0] \in SearchStates /\ AtWork(wk[0]) /\ HoldsVisited(wk[0])
    BY <1>1, WorkerFacts
<1>7. \A v \in Vertices : Deep(v) \in 0 .. N
    BY <1>2, DistanceFacts
<1>8. QED BY <1>1, <1>2, <1>3, <1>4, <1>5, <1>6, <1>7

\* The one thread takes a step.
LEMMA OneTurn ==
    ASSUME One, SearchInv, NEW s, wk' = [wk EXCEPT ![0] = s], NEW L \in Nat,
           AtLevel(s, L)', Room(s)', Nearer', phase' # "lost"
    PROVE  LevelInv'
<1>1. wk'[0] = s
    BY OneFacts DEF SearchWorks
<1>2. \A q \in {wk'[0]} : q = s
    BY <1>1
<1>3. \A q \in {wk'[0]} : AtLevel(q, L)' /\ Room(q)'
    BY <1>2
<1>4. QED BY <1>3 DEF LevelInv

\* In a top-down step the thread has gathered as much as before, and the window stays.
LEMMA TopDownTurn ==
    ASSUME One, SearchInv, UNCHANGED <<view, phase, parent, window>>, phase = "topdown",
           \A i \in window.first .. (window.last - 1) : queue'[i] = queue[i],
           NEW L \in Nat, TopDownLevel(wk[0], L), Room(wk[0]), Nearer,
           NEW s, wk' = [wk EXCEPT ![0] = s],
           Gathered(s)' = Gathered(wk[0]), Load(s)' = Load(wk[0]),
           s.pc = "add" => s.base = in', s.pc = "copy" => in' = s.base + Len(s.buffer),
           \A i \in window.first .. (next' - 1) : Neighbours(queue'[i]) \in SUBSET (Seen \cup InHand(s)),
           Holding(s) => s.from \in Level(L) /\ ToSet(s.todo) \in SUBSET Neighbours(s.from),
           s.pc = "swap" => s.v \in Neighbours(s.from) \ Seen,
           Flushing(s) /\ s.v = NoParent => next' = window.last,
           s.pc = "rest" => s.buffer = <<>> /\ s.v = NoParent /\ next' = window.last
    PROVE  LevelInv'
<1>1. /\ N' = N /\ Seen' = Seen /\ Nearer' /\ (\A v : Neighbours(v)' = Neighbours(v)) /\ (\A v : Deep(v)' = Deep(v))
      /\ (\A k : Level(k)' = Level(k)) /\ (\A k : Levels(k)' = Levels(k))
    BY LevelUnmoved, SeenUnmoved
<1>2. Windowed' = Windowed
  <2>1. window' = window /\ \A i \in window.first .. (window.last - 1) : queue'[i] = queue[i]
      OBVIOUS
  <2>2. QED BY ONLY <2>1 DEF Windowed
<1>3. InHand(s)' = InHand(s) /\ Holding(s)' = Holding(s) /\ Flushing(s)' = Flushing(s)
    BY DEF InHand, Holding, Flushing
<1>4. Gathered(s)' = {v \in Seen : Deep(v) > L} /\ Gathered(s)' \in SUBSET Level(L + 1)
    BY DEF TopDownLevel
<1>5. Windowed = Level(L) /\ Levels(L) \in SUBSET Seen
    BY DEF TopDownLevel
<1>6. \A i \in window'.first .. (next' - 1) : Neighbours(queue'[i]) \in SUBSET (Seen \cup InHand(s))
    OBVIOUS
<1>7. TopDownLevel(s, L)'
    BY <1>1, <1>2, <1>3, <1>4, <1>5, <1>6 DEF TopDownLevel
<1>8. AtLevel(s, L)'
    BY <1>7 DEF AtLevel
<1>9. Room(s)'
    BY <1>1 DEF Room, Collecting
<1>10. phase' # "lost"
    OBVIOUS
<1>11. QED BY <1>1, <1>8, <1>9, <1>10, OneTurn

\* In a top-down step, what the thread knows ...
LEMMA InTopDown ==
    ASSUME One, SearchInv, LevelInv, phase = "topdown"
    PROVE  \E L \in Nat : TopDownLevel(wk[0], L) /\ Room(wk[0]) /\ Nearer
BY DEF LevelInv, AtLevel

LEMMA TakeLevels ==
    ASSUME One, SearchInv, LevelInv, UNCHANGED view, NEW t \in team, Take(t)
    PROVE  LevelInv'
<1>1. t = 0 /\ phase = "topdown"
    BY OneFacts DEF Take
<1>2. PICK w : w = wk[0]
    OBVIOUS
<1>3. /\ w.pc = "take" /\ w \in SearchStates
      /\ UNCHANGED <<phase, parent, queue, in, window>> /\ phase \notin {"collect", "lost"} /\ Collecting
    BY <1>1, <1>2, OneFacts DEF Take, Collecting
<1>4. PICK L \in Nat : TopDownLevel(w, L) /\ Room(w) /\ Nearer
    BY <1>1, <1>2, InTopDown
<1>5. w.v = NoParent /\ NoParent \notin Vertices
    BY <1>1, <1>2, <1>3, OneFacts DEF AtWork
<1>6. InHand(w) = {}
    BY <1>3, <1>5 DEF InHand, Holding
<1>7. CASE next = window.last
  <2>1. PICK s : s = [w EXCEPT !.pc = "fetch"]
      OBVIOUS
  <2>2. wk' = [wk EXCEPT ![0] = s] /\ next' = next
      BY <1>1, <1>2, <1>7, <2>1 DEF Take, Set
  <2>3. s.pc = "fetch" /\ s.v = NoParent /\ s.buffer = w.buffer
      BY <1>3, <1>5, <2>1 DEF SearchStates
  <2>4. Gathered(s)' = Gathered(w) /\ Load(s)' = Load(w)
      BY <1>3, <1>5, <2>3 DEF Gathered, Load, Top, Pending, Flushing
  <2>5. InHand(s) = {} /\ ~Holding(s)
      BY <2>3 DEF InHand, Holding
  <2>6. \A i \in window.first .. (next' - 1) : Neighbours(queue[i]) \in SUBSET (Seen \cup InHand(s))
      BY <1>4, <1>6, <2>2, <2>5 DEF TopDownLevel
  <2>7. QED BY <1>1, <1>2, <1>3, <1>4, <1>7, <2>2, <2>3, <2>4, <2>5, <2>6, TopDownTurn
<1>8. CASE next # window.last
  <2>1. PICK u : u = queue[next]
      OBVIOUS
  <2>2. PICK s : s = [w EXCEPT !.pc = "look", !.from = u, !.todo = adj[u]]
      OBVIOUS
  <2>3. wk' = [wk EXCEPT ![0] = s] /\ next' = next + 1
      BY <1>1, <1>2, <1>8, <2>1, <2>2 DEF Take, Set
  <2>4. s.pc = "look" /\ s.v = NoParent /\ s.buffer = w.buffer /\ s.from = u /\ s.todo = adj[u]
      BY <1>3, <1>5, <2>2 DEF SearchStates
  <2>5. Gathered(s)' = Gathered(w) /\ Load(s)' = Load(w)
      BY <1>3, <1>5, <2>4 DEF Gathered, Load, Top, Pending, Flushing
  <2>6. /\ next \in Nat /\ window.first <= next /\ next <= window.last /\ window.first \in Nat
        /\ window.last \in Nat
    <3>1. SearchWorks
        BY OneFacts
    <3>2. QED BY <1>1, <3>1 DEF SearchWorks, WindowTyped
  <2>7. next \in window.first .. (window.last - 1)
      BY <1>8, <2>6
  <2>8. u \in Level(L)
    <3>1. u \in Windowed
        BY <2>1, <2>7 DEF Windowed
    <3>2. QED BY <1>4, <3>1 DEF TopDownLevel
  <2>9. Holding(s) /\ InHand(s) = Neighbours(u) \cup {NoParent}
      BY <2>4 DEF InHand, Holding, Neighbours
  <2>10. ASSUME NEW i \in window.first .. (next' - 1)
         PROVE  Neighbours(queue[i]) \in SUBSET (Seen \cup InHand(s))
    <3>1. CASE i = next
        BY <2>1, <2>9, <3>1
    <3>2. CASE i # next
      <4>1. i \in window.first .. (next - 1)
          BY <2>3, <2>6, <3>2
      <4>2. QED BY <1>4, <1>6, <4>1 DEF TopDownLevel
    <3>3. QED BY <3>1, <3>2
  <2>11. ~Flushing(s)
      BY <2>4 DEF Flushing
  <2>12. ToSet(s.todo) = Neighbours(s.from)
      BY <2>4 DEF Neighbours
  <2>13. QED BY <1>1, <1>2, <1>3, <1>4, <2>3, <2>4, <2>5, <2>8, <2>10, <2>11, <2>12, TopDownTurn
<1>9. QED BY <1>7, <1>8

LEMMA LookLevels ==
    ASSUME One, SearchInv, LevelInv, UNCHANGED view, NEW t \in team, Look(t)
    PROVE  LevelInv'
<1>1. t = 0 /\ phase = "topdown"
    BY OneFacts DEF Look
<1>2. PICK w : w = wk[0]
    OBVIOUS
<1>3. PICK todo : todo = w.todo
    OBVIOUS
<1>4. PICK s : s = IF todo = <<>> THEN [w EXCEPT !.pc = "take"]
                   ELSE IF Unvisited(Head(todo))
                   THEN [w EXCEPT !.pc = "swap", !.v = Head(todo), !.todo = Tail(todo)]
                   ELSE [w EXCEPT !.todo = Tail(todo)]
    OBVIOUS
<1>5. /\ w.pc = "look" /\ w \in SearchStates /\ wk' = [wk EXCEPT ![0] = s]
      /\ UNCHANGED <<phase, parent, queue, in, window, next>> /\ phase \notin {"collect", "lost"} /\ Collecting
    BY <1>1, <1>2, <1>3, <1>4, OneFacts DEF Look, Collecting, Set
<1>6. PICK L \in Nat : TopDownLevel(w, L) /\ Room(w) /\ Nearer
    BY <1>1, <1>2, InTopDown
<1>7. w.v = NoParent /\ NoParent \notin Vertices /\ todo \in Seq(Vertices)
    BY <1>1, <1>2, <1>3, <1>5, OneFacts DEF AtWork
<1>8. /\ Holding(w) /\ InHand(w) = ToSet(todo) \cup {NoParent}
      /\ w.from \in Level(L) /\ ToSet(todo) \in SUBSET Neighbours(w.from)
    BY <1>3, <1>5, <1>6, <1>7 DEF InHand, Holding, TopDownLevel
<1>9. \A i \in window.first .. (next - 1) : Neighbours(queue[i]) \in SUBSET Vertices
  <2>1. GraphTyped /\ SearchWorks
      BY OneFacts
  <2>2. /\ window.first \in Nat /\ window.last \in Nat /\ next \in Nat /\ next <= window.last /\ window.last <= N
        /\ N \in Nat
      BY <1>1, <2>1, GraphFacts DEF SearchWorks, WindowTyped
  <2>3. \A i \in window.first .. (next - 1) : i \in 0 .. (window.last - 1)
      BY <2>2
  <2>4. \A i \in window.first .. (next - 1) : queue[i] \in Vertices
      BY <1>1, <2>3, WorkerFacts
  <2>5. QED BY <2>1, <2>4, NeighboursAreVertices
<1>10. \A i \in window.first .. (next - 1) : Neighbours(queue[i]) \in SUBSET (Seen \cup ToSet(todo))
    BY <1>6, <1>7, <1>8, <1>9 DEF TopDownLevel
<1>11. CASE todo = <<>>
  <2>1. s.pc = "take" /\ s.v = NoParent /\ s.buffer = w.buffer
      BY <1>4, <1>5, <1>7, <1>11 DEF SearchStates
  <2>2. Gathered(s)' = Gathered(w) /\ Load(s)' = Load(w)
      BY <1>5, <1>7, <2>1 DEF Gathered, Load, Top, Pending, Flushing
  <2>3. ~Holding(s) /\ ~Flushing(s) /\ ToSet(todo) = {}
      BY <1>11, <2>1 DEF Holding, Flushing, ToSet
  <2>4. \A i \in window.first .. (next' - 1) : Neighbours(queue[i]) \in SUBSET (Seen \cup InHand(s))
      BY <1>5, <1>10, <2>3
  <2>5. QED BY <1>1, <1>2, <1>5, <1>6, <2>1, <2>2, <2>3, <2>4, TopDownTurn
<1>12. CASE todo # <<>>
  <2>1. PICK u, rest : u = Head(todo) /\ rest = Tail(todo)
      OBVIOUS
  <2>2. ToSet(todo) = {u} \cup ToSet(rest) /\ u \in Vertices
    <3>1. /\ u = todo[1] /\ 1 \in DOMAIN todo /\ u \in Vertices /\ Len(todo) \in Nat
          /\ DOMAIN todo = 1 .. Len(todo) /\ DOMAIN rest = 1 .. (Len(todo) - 1)
          /\ \A i \in DOMAIN rest : rest[i] = todo[i + 1]
        BY <1>7, <1>12, <2>1
    <3>2. \A i \in DOMAIN rest : i + 1 \in DOMAIN todo
        BY <3>1
    <3>3. ASSUME NEW i \in DOMAIN todo, i # 1
          PROVE  \E j \in DOMAIN rest : rest[j] = todo[i]
      <4>1. i - 1 \in DOMAIN rest /\ (i - 1) + 1 = i
          BY <3>1, <3>3
      <4>2. rest[i - 1] = todo[i]
          BY <3>1, <4>1
      <4>3. QED BY <4>1, <4>2
    <3>4. QED BY <3>1, <3>2, <3>3 DEF ToSet
  <2>3. CASE Unvisited(u)
    <3>1. s.pc = "swap" /\ s.v = u /\ s.buffer = w.buffer /\ s.from = w.from /\ s.todo = rest
        BY <1>4, <1>5, <1>12, <2>1, <2>3 DEF SearchStates
    <3>2. Gathered(s)' = Gathered(w) /\ Load(s)' = Load(w)
        BY <1>5, <1>7, <3>1 DEF Gathered, Load, Top, Pending, Flushing
    <3>3. Holding(s) /\ ~Flushing(s) /\ InHand(s) = ToSet(todo)
        BY <1>7, <2>2, <3>1 DEF Holding, Flushing, InHand
    <3>4. u \notin Seen
        BY <2>3 DEF Seen, Visited, Unvisited
    <3>5. \A i \in window.first .. (next' - 1) : Neighbours(queue[i]) \in SUBSET (Seen \cup InHand(s))
        BY <1>5, <1>10, <3>3
    <3>6. ToSet(s.todo) \in SUBSET Neighbours(s.from) /\ s.v \in Neighbours(s.from) \ Seen /\ s.from \in Level(L)
        BY <1>8, <2>2, <3>1, <3>4
    <3>7. QED BY <1>1, <1>2, <1>5, <1>6, <3>1, <3>2, <3>3, <3>5, <3>6, TopDownTurn
  <2>4. CASE ~Unvisited(u)
    <3>1. s.pc = "look" /\ s.v = NoParent /\ s.buffer = w.buffer /\ s.from = w.from /\ s.todo = rest
        BY <1>4, <1>5, <1>7, <1>12, <2>1, <2>4 DEF SearchStates
    <3>2. Gathered(s)' = Gathered(w) /\ Load(s)' = Load(w)
        BY <1>5, <1>7, <3>1 DEF Gathered, Load, Top, Pending, Flushing
    <3>3. Holding(s) /\ ~Flushing(s) /\ InHand(s) = ToSet(rest) \cup {NoParent}
        BY <3>1 DEF Holding, Flushing, InHand
    <3>4. u \in Seen
        BY <2>2, <2>4 DEF Seen, Visited, Unvisited
    <3>5. \A i \in window.first .. (next' - 1) : Neighbours(queue[i]) \in SUBSET (Seen \cup InHand(s))
        BY <1>5, <1>10, <2>2, <3>3, <3>4
    <3>6. ToSet(s.todo) \in SUBSET Neighbours(s.from) /\ s.from \in Level(L)
        BY <1>8, <2>2, <3>1
    <3>7. QED BY <1>1, <1>2, <1>5, <1>6, <3>1, <3>2, <3>3, <3>5, <3>6, TopDownTurn
  <2>5. QED BY <2>3, <2>4
<1>13. QED BY <1>11, <1>12

LEMMA SwapLevels ==
    ASSUME One, SearchInv, LevelInv, UNCHANGED view, NEW t \in team, Swap(t)
    PROVE  LevelInv'
<1>1. t = 0 /\ phase = "topdown"
    BY OneFacts DEF Swap
<1>2. PICK w : w = wk[0]
    OBVIOUS
<1>3. PICK v, from : v = w.v /\ from = w.from
    OBVIOUS
<1>4. PICK s : s = IF Len(w.buffer) = BufferSize
                   THEN [w EXCEPT !.pc = "fetch"]
                   ELSE [w EXCEPT !.pc = "look", !.buffer = Append(@, v), !.v = NoParent]
    OBVIOUS
<1>5. /\ w.pc = "swap" /\ w \in SearchStates /\ wk' = [wk EXCEPT ![0] = s]
      /\ parent' = [parent EXCEPT ![v] = from]
      /\ UNCHANGED <<phase, queue, in, window, next>> /\ phase \notin {"collect", "lost"} /\ Collecting
    BY <1>1, <1>2, <1>3, <1>4, OneFacts DEF Swap, Collecting, Set
<1>6. PICK L \in Nat : TopDownLevel(w, L) /\ Room(w) /\ Nearer
    BY <1>1, <1>2, InTopDown
<1>7. /\ v \in Vertices \ {Source} /\ NoParent \notin Vertices /\ v # NoParent /\ from \in Vertices
      /\ w.todo \in Seq(Vertices) /\ w.buffer \in Seq(Vertices)
    BY <1>1, <1>2, <1>3, <1>5, OneFacts DEF AtWork, SearchStates
<1>8. from \in Level(L) /\ v \in Neighbours(from) /\ v \notin Seen /\ ToSet(w.todo) \in SUBSET Neighbours(from)
    BY <1>3, <1>5, <1>6, <1>7 DEF TopDownLevel, Holding
<1>9. /\ N \in Nat \ {0} /\ GraphTyped /\ \A x \in Vertices : Deep(x) \in 0 .. N
      /\ Seen \in SUBSET Vertices /\ IsFiniteSet(Seen) /\ Cardinality(Seen) \in Nat
    BY OneFacts
<1>10. v \in Level(L + 1) /\ Deep(v) = Deep(from) + 1 /\ Deep(v) > L /\ Deep(v) < N
  <2>1. Deep(from) = L /\ Deep(from) < N
      BY <1>8 DEF Level
  <2>2. Deep(v) <= L + 1 /\ Deep(v) < N
      BY <1>7, <1>8, <1>9, <2>1, DistanceFacts
  <2>3. ~(Deep(v) <= L)
      BY <1>6, <1>7, <1>8, <2>2 DEF TopDownLevel, Levels
  <2>4. Deep(v) \in 0 .. N
      BY <1>7, <1>9
  <2>5. Deep(v) = L + 1 /\ Deep(v) > L
      BY <1>9, <2>2, <2>3, <2>4
  <2>6. QED BY <1>7, <2>1, <2>2, <2>5 DEF Level
<1>11. /\ N' = N /\ Vertices' = Vertices /\ (\A x : Neighbours(x)' = Neighbours(x)) /\ (\A x : Deep(x)' = Deep(x))
       /\ (\A k : Level(k)' = Level(k)) /\ (\A k : Levels(k)' = Levels(k))
    BY LevelUnmoved
<1>12. parent'[v] = from /\ \A x \in Vertices : x # v => parent'[x] = parent[x]
  <2>1. parent \in [Vertices -> Vertices \cup {NoParent}]
      BY OneFacts DEF SearchWorks
  <2>2. QED BY <1>5, <1>7, <2>1
<1>13. Seen' = Seen \cup {v}
  <2>1. \A x \in Vertices : parent'[x] # NoParent <=> parent[x] # NoParent \/ x = v
      BY <1>7, <1>12
  <2>2. QED BY <1>7, <1>11, <2>1 DEF Seen, Visited
<1>14. Nearer'
  <2>1. ASSUME NEW x \in Vertices \ {Source}, Visited(x)'
        PROVE  parent'[x] \in Vertices /\ Deep(x) < N /\ Deep(parent'[x]) + 1 = Deep(x)
    <3>1. CASE x = v
        BY <1>7, <1>9, <1>10, <1>12, <3>1
    <3>2. CASE x # v
      <4>1. parent'[x] = parent[x] /\ Visited(x)
          BY <1>12, <2>1, <3>2 DEF Visited
      <4>2. QED BY <1>6, <4>1 DEF Nearer
    <3>3. QED BY <3>1, <3>2
  <2>2. \A x : Deep(parent[x])' = Deep(parent'[x])
      BY <1>11
  <2>3. QED BY <1>11, <2>1, <2>2 DEF Nearer
<1>15. Cardinality(Seen') = Cardinality(Seen) + 1
    BY <1>8, <1>9, <1>13, FS_AddElement
<1>16. Windowed' = Windowed
    BY <1>5 DEF Windowed
<1>17. Len(w.buffer) \in Nat
    BY <1>7
<1>18. /\ s.from = from /\ s.todo = w.todo
       /\ \/ s.pc = "fetch" /\ s.v = v /\ s.buffer = w.buffer
          \/ s.pc = "look" /\ s.v = NoParent /\ s.buffer = Append(w.buffer, v)
  <2>1. CASE Len(w.buffer) = BufferSize
      BY <1>3, <1>4, <1>5, <2>1 DEF SearchStates
  <2>2. CASE Len(w.buffer) # BufferSize
      BY <1>3, <1>4, <1>5, <1>7, <2>2 DEF SearchStates
  <2>3. QED BY <2>1, <2>2
<1>19. /\ Len(Append(w.buffer, v)) = Len(w.buffer) + 1
       /\ ToSet(Append(w.buffer, v)) = ToSet(w.buffer) \cup {v}
  <2>1. PICK b, c : b = w.buffer /\ c = Append(b, v)
      OBVIOUS
  <2>2. /\ Len(b) \in Nat /\ Len(c) = Len(b) + 1 /\ DOMAIN c = 1 .. (Len(b) + 1) /\ DOMAIN b = 1 .. Len(b)
        /\ c[Len(b) + 1] = v /\ \A i \in 1 .. Len(b) : c[i] = b[i]
      BY <1>7, <2>1
  <2>3. \A i \in DOMAIN c : i \in DOMAIN b \/ i = Len(b) + 1
      BY <2>2
  <2>4. \A i \in DOMAIN b : i \in DOMAIN c
      BY <2>2
  <2>5. Len(b) + 1 \in DOMAIN c
      BY <2>2
  <2>6. ToSet(c) = ToSet(b) \cup {v}
      BY <2>2, <2>3, <2>4, <2>5 DEF ToSet
  <2>7. QED BY <2>1, <2>2, <2>6
<1>20. Gathered(s)' = Gathered(w) \cup {v} /\ Load(s)' = Load(w) + 1
  <2>1. Top(s)' = in /\ Top(w) = in /\ Pending(w) = {}
      BY <1>5, <1>18 DEF Top, Pending, Flushing
  <2>2. in \in Nat
      BY OneFacts DEF SearchWorks, WindowTyped
  <2>3. CASE s.pc = "fetch" /\ s.v = v /\ s.buffer = w.buffer
    <3>1. Pending(s)' = {v}
        BY <1>5, <1>7, <2>3 DEF Pending, Flushing
    <3>2. Gathered(s)' = Gathered(w) \cup {v}
        BY <1>5, <2>1, <2>3, <3>1 DEF Gathered
    <3>3. Load(s)' = in + Len(w.buffer) + 1 /\ Load(w) = in + Len(w.buffer) + 0
        BY <1>5, <1>7, <2>1, <2>3 DEF Load, Flushing
    <3>4. QED BY <1>17, <2>2, <3>2, <3>3
  <2>4. CASE s.pc = "look" /\ s.v = NoParent /\ s.buffer = Append(w.buffer, v)
    <3>1. Pending(s)' = {}
        BY <1>5, <2>4 DEF Pending, Flushing
    <3>2. Gathered(s)' = Gathered(w) \cup {v}
        BY <1>5, <1>19, <2>1, <2>4, <3>1 DEF Gathered
    <3>3. Load(s)' = in + (Len(w.buffer) + 1) + 0 /\ Load(w) = in + Len(w.buffer) + 0
        BY <1>5, <1>19, <2>1, <2>4 DEF Load, Flushing
    <3>4. QED BY <1>17, <2>2, <3>2, <3>3
  <2>5. QED BY <1>18, <2>3, <2>4
<1>21. InHand(w) = ToSet(w.todo) \cup {v} /\ InHand(w) \in SUBSET (InHand(s) \cup {v}) /\ InHand(s)' = InHand(s)
    BY <1>3, <1>7, <1>18 DEF InHand, Holding
<1>22. TopDownLevel(s, L)'
  <2>1. Windowed = Level(L) /\ Levels(L) \in SUBSET Seen'
      BY <1>6, <1>13 DEF TopDownLevel
  <2>2. Gathered(s)' = {x \in Seen' : Deep(x) > L} /\ Gathered(s)' \in SUBSET Level(L + 1)
      BY <1>6, <1>10, <1>13, <1>20 DEF TopDownLevel
  <2>3. \A i \in window.first .. (next - 1) : Neighbours(queue[i]) \in SUBSET (Seen' \cup InHand(s))
      BY <1>6, <1>13, <1>21 DEF TopDownLevel
  <2>4. s.from \in Level(L) /\ ToSet(s.todo) \in SUBSET Neighbours(s.from) /\ s.pc \notin {"swap", "rest"}
      BY <1>8, <1>18
  <2>5. ~(Flushing(s)' /\ s.v = NoParent)
      BY <1>7, <1>18 DEF Flushing
  <2>6. \A i \in window'.first .. (next' - 1) : Neighbours(queue'[i]) \in SUBSET (Seen' \cup InHand(s))
      BY <1>5, <2>3
  <2>7. QED BY <1>5, <1>11, <1>16, <1>21, <2>1, <2>2, <2>4, <2>5, <2>6 DEF TopDownLevel
<1>23. Room(s)'
  <2>1. Load(w) <= Cardinality(Seen) /\ Load(w) \in Nat
    <3>1. Load(w) = in + Len(w.buffer) + 0
        BY <1>5 DEF Load, Top, Flushing
    <3>2. in \in Nat
        BY OneFacts DEF SearchWorks, WindowTyped
    <3>3. QED BY <1>5, <1>6, <1>17, <3>1, <3>2 DEF Room
  <2>2. Load(s)' <= Cardinality(Seen')
      BY <1>9, <1>15, <1>20, <2>1
  <2>3. QED BY <1>5, <1>18, <2>2 DEF Room, Collecting
<1>24. AtLevel(s, L)' /\ phase' # "lost"
    BY <1>1, <1>5, <1>22 DEF AtLevel
<1>25. QED BY <1>5, <1>14, <1>23, <1>24, OneTurn

\* The same when the bits of the frontier are gathered.
LEMMA CollectTurn ==
    ASSUME One, SearchInv, UNCHANGED <<view, phase, parent, window>>, phase = "collect",
           NEW L \in Nat, CollectLevel(wk[0], L), Room(wk[0]), Nearer,
           NEW s, wk' = [wk EXCEPT ![0] = s],
           Gathered(s)' = Gathered(wk[0]), Load(s)' = Load(wk[0]),
           s.pc = "add" => s.base = in', s.pc = "copy" => in' = s.base + Len(s.buffer),
           s.pc = "rest" => s.todo = <<>> /\ s.buffer = <<>>, s.pc = "gather" => s.buffer = <<>>
    PROVE  LevelInv'
<1>1. /\ Seen' = Seen /\ Nearer' /\ (\A k : Level(k)' = Level(k)) /\ (\A k : Levels(k)' = Levels(k))
    BY LevelUnmoved, SeenUnmoved
<1>2. CollectLevel(s, L)'
    BY <1>1 DEF CollectLevel
<1>3. AtLevel(s, L)' /\ phase' # "lost"
    BY <1>2 DEF AtLevel
<1>4. Room(s)'
    BY <1>1 DEF Room, Collecting
<1>5. QED BY <1>1, <1>3, <1>4, OneTurn

LEMMA InRegion ==
    ASSUME One, SearchInv, LevelInv, Collecting
    PROVE  \E L \in Nat : /\ Room(wk[0]) /\ Nearer
                          /\ phase = "topdown" => TopDownLevel(wk[0], L)
                          /\ phase = "collect" => CollectLevel(wk[0], L)
BY DEF LevelInv, AtLevel

\* A step of a flush: what was gathered stays so.
LEMMA FlushTurn ==
    ASSUME One, SearchInv, LevelInv, Collecting, UNCHANGED <<view, phase, parent, window, next>>,
           \A i \in window.first .. (window.last - 1) : queue'[i] = queue[i],
           Flushing(wk[0]), NEW s, wk' = [wk EXCEPT ![0] = s],
           Gathered(s)' = Gathered(wk[0]), Load(s)' = Load(wk[0]),
           s.pc = "add" => s.base = in', s.pc = "copy" => in' = s.base + Len(s.buffer),
           s.from = wk[0].from, s.todo = wk[0].todo, s.pc # "swap",
           \/ s.v = wk[0].v /\ Flushing(s)
           \/ s.pc = "look" /\ wk[0].v # NoParent /\ s.v = NoParent /\ phase = "topdown"
           \/ s.pc = "rest" /\ wk[0].v = NoParent /\ s.v = NoParent /\ s.buffer = <<>> /\ (phase = "collect" => s.todo = <<>>)
           \/ s.pc = "gather" /\ wk[0].v = NoParent /\ s.v = NoParent /\ s.buffer = <<>> /\ phase = "collect"
    PROVE  LevelInv'
<1>1. PICK w : w = wk[0]
    OBVIOUS
<1>2. PICK L \in Nat : /\ Room(w) /\ Nearer
                       /\ phase = "topdown" => TopDownLevel(w, L)
                       /\ phase = "collect" => CollectLevel(w, L)
    BY <1>1, InRegion
<1>3. s.pc = "look" => ~Flushing(s)
    BY DEF Flushing
<1>4. CASE phase = "collect"
  <2>1. s.pc = "rest" => s.todo = <<>> /\ s.buffer = <<>>
      BY <1>4 DEF Flushing
  <2>2. s.pc = "gather" => s.buffer = <<>>
      BY DEF Flushing
  <2>3. QED BY <1>1, <1>2, <1>4, <2>1, <2>2, CollectTurn
<1>5. CASE phase = "topdown"
  <2>1. TopDownLevel(w, L)
      BY <1>2, <1>5
  <2>2. Holding(s) => Holding(w)
      BY <1>1 DEF Holding, Flushing
  <2>3. Holding(s) => s.from \in Level(L) /\ ToSet(s.todo) \in SUBSET Neighbours(s.from)
      BY <1>1, <2>1, <2>2 DEF TopDownLevel
  <2>4. w.v # NoParent => w.v \in Seen
    <3>1. w.v # NoParent => w.v \in Gathered(w)
        BY <1>1, <1>5 DEF Gathered, Pending
    <3>2. QED BY <2>1, <3>1 DEF TopDownLevel
  <2>5. InHand(w) \in SUBSET (Seen \cup InHand(s))
    <3>1. CASE w.v = NoParent
        BY <1>1, <3>1 DEF InHand, Holding, Flushing
    <3>2. CASE w.v # NoParent
      <4>1. InHand(w) = ToSet(w.todo) \cup {w.v}
          BY <3>2 DEF InHand, Holding
      <4>2. Holding(s)
          BY <1>1, <3>2 DEF Holding, Flushing
      <4>3. ToSet(w.todo) \in SUBSET InHand(s)
          BY <1>1, <4>2 DEF InHand
      <4>4. QED BY <2>4, <3>2, <4>1, <4>3
    <3>3. QED BY <3>1, <3>2
  <2>6. /\ window.first \in Int /\ window.last \in Int /\ next \in Int /\ next <= window.last
      BY <1>5, OneFacts DEF SearchWorks, WindowTyped
  <2>7. \A i \in window.first .. (next - 1) : i \in window.first .. (window.last - 1)
      BY ONLY <2>6
  <2>8. \A i \in window.first .. (next - 1) : Neighbours(queue[i]) \in SUBSET (Seen \cup InHand(w))
      BY <2>1 DEF TopDownLevel
  <2>9. \A i \in window.first .. (next' - 1) : Neighbours(queue'[i]) \in SUBSET (Seen \cup InHand(s))
    <3>1. \A i \in window.first .. (next - 1) : queue'[i] = queue[i]
        BY <2>7
    <3>2. QED BY <2>5, <2>8, <3>1
  <2>10. Flushing(s) /\ s.v = NoParent => next' = window.last
    <3>1. Flushing(s) => s.v = w.v
        BY <1>1, <1>3 DEF Flushing
    <3>2. QED BY <1>1, <2>1, <3>1 DEF TopDownLevel
  <2>11. s.pc = "rest" => s.buffer = <<>> /\ s.v = NoParent /\ next' = window.last
    <3>1. s.pc = "rest" => w.v = NoParent /\ s.v = NoParent /\ s.buffer = <<>>
        BY <1>1 DEF Flushing
    <3>2. QED BY <1>1, <2>1, <3>1 DEF TopDownLevel
  <2>12. QED BY <1>1, <1>2, <1>5, <2>1, <2>3, <2>9, <2>10, <2>11, TopDownTurn
<1>6. QED BY <1>4, <1>5 DEF Collecting

LEMMA FlushFetchLevels ==
    ASSUME One, SearchInv, LevelInv, UNCHANGED view, NEW t \in team, FlushFetch(t)
    PROVE  LevelInv'
<1>1. t = 0 /\ Collecting
    BY OneFacts DEF FlushFetch
<1>2. PICK w : w = wk[0]
    OBVIOUS
<1>3. PICK s : s = [w EXCEPT !.pc = "add", !.base = in]
    OBVIOUS
<1>4. /\ w.pc = "fetch" /\ w \in SearchStates /\ wk' = [wk EXCEPT ![0] = s]
      /\ UNCHANGED <<phase, parent, queue, in, window, next>>
    BY <1>1, <1>2, <1>3, OneFacts DEF FlushFetch, Set
<1>5. s.pc = "add" /\ s.base = in /\ s.v = w.v /\ s.from = w.from /\ s.todo = w.todo /\ s.buffer = w.buffer
    BY <1>3, <1>4 DEF SearchStates
<1>6. Flushing(w) /\ Flushing(s)
    BY <1>4, <1>5 DEF Flushing
<1>7. Top(w) = in /\ Top(s)' = in /\ Pending(s)' = Pending(w)
    BY <1>4, <1>5 DEF Top, Pending, Flushing
<1>8. Gathered(s)' = Gathered(w) /\ Load(s)' = Load(w)
    BY <1>4, <1>5, <1>6, <1>7 DEF Gathered, Load, Flushing
<1>9. QED BY <1>1, <1>2, <1>4, <1>5, <1>6, <1>8, FlushTurn

LEMMA FlushAddLevels ==
    ASSUME One, SearchInv, LevelInv, UNCHANGED view, NEW t \in team, FlushAdd(t)
    PROVE  LevelInv'
<1>1. t = 0 /\ Collecting
    BY OneFacts DEF FlushAdd
<1>2. PICK w : w = wk[0]
    OBVIOUS
<1>3. PICK s : s = [w EXCEPT !.pc = "copy"]
    OBVIOUS
<1>4. /\ w.pc = "add" /\ w \in SearchStates /\ wk' = [wk EXCEPT ![0] = s]
      /\ UNCHANGED <<phase, parent, queue, window, next>> /\ in' = w.base + Len(w.buffer)
    BY <1>1, <1>2, <1>3, OneFacts DEF FlushAdd, Set, Added
<1>5. s.pc = "copy" /\ s.base = w.base /\ s.v = w.v /\ s.from = w.from /\ s.todo = w.todo /\ s.buffer = w.buffer
    BY <1>3, <1>4 DEF SearchStates
<1>6. Flushing(w) /\ Flushing(s)
    BY <1>4, <1>5 DEF Flushing
<1>7. Top(w) = in /\ w.base = in /\ Top(s)' = w.base /\ Pending(s)' = Pending(w)
  <2>1. w.base = in
      BY <1>1, <1>2, <1>4, InRegion DEF Room
  <2>2. QED BY <1>4, <1>5, <2>1 DEF Top, Pending, Flushing
<1>8. Gathered(s)' = Gathered(w) /\ Load(s)' = Load(w)
    BY <1>4, <1>5, <1>6, <1>7 DEF Gathered, Load, Flushing
<1>9. QED BY <1>1, <1>2, <1>4, <1>5, <1>6, <1>8, FlushTurn

LEMMA FlushCopyLevels ==
    ASSUME One, SearchInv, LevelInv, UNCHANGED view, NEW t \in team, FlushCopy(t)
    PROVE  LevelInv'
<1>1. t = 0 /\ Collecting
    BY OneFacts DEF FlushCopy
<1>2. PICK w : w = wk[0]
    OBVIOUS
<1>3. PICK b, end : b = w.base /\ end = b + Len(w.buffer)
    OBVIOUS
<1>4. w.pc = "copy" /\ w \in SearchStates /\ UNCHANGED <<parent, in, window, next>>
    BY <1>1, <1>2, OneFacts DEF FlushCopy
<1>5. /\ b \in Nat /\ end \in Nat /\ b <= end /\ w.buffer \in Seq(Vertices) /\ Len(w.buffer) \in Nat
      /\ w.todo \in Seq(Nat) /\ N \in Nat /\ window.last \in Nat /\ window.last <= b
      /\ Cardinality(Seen) \in Nat /\ Cardinality(Seen) <= N
  <2>1. w.base \in Nat /\ w.buffer \in Seq(Vertices) /\ w.todo \in Seq(Nat)
      BY <1>4 DEF SearchStates
  <2>2. b \in Nat /\ Len(w.buffer) \in Nat /\ end \in Nat /\ b <= end
      BY <1>3, <2>1
  <2>3. WritesOn(w)
      BY <1>1, <1>2, WorkerFacts
  <2>4. window.last <= b
      BY <1>3, <1>4, <2>3 DEF WritesOn
  <2>5. window.last \in Nat
      BY OneFacts DEF SearchWorks, WindowTyped
  <2>6. QED BY <2>1, <2>2, <2>4, <2>5, OneFacts
<1>6. Flushing(w) /\ Top(w) = b
    BY <1>3, <1>4 DEF Flushing, Top
<1>7. Load(w) <= Cardinality(Seen) /\ in = end
    BY <1>1, <1>2, <1>3, <1>4, InRegion DEF Room
<1>8. ~(end > N)
  <2>1. PICK k \in Nat : Load(w) = b + Len(w.buffer) + k
    <3>1. CASE phase = "collect"
      <4>1. Len(w.todo) \in Nat
          BY <1>5
      <4>2. Load(w) = b + Len(w.buffer) + Len(w.todo)
          BY <1>6, <3>1 DEF Load
      <4>3. QED BY <4>1, <4>2
    <3>2. CASE phase # "collect"
        BY <1>6, <3>2 DEF Load
    <3>3. QED BY <3>1, <3>2
  <2>2. QED BY <1>3, <1>5, <1>7, <2>1
<1>9. PICK x : x = [w EXCEPT !.buffer = <<>>]
    OBVIOUS
<1>10. PICK s : s = IF x.v # NoParent
                    THEN [x EXCEPT !.pc = "look", !.buffer = <<x.v>>, !.v = NoParent]
                    ELSE [x EXCEPT !.pc = IF phase = "collect" /\ x.todo # <<>> THEN "gather" ELSE "rest"]
    OBVIOUS
<1>11. wk' = [wk EXCEPT ![0] = s] /\ phase' = phase
    BY <1>1, <1>2, <1>3, <1>8, <1>9, <1>10 DEF FlushCopy, Set
<1>12. /\ DOMAIN x = {"pc", "todo", "from", "v", "word", "buffer", "base"}
       /\ x.v = w.v /\ x.from = w.from /\ x.todo = w.todo /\ x.buffer = <<>>
    BY <1>4, <1>9 DEF SearchStates
<1>13. /\ s.from = w.from /\ s.todo = w.todo
       /\ \/ s.pc = "look" /\ w.v # NoParent /\ s.v = NoParent /\ s.buffer = <<w.v>>
          \/ /\ s.pc = "rest" /\ w.v = NoParent /\ s.v = NoParent /\ s.buffer = <<>>
             /\ phase = "collect" => s.todo = <<>>
          \/ s.pc = "gather" /\ w.v = NoParent /\ s.v = NoParent /\ s.buffer = <<>> /\ phase = "collect"
  <2>1. CASE x.v # NoParent
    <3>1. s.pc = "look" /\ s.v = NoParent /\ s.buffer = <<x.v>> /\ s.from = x.from /\ s.todo = x.todo
        BY <1>10, <1>12, <2>1
    <3>2. QED BY <1>12, <2>1, <3>1
  <2>2. CASE x.v = NoParent
    <3>1. /\ s.v = NoParent /\ s.buffer = x.buffer /\ s.from = x.from /\ s.todo = x.todo
          /\ s.pc = IF phase = "collect" /\ x.todo # <<>> THEN "gather" ELSE "rest"
        BY <1>10, <1>12, <2>2
    <3>2. QED BY <1>12, <2>2, <3>1
  <2>3. QED BY <2>1, <2>2
<1>14. w.v # NoParent => phase = "topdown"
    BY <1>1, <1>2, OneFacts DEF AtWork, Collecting
<1>15. /\ \A i \in b .. (end - 1) : i \in 0 .. (N - 1) /\ i - b + 1 \in DOMAIN w.buffer /\ queue'[i] = w.buffer[i - b + 1]
       /\ \A i \in 0 .. (N - 1) : i \notin b .. (end - 1) => queue'[i] = queue[i]
       /\ end <= N
    BY <1>1, <1>2, <1>3, <1>4, <1>11, CopyWrites DEF Collecting
<1>16. \A i \in 0 .. (b - 1) : queue'[i] = queue[i]
    BY <1>5, <1>15
<1>17. \A i \in window.first .. (window.last - 1) : queue'[i] = queue[i]
  <2>1. window.first \in Nat
      BY OneFacts DEF SearchWorks, WindowTyped
  <2>2. QED BY <1>5, <1>16, <2>1
<1>18. {queue'[i] : i \in window.last .. (end - 1)} = {queue[i] : i \in window.last .. (b - 1)} \cup ToSet(w.buffer)
  <2>1. \A i \in window.last .. (end - 1) : i \in window.last .. (b - 1) \/ i \in b .. (end - 1)
      BY <1>5
  <2>2. \A i \in window.last .. (b - 1) : i \in window.last .. (end - 1) /\ queue'[i] = queue[i]
      BY <1>5, <1>16
  <2>3. \A i \in b .. (end - 1) : i \in window.last .. (end - 1) /\ queue'[i] \in ToSet(w.buffer)
    <3>1. TAKE i \in b .. (end - 1)
    <3>2. i \in window.last .. (end - 1)
        BY <1>5
    <3>3. queue'[i] \in ToSet(w.buffer)
        BY <1>15 DEF ToSet
    <3>4. QED BY <3>2, <3>3
  <2>4. ASSUME NEW j \in DOMAIN w.buffer
        PROVE  \E i \in window.last .. (end - 1) : queue'[i] = w.buffer[j]
    <3>1. j \in 1 .. Len(w.buffer)
        BY <1>5
    <3>2. PICK i : i = b + j - 1
        OBVIOUS
    <3>3. i \in b .. (end - 1) /\ i - b + 1 = j
        BY <1>3, <1>5, <3>1, <3>2
    <3>4. QED BY <1>15, <2>3, <3>3
  <2>5. \A y \in ToSet(w.buffer) : \E i \in window.last .. (end - 1) : queue'[i] = y
      BY <2>4 DEF ToSet
  <2>6. {queue'[i] : i \in window.last .. (end - 1)} \in SUBSET ({queue[i] : i \in window.last .. (b - 1)} \cup ToSet(w.buffer))
      BY <2>1, <2>2, <2>3
  <2>7. {queue[i] : i \in window.last .. (b - 1)} \in SUBSET {queue'[i] : i \in window.last .. (end - 1)}
    <3>1. \A i \in window.last .. (b - 1) : queue[i] \in {queue'[k] : k \in window.last .. (end - 1)}
        BY <2>2
    <3>2. QED BY <3>1
  <2>8. ToSet(w.buffer) \in SUBSET {queue'[i] : i \in window.last .. (end - 1)}
      BY <2>5
  <2>9. QED BY <2>6, <2>7, <2>8
<1>19. Top(s)' = end
    BY <1>4, <1>7, <1>13 DEF Top
<1>20. Gathered(w) = {queue'[i] : i \in window.last .. (end - 1)} \cup Pending(w)
    BY <1>6, <1>18 DEF Gathered
<1>21. Gathered(s)' = {queue'[i] : i \in window.last .. (end - 1)} \cup ToSet(s.buffer) \cup Pending(s)'
    BY <1>4, <1>19 DEF Gathered
<1>22. Gathered(s)' = Gathered(w) /\ Load(s)' = Load(w)
  <2>1. CASE w.v # NoParent
    <3>1. s.pc = "look" /\ s.buffer = <<w.v>> /\ s.v = NoParent /\ phase = "topdown"
        BY <1>13, <1>14, <2>1
    <3>2. Pending(s)' = {} /\ Pending(w) = {w.v}
        BY <1>6, <1>11, <2>1, <3>1 DEF Pending, Flushing
    <3>3. ToSet(s.buffer) = {w.v} /\ Len(s.buffer) = 1
        BY <3>1 DEF ToSet
    <3>4. Gathered(s)' = Gathered(w)
        BY <1>20, <1>21, <3>2, <3>3
    <3>5. Load(s)' = end + 1 + 0 /\ Load(w) = b + Len(w.buffer) + 1
        BY <1>6, <1>11, <1>19, <2>1, <3>1, <3>3 DEF Load, Flushing
    <3>6. QED BY <1>3, <1>5, <3>4, <3>5
  <2>2. CASE w.v = NoParent
    <3>1. s.buffer = <<>> /\ s.v = NoParent /\ s.todo = w.todo /\ ToSet(s.buffer) = {} /\ Len(s.buffer) = 0
        BY <1>13, <2>2 DEF ToSet
    <3>2. Pending(s)' = Pending(w)
        BY <1>11, <2>2, <3>1 DEF Pending, Flushing
    <3>3. Gathered(s)' = Gathered(w)
        BY <1>20, <1>21, <3>1, <3>2
    <3>4. PICK k : k = IF phase = "collect" THEN Len(w.todo) ELSE 0
        OBVIOUS
    <3>5. k \in Nat
        BY <1>5, <3>4
    <3>6. Load(s)' = end + 0 + k /\ Load(w) = b + Len(w.buffer) + k
        BY <1>6, <1>11, <1>19, <2>2, <3>1, <3>4 DEF Load, Flushing
    <3>7. QED BY <1>3, <1>5, <3>3, <3>5, <3>6
  <2>3. QED BY <2>1, <2>2
<1>23. s.pc # "add" /\ s.pc # "copy" /\ s.pc # "swap"
    BY <1>13
<1>24. UNCHANGED <<view, phase, parent, window, next>>
    BY <1>4, <1>11
<1>25. \/ s.pc = "look" /\ w.v # NoParent /\ s.v = NoParent /\ phase = "topdown"
       \/ s.pc = "rest" /\ w.v = NoParent /\ s.v = NoParent /\ s.buffer = <<>> /\ (phase = "collect" => s.todo = <<>>)
       \/ s.pc = "gather" /\ w.v = NoParent /\ s.v = NoParent /\ s.buffer = <<>> /\ phase = "collect"
    BY <1>13, <1>14
<1>26. QED BY <1>1, <1>2, <1>6, <1>11, <1>13, <1>17, <1>22, <1>23, <1>24, <1>25, FlushTurn

\* A top-down step ends: what it gathered is the next level, all of it.
LEMMA EndTopDownLevels ==
    ASSUME One, SearchInv, LevelInv, UNCHANGED view, EndTopDown
    PROVE  LevelInv'
<1>1. /\ phase = "topdown" /\ phase' = "choose" /\ window' = [first |-> window.last, last |-> in]
      /\ UNCHANGED <<parent, queue, in, wk>> /\ wk[0].pc = "rest" /\ Collecting
    BY OneFacts DEF EndTopDown, Slid, Rested, Collecting
<1>2. PICK w : w = wk[0]
    OBVIOUS
<1>3. PICK L \in Nat : TopDownLevel(w, L) /\ Room(w) /\ Nearer
    BY <1>1, <1>2, InTopDown
<1>4. w.buffer = <<>> /\ w.v = NoParent /\ next = window.last
    BY <1>1, <1>2, <1>3 DEF TopDownLevel
<1>5. InHand(w) = {} /\ Pending(w) = {} /\ Top(w) = in /\ ToSet(w.buffer) = {}
    BY <1>1, <1>2, <1>4 DEF InHand, Holding, Pending, Flushing, Top, ToSet
<1>6. /\ Seen' = Seen /\ Nearer' /\ N' = N /\ (\A k : Level(k)' = Level(k)) /\ (\A k : Levels(k)' = Levels(k))
    BY <1>1, <1>3, LevelUnmoved, SeenUnmoved
<1>7. Windowed' = Gathered(w)
  <2>1. window'.first = window.last /\ window'.last = in
      BY <1>1
  <2>2. Windowed' = {queue[i] : i \in window.last .. (in - 1)}
      BY <1>1, <2>1 DEF Windowed
  <2>3. QED BY <1>5, <2>2 DEF Gathered
<1>8. /\ N \in Nat \ {0} /\ GraphTyped /\ (\A v \in Vertices : Deep(v) \in 0 .. N) /\ Seen \in SUBSET Vertices
    BY OneFacts
<1>9. Windowed = Level(L) /\ Levels(L) \in SUBSET Seen
      /\ Gathered(w) = {v \in Seen : Deep(v) > L} /\ Gathered(w) \in SUBSET Level(L + 1)
    BY <1>3 DEF TopDownLevel
<1>10. Level(L + 1) \in SUBSET Seen
  <2>1. SUFFICES ASSUME NEW v \in Level(L + 1)
                 PROVE  v \in Seen
      OBVIOUS
  <2>2. v \in Vertices /\ Deep(v) = L + 1 /\ Deep(v) < N
      BY DEF Level
  <2>3. PICK u \in Vertices : Deep(u) + 1 = Deep(v) /\ v \in Neighbours(u)
      BY <1>8, <2>2, DistanceFacts
  <2>4. Deep(u) = L /\ Deep(u) < N
      BY <1>8, <2>2, <2>3
  <2>5. u \in Windowed
      BY <1>9, <2>4 DEF Level
  <2>6. PICK i \in window.first .. (window.last - 1) : u = queue[i]
      BY <2>5 DEF Windowed
  <2>7. Neighbours(queue[i]) \in SUBSET (Seen \cup InHand(w))
      BY <1>3, <1>4 DEF TopDownLevel
  <2>8. QED BY <1>5, <2>3, <2>6, <2>7
<1>11. Seen = Levels(L + 1)
  <2>1. ASSUME NEW v \in Seen
        PROVE  v \in Levels(L + 1)
    <3>1. CASE Deep(v) > L
        BY <1>8, <1>9, <3>1 DEF Levels, Level
    <3>2. CASE ~(Deep(v) > L)
      <4>1. v \in Vertices /\ Deep(v) \in 0 .. N
          BY <1>8
      <4>2. v # Source => Deep(v) < N
          BY <1>3, <4>1 DEF Nearer, Seen
      <4>3. Deep(Source) = 0
          BY <1>8, DistanceFacts
      <4>4. QED BY <1>8, <3>2, <4>1, <4>2, <4>3 DEF Levels
    <3>3. QED BY <3>1, <3>2
  <2>2. ASSUME NEW v \in Levels(L + 1)
        PROVE  v \in Seen
    <3>1. v \in Vertices /\ Deep(v) \in 0 .. N /\ Deep(v) <= L + 1 /\ Deep(v) < N
        BY <1>8 DEF Levels
    <3>2. CASE Deep(v) = L + 1
        BY <1>10, <3>1, <3>2 DEF Level
    <3>3. CASE Deep(v) # L + 1
      <4>1. Deep(v) <= L
          BY <1>8, <3>1, <3>3
      <4>2. QED BY <1>9, <3>1, <4>1 DEF Levels
    <3>4. QED BY <3>2, <3>3
  <2>3. QED BY <2>1, <2>2
<1>12. Gathered(w) = Level(L + 1)
  <2>1. \A v \in Level(L + 1) : v \in Seen /\ Deep(v) > L
      BY <1>10 DEF Level
  <2>2. QED BY <1>9, <2>1
<1>13. AtLevel(w, L + 1)' /\ phase' # "lost"
    BY <1>1, <1>6, <1>7, <1>11, <1>12 DEF AtLevel
<1>14. Room(w)'
  <2>1. Load(w) = in + 0 + 0
      BY <1>1, <1>2, <1>4, <1>5 DEF Load, Flushing
  <2>2. in \in Nat
      BY OneFacts DEF SearchWorks, WindowTyped
  <2>3. in <= Cardinality(Seen)
      BY <1>1, <1>3, <2>1, <2>2 DEF Room
  <2>4. QED BY <1>1, <1>6, <2>3 DEF Room, Collecting
<1>15. \A s \in {wk'[0]} : s = w
    BY <1>1, <1>2
<1>16. L + 1 \in Nat
    OBVIOUS
<1>17. QED BY <1>6, <1>13, <1>14, <1>15, <1>16 DEF LevelInv

LEMMA EndCollectLevels ==
    ASSUME One, SearchInv, LevelInv, UNCHANGED view, EndCollect
    PROVE  LevelInv'
<1>1. /\ phase = "collect" /\ phase' = "choose" /\ window' = [first |-> window.last, last |-> in]
      /\ UNCHANGED <<parent, queue, in, wk>> /\ wk[0].pc = "rest" /\ Collecting
    BY OneFacts DEF EndCollect, Slid, Rested, Collecting
<1>2. PICK w : w = wk[0]
    OBVIOUS
<1>3. PICK L \in Nat : CollectLevel(w, L) /\ Room(w) /\ Nearer
    BY <1>1, <1>2, InRegion
<1>4. w.buffer = <<>> /\ w.todo = <<>>
    BY <1>1, <1>2, <1>3 DEF CollectLevel
<1>5. Pending(w) = {} /\ Top(w) = in /\ ToSet(w.buffer) = {}
    BY <1>1, <1>2, <1>4 DEF Pending, Flushing, Top, ToSet
<1>6. /\ Seen' = Seen /\ Nearer' /\ N' = N /\ (\A k : Level(k)' = Level(k)) /\ (\A k : Levels(k)' = Levels(k))
    BY <1>1, <1>3, LevelUnmoved, SeenUnmoved
<1>7. Windowed' = Gathered(w)
  <2>1. window'.first = window.last /\ window'.last = in
      BY <1>1
  <2>2. Windowed' = {queue[i] : i \in window.last .. (in - 1)}
      BY <1>1, <2>1 DEF Windowed
  <2>3. QED BY <1>5, <2>2 DEF Gathered
<1>8. AtLevel(w, L)' /\ phase' # "lost"
    BY <1>1, <1>3, <1>6, <1>7 DEF AtLevel, CollectLevel
<1>9. Room(w)'
  <2>1. Load(w) = in + 0 + 0
      BY <1>1, <1>2, <1>4, <1>5 DEF Load, Flushing
  <2>2. in \in Nat
      BY OneFacts DEF SearchWorks, WindowTyped
  <2>3. in <= Cardinality(Seen)
      BY <1>1, <1>3, <2>1, <2>2 DEF Room
  <2>4. QED BY <1>1, <1>6, <2>3 DEF Room, Collecting
<1>10. \A s \in {wk'[0]} : s = w
    BY <1>1, <1>2
<1>11. QED BY <1>6, <1>8, <1>9, <1>10 DEF LevelInv

LEMMA ChooseLevels ==
    ASSUME One, SearchInv, LevelInv, UNCHANGED view, Choose
    PROVE  LevelInv'
<1>1. phase = "choose" /\ UNCHANGED <<parent, queue, in, window>> /\ ~Collecting
    BY DEF Choose, Collecting
<1>2. PICK L \in Nat : Seen = Levels(L) /\ Windowed = Level(L) /\ Nearer /\ in <= Cardinality(Seen)
    BY <1>1 DEF LevelInv, AtLevel, Room
<1>3. /\ Seen' = Seen /\ Nearer' /\ N' = N /\ (\A k : Level(k)' = Level(k)) /\ (\A k : Levels(k)' = Levels(k))
      /\ \A x : Deep(x)' = Deep(x)
    BY <1>1, <1>2, LevelUnmoved, SeenUnmoved
<1>4. Windowed' = Windowed
    BY <1>1 DEF Windowed
<1>5. in \in Nat /\ window.first \in Nat /\ window.last \in Nat /\ in = window.last /\ WindowTyped /\ GraphTyped
  <2>1. in \in Nat /\ window.first \in Nat /\ window.last \in Nat /\ WindowTyped /\ GraphTyped
      BY OneFacts DEF SearchWorks, WindowTyped
  <2>2. in = window.last
      BY <1>1 DEF SearchInv, SlotsCovered
  <2>3. QED BY <2>1, <2>2
<1>6. CASE phase' = "done"
  <2>1. Windowed = {}
    <3>1. window.first = window.last
        BY <1>6 DEF Choose
    <3>2. QED BY <1>5, <3>1 DEF Windowed
  <2>2. \A s \in {wk'[0]} : AtLevel(s, L)' /\ Room(s)'
      BY <1>1, <1>2, <1>3, <1>6, <2>1 DEF AtLevel, Room, Collecting
  <2>3. QED BY <1>2, <1>3, <1>6, <2>2 DEF LevelInv
<1>7. CASE phase' = "mark"
  <2>1. wk' = [t \in team |-> [Resting EXCEPT !.pc = "load", !.todo = Slots(t)]]
      BY <1>7 DEF Choose
  <2>2. PICK s : s = [Resting EXCEPT !.pc = "load", !.todo = Slots(0)]
      OBVIOUS
  <2>3. wk'[0] = s /\ s.pc = "load" /\ s.todo = Slots(0)
      BY <2>1, <2>2, OneFacts DEF Resting
  <2>4. \A i \in window.first .. (window.last - 1) : i \in ToSet(s.todo)
      BY <1>5, <2>3, OneFacts, SlotsGiven
  <2>5. MarkLevel(s, L)'
      BY <1>1, <1>2, <1>3, <1>4, <2>3, <2>4 DEF MarkLevel
  <2>6. \A q \in {wk'[0]} : AtLevel(q, L)' /\ Room(q)'
    <3>1. AtLevel(s, L)'
        BY <1>7, <2>5 DEF AtLevel
    <3>2. Room(s)'
        BY <1>1, <1>2, <1>3, <1>7 DEF Room, Collecting
    <3>3. \A q \in {wk'[0]} : q = s
        BY <2>3
    <3>4. QED BY <3>1, <3>2, <3>3
  <2>7. QED BY <1>2, <1>3, <1>7, <2>6 DEF LevelInv
<1>8. CASE phase' = "topdown"
  <2>1. wk' = Working("take") /\ next' = window.first
      BY <1>8 DEF Choose
  <2>2. PICK s : s = [Resting EXCEPT !.pc = "take"]
      OBVIOUS
  <2>3. wk'[0] = s /\ s.pc = "take" /\ s.v = NoParent /\ s.buffer = <<>>
      BY <2>1, <2>2, OneFacts DEF Working, Resting
  <2>4. Top(s)' = in /\ Pending(s)' = {} /\ ToSet(s.buffer) = {} /\ ~Holding(s)' /\ ~Flushing(s)'
      BY <1>1, <1>8, <2>3 DEF Top, Pending, Flushing, Holding, ToSet
  <2>5. Gathered(s)' = {}
    <3>1. {queue[i] : i \in window.last .. (in - 1)} = {}
        BY <1>5
    <3>2. QED BY <1>1, <2>4, <3>1 DEF Gathered
  <2>6. {v \in Seen : Deep(v) > L} = {}
    <3>1. \A v \in Seen : Deep(v) <= L /\ Deep(v) \in 0 .. N
        BY <1>2, OneFacts DEF Levels
    <3>2. N \in Nat
        BY OneFacts
    <3>3. QED BY <3>1, <3>2
  <2>7. window'.first .. (next' - 1) = {}
      BY <1>1, <1>5, <2>1
  <2>8. TopDownLevel(s, L)'
      BY <1>2, <1>3, <1>4, <2>3, <2>4, <2>5, <2>6, <2>7 DEF TopDownLevel
  <2>9. Load(s)' = in + 0 + 0
      BY <1>8, <2>3, <2>4 DEF Load
  <2>10. Room(s)'
      BY <1>2, <1>3, <1>5, <1>8, <2>3, <2>9 DEF Room, Collecting
  <2>11. \A q \in {wk'[0]} : AtLevel(q, L)' /\ Room(q)'
    <3>1. AtLevel(s, L)'
        BY <1>8, <2>8 DEF AtLevel
    <3>2. \A q \in {wk'[0]} : q = s
        BY <2>3
    <3>3. QED BY <2>10, <3>1, <3>2
  <2>12. QED BY <1>2, <1>3, <1>8, <2>11 DEF LevelInv
<1>9. QED BY <1>6, <1>7, <1>8 DEF Choose

\* The bits are set one at a time, and none is lost to another thread.
LEMMA MarkTurn ==
    ASSUME One, SearchInv, LevelInv, phase = "mark",
           UNCHANGED <<view, phase, parent, queue, in, window>>, NEW s, wk' = [wk EXCEPT ![0] = s],
           front \in SUBSET front',
           \A i \in ToSet(wk[0].todo) : i \in ToSet(s.todo) \/ queue[i] \in front',
           s.pc \in {"compare", "store"} => s.word = front', s.pc = "rest" => s.todo = <<>>
    PROVE  LevelInv'
<1>1. PICK w : w = wk[0]
    OBVIOUS
<1>2. PICK L \in Nat : MarkLevel(w, L) /\ Room(w) /\ Nearer
    BY <1>1 DEF LevelInv, AtLevel
<1>3. /\ Seen' = Seen /\ Nearer' /\ (\A k : Level(k)' = Level(k)) /\ (\A k : Levels(k)' = Levels(k))
    BY <1>2, LevelUnmoved, SeenUnmoved
<1>4. Windowed' = Windowed
    BY DEF Windowed
<1>5. \A i \in window.first .. (window.last - 1) : queue[i] \in front' \/ i \in ToSet(s.todo)
    BY <1>1, <1>2 DEF MarkLevel
<1>6. MarkLevel(s, L)'
    BY <1>2, <1>3, <1>4, <1>5 DEF MarkLevel
<1>7. AtLevel(s, L)' /\ phase' # "lost"
    BY <1>6 DEF AtLevel
<1>8. Room(s)'
    BY <1>2, <1>3 DEF Room, Collecting
<1>9. QED BY <1>3, <1>7, <1>8, OneTurn

LEMMA MarkLevels ==
    ASSUME One, SearchInv, LevelInv, UNCHANGED view, NEW t \in team,
           MarkLoad(t) \/ MarkCompare(t) \/ MarkStore(t)
    PROVE  LevelInv'
<1>1. t = 0 /\ phase = "mark" /\ UNCHANGED <<phase, parent, queue, in, window>>
    BY OneFacts DEF MarkLoad, MarkCompare, MarkStore
<1>2. PICK w : w = wk[0] /\ w \in SearchStates /\ AtWork(w)
    BY OneFacts
<1>3. w.pc \in {"compare", "store"} => w.word = front /\ w.todo # <<>>
  <2>1. w.pc \in {"compare", "store"} => w.word = front
      BY <1>1, <1>2 DEF LevelInv, AtLevel, MarkLevel
  <2>2. w.pc \in {"compare", "store"} => w.todo # <<>>
      BY <1>1, <1>2 DEF AtWork
  <2>3. QED BY <2>1, <2>2
<1>4. CASE MarkLoad(t)
  <2>1. PICK s : s = IF w.todo = <<>> THEN [w EXCEPT !.pc = "rest"] ELSE [w EXCEPT !.pc = "compare", !.word = front]
      OBVIOUS
  <2>2. wk' = [wk EXCEPT ![0] = s] /\ front' = front
      BY <1>1, <1>2, <1>4, <2>1 DEF MarkLoad, Set
  <2>3. /\ s.todo = w.todo
        /\ \/ s.pc = "rest" /\ s.todo = <<>>
           \/ s.pc = "compare" /\ s.word = front
    <3>1. CASE w.todo = <<>>
        BY <1>2, <2>1, <3>1 DEF SearchStates
    <3>2. CASE w.todo # <<>>
        BY <1>2, <2>1, <3>2 DEF SearchStates
    <3>3. QED BY <3>1, <3>2
  <2>4. QED BY <1>1, <1>2, <2>2, <2>3, MarkTurn
<1>5. CASE MarkCompare(t)
  <2>1. PICK s : s = [w EXCEPT !.pc = IF front = w.word THEN "store" ELSE "load"]
      OBVIOUS
  <2>2. wk' = [wk EXCEPT ![0] = s] /\ front' = front /\ w.pc = "compare"
      BY <1>1, <1>2, <1>5, <2>1 DEF MarkCompare, Set
  <2>3. s.todo = w.todo /\ s.pc = "store" /\ s.word = front
      BY <1>2, <1>3, <2>1, <2>2 DEF SearchStates
  <2>4. QED BY <1>1, <1>2, <2>2, <2>3, MarkTurn
<1>6. CASE MarkStore(t)
  <2>1. PICK s : s = [w EXCEPT !.pc = "load", !.todo = Tail(@)]
      OBVIOUS
  <2>2. wk' = [wk EXCEPT ![0] = s] /\ front' = w.word \cup {queue[Head(w.todo)]} /\ w.pc = "store"
      BY <1>1, <1>2, <1>6, <2>1 DEF MarkStore, Set, Marked
  <2>3. w.word = front /\ w.todo # <<>> /\ w.todo \in Seq(Nat)
      BY <1>2, <1>3, <2>2 DEF SearchStates
  <2>4. s.todo = Tail(w.todo) /\ s.pc = "load"
      BY <1>2, <2>1 DEF SearchStates
  <2>5. \A i \in ToSet(w.todo) : i \in ToSet(Tail(w.todo)) \/ i = Head(w.todo)
    <3>1. PICK a, b : a = w.todo /\ b = Tail(a)
        OBVIOUS
    <3>2. /\ Head(a) = a[1] /\ Len(a) \in Nat /\ DOMAIN a = 1 .. Len(a) /\ DOMAIN b = 1 .. (Len(a) - 1)
          /\ \A j \in DOMAIN b : b[j] = a[j + 1]
        BY <2>3, <3>1
    <3>3. ASSUME NEW j \in DOMAIN a, j # 1
          PROVE  \E k \in DOMAIN b : b[k] = a[j]
      <4>1. j - 1 \in DOMAIN b /\ (j - 1) + 1 = j
          BY <3>2, <3>3
      <4>2. b[j - 1] = a[j]
          BY <3>2, <4>1
      <4>3. QED BY <4>1, <4>2
    <3>4. \A i \in ToSet(a) : i \in ToSet(b) \/ i = Head(a)
        BY <3>2, <3>3 DEF ToSet
    <3>5. QED BY <3>1, <3>4
  <2>6. front \in SUBSET front' /\ \A i \in ToSet(w.todo) : i \in ToSet(s.todo) \/ queue[i] \in front'
      BY <2>2, <2>3, <2>4, <2>5
  <2>7. QED BY <1>1, <1>2, <2>2, <2>4, <2>6, MarkTurn
<1>7. QED BY <1>4, <1>5, <1>6

LEMMA EndMarkLevels ==
    ASSUME One, SearchInv, LevelInv, UNCHANGED view, EndMark
    PROVE  LevelInv'
<1>1. /\ phase = "mark" /\ phase' = "bottomup" /\ UNCHANGED <<parent, queue, in, front, wk>>
      /\ wk[0].pc = "rest" /\ ~Collecting /\ ~Collecting'
    BY OneFacts DEF EndMark, Rested, Collecting
<1>2. PICK w : w = wk[0]
    OBVIOUS
<1>3. PICK L \in Nat : MarkLevel(w, L) /\ Room(w) /\ Nearer
    BY <1>1, <1>2 DEF LevelInv, AtLevel
<1>4. /\ Seen' = Seen /\ Nearer' /\ (\A k : Level(k)' = Level(k)) /\ (\A k : Levels(k)' = Levels(k))
    BY <1>1, <1>3, LevelUnmoved, SeenUnmoved
<1>5. Level(L) \in SUBSET front
  <2>1. ToSet(w.todo) = {}
      BY <1>1, <1>2, <1>3 DEF MarkLevel, ToSet
  <2>2. \A i \in window.first .. (window.last - 1) : queue[i] \in front
      BY <1>3, <2>1 DEF MarkLevel
  <2>3. Windowed \in SUBSET front
      BY <2>2 DEF Windowed
  <2>4. QED BY <1>3, <2>3 DEF MarkLevel
<1>6. AtLevel(w, L)' /\ phase' # "lost"
    BY <1>1, <1>3, <1>4, <1>5 DEF AtLevel, MarkLevel
<1>7. Room(w)'
    BY <1>1, <1>3, <1>4 DEF Room
<1>8. \A s \in {wk'[0]} : s = w
    BY <1>1, <1>2
<1>9. QED BY <1>4, <1>6, <1>7, <1>8 DEF LevelInv

LEMMA GatherLevels ==
    ASSUME One, SearchInv, LevelInv, UNCHANGED view, NEW t \in team, Gather(t)
    PROVE  LevelInv'
<1>1. t = 0 /\ phase = "collect" /\ Collecting
    BY OneFacts DEF Gather, Collecting
<1>2. PICK w : w = wk[0] /\ w \in SearchStates /\ AtWork(w)
    BY OneFacts
<1>3. PICK todo, n : todo = w.todo /\ n = Min({BufferSize, Len(w.todo)})
    OBVIOUS
<1>4. PICK s : s = [w EXCEPT !.pc = "fetch", !.buffer = SubSeq(todo, 1, n), !.todo = SubSeq(@, n + 1, Len(@))]
    OBVIOUS
<1>5. /\ wk' = [wk EXCEPT ![0] = s] /\ w.pc = "gather"
      /\ UNCHANGED <<phase, parent, queue, in, window, next>>
    BY <1>1, <1>2, <1>3, <1>4 DEF Gather, Set
<1>6. PICK L \in Nat : CollectLevel(w, L) /\ Room(w) /\ Nearer
    BY <1>1, <1>2, InRegion
<1>7. w.buffer = <<>> /\ todo \in Seq(Vertices) /\ Len(todo) \in Nat
    BY <1>1, <1>2, <1>3, <1>5, <1>6 DEF CollectLevel, AtWork
<1>8. n \in 0 .. Len(todo)
  <2>1. BufferSize \in Nat
      BY BfsAssumption
  <2>2. {BufferSize, Len(todo)} \in SUBSET Nat /\ {BufferSize, Len(todo)} # {}
      BY <1>7, <2>1
  <2>3. Min({BufferSize, Len(todo)}) \in {BufferSize, Len(todo)} /\ Min({BufferSize, Len(todo)}) <= Len(todo)
      BY <2>2, MinIsLeast
  <2>4. QED BY <1>3, <1>7, <2>1, <2>3
<1>9. PICK a, b : a = SubSeq(todo, 1, n) /\ b = SubSeq(todo, n + 1, Len(todo))
    OBVIOUS
<1>10. s.pc = "fetch" /\ s.v = w.v /\ s.buffer = a /\ s.todo = b
    BY <1>2, <1>3, <1>4, <1>9 DEF SearchStates
<1>11. /\ DOMAIN a = 1 .. n /\ Len(a) = n /\ DOMAIN b = 1 .. (Len(todo) - n) /\ Len(b) = Len(todo) - n
       /\ (\A i \in 1 .. n : a[i] = todo[i]) /\ (\A i \in 1 .. (Len(todo) - n) : b[i] = todo[n + i])
  <2>1. a = [i \in 1 .. n |-> todo[i]]
      BY <1>7, <1>8, <1>9
  <2>2. b = [i \in 1 .. (Len(todo) - n) |-> todo[n + i]]
      BY <1>7, <1>8, <1>9
  <2>3. Len(a) = n /\ Len(b) = Len(todo) - n
      BY <1>7, <1>8, <2>1, <2>2
  <2>4. QED BY <1>7, <1>8, <2>1, <2>2, <2>3
<1>12. ToSet(todo) = ToSet(a) \cup ToSet(b)
  <2>1. DOMAIN todo = 1 .. Len(todo)
      BY <1>7
  <2>2. ASSUME NEW i \in DOMAIN todo
        PROVE  (\E j \in DOMAIN a : a[j] = todo[i]) \/ \E j \in DOMAIN b : b[j] = todo[i]
    <3>1. CASE i <= n
      <4>1. i \in DOMAIN a /\ a[i] = todo[i]
          BY <1>8, <1>11, <2>1, <3>1
      <4>2. QED BY <4>1
    <3>2. CASE ~(i <= n)
      <4>1. i - n \in 1 .. (Len(todo) - n) /\ n + (i - n) = i
          BY <1>7, <1>8, <2>1, <3>2
      <4>2. i - n \in DOMAIN b /\ b[i - n] = todo[i]
          BY <1>11, <4>1
      <4>3. QED BY <4>2
    <3>3. QED BY <3>1, <3>2
  <2>3. \A j \in DOMAIN a : j \in DOMAIN todo /\ a[j] = todo[j]
      BY <1>7, <1>8, <1>11, <2>1
  <2>4. \A j \in DOMAIN b : n + j \in DOMAIN todo /\ b[j] = todo[n + j]
      BY <1>7, <1>8, <1>11, <2>1
  <2>5. QED BY <2>2, <2>3, <2>4 DEF ToSet
<1>13. Top(w) = in /\ Top(s)' = in /\ Pending(w) = ToSet(todo) /\ Pending(s)' = ToSet(b) /\ ToSet(w.buffer) = {}
    BY <1>1, <1>3, <1>5, <1>7, <1>10 DEF Top, Pending, ToSet
<1>14. Gathered(s)' = Gathered(w)
    BY <1>5, <1>10, <1>12, <1>13 DEF Gathered
<1>15. Load(s)' = Load(w)
  <2>1. Load(s)' = in + n + (Len(todo) - n) /\ Load(w) = in + 0 + Len(todo)
      BY <1>1, <1>3, <1>5, <1>7, <1>10, <1>11, <1>13 DEF Load
  <2>2. in \in Nat
      BY OneFacts DEF SearchWorks, WindowTyped
  <2>3. QED BY <1>7, <1>8, <2>1, <2>2
<1>16. QED BY <1>1, <1>2, <1>5, <1>6, <1>10, <1>14, <1>15, CollectTurn

\* A bottom-up step wakes the next level, and nothing else.
LEMMA WokenLevel ==
    ASSUME One, SearchInv, NEW L \in Nat, Seen = Levels(L), Level(L) \in SUBSET front
    PROVE  LET woken == {v \in Vertices : parent[v] = NoParent /\ Waking(v) # {}}
           IN  /\ woken = Level(L + 1)
               /\ \A v \in woken : Waker(v) \in Vertices /\ Deep(Waker(v)) = L
<1>1. PICK woken : woken = {v \in Vertices : parent[v] = NoParent /\ Waking(v) # {}}
    OBVIOUS
<1>2. /\ GraphTyped /\ N \in Nat \ {0} /\ Symmetric /\ (\A v \in Vertices : Deep(v) \in 0 .. N)
      /\ adj \in [Vertices -> Seq(Vertices)]
    BY OneFacts, GraphFacts DEF One
<1>3. \A v \in front : v \in Levels(L)
    BY <1>2 DEF SearchInv, SearchWorks, VisitedOnly, Seen
<1>4. ASSUME NEW v \in woken
      PROVE  v \in Level(L + 1) /\ Waker(v) \in Vertices /\ Deep(Waker(v)) = L
  <2>1. v \in Vertices /\ Waking(v) # {} /\ v \notin Levels(L)
      BY <1>1 DEF Seen, Visited
  <2>2. PICK u \in Vertices : u = Waker(v) /\ u \in front /\ u \in Neighbours(v)
      BY <1>2, <2>1, WakerFacts
  <2>3. Deep(u) <= L /\ Deep(u) < N
      BY <1>3, <2>2 DEF Levels
  <2>4. v \in Neighbours(u)
      BY <1>2, <2>1, <2>2 DEF Symmetric
  <2>5. Deep(v) <= Deep(u) + 1 /\ Deep(v) < N
      BY <1>2, <2>3, <2>4, DistanceFacts
  <2>6. Deep(v) \in Nat /\ Deep(u) \in Nat
      BY <1>2, <2>1
  <2>7. ~(Deep(v) <= L)
      BY <2>1, <2>5 DEF Levels
  <2>8. Deep(v) = L + 1 /\ Deep(u) = L
      BY <2>3, <2>5, <2>6, <2>7
  <2>9. QED BY <2>1, <2>2, <2>5, <2>8 DEF Level
<1>5. ASSUME NEW v \in Level(L + 1)
      PROVE  v \in woken
  <2>1. v \in Vertices /\ Deep(v) = L + 1 /\ Deep(v) < N
      BY DEF Level
  <2>2. parent[v] = NoParent
      BY <2>1 DEF Levels, Seen, Visited
  <2>3. PICK u \in Vertices : Deep(u) + 1 = Deep(v) /\ v \in Neighbours(u)
      BY <1>2, <2>1, DistanceFacts
  <2>4. u \in front
    <3>1. Deep(u) = L /\ Deep(u) < N
        BY <1>2, <2>1, <2>3
    <3>2. QED BY <3>1 DEF Level
  <2>5. u \in Neighbours(v)
      BY <1>2, <2>1, <2>3 DEF Symmetric
  <2>6. PICK i \in DOMAIN adj[v] : adj[v][i] = u
      BY <2>5 DEF Neighbours, ToSet
  <2>7. i \in Waking(v)
      BY <2>4, <2>6 DEF Waking
  <2>8. QED BY <1>1, <2>1, <2>2, <2>7
<1>6. woken = Level(L + 1)
    BY <1>4, <1>5
<1>7. QED BY <1>1, <1>4, <1>6

\* The one thread turns all of the bits into slots.
LEMMA BitsOfOne ==
    ASSUME One, SearchInv, NEW bits \in SUBSET Vertices
    PROVE  ToSet(Bits(0, bits)) = bits /\ Len(Bits(0, bits)) = Cardinality(bits) /\ Bits(0, bits) \in Seq(bits)
<1>1. /\ GraphTyped /\ N \in Nat /\ Vertices = 0 .. (N - 1) /\ 0 \in team /\ \A t \in team : t = 0
    BY OneFacts
<1>2. \A i \in 0 .. (N - 1) : i \in Share(0, N)
    BY <1>1, SharesCover
<1>3. bits \cap Share(0, N) = bits
    BY <1>1, <1>2
<1>4. PICK s : s = InOrder(bits) /\ s = Bits(0, bits)
    BY <1>3 DEF Bits
<1>5. IsFiniteSet(bits) /\ bits \in SUBSET Nat
  <2>1. IsFiniteSet(Vertices)
      BY <1>1, GraphFacts
  <2>2. IsFiniteSet(bits)
      BY <2>1, FS_Subset
  <2>3. \A x \in Vertices : x \in Nat
      BY <1>1
  <2>4. QED BY <2>2, <2>3
<1>6. /\ s \in Seq(bits) /\ DOMAIN s = 1 .. Cardinality(bits) /\ (\A x \in bits : \E i \in DOMAIN s : s[i] = x)
      /\ Cardinality(bits) \in Nat
    BY <1>4, <1>5, Ordered
<1>7. Len(s) = Cardinality(bits)
    BY <1>6
<1>8. ToSet(s) = bits
    BY <1>6 DEF ToSet
<1>9. QED BY <1>4, <1>6, <1>7, <1>8

LEMMA BUStepLevels ==
    ASSUME One, SearchInv, LevelInv, UNCHANGED view, BUStep
    PROVE  LevelInv'
<1>1. PICK woken : woken = {v \in Vertices : parent[v] = NoParent /\ Waking(v) # {}}
    OBVIOUS
<1>2. /\ phase = "bottomup" /\ UNCHANGED <<queue, in, window>> /\ front' = woken
      /\ parent' = [v \in Vertices |-> IF v \in woken THEN Waker(v) ELSE parent[v]]
      /\ \/ phase' = "bottomup" /\ wk' = wk
         \/ /\ phase' = "collect"
            /\ wk' = [t \in team |-> [Resting EXCEPT !.pc = "gather", !.todo = Bits(t, woken)]]
    BY <1>1 DEF BUStep
<1>3. PICK L \in Nat : Seen = Levels(L) /\ Level(L) \in SUBSET front /\ Nearer /\ in <= Cardinality(Seen)
    BY <1>2 DEF LevelInv, AtLevel, Room, Collecting
<1>4. woken = Level(L + 1) /\ \A v \in woken : Waker(v) \in Vertices /\ Deep(Waker(v)) = L
    BY <1>1, <1>3, WokenLevel
<1>5. /\ Vertices' = Vertices /\ N' = N /\ (\A v : Deep(v)' = Deep(v))
      /\ (\A k : Level(k)' = Level(k)) /\ (\A k : Levels(k)' = Levels(k))
    BY LevelUnmoved
<1>6. /\ N \in Nat \ {0} /\ NoParent \notin Vertices /\ (\A v \in Vertices : Deep(v) \in 0 .. N)
      /\ Seen \in SUBSET Vertices /\ IsFiniteSet(Seen) /\ Cardinality(Seen) \in Nat
    BY OneFacts
<1>7. \A v \in woken : v \in Vertices /\ Deep(v) = L + 1 /\ Deep(v) < N /\ ~Visited(v)
    BY <1>1, <1>4 DEF Level, Visited
<1>8. \A v \in Vertices : Visited(v)' <=> Visited(v) \/ v \in woken
    BY <1>2, <1>4, <1>6 DEF Visited
<1>9. Seen' = Seen \cup woken
    BY <1>5, <1>7, <1>8 DEF Seen
<1>10. Seen \cup woken = Levels(L + 1)
  <2>1. ASSUME NEW v \in Vertices
        PROVE  Deep(v) <= L + 1 <=> Deep(v) <= L \/ Deep(v) = L + 1
      BY <1>6
  <2>2. QED BY <1>3, <1>4, <2>1 DEF Level, Levels
<1>11. Nearer'
  <2>1. ASSUME NEW v \in Vertices \ {Source}, Visited(v)'
        PROVE  parent'[v] \in Vertices /\ Deep(v) < N /\ Deep(parent'[v]) + 1 = Deep(v)
    <3>1. CASE v \in woken
        BY <1>2, <1>4, <1>7, <3>1
    <3>2. CASE v \notin woken
      <4>1. parent'[v] = parent[v] /\ Visited(v)
          BY <1>2, <1>8, <2>1, <3>2
      <4>2. QED BY <1>3, <4>1 DEF Nearer
    <3>3. QED BY <3>1, <3>2
  <2>2. \A v : Deep(parent[v])' = Deep(parent'[v])
      BY <1>5
  <2>3. QED BY <1>5, <2>1, <2>2 DEF Nearer
<1>12. woken \in SUBSET Vertices /\ IsFiniteSet(woken) /\ Cardinality(woken) \in Nat
       /\ Cardinality(Seen') = Cardinality(Seen) + Cardinality(woken)
  <2>1. woken \in SUBSET Vertices /\ IsFiniteSet(Vertices)
      BY <1>1, OneFacts, GraphFacts
  <2>2. IsFiniteSet(woken)
      BY <2>1, FS_Subset
  <2>3. Cardinality(woken) \in Nat
      BY <2>2, FS_CardinalityType
  <2>4. Seen \cap woken = {}
      BY <1>7 DEF Seen
  <2>5. Cardinality(Seen \cup woken) = Cardinality(Seen) + Cardinality(woken) - Cardinality(Seen \cap woken)
      BY <1>6, <2>2, FS_Union
  <2>6. Cardinality(Seen \cap woken) = 0
      BY <2>4, FS_EmptySet
  <2>7. QED BY <1>6, <1>9, <2>1, <2>2, <2>3, <2>5, <2>6
<1>13. in \in Nat /\ in = window.last
  <2>1. in \in Nat
      BY OneFacts DEF SearchWorks, WindowTyped
  <2>2. QED BY <1>2, <2>1 DEF SearchInv, SlotsCovered
<1>14. L + 1 \in Nat /\ Seen' = Levels(L + 1)' /\ Level(L + 1)' = woken
  <2>1. L + 1 \in Nat
      OBVIOUS
  <2>2. QED BY <1>4, <1>5, <1>9, <1>10, <2>1
<1>15. CASE phase' = "bottomup" /\ wk' = wk
  <2>1. \A s \in {wk'[0]} : AtLevel(s, L + 1)'
      BY <1>2, <1>14, <1>15 DEF AtLevel
  <2>2. \A s \in {wk'[0]} : Room(s)'
      BY <1>2, <1>3, <1>6, <1>12, <1>13, <1>15 DEF Room, Collecting
  <2>3. QED BY <1>11, <1>14, <1>15, <2>1, <2>2 DEF LevelInv
<1>16. CASE /\ phase' = "collect"
            /\ wk' = [t \in team |-> [Resting EXCEPT !.pc = "gather", !.todo = Bits(t, woken)]]
  <2>1. PICK todo : todo = Bits(0, woken)
      OBVIOUS
  <2>2. ToSet(todo) = woken /\ Len(todo) = Cardinality(woken)
      BY <1>12, <2>1, BitsOfOne
  <2>3. PICK s : s = [Resting EXCEPT !.pc = "gather", !.todo = todo]
      OBVIOUS
  <2>4. wk'[0] = s
      BY <1>16, <2>1, <2>3, OneFacts
  <2>5. s.pc = "gather" /\ s.todo = todo /\ s.buffer = <<>> /\ s.v = NoParent
      BY <2>3 DEF Resting
  <2>6. Top(s)' = in' /\ Pending(s)' = woken /\ ToSet(s.buffer) = {}
    <3>1. Top(s)' = in'
        BY <2>5 DEF Top
    <3>2. Pending(s)' = ToSet(todo)
        BY <1>16, <2>5 DEF Pending, ToSet
    <3>3. ToSet(s.buffer) = {}
        BY <2>5 DEF ToSet
    <3>4. QED BY <2>2, <3>1, <3>2, <3>3
  <2>7. Gathered(s)' = woken
    <3>1. window'.last .. (in' - 1) = {}
      <4>1. window'.last = in /\ in' = in
          BY <1>2, <1>13
      <4>2. QED BY <1>13, <4>1
    <3>2. QED BY <2>6, <3>1 DEF Gathered, ToSet
  <2>8. AtLevel(s, L + 1)'
      BY <1>14, <1>16, <2>5, <2>7 DEF AtLevel, CollectLevel
  <2>9. Load(s)' = in + 0 + Cardinality(woken)
      BY <1>2, <1>16, <2>2, <2>5, <2>6 DEF Load
  <2>10. Room(s)'
    <3>1. Load(s)' <= Cardinality(Seen')
        BY <1>3, <1>6, <1>12, <1>13, <2>9
    <3>2. phase' = "collect" /\ s.pc = "gather"
        BY <1>16, <2>5
    <3>3. QED BY ONLY <3>1, <3>2 DEF Room, Collecting
  <2>11. \A q \in {wk'[0]} : AtLevel(q, L + 1)' /\ Room(q)'
    <3>1. \A q \in {wk'[0]} : q = s
        BY <2>4
    <3>2. QED BY <2>8, <2>10, <3>1
  <2>12. QED BY <1>11, <1>14, <1>16, <2>11 DEF LevelInv
<1>17. QED BY <1>2, <1>15, <1>16

LEMMA LevelStart ==
    ASSUME One, Init
    PROVE  LevelInv
<1>1. SearchInv
    BY SearchStart
<1>2. /\ phase = "choose" /\ parent = [v \in Vertices |-> IF v = Source THEN Source ELSE NoParent]
      /\ queue = [i \in 0 .. (N - 1) |-> IF i = 0 THEN Source ELSE Garbage]
      /\ in = 1 /\ window = [first |-> 0, last |-> 1]
    BY DEF Init, BfsInit
<1>3. /\ GraphTyped /\ N \in Nat \ {0} /\ Source \in Vertices /\ NoParent \notin Vertices
      /\ \A v \in Vertices : Deep(v) \in 0 .. N
    BY <1>1, OneFacts
<1>4. Deep(Source) = 0 /\ \A v \in Vertices : Deep(v) = 0 => v = Source
    BY <1>3, DistanceFacts
<1>5. Seen = {Source}
    BY <1>2, <1>3 DEF Seen, Visited
<1>6. Level(0) = {Source}
    BY <1>3, <1>4 DEF Level
<1>7. Levels(0) = {Source}
  <2>1. \A v \in Vertices : Deep(v) <= 0 => Deep(v) = 0
      BY <1>3
  <2>2. QED BY <1>3, <1>4, <2>1 DEF Levels
<1>8. Windowed = {Source}
  <2>1. window.first .. (window.last - 1) = {0}
      BY <1>2
  <2>2. queue[0] = Source
      BY <1>2, <1>3
  <2>3. QED BY <2>1, <2>2 DEF Windowed
<1>9. Nearer
    BY <1>2 DEF Nearer, Visited
<1>10. \A s \in {wk[0]} : AtLevel(s, 0)
    BY <1>2, <1>5, <1>6, <1>7, <1>8 DEF AtLevel
<1>11. in <= Cardinality(Seen)
  <2>1. Cardinality(Seen) = 1
      BY <1>5, FS_Singleton
  <2>2. QED BY <1>2, <2>1
<1>12. \A s \in {wk[0]} : Room(s)
    BY <1>2, <1>11 DEF Room, Collecting
<1>13. phase # "lost" /\ 0 \in Nat
    BY <1>2
<1>14. QED BY <1>9, <1>10, <1>12, <1>13 DEF LevelInv

LEMMA LevelKept ==
    ASSUME One, SearchInv, LevelInv, [Next]_vars
    PROVE  LevelInv'
<1>1. UNCHANGED view /\ (UNCHANGED bfs \/ BfsNext)
    BY StepKinds
<1>2. CASE UNCHANGED bfs
  <2>1. UNCHANGED <<phase, parent, queue, in, window, front, next, wk>>
      BY <1>2 DEF bfs
  <2>2. /\ N' = N /\ (\A v : Neighbours(v)' = Neighbours(v)) /\ (\A v : Deep(v)' = Deep(v))
        /\ (\A L : Level(L)' = Level(L)) /\ (\A L : Levels(L)' = Levels(L))
      BY <1>1, LevelUnmoved
  <2>3. Seen' = Seen /\ Nearer' = Nearer
      BY <1>1, <2>1, SeenUnmoved
  <2>4. PICK w : w = wk[0] /\ wk'[0] = w
      BY <2>1
  <2>5. PICK L \in Nat : AtLevel(w, L) /\ Room(w) /\ Nearer /\ phase # "lost"
      BY <2>4 DEF LevelInv
  <2>6. Windowed' = Windowed /\ Collecting' = Collecting
      BY <2>1 DEF Windowed, Collecting
  <2>7. Top(w)' = Top(w) /\ Flushing(w)' = Flushing(w) /\ Holding(w)' = Holding(w) /\ InHand(w)' = InHand(w)
      BY <2>1 DEF Top, Flushing, Holding, InHand
  <2>8. Pending(w)' = Pending(w)
      BY <2>1, <2>7 DEF Pending, ToSet
  <2>9. Gathered(w)' = Gathered(w)
      BY <2>1, <2>7, <2>8 DEF Gathered
  <2>10. TopDownLevel(w, L)' = TopDownLevel(w, L)
      BY <2>1, <2>2, <2>3, <2>6, <2>7, <2>9 DEF TopDownLevel
  <2>11. MarkLevel(w, L)' = MarkLevel(w, L)
      BY <2>1, <2>2, <2>3, <2>6 DEF MarkLevel
  <2>12. CollectLevel(w, L)' = CollectLevel(w, L)
      BY <2>1, <2>2, <2>3, <2>9 DEF CollectLevel
  <2>13. AtLevel(w, L)'
      BY <2>1, <2>2, <2>3, <2>5, <2>6, <2>10, <2>11, <2>12 DEF AtLevel
  <2>14. Room(w)'
    <3>1. Load(w)' = Load(w)
        BY <2>1, <2>7 DEF Load
    <3>2. QED BY <2>1, <2>3, <2>5, <2>6, <3>1 DEF Room
  <2>15. \A s \in {wk'[0]} : s = w
      BY <2>4
  <2>16. QED BY <2>1, <2>3, <2>5, <2>13, <2>14, <2>15 DEF LevelInv
<1>3. CASE Choose
    BY <1>1, <1>3, ChooseLevels
<1>4. CASE EndTopDown
    BY <1>1, <1>4, EndTopDownLevels
<1>5. CASE EndMark
    BY <1>1, <1>5, EndMarkLevels
<1>6. CASE BUStep
    BY <1>1, <1>6, BUStepLevels
<1>7. CASE EndCollect
    BY <1>1, <1>7, EndCollectLevels
<1>8. ASSUME NEW t \in team, BfsStep(t)
      PROVE  LevelInv'
  <2>1. CASE Take(t)
      BY <1>1, <2>1, TakeLevels
  <2>2. CASE Look(t)
      BY <1>1, <2>2, LookLevels
  <2>3. CASE Swap(t)
      BY <1>1, <2>3, SwapLevels
  <2>4. CASE FlushFetch(t)
      BY <1>1, <2>4, FlushFetchLevels
  <2>5. CASE FlushAdd(t)
      BY <1>1, <2>5, FlushAddLevels
  <2>6. CASE FlushCopy(t)
      BY <1>1, <2>6, FlushCopyLevels
  <2>7. CASE MarkLoad(t) \/ MarkCompare(t) \/ MarkStore(t)
      BY <1>1, <2>7, MarkLevels
  <2>8. CASE Gather(t)
      BY <1>1, <2>8, GatherLevels
  <2>9. QED BY <1>8, <2>1, <2>2, <2>3, <2>4, <2>5, <2>6, <2>7, <2>8 DEF BfsStep
<1>9. QED BY <1>1, <1>2, <1>3, <1>4, <1>5, <1>6, <1>7, <1>8 DEF BfsNext

\* Past an empty level there is nothing.
LEMMA EmptyLevel ==
    ASSUME GraphTyped, NEW L \in Nat, Level(L) = {}, NEW v \in Vertices, Deep(v) < N
    PROVE  v \in Levels(L)
<1>1. N \in Nat \ {0} /\ \A x \in Vertices : Deep(x) \in 0 .. N
    BY GraphFacts, DistanceFacts
<1> DEFINE S == {j \in 0 .. N : Level(L + j) = {}}
<1>2. 0 \in S
    BY <1>1
<1>3. ASSUME NEW j \in 0 .. (N - 1), j \in S
      PROVE  j + 1 \in S
  <2>1. Level(L + j) = {} /\ j + 1 \in 0 .. N
      BY <1>1, <1>3
  <2>2. ASSUME NEW x \in Level(L + (j + 1))
        PROVE  FALSE
    <3>1. x \in Vertices /\ Deep(x) = L + (j + 1) /\ Deep(x) < N
        BY DEF Level
    <3>2. PICK u \in Vertices : Deep(u) + 1 = Deep(x)
        BY <1>1, <3>1, DistanceFacts
    <3>3. Deep(u) = L + j /\ Deep(u) < N
        BY <1>1, <3>1, <3>2
    <3>4. QED BY <2>1, <3>3 DEF Level
  <2>3. QED BY <2>1, <2>2
<1>4. \A j \in 0 .. (N - 1) : j \in S => j + 1 \in S
    BY <1>3
<1>5. \A j \in S : Level(L + j) = {}
    OBVIOUS
<1> HIDE DEF S
<1>6. \A j \in 0 .. N : j \in S
  <2>1. N \in Nat
      BY <1>1
  <2>2. QED BY ONLY <1>2, <1>4, <2>1, UpTo
<1>7. Deep(v) < L
  <2>1. SUFFICES ASSUME ~(Deep(v) < L)
                 PROVE  FALSE
      OBVIOUS
  <2>2. PICK d \in 0 .. N : d = Deep(v)
      BY <1>1
  <2>3. d - L \in 0 .. N /\ L + (d - L) = d
      BY <1>1, <2>1, <2>2
  <2>4. Level(d) = {}
      BY <1>5, <1>6, <2>3
  <2>5. QED BY <2>2, <2>4 DEF Level
<1>8. QED BY <1>1, <1>7 DEF Levels

\* Every step up is a step nearer.
LEMMA ClimbNearer ==
    ASSUME SearchInv, Nearer, NEW L \in Nat, Seen = Levels(L), NEW v \in Seen
    PROVE  \A k \in 0 .. Deep(v) : Climb(v, k) \in Vertices /\ Deep(Climb(v, k)) = Deep(v) - k
<1>1. /\ GraphTyped /\ SearchWorks /\ N \in Nat \ {0} /\ Deep(Source) = 0 /\ NoParent \notin Vertices
      /\ \A x \in Vertices : Deep(x) \in 0 .. N
  <2>1. GraphTyped /\ SearchWorks
      BY DEF SearchInv, SearchWorks
  <2>2. QED BY <2>1, GraphFacts, DistanceFacts DEF NoParent
<1>2. v \in Vertices /\ Visited(v) /\ Deep(v) <= L /\ Deep(v) < N
    BY DEF Seen, Levels
<1>3. PICK d \in 0 .. N : d = Deep(v)
    BY <1>1, <1>2
<1> DEFINE S == {k \in 0 .. d : Climb(v, k) \in Vertices /\ Deep(Climb(v, k)) = d - k}
<1>4. 0 \in S
    BY <1>1, <1>2, <1>3, ClimbSteps
<1>5. ASSUME NEW k \in 0 .. (d - 1), k \in S
      PROVE  k + 1 \in S
  <2>1. PICK x \in Vertices : x = Climb(v, k) /\ Deep(x) = d - k
      BY <1>5
  <2>2. k \in Nat /\ k + 1 \in 0 .. d /\ d - k > 0 /\ d - k <= d
      BY <1>3
  <2>3. x # Source /\ Deep(x) <= L /\ Deep(x) < N
      BY <1>1, <1>2, <1>3, <2>1, <2>2
  <2>4. Visited(x)
      BY <2>3 DEF Seen, Levels
  <2>5. parent[x] \in Vertices /\ Deep(parent[x]) + 1 = Deep(x)
      BY <2>3, <2>4 DEF Nearer
  <2>6. Climb(v, k + 1) = parent[x]
      BY <1>1, <1>2, <2>1, <2>2, ClimbSteps DEF Above
  <2>7. PICK y \in Vertices : y = parent[x] /\ Deep(y) \in 0 .. N /\ Deep(y) + 1 = d - k
      BY <1>1, <2>1, <2>5
  <2>8. Deep(y) = d - (k + 1)
      BY <1>1, <1>3, <2>7
  <2>9. QED BY <2>2, <2>6, <2>7, <2>8
<1>6. \A k \in 0 .. (d - 1) : k \in S => k + 1 \in S
    BY <1>5
<1>7. \A k \in S : Climb(v, k) \in Vertices /\ Deep(Climb(v, k)) = d - k
    OBVIOUS
<1> HIDE DEF S
<1>8. \A k \in 0 .. d : k \in S
  <2>1. d \in Nat
      BY <1>1
  <2>2. QED BY ONLY <1>4, <1>6, <2>1, UpTo
<1>9. QED BY <1>3, <1>7, <1>8

\* At the end a search by one thread has what BfsExact says.
LEMMA LevelsExact ==
    ASSUME SearchInv, One => LevelInv
    PROVE  BfsExact
<1>1. SUFFICES ASSUME One
               PROVE  /\ phase # "lost"
                      /\ phase = "done" => \A v \in Vertices :
                            IF Deep(v) = N THEN parent[v] = NoParent
                            ELSE /\ Climb(v, Deep(v)) = Source
                                 /\ \A k \in 0 .. (Deep(v) - 1) : Climb(v, k) # Source
    BY DEF BfsExact, One, Deep
<1>2. phase # "lost"
    BY <1>1 DEF LevelInv
<1>3. ASSUME phase = "done", NEW v \in Vertices
      PROVE  IF Deep(v) = N THEN parent[v] = NoParent
             ELSE Climb(v, Deep(v)) = Source /\ \A k \in 0 .. (Deep(v) - 1) : Climb(v, k) # Source
  <2>1. PICK L \in Nat : Seen = Levels(L) /\ Level(L) = {} /\ Nearer
      BY <1>1, <1>3 DEF LevelInv, AtLevel
  <2>2. /\ GraphTyped /\ N \in Nat /\ (\A x \in Vertices : Deep(x) \in 0 .. N)
        /\ Deep(Source) = 0 /\ \A x \in Vertices : Deep(x) = 0 => x = Source
      BY <1>1, OneFacts, DistanceFacts
  <2>3. PICK d \in 0 .. N : d = Deep(v)
      BY <2>2
  <2>4. CASE d = N
    <3>1. v \notin Seen
      <4>1. ~(Deep(v) < N)
          BY <2>2, <2>3, <2>4
      <4>2. v \notin Levels(L)
          BY <4>1 DEF Levels
      <4>3. QED BY <2>1, <4>2
    <3>2. QED BY <2>3, <2>4, <3>1 DEF Seen, Visited
  <2>5. CASE d # N
    <3>1. d < N
        BY <2>2, <2>5
    <3>2. v \in Seen
        BY <2>1, <2>2, <2>3, <3>1, EmptyLevel
    <3>3. \A k \in 0 .. d : Climb(v, k) \in Vertices /\ Deep(Climb(v, k)) = d - k
        BY <2>1, <2>3, <3>2, ClimbNearer
    <3>4. d \in 0 .. d /\ d - d = 0
        BY <2>2
    <3>5. Climb(v, d) = Source
        BY <2>2, <3>3, <3>4
    <3>6. ASSUME NEW k \in 0 .. (d - 1)
          PROVE  Climb(v, k) # Source
      <4>1. k \in 0 .. d /\ d - k # 0
          BY <2>2
      <4>2. Deep(Climb(v, k)) # 0
          BY <3>3, <4>1
      <4>3. QED BY <2>2, <4>2
    <3>7. QED BY <2>3, <2>5, <3>5, <3>6
  <2>6. QED BY <2>4, <2>5
<1>4. QED BY <1>2, <1>3

\* A search is right in every state: its arrays, its tree for any team, and what a
\* team of one returns.
THEOREM SearchIsRight == Spec => []BfsCorrect
<1> DEFINE Inv == SearchInv /\ TreeInv /\ (One => LevelInv)
<1>1. Init => Inv
    BY SearchStart, TreeStart, LevelStart
<1>2. Inv /\ [Next]_vars => Inv'
  <2>1. SUFFICES ASSUME Inv, [Next]_vars
                 PROVE  Inv'
      OBVIOUS
  <2>2. SearchInv'
      BY <2>1, SearchKept
  <2>3. TreeInv'
      BY <2>1, TreeKept
  <2>4. One' = One
    <3>1. UNCHANGED view
        BY <2>1, StepKinds
    <3>2. QED BY <3>1, LevelUnmoved
  <2>5. One => LevelInv'
      BY <2>1, LevelKept
  <2>6. QED BY <2>2, <2>3, <2>4, <2>5
<1>3. Inv => BfsCorrect
    BY SearchKnown, TreeIsSound, LevelsExact DEF BfsCorrect
<1>4. QED BY <1>1, <1>2, <1>3, PTL DEF Spec

-----------------------------------------------------------------------------
(* The shortest distances: rounds of relaxing every edge, as many as vertices. *)

\* The ways to x that d knows, and the distances after one more edge.
Ways(d, x) == {d[x]} \cup {d[u] + weight[<<u, x>>] : u \in {y \in Vertices : x \in Neighbours(y)}}
Round(d) == [x \in Vertices |-> Min(Ways(d, x))]

\* Distances before the first round.
Unknown == [x \in Vertices |-> IF x = Source THEN 0 ELSE kDistInf]

Rounds(f) ==
    /\ f \in [0 .. N -> [Vertices -> Nat]] /\ f[0] = Unknown
    /\ \A k \in 0 .. (N - 1) : f[k + 1] = Round(f[k])

\* The weights are one of the functions that the constants allow.
Weighted == GraphTyped /\ weight \in WeightSet

\* Every edge has a weight.
LEMMA WeightsAreNumbers ==
    ASSUME Weighted
    PROVE  \A u, v \in Vertices : weight[<<u, v>>] \in Nat
<1>1. adj \in GraphSet /\ weight \in WeightSet
    BY DEF Weighted, GraphTyped
<1>2. \A e \in DOMAIN weight : weight[e] \in Nat
    BY <1>1, DeltaSteppingAssumption
<1>3. Vertices \X Vertices \subseteq DOMAIN weight
    BY <1>1, DeltaSteppingAssumption DEF Vertices
<1>4. TAKE u, v \in Vertices
<1>5. <<u, v>> \in Vertices \X Vertices
    OBVIOUS
<1>6. QED BY <1>2, <1>3, <1>5

\* A round finds the least of the ways it knows.
LEMMA RoundIsLeast ==
    ASSUME Weighted, NEW d \in [Vertices -> Nat]
    PROVE  /\ Round(d) \in [Vertices -> Nat]
           /\ \A x \in Vertices :
                 /\ Round(d)[x] <= d[x]
                 /\ \A u \in Vertices : x \in Neighbours(u) => Round(d)[x] <= d[u] + weight[<<u, x>>]
                 /\ \/ Round(d)[x] = d[x]
                    \/ \E u \in Vertices : x \in Neighbours(u) /\ Round(d)[x] = d[u] + weight[<<u, x>>]
<1>1. \A u, v \in Vertices : weight[<<u, v>>] \in Nat
    BY WeightsAreNumbers
<1>2. ASSUME NEW x \in Vertices
      PROVE  /\ Min(Ways(d, x)) \in Ways(d, x) /\ Min(Ways(d, x)) \in Nat
             /\ \A n \in Ways(d, x) : Min(Ways(d, x)) <= n
  <2>1. Ways(d, x) \in SUBSET Nat /\ Ways(d, x) # {}
    <3>1. d[x] \in Nat /\ \A u \in Vertices : d[u] + weight[<<u, x>>] \in Nat
      <4>1. \A u \in Vertices : d[u] \in Nat /\ weight[<<u, x>>] \in Nat
          BY <1>1
      <4>2. QED BY <4>1
    <3>2. \A n \in Ways(d, x) : n \in Nat
        BY <3>1 DEF Ways
    <3>3. d[x] \in Ways(d, x)
        BY DEF Ways
    <3>4. QED BY <3>2, <3>3
  <2>2. Min(Ways(d, x)) \in Ways(d, x) /\ \A n \in Ways(d, x) : Min(Ways(d, x)) <= n
      BY ONLY <2>1, MinIsLeast
  <2>3. QED BY <2>1, <2>2
<1>3. \A x \in Vertices : Round(d)[x] = Min(Ways(d, x))
    BY DEF Round
<1>4. Round(d) \in [Vertices -> Nat]
    BY <1>2 DEF Round
<1>5. ASSUME NEW x \in Vertices
      PROVE  /\ Round(d)[x] <= d[x]
             /\ \A u \in Vertices : x \in Neighbours(u) => Round(d)[x] <= d[u] + weight[<<u, x>>]
             /\ \/ Round(d)[x] = d[x]
                \/ \E u \in Vertices : x \in Neighbours(u) /\ Round(d)[x] = d[u] + weight[<<u, x>>]
  <2> DEFINE m == Min(Ways(d, x))
  <2>1. m = Round(d)[x] /\ m \in Ways(d, x) /\ \A n \in Ways(d, x) : m <= n
      BY <1>2, <1>3
  <2> HIDE DEF m
  <2>2. d[x] \in Ways(d, x) /\ \A u \in Vertices : x \in Neighbours(u) => d[u] + weight[<<u, x>>] \in Ways(d, x)
      BY DEF Ways
  <2>3. m = d[x] \/ \E u \in Vertices : x \in Neighbours(u) /\ m = d[u] + weight[<<u, x>>]
      BY <2>1 DEF Ways
  <2>4. QED BY <2>1, <2>2, <2>3
<1>6. QED BY <1>4, <1>5

\* Shortest is what as many rounds as vertices give.
LEMMA ShortestByRounds ==
    ASSUME Weighted
    PROVE  \E f : Rounds(f) /\ \A v \in Vertices : Shortest(v) = f[N][v]
<1> DEFINE Body(f, k) == [x \in Vertices |-> IF k = 0 THEN IF x = Source THEN 0 ELSE kDistInf
                             ELSE Min({f[k - 1][x]} \cup {f[k - 1][u] + weight[<<u, x>>] :
                                                              u \in {y \in Vertices : x \in Neighbours(y)}})]
           P(f) == f = [k \in 0 .. N |-> Body(f, k)]
           F == CHOOSE f : P(f)
<1>1. \A v : Shortest(v) = F[N][v]
    BY DEF Shortest
<1>2. N \in Nat /\ Unknown \in [Vertices -> Nat]
    BY GraphFacts DEF Weighted, Unknown, kDistInf
<1>3. \A f, k : Body(f, k) = IF k = 0 THEN Unknown ELSE Round(f[k - 1])
    BY DEF Unknown, Round, Ways
<1> HIDE DEF Body
<1>4. PICK G, a : G = [d \in [Vertices -> Nat] |-> Round(d)] /\ a = Unknown
    OBVIOUS
<1>5. PICK h : Iterates(h, a, G, N)
    BY <1>2, IteratesExist
<1>6. h[0] = a /\ \A i \in 0 .. (N - 1) : h[i + 1] = G[h[i]]
  <2>1. N \in Nat
      BY <1>2
  <2>2. \A i \in 0 .. N : h[i] = IF i = 0 THEN a ELSE G[h[i - 1]]
      BY <1>5 DEF Iterates
  <2>3. QED BY ONLY <2>1, <2>2
<1>7. \A i \in 0 .. N : h[i] \in [Vertices -> Nat]
  <2> DEFINE S == {i \in 0 .. N : h[i] \in [Vertices -> Nat]}
  <2>1. 0 \in S
      BY <1>2, <1>4, <1>6
  <2>2. ASSUME NEW i \in 0 .. (N - 1), i \in S
        PROVE  i + 1 \in S
    <3>1. h[i] \in [Vertices -> Nat] /\ i + 1 \in 0 .. N
        BY <1>2, <2>2
    <3>2. h[i + 1] = Round(h[i])
        BY <1>4, <1>6, <3>1
    <3>3. Round(h[i]) \in [Vertices -> Nat]
        BY <3>1, RoundIsLeast
    <3>4. QED BY <3>1, <3>2, <3>3
  <2> HIDE DEF S
  <2>3. \A i \in 0 .. N : i \in S
      BY ONLY <1>2, <2>1, <2>2, UpTo
  <2>4. QED BY <2>3 DEF S
<1>8. P(h)
  <2>1. h = [i \in 0 .. N |-> IF i = 0 THEN a ELSE G[h[i - 1]]]
      BY <1>5 DEF Iterates
  <2>2. ASSUME NEW i \in 0 .. N
        PROVE  (IF i = 0 THEN a ELSE G[h[i - 1]]) = Body(h, i)
    <3>1. i # 0 => i - 1 \in 0 .. N
        BY <1>2
    <3>2. i # 0 => G[h[i - 1]] = Round(h[i - 1])
        BY <1>4, <1>7, <3>1
    <3>3. QED BY <1>3, <1>4, <3>2
  <2>3. h = [i \in 0 .. N |-> Body(h, i)]
      BY ONLY <2>1, <2>2
  <2>4. QED BY <2>3
<1>9. P(F)
    BY <1>8
<1> HIDE DEF F
<1>10. \A k \in 0 .. N : F[k] = Body(F, k)
  <2>1. F = [k \in 0 .. N |-> Body(F, k)]
      BY <1>9
  <2>2. QED BY ONLY <2>1
<1>11. F[0] = Unknown
    BY <1>2, <1>3, <1>10
<1>12. \A k \in 0 .. (N - 1) : F[k + 1] = Round(F[k])
  <2>1. TAKE k \in 0 .. (N - 1)
  <2>2. k + 1 \in 0 .. N /\ k + 1 # 0 /\ (k + 1) - 1 = k
      BY <1>2
  <2>3. F[k + 1] = Round(F[(k + 1) - 1])
      BY <1>3, <1>10, <2>2
  <2>4. QED BY <2>2, <2>3
<1>13. \A i \in 0 .. N : F[i] \in [Vertices -> Nat]
  <2> DEFINE S == {i \in 0 .. N : F[i] \in [Vertices -> Nat]}
  <2>1. 0 \in S
      BY <1>2, <1>11
  <2>2. ASSUME NEW i \in 0 .. (N - 1), i \in S
        PROVE  i + 1 \in S
    <3>1. F[i] \in [Vertices -> Nat] /\ i + 1 \in 0 .. N
        BY <1>2, <2>2
    <3>2. Round(F[i]) \in [Vertices -> Nat]
        BY <3>1, RoundIsLeast
    <3>3. QED BY <1>12, <3>1, <3>2
  <2> HIDE DEF S
  <2>3. \A i \in 0 .. N : i \in S
      BY ONLY <1>2, <2>1, <2>2, UpTo
  <2>4. QED BY <2>3 DEF S
<1>14. F \in [0 .. N -> [Vertices -> Nat]]
  <2>1. F = [k \in 0 .. N |-> Body(F, k)]
      BY <1>9
  <2>2. \A k \in 0 .. N : Body(F, k) \in [Vertices -> Nat]
      BY <1>10, <1>13
  <2>3. QED BY ONLY <2>1, <2>2
<1>15. Rounds(F)
    BY <1>11, <1>12, <1>14 DEF Rounds
<1>16. QED BY <1>1, <1>15

\* From round to round distances only shrink.
LEMMA RoundsShrink ==
    ASSUME Weighted, NEW f, Rounds(f)
    PROVE  \A j \in 0 .. N : \A i \in 0 .. j : \A v \in Vertices : f[j][v] <= f[i][v]
<1>1. N \in Nat /\ f \in [0 .. N -> [Vertices -> Nat]]
    BY GraphFacts DEF Weighted, Rounds
<1>2. \A k \in 0 .. N, v \in Vertices : f[k][v] \in Nat
    BY <1>1
<1>3. ASSUME NEW k \in 0 .. (N - 1), NEW v \in Vertices
      PROVE  f[k + 1][v] <= f[k][v]
  <2>1. f[k] \in [Vertices -> Nat] /\ f[k + 1] = Round(f[k])
      BY <1>1 DEF Rounds
  <2>2. QED BY <2>1, RoundIsLeast
<1> DEFINE S == {j \in 0 .. N : \A i \in 0 .. j : \A v \in Vertices : f[j][v] <= f[i][v]}
<1>4. 0 \in S
    BY <1>1, <1>2
<1>5. ASSUME NEW j \in 0 .. (N - 1), j \in S
      PROVE  j + 1 \in S
  <2>1. ASSUME NEW i \in 0 .. (j + 1), NEW v \in Vertices
        PROVE  f[j + 1][v] <= f[i][v]
    <3>1. CASE i = j + 1
        BY <1>1, <1>2, <3>1
    <3>2. CASE i # j + 1
      <4>1. i \in 0 .. j /\ i \in 0 .. N /\ j \in 0 .. N /\ j + 1 \in 0 .. N
          BY <1>1, <3>2
      <4>2. f[j][v] <= f[i][v] /\ f[j + 1][v] <= f[j][v]
          BY <1>3, <1>5, <4>1
      <4>3. f[j][v] \in Nat /\ f[i][v] \in Nat /\ f[j + 1][v] \in Nat
          BY <1>2, <4>1
      <4>4. QED BY <4>2, <4>3
    <3>3. QED BY <3>1, <3>2
  <2>2. j + 1 \in 0 .. N
      BY <1>1
  <2>3. QED BY <2>1, <2>2
<1> HIDE DEF S
<1>6. \A j \in 0 .. N : j \in S
    BY ONLY <1>1, <1>4, <1>5, UpTo
<1>7. QED BY <1>6 DEF S

\* c holds, for each round up to j, a vertex that was not farther than v is at
\* round j, all of them different, and v at last.
Chain(f, c, j, v) ==
    /\ c \in [0 .. j -> Vertices] /\ c[j] = v
    /\ \A i \in 0 .. j : f[i][c[i]] <= f[j][v]
    /\ \A i, k \in 0 .. j : c[i] = c[k] => i = k

\* A vertex that round j brings nearer is the end of such a chain: it was reached by
\* a vertex that round j - 1 brought nearer, and none of the chain is met again.
LEMMA NearerByChain ==
    ASSUME Weighted, NEW f, Rounds(f)
    PROVE  \A j \in 0 .. N : \A v \in Vertices :
              j = 0 \/ f[j][v] < f[j - 1][v] => \E c : Chain(f, c, j, v)
<1>1. N \in Nat /\ f \in [0 .. N -> [Vertices -> Nat]]
    BY GraphFacts DEF Weighted, Rounds
<1>2. \A k \in 0 .. N, v \in Vertices : f[k][v] \in Nat
    BY <1>1
<1>3. \A u, v \in Vertices : weight[<<u, v>>] \in Nat
    BY WeightsAreNumbers
<1>4. \A j \in 0 .. N : \A i \in 0 .. j : \A v \in Vertices : f[j][v] <= f[i][v]
    BY RoundsShrink
<1> DEFINE S == {j \in 0 .. N : \A v \in Vertices :
                    j = 0 \/ f[j][v] < f[j - 1][v] => \E c : Chain(f, c, j, v)}
<1>5. 0 \in S
  <2>1. ASSUME NEW v \in Vertices
        PROVE  Chain(f, [i \in 0 .. 0 |-> v], 0, v)
    <3>1. PICK c : c = [i \in 0 .. 0 |-> v]
        OBVIOUS
    <3>2. c \in [0 .. 0 -> Vertices] /\ \A i \in 0 .. 0 : i = 0 /\ c[i] = v
        BY <3>1
    <3>3. f[0][v] \in Nat
        BY <1>1, <1>2
    <3>4. Chain(f, c, 0, v)
        BY <3>2, <3>3 DEF Chain
    <3>5. QED BY <3>1, <3>4
  <2>2. QED BY <1>1, <2>1
<1>6. ASSUME NEW j \in 0 .. (N - 1), j \in S
      PROVE  j + 1 \in S
  <2>1. j \in 0 .. N /\ j + 1 \in 0 .. N /\ j + 1 # 0 /\ (j + 1) - 1 = j /\ j \in Nat
      BY <1>1
  <2>2. SUFFICES ASSUME NEW v \in Vertices, f[j + 1][v] < f[j][v]
                 PROVE  \E c : Chain(f, c, j + 1, v)
      BY <2>1
  <2>3. f[j] \in [Vertices -> Nat] /\ f[j + 1] = Round(f[j])
      BY <1>1, <2>1 DEF Rounds
  <2>4. \/ Round(f[j])[v] = f[j][v]
        \/ \E u \in Vertices : v \in Neighbours(u) /\ Round(f[j])[v] = f[j][u] + weight[<<u, v>>]
      BY <2>3, RoundIsLeast
  <2>5. f[j + 1][v] \in Nat /\ f[j][v] \in Nat /\ f[j + 1][v] # f[j][v]
      BY <1>2, <2>1, <2>2
  <2>6. PICK u \in Vertices : v \in Neighbours(u) /\ f[j + 1][v] = f[j][u] + weight[<<u, v>>]
      BY <2>3, <2>4, <2>5
  <2>7. j = 0 \/ f[j][u] < f[j - 1][u]
    <3>1. SUFFICES ASSUME j # 0
                   PROVE  f[j][u] < f[j - 1][u]
        OBVIOUS
    <3>2. j - 1 \in 0 .. (N - 1) /\ j - 1 \in 0 .. N /\ (j - 1) + 1 = j /\ j - 1 \in 0 .. j
        BY <1>1, <2>1, <3>1
    <3>3. f[j - 1] \in [Vertices -> Nat] /\ f[j] = Round(f[j - 1])
      <4>1. f[(j - 1) + 1] = Round(f[j - 1])
          BY <3>2 DEF Rounds
      <4>2. QED BY <1>1, <3>2, <4>1
    <3>4. f[j][v] <= f[j - 1][u] + weight[<<u, v>>]
        BY <2>6, <3>3, RoundIsLeast
    <3>5. f[j][u] <= f[j - 1][u] /\ f[j][u] \in Nat /\ f[j - 1][u] \in Nat /\ weight[<<u, v>>] \in Nat
        BY <1>2, <1>3, <1>4, <2>1, <3>2
    <3>6. QED BY <2>2, <2>5, <2>6, <3>4, <3>5
  <2>8. PICK c : Chain(f, c, j, u)
      BY <1>6, <2>7
  <2>9. PICK d : d = [i \in 0 .. (j + 1) |-> IF i = j + 1 THEN v ELSE c[i]]
      OBVIOUS
  <2>10. d[j + 1] = v /\ \A i \in 0 .. j : d[i] = c[i]
      BY <2>1, <2>9
  <2>11. \A i \in 0 .. j : /\ c[i] \in Vertices /\ f[i][c[i]] <= f[j][u]
                           /\ f[i][c[i]] \in Nat /\ f[j][u] \in Nat /\ f[i][c[i]] <= f[j + 1][v]
    <3>1. TAKE i \in 0 .. j
    <3>2. c[i] \in Vertices /\ f[i][c[i]] <= f[j][u] /\ i \in 0 .. N
        BY <1>1, <2>8 DEF Chain
    <3>3. f[i][c[i]] \in Nat /\ f[j][u] \in Nat /\ weight[<<u, v>>] \in Nat
        BY <1>2, <1>3, <2>1, <3>2
    <3>4. QED BY <2>6, <3>2, <3>3
  <2>12. \A i \in 0 .. j : c[i] # v
    <3>1. SUFFICES ASSUME NEW i \in 0 .. j, c[i] = v
                   PROVE  FALSE
        OBVIOUS
    <3>2. f[i][v] <= f[j + 1][v] /\ f[i][v] \in Nat
        BY <2>11, <3>1
    <3>3. f[j][v] <= f[i][v]
        BY <1>4, <2>1
    <3>4. QED BY ONLY <2>2, <2>5, <3>2, <3>3
  <2>13. Chain(f, d, j + 1, v)
    <3>1. d \in [0 .. (j + 1) -> Vertices]
        BY <2>9, <2>11
    <3>2. ASSUME NEW i \in 0 .. (j + 1)
          PROVE  f[i][d[i]] <= f[j + 1][v]
      <4>1. CASE i = j + 1
          BY <2>5, <2>10, <4>1
      <4>2. CASE i # j + 1
        <5>1. i \in 0 .. j
            BY <2>1, <4>2
        <5>2. QED BY <2>10, <2>11, <5>1
      <4>3. QED BY <4>1, <4>2
    <3>3. ASSUME NEW i \in 0 .. (j + 1), NEW k \in 0 .. (j + 1), d[i] = d[k]
          PROVE  i = k
      <4>1. (i = j + 1 \/ i \in 0 .. j) /\ (k = j + 1 \/ k \in 0 .. j)
          BY <2>1
      <4>2. \A a, b \in 0 .. j : c[a] = c[b] => a = b
          BY <2>8 DEF Chain
      <4>3. QED BY ONLY <2>10, <2>12, <3>3, <4>1, <4>2
    <3>4. QED BY <2>10, <3>1, <3>2, <3>3 DEF Chain
  <2>14. QED BY <2>13
<1> HIDE DEF S
<1>7. \A j \in 0 .. N : j \in S
    BY ONLY <1>1, <1>5, <1>6, UpTo
<1>8. QED BY <1>7 DEF S

\* The last round brings nothing nearer: a chain for it would have more vertices than there are.
LEMMA RoundsEnd ==
    ASSUME Weighted, NEW f, Rounds(f)
    PROVE  \A v \in Vertices : f[N][v] = f[N - 1][v]
<1>1. N \in Nat \ {0} /\ f \in [0 .. N -> [Vertices -> Nat]] /\ IsFiniteSet(Vertices)
    BY GraphFacts DEF Weighted, Rounds
<1>2. SUFFICES ASSUME NEW v \in Vertices, f[N][v] # f[N - 1][v]
               PROVE  FALSE
    OBVIOUS
<1>3. N \in 0 .. N /\ N - 1 \in 0 .. N
    BY <1>1
<1>4. f[N][v] <= f[N - 1][v]
    BY <1>3, RoundsShrink
<1>5. f[N][v] < f[N - 1][v]
  <2>1. f[N][v] \in Nat /\ f[N - 1][v] \in Nat
      BY <1>1, <1>3
  <2>2. QED BY <1>2, <1>4, <2>1
<1>6. PICK c : Chain(f, c, N, v)
    BY <1>3, <1>5, NearerByChain
<1>7. c \in [0 .. N -> Vertices] /\ \A i, k \in 0 .. N : c[i] = c[k] => i = k
    BY <1>6 DEF Chain
<1>8. IsFiniteSet(0 .. N) /\ Cardinality(0 .. N) = N + 1
  <2>1. 0 \in Int /\ N \in Int /\ ~(0 > N)
      BY <1>1
  <2>2. IsFiniteSet(0 .. N) /\ Cardinality(0 .. N) = N - 0 + 1
      BY ONLY <2>1, FS_Interval
  <2>3. QED BY <1>1, <2>2
<1>9. Cardinality(Vertices) < Cardinality(0 .. N)
    BY <1>1, <1>8 DEF N
<1>10. \E x, y \in 0 .. N : x # y /\ c[x] = c[y]
  <2>1. PICK D, V : D = 0 .. N /\ V = Vertices
      OBVIOUS
  <2>2. IsFiniteSet(D) /\ IsFiniteSet(V) /\ Cardinality(V) < Cardinality(D) /\ c \in [D -> V]
      BY <1>1, <1>7, <1>8, <1>9, <2>1
  <2>3. \E x, y \in D : x # y /\ c[x] = c[y]
      BY ONLY <2>2, FS_PigeonHole
  <2>4. QED BY <2>1, <2>3
<1>11. QED BY <1>7, <1>10

\* d is a number for each vertex, 0 at the source, and no edge can make it less.
Settled(d) ==
    /\ d \in [Vertices -> 0 .. kDistInf] /\ d[Source] = 0
    /\ \A u \in Vertices : \A v \in Neighbours(u) : d[v] <= d[u] + weight[<<u, v>>]

\* The shortest distances are settled, and nothing that is settled is greater.
LEMMA ShortestIsSettled ==
    ASSUME Weighted
    PROVE  /\ Settled([v \in Vertices |-> Shortest(v)])
           /\ \A d : Settled(d) => \A v \in Vertices : d[v] <= Shortest(v)
<1>1. PICK f : Rounds(f) /\ \A v \in Vertices : Shortest(v) = f[N][v]
    BY ShortestByRounds
<1>2. N \in Nat \ {0} /\ f \in [0 .. N -> [Vertices -> Nat]] /\ Source \in Vertices
    BY <1>1, GraphFacts DEF Weighted, Rounds
<1>3. \A k \in 0 .. N, v \in Vertices : f[k][v] \in Nat
    BY <1>2
<1>4. \A u, v \in Vertices : weight[<<u, v>>] \in Nat
    BY WeightsAreNumbers
<1>5. f[0] = [x \in Vertices |-> IF x = Source THEN 0 ELSE kDistInf] /\ 0 \in 0 .. N /\ N \in 0 .. N
    BY <1>1, <1>2 DEF Rounds, Unknown
<1>6. \A v \in Vertices : f[N][v] <= f[0][v]
    BY <1>1, <1>2, <1>5, RoundsShrink
<1>7. PICK m : m = [v \in Vertices |-> Shortest(v)]
    OBVIOUS
<1>8. \A v \in Vertices : m[v] = f[N][v]
    BY <1>1, <1>7
<1>9. m \in [Vertices -> 0 .. kDistInf]
  <2>1. \A v \in Vertices : Shortest(v) \in 0 .. kDistInf
    <3>1. TAKE v \in Vertices
    <3>2. f[N][v] \in Nat /\ f[N][v] <= f[0][v] /\ (f[0][v] = 0 \/ f[0][v] = kDistInf)
        BY <1>3, <1>5, <1>6
    <3>3. QED BY <1>1, <3>2 DEF kDistInf
  <2>2. QED BY <1>7, <2>1
<1>10. m[Source] = 0
  <2>1. f[N][Source] \in Nat /\ f[N][Source] <= 0
      BY <1>2, <1>3, <1>5, <1>6
  <2>2. QED BY <1>2, <1>8, <2>1
<1>11. ASSUME NEW u \in Vertices, NEW v \in Neighbours(u)
       PROVE  m[v] <= m[u] + weight[<<u, v>>]
  <2>1. v \in Vertices
      BY NeighboursAreVertices DEF Weighted
  <2>2. N - 1 \in 0 .. (N - 1) /\ N - 1 \in 0 .. N /\ (N - 1) + 1 = N
      BY <1>2
  <2>3. f[N - 1] \in [Vertices -> Nat] /\ f[N] = Round(f[N - 1])
    <3>1. f[(N - 1) + 1] = Round(f[N - 1])
        BY <1>1, <2>2 DEF Rounds
    <3>2. QED BY <1>2, <2>2, <3>1
  <2>4. f[N][v] <= f[N - 1][u] + weight[<<u, v>>]
      BY <2>1, <2>3, RoundIsLeast
  <2>5. f[N - 1][u] = f[N][u]
      BY <1>1, RoundsEnd
  <2>6. QED BY <1>8, <2>1, <2>4, <2>5
<1>12. Settled(m)
    BY <1>9, <1>10, <1>11 DEF Settled
<1>13. ASSUME NEW d, Settled(d)
       PROVE  \A v \in Vertices : d[v] <= Shortest(v)
  <2>1. d \in [Vertices -> 0 .. kDistInf] /\ d[Source] = 0
      BY <1>13 DEF Settled
  <2>a. \A v \in Vertices : d[v] \in Nat /\ d[v] <= kDistInf
      BY <2>1 DEF kDistInf
  <2> DEFINE S == {k \in 0 .. N : \A v \in Vertices : d[v] <= f[k][v]}
  <2>2. 0 \in S
      BY <1>5, <2>1, <2>a
  <2>3. ASSUME NEW k \in 0 .. (N - 1), k \in S
        PROVE  k + 1 \in S
    <3>1. f[k] \in [Vertices -> Nat] /\ f[k + 1] = Round(f[k]) /\ k + 1 \in 0 .. N /\ k \in 0 .. N
        BY <1>1, <1>2 DEF Rounds
    <3>2. ASSUME NEW v \in Vertices
          PROVE  d[v] <= f[k + 1][v]
      <4>1. CASE Round(f[k])[v] = f[k][v]
          BY <2>3, <3>1, <4>1
      <4>2. CASE \E u \in Vertices : v \in Neighbours(u) /\ Round(f[k])[v] = f[k][u] + weight[<<u, v>>]
        <5>1. PICK u \in Vertices : v \in Neighbours(u) /\ Round(f[k])[v] = f[k][u] + weight[<<u, v>>]
            BY <4>2
        <5>2. d[v] <= d[u] + weight[<<u, v>>] /\ d[u] <= f[k][u]
            BY <1>13, <2>3, <5>1 DEF Settled
        <5>3. d[v] \in Nat /\ d[u] \in Nat /\ f[k][u] \in Nat /\ weight[<<u, v>>] \in Nat
            BY <1>3, <1>4, <2>a, <3>1
        <5>4. d[v] <= f[k][u] + weight[<<u, v>>]
            BY <5>2, <5>3
        <5>5. QED BY <3>1, <5>1, <5>4
      <4>3. QED BY <3>1, <4>1, <4>2, RoundIsLeast
    <3>3. QED BY <3>1, <3>2
  <2> HIDE DEF S
  <2>4. \A k \in 0 .. N : k \in S
    <3>1. N \in Nat
        BY <1>2
    <3>2. QED BY ONLY <3>1, <2>2, <2>3, UpTo
  <2>5. QED BY <1>1, <1>5, <2>4 DEF S
<1>14. QED BY <1>7, <1>12, <1>13

-----------------------------------------------------------------------------
(* Shortest paths: no distance is too short, for any team. *)

\* What a thread knows.
Relaxers ==
    [pc : {"take", "vertex", "edge", "reach", "compare", "swap", "fuse", "voted", "fetch", "add", "copy", "copied"},
     us : Seq(Vertices), es : Seq(Vertices), fused : BOOLEAN, old : 0 .. kDistInf, new : 0 .. kDistInf,
     bins : Seq(Seq(Vertices)), base : Nat]

\* It is at an edge of the first of its vertices.
Scanning(s) == s.pc \in {"edge", "reach", "compare", "swap"}

\* A distance that it is about to write is not too short.
RelaxerSound(s) ==
    /\ Scanning(s) => s.us # <<>> /\ ToSet(s.es) \in SUBSET Neighbours(Head(s.us))
    /\ s.pc \in {"reach", "compare", "swap"} => s.es # <<>>
    /\ s.pc \in {"compare", "swap"} => s.new < s.old /\ Shortest(Head(s.es)) <= s.new

PathsTyped ==
    /\ Weighted /\ dist \in [Vertices -> 0 .. kDistInf] /\ frontier \in [1 .. NumEdges -> Vertices]
    /\ tail \in [curr : Nat, next : Nat] /\ taken \in Nat
    /\ bin \in [curr : 0 .. kMaxBin, next : 0 .. kMaxBin]
    /\ stage \in {"relax", "copy", "done", "lost"} /\ dw \in [team -> Relaxers]

PathsSound ==
    /\ \A v \in Vertices : Shortest(v) <= dist[v]
    /\ \A t \in team : RelaxerSound(dw[t])

\* A tail beyond the end of the frontier is one that a thread is about to run into.
TailsFit ==
    /\ tail.curr <= NumEdges /\ (stage = "relax" => taken <= tail.curr)
    /\ \/ tail.next <= NumEdges
       \/ stage \in {"copy", "lost"} /\ \E t \in team : dw[t].pc = "copy" /\ tail.next = Grown(t)

PathsInv == PathsTyped /\ PathsSound /\ (kernel = "sssp" => TailsFit)

\* There are so many edges.
LEMMA EdgesAreFinite ==
    ASSUME GraphTyped
    PROVE  NumEdges \in Nat
<1> DEFINE At1(v) == {v} \X DOMAIN adj[v]
           S == {At1(v) : v \in Vertices}
           F == [v \in Vertices |-> At1(v)]
<1>1. IsFiniteSet(Vertices) /\ adj \in [Vertices -> Seq(Vertices)]
    BY GraphFacts
<1>2. ASSUME NEW v \in Vertices
      PROVE  IsFiniteSet(At1(v))
  <2>1. DOMAIN adj[v] = 1 .. Len(adj[v]) /\ Len(adj[v]) \in Int /\ 1 \in Int
      BY <1>1
  <2>2. IsFiniteSet(DOMAIN adj[v])
      BY <2>1, FS_Interval
  <2>3. IsFiniteSet({v})
      BY FS_Singleton
  <2>4. QED BY <2>2, <2>3, FS_Product
<1> HIDE DEF At1
<1>3. F \in Surjection(Vertices, S)
    BY DEF Surjection
<1>4. IsFiniteSet(S)
  <2> HIDE DEF F, S
  <2>1. QED BY <1>1, <1>3, FS_Surjection
<1>5. \A T \in S : IsFiniteSet(T)
    BY <1>2
<1>6. NumEdges = Cardinality(UNION S) \div 2
    BY DEF NumEdges, At1
<1> HIDE DEF S
<1>7. Cardinality(UNION S) \in Nat
  <2>1. IsFiniteSet(UNION S)
      BY ONLY <1>4, <1>5, FS_UNION
  <2>2. QED BY <2>1, FS_CardinalityType
<1>8. QED BY <1>6, <1>7

\* The entries of a bin are vertices.
LEMMA EntriesAreVertices ==
    ASSUME NEW V, NEW t, dw[t].bins \in Seq(Seq(V)), NEW b \in Nat
    PROVE  Entries(t, b) \in Seq(V) /\ Len(Entries(t, b)) \in Nat
<1>1. CASE b < Len(dw[t].bins)
  <2>1. b + 1 \in DOMAIN dw[t].bins
      BY <1>1
  <2>2. dw[t].bins[b + 1] \in Seq(V)
      BY <2>1
  <2>3. QED BY <1>1, <2>2 DEF Entries
<1>2. CASE ~(b < Len(dw[t].bins))
  <2>1. <<>> \in Seq(V) /\ Len(<<>>) = 0
      OBVIOUS
  <2>2. QED BY <1>2, <2>1 DEF Entries
<1>3. QED BY <1>1, <1>2

\* A vertex that is filed is in its bin, and no bin loses one.
LEMMA FiledIsThere ==
    ASSUME NEW V, NEW bins \in Seq(Seq(V)), NEW b \in Nat, NEW v \in V
    PROVE  /\ Filed(bins, b, v) \in Seq(Seq(V)) /\ b + 1 \in DOMAIN Filed(bins, b, v)
           /\ v \in ToSet(Filed(bins, b, v)[b + 1])
           /\ \A i \in DOMAIN bins : /\ i \in DOMAIN Filed(bins, b, v)
                                     /\ \A x \in ToSet(bins[i]) : x \in ToSet(Filed(bins, b, v)[i])
<1> DEFINE n == Max({Len(bins), b + 1})
           Had(i) == IF i <= Len(bins) THEN bins[i] ELSE <<>>
           New(i) == IF i = b + 1 THEN <<v>> ELSE <<>>
           F == Filed(bins, b, v)
<1>1. F = [i \in 1 .. n |-> Had(i) \o New(i)]
    BY DEF Filed
<1>2. n \in Nat /\ Len(bins) <= n /\ b + 1 <= n
  <2>1. Len(bins) \in Nat /\ b + 1 \in Nat
      OBVIOUS
  <2>2. QED BY <2>1, MaxOfTwo
<1> HIDE DEF n, F
<1>3. ASSUME NEW i \in 1 .. n
      PROVE  /\ Had(i) \in Seq(V) /\ New(i) \in Seq(V)
             /\ F[i] \in Seq(V) /\ Len(F[i]) = Len(Had(i)) + Len(New(i))
             /\ \A k \in 1 .. Len(F[i]) : F[i][k] = IF k <= Len(Had(i)) THEN Had(i)[k] ELSE New(i)[k - Len(Had(i))]
  <2>1. <<>> \in Seq(V) /\ <<v>> \in Seq(V)
      OBVIOUS
  <2>2. Had(i) \in Seq(V)
      BY <2>1
  <2>3. New(i) \in Seq(V)
      BY <2>1
  <2> HIDE DEF Had, New
  <2>4. F[i] = Had(i) \o New(i)
      BY <1>1
  <2>5. QED BY <2>2, <2>3, <2>4, ConcatProperties
<1>4. F \in Seq(Seq(V)) /\ DOMAIN F = 1 .. n
  <2>1. F \in [1 .. n -> Seq(V)]
      BY <1>1, <1>3
  <2>2. QED BY <1>2, <2>1, SeqDef
<1>5. v \in ToSet(F[b + 1]) /\ b + 1 \in 1 .. n
  <2>1. b + 1 \in 1 .. n
      BY <1>2
  <2>2. New(b + 1) = <<v>> /\ Len(New(b + 1)) = 1 /\ New(b + 1)[1] = v
      OBVIOUS
  <2> HIDE DEF Had, New
  <2>b. /\ Had(b + 1) \in Seq(V) /\ F[b + 1] \in Seq(V)
        /\ Len(F[b + 1]) = Len(Had(b + 1)) + Len(New(b + 1))
      BY <1>3, <2>1
  <2>3. PICK m \in Nat : m = Len(Had(b + 1))
      BY <2>b
  <2>c. Len(New(b + 1)) = 1
      BY <2>2
  <2>4. Len(F[b + 1]) = m + 1 /\ m + 1 \in 1 .. Len(F[b + 1])
    <3>1. Len(F[b + 1]) = m + 1
        BY ONLY <2>b, <2>c, <2>3
    <3>2. m + 1 \in 1 .. (m + 1)
        OBVIOUS
    <3>3. QED BY ONLY <3>1, <3>2
  <2>a. ~(m + 1 <= m) /\ (m + 1) - m = 1
      BY <2>3
  <2>5. F[b + 1][m + 1] = v /\ m + 1 \in DOMAIN F[b + 1]
    <3>1. F[b + 1][m + 1] = New(b + 1)[(m + 1) - m]
        BY <1>3, <2>1, <2>3, <2>4, <2>a
    <3>2. DOMAIN F[b + 1] = 1 .. Len(F[b + 1])
        BY <1>3, <2>1
    <3>3. QED BY <2>2, <2>4, <2>a, <3>1, <3>2
  <2>6. QED BY <2>1, <2>5 DEF ToSet
<1>6. ASSUME NEW i \in DOMAIN bins
      PROVE  i \in 1 .. n /\ \A x \in ToSet(bins[i]) : x \in ToSet(F[i])
  <2>1. i \in 1 .. Len(bins) /\ Len(bins) \in Nat /\ bins[i] \in Seq(V)
      OBVIOUS
  <2>2. i \in 1 .. n /\ Had(i) = bins[i]
      BY <1>2, <2>1
  <2>3. ASSUME NEW k \in DOMAIN bins[i]
        PROVE  bins[i][k] \in ToSet(F[i])
    <3>1. k \in 1 .. Len(Had(i)) /\ Len(Had(i)) \in Nat /\ Len(New(i)) \in Nat
        BY <1>3, <2>1, <2>2
    <3> HIDE DEF Had, New
    <3>2. k \in 1 .. Len(F[i]) /\ F[i][k] = bins[i][k]
        BY <1>3, <2>2, <3>1
    <3>3. k \in DOMAIN F[i]
        BY <1>3, <2>2, <3>2
    <3>4. QED BY <3>2, <3>3 DEF ToSet
  <2>4. QED BY <2>2, <2>3 DEF ToSet
<1>7. QED BY <1>4, <1>5, <1>6 DEF F

\* What does not depend on the distances stays as it is.
LEMMA PathsUnmoved ==
    ASSUME UNCHANGED view, weight' = weight
    PROVE  /\ GraphTyped' = GraphTyped /\ Weighted' = Weighted /\ Vertices' = Vertices /\ N' = N
           /\ adj' = adj /\ team' = team /\ kernel' = kernel /\ NumEdges' = NumEdges /\ Relaxers' = Relaxers
           /\ \A v : Shortest(v)' = Shortest(v) /\ Neighbours(v)' = Neighbours(v)
           /\ \A r : RelaxerSound(r)' = RelaxerSound(r)
<1>1. Vertices' = Vertices /\ N' = N /\ adj' = adj /\ team' = team /\ kernel' = kernel
    BY DEF view, Vertices, N
<1>2. GraphTyped' = GraphTyped
    BY <1>1 DEF GraphTyped
<1>3. Weighted' = Weighted
    BY <1>2 DEF Weighted
<1>4. NumEdges' = NumEdges
    BY <1>1 DEF NumEdges
<1>5. Relaxers' = Relaxers
    BY <1>1 DEF Relaxers
<1>6. \A v : Neighbours(v)' = Neighbours(v)
    BY <1>1 DEF Neighbours, ToSet
<1>7. \A v : Shortest(v)' = Shortest(v)
    BY <1>1 DEF Shortest, Neighbours, ToSet
<1>8. \A r : RelaxerSound(r)' = RelaxerSound(r)
    BY <1>6, <1>7 DEF RelaxerSound, Scanning
<1>9. QED BY <1>1, <1>2, <1>3, <1>4, <1>5, <1>6, <1>7, <1>8

\* The shortest distances are numbers, and no edge can make them less.
LEMMA ShortestFacts ==
    ASSUME Weighted
    PROVE  /\ \A v \in Vertices : Shortest(v) \in 0 .. kDistInf
           /\ Source \in Vertices /\ Shortest(Source) = 0
           /\ \A u \in Vertices : \A v \in Neighbours(u) :
                 v \in Vertices /\ weight[<<u, v>>] \in Nat /\ Shortest(v) <= Shortest(u) + weight[<<u, v>>]
<1>1. PICK m : m = [v \in Vertices |-> Shortest(v)]
    OBVIOUS
<1>2. \A v \in Vertices : m[v] = Shortest(v)
    BY <1>1
<1>3. Settled(m)
    BY <1>1, ShortestIsSettled
<1>4. Source \in Vertices /\ \A u \in Vertices : \A v \in Neighbours(u) : v \in Vertices
    BY GraphFacts, NeighboursAreVertices DEF Weighted
<1>5. \A u \in Vertices : \A v \in Neighbours(u) : weight[<<u, v>>] \in Nat
    BY <1>4, WeightsAreNumbers
<1>6. QED BY <1>2, <1>3, <1>4, <1>5 DEF Settled

\* A thread takes a step while it relaxes, and no distance gets too short.
LEMMA PathsTurn ==
    ASSUME PathsInv, kernel = "sssp", stage = "relax", UNCHANGED <<view, weight, frontier, tail, stage>>,
           NEW t \in team, NEW s \in Relaxers, dw' = [dw EXCEPT ![t] = s], RelaxerSound(s),
           dist' \in [Vertices -> 0 .. kDistInf], \A v \in Vertices : Shortest(v) <= dist'[v],
           taken' \in Nat, taken' <= tail.curr, bin' \in [curr : 0 .. kMaxBin, next : 0 .. kMaxBin]
    PROVE  PathsInv'
<1>1. /\ Weighted' = Weighted /\ Vertices' = Vertices /\ team' = team /\ NumEdges' = NumEdges
      /\ Relaxers' = Relaxers /\ \A v : Shortest(v)' = Shortest(v)
    BY PathsUnmoved
<1>2. \A r : RelaxerSound(r)' = RelaxerSound(r)
    BY PathsUnmoved
<1>3. dw' \in [team -> Relaxers] /\ dw'[t] = s /\ \A x \in team : x # t => dw'[x] = dw[x]
    BY DEF PathsInv, PathsTyped
<1>4. PathsTyped'
    BY <1>1, <1>3 DEF PathsInv, PathsTyped
<1>5. \A x \in team : RelaxerSound(dw'[x])
    BY <1>3 DEF PathsInv, PathsSound
<1>6. PathsSound'
    BY <1>1, <1>2, <1>5 DEF PathsSound
<1>7. TailsFit'
    BY <1>1 DEF PathsInv, TailsFit
<1>8. QED BY <1>4, <1>6, <1>7 DEF PathsInv

\* A thread at an edge.
LEMMA ThreadAtEdge ==
    ASSUME PathsInv, NEW t \in team, Scanning(dw[t]), dw[t].es # <<>>
    PROVE  LET u == Head(dw[t].us)
               v == Head(dw[t].es)
           IN  /\ dw[t].us # <<>> /\ u \in Vertices /\ v \in Vertices /\ v \in Neighbours(u)
               /\ Tail(dw[t].es) \in Seq(Vertices) /\ ToSet(Tail(dw[t].es)) \in SUBSET Neighbours(u)
               /\ Through(t) = dist[u] + weight[<<u, v>>] /\ Through(t) \in Nat /\ Shortest(v) <= Through(t)
<1> DEFINE u == Head(dw[t].us)
           v == Head(dw[t].es)
<1>1. dw[t].us \in Seq(Vertices) /\ dw[t].es \in Seq(Vertices)
    BY DEF PathsInv, PathsTyped, Relaxers
<1>2. dw[t].us # <<>> /\ ToSet(dw[t].es) \in SUBSET Neighbours(u)
    BY DEF PathsInv, PathsSound, RelaxerSound
<1>3. u \in Vertices
    BY <1>1, <1>2, HeadAndRest
<1>4. /\ v \in Vertices /\ Tail(dw[t].es) \in Seq(Vertices) /\ v \in ToSet(dw[t].es)
      /\ \A x \in ToSet(Tail(dw[t].es)) : x \in ToSet(dw[t].es)
    BY <1>1, HeadAndRest
<1>5. v \in Neighbours(u) /\ ToSet(Tail(dw[t].es)) \in SUBSET Neighbours(u)
    BY <1>2, <1>4
<1>6. Through(t) = dist[u] + weight[<<u, v>>]
    BY DEF Through
<1> HIDE DEF u, v
<1>7. weight[<<u, v>>] \in Nat /\ Shortest(v) <= Shortest(u) + weight[<<u, v>>]
      /\ Shortest(v) \in 0 .. kDistInf /\ Shortest(u) \in 0 .. kDistInf
    BY <1>3, <1>4, <1>5, ShortestFacts DEF PathsInv, PathsTyped
<1>8. dist[u] \in 0 .. kDistInf /\ Shortest(u) <= dist[u]
    BY <1>3 DEF PathsInv, PathsTyped, PathsSound
<1>9. Through(t) \in Nat /\ Shortest(v) <= Through(t)
  <2>1. PICK a \in Nat, b \in Nat, c \in Nat, w \in Nat :
            a = Shortest(v) /\ b = Shortest(u) /\ c = dist[u] /\ w = weight[<<u, v>>]
    <3>1. Shortest(v) \in Nat /\ Shortest(u) \in Nat /\ dist[u] \in Nat
      <4>1. \A x \in 0 .. kDistInf : x \in Nat
          BY DEF kDistInf
      <4>2. QED BY ONLY <1>7, <1>8, <4>1
    <3>2. QED BY <1>7, <3>1
  <2>2. a <= b + w /\ b <= c /\ Through(t) = c + w
      BY <1>6, <1>7, <1>8, <2>1
  <2>3. a <= c + w /\ c + w \in Nat
      BY <2>2
  <2>4. QED BY <2>1, <2>2, <2>3
<1>10. QED BY <1>2, <1>3, <1>4, <1>5, <1>6, <1>9 DEF u, v

\* It knows a new distance that is not too short.
LEMMA ShorterKeepsPaths ==
    ASSUME PathsInv, kernel = "sssp", stage = "relax",
           UNCHANGED <<view, weight, dist, frontier, tail, bin, taken, stage>>,
           NEW t \in team, Scanning(dw[t]), dw[t].es # <<>>,
           NEW old \in 0 .. kDistInf, NEW new \in Nat, Shortest(Head(dw[t].es)) <= new, Shorter(t, old, new)
    PROVE  PathsInv'
<1>1. PICK s : s = IF new < old THEN [dw[t] EXCEPT !.pc = "compare", !.old = old, !.new = new]
                   ELSE [dw[t] EXCEPT !.pc = "edge", !.es = Tail(@)]
    OBVIOUS
<1>2. dw' = [dw EXCEPT ![t] = s]
    BY <1>1 DEF Shorter, Put
<1>3. /\ dw[t].us # <<>> /\ Tail(dw[t].es) \in Seq(Vertices)
      /\ ToSet(Tail(dw[t].es)) \in SUBSET Neighbours(Head(dw[t].us))
    BY ThreadAtEdge
<1>4. dw[t] \in Relaxers /\ RelaxerSound(dw[t])
    BY DEF PathsInv, PathsTyped, PathsSound
<1>5. s \in Relaxers /\ RelaxerSound(s)
  <2>1. CASE new < old
    <3>1. s = [dw[t] EXCEPT !.pc = "compare", !.old = old, !.new = new]
        BY <1>1, <2>1
    <3>2. new \in 0 .. kDistInf
        BY <2>1 DEF kDistInf
    <3>3. s \in Relaxers
        BY <1>4, <3>1, <3>2 DEF Relaxers
    <3>4. s.pc = "compare" /\ s.us = dw[t].us /\ s.es = dw[t].es /\ s.old = old /\ s.new = new
        BY <1>4, <3>1 DEF Relaxers
    <3>5. QED BY <1>4, <2>1, <3>3, <3>4 DEF RelaxerSound, Scanning
  <2>2. CASE ~(new < old)
    <3>1. s = [dw[t] EXCEPT !.pc = "edge", !.es = Tail(dw[t].es)]
        BY <1>1, <2>2
    <3>2. s \in Relaxers /\ s.pc = "edge" /\ s.us = dw[t].us /\ s.es = Tail(dw[t].es)
        BY <1>3, <1>4, <3>1 DEF Relaxers
    <3>3. QED BY <1>3, <1>4, <3>2 DEF RelaxerSound, Scanning
  <2>3. QED BY <2>1, <2>2
<1>6. /\ dist' \in [Vertices -> 0 .. kDistInf] /\ \A v \in Vertices : Shortest(v) <= dist'[v]
      /\ taken' \in Nat /\ taken' <= tail.curr /\ bin' \in [curr : 0 .. kMaxBin, next : 0 .. kMaxBin]
    BY DEF PathsInv, PathsTyped, PathsSound, TailsFit
<1>7. QED BY <1>2, <1>5, <1>6, PathsTurn

\* What a thread is, and that distances are numbers.
LEMMA ThreadTyped ==
    ASSUME PathsInv, NEW t \in team
    PROVE  /\ dw[t] \in Relaxers /\ RelaxerSound(dw[t])
           /\ dw[t].us \in Seq(Vertices) /\ dw[t].es \in Seq(Vertices) /\ dw[t].bins \in Seq(Seq(Vertices))
           /\ dw[t].old \in 0 .. kDistInf /\ dw[t].new \in 0 .. kDistInf /\ dw[t].base \in Nat
           /\ \A x \in 0 .. kDistInf : x \in Nat
<1>1. dw[t] \in Relaxers /\ RelaxerSound(dw[t])
    BY DEF PathsInv, PathsTyped, PathsSound
<1>2. \A x \in 0 .. kDistInf : x \in Nat
    BY DEF kDistInf
<1>3. QED BY <1>1, <1>2 DEF Relaxers

\* What is handed out of the frontier are some of the entries that are left.
LEMMA ChunkOfFrontier ==
    ASSUME PathsInv, kernel = "sssp", stage = "relax", taken < tail.curr
    PROVE  LET n == Min({taken + Chunk, tail.curr})
               us == SubSeq(frontier, taken + 1, n)
           IN  /\ n \in Nat /\ taken < n /\ n <= tail.curr
               /\ us \in Seq(Vertices) /\ \A i \in (taken + 1) .. n : frontier[i] \in ToSet(us)
<1> DEFINE n == Min({taken + Chunk, tail.curr})
           us == SubSeq(frontier, taken + 1, n)
<1>1. taken \in Nat /\ tail.curr \in Nat /\ taken + Chunk \in Nat /\ taken < taken + Chunk
    BY DeltaSteppingAssumption DEF PathsInv, PathsTyped
<1>2. n \in {taken + Chunk, tail.curr} /\ \A x \in {taken + Chunk, tail.curr} : n <= x
  <2>1. {taken + Chunk, tail.curr} \in SUBSET Nat /\ {taken + Chunk, tail.curr} # {}
      BY <1>1
  <2>2. QED BY ONLY <2>1, MinIsLeast
<1> HIDE DEF n
<1>3. n \in Nat /\ taken < n /\ n <= tail.curr
    BY <1>1, <1>2
<1>4. tail.curr <= NumEdges /\ NumEdges \in Nat /\ frontier \in [1 .. NumEdges -> Vertices]
    BY EdgesAreFinite DEF PathsInv, PathsTyped, TailsFit, Weighted
<1>5. \A i \in (taken + 1) .. n : frontier[i] \in Vertices
    BY <1>1, <1>3, <1>4
<1>6. /\ us \in Seq(Vertices) /\ Len(us) = n - (taken + 1) + 1
      /\ \A i \in 1 .. (n - (taken + 1) + 1) : us[i] = frontier[(taken + 1) + i - 1]
  <2>1. taken + 1 \in Int /\ n \in Int /\ taken + 1 <= n
      BY <1>1, <1>3
  <2>2. QED BY <1>5, <2>1, SubSeqProperties
<1> HIDE DEF us
<1>7. ASSUME NEW i \in (taken + 1) .. n
      PROVE  frontier[i] \in ToSet(us)
  <2>1. i - taken \in 1 .. (n - (taken + 1) + 1) /\ (taken + 1) + (i - taken) - 1 = i
      BY <1>1, <1>3
  <2>2. us[i - taken] = frontier[i] /\ i - taken \in DOMAIN us
    <3>1. us[i - taken] = frontier[(taken + 1) + (i - taken) - 1]
        BY <1>6, <2>1
    <3>2. DOMAIN us = 1 .. Len(us)
        BY <1>6
    <3>3. QED BY <1>6, <2>1, <3>1, <3>2
  <2>3. QED BY <2>2 DEF ToSet
<1>8. QED BY <1>3, <1>6, <1>7 DEF us, n

LEMMA TakeChunkKeepsPaths ==
    ASSUME PathsInv, kernel = "sssp", UNCHANGED view, NEW t \in team, TakeChunk(t)
    PROVE  PathsInv'
<1>1. /\ stage = "relax" /\ dw[t].pc = "take"
      /\ UNCHANGED <<weight, dist, frontier, tail, bin, stage>>
    BY DEF TakeChunk, At
<1>2. dw[t] \in Relaxers
    BY ThreadTyped
<1>3. /\ dist' \in [Vertices -> 0 .. kDistInf] /\ (\A v \in Vertices : Shortest(v) <= dist'[v])
      /\ taken \in Nat /\ taken <= tail.curr /\ bin' \in [curr : 0 .. kMaxBin, next : 0 .. kMaxBin]
    BY <1>1 DEF PathsInv, PathsTyped, PathsSound, TailsFit
<1>4. CASE taken < tail.curr
  <2>1. taken' = Min({taken + Chunk, tail.curr})
        /\ dw' = [dw EXCEPT ![t] = [dw[t] EXCEPT !.pc = "vertex", !.us = SubSeq(frontier, taken + 1, taken')]]
      BY <1>4 DEF TakeChunk, Put
  <2>2. PICK us : us = SubSeq(frontier, taken + 1, taken')
      OBVIOUS
  <2>3. taken' \in Nat /\ taken' <= tail.curr /\ us \in Seq(Vertices)
      BY <1>1, <1>4, <2>1, <2>2, ChunkOfFrontier
  <2>4. PICK s : s = [dw[t] EXCEPT !.pc = "vertex", !.us = us]
      OBVIOUS
  <2>5. dw' = [dw EXCEPT ![t] = s]
      BY <2>1, <2>2, <2>4
  <2>6. s \in Relaxers /\ s.pc = "vertex"
      BY <1>2, <2>3, <2>4 DEF Relaxers
  <2>7. RelaxerSound(s)
      BY <2>6 DEF RelaxerSound, Scanning
  <2>8. QED BY <1>1, <1>3, <2>3, <2>5, <2>6, <2>7, PathsTurn
<1>5. CASE ~(taken < tail.curr)
  <2>1. PICK s : s = [dw[t] EXCEPT !.pc = "fuse", !.fused = TRUE]
      OBVIOUS
  <2>2. taken' = taken /\ dw' = [dw EXCEPT ![t] = s]
      BY <1>5, <2>1 DEF TakeChunk, Put
  <2>3. s \in Relaxers /\ s.pc = "fuse"
      BY <1>2, <2>1 DEF Relaxers
  <2>4. RelaxerSound(s)
      BY <2>3 DEF RelaxerSound, Scanning
  <2>5. QED BY <1>1, <1>3, <2>2, <2>3, <2>4, PathsTurn
<1>6. QED BY <1>4, <1>5

\* A thread takes a step and writes nothing but its own state.
LEMMA OwnTurnKeepsPaths ==
    ASSUME PathsInv, kernel = "sssp", stage = "relax",
           UNCHANGED <<view, weight, dist, frontier, tail, bin, taken, stage>>,
           NEW t \in team, NEW s \in Relaxers, dw' = [dw EXCEPT ![t] = s], RelaxerSound(s)
    PROVE  PathsInv'
<1>1. /\ dist' \in [Vertices -> 0 .. kDistInf] /\ (\A v \in Vertices : Shortest(v) <= dist'[v])
      /\ taken' \in Nat /\ taken' <= tail.curr /\ bin' \in [curr : 0 .. kMaxBin, next : 0 .. kMaxBin]
    BY DEF PathsInv, PathsTyped, PathsSound, TailsFit
<1>2. QED BY <1>1, PathsTurn

LEMMA NextVertexKeepsPaths ==
    ASSUME PathsInv, kernel = "sssp", UNCHANGED view, NEW t \in team, NextVertex(t)
    PROVE  PathsInv'
<1>1. /\ stage = "relax" /\ dw[t].pc = "vertex"
      /\ UNCHANGED <<weight, dist, frontier, tail, bin, taken, stage>>
    BY DEF NextVertex, At
<1>2. PICK s : s = IF dw[t].us = <<>> THEN [dw[t] EXCEPT !.pc = IF dw[t].fused THEN "fuse" ELSE "take"]
                   ELSE IF Current(t, Head(dw[t].us)) THEN [dw[t] EXCEPT !.pc = "edge", !.es = adj[Head(dw[t].us)]]
                   ELSE [dw[t] EXCEPT !.us = Tail(@)]
    OBVIOUS
<1>3. dw' = [dw EXCEPT ![t] = s]
    BY <1>2 DEF NextVertex, Put
<1>4. dw[t] \in Relaxers /\ dw[t].us \in Seq(Vertices)
    BY ThreadTyped
<1>5. s \in Relaxers /\ RelaxerSound(s)
  <2>1. CASE dw[t].us = <<>>
    <3>1. s = [dw[t] EXCEPT !.pc = IF dw[t].fused THEN "fuse" ELSE "take"]
        BY <1>2, <2>1
    <3>2. s \in Relaxers /\ s.pc \in {"fuse", "take"}
        BY <1>4, <3>1 DEF Relaxers
    <3>3. QED BY <3>2 DEF RelaxerSound, Scanning
  <2>2. CASE dw[t].us # <<>> /\ Current(t, Head(dw[t].us))
    <3>1. s = [dw[t] EXCEPT !.pc = "edge", !.es = adj[Head(dw[t].us)]]
        BY <1>2, <2>2
    <3>2. Head(dw[t].us) \in Vertices
        BY <1>4, <2>2, HeadAndRest
    <3>3. adj[Head(dw[t].us)] \in Seq(Vertices)
        BY <3>2, GraphFacts DEF PathsInv, PathsTyped, Weighted
    <3>4. s \in Relaxers /\ s.pc = "edge" /\ s.us = dw[t].us /\ s.es = adj[Head(dw[t].us)]
        BY <1>4, <3>1, <3>3 DEF Relaxers
    <3>5. QED BY <2>2, <3>4 DEF RelaxerSound, Scanning, Neighbours
  <2>3. CASE dw[t].us # <<>> /\ ~Current(t, Head(dw[t].us))
    <3>1. s = [dw[t] EXCEPT !.us = Tail(dw[t].us)]
        BY <1>2, <2>3
    <3>2. Tail(dw[t].us) \in Seq(Vertices)
        BY <1>4, <2>3, HeadAndRest
    <3>3. s \in Relaxers /\ s.pc = "vertex"
        BY <1>1, <1>4, <3>1, <3>2 DEF Relaxers
    <3>4. QED BY <3>3 DEF RelaxerSound, Scanning
  <2>4. QED BY <2>1, <2>2, <2>3
<1>6. QED BY <1>1, <1>3, <1>5, OwnTurnKeepsPaths

LEMMA NextEdgeKeepsPaths ==
    ASSUME PathsInv, kernel = "sssp", UNCHANGED view, NEW t \in team, NextEdge(t)
    PROVE  PathsInv'
<1>1. /\ stage = "relax" /\ dw[t].pc = "edge" /\ Scanning(dw[t])
      /\ UNCHANGED <<weight, dist, frontier, tail, bin, taken, stage>>
    BY DEF NextEdge, At, Scanning
<1>2. PICK s : s = IF dw[t].es = <<>> THEN [dw[t] EXCEPT !.pc = "vertex", !.us = Tail(@)]
                   ELSE [dw[t] EXCEPT !.pc = "reach", !.old = dist[Head(dw[t].es)]]
    OBVIOUS
<1>3. dw' = [dw EXCEPT ![t] = s]
    BY <1>2 DEF NextEdge, Put
<1>4. /\ dw[t] \in Relaxers /\ dw[t].us \in Seq(Vertices) /\ dw[t].us # <<>>
      /\ ToSet(dw[t].es) \in SUBSET Neighbours(Head(dw[t].us))
    BY <1>1, ThreadTyped DEF RelaxerSound
<1>5. s \in Relaxers /\ RelaxerSound(s)
  <2>1. CASE dw[t].es = <<>>
    <3>1. s = [dw[t] EXCEPT !.pc = "vertex", !.us = Tail(dw[t].us)]
        BY <1>2, <2>1
    <3>2. Tail(dw[t].us) \in Seq(Vertices)
        BY <1>4, HeadAndRest
    <3>3. s \in Relaxers /\ s.pc = "vertex"
        BY <1>4, <3>1, <3>2 DEF Relaxers
    <3>4. QED BY <3>3 DEF RelaxerSound, Scanning
  <2>2. CASE dw[t].es # <<>>
    <3>1. s = [dw[t] EXCEPT !.pc = "reach", !.old = dist[Head(dw[t].es)]]
        BY <1>2, <2>2
    <3>2. Head(dw[t].es) \in Vertices
        BY <1>1, <2>2, ThreadAtEdge
    <3>3. dist[Head(dw[t].es)] \in 0 .. kDistInf
        BY <3>2 DEF PathsInv, PathsTyped
    <3>4. s \in Relaxers /\ s.pc = "reach" /\ s.us = dw[t].us /\ s.es = dw[t].es
        BY <1>4, <3>1, <3>3 DEF Relaxers
    <3>5. QED BY <1>4, <2>2, <3>4 DEF RelaxerSound, Scanning
  <2>3. QED BY <2>1, <2>2
<1>6. QED BY <1>1, <1>3, <1>5, OwnTurnKeepsPaths

LEMMA ReachKeepsPaths ==
    ASSUME PathsInv, kernel = "sssp", UNCHANGED view, NEW t \in team, Reach(t)
    PROVE  PathsInv'
<1>1. /\ stage = "relax" /\ dw[t].pc = "reach" /\ Scanning(dw[t]) /\ Shorter(t, dw[t].old, Through(t))
      /\ UNCHANGED <<weight, dist, frontier, tail, bin, taken, stage>>
    BY DEF Reach, At, Scanning
<1>2. dw[t].es # <<>> /\ dw[t].old \in 0 .. kDistInf
    BY <1>1, ThreadTyped DEF RelaxerSound
<1>3. Through(t) \in Nat /\ Shortest(Head(dw[t].es)) <= Through(t)
    BY <1>1, <1>2, ThreadAtEdge
<1>4. QED BY <1>1, <1>2, <1>3, ShorterKeepsPaths

LEMMA CompareKeepsPaths ==
    ASSUME PathsInv, kernel = "sssp", UNCHANGED view, NEW t \in team, Compare(t)
    PROVE  PathsInv'
<1>1. /\ stage = "relax" /\ dw[t].pc = "compare" /\ Scanning(dw[t])
      /\ UNCHANGED <<weight, dist, frontier, tail, bin, taken, stage>>
    BY DEF Compare, At, Scanning
<1>2. PICK now : now = dist[Head(dw[t].es)]
    OBVIOUS
<1>3. /\ dw[t] \in Relaxers /\ RelaxerSound(dw[t]) /\ dw[t].es # <<>> /\ dw[t].new \in Nat
      /\ dw[t].new < dw[t].old /\ Shortest(Head(dw[t].es)) <= dw[t].new
    BY <1>1, ThreadTyped DEF RelaxerSound
<1>4. now \in 0 .. kDistInf
  <2>1. Head(dw[t].es) \in Vertices
      BY <1>1, <1>3, ThreadAtEdge
  <2>2. QED BY <1>2, <2>1 DEF PathsInv, PathsTyped
<1>5. CASE now = dw[t].old
  <2>1. PICK s : s = [dw[t] EXCEPT !.pc = "swap"]
      OBVIOUS
  <2>2. dw' = [dw EXCEPT ![t] = s]
      BY <1>2, <1>5, <2>1 DEF Compare, Put
  <2>3. /\ s \in Relaxers /\ s.pc = "swap" /\ s.us = dw[t].us /\ s.es = dw[t].es
        /\ s.old = dw[t].old /\ s.new = dw[t].new
      BY <1>3, <2>1 DEF Relaxers
  <2>4. RelaxerSound(s)
      BY <1>1, <1>3, <2>3 DEF RelaxerSound, Scanning
  <2>5. QED BY <1>1, <2>2, <2>3, <2>4, OwnTurnKeepsPaths
<1>6. CASE now # dw[t].old
  <2>1. Shorter(t, now, dw[t].new)
      BY <1>2, <1>6 DEF Compare
  <2>2. QED BY <1>1, <1>3, <1>4, <2>1, ShorterKeepsPaths
<1>7. QED BY <1>5, <1>6

LEMMA SwapDistKeepsPaths ==
    ASSUME PathsInv, kernel = "sssp", UNCHANGED view, NEW t \in team, SwapDist(t)
    PROVE  PathsInv'
<1>1. /\ stage = "relax" /\ dw[t].pc = "swap" /\ Scanning(dw[t])
      /\ UNCHANGED <<weight, frontier, tail, bin, taken, stage>>
    BY DEF SwapDist, At, Scanning
<1>2. PICK v, new : v = Head(dw[t].es) /\ new = dw[t].new
    OBVIOUS
<1>3. PICK bins, es : bins = Filed(dw[t].bins, new \div Delta, v) /\ es = Tail(dw[t].es)
    OBVIOUS
<1>4. PICK s : s = [dw[t] EXCEPT !.pc = "edge", !.es = es, !.bins = bins]
    OBVIOUS
<1>5. dist' = [dist EXCEPT ![v] = new] /\ dw' = [dw EXCEPT ![t] = s]
    BY <1>2, <1>3, <1>4 DEF SwapDist, Put
<1>6. dw[t] \in Relaxers /\ RelaxerSound(dw[t]) /\ dw[t].bins \in Seq(Seq(Vertices)) /\ new \in 0 .. kDistInf /\ new \in Nat
    BY <1>2, ThreadTyped
<1>7. /\ dw[t].es # <<>> /\ Shortest(v) <= new
    BY <1>1, <1>2, <1>6 DEF RelaxerSound
<1>8. /\ dw[t].us # <<>> /\ v \in Vertices /\ es \in Seq(Vertices)
      /\ ToSet(es) \in SUBSET Neighbours(Head(dw[t].us))
    BY <1>1, <1>2, <1>3, <1>7, ThreadAtEdge
<1>9. bins \in Seq(Seq(Vertices))
  <2>1. new \div Delta \in Nat
      BY <1>6, DeltaSteppingAssumption, DivBounds
  <2>2. QED BY <1>3, <1>6, <1>8, <2>1, FiledIsThere
<1>10. s \in Relaxers /\ s.pc = "edge" /\ s.us = dw[t].us /\ s.es = es
    BY <1>4, <1>6, <1>8, <1>9 DEF Relaxers
<1>11. RelaxerSound(s)
    BY <1>8, <1>10 DEF RelaxerSound, Scanning
<1>12. /\ dist' \in [Vertices -> 0 .. kDistInf] /\ (\A x \in Vertices : Shortest(x) <= dist'[x])
       /\ taken' \in Nat /\ taken' <= tail.curr /\ bin' \in [curr : 0 .. kMaxBin, next : 0 .. kMaxBin]
  <2>1. dist \in [Vertices -> 0 .. kDistInf] /\ \A x \in Vertices : Shortest(x) <= dist[x]
      BY DEF PathsInv, PathsTyped, PathsSound
  <2>2. dist' \in [Vertices -> 0 .. kDistInf]
      BY <1>5, <1>6, <2>1
  <2>3. \A x \in Vertices : Shortest(x) <= dist'[x]
      BY <1>5, <1>7, <2>1
  <2>4. QED BY <1>1, <2>2, <2>3 DEF PathsInv, PathsTyped, TailsFit
<1>13. QED BY <1>1, <1>5, <1>10, <1>11, <1>12, PathsTurn

\* The bins that are shared are numbers up to kMaxBin.
LEMMA SharedBins ==
    ASSUME PathsInv
    PROVE  /\ bin.curr \in 0 .. kMaxBin /\ bin.next \in 0 .. kMaxBin
           /\ bin.curr \in Nat /\ bin.next \in Nat /\ kMaxBin \in Nat /\ kMaxBin = kDistInf
           /\ bin = [curr |-> bin.curr, next |-> bin.next]
<1>1. bin \in [curr : 0 .. kMaxBin, next : 0 .. kMaxBin]
    BY DEF PathsInv, PathsTyped
<1>2. kMaxBin \in Nat /\ kMaxBin = kDistInf
    BY DEF kMaxBin, kDistInf
<1>3. bin.curr \in 0 .. kMaxBin /\ bin.next \in 0 .. kMaxBin /\ bin = [curr |-> bin.curr, next |-> bin.next]
    BY ONLY <1>1
<1>4. QED BY ONLY <1>2, <1>3

\* A bin that is emptied leaves the others.
LEMMA EmptiedBin ==
    ASSUME NEW V, NEW bins \in Seq(Seq(V)), NEW i
    PROVE  LET e == [bins EXCEPT ![i] = <<>>]
           IN  /\ e \in Seq(Seq(V)) /\ DOMAIN e = DOMAIN bins
               /\ \A k \in DOMAIN bins : k # i => e[k] = bins[k]
<1>1. PICK e : e = [bins EXCEPT ![i] = <<>>]
    OBVIOUS
<1>2. Len(bins) \in Nat /\ DOMAIN bins = 1 .. Len(bins) /\ <<>> \in Seq(V)
    OBVIOUS
<1>3. DOMAIN e = DOMAIN bins /\ \A k \in DOMAIN bins : k # i => e[k] = bins[k]
    BY <1>1
<1>4. \A k \in 1 .. Len(bins) : bins[k] \in Seq(V)
    BY <1>2
<1>5. e \in [1 .. Len(bins) -> Seq(V)]
    BY <1>1, <1>2, <1>4
<1>6. e \in Seq(Seq(V))
  <2>1. PICK n, T : n \in Nat /\ n = Len(bins) /\ T = Seq(V)
      BY <1>2
  <2>2. e \in [1 .. n -> T]
      BY <1>5, <2>1
  <2>a. n \in Nat
      BY <2>1
  <2>3. e \in Seq(T)
      BY ONLY <2>a, <2>2, SeqDef
  <2>4. QED BY <2>1, <2>3
<1>7. QED BY <1>1, <1>3, <1>6

\* The bins in use, of which the least is voted for.
Used(t) == {b \in bin.curr .. (Len(dw[t].bins) - 1) : Entries(t, b) # <<>>}

\* The vote of a thread is the least of the bins in use, or what was voted for before.
LEMMA VoteIsLeast ==
    ASSUME PathsInv, NEW t \in team
    PROVE  LET m == Min({bin.next} \cup Used(t))
           IN  /\ m \in 0 .. kMaxBin /\ m \in {bin.next} \cup Used(t)
               /\ m <= bin.next /\ \A b \in Used(t) : m <= b
<1> DEFINE S == {bin.next} \cup Used(t)
           m == Min(S)
<1>1. bin.curr \in 0 .. kMaxBin /\ bin.next \in 0 .. kMaxBin /\ bin.curr \in Nat /\ bin.next \in Nat
    BY SharedBins
<1>2. S \in SUBSET Nat /\ S # {}
    BY <1>1 DEF Used
<1> HIDE DEF S
<1>3. m \in S /\ \A n \in S : m <= n
    BY ONLY <1>2, MinIsLeast
<1> HIDE DEF m
<1>4. m <= bin.next /\ m \in Nat
    BY <1>2, <1>3 DEF S
<1>5. m \in 0 .. kMaxBin
    BY <1>1, <1>4, SharedBins
<1>6. QED BY <1>3, <1>4, <1>5 DEF S, m

LEMMA FuseKeepsPaths ==
    ASSUME PathsInv, kernel = "sssp", UNCHANGED view, NEW t \in team, Fuse(t)
    PROVE  PathsInv'
<1>1. /\ stage = "relax" /\ dw[t].pc = "fuse"
      /\ UNCHANGED <<weight, dist, frontier, tail, taken, stage>>
    BY DEF Fuse, At
<1>2. PICK own : own = Entries(t, bin.curr)
    OBVIOUS
<1>3. dw[t] \in Relaxers /\ dw[t].bins \in Seq(Seq(Vertices)) /\ bin.curr \in Nat
    BY ThreadTyped, SharedBins
<1>4. own \in Seq(Vertices)
    BY <1>2, <1>3, EntriesAreVertices
<1>5. /\ dist' \in [Vertices -> 0 .. kDistInf] /\ (\A v \in Vertices : Shortest(v) <= dist'[v])
      /\ taken' \in Nat /\ taken' <= tail.curr
    BY <1>1 DEF PathsInv, PathsTyped, PathsSound, TailsFit
<1>6. CASE own # <<>> /\ Len(own) < Fusible
  <2>1. /\ dw' = [dw EXCEPT ![t] = [dw[t] EXCEPT !.pc = "vertex", !.us = own, !.bins[bin.curr + 1] = <<>>]]
        /\ bin' = bin
      BY <1>2, <1>6 DEF Fuse, Put
  <2>2. PICK bins : bins = [dw[t].bins EXCEPT ![bin.curr + 1] = <<>>]
      OBVIOUS
  <2>3. bins \in Seq(Seq(Vertices))
      BY <1>3, <2>2, EmptiedBin
  <2>4. PICK s : s = [dw[t] EXCEPT !.pc = "vertex", !.us = own, !.bins = bins]
      OBVIOUS
  <2>5. dw' = [dw EXCEPT ![t] = s]
      BY <2>1, <2>2, <2>4
  <2>6. s \in Relaxers /\ s.pc = "vertex"
      BY <1>3, <1>4, <2>3, <2>4 DEF Relaxers
  <2>7. RelaxerSound(s) /\ bin' \in [curr : 0 .. kMaxBin, next : 0 .. kMaxBin]
      BY <2>1, <2>6 DEF RelaxerSound, Scanning, PathsInv, PathsTyped
  <2>8. QED BY <1>1, <1>5, <2>5, <2>6, <2>7, PathsTurn
<1>7. CASE ~(own # <<>> /\ Len(own) < Fusible)
  <2>1. PICK s, m : s = [dw[t] EXCEPT !.pc = "voted"] /\ m = Min({bin.next} \cup Used(t))
      OBVIOUS
  <2>2. dw' = [dw EXCEPT ![t] = s] /\ bin' = [bin EXCEPT !.next = m]
      BY <1>2, <1>7, <2>1 DEF Fuse, Put, Used
  <2>3. s \in Relaxers /\ s.pc = "voted"
      BY <1>3, <2>1 DEF Relaxers
  <2>4. m \in 0 .. kMaxBin
      BY <2>1, VoteIsLeast
  <2>5. RelaxerSound(s) /\ bin' \in [curr : 0 .. kMaxBin, next : 0 .. kMaxBin]
      BY <2>2, <2>3, <2>4 DEF RelaxerSound, Scanning, PathsInv, PathsTyped
  <2>6. QED BY <1>1, <1>5, <2>2, <2>3, <2>5, PathsTurn
<1>8. QED BY <1>6, <1>7

\* A thread takes a step while the bins are copied.
LEMMA CopyTurnKeepsPaths ==
    ASSUME PathsInv, kernel = "sssp", stage = "copy", UNCHANGED <<view, weight, dist, bin, taken, stage>>,
           NEW t \in team, NEW s \in Relaxers, dw' = [dw EXCEPT ![t] = s], s.pc \in {"add", "copy", "copied"},
           frontier' \in [1 .. NumEdges -> Vertices], tail' \in [curr : Nat, next : Nat], tail'.curr = tail.curr,
           \/ tail'.next <= NumEdges
           \/ s.pc = "copy" /\ tail'.next = s.base + Len(IF bin.next < Len(s.bins) THEN s.bins[bin.next + 1] ELSE <<>>)
           \/ tail'.next = tail.next /\ \E x \in team \ {t} : dw[x].pc = "copy" /\ tail.next = Grown(x)
    PROVE  PathsInv'
<1>1. /\ Weighted' = Weighted /\ Vertices' = Vertices /\ team' = team /\ NumEdges' = NumEdges
      /\ Relaxers' = Relaxers /\ \A v : Shortest(v)' = Shortest(v)
    BY PathsUnmoved
<1>2. \A r : RelaxerSound(r)' = RelaxerSound(r)
    BY PathsUnmoved
<1>3. dw' \in [team -> Relaxers] /\ dw'[t] = s /\ \A x \in team : x # t => dw'[x] = dw[x]
    BY DEF PathsInv, PathsTyped
<1>4. PathsTyped'
    BY <1>1, <1>3 DEF PathsInv, PathsTyped
<1>5. \A x \in team : RelaxerSound(dw'[x])
  <2>1. RelaxerSound(s)
      BY DEF RelaxerSound, Scanning
  <2>2. QED BY <1>3, <2>1 DEF PathsInv, PathsSound
<1>6. PathsSound'
    BY <1>1, <1>2, <1>5 DEF PathsInv, PathsSound
<1>7. TailsFit'
  <2>1. tail'.curr <= NumEdges' /\ (stage' = "relax" => taken' <= tail'.curr)
      BY <1>1 DEF PathsInv, TailsFit
  <2>2. CASE tail'.next <= NumEdges
      BY <1>1, <2>1, <2>2 DEF TailsFit
  <2>3. CASE s.pc = "copy" /\ tail'.next = s.base + Len(IF bin.next < Len(s.bins) THEN s.bins[bin.next + 1] ELSE <<>>)
    <3>1. Grown(t)' = tail'.next /\ dw'[t].pc = "copy"
        BY <1>3, <2>3 DEF Grown, Entries
    <3>2. QED BY <1>1, <2>1, <3>1 DEF TailsFit
  <2>4. CASE tail'.next = tail.next /\ \E x \in team \ {t} : dw[x].pc = "copy" /\ tail.next = Grown(x)
    <3>1. PICK x \in team \ {t} : dw[x].pc = "copy" /\ tail.next = Grown(x)
        BY <2>4
    <3>2. dw'[x] = dw[x]
        BY <1>3
    <3>3. Grown(x)' = tail'.next /\ dw'[x].pc = "copy"
        BY <2>4, <3>1, <3>2 DEF Grown, Entries
    <3>4. QED BY <1>1, <2>1, <3>3 DEF TailsFit
  <2>5. QED BY <2>2, <2>3, <2>4
<1>8. QED BY <1>4, <1>6, <1>7 DEF PathsInv

\* In the copying, the tail is in the frontier or where a thread is about to write.
LEMMA TailWhileCopying ==
    ASSUME PathsInv, kernel = "sssp"
    PROVE  /\ tail \in [curr : Nat, next : Nat] /\ tail.curr <= NumEdges /\ NumEdges \in Nat
           /\ tail.next \in Nat /\ frontier \in [1 .. NumEdges -> Vertices]
           /\ tail.next <= NumEdges \/ \E t \in team : dw[t].pc = "copy" /\ tail.next = Grown(t)
<1>1. NumEdges \in Nat
    BY EdgesAreFinite DEF PathsInv, PathsTyped, Weighted
<1>2. QED BY <1>1 DEF PathsInv, PathsTyped, TailsFit

LEMMA FetchTailKeepsPaths ==
    ASSUME PathsInv, kernel = "sssp", UNCHANGED view, NEW t \in team, FetchTail(t)
    PROVE  PathsInv'
<1>1. /\ stage = "copy" /\ dw[t].pc = "fetch"
      /\ UNCHANGED <<weight, dist, frontier, tail, bin, taken, stage>>
    BY DEF FetchTail
<1>2. PICK s : s = [dw[t] EXCEPT !.pc = "add", !.base = tail.next]
    OBVIOUS
<1>3. dw' = [dw EXCEPT ![t] = s]
    BY <1>2 DEF FetchTail, Put
<1>4. dw[t] \in Relaxers /\ tail.next \in Nat
    BY ThreadTyped, TailWhileCopying
<1>5. s \in Relaxers /\ s.pc = "add"
    BY <1>2, <1>4 DEF Relaxers
<1>6. \/ tail'.next <= NumEdges
      \/ tail'.next = tail.next /\ \E x \in team \ {t} : dw[x].pc = "copy" /\ tail.next = Grown(x)
    BY <1>1, TailWhileCopying
<1>7. /\ frontier' \in [1 .. NumEdges -> Vertices] /\ tail' \in [curr : Nat, next : Nat] /\ tail'.curr = tail.curr
    BY <1>1, TailWhileCopying
<1>8. QED BY <1>1, <1>3, <1>5, <1>6, <1>7, CopyTurnKeepsPaths

LEMMA AddTailKeepsPaths ==
    ASSUME PathsInv, kernel = "sssp", UNCHANGED view, NEW t \in team, AddTail(t)
    PROVE  PathsInv'
<1>1. /\ stage = "copy" /\ dw[t].pc = "add"
      /\ UNCHANGED <<weight, dist, frontier, bin, taken, stage>>
    BY DEF AddTail
<1>2. PICK s : s = [dw[t] EXCEPT !.pc = "copy"]
    OBVIOUS
<1>3. dw' = [dw EXCEPT ![t] = s] /\ tail' = [tail EXCEPT !.next = Grown(t)]
    BY <1>2 DEF AddTail, Put
<1>4. dw[t] \in Relaxers /\ dw[t].bins \in Seq(Seq(Vertices)) /\ dw[t].base \in Nat /\ bin.next \in Nat
    BY ThreadTyped, SharedBins
<1>5. s \in Relaxers /\ s.pc = "copy" /\ s.base = dw[t].base /\ s.bins = dw[t].bins
    BY <1>2, <1>4 DEF Relaxers
<1>6. Grown(t) \in Nat
  <2>1. Len(Entries(t, bin.next)) \in Nat
      BY <1>4, EntriesAreVertices
  <2>2. QED BY <1>4, <2>1 DEF Grown
<1>7. tail' \in [curr : Nat, next : Nat] /\ tail'.curr = tail.curr /\ tail'.next = Grown(t)
    BY <1>3, <1>6, TailWhileCopying
<1>8. tail'.next = s.base + Len(IF bin.next < Len(s.bins) THEN s.bins[bin.next + 1] ELSE <<>>)
    BY <1>5, <1>7 DEF Grown, Entries
<1>9. frontier' \in [1 .. NumEdges -> Vertices]
    BY <1>1, TailWhileCopying
<1>10. QED BY <1>1, <1>3, <1>5, <1>7, <1>8, <1>9, CopyTurnKeepsPaths

LEMMA CopyBinKeepsPaths ==
    ASSUME PathsInv, kernel = "sssp", UNCHANGED view, NEW t \in team, CopyBin(t)
    PROVE  PathsInv'
<1>1. /\ stage = "copy" /\ dw[t].pc = "copy"
      /\ UNCHANGED <<weight, dist, tail, bin, taken>>
    BY DEF CopyBin
<1>2. PICK own, base : own = Entries(t, bin.next) /\ base = dw[t].base
    OBVIOUS
<1>3. dw[t] \in Relaxers /\ dw[t].bins \in Seq(Seq(Vertices)) /\ dw[t].base \in Nat /\ bin.next \in Nat
    BY ThreadTyped, SharedBins
<1>4. own \in Seq(Vertices) /\ Len(own) \in Nat /\ base \in Nat
    BY <1>2, <1>3, EntriesAreVertices
<1>5. CASE base + Len(own) > NumEdges
  <2>1. stage' = "lost" /\ UNCHANGED <<frontier, dw>>
      BY <1>2, <1>5 DEF CopyBin
  <2>2. /\ Weighted' = Weighted /\ Vertices' = Vertices /\ team' = team /\ NumEdges' = NumEdges
        /\ Relaxers' = Relaxers /\ \A v : Shortest(v)' = Shortest(v)
      BY <1>1, PathsUnmoved
  <2>3. \A r : RelaxerSound(r)' = RelaxerSound(r)
      BY <1>1, PathsUnmoved
  <2>4. PathsTyped' /\ PathsSound'
      BY <1>1, <2>1, <2>2, <2>3 DEF PathsInv, PathsTyped, PathsSound
  <2>5. \A x : Grown(x)' = Grown(x)
      BY <1>1, <2>1 DEF Grown, Entries
  <2>6. TailsFit'
      BY <1>1, <2>1, <2>2, <2>5 DEF PathsInv, TailsFit
  <2>7. QED BY <2>4, <2>6 DEF PathsInv
<1>6. CASE ~(base + Len(own) > NumEdges)
  <2>1. PICK bins : bins = [dw[t].bins EXCEPT ![bin.next + 1] = <<>>]
      OBVIOUS
  <2>2. PICK s : s = [dw[t] EXCEPT !.pc = "copied", !.bins = bins]
      OBVIOUS
  <2>3. /\ frontier' = [i \in DOMAIN frontier |-> IF i \in (base + 1) .. (base + Len(own))
                                                 THEN own[i - base] ELSE frontier[i]]
        /\ dw' = [dw EXCEPT ![t] = s] /\ stage' = stage
      BY <1>2, <1>6, <2>1, <2>2 DEF CopyBin, Put
  <2>4. bins \in Seq(Seq(Vertices))
      BY <1>3, <2>1, EmptiedBin
  <2>5. s \in Relaxers /\ s.pc = "copied"
      BY <1>3, <2>2, <2>4 DEF Relaxers
  <2>6. frontier' \in [1 .. NumEdges -> Vertices]
    <3>1. frontier \in [1 .. NumEdges -> Vertices]
        BY TailWhileCopying
    <3>2. ASSUME NEW i \in (base + 1) .. (base + Len(own))
          PROVE  own[i - base] \in Vertices
      <4>1. i - base \in 1 .. Len(own)
          BY <1>4
      <4>2. QED BY <1>4, <4>1
    <3>3. QED BY <2>3, <3>1, <3>2
  <2>7. \/ tail'.next <= NumEdges
        \/ tail'.next = tail.next /\ \E x \in team \ {t} : dw[x].pc = "copy" /\ tail.next = Grown(x)
    <3>1. CASE tail.next = Grown(t)
      <4>1. tail.next = base + Len(own) /\ NumEdges \in Nat
          BY <1>2, <3>1, TailWhileCopying DEF Grown
      <4>2. QED BY <1>1, <1>4, <1>6, <4>1
    <3>2. CASE tail.next # Grown(t)
        BY <1>1, <3>2, TailWhileCopying
    <3>3. QED BY <3>1, <3>2
  <2>8. tail' \in [curr : Nat, next : Nat] /\ tail'.curr = tail.curr
      BY <1>1, TailWhileCopying
  <2>9. QED BY <1>1, <2>3, <2>5, <2>6, <2>7, <2>8, CopyTurnKeepsPaths
<1>7. QED BY <1>5, <1>6

\* Threads that scan no edge are sound.
LEMMA BarrierKeepsPaths ==
    ASSUME PathsInv, kernel = "sssp", UNCHANGED <<view, weight, dist, frontier>>,
           dw' \in [team -> Relaxers], \A t \in team : ~Scanning(dw'[t]),
           tail' \in [curr : Nat, next : Nat], tail'.curr <= NumEdges, tail'.next <= NumEdges,
           taken' \in Nat, bin' \in [curr : 0 .. kMaxBin, next : 0 .. kMaxBin],
           stage' \in {"relax", "copy", "done"}, stage' = "relax" => taken' <= tail'.curr
    PROVE  PathsInv'
<1>1. /\ Weighted' = Weighted /\ Vertices' = Vertices /\ team' = team /\ NumEdges' = NumEdges
      /\ Relaxers' = Relaxers /\ \A v : Shortest(v)' = Shortest(v)
    BY PathsUnmoved
<1>2. \A r : RelaxerSound(r)' = RelaxerSound(r)
    BY PathsUnmoved
<1>3. PathsTyped'
    BY <1>1 DEF PathsInv, PathsTyped
<1>4. \A t \in team : RelaxerSound(dw'[t])
    BY DEF RelaxerSound, Scanning
<1>5. PathsSound'
    BY <1>1, <1>2, <1>4 DEF PathsInv, PathsSound
<1>6. TailsFit'
    BY <1>1 DEF TailsFit
<1>7. QED BY <1>3, <1>5, <1>6 DEF PathsInv

LEMMA EndRelaxKeepsPaths ==
    ASSUME PathsInv, kernel = "sssp", UNCHANGED view, EndRelax
    PROVE  PathsInv'
<1>1. /\ stage = "relax" /\ stage' = "copy" /\ UNCHANGED <<weight, dist, frontier, taken>>
      /\ bin' = [bin EXCEPT !.curr = kMaxBin] /\ tail' = [tail EXCEPT !.curr = 0]
      /\ dw' = [t \in team |-> [dw[t] EXCEPT !.pc = IF bin.next < Len(dw[t].bins) THEN "fetch" ELSE "copied"]]
    BY DEF EndRelax
<1>2. dw' \in [team -> Relaxers] /\ \A t \in team : ~Scanning(dw'[t])
  <2>1. ASSUME NEW t \in team
        PROVE  dw'[t] \in Relaxers /\ ~Scanning(dw'[t])
    <3>1. PICK p : p = IF bin.next < Len(dw[t].bins) THEN "fetch" ELSE "copied"
        OBVIOUS
    <3>2. dw'[t] = [dw[t] EXCEPT !.pc = p] /\ p \in {"fetch", "copied"}
        BY <1>1, <3>1
    <3>3. dw[t] \in Relaxers
        BY ThreadTyped
    <3>4. dw'[t] \in Relaxers /\ dw'[t].pc = p
        BY <3>2, <3>3 DEF Relaxers
    <3>5. QED BY <3>2, <3>4 DEF Scanning
  <2>2. DOMAIN dw' = team /\ dw' = [t \in team |-> dw'[t]]
      BY <1>1
  <2>3. QED BY <2>1, <2>2
<1>3. tail.next \in Nat /\ tail.next <= NumEdges /\ NumEdges \in Nat /\ tail \in [curr : Nat, next : Nat]
    BY <1>1, TailWhileCopying DEF PathsInv, TailsFit
<1>4. tail' \in [curr : Nat, next : Nat] /\ tail'.curr <= NumEdges /\ tail'.next <= NumEdges
    BY <1>1, <1>3
<1>5. bin' \in [curr : 0 .. kMaxBin, next : 0 .. kMaxBin]
  <2>1. kMaxBin \in 0 .. kMaxBin
      BY DEF kMaxBin, kDistInf
  <2>2. bin \in [curr : 0 .. kMaxBin, next : 0 .. kMaxBin]
      BY DEF PathsInv, PathsTyped
  <2>3. QED BY <1>1, <2>1, <2>2
<1>6. taken' \in Nat
    BY <1>1 DEF PathsInv, PathsTyped
<1>7. QED BY <1>1, <1>2, <1>4, <1>5, <1>6, BarrierKeepsPaths

\* A thread that starts an iteration.
LEMMA IdleIsTyped ==
    ASSUME NEW bins \in Seq(Seq(Vertices))
    PROVE  /\ [Idle EXCEPT !.bins = bins] \in Relaxers /\ [Idle EXCEPT !.bins = bins].bins = bins
           /\ [Idle EXCEPT !.bins = bins].pc = "take" /\ ~[Idle EXCEPT !.bins = bins].fused
<1>1. <<>> \in Seq(Vertices) /\ 0 \in 0 .. kDistInf
    BY DEF kDistInf
<1>2. QED BY <1>1 DEF Idle, Relaxers

LEMMA EndCopyKeepsPaths ==
    ASSUME PathsInv, kernel = "sssp", UNCHANGED view, EndCopy
    PROVE  PathsInv'
<1>1. /\ stage = "copy" /\ (\A t \in team : dw[t].pc = "copied") /\ UNCHANGED <<weight, dist, frontier>>
      /\ stage' \in {"done", "relax"} /\ bin' = [curr |-> bin.next, next |-> kMaxBin]
      /\ tail' = [curr |-> tail.next, next |-> 0] /\ taken' = 0
      /\ dw' = [t \in team |-> [Idle EXCEPT !.bins = dw[t].bins]]
    BY DEF EndCopy
<1>2. dw' \in [team -> Relaxers] /\ \A t \in team : ~Scanning(dw'[t])
  <2>1. ASSUME NEW t \in team
        PROVE  dw'[t] \in Relaxers /\ ~Scanning(dw'[t])
    <3>1. dw'[t] = [Idle EXCEPT !.bins = dw[t].bins] /\ dw[t].bins \in Seq(Seq(Vertices))
        BY <1>1, ThreadTyped
    <3>2. dw'[t] \in Relaxers /\ dw'[t].pc = "take"
        BY <3>1, IdleIsTyped
    <3>3. QED BY <3>2 DEF Scanning
  <2>2. DOMAIN dw' = team /\ dw' = [t \in team |-> dw'[t]]
      BY <1>1
  <2>3. QED BY <2>1, <2>2
<1>3. tail.next \in Nat /\ tail.next <= NumEdges /\ NumEdges \in Nat
    BY <1>1, TailWhileCopying
<1>4. tail' \in [curr : Nat, next : Nat] /\ tail'.curr <= NumEdges /\ tail'.next <= NumEdges /\ taken' <= tail'.curr
    BY <1>1, <1>3
<1>5. bin' \in [curr : 0 .. kMaxBin, next : 0 .. kMaxBin]
  <2>1. kMaxBin \in 0 .. kMaxBin
      BY DEF kMaxBin, kDistInf
  <2>2. QED BY <1>1, <2>1, SharedBins
<1>6. QED BY <1>1, <1>2, <1>4, <1>5, BarrierKeepsPaths

LEMMA PathsStart ==
    ASSUME Init
    PROVE  PathsInv
<1>1. /\ adj \in GraphSet /\ team \in Teams /\ weight \in WeightSet
      /\ dist = [v \in Vertices |-> IF v = Source THEN 0 ELSE kDistInf]
      /\ frontier = [i \in 1 .. NumEdges |-> Source]
      /\ tail = [curr |-> 1, next |-> 0] /\ bin = [curr |-> 0, next |-> kMaxBin]
      /\ taken = 0 /\ stage = "relax" /\ dw = [t \in team |-> Idle]
      /\ kernel = "sssp" => NumEdges > 0
    BY DEF Init, SsspInit
<1>2. Weighted
    BY <1>1 DEF Weighted, GraphTyped
<1>3. Source \in Vertices /\ Shortest(Source) = 0 /\ \A v \in Vertices : Shortest(v) \in 0 .. kDistInf
    BY <1>2, ShortestFacts
<1>4. dist \in [Vertices -> 0 .. kDistInf]
    BY <1>1 DEF kDistInf
<1>5. \A v \in Vertices : Shortest(v) <= dist[v]
  <2>1. TAKE v \in Vertices
  <2>2. \A x \in 0 .. kDistInf : x <= kDistInf
      BY DEF kDistInf
  <2>3. Shortest(v) <= kDistInf /\ (v = Source => Shortest(v) <= 0)
      BY <1>3, <2>2
  <2>4. dist[v] = IF v = Source THEN 0 ELSE kDistInf
      BY <1>1
  <2>5. QED BY <2>3, <2>4
<1>6. Idle \in Relaxers /\ Idle.pc = "take"
  <2>1. <<>> \in Seq(Vertices) /\ <<>> \in Seq(Seq(Vertices)) /\ 0 \in 0 .. kDistInf
      BY DEF kDistInf
  <2>2. QED BY <2>1 DEF Idle, Relaxers
<1>7. dw \in [team -> Relaxers] /\ \A t \in team : RelaxerSound(dw[t])
    BY <1>1, <1>6 DEF RelaxerSound, Scanning
<1>8. bin \in [curr : 0 .. kMaxBin, next : 0 .. kMaxBin]
    BY <1>1 DEF kMaxBin, kDistInf
<1>9. PathsTyped
    BY <1>1, <1>2, <1>3, <1>4, <1>7, <1>8 DEF PathsTyped
<1>10. kernel = "sssp" => TailsFit
  <2>1. NumEdges \in Nat
      BY <1>2, EdgesAreFinite DEF Weighted
  <2>2. QED BY <1>1, <2>1 DEF TailsFit
<1>11. QED BY <1>5, <1>7, <1>9, <1>10 DEF PathsInv, PathsSound

LEMMA PathsKept ==
    ASSUME PathsInv, [Next]_vars
    PROVE  PathsInv'
<1>1. UNCHANGED view /\ (UNCHANGED sssp \/ (kernel = "sssp" /\ SsspNext))
    BY StepKinds
<1>2. CASE UNCHANGED sssp
  <2>1. UNCHANGED <<weight, dist, frontier, tail, bin, taken, stage, dw>>
      BY <1>2 DEF sssp
  <2>2. /\ Weighted' = Weighted /\ Vertices' = Vertices /\ team' = team /\ NumEdges' = NumEdges
        /\ kernel' = kernel /\ Relaxers' = Relaxers /\ \A v : Shortest(v)' = Shortest(v)
      BY <1>1, <2>1, PathsUnmoved
  <2>3. \A r : RelaxerSound(r)' = RelaxerSound(r)
      BY <1>1, <2>1, PathsUnmoved
  <2>4. PathsTyped' /\ PathsSound'
      BY <2>1, <2>2, <2>3 DEF PathsInv, PathsTyped, PathsSound
  <2>5. \A x : Grown(x)' = Grown(x)
      BY <2>1 DEF Grown, Entries
  <2>6. TailsFit' = TailsFit
      BY <2>1, <2>2, <2>5 DEF TailsFit
  <2>7. QED BY <2>2, <2>4, <2>6 DEF PathsInv
<1>3. CASE kernel = "sssp" /\ SsspNext
  <2>1. CASE EndRelax
      BY <1>1, <1>3, <2>1, EndRelaxKeepsPaths
  <2>2. CASE EndCopy
      BY <1>1, <1>3, <2>2, EndCopyKeepsPaths
  <2>3. ASSUME NEW t \in team, SsspStep(t)
        PROVE  PathsInv'
    <3>1. CASE TakeChunk(t)
        BY <1>1, <1>3, <3>1, TakeChunkKeepsPaths
    <3>2. CASE NextVertex(t)
        BY <1>1, <1>3, <3>2, NextVertexKeepsPaths
    <3>3. CASE NextEdge(t)
        BY <1>1, <1>3, <3>3, NextEdgeKeepsPaths
    <3>4. CASE Reach(t)
        BY <1>1, <1>3, <3>4, ReachKeepsPaths
    <3>5. CASE Compare(t)
        BY <1>1, <1>3, <3>5, CompareKeepsPaths
    <3>6. CASE SwapDist(t)
        BY <1>1, <1>3, <3>6, SwapDistKeepsPaths
    <3>7. CASE Fuse(t)
        BY <1>1, <1>3, <3>7, FuseKeepsPaths
    <3>8. CASE FetchTail(t)
        BY <1>1, <1>3, <3>8, FetchTailKeepsPaths
    <3>9. CASE AddTail(t)
        BY <1>1, <1>3, <3>9, AddTailKeepsPaths
    <3>10. CASE CopyBin(t)
        BY <1>1, <1>3, <3>10, CopyBinKeepsPaths
    <3>11. QED BY <2>3, <3>1, <3>2, <3>3, <3>4, <3>5, <3>6, <3>7, <3>8, <3>9, <3>10 DEF SsspStep
  <2>4. QED BY <1>3, <2>1, <2>2, <2>3 DEF SsspNext
<1>4. QED BY <1>1, <1>2, <1>3

-----------------------------------------------------------------------------
(* Shortest paths: the distances are right, for a team of one. *)

\* No edge of u can make a distance less.
Relaxed(u) == \A v \in Neighbours(u) : dist[v] <= dist[u] + weight[<<u, v>>]

\* The entries of a thread's bin b, and the vertices in the bin of their distance.
Bin(s, b) == IF b + 1 \in DOMAIN s.bins THEN ToSet(s.bins[b + 1]) ELSE {}
Binned(s) == {u \in Vertices : u \in Bin(s, dist[u] \div Delta)}

\* The entries of the frontier that are not handed out, and what a thread has in hand.
Left == {frontier[i] : i \in (taken + 1) .. tail.curr}
Hand(s) == IF s.pc = "vertex" \/ Scanning(s) THEN ToSet(s.us) ELSE {}

\* A vertex with an edge to relax is in S, and not below bin b.
Unrelaxed(S, b) == \A u \in Vertices : Relaxed(u) \/ (u \in S /\ Delta * b <= dist[u])

\* Of the vertex in hand the edges that are not left are relaxed, and what was read is so still.
ScansRight(s) ==
    /\ Scanning(s) => \A v \in Neighbours(Head(s.us)) \ ToSet(s.es) :
                         dist[v] <= dist[Head(s.us)] + weight[<<Head(s.us), v>>]
    /\ s.pc \in {"reach", "compare", "swap"} => s.old = dist[Head(s.es)]
    /\ s.pc \in {"compare", "swap"} => s.new = dist[Head(s.us)] + weight[<<Head(s.us), Head(s.es)>>]

\* Until the thread votes, what is to do is in the current bin or later ones; its vote is
\* the first of these.
Relaxing(s) ==
    /\ ScansRight(s) /\ tail.next = 0
    /\ s.fused \/ s.pc \in {"fuse", "voted"} => taken = tail.curr
    /\ s.pc # "voted" => bin.next = kMaxBin /\ Unrelaxed(Left \cup Hand(s) \cup Binned(s), bin.curr)
    /\ s.pc = "voted" => Unrelaxed(Binned(s), bin.next)

Copying(s) ==
    /\ s.pc \in {"fetch", "add", "copy", "copied"}
    /\ s.pc = "fetch" => tail.next = 0
    /\ s.pc \in {"add", "copy"} => s.base = 0
    /\ s.pc = "copy" => tail.next = Len(s.bins[bin.next + 1])
    /\ s.pc \in {"fetch", "add", "copy"} => bin.next < Len(s.bins) /\ Unrelaxed(Binned(s), bin.next)
    /\ s.pc = "copied" => Unrelaxed({frontier[i] : i \in 1 .. tail.next} \cup Binned(s), bin.next)

ExactInv ==
    kernel = "sssp" /\ team = {0} =>
        /\ dist[Source] = 0
        /\ \A s \in {dw[0]} : (stage = "relax" => Relaxing(s)) /\ (stage = "copy" => Copying(s))
        /\ stage = "done" => \A u \in Vertices : Relaxed(u)

\* A team of one runs DeltaStep.
Alone == PathsInv /\ ExactInv /\ kernel = "sssp" /\ team = {0}

\* The number of a bin is the greatest that its width goes into the distance.
LEMMA DivIsGreatest ==
    ASSUME NEW a \in Nat, NEW b \in Nat \ {0}, NEW c \in Nat
    PROVE  b * c <= a <=> c <= a \div b
<1>1. PICK q : q = a \div b
    OBVIOUS
<1>2. q \in Nat /\ b * q <= a /\ a < b * q + b
    BY <1>1, DivBounds
<1>3. ASSUME b * c <= a, ~(c <= q)
      PROVE  FALSE
  <2>1. PICK d \in Nat : c = q + 1 + d
    <3>1. c - (q + 1) \in Nat /\ c = q + 1 + (c - (q + 1))
        BY <1>2, <1>3
    <3>2. QED BY <3>1
  <2>2. b * c = b * q + b + b * d /\ b * d >= 0 /\ b * q \in Nat /\ b * d \in Nat
      BY <1>2, <2>1
  <2>3. QED BY <1>2, <1>3, <2>2
<1>4. ASSUME c <= q
      PROVE  b * c <= a
  <2>1. PICK d \in Nat : q = c + d
    <3>1. q - c \in Nat /\ q = c + (q - c)
        BY <1>2, <1>4
    <3>2. QED BY <3>1
  <2>2. b * q = b * c + b * d /\ b * d >= 0 /\ b * c \in Nat /\ b * d \in Nat
      BY <1>2, <2>1
  <2>3. QED BY <1>2, <2>2
<1>5. QED BY <1>1, <1>3, <1>4

\* What does not depend on bins and tails stays as it is while no distance changes.
LEMMA ExactUnmoved ==
    ASSUME UNCHANGED view, weight' = weight, dist' = dist
    PROVE  /\ \A r : ScansRight(r)' = ScansRight(r) /\ Hand(r)' = Hand(r) /\ Binned(r)' = Binned(r)
           /\ \A u : Relaxed(u)' = Relaxed(u)
<1>1. Vertices' = Vertices /\ \A v : Neighbours(v)' = Neighbours(v)
    BY PathsUnmoved
<1>2. ASSUME NEW r
      PROVE  ScansRight(r)' = ScansRight(r)
    BY <1>1 DEF ScansRight, Scanning, ToSet
<1>3. ASSUME NEW r
      PROVE  Hand(r)' = Hand(r)
    BY DEF Hand, Scanning, ToSet
<1>4. ASSUME NEW r
      PROVE  Binned(r)' = Binned(r)
    BY <1>1 DEF Binned, Bin, ToSet
<1>5. ASSUME NEW u
      PROVE  Relaxed(u)' = Relaxed(u)
    BY <1>1 DEF Relaxed
<1>6. QED BY <1>2, <1>3, <1>4, <1>5

\* What is binned depends on the bins.
LEMMA BinnedByBins ==
    ASSUME NEW s, NEW r, s.bins = r.bins
    PROVE  Binned(s) = Binned(r)
BY DEF Binned, Bin

\* A thread takes a step while it relaxes, and changes no distance.
LEMMA ExactTurn ==
    ASSUME Alone, stage = "relax", UNCHANGED <<view, weight, dist, frontier, tail, stage>>,
           NEW s \in Relaxers, dw' = [dw EXCEPT ![0] = s], ScansRight(s),
           s.fused \/ s.pc \in {"fuse", "voted"} => taken' = tail.curr,
           s.pc # "voted" => /\ bin' = bin /\ bin.next = kMaxBin
                             /\ \A u \in Vertices :
                                   Relaxed(u) \/ /\ \/ u \in Hand(s) \/ u \in Binned(s)
                                                    \/ \E i \in (taken' + 1) .. tail.curr : u = frontier[i]
                                                 /\ Delta * bin.curr <= dist[u],
           s.pc = "voted" => \A u \in Vertices : Relaxed(u) \/ (u \in Binned(s) /\ Delta * bin'.next <= dist[u])
    PROVE  ExactInv'
<1>1. Vertices' = Vertices /\ team' = team /\ kernel' = kernel
    BY PathsUnmoved
<1>2. /\ ScansRight(s)' = ScansRight(s) /\ Hand(s)' = Hand(s) /\ Binned(s)' = Binned(s)
      /\ \A u : Relaxed(u)' = Relaxed(u)
    BY ExactUnmoved
<1>3. dist[Source] = 0 /\ Relaxing(dw[0])
    BY DEF Alone, ExactInv
<1>4. dw'[0] = s
    BY DEF Alone, PathsInv, PathsTyped
<1>5. tail.next = 0
    BY <1>3 DEF Relaxing
<1>6. s.pc # "voted" => bin'.next = kMaxBin /\ Unrelaxed(Left \cup Hand(s) \cup Binned(s), bin.curr)'
    BY <1>1, <1>2 DEF Unrelaxed, Left
<1>7. s.pc = "voted" => Unrelaxed(Binned(s), bin.next)'
    BY <1>1, <1>2 DEF Unrelaxed
<1>8. Relaxing(s)'
    BY <1>2, <1>5, <1>6, <1>7 DEF Relaxing
<1>9. QED BY <1>1, <1>3, <1>4, <1>8 DEF ExactInv

\* What is known of a team of one.
LEMMA AloneFacts ==
    ASSUME Alone
    PROVE  /\ PathsInv /\ kernel = "sssp" /\ team = {0} /\ 0 \in team /\ dist[Source] = 0
           /\ stage = "relax" => Relaxing(dw[0]) /\ ScansRight(dw[0]) /\ tail.next = 0
           /\ stage = "copy" => Copying(dw[0])
           /\ \A u \in Vertices : dist[u] \in 0 .. kDistInf /\ dist[u] \in Nat
<1>1. /\ PathsInv /\ kernel = "sssp" /\ team = {0} /\ 0 \in team /\ dist[Source] = 0
      /\ (stage = "relax" => Relaxing(dw[0])) /\ (stage = "copy" => Copying(dw[0]))
    BY DEF Alone, ExactInv
<1>2. \A u \in Vertices : dist[u] \in 0 .. kDistInf
    BY <1>1 DEF PathsInv, PathsTyped
<1>3. \A x \in 0 .. kDistInf : x \in Nat
    BY DEF kDistInf
<1>4. QED BY <1>1, <1>2, <1>3 DEF Relaxing

\* What is left to do while it relaxes.
LEMMA LeftToDo ==
    ASSUME Alone, stage = "relax", dw[0].pc # "voted", NEW u \in Vertices, ~Relaxed(u)
    PROVE  /\ \/ u \in Hand(dw[0]) \/ u \in Binned(dw[0])
              \/ \E i \in (taken + 1) .. tail.curr : u = frontier[i]
           /\ Delta * bin.curr <= dist[u]
<1>1. Unrelaxed(Left \cup Hand(dw[0]) \cup Binned(dw[0]), bin.curr)
    BY AloneFacts DEF Relaxing
<1>2. QED BY <1>1 DEF Unrelaxed, Left

LEMMA TakeChunkKeepsExact ==
    ASSUME Alone, UNCHANGED view, TakeChunk(0)
    PROVE  ExactInv'
<1>1. /\ stage = "relax" /\ dw[0].pc = "take"
      /\ UNCHANGED <<weight, dist, frontier, tail, bin, stage>>
    BY DEF TakeChunk, At
<1>2. PathsInv /\ kernel = "sssp" /\ 0 \in team /\ Relaxing(dw[0])
    BY <1>1, AloneFacts
<1>3. dw[0] \in Relaxers /\ bin.next = kMaxBin /\ Hand(dw[0]) = {}
    BY <1>1, <1>2, ThreadTyped DEF Relaxing, Hand, Scanning
<1>4. taken \in Nat /\ tail.curr \in Nat /\ taken <= tail.curr
    BY <1>1, <1>2 DEF PathsInv, PathsTyped, TailsFit
<1>5. CASE taken < tail.curr
  <2>1. taken' = Min({taken + Chunk, tail.curr})
        /\ dw' = [dw EXCEPT ![0] = [dw[0] EXCEPT !.pc = "vertex", !.us = SubSeq(frontier, taken + 1, taken')]]
      BY <1>5 DEF TakeChunk, Put
  <2>2. PICK us : us = SubSeq(frontier, taken + 1, taken')
      OBVIOUS
  <2>3. /\ taken' \in Nat /\ taken < taken' /\ taken' <= tail.curr /\ us \in Seq(Vertices)
        /\ \A i \in (taken + 1) .. taken' : frontier[i] \in ToSet(us)
      BY <1>1, <1>2, <1>5, <2>1, <2>2, ChunkOfFrontier
  <2>4. PICK s : s = [dw[0] EXCEPT !.pc = "vertex", !.us = us]
      OBVIOUS
  <2>5. dw' = [dw EXCEPT ![0] = s]
      BY <2>1, <2>2, <2>4
  <2>6. s \in Relaxers /\ s.pc = "vertex" /\ s.us = us /\ s.bins = dw[0].bins /\ s.fused = dw[0].fused
      BY <1>3, <2>3, <2>4 DEF Relaxers
  <2>7. ScansRight(s) /\ Hand(s) = ToSet(us) /\ Binned(s) = Binned(dw[0])
      BY <2>6, BinnedByBins DEF ScansRight, Scanning, Hand
  <2>8. ~s.fused
      BY <1>2, <1>4, <1>5, <2>6 DEF Relaxing
  <2>9. ASSUME NEW u \in Vertices, ~Relaxed(u)
        PROVE  /\ \/ u \in Hand(s) \/ u \in Binned(s)
                  \/ \E i \in (taken' + 1) .. tail.curr : u = frontier[i]
               /\ Delta * bin.curr <= dist[u]
    <3>1. /\ u \in Binned(dw[0]) \/ \E i \in (taken + 1) .. tail.curr : u = frontier[i]
          /\ Delta * bin.curr <= dist[u]
        BY <1>1, <1>3, <2>9, LeftToDo
    <3>2. ASSUME NEW i \in (taken + 1) .. tail.curr
          PROVE  frontier[i] \in ToSet(us) \/ i \in (taken' + 1) .. tail.curr
      <4>1. i \in (taken + 1) .. taken' \/ i \in (taken' + 1) .. tail.curr
        <5>1. taken' \in Nat /\ i \in (taken + 1) .. tail.curr
            BY <2>3
        <5>2. PICK a, b, c : a = taken /\ b = taken' /\ c = tail.curr
            OBVIOUS
        <5>3. a \in Nat /\ b \in Nat /\ c \in Nat /\ i \in (a + 1) .. c
            BY <1>4, <5>1, <5>2
        <5>4. i \in (a + 1) .. b \/ i \in (b + 1) .. c
            BY ONLY <5>3
        <5>5. QED BY <5>2, <5>4
      <4>2. QED BY <2>3, <4>1
    <3>3. QED BY <2>7, <3>1, <3>2
  <2>10. QED BY <1>1, <1>3, <2>5, <2>6, <2>7, <2>8, <2>9, ExactTurn
<1>6. CASE ~(taken < tail.curr)
  <2>1. PICK s : s = [dw[0] EXCEPT !.pc = "fuse", !.fused = TRUE]
      OBVIOUS
  <2>2. taken' = taken /\ dw' = [dw EXCEPT ![0] = s] /\ taken' = tail.curr
      BY <1>4, <1>6, <2>1 DEF TakeChunk, Put
  <2>3. s \in Relaxers /\ s.pc = "fuse" /\ s.bins = dw[0].bins
      BY <1>3, <2>1 DEF Relaxers
  <2>4. ScansRight(s) /\ Binned(s) = Binned(dw[0])
      BY <2>3, BinnedByBins DEF ScansRight, Scanning
  <2>5. ASSUME NEW u \in Vertices, ~Relaxed(u)
        PROVE  /\ \/ u \in Hand(s) \/ u \in Binned(s)
                  \/ \E i \in (taken' + 1) .. tail.curr : u = frontier[i]
               /\ Delta * bin.curr <= dist[u]
      BY <1>1, <1>3, <2>2, <2>4, <2>5, LeftToDo
  <2>6. QED BY <1>1, <1>3, <2>2, <2>3, <2>4, <2>5, ExactTurn
<1>7. QED BY <1>5, <1>6

\* It takes a step that writes nothing but its own state, and leaves its bins.
LEMMA OwnTurnKeepsExact ==
    ASSUME Alone, stage = "relax", dw[0].pc # "voted",
           UNCHANGED <<view, weight, dist, frontier, tail, bin, taken, stage>>,
           NEW s \in Relaxers, dw' = [dw EXCEPT ![0] = s], ScansRight(s),
           s.pc # "voted", s.bins = dw[0].bins, s.fused \/ s.pc = "fuse" => taken = tail.curr,
           \A u \in Hand(dw[0]) : u \in Vertices => \/ Relaxed(u) \/ u \in Hand(s)
    PROVE  ExactInv'
<1>1. Binned(s) = Binned(dw[0])
    BY BinnedByBins
<1>2. bin.next = kMaxBin /\ bin' = bin /\ taken' = taken
    BY AloneFacts DEF Relaxing
<1>3. ASSUME NEW u \in Vertices, ~Relaxed(u)
      PROVE  /\ \/ u \in Hand(s) \/ u \in Binned(s)
                \/ \E i \in (taken' + 1) .. tail.curr : u = frontier[i]
             /\ Delta * bin.curr <= dist[u]
    BY <1>1, <1>2, <1>3, LeftToDo
<1>4. QED BY <1>2, <1>3, ExactTurn

LEMMA NextVertexKeepsExact ==
    ASSUME Alone, UNCHANGED view, NextVertex(0)
    PROVE  ExactInv'
<1>1. /\ stage = "relax" /\ dw[0].pc = "vertex"
      /\ UNCHANGED <<weight, dist, frontier, tail, bin, taken, stage>>
    BY DEF NextVertex, At
<1>2. PICK s : s = IF dw[0].us = <<>> THEN [dw[0] EXCEPT !.pc = IF dw[0].fused THEN "fuse" ELSE "take"]
                   ELSE IF Current(0, Head(dw[0].us)) THEN [dw[0] EXCEPT !.pc = "edge", !.es = adj[Head(dw[0].us)]]
                   ELSE [dw[0] EXCEPT !.us = Tail(@)]
    OBVIOUS
<1>3. dw' = [dw EXCEPT ![0] = s]
    BY <1>2 DEF NextVertex, Put
<1>4. PathsInv /\ 0 \in team /\ Relaxing(dw[0])
    BY <1>1, AloneFacts
<1>5. /\ dw[0] \in Relaxers /\ dw[0].us \in Seq(Vertices) /\ Hand(dw[0]) = ToSet(dw[0].us)
      /\ (dw[0].fused => taken = tail.curr)
    BY <1>1, <1>4, ThreadTyped DEF Hand, Relaxing
<1>6. CASE dw[0].us = <<>>
  <2>1. s = [dw[0] EXCEPT !.pc = IF dw[0].fused THEN "fuse" ELSE "take"]
      BY <1>2, <1>6
  <2>2. /\ s \in Relaxers /\ s.pc \in {"fuse", "take"} /\ s.bins = dw[0].bins /\ s.fused = dw[0].fused
        /\ (s.pc = "fuse" => dw[0].fused)
      BY <1>5, <2>1 DEF Relaxers
  <2>3. Hand(dw[0]) = {} /\ ScansRight(s)
      BY <1>5, <1>6, <2>2 DEF ToSet, ScansRight, Scanning
  <2>4. QED BY <1>1, <1>3, <1>5, <2>2, <2>3, OwnTurnKeepsExact
<1>7. CASE dw[0].us # <<>> /\ Current(0, Head(dw[0].us))
  <2>1. s = [dw[0] EXCEPT !.pc = "edge", !.es = adj[Head(dw[0].us)]]
      BY <1>2, <1>7
  <2>2. adj[Head(dw[0].us)] \in Seq(Vertices)
    <3>1. Head(dw[0].us) \in Vertices
        BY <1>5, <1>7, HeadAndRest
    <3>2. QED BY <1>4, <3>1, GraphFacts DEF PathsInv, PathsTyped, Weighted
  <2>3. /\ s \in Relaxers /\ s.pc = "edge" /\ s.us = dw[0].us /\ s.es = adj[Head(dw[0].us)]
        /\ s.bins = dw[0].bins /\ s.fused = dw[0].fused
      BY <1>5, <2>1, <2>2 DEF Relaxers
  <2>4. Hand(s) = Hand(dw[0]) /\ ScansRight(s)
      BY <1>5, <2>3 DEF Hand, Scanning, ScansRight, Neighbours
  <2>5. QED BY <1>1, <1>3, <1>5, <2>3, <2>4, OwnTurnKeepsExact
<1>8. CASE dw[0].us # <<>> /\ ~Current(0, Head(dw[0].us))
  <2>1. s = [dw[0] EXCEPT !.us = Tail(dw[0].us)]
      BY <1>2, <1>8
  <2>2. /\ Head(dw[0].us) \in Vertices /\ Tail(dw[0].us) \in Seq(Vertices)
        /\ \A x \in ToSet(dw[0].us) : x = Head(dw[0].us) \/ x \in ToSet(Tail(dw[0].us))
      BY <1>5, <1>8, HeadAndRest
  <2>3. /\ s \in Relaxers /\ s.pc = "vertex" /\ s.us = Tail(dw[0].us)
        /\ s.bins = dw[0].bins /\ s.fused = dw[0].fused
      BY <1>1, <1>5, <2>1, <2>2 DEF Relaxers
  <2>4. Hand(s) = ToSet(Tail(dw[0].us)) /\ ScansRight(s)
      BY <2>3 DEF Hand, Scanning, ScansRight
  <2>5. Relaxed(Head(dw[0].us))
    <3>1. SUFFICES ASSUME ~Relaxed(Head(dw[0].us)) PROVE FALSE
        OBVIOUS
    <3>2. Delta * bin.curr <= dist[Head(dw[0].us)]
        BY <1>1, <2>2, <3>1, LeftToDo
    <3>3. dist[Head(dw[0].us)] \in Nat /\ Delta * bin.curr \in Nat
        BY <1>4, <2>2, AloneFacts, SharedBins, DeltaSteppingAssumption
    <3>4. QED BY <1>8, <3>2, <3>3 DEF Current
  <2>6. QED BY <1>1, <1>3, <1>5, <2>2, <2>3, <2>4, <2>5, OwnTurnKeepsExact
<1>9. QED BY <1>6, <1>7, <1>8

LEMMA NextEdgeKeepsExact ==
    ASSUME Alone, UNCHANGED view, NextEdge(0)
    PROVE  ExactInv'
<1>1. /\ stage = "relax" /\ dw[0].pc = "edge" /\ Scanning(dw[0])
      /\ UNCHANGED <<weight, dist, frontier, tail, bin, taken, stage>>
    BY DEF NextEdge, At, Scanning
<1>2. PICK s : s = IF dw[0].es = <<>> THEN [dw[0] EXCEPT !.pc = "vertex", !.us = Tail(@)]
                   ELSE [dw[0] EXCEPT !.pc = "reach", !.old = dist[Head(dw[0].es)]]
    OBVIOUS
<1>3. dw' = [dw EXCEPT ![0] = s]
    BY <1>2 DEF NextEdge, Put
<1>4. PathsInv /\ 0 \in team /\ Relaxing(dw[0]) /\ ScansRight(dw[0])
    BY <1>1, AloneFacts
<1>5. /\ dw[0] \in Relaxers /\ dw[0].us \in Seq(Vertices) /\ dw[0].us # <<>> /\ Hand(dw[0]) = ToSet(dw[0].us)
      /\ (dw[0].fused => taken = tail.curr)
    BY <1>1, <1>4, ThreadTyped DEF Hand, Relaxing, RelaxerSound
<1>6. CASE dw[0].es = <<>>
  <2>1. s = [dw[0] EXCEPT !.pc = "vertex", !.us = Tail(dw[0].us)]
      BY <1>2, <1>6
  <2>2. /\ Tail(dw[0].us) \in Seq(Vertices)
        /\ \A x \in ToSet(dw[0].us) : x = Head(dw[0].us) \/ x \in ToSet(Tail(dw[0].us))
      BY <1>5, HeadAndRest
  <2>3. /\ s \in Relaxers /\ s.pc = "vertex" /\ s.us = Tail(dw[0].us)
        /\ s.bins = dw[0].bins /\ s.fused = dw[0].fused
      BY <1>5, <2>1, <2>2 DEF Relaxers
  <2>4. Hand(s) = ToSet(Tail(dw[0].us)) /\ ScansRight(s)
      BY <2>3 DEF Hand, Scanning, ScansRight
  <2>5. Relaxed(Head(dw[0].us))
      BY <1>1, <1>4, <1>6 DEF ScansRight, Relaxed, ToSet
  <2>6. QED BY <1>1, <1>3, <1>5, <2>2, <2>3, <2>4, <2>5, OwnTurnKeepsExact
<1>7. CASE dw[0].es # <<>>
  <2>1. PICK old : old = dist[Head(dw[0].es)]
      OBVIOUS
  <2>2. s = [dw[0] EXCEPT !.pc = "reach", !.old = old]
      BY <1>2, <1>7, <2>1
  <2>3. old \in 0 .. kDistInf
    <3>1. Head(dw[0].es) \in Vertices
        BY <1>1, <1>4, <1>7, ThreadAtEdge
    <3>2. QED BY <2>1, <3>1, AloneFacts
  <2>4. /\ s \in Relaxers /\ s.pc = "reach" /\ s.us = dw[0].us /\ s.es = dw[0].es /\ s.old = old
        /\ s.bins = dw[0].bins /\ s.fused = dw[0].fused
      BY <1>5, <2>2, <2>3 DEF Relaxers
  <2>5. Hand(s) = Hand(dw[0]) /\ ScansRight(s)
      BY <1>1, <1>4, <1>5, <2>1, <2>4 DEF Hand, Scanning, ScansRight
  <2>6. QED BY <1>1, <1>3, <1>5, <2>4, <2>5, OwnTurnKeepsExact
<1>8. QED BY <1>6, <1>7

LEMMA ReachKeepsExact ==
    ASSUME Alone, UNCHANGED view, Reach(0)
    PROVE  ExactInv'
<1>1. /\ stage = "relax" /\ dw[0].pc = "reach" /\ Scanning(dw[0]) /\ Shorter(0, dw[0].old, Through(0))
      /\ UNCHANGED <<weight, dist, frontier, tail, bin, taken, stage>>
    BY DEF Reach, At, Scanning
<1>2. PICK old, new : old = dw[0].old /\ new = Through(0)
    OBVIOUS
<1>3. PICK s : s = IF new < old THEN [dw[0] EXCEPT !.pc = "compare", !.old = old, !.new = new]
                   ELSE [dw[0] EXCEPT !.pc = "edge", !.es = Tail(@)]
    OBVIOUS
<1>4. dw' = [dw EXCEPT ![0] = s]
    BY <1>1, <1>2, <1>3 DEF Shorter, Put
<1>5. PathsInv /\ 0 \in team /\ Relaxing(dw[0]) /\ ScansRight(dw[0])
    BY <1>1, AloneFacts
<1>6. /\ dw[0] \in Relaxers /\ dw[0].es \in Seq(Vertices) /\ dw[0].es # <<>> /\ old \in 0 .. kDistInf
      /\ Hand(dw[0]) = ToSet(dw[0].us) /\ (dw[0].fused => taken = tail.curr)
    BY <1>1, <1>2, <1>5, ThreadTyped DEF Hand, Relaxing, RelaxerSound
<1>7. old = dist[Head(dw[0].es)]
    BY <1>1, <1>2, <1>5 DEF ScansRight
<1>8. /\ new = dist[Head(dw[0].us)] + weight[<<Head(dw[0].us), Head(dw[0].es)>>] /\ new \in Nat
      /\ Tail(dw[0].es) \in Seq(Vertices)
    BY <1>1, <1>2, <1>5, <1>6, ThreadAtEdge
<1>9. CASE new < old
  <2>1. s = [dw[0] EXCEPT !.pc = "compare", !.old = old, !.new = new]
      BY <1>3, <1>9
  <2>2. new \in 0 .. kDistInf
    <3>1. new \in Nat /\ old \in 0 .. kDistInf
        BY <1>6, <1>8
    <3>2. QED BY ONLY <1>9, <3>1 DEF kDistInf
  <2>3. /\ s \in Relaxers /\ s.pc = "compare" /\ s.us = dw[0].us /\ s.es = dw[0].es /\ s.old = old
        /\ s.new = new /\ s.bins = dw[0].bins /\ s.fused = dw[0].fused
      BY <1>6, <2>1, <2>2 DEF Relaxers
  <2>4. Hand(s) = Hand(dw[0]) /\ ScansRight(s)
      BY <1>1, <1>5, <1>6, <1>7, <1>8, <2>3 DEF Hand, Scanning, ScansRight
  <2>5. QED BY <1>1, <1>4, <1>6, <2>3, <2>4, OwnTurnKeepsExact
<1>10. CASE ~(new < old)
  <2>1. s = [dw[0] EXCEPT !.pc = "edge", !.es = Tail(dw[0].es)]
      BY <1>3, <1>10
  <2>2. /\ s \in Relaxers /\ s.pc = "edge" /\ s.us = dw[0].us /\ s.es = Tail(dw[0].es)
        /\ s.bins = dw[0].bins /\ s.fused = dw[0].fused
      BY <1>6, <1>8, <2>1 DEF Relaxers
  <2>3. dist[Head(dw[0].es)] <= new
    <3>1. old \in Nat
        BY <1>5, <1>6, ThreadTyped
    <3>2. QED BY <1>7, <1>8, <1>10, <3>1
  <2>4. \A x \in ToSet(dw[0].es) : x = Head(dw[0].es) \/ x \in ToSet(Tail(dw[0].es))
      BY <1>6, HeadAndRest
  <2>5. \A v \in Neighbours(Head(dw[0].us)) \ ToSet(Tail(dw[0].es)) :
            dist[v] <= dist[Head(dw[0].us)] + weight[<<Head(dw[0].us), v>>]
      BY <1>1, <1>5, <1>8, <2>3, <2>4 DEF ScansRight
  <2>6. Hand(s) = Hand(dw[0]) /\ ScansRight(s)
      BY <1>6, <2>2, <2>5 DEF Hand, Scanning, ScansRight
  <2>7. QED BY <1>1, <1>4, <1>6, <2>2, <2>6, OwnTurnKeepsExact
<1>11. QED BY <1>9, <1>10

LEMMA CompareKeepsExact ==
    ASSUME Alone, UNCHANGED view, Compare(0)
    PROVE  ExactInv'
<1>1. /\ stage = "relax" /\ dw[0].pc = "compare" /\ Scanning(dw[0])
      /\ UNCHANGED <<weight, dist, frontier, tail, bin, taken, stage>>
    BY DEF Compare, At, Scanning
<1>2. PathsInv /\ 0 \in team /\ Relaxing(dw[0]) /\ ScansRight(dw[0])
    BY <1>1, AloneFacts
<1>3. PICK s : s = [dw[0] EXCEPT !.pc = "swap"]
    OBVIOUS
<1>4. dw[0].old = dist[Head(dw[0].es)]
    BY <1>1, <1>2 DEF ScansRight
<1>5. dw' = [dw EXCEPT ![0] = s]
    BY <1>3, <1>4 DEF Compare, Put
<1>6. dw[0] \in Relaxers /\ Hand(dw[0]) = ToSet(dw[0].us) /\ (dw[0].fused => taken = tail.curr)
    BY <1>1, <1>2, ThreadTyped DEF Hand, Relaxing
<1>7. /\ s \in Relaxers /\ s.pc = "swap" /\ s.us = dw[0].us /\ s.es = dw[0].es /\ s.old = dw[0].old
      /\ s.new = dw[0].new /\ s.bins = dw[0].bins /\ s.fused = dw[0].fused
    BY <1>3, <1>6 DEF Relaxers
<1>8. Hand(s) = Hand(dw[0]) /\ ScansRight(s)
    BY <1>1, <1>2, <1>6, <1>7 DEF Hand, Scanning, ScansRight
<1>9. QED BY <1>1, <1>5, <1>6, <1>7, <1>8, OwnTurnKeepsExact

\* What the write of a distance changes: only one vertex, which gets nearer and is filed.
LEMMA SwapDistFacts ==
    ASSUME Alone, UNCHANGED view, SwapDist(0)
    PROVE  LET v == Head(dw[0].es)
               u == Head(dw[0].us)
               es == Tail(dw[0].es)
               bins == Filed(dw[0].bins, dw[0].new \div Delta, v)
           IN  /\ stage = "relax" /\ dw[0].pc = "swap" /\ UNCHANGED <<weight, frontier, tail, bin, taken, stage>>
               /\ dist' = [dist EXCEPT ![v] = dw[0].new]
               /\ dw' = [dw EXCEPT ![0] = [dw[0] EXCEPT !.pc = "edge", !.es = es, !.bins = bins]]
               /\ dw[0].es # <<>> /\ es \in Seq(Vertices) /\ bins \in Seq(Seq(Vertices))
               /\ u \in Vertices /\ v \in Vertices /\ u # v /\ v # Source
               /\ dw[0].new = dist[u] + weight[<<u, v>>] /\ dw[0].new < dist[v] /\ dw[0].new \in Nat
               /\ weight[<<u, v>>] \in Nat /\ ~Relaxed(u) /\ Delta * bin.curr <= dw[0].new
<1> DEFINE v == Head(dw[0].es)
           u == Head(dw[0].us)
           es == Tail(dw[0].es)
           new == dw[0].new
           bins == Filed(dw[0].bins, new \div Delta, v)
<1>1. /\ stage = "relax" /\ dw[0].pc = "swap" /\ Scanning(dw[0])
      /\ UNCHANGED <<weight, frontier, tail, bin, taken, stage>>
      /\ dist' = [dist EXCEPT ![v] = new]
      /\ dw' = [dw EXCEPT ![0] = [dw[0] EXCEPT !.pc = "edge", !.es = es, !.bins = bins]]
    BY DEF SwapDist, At, Put, Scanning
<1>2. PathsInv /\ 0 \in team /\ ScansRight(dw[0]) /\ dist[Source] = 0
    BY <1>1, AloneFacts
<1>3. /\ dw[0].es # <<>> /\ dw[0].new < dw[0].old /\ dw[0].bins \in Seq(Seq(Vertices)) /\ new \in Nat
    BY <1>1, <1>2, ThreadTyped DEF RelaxerSound
<1>4. u \in Vertices /\ v \in Vertices /\ v \in Neighbours(u) /\ es \in Seq(Vertices)
    BY <1>1, <1>2, <1>3, ThreadAtEdge
<1>5. new = dist[u] + weight[<<u, v>>] /\ new < dist[v]
    BY <1>1, <1>2, <1>3 DEF ScansRight
<1>6. bins \in Seq(Seq(Vertices))
  <2>1. new \div Delta \in Nat
      BY <1>3, DeltaSteppingAssumption, DivBounds
  <2>2. QED BY <1>3, <1>4, <2>1, FiledIsThere
<1>7. dist[u] \in Nat /\ dist[v] \in Nat /\ weight[<<u, v>>] \in Nat /\ Source \in Vertices
    BY <1>2, <1>4, AloneFacts, ShortestFacts DEF PathsInv, PathsTyped
<1> HIDE DEF u, v, new, es, bins
<1>8. u # v /\ v # Source
    BY <1>2, <1>3, <1>5, <1>7
<1>9. ~Relaxed(u)
  <2>1. ~(dist[v] <= dist[u] + weight[<<u, v>>])
      BY <1>3, <1>5, <1>7
  <2>2. QED BY <1>4, <2>1 DEF Relaxed
<1>10. Delta * bin.curr <= new
  <2>1. Delta * bin.curr <= dist[u]
      BY <1>1, <1>4, <1>9, LeftToDo
  <2>2. Delta * bin.curr \in Nat
      BY <1>2, SharedBins, DeltaSteppingAssumption
  <2>3. PICK d \in Nat : d = Delta * bin.curr
      BY <2>2
  <2>4. QED BY <1>5, <1>7, <2>1, <2>3
<1>11. QED BY <1>1, <1>3, <1>4, <1>5, <1>6, <1>7, <1>8, <1>9, <1>10 DEF u, v, new, es, bins

LEMMA SwapDistKeepsExact ==
    ASSUME Alone, UNCHANGED view, SwapDist(0)
    PROVE  ExactInv'
<1>1. PICK u, v, new : u = Head(dw[0].us) /\ v = Head(dw[0].es) /\ new = dw[0].new
    OBVIOUS
<1>2. PICK bins, es : bins = Filed(dw[0].bins, new \div Delta, v) /\ es = Tail(dw[0].es)
    OBVIOUS
<1>3. PICK s : s = [dw[0] EXCEPT !.pc = "edge", !.es = es, !.bins = bins]
    OBVIOUS
<1>4. /\ stage = "relax" /\ dw[0].pc = "swap" /\ UNCHANGED <<weight, frontier, tail, bin, taken, stage>>
      /\ dist' = [dist EXCEPT ![v] = new] /\ dw' = [dw EXCEPT ![0] = s]
      /\ dw[0].es # <<>> /\ es \in Seq(Vertices) /\ bins \in Seq(Seq(Vertices))
      /\ u \in Vertices /\ v \in Vertices /\ u # v /\ v # Source
      /\ new = dist[u] + weight[<<u, v>>] /\ new < dist[v] /\ new \in Nat
      /\ weight[<<u, v>>] \in Nat /\ ~Relaxed(u) /\ Delta * bin.curr <= new
    BY <1>1, <1>2, <1>3, SwapDistFacts
<1>5. PathsInv /\ kernel = "sssp" /\ team = {0} /\ 0 \in team /\ dist[Source] = 0
      /\ Relaxing(dw[0]) /\ ScansRight(dw[0]) /\ tail.next = 0
    BY <1>4, AloneFacts
<1>6. Vertices' = Vertices /\ team' = team /\ kernel' = kernel /\ \A x : Neighbours(x)' = Neighbours(x)
    BY <1>4, PathsUnmoved
<1>7. dw[0] \in Relaxers /\ dw[0].bins \in Seq(Seq(Vertices)) /\ dw[0].es \in Seq(Vertices)
    BY <1>5, ThreadTyped
<1>8. /\ s.pc = "edge" /\ s.us = dw[0].us /\ s.es = es /\ s.bins = bins /\ s.fused = dw[0].fused
    BY <1>3, <1>7 DEF Relaxers
<1>9. /\ dist'[v] = new /\ (\A x \in Vertices : dist[x] \in Nat /\ dist'[x] \in Nat /\ dist'[x] <= dist[x])
      /\ \A x \in Vertices : x # v => dist'[x] = dist[x]
  <2>1. dist \in [Vertices -> 0 .. kDistInf] /\ \A x \in Vertices : dist[x] \in Nat
      BY <1>5, AloneFacts DEF PathsInv, PathsTyped
  <2>2. dist'[v] = new /\ \A x \in Vertices : x # v => dist'[x] = dist[x]
      BY <1>4, <2>1
  <2>3. QED BY <1>4, <2>1, <2>2
<1>10. \A x \in Vertices : \A y \in Neighbours(x) : y \in Vertices /\ weight[<<x, y>>] \in Nat
    BY <1>5, ShortestFacts DEF PathsInv, PathsTyped
<1>11. ASSUME NEW x \in Vertices, x # v, Relaxed(x)
       PROVE  Relaxed(x)'
  <2>1. ASSUME NEW y \in Neighbours(x)
        PROVE  dist'[y] <= dist'[x] + weight[<<x, y>>]
    <3>1. dist[y] <= dist[x] + weight[<<x, y>>]
        BY <1>11 DEF Relaxed
    <3>2. /\ y \in Vertices /\ weight[<<x, y>>] \in Nat /\ dist'[x] = dist[x] /\ dist[x] \in Nat
          /\ dist[y] \in Nat /\ dist'[y] \in Nat /\ dist'[y] <= dist[y]
        BY <1>9, <1>10, <1>11
    <3>3. QED BY <3>1, <3>2
  <2>2. QED BY <1>4, <1>6, <2>1 DEF Relaxed
<1>12. new \div Delta \in Nat
    BY <1>4, DeltaSteppingAssumption, DivBounds
<1>13. v \in Binned(s)'
  <2>1. new \div Delta + 1 \in DOMAIN bins /\ v \in ToSet(bins[new \div Delta + 1])
      BY <1>2, <1>4, <1>7, <1>12, FiledIsThere
  <2>2. v \in Bin(s, dist'[v] \div Delta)
      BY <1>8, <1>9, <2>1 DEF Bin
  <2>3. QED BY <1>4, <1>6, <2>2 DEF Binned, Bin
<1>14. ASSUME NEW x \in Vertices, x # v, x \in Binned(dw[0])
       PROVE  x \in Binned(s)'
  <2>1. PICK b : b = dist[x] \div Delta
      OBVIOUS
  <2>2. b + 1 \in DOMAIN dw[0].bins /\ x \in ToSet(dw[0].bins[b + 1])
      BY <1>14, <2>1 DEF Binned, Bin
  <2>3. b + 1 \in DOMAIN bins /\ x \in ToSet(bins[b + 1])
      BY <1>2, <1>4, <1>7, <1>12, <2>2, FiledIsThere
  <2>4. x \in Bin(s, dist'[x] \div Delta)
      BY <1>8, <1>9, <1>14, <2>1, <2>3 DEF Bin
  <2>5. QED BY <1>6, <2>4 DEF Binned, Bin
<1>15. Hand(s) = Hand(dw[0])
    BY <1>4, <1>8 DEF Hand, Scanning
<1>16. Unrelaxed(Left \cup Hand(s) \cup Binned(s), bin.curr)'
  <2>1. ASSUME NEW x \in Vertices
        PROVE  \/ Relaxed(x)'
               \/ /\ \/ x \in Hand(s) \/ x \in Binned(s)'
                     \/ \E i \in (taken + 1) .. tail.curr : x = frontier[i]
                  /\ Delta * bin.curr <= dist'[x]
    <3>1. CASE x = v
        BY <1>4, <1>9, <1>13, <3>1
    <3>2. CASE x # v /\ Relaxed(x)
        BY <1>11, <3>2
    <3>3. CASE x # v /\ ~Relaxed(x)
      <4>1. /\ \/ x \in Hand(dw[0]) \/ x \in Binned(dw[0])
               \/ \E i \in (taken + 1) .. tail.curr : x = frontier[i]
            /\ Delta * bin.curr <= dist[x]
          BY <1>4, <3>3, LeftToDo
      <4>2. QED BY <1>9, <1>14, <1>15, <3>3, <4>1
    <3>4. QED BY <3>1, <3>2, <3>3
  <2>2. Hand(s)' = Hand(s)
      BY DEF Hand, Scanning, ToSet
  <2>3. Left' = Left
      BY <1>4 DEF Left
  <2>4. QED BY <1>4, <1>6, <2>1, <2>2, <2>3 DEF Unrelaxed, Left
<1>17. ScansRight(s)'
  <2>1. \A x \in ToSet(dw[0].es) : x = v \/ x \in ToSet(es)
      BY <1>1, <1>2, <1>4, <1>7, HeadAndRest
  <2>2. ASSUME NEW y \in Neighbours(u) \ ToSet(es)
        PROVE  dist'[y] <= dist'[u] + weight[<<u, y>>]
    <3>1. dist'[u] = dist[u] /\ dist[u] \in Nat /\ y \in Vertices /\ weight[<<u, y>>] \in Nat
        BY <1>4, <1>9, <1>10
    <3>2. CASE y = v
        BY <1>4, <1>9, <3>1, <3>2
    <3>3. CASE y # v
      <4>1. dist[y] <= dist[u] + weight[<<u, y>>]
          BY <1>1, <1>4, <1>5, <2>1, <2>2, <3>3 DEF ScansRight, Scanning
      <4>2. QED BY <1>9, <3>1, <3>3, <4>1
    <3>4. QED BY <3>2, <3>3
  <2>3. QED BY <1>1, <1>4, <1>6, <1>8, <2>2 DEF ScansRight, Scanning, ToSet
<1>18. Relaxing(s)'
    BY <1>4, <1>5, <1>8, <1>16, <1>17 DEF Relaxing
<1>19. dw'[0] = s /\ dist'[Source] = 0
  <2>1. Source \in Vertices
      BY <1>5, ShortestFacts DEF PathsInv, PathsTyped
  <2>2. QED BY <1>4, <1>5, <1>9, <2>1 DEF PathsInv, PathsTyped
<1>20. QED BY <1>4, <1>6, <1>18, <1>19 DEF ExactInv

\* What is in a bin of its distance is among the entries of that bin.
LEMMA BinnedIsEntry ==
    ASSUME Alone, NEW u \in Vertices, u \in Binned(dw[0])
    PROVE  LET b == dist[u] \div Delta
           IN  /\ b \in Nat /\ b < Len(dw[0].bins) /\ b + 1 \in DOMAIN dw[0].bins
               /\ u \in ToSet(dw[0].bins[b + 1]) /\ Entries(0, b) = dw[0].bins[b + 1]
               /\ \A c \in Nat : Delta * c <= dist[u] <=> c <= b
<1>1. PICK b : b = dist[u] \div Delta
    OBVIOUS
<1>2. dist[u] \in Nat /\ dw[0].bins \in Seq(Seq(Vertices)) /\ Delta \in Nat \ {0}
    BY AloneFacts, ThreadTyped, DeltaSteppingAssumption
<1>3. b \in Nat /\ \A c \in Nat : Delta * c <= dist[u] <=> c <= b
    BY <1>1, <1>2, DivBounds, DivIsGreatest
<1>4. b + 1 \in DOMAIN dw[0].bins /\ u \in ToSet(dw[0].bins[b + 1])
    BY <1>1 DEF Binned, Bin
<1>5. b < Len(dw[0].bins)
    BY <1>2, <1>3, <1>4
<1>6. QED BY <1>1, <1>3, <1>4, <1>5 DEF Entries

\* What is binned stays so when a bin is emptied, but for the entries of that bin.
LEMMA StillBinned ==
    ASSUME Alone, NEW c \in Nat, NEW s, s.bins = [dw[0].bins EXCEPT ![c + 1] = <<>>],
           NEW u \in Vertices, u \in Binned(dw[0])
    PROVE  u \in ToSet(Entries(0, c)) \/ u \in Binned(s)
<1>1. PICK b : b = dist[u] \div Delta
    OBVIOUS
<1>2. /\ b \in Nat /\ b + 1 \in DOMAIN dw[0].bins
      /\ u \in ToSet(dw[0].bins[b + 1]) /\ Entries(0, b) = dw[0].bins[b + 1]
    BY <1>1, BinnedIsEntry
<1>3. CASE b = c
    BY <1>2, <1>3
<1>4. CASE b # c
  <2>1. dw[0].bins \in Seq(Seq(Vertices)) /\ b + 1 # c + 1
      BY <1>2, <1>4, AloneFacts, ThreadTyped
  <2>2. b + 1 \in DOMAIN s.bins /\ s.bins[b + 1] = dw[0].bins[b + 1]
      BY <1>2, <2>1, EmptiedBin
  <2>3. QED BY <1>1, <1>2, <2>2 DEF Binned, Bin
<1>5. QED BY <1>3, <1>4

LEMMA FuseKeepsExact ==
    ASSUME Alone, UNCHANGED view, Fuse(0)
    PROVE  ExactInv'
<1>1. /\ stage = "relax" /\ dw[0].pc = "fuse"
      /\ UNCHANGED <<weight, dist, frontier, tail, taken, stage>>
    BY DEF Fuse, At
<1>2. PathsInv /\ 0 \in team /\ Relaxing(dw[0])
    BY <1>1, AloneFacts
<1>3. /\ taken = tail.curr /\ bin.next = kMaxBin /\ Hand(dw[0]) = {}
      /\ tail.curr \in Nat /\ \A i \in (taken + 1) .. tail.curr : FALSE
  <2>1. taken = tail.curr /\ bin.next = kMaxBin /\ Hand(dw[0]) = {}
      BY <1>1, <1>2 DEF Relaxing, Hand, Scanning
  <2>2. tail.curr \in Nat
      BY <1>2 DEF PathsInv, PathsTyped
  <2>3. QED BY <2>1, <2>2
<1>4. ASSUME NEW u \in Vertices, ~Relaxed(u)
      PROVE  u \in Binned(dw[0]) /\ Delta * bin.curr <= dist[u]
    BY <1>1, <1>3, <1>4, LeftToDo
<1>5. PICK own : own = Entries(0, bin.curr)
    OBVIOUS
<1>6. /\ dw[0] \in Relaxers /\ dw[0].bins \in Seq(Seq(Vertices)) /\ bin.curr \in Nat
      /\ bin = [curr |-> bin.curr, next |-> bin.next]
    BY <1>2, ThreadTyped, SharedBins
<1>7. own \in Seq(Vertices)
    BY <1>5, <1>6, EntriesAreVertices
<1>8. CASE own # <<>> /\ Len(own) < Fusible
  <2>1. /\ dw' = [dw EXCEPT ![0] = [dw[0] EXCEPT !.pc = "vertex", !.us = own, !.bins[bin.curr + 1] = <<>>]]
        /\ bin' = bin
      BY <1>5, <1>8 DEF Fuse, Put
  <2>2. PICK bins : bins = [dw[0].bins EXCEPT ![bin.curr + 1] = <<>>]
      OBVIOUS
  <2>3. bins \in Seq(Seq(Vertices))
      BY <1>6, <2>2, EmptiedBin
  <2>4. PICK s : s = [dw[0] EXCEPT !.pc = "vertex", !.us = own, !.bins = bins]
      OBVIOUS
  <2>5. dw' = [dw EXCEPT ![0] = s]
      BY <2>1, <2>2, <2>4
  <2>6. s \in Relaxers /\ s.pc = "vertex" /\ s.us = own /\ s.bins = bins
      BY <1>6, <1>7, <2>3, <2>4 DEF Relaxers
  <2>7. ScansRight(s) /\ Hand(s) = ToSet(own)
      BY <2>6 DEF ScansRight, Scanning, Hand
  <2>8. ASSUME NEW u \in Vertices, ~Relaxed(u)
        PROVE  (u \in Hand(s) \/ u \in Binned(s)) /\ Delta * bin.curr <= dist[u]
      BY <1>4, <1>5, <1>6, <2>2, <2>6, <2>7, <2>8, StillBinned
  <2>9. QED BY <1>1, <1>3, <2>1, <2>5, <2>6, <2>7, <2>8, ExactTurn
<1>9. CASE ~(own # <<>> /\ Len(own) < Fusible)
  <2>1. PICK s, m : s = [dw[0] EXCEPT !.pc = "voted"] /\ m = Min({bin.next} \cup Used(0))
      OBVIOUS
  <2>2. dw' = [dw EXCEPT ![0] = s] /\ bin' = [bin EXCEPT !.next = m]
      BY <1>5, <1>9, <2>1 DEF Fuse, Put, Used
  <2>3. s \in Relaxers /\ s.pc = "voted" /\ s.bins = dw[0].bins
      BY <1>6, <2>1 DEF Relaxers
  <2>4. ScansRight(s) /\ Binned(s) = Binned(dw[0])
      BY <2>3, BinnedByBins DEF ScansRight, Scanning
  <2>5. bin'.next = m
      BY <1>6, <2>2
  <2>6. m \in 0 .. kMaxBin /\ m \in Nat /\ \A b \in Used(0) : m <= b
    <3>1. \A x \in 0 .. kMaxBin : x \in Nat
        BY DEF kMaxBin, kDistInf
    <3>2. QED BY <1>2, <2>1, <3>1, VoteIsLeast
  <2>7. ASSUME NEW u \in Vertices, ~Relaxed(u)
        PROVE  u \in Binned(s) /\ Delta * bin'.next <= dist[u]
    <3>1. u \in Binned(dw[0]) /\ Delta * bin.curr <= dist[u]
        BY <1>4, <2>7
    <3>2. PICK b : b = dist[u] \div Delta
        OBVIOUS
    <3>3. /\ b \in Nat /\ b < Len(dw[0].bins) /\ b + 1 \in DOMAIN dw[0].bins
          /\ u \in ToSet(dw[0].bins[b + 1]) /\ Entries(0, b) = dw[0].bins[b + 1]
          /\ \A c \in Nat : Delta * c <= dist[u] <=> c <= b
        BY <3>1, <3>2, BinnedIsEntry
    <3>4. bin.curr <= b
        BY <1>6, <3>1, <3>3
    <3>5. b \in bin.curr .. (Len(dw[0].bins) - 1)
      <4>1. Len(dw[0].bins) \in Nat
          BY <1>6
      <4>2. QED BY <1>6, <3>3, <3>4, <4>1
    <3>6. Entries(0, b) # <<>>
        BY <3>3 DEF ToSet
    <3>7. m <= b
        BY <2>6, <3>5, <3>6 DEF Used
    <3>8. QED BY <2>4, <2>5, <2>6, <3>1, <3>3, <3>7
  <2>8. QED BY <1>1, <1>3, <2>2, <2>3, <2>4, <2>7, ExactTurn
<1>10. QED BY <1>8, <1>9

\* The edges of a vertex that has not been reached make no distance less.
LEMMA FarIsRelaxed ==
    ASSUME PathsInv, NEW u \in Vertices, dist[u] = kDistInf
    PROVE  Relaxed(u)
<1>1. ASSUME NEW v \in Neighbours(u)
      PROVE  dist[v] <= dist[u] + weight[<<u, v>>]
  <2>1. v \in Vertices /\ weight[<<u, v>>] \in Nat
      BY ShortestFacts DEF PathsInv, PathsTyped
  <2>2. dist[v] \in 0 .. kDistInf
      BY <2>1 DEF PathsInv, PathsTyped
  <2>3. PICK a, w : a = dist[v] /\ w = weight[<<u, v>>]
      OBVIOUS
  <2>4. a \in 0 .. 1000 /\ w \in Nat
      BY <2>1, <2>2, <2>3 DEF kDistInf
  <2>5. a <= 1000 + w
      BY ONLY <2>4
  <2>6. dist[u] = 1000
      BY DEF kDistInf
  <2>7. QED BY <2>3, <2>5, <2>6
<1>2. QED BY <1>1 DEF Relaxed

\* It takes a step while the bins are copied.
LEMMA CopyTurnKeepsExact ==
    ASSUME Alone, UNCHANGED <<view, weight, dist>>, stage' = "copy",
           NEW s, dw'[0] = s, s.pc \in {"fetch", "add", "copy", "copied"},
           s.pc = "fetch" => tail'.next = 0,
           s.pc \in {"add", "copy"} => s.base = 0,
           s.pc = "copy" => tail'.next = Len(s.bins[bin'.next + 1]),
           s.pc \in {"fetch", "add", "copy"} =>
               /\ bin'.next < Len(s.bins)
               /\ \A u \in Vertices : Relaxed(u) \/ (u \in Binned(s) /\ Delta * bin'.next <= dist[u]),
           s.pc = "copied" => \A u \in Vertices :
               Relaxed(u) \/ /\ u \in Binned(s) \/ \E i \in 1 .. tail'.next : u = frontier'[i]
                             /\ Delta * bin'.next <= dist[u]
    PROVE  ExactInv'
<1>1. Vertices' = Vertices /\ team' = team /\ kernel' = kernel
    BY PathsUnmoved
<1>2. Binned(s)' = Binned(s) /\ \A u : Relaxed(u)' = Relaxed(u)
    BY ExactUnmoved
<1>3. s.pc \in {"fetch", "add", "copy"} => bin'.next < Len(s.bins) /\ Unrelaxed(Binned(s), bin.next)'
    BY <1>1, <1>2 DEF Unrelaxed
<1>4. s.pc = "copied" => Unrelaxed({frontier[i] : i \in 1 .. tail.next} \cup Binned(s), bin.next)'
    BY <1>1, <1>2 DEF Unrelaxed
<1>5. Copying(s)'
    BY <1>3, <1>4 DEF Copying
<1>6. dist'[Source] = 0
    BY AloneFacts
<1>7. QED BY <1>1, <1>5, <1>6 DEF ExactInv

LEMMA EndRelaxKeepsExact ==
    ASSUME Alone, UNCHANGED view, EndRelax
    PROVE  ExactInv'
<1>1. /\ stage = "relax" /\ stage' = "copy" /\ UNCHANGED <<weight, dist, frontier, taken>>
      /\ (\A t \in team : dw[t].pc = "voted")
      /\ bin' = [bin EXCEPT !.curr = kMaxBin] /\ tail' = [tail EXCEPT !.curr = 0]
      /\ dw' = [t \in team |-> [dw[t] EXCEPT !.pc = IF bin.next < Len(dw[t].bins) THEN "fetch" ELSE "copied"]]
    BY DEF EndRelax
<1>2. PathsInv /\ kernel = "sssp" /\ 0 \in team /\ dw[0].pc = "voted" /\ Relaxing(dw[0]) /\ tail.next = 0
    BY <1>1, AloneFacts
<1>3. \A u \in Vertices : Relaxed(u) \/ (u \in Binned(dw[0]) /\ Delta * bin.next <= dist[u])
    BY <1>2 DEF Relaxing, Unrelaxed
<1>4. bin'.next = bin.next /\ tail'.next = 0
  <2>1. tail \in [curr : Nat, next : Nat]
      BY <1>2, TailWhileCopying
  <2>2. QED BY <1>1, <1>2, <2>1, SharedBins
<1>5. PICK p : p = IF bin.next < Len(dw[0].bins) THEN "fetch" ELSE "copied"
    OBVIOUS
<1>6. PICK s : s = [dw[0] EXCEPT !.pc = p]
    OBVIOUS
<1>7. dw'[0] = s
    BY <1>1, <1>2, <1>5, <1>6
<1>8. s.pc = p /\ s.bins = dw[0].bins
    BY <1>2, <1>6, ThreadTyped DEF Relaxers
<1>9. Binned(s) = Binned(dw[0])
    BY <1>8, BinnedByBins
<1>10. s.pc \in {"fetch", "copied"} /\ (s.pc = "fetch" => bin'.next < Len(s.bins))
    BY <1>4, <1>5, <1>8
<1>11. \A u \in Vertices : Relaxed(u) \/ (u \in Binned(s) /\ Delta * bin'.next <= dist[u])
    BY <1>3, <1>4, <1>9
<1>12. QED BY <1>1, <1>4, <1>7, <1>10, <1>11, CopyTurnKeepsExact

LEMMA FetchTailKeepsExact ==
    ASSUME Alone, UNCHANGED view, FetchTail(0)
    PROVE  ExactInv'
<1>1. /\ stage = "copy" /\ dw[0].pc = "fetch"
      /\ UNCHANGED <<weight, dist, frontier, tail, bin, taken, stage>>
    BY DEF FetchTail
<1>2. PICK s : s = [dw[0] EXCEPT !.pc = "add", !.base = tail.next]
    OBVIOUS
<1>3. PathsInv /\ 0 \in team /\ Copying(dw[0]) /\ dw[0] \in Relaxers
    BY <1>1, AloneFacts, ThreadTyped
<1>4. dw'[0] = s
    BY <1>2, <1>3 DEF FetchTail, Put, PathsInv, PathsTyped
<1>5. s.pc = "add" /\ s.base = 0 /\ s.bins = dw[0].bins
    BY <1>1, <1>2, <1>3 DEF Relaxers, Copying
<1>6. Binned(s) = Binned(dw[0])
    BY <1>5, BinnedByBins
<1>7. /\ bin'.next < Len(s.bins)
      /\ \A u \in Vertices : Relaxed(u) \/ (u \in Binned(s) /\ Delta * bin'.next <= dist[u])
    BY <1>1, <1>3, <1>5, <1>6 DEF Copying, Unrelaxed
<1>8. QED BY <1>1, <1>4, <1>5, <1>7, CopyTurnKeepsExact

LEMMA AddTailKeepsExact ==
    ASSUME Alone, UNCHANGED view, AddTail(0)
    PROVE  ExactInv'
<1>1. /\ stage = "copy" /\ dw[0].pc = "add" /\ tail' = [tail EXCEPT !.next = Grown(0)]
      /\ UNCHANGED <<weight, dist, frontier, bin, taken, stage>>
    BY DEF AddTail
<1>2. PICK s : s = [dw[0] EXCEPT !.pc = "copy"]
    OBVIOUS
<1>3. /\ PathsInv /\ 0 \in team /\ Copying(dw[0]) /\ dw[0] \in Relaxers /\ kernel = "sssp"
      /\ dw[0].bins \in Seq(Seq(Vertices)) /\ bin.next \in Nat
    BY <1>1, AloneFacts, ThreadTyped, SharedBins
<1>4. dw'[0] = s
    BY <1>2, <1>3 DEF AddTail, Put, PathsInv, PathsTyped
<1>5. s.pc = "copy" /\ s.base = 0 /\ dw[0].base = 0 /\ s.bins = dw[0].bins
    BY <1>1, <1>2, <1>3 DEF Relaxers, Copying
<1>6. Binned(s) = Binned(dw[0])
    BY <1>5, BinnedByBins
<1>7. /\ bin'.next < Len(s.bins) /\ bin.next < Len(s.bins)
      /\ \A u \in Vertices : Relaxed(u) \/ (u \in Binned(s) /\ Delta * bin'.next <= dist[u])
    BY <1>1, <1>3, <1>5, <1>6 DEF Copying, Unrelaxed
<1>8. tail'.next = Len(s.bins[bin'.next + 1])
  <2>1. tail \in [curr : Nat, next : Nat]
      BY <1>3, TailWhileCopying
  <2>2. tail'.next = Grown(0)
      BY <1>1, <2>1
  <2>3. Entries(0, bin.next) = s.bins[bin'.next + 1] /\ Len(Entries(0, bin.next)) \in Nat
      BY <1>1, <1>3, <1>5, <1>7, EntriesAreVertices DEF Entries
  <2>4. QED BY <1>5, <2>2, <2>3 DEF Grown
<1>9. QED BY <1>1, <1>4, <1>5, <1>7, <1>8, CopyTurnKeepsExact

LEMMA CopyBinKeepsExact ==
    ASSUME Alone, UNCHANGED view, CopyBin(0)
    PROVE  ExactInv'
<1>1. /\ stage = "copy" /\ dw[0].pc = "copy"
      /\ UNCHANGED <<weight, dist, tail, bin, taken>>
    BY DEF CopyBin
<1>2. PICK own : own = Entries(0, bin.next)
    OBVIOUS
<1>3. /\ PathsInv /\ 0 \in team /\ Copying(dw[0]) /\ dw[0] \in Relaxers /\ kernel = "sssp"
      /\ dw[0].bins \in Seq(Seq(Vertices)) /\ bin.next \in Nat /\ dist[Source] = 0
    BY <1>1, AloneFacts, ThreadTyped, SharedBins
<1>4. /\ dw[0].base = 0 /\ tail.next = Len(dw[0].bins[bin.next + 1]) /\ bin.next < Len(dw[0].bins)
      /\ \A u \in Vertices : Relaxed(u) \/ (u \in Binned(dw[0]) /\ Delta * bin.next <= dist[u])
    BY <1>1, <1>3 DEF Copying, Unrelaxed
<1>5. own \in Seq(Vertices) /\ Len(own) \in Nat /\ tail.next = Len(own)
    BY <1>2, <1>3, <1>4, EntriesAreVertices DEF Entries
<1>6. CASE 0 + Len(own) > NumEdges
  <2>1. stage' = "lost"
      BY <1>2, <1>4, <1>6 DEF CopyBin
  <2>2. QED BY <1>1, <1>3, <2>1 DEF ExactInv
<1>7. CASE ~(0 + Len(own) > NumEdges)
  <2>1. PICK bins : bins = [dw[0].bins EXCEPT ![bin.next + 1] = <<>>]
      OBVIOUS
  <2>2. PICK s : s = [dw[0] EXCEPT !.pc = "copied", !.bins = bins]
      OBVIOUS
  <2>3. /\ frontier' = [i \in DOMAIN frontier |-> IF i \in (0 + 1) .. (0 + Len(own))
                                                 THEN own[i - 0] ELSE frontier[i]]
        /\ dw' = [dw EXCEPT ![0] = s] /\ stage' = "copy"
      BY <1>1, <1>2, <1>4, <1>7, <2>1, <2>2 DEF CopyBin, Put
  <2>4. s.pc = "copied" /\ s.bins = bins
      BY <1>3, <2>2 DEF Relaxers
  <2>5. dw'[0] = s
      BY <1>3, <2>3 DEF PathsInv, PathsTyped
  <2>6. ASSUME NEW k \in 1 .. Len(own)
        PROVE  frontier'[k] = own[k]
    <3>1. DOMAIN frontier = 1 .. NumEdges /\ NumEdges \in Nat
        BY <1>3, TailWhileCopying
    <3>2. k \in DOMAIN frontier /\ k - 0 = k /\ k \in (0 + 1) .. (0 + Len(own))
        BY <1>5, <1>7, <3>1
    <3>3. QED BY <2>3, <3>2
  <2>7. ASSUME NEW u \in Vertices, ~Relaxed(u)
        PROVE  /\ u \in Binned(s) \/ \E i \in 1 .. tail'.next : u = frontier'[i]
               /\ Delta * bin'.next <= dist[u]
    <3>1. u \in Binned(dw[0]) /\ Delta * bin'.next <= dist[u]
        BY <1>1, <1>4, <2>7
    <3>2. u \in ToSet(own) \/ u \in Binned(s)
        BY <1>2, <1>3, <2>1, <2>4, <3>1, StillBinned
    <3>3. CASE u \in ToSet(own)
      <4>1. PICK k \in DOMAIN own : own[k] = u
          BY <3>3 DEF ToSet
      <4>2. k \in 1 .. Len(own) /\ tail'.next = Len(own)
          BY <1>1, <1>5
      <4>3. QED BY <2>6, <3>1, <4>1, <4>2
    <3>4. QED BY <3>1, <3>2, <3>3
  <2>8. QED BY <1>1, <2>3, <2>4, <2>5, <2>7, CopyTurnKeepsExact
<1>8. QED BY <1>6, <1>7

LEMMA EndCopyKeepsExact ==
    ASSUME Alone, UNCHANGED view, EndCopy
    PROVE  ExactInv'
<1>1. /\ stage = "copy" /\ (\A t \in team : dw[t].pc = "copied") /\ UNCHANGED <<weight, dist, frontier>>
      /\ stage' = (IF bin.next = kMaxBin THEN "done" ELSE "relax")
      /\ bin' = [curr |-> bin.next, next |-> kMaxBin]
      /\ tail' = [curr |-> tail.next, next |-> 0] /\ taken' = 0
      /\ dw' = [t \in team |-> [Idle EXCEPT !.bins = dw[t].bins]]
    BY DEF EndCopy
<1>2. /\ PathsInv /\ 0 \in team /\ Copying(dw[0]) /\ kernel = "sssp" /\ dw[0].pc = "copied"
      /\ dw[0].bins \in Seq(Seq(Vertices)) /\ dist[Source] = 0
    BY <1>1, AloneFacts, ThreadTyped
<1>3. \A u \in Vertices : Relaxed(u) \/ /\ u \in Binned(dw[0]) \/ \E i \in 1 .. tail.next : u = frontier[i]
                                        /\ Delta * bin.next <= dist[u]
    BY <1>2 DEF Copying, Unrelaxed
<1>4. Vertices' = Vertices /\ team' = team /\ kernel' = kernel
    BY <1>1, PathsUnmoved
<1>5. \A r : Binned(r)' = Binned(r)
    BY <1>1, ExactUnmoved
<1>6. \A u : Relaxed(u)' = Relaxed(u)
    BY <1>1, ExactUnmoved
<1>7. CASE bin.next = kMaxBin
  <2>1. ASSUME NEW u \in Vertices, ~Relaxed(u)
        PROVE  FALSE
    <3>1. Delta * kMaxBin <= dist[u] /\ dist[u] \in 0 .. kDistInf
        BY <1>3, <1>7, <2>1, AloneFacts
    <3>2. Delta \in Nat \ {0}
        BY DeltaSteppingAssumption
    <3>3. dist[u] = kDistInf
      <4>1. PICK d, x : d = Delta /\ x = dist[u]
          OBVIOUS
      <4>2. d \in Nat /\ d >= 1 /\ x \in 0 .. 1000 /\ d * 1000 <= x
          BY <3>1, <3>2, <4>1 DEF kMaxBin, kDistInf
      <4>3. x = 1000
          BY ONLY <4>2
      <4>4. QED BY <4>1, <4>3 DEF kDistInf
    <3>4. QED BY <1>2, <2>1, <3>3, FarIsRelaxed
  <2>2. stage' = "done"
      BY <1>1, <1>7
  <2>3. QED BY <1>1, <1>2, <1>4, <1>6, <2>1, <2>2 DEF ExactInv
<1>8. CASE bin.next # kMaxBin
  <2>1. PICK s : s = [Idle EXCEPT !.bins = dw[0].bins]
      OBVIOUS
  <2>2. s.pc = "take" /\ ~s.fused /\ s.bins = dw[0].bins
      BY <1>2, <2>1, IdleIsTyped
  <2>3. dw'[0] = s /\ stage' = "relax"
      BY <1>1, <1>2, <1>8, <2>1
  <2>4. ScansRight(s)' /\ Binned(s)' = Binned(dw[0])
      BY <1>5, <2>2, BinnedByBins DEF ScansRight, Scanning
  <2>5. tail'.next = 0 /\ tail'.curr = tail.next /\ bin'.curr = bin.next /\ bin'.next = kMaxBin
      BY <1>1
  <2>6. Unrelaxed(Left \cup Hand(s) \cup Binned(s), bin.curr)'
    <3>1. ASSUME NEW u \in Vertices, ~Relaxed(u)
          PROVE  /\ u \in Binned(s)' \/ \E i \in (taken' + 1) .. tail'.curr : u = frontier'[i]
                 /\ Delta * bin'.curr <= dist'[u]
      <4>1. taken' + 1 = 1 /\ frontier' = frontier /\ dist' = dist
          BY <1>1
      <4>2. QED BY <1>3, <2>4, <2>5, <3>1, <4>1
    <3>2. QED BY <1>4, <1>6, <3>1 DEF Unrelaxed, Left
  <2>7. Relaxing(s)'
      BY <2>2, <2>4, <2>5, <2>6 DEF Relaxing
  <2>8. QED BY <1>1, <1>2, <1>4, <2>3, <2>7 DEF ExactInv
<1>9. QED BY <1>7, <1>8

LEMMA ExactStart ==
    ASSUME Init, PathsInv
    PROVE  ExactInv
<1>1. SUFFICES ASSUME kernel = "sssp", team = {0}
               PROVE  dist[Source] = 0 /\ Relaxing(dw[0]) /\ stage = "relax"
    BY DEF ExactInv
<1>2. /\ dist = [v \in Vertices |-> IF v = Source THEN 0 ELSE kDistInf]
      /\ frontier = [i \in 1 .. NumEdges |-> Source]
      /\ tail = [curr |-> 1, next |-> 0] /\ bin = [curr |-> 0, next |-> kMaxBin]
      /\ taken = 0 /\ stage = "relax" /\ dw = [t \in team |-> Idle] /\ NumEdges > 0
    BY <1>1 DEF Init, SsspInit
<1>3. Source \in Vertices /\ NumEdges \in Nat
    BY ShortestFacts, EdgesAreFinite DEF PathsInv, PathsTyped, Weighted
<1>4. frontier[1] = Source /\ 1 \in (taken + 1) .. tail.curr
    BY <1>2, <1>3
<1>5. ASSUME NEW u \in Vertices
      PROVE  Relaxed(u) \/ (u \in Left /\ Delta * bin.curr <= dist[u])
  <2>1. CASE u = Source
    <3>1. u \in Left
        BY <1>4, <2>1 DEF Left
    <3>2. Delta * 0 = 0 /\ dist[u] = 0 /\ bin.curr = 0
        BY <1>2, <1>3, <2>1, DeltaSteppingAssumption
    <3>3. QED BY <3>1, <3>2
  <2>2. CASE u # Source
      BY <1>2, <2>2, FarIsRelaxed
  <2>3. QED BY <2>1, <2>2
<1>6. dw[0].pc = "take" /\ ~dw[0].fused
    BY <1>1, <1>2 DEF Idle
<1>7. bin.next = kMaxBin /\ tail.next = 0 /\ ScansRight(dw[0])
    BY <1>2, <1>6 DEF ScansRight, Scanning
<1>8. Relaxing(dw[0])
    BY <1>5, <1>6, <1>7 DEF Relaxing, Unrelaxed
<1>9. QED BY <1>2, <1>3, <1>8

LEMMA ExactKept ==
    ASSUME PathsInv, ExactInv, [Next]_vars
    PROVE  ExactInv'
<1>1. UNCHANGED view /\ (UNCHANGED sssp \/ (kernel = "sssp" /\ SsspNext))
    BY StepKinds
<1>2. CASE UNCHANGED sssp
  <2>1. UNCHANGED <<weight, dist, frontier, tail, bin, taken, stage, dw>>
      BY <1>2 DEF sssp
  <2>2. Vertices' = Vertices /\ team' = team /\ kernel' = kernel
      BY <1>1, <2>1, PathsUnmoved
  <2>3. \A r : ScansRight(r)' = ScansRight(r) /\ Hand(r)' = Hand(r) /\ Binned(r)' = Binned(r)
      BY <1>1, <2>1, ExactUnmoved
  <2>4. \A u : Relaxed(u)' = Relaxed(u)
      BY <1>1, <2>1, ExactUnmoved
  <2>5. ASSUME NEW r
        PROVE  Relaxing(r)' = Relaxing(r)
      BY <2>1, <2>2, <2>3, <2>4 DEF Relaxing, Unrelaxed, Left
  <2>6. ASSUME NEW r
        PROVE  Copying(r)' = Copying(r)
      BY <2>1, <2>2, <2>3, <2>4 DEF Copying, Unrelaxed
  <2>7. QED BY <2>1, <2>2, <2>4, <2>5, <2>6 DEF ExactInv
<1>3. CASE kernel = "sssp" /\ SsspNext
  <2>1. kernel' = kernel /\ team' = team
      BY <1>1 DEF view
  <2>2. CASE team # {0}
      BY <2>1, <2>2 DEF ExactInv
  <2>3. CASE team = {0}
    <3>1. Alone
        BY <1>3, <2>3 DEF Alone
    <3>2. CASE EndRelax
        BY <1>1, <3>1, <3>2, EndRelaxKeepsExact
    <3>3. CASE EndCopy
        BY <1>1, <3>1, <3>3, EndCopyKeepsExact
    <3>4. CASE SsspStep(0)
      <4>1. CASE TakeChunk(0)
          BY <1>1, <3>1, <4>1, TakeChunkKeepsExact
      <4>2. CASE NextVertex(0)
          BY <1>1, <3>1, <4>2, NextVertexKeepsExact
      <4>3. CASE NextEdge(0)
          BY <1>1, <3>1, <4>3, NextEdgeKeepsExact
      <4>4. CASE Reach(0)
          BY <1>1, <3>1, <4>4, ReachKeepsExact
      <4>5. CASE Compare(0)
          BY <1>1, <3>1, <4>5, CompareKeepsExact
      <4>6. CASE SwapDist(0)
          BY <1>1, <3>1, <4>6, SwapDistKeepsExact
      <4>7. CASE Fuse(0)
          BY <1>1, <3>1, <4>7, FuseKeepsExact
      <4>8. CASE FetchTail(0)
          BY <1>1, <3>1, <4>8, FetchTailKeepsExact
      <4>9. CASE AddTail(0)
          BY <1>1, <3>1, <4>9, AddTailKeepsExact
      <4>10. CASE CopyBin(0)
          BY <1>1, <3>1, <4>10, CopyBinKeepsExact
      <4>11. QED BY <3>4, <4>1, <4>2, <4>3, <4>4, <4>5, <4>6, <4>7, <4>8, <4>9, <4>10 DEF SsspStep
    <3>5. QED BY <1>3, <2>3, <3>2, <3>3, <3>4 DEF SsspNext
  <2>4. QED BY <2>2, <2>3
<1>4. QED BY <1>1, <1>2, <1>3

\* What is proved of the paths is what the distances promise.
LEMMA PathsAreRight ==
    ASSUME PathsInv, ExactInv
    PROVE  SsspCorrect
<1>1. /\ Weighted /\ dist \in [Vertices -> 0 .. kDistInf] /\ frontier \in [1 .. NumEdges -> Vertices]
      /\ \A v \in Vertices : Shortest(v) <= dist[v]
    BY DEF PathsInv, PathsTyped, PathsSound
<1>2. \A v \in Vertices : dist[v] \in Nat /\ Shortest(v) \in Nat
  <2>1. \A x \in 0 .. kDistInf : x \in Nat
      BY DEF kDistInf
  <2>2. QED BY <1>1, <2>1, ShortestFacts
<1>3. DistancesTyped
    BY <1>1 DEF DistancesTyped, PathsInv, TailsFit
<1>4. NeverTooShort
    BY <1>1, <1>2 DEF NeverTooShort
<1>5. SsspExact
  <2>1. SUFFICES ASSUME kernel = "sssp", team = {0}, stage = "done", NEW v \in Vertices
                 PROVE  dist[v] = Shortest(v)
      BY DEF SsspExact
  <2>2. dist[Source] = 0 /\ \A u \in Vertices : Relaxed(u)
      BY <2>1 DEF ExactInv
  <2>3. Settled(dist)
      BY <1>1, <2>2 DEF Settled, Relaxed
  <2>4. dist[v] <= Shortest(v)
      BY <1>1, <2>3, ShortestIsSettled
  <2>5. QED BY <1>1, <1>2, <2>4
<1>6. QED BY <1>3, <1>4, <1>5 DEF SsspCorrect

\* Whatever the graph, the weights and the width of the bins, no thread of any team writes
\* a distance that is shorter than the shortest path, and a team of one ends with the shortest
\* paths (DeltaStep, RelaxEdges): while it runs, every vertex with an edge to relax is in
\* its hands, in the frontier or in the bin of its distance, and that bin is not behind it.
THEOREM DistancesAreRight == Spec => []SsspCorrect
<1>1. Init => PathsInv /\ ExactInv
    BY PathsStart, ExactStart
<1>2. PathsInv /\ ExactInv /\ [Next]_vars => PathsInv' /\ ExactInv'
    BY PathsKept, ExactKept
<1>3. PathsInv /\ ExactInv => SsspCorrect
    BY PathsAreRight
<1>4. QED BY <1>1, <1>2, <1>3, PTL DEF Spec
=============================================================================
