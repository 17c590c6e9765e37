------------------------------ MODULE Views_proof ------------------------------
(***************************************************************************)
(* Proofs about Views, for every set of histories, every set of places a   *)
(* lane is dragged to and any number of steps.                             *)
(***************************************************************************)
EXTENDS Views, TLAPS, FiniteSetTheorems, SequenceTheorems, WellFoundedInduction

-----------------------------------------------------------------------------
(* Numbers, finite sets and recursion.                                     *)

(* As FromZero in the naturals' induction, for a set.                      *)
LEMMA FromZeroOn ==
    ASSUME NEW T \in SUBSET Nat, 0 \in T, \A n \in T : n + 1 \in T
    PROVE  \A n \in Nat : n \in T
<1> SUFFICES ASSUME Nat \ T # {} PROVE FALSE
  OBVIOUS
<1>1. PICK n \in Nat \ T : \A m \in Nat \ T : ~(<<m, n>> \in OpToRel(<, Nat))
  BY NatLessThanWellFounded, WFMin, Zenon
<1>2. \A m \in Nat \ T : ~(m < n)
  BY <1>1 DEF OpToRel
<1>3. n # 0 /\ n - 1 \in Nat /\ n - 1 < n
  OBVIOUS
<1>4. n - 1 \in T
  BY <1>2, <1>3
<1>5. (n - 1) + 1 \in T
  BY <1>4
<1> QED BY <1>5

(* A set of naturals that is not empty has a least element.                *)
LEMMA LeastOf ==
    ASSUME NEW T \in SUBSET Nat, T # {}
    PROVE  \E n \in T : \A m \in T : n <= m
<1>1. PICK n \in T : \A m \in T : ~(<<m, n>> \in OpToRel(<, Nat))
  BY NatLessThanWellFounded, WFMin, Zenon
<1>2. \A m \in T : ~(m < n)
  BY <1>1 DEF OpToRel
<1> QED BY <1>2

(* A step that keeps a set, done n times.                                  *)
Keeps(step, n, T) == \A i \in 1 .. n : \A t \in T : step[i][t] \in T
IsIteration(f, step, n, T, s) ==
    /\ f \in [0 .. n -> T]
    /\ f[0] = s
    /\ \A i \in 1 .. n : f[i] = step[i][f[i - 1]]

LEMMA Iterated ==
    ASSUME NEW n \in Nat, NEW T, NEW s \in T, NEW step, Keeps(step, n, T)
    PROVE  \E f : IsIteration(f, step, n, T, s)
<1> DEFINE Reached(m, f) == /\ f \in [0 .. m -> T] /\ f[0] = s
                            /\ \A i \in 1 .. m : i <= n => f[i] = step[i][f[i - 1]]
           Q == {m \in Nat : \E f : Reached(m, f)}
<1>1. 0 \in Q
  <2>1. Reached(0, [k \in 0..0 |-> s])
    OBVIOUS
  <2> QED BY <2>1
<1>2. ASSUME NEW m \in Q PROVE m + 1 \in Q
  <2>1. PICK f : Reached(m, f)
    BY <1>2
  <2> DEFINE h == [k \in 0 .. m + 1 |->
                      IF k <= m THEN f[k] ELSE IF m + 1 <= n THEN step[m + 1][f[m]] ELSE s]
  <2>2. h \in [0 .. m + 1 -> T]
    <3>1. m + 1 <= n => m + 1 \in 1 .. n
      OBVIOUS
    <3> USE DEF Keeps
    <3>2. f[m] \in T
      BY <2>1
    <3>3. ASSUME NEW k \in 0 .. m + 1 PROVE h[k] \in T
      <4>1. CASE k <= m
        BY <4>1, <2>1
      <4>2. CASE ~(k <= m)
        BY <4>2, <3>1, <3>2
      <4> QED BY <4>1, <4>2
    <3> QED BY <3>3
  <2>3. h[0] = s
    BY <2>1
  <2>4. ASSUME NEW i \in 1 .. m + 1, i <= n PROVE h[i] = step[i][h[i - 1]]
    <3>1. i - 1 <= m /\ i - 1 \in 0 .. m + 1
      OBVIOUS
    <3>2. h[i - 1] = f[i - 1]
      BY <3>1
    <3>3. CASE i <= m
      BY <3>2, <3>3, <2>1, <2>4
    <3>4. CASE i = m + 1
      BY <3>2, <3>4, <2>4
    <3> QED BY <3>3, <3>4
  <2>5. Reached(m + 1, h)
    BY <2>2, <2>3, <2>4
  <2>6. \E x : Reached(m + 1, x)
    <3> HIDE DEF h, Reached
    <3> QED BY <2>5
  <2> QED BY <2>6
<1>3. \A m \in Nat : m \in Q
  <2> HIDE DEF Q
  <2>1. \A m \in Q : m + 1 \in Q
    BY <1>2
  <2>2. Q \in SUBSET Nat
    BY DEF Q
  <2> QED BY <1>1, <2>1, <2>2, FromZeroOn
<1>4. PICK f : Reached(n, f)
  BY <1>3
<1>5. IsIteration(f, step, n, T, s)
  BY <1>4 DEF IsIteration
<1> QED BY <1>5

(* What takes such steps from s is the iteration.                          *)
Follows(c, step, n, T, s) ==
    /\ c = [i \in 0 .. n |-> c[i]]
    /\ c[0] = s
    /\ \A i \in 1 .. n : c[i - 1] \in T => c[i] = step[i][c[i - 1]]

LEMMA Following ==
    ASSUME NEW n \in Nat, NEW T, NEW s \in T, NEW step, Keeps(step, n, T),
           NEW c, Follows(c, step, n, T, s)
    PROVE  IsIteration(c, step, n, T, s)
<1> DEFINE Q == {i \in Nat : i <= n => c[i] \in T}
<1>1. 0 \in Q
  BY DEF Follows
<1>2. ASSUME NEW i \in Q PROVE i + 1 \in Q
  <2>1. i + 1 <= n => i + 1 \in 1 .. n /\ (i + 1) - 1 = i /\ c[i] \in T
    OBVIOUS
  <2>2. i + 1 <= n => c[i + 1] = step[i + 1][c[i]]
    BY <2>1 DEF Follows
  <2> QED BY <2>1, <2>2 DEF Keeps
<1>3. \A i \in Nat : i \in Q
  <2> HIDE DEF Q
  <2>1. \A i \in Q : i + 1 \in Q
    BY <1>2
  <2>2. Q \in SUBSET Nat
    BY DEF Q
  <2> QED BY <1>1, <2>1, <2>2, FromZeroOn
<1>4. \A i \in 0 .. n : c[i] \in T
  BY <1>3
<1>5. c \in [0 .. n -> T]
  BY <1>4 DEF Follows
<1>6. \A i \in 1 .. n : i - 1 \in 0 .. n
  OBVIOUS
<1> QED BY <1>4, <1>5, <1>6 DEF IsIteration, Follows

(* The least and the greatest of a finite set of numbers.                  *)
LEMMA BoundsExist ==
    ASSUME NEW S \in SUBSET Int, IsFiniteSet(S), S # {}
    PROVE  /\ \E m \in S : \A x \in S : m <= x
           /\ \E m \in S : \A x \in S : x <= m
<1> DEFINE Q == {n \in Nat : \A T \in SUBSET Int : IsFiniteSet(T) /\ Cardinality(T) = n + 1 =>
                      /\ \E m \in T : \A x \in T : m <= x
                      /\ \E m \in T : \A x \in T : x <= m}
<1>1. 0 \in Q
  <2>1. ASSUME NEW T \in SUBSET Int, IsFiniteSet(T), Cardinality(T) = 0 + 1
        PROVE  /\ \E m \in T : \A x \in T : m <= x
               /\ \E m \in T : \A x \in T : x <= m
    <3>1. PICK m : T = {m}
      <4>1. Cardinality(T) = 1
        BY <2>1
      <4> QED BY <2>1, <4>1, FS_Singleton
    <3> QED BY <3>1
  <2> QED BY <2>1
<1>2. ASSUME NEW n \in Q PROVE n + 1 \in Q
  <2>1. ASSUME NEW T \in SUBSET Int, IsFiniteSet(T), Cardinality(T) = (n + 1) + 1
        PROVE  /\ \E m \in T : \A x \in T : m <= x
               /\ \E m \in T : \A x \in T : x <= m
    <3>1. PICK t \in T : TRUE
      <4>1. Cardinality(T) # 0
        BY <2>1
      <4> QED BY <4>1, FS_EmptySet
    <3>2. IsFiniteSet(T \ {t}) /\ Cardinality(T \ {t}) = n + 1 /\ T \ {t} \in SUBSET Int
      BY <2>1, <3>1, FS_RemoveElement
    <3>3. PICK a \in T \ {t}, b \in T \ {t} : \A x \in T \ {t} : a <= x /\ x <= b
      BY <3>2, <1>2
    <3>4. \A x \in T : x = t \/ x \in T \ {t}
      OBVIOUS
    <3>5. t \in Int /\ a \in Int /\ b \in Int /\ a \in T /\ b \in T
      BY <3>1
    <3>6. \E m \in T : \A x \in T : m <= x
      <4>1. CASE t <= a
        BY <3>3, <3>4, <3>5, <4>1
      <4>2. CASE a <= t
        BY <3>3, <3>4, <3>5, <4>2
      <4> QED BY <4>1, <4>2, <3>5
    <3>7. \E m \in T : \A x \in T : x <= m
      <4>1. CASE t <= b
        BY <3>3, <3>4, <3>5, <4>1
      <4>2. CASE b <= t
        BY <3>3, <3>4, <3>5, <4>2
      <4> QED BY <4>1, <4>2, <3>5
    <3> QED BY <3>6, <3>7
  <2> QED BY <2>1
<1>3. \A n \in Nat : n \in Q
  <2> HIDE DEF Q
  <2>1. \A n \in Q : n + 1 \in Q
    BY <1>2
  <2>2. Q \in SUBSET Nat
    BY DEF Q
  <2> QED BY <1>1, <2>1, <2>2, FromZeroOn
<1>4. Cardinality(S) \in Nat /\ Cardinality(S) # 0
  BY FS_CardinalityType, FS_EmptySet
<1>5. Cardinality(S) - 1 \in Q
  BY <1>3, <1>4
<1> QED BY <1>4, <1>5

LEMMA MinMaxOf ==
    ASSUME NEW S \in SUBSET Int, IsFiniteSet(S), S # {}
    PROVE  /\ Min(S) \in S /\ \A x \in S : Min(S) <= x
           /\ Max(S) \in S /\ \A x \in S : x <= Max(S)
BY BoundsExist DEF Min, Max

LEMMA MinMaxOfTwo ==
    ASSUME NEW a \in Int, NEW b \in Int
    PROVE  /\ Min({a, b}) \in Int /\ Min({a, b}) <= a /\ Min({a, b}) <= b
           /\ Max({a, b}) \in Int /\ a <= Max({a, b}) /\ b <= Max({a, b})
<1>1. {a, b} \in SUBSET Int /\ {a, b} # {}
  OBVIOUS
<1>2. IsFiniteSet({a}) /\ IsFiniteSet({a} \cup {b})
  BY FS_Singleton, FS_AddElement
<1>3. {a} \cup {b} = {a, b}
  OBVIOUS
<1> HIDE DEF Min, Max
<1> QED BY <1>1, <1>2, <1>3, MinMaxOf

(* In a finite set with a strict total order there is for every number     *)
(* less than the size exactly one element that has that many before it.    *)
LEMMA PlacesInOrder ==
    ASSUME NEW S, IsFiniteSet(S), NEW below \in [S -> SUBSET S],
           \A x \in S : x \notin below[x],
           \A x, y \in S : x = y \/ x \in below[y] \/ y \in below[x],
           \A x, y \in S : x \in below[y] => below[x] \subseteq below[y]
    PROVE  /\ \A x \in S : IsFiniteSet(below[x]) /\ Cardinality(below[x]) \in 0 .. Cardinality(S) - 1
           /\ \A x, y \in S : x \in below[y] => Cardinality(below[x]) < Cardinality(below[y])
           /\ \A x, y \in S : Cardinality(below[x]) = Cardinality(below[y]) => x = y
           /\ \A n \in 0 .. Cardinality(S) - 1 : \E x \in S : Cardinality(below[x]) = n
<1>1. Cardinality(S) \in Nat
  BY FS_CardinalityType
<1>2. ASSUME NEW x \in S
      PROVE  IsFiniteSet(below[x]) /\ Cardinality(below[x]) \in 0 .. Cardinality(S) - 1
  <2>1. below[x] \subseteq S /\ below[x] # S
    OBVIOUS
  <2>2. IsFiniteSet(below[x]) /\ Cardinality(below[x]) < Cardinality(S)
    <3>1. IsFiniteSet(below[x]) /\ Cardinality(below[x]) <= Cardinality(S)
          /\ Cardinality(below[x]) # Cardinality(S)
      BY <2>1, FS_Subset
    <3>2. Cardinality(below[x]) \in Nat
      BY <3>1, FS_CardinalityType
    <3> QED BY <3>1, <3>2, <1>1
  <2>3. Cardinality(below[x]) \in Nat
    BY <2>2, FS_CardinalityType
  <2> QED BY <2>2, <2>3, <1>1
<1>3. ASSUME NEW x \in S, NEW y \in S, x \in below[y]
      PROVE  Cardinality(below[x]) < Cardinality(below[y])
  <2>1. below[x] \subseteq below[y] /\ below[x] # below[y]
    BY <1>3
  <2> QED BY <2>1, <1>2, FS_Subset
<1>4. ASSUME NEW x \in S, NEW y \in S, Cardinality(below[x]) = Cardinality(below[y]) PROVE x = y
  BY <1>2, <1>3, <1>4
<1> DEFINE f == [x \in S |-> Cardinality(below[x])]
           N == 0 .. Cardinality(S) - 1
<1>5. f \in [S -> N] /\ \A x, y \in S : f[x] = f[y] => x = y
  BY <1>2, <1>4
<1>6. IsFiniteSet(N) /\ Cardinality(N) = Cardinality(S)
  BY <1>1, FS_Interval
<1>7. \A n \in N : \E x \in S : f[x] = n
  <2> HIDE DEF f, N
  <2> DEFINE image == {f[x] : x \in S}
  <2>1. image \subseteq N
    BY <1>5
  <2>2. f \in Bijection(S, image)
    BY <1>5 DEF Bijection, Injection, Surjection, IsInjective
  <2>3. Cardinality(image) = Cardinality(S)
    BY <2>2, FS_Bijection DEF ExistsBijection
  <2>4. image = N
    BY <2>1, <2>3, <1>6, FS_Subset
  <2> QED BY <2>4
<1> QED BY <1>2, <1>3, <1>4, <1>7

(* A sequence of the elements of S, sorted by a strict total order.        *)
IsOrder(below, S) ==
    /\ below \in [S -> SUBSET S]
    /\ \A x \in S : x \notin below[x]
    /\ \A x, y \in S : x = y \/ x \in below[y] \/ y \in below[x]
    /\ \A x, y \in S : x \in below[y] => below[x] \subseteq below[y]
IsSortedBy(seq, below, S) ==
    /\ seq \in Seq(S)
    /\ DOMAIN seq = 1 .. Cardinality(S)
    /\ \A x \in S : \E i \in DOMAIN seq : seq[i] = x
    /\ \A i, j \in DOMAIN seq : i < j => seq[i] # seq[j] /\ seq[i] \in below[seq[j]]

IsRanked(seq, below, S) ==
    /\ seq = [i \in 1 .. Cardinality(S) |-> seq[i]]
    /\ \A i \in 1 .. Cardinality(S) :
           (\E s \in S : Cardinality(below[s]) = i - 1) =>
               seq[i] \in S /\ Cardinality(below[seq[i]]) = i - 1

LEMMA Sorting ==
    ASSUME NEW S, IsFiniteSet(S), NEW below, IsOrder(below, S), NEW seq, IsRanked(seq, below, S)
    PROVE  IsSortedBy(seq, below, S)
<1> DEFINE n == Cardinality(S)
           size == [s \in S |-> Cardinality(below[s])]
<1>1. n \in Nat
  BY FS_CardinalityType
<1>2. /\ \A x \in S : size[x] \in 0 .. n - 1
      /\ \A x, y \in S : x \in below[y] => size[x] < size[y]
      /\ \A x, y \in S : size[x] = size[y] => x = y
      /\ \A m \in 0 .. n - 1 : \E x \in S : size[x] = m
  BY PlacesInOrder DEF IsOrder
<1>3. ASSUME NEW i \in 1 .. n PROVE seq[i] \in S /\ size[seq[i]] = i - 1
  <2>1. i - 1 \in 0 .. n - 1
    BY <1>1
  <2>2. PICK x \in S : size[x] = i - 1
    BY <1>2, <2>1
  <2>3. \E s \in S : Cardinality(below[s]) = i - 1
    BY <2>2
  <2> QED BY <2>3 DEF IsRanked
<1> HIDE DEF size
<1>4. seq \in Seq(S) /\ DOMAIN seq = 1 .. n
  <2>1. seq \in [1 .. n -> S]
    BY <1>3 DEF IsRanked
  <2> QED BY <1>1, <2>1, SeqDef
<1>5. ASSUME NEW x \in S PROVE \E i \in 1 .. n : seq[i] = x
  <2>1. size[x] + 1 \in 1 .. n /\ (size[x] + 1) - 1 = size[x]
    BY <1>1, <1>2
  <2> QED BY <1>2, <1>3, <2>1
<1>6. ASSUME NEW i \in 1 .. n, NEW j \in 1 .. n, i < j
      PROVE  seq[i] # seq[j] /\ seq[i] \in below[seq[j]]
  <2>1. size[seq[i]] < size[seq[j]]
    BY <1>1, <1>3, <1>6
  <2>2. seq[i] \in S /\ seq[j] \in S /\ size[seq[i]] \in Int /\ size[seq[j]] \in Int
    BY <1>2, <1>3
  <2>3. ~(seq[j] \in below[seq[i]]) /\ seq[i] # seq[j]
    BY <1>2, <2>1, <2>2
  <2> QED BY <2>2, <2>3 DEF IsOrder
<1> QED BY <1>4, <1>5, <1>6 DEF IsSortedBy

LEMMA FiniteImage ==
    ASSUME NEW S, IsFiniteSet(S), NEW f
    PROVE  IsFiniteSet({f[x] : x \in S})
<1> DEFINE T == {f[x] : x \in S}
           m == [x \in S |-> f[x]]
<1>1. m \in Surjection(S, T)
  BY DEF Surjection
<1> QED BY <1>1, FS_Surjection

-----------------------------------------------------------------------------
(* Histories: recursion along the links to parents, and the rows.          *)

LEMMA ParentsAre ==
    ASSUME NEW g, IsHistory(g), NEW h \in g.commits
    PROVE  /\ IsFiniteSet(g.commits) /\ h \in Int /\ g.time[h] \in Int
           /\ IsFiniteSet(ParentsIn(g, h)) /\ ParentsIn(g, h) \subseteq g.commits
           /\ FirstParent(g, h) \in g.commits => FirstParent(g, h) \in ParentsIn(g, h)
<1>1. IsFiniteSet(g.commits) /\ h \in Int /\ g.time[h] \in Int /\ NoCommit \notin g.commits
      /\ g.parents[h] \in Seq(Nat \ {NoCommit})
  BY DEF IsHistory, NoCommit
<1>2. ParentsIn(g, h) \subseteq g.commits
  BY DEF ParentsIn
<1>3. IsFiniteSet(ParentsIn(g, h))
  BY <1>1, <1>2, FS_Subset
<1>4. ASSUME FirstParent(g, h) \in g.commits PROVE FirstParent(g, h) \in ParentsIn(g, h)
  <2>1. g.parents[h] # <<>> /\ FirstParent(g, h) = g.parents[h][1]
    BY <1>1, <1>4 DEF FirstParent
  <2>2. 1 \in DOMAIN g.parents[h]
    BY <1>1, <2>1
  <2> QED BY <1>4, <2>1, <2>2 DEF ParentsIn, ToSet
<1> QED BY <1>1, <1>2, <1>3, <1>4

(* What says of a commit what it says of its parents has a fixed point.    *)
DependsOnParents(G, g, V) ==
    /\ \A A \in [g.commits -> V] : G[A] \in [g.commits -> V]
    /\ \A A, B \in [g.commits -> V] : \A h \in g.commits :
           (\A p \in ParentsIn(g, h) : A[p] = B[p]) => G[A][h] = G[B][h]

LEMMA FixedPoint ==
    ASSUME NEW g, IsHistory(g), NEW V, NEW v \in V, NEW G, DependsOnParents(G, g, V)
    PROVE  \E F \in [g.commits -> V] : G[F] = F
<1> DEFINE T == [g.commits -> V]
           N == Cardinality(g.commits)
<1>1. N \in Nat
  BY FS_CardinalityType DEF IsHistory
<1>2. PICK generation \in [g.commits -> 1 .. N] :
          \A h \in g.commits : \A p \in ParentsIn(g, h) : generation[p] < generation[h]
  BY DEF IsHistory
<1> DEFINE first == [h \in g.commits |-> v]
           step == [i \in 1 .. N + 1 |-> G]
<1>3. first \in T
  OBVIOUS
<1>4. Keeps(step, N + 1, T) /\ N + 1 \in Nat
  BY <1>1 DEF Keeps, DependsOnParents
<1> HIDE DEF T, N
<1>5. PICK f : IsIteration(f, step, N + 1, T, first)
  <2> HIDE DEF first, step
  <2> QED BY <1>3, <1>4, Iterated
<1>6. \A i \in 0 .. N : f[i] \in T /\ f[i + 1] \in T /\ f[i + 1] = G[f[i]]
  <2> SUFFICES ASSUME NEW i \in 0 .. N PROVE f[i] \in T /\ f[i + 1] \in T /\ f[i + 1] = G[f[i]]
    OBVIOUS
  <2>1. i + 1 \in 1 .. N + 1 /\ i \in 0 .. N + 1 /\ i + 1 \in 0 .. N + 1 /\ (i + 1) - 1 = i
    BY <1>1
  <2>2. f[i + 1] = step[i + 1][f[(i + 1) - 1]]
    BY <1>5, <2>1 DEF IsIteration
  <2>3. step[i + 1] = G
    BY <2>1
  <2> HIDE DEF step
  <2> QED BY <1>5, <2>1, <2>2, <2>3 DEF IsIteration
<1> DEFINE Settled(i) == \A h \in g.commits : generation[h] <= i => f[i + 1][h] = f[i][h]
           Q == {i \in Nat : i <= N => Settled(i)}
<1>7. 0 \in Q
  BY <1>1, <1>2
<1>8. ASSUME NEW i \in Q PROVE i + 1 \in Q
  <2>1. ASSUME i + 1 <= N, NEW h \in g.commits, generation[h] <= i + 1
        PROVE  f[(i + 1) + 1][h] = f[i + 1][h]
    <3>1. i \in 0 .. N /\ i + 1 \in 0 .. N /\ Settled(i)
      BY <1>1, <1>8, <2>1
    <3>2. \A p \in ParentsIn(g, h) : p \in g.commits /\ generation[p] <= i
      <4>1. ASSUME NEW p \in ParentsIn(g, h) PROVE p \in g.commits /\ generation[p] <= i
        <5>1. p \in g.commits /\ generation[p] < generation[h]
          BY <1>2 DEF ParentsIn
        <5>2. generation[p] \in Int /\ generation[h] \in Int /\ i \in Int
          BY <1>1, <1>2, <5>1
        <5> QED BY <5>1, <5>2, <2>1
      <4> QED BY <4>1
    <3>3. \A p \in ParentsIn(g, h) : f[i + 1][p] = f[i][p]
      BY <3>1, <3>2
    <3>4. f[i] \in [g.commits -> V] /\ f[i + 1] \in [g.commits -> V]
      BY <1>6, <3>1 DEF T
    <3>5. G[f[i + 1]][h] = G[f[i]][h]
      <4> DEFINE A == f[i + 1]
                 B == f[i]
      <4>1. A \in [g.commits -> V] /\ B \in [g.commits -> V] /\ \A p \in ParentsIn(g, h) : A[p] = B[p]
        BY <3>3, <3>4
      <4> HIDE DEF A, B
      <4>2. G[A][h] = G[B][h]
        BY <4>1 DEF DependsOnParents
      <4> QED BY <4>2 DEF A, B
    <3>6. f[(i + 1) + 1] = G[f[i + 1]] /\ f[i + 1] = G[f[i]]
      BY <1>6, <3>1
    <3> QED BY <3>5, <3>6
  <2> QED BY <2>1
<1>9. N \in Q
  <2> HIDE DEF Q
  <2>1. \A i \in Q : i + 1 \in Q
    BY <1>8
  <2>2. Q \in SUBSET Nat
    BY DEF Q
  <2> QED BY <1>1, <1>7, <2>1, <2>2, FromZeroOn
<1>10. \A h \in g.commits : f[N + 1][h] = f[N][h]
  <2>1. \A h \in g.commits : generation[h] <= N
    BY <1>1, <1>2
  <2> QED BY <1>1, <1>9, <2>1
<1>11. f[N] \in [g.commits -> V] /\ f[N + 1] \in [g.commits -> V] /\ f[N + 1] = G[f[N]]
  BY <1>1, <1>6 DEF T
<1>12. f[N + 1] = f[N]
  BY <1>10, <1>11
<1> QED BY <1>11, <1>12

(* What holds of a commit if it holds of its parents holds of all.         *)
LEMMA AlongParents ==
    ASSUME NEW g, IsHistory(g), NEW T,
           \A h \in g.commits : ParentsIn(g, h) \subseteq T => h \in T
    PROVE  g.commits \subseteq T
<1> DEFINE N == Cardinality(g.commits)
<1>1. N \in Nat
  BY FS_CardinalityType DEF IsHistory
<1>2. PICK generation \in [g.commits -> 1 .. N] :
          \A h \in g.commits : \A p \in ParentsIn(g, h) : generation[p] < generation[h]
  BY DEF IsHistory
<1> SUFFICES ASSUME g.commits \ T # {} PROVE FALSE
  OBVIOUS
<1> DEFINE Left == {generation[h] : h \in g.commits \ T}
<1>3. Left \in SUBSET Nat /\ Left # {}
  BY <1>1, <1>2
<1>4. PICK n \in Left : \A m \in Left : n <= m
  <2> HIDE DEF Left
  <2> QED BY <1>3, LeastOf
<1>5. PICK h \in g.commits \ T : generation[h] = n
  BY <1>4
<1>6. ASSUME NEW p \in ParentsIn(g, h) PROVE p \in T
  <2>1. p \in g.commits /\ generation[p] < generation[h]
    BY <1>2 DEF ParentsIn
  <2>2. generation[p] \in Nat /\ generation[h] \in Nat
    BY <1>1, <1>2, <2>1
  <2>3. p \notin T => generation[p] \in Left
    BY <2>1
  <2> QED BY <2>1, <2>2, <2>3, <1>4, <1>5
<1> QED BY <1>5, <1>6

IsEffective(et, g) ==
    et = [h \in g.commits |-> Max({g.time[h]} \cup {et[p] + 1 : p \in ParentsIn(g, h)})]

(* Effective times: a commit is later than its parents.                    *)
LEMMA EffectiveTimes ==
    ASSUME NEW g, IsHistory(g)
    PROVE  /\ EffectiveTime(g) \in [g.commits -> Int]
           /\ \A h \in g.commits : \A p \in ParentsIn(g, h) :
                  EffectiveTime(g)[p] < EffectiveTime(g)[h]
<1> DEFINE Times(F, h) == {g.time[h]} \cup {F[p] + 1 : p \in ParentsIn(g, h)}
           G == [F \in [g.commits -> Int] |-> [h \in g.commits |-> Max(Times(F, h))]]
<1>1. ASSUME NEW F \in [g.commits -> Int], NEW h \in g.commits
      PROVE  Max(Times(F, h)) \in Int /\ \A x \in Times(F, h) : x <= Max(Times(F, h))
  <2> DEFINE raised == [p \in g.commits |-> F[p] + 1]
  <2>1. IsFiniteSet(ParentsIn(g, h)) /\ ParentsIn(g, h) \subseteq g.commits /\ g.time[h] \in Int
    BY ParentsAre
  <2>2. {raised[p] : p \in ParentsIn(g, h)} = {F[p] + 1 : p \in ParentsIn(g, h)}
    BY <2>1
  <2>3. IsFiniteSet({raised[p] : p \in ParentsIn(g, h)})
    <3> HIDE DEF raised
    <3> QED BY <2>1, FiniteImage
  <2>4. IsFiniteSet(Times(F, h))
    <3>1. IsFiniteSet({F[p] + 1 : p \in ParentsIn(g, h)} \cup {g.time[h]})
      BY <2>2, <2>3, FS_AddElement
    <3>2. {F[p] + 1 : p \in ParentsIn(g, h)} \cup {g.time[h]} = Times(F, h)
      OBVIOUS
    <3> QED BY <3>1, <3>2
  <2>5. Times(F, h) \in SUBSET Int /\ Times(F, h) # {}
    BY <2>1
  <2> HIDE DEF Times
  <2> QED BY <2>4, <2>5, MinMaxOf
<1>2. \A F \in [g.commits -> Int] : G[F] \in [g.commits -> Int]
  <2> HIDE DEF Times
  <2> QED BY <1>1
<1>3. ASSUME NEW A \in [g.commits -> Int], NEW B \in [g.commits -> Int], NEW h \in g.commits,
             \A p \in ParentsIn(g, h) : A[p] = B[p]
      PROVE  G[A][h] = G[B][h]
  <2>1. Times(A, h) = Times(B, h)
    BY <1>3
  <2>2. G[A][h] = Max(Times(A, h)) /\ G[B][h] = Max(Times(B, h))
    OBVIOUS
  <2> HIDE DEF Times, G
  <2> QED BY <2>1, <2>2
<1>4. PICK F \in [g.commits -> Int] : G[F] = F
  <2> HIDE DEF G
  <2>1. \A A, B \in [g.commits -> Int] : \A h \in g.commits :
            (\A p \in ParentsIn(g, h) : A[p] = B[p]) => G[A][h] = G[B][h]
    BY <1>3
  <2>2. DependsOnParents(G, g, Int) /\ 0 \in Int
    BY <1>2, <2>1 DEF DependsOnParents
  <2> QED BY <2>2, FixedPoint
<1>5. IsEffective(F, g)
  <2>1. G[F] = [h \in g.commits |-> Max(Times(F, h))]
    OBVIOUS
  <2> QED BY <1>4, <2>1 DEF IsEffective
<1> DEFINE et == EffectiveTime(g)
<1>6. IsEffective(et, g)
  <2>1. et = CHOOSE x : IsEffective(x, g)
    BY DEF EffectiveTime, IsEffective
  <2> HIDE DEF et
  <2> QED BY <1>5, <2>1
<1>7. \A h \in g.commits : et[h] = Max(Times(et, h))
  <2> HIDE DEF et
  <2> QED BY <1>6 DEF IsEffective
<1>8. DOMAIN et = g.commits /\ et = [h \in g.commits |-> et[h]]
  <2> HIDE DEF et
  <2> QED BY <1>6 DEF IsEffective
<1>9. et \in [g.commits -> Int]
  <2> HIDE DEF et, Times
  <2> DEFINE T == {h \in g.commits : et[h] \in Int}
  <2>1. ASSUME NEW h \in g.commits, ParentsIn(g, h) \subseteq T PROVE h \in T
    <3> DEFINE A == [p \in g.commits |-> IF p \in T THEN et[p] ELSE 0]
    <3>1. A \in [g.commits -> Int]
      OBVIOUS
    <3>2. \A p \in ParentsIn(g, h) : A[p] = et[p]
      BY <2>1
    <3>3. Times(A, h) = Times(et, h)
      <4> HIDE DEF A
      <4> QED BY <3>2 DEF Times
    <3>4. Max(Times(A, h)) \in Int
      <4> HIDE DEF A
      <4> QED BY <1>1, <3>1
    <3> QED BY <3>3, <3>4, <1>7
  <2>2. g.commits \subseteq T
    <3> HIDE DEF T
    <3> QED BY <2>1, AlongParents
  <2> QED BY <2>2, <1>8
<1>10. ASSUME NEW h \in g.commits, NEW p \in ParentsIn(g, h) PROVE et[p] < et[h]
  <2>1. et[p] + 1 \in Times(et, h)
    OBVIOUS
  <2>2. p \in g.commits
    BY DEF ParentsIn
  <2> HIDE DEF et, Times
  <2>3. et[p] + 1 <= et[h]
    BY <1>1, <1>7, <1>9, <2>1
  <2> QED BY <1>9, <2>2, <2>3
<1> QED BY <1>9, <1>10

(* By a time, latest first, then by number.                                *)
LaterThan(S, time) == [h \in S |-> {x \in S : time[x] > time[h] \/ (time[x] = time[h] /\ x < h)}]

LEMMA LatestFirst ==
    ASSUME NEW S, IsFiniteSet(S), \A h \in S : h \in Int,
           NEW time, \A h \in S : time[h] \in Int
    PROVE  /\ IsOrder(LaterThan(S, time), S)
           /\ IsSortedBy(InOrder(S, LAMBDA a, b : time[a] > time[b] \/ (time[a] = time[b] /\ a < b)),
                       LaterThan(S, time), S)
<1> DEFINE below == LaterThan(S, time)
           ordered == InOrder(S, LAMBDA a, b : time[a] > time[b] \/ (time[a] = time[b] /\ a < b))
           n == Cardinality(S)
<1>1. \A h \in S : below[h] = {x \in S : time[x] > time[h] \/ (time[x] = time[h] /\ x < h)}
  BY DEF LaterThan
<1>2. IsRanked(ordered, below, S)
  <2> DEFINE c(i) == CHOOSE s \in S :
                 Cardinality({t \in S : time[t] > time[s] \/ (time[t] = time[s] /\ t < s)}) = i - 1
  <2>1. ordered = [i \in 1 .. n |-> c(i)]
    BY DEF InOrder
  <2> HIDE DEF ordered, below
  <2>2. ASSUME NEW i \in 1 .. n, \E s \in S : Cardinality(below[s]) = i - 1
        PROVE  ordered[i] \in S /\ Cardinality(below[ordered[i]]) = i - 1
    <3>1. \E s \in S :
              Cardinality({t \in S : time[t] > time[s] \/ (time[t] = time[s] /\ t < s)}) = i - 1
      BY <1>1, <2>2
    <3>2. ordered[i] \in S /\ Cardinality({t \in S : \/ time[t] > time[ordered[i]]
                                 \/ (time[t] = time[ordered[i]] /\ t < ordered[i])}) = i - 1
      BY <2>1, <3>1
    <3> QED BY <1>1, <3>2
  <2>3. ordered = [i \in 1 .. n |-> ordered[i]]
    <3> HIDE DEF c
    <3> QED BY <2>1
  <2> QED BY <2>2, <2>3 DEF IsRanked
<1>3. IsOrder(below, S)
  <2>1. below \in [S -> SUBSET S] /\ \A x \in S : x \notin below[x]
    BY DEF LaterThan
  <2> HIDE DEF below
  <2>2. \A x, z \in S : x = z \/ x \in below[z] \/ z \in below[x]
    BY <1>1
  <2>3. ASSUME NEW x \in S, NEW z \in S, x \in below[z], NEW w \in below[x] PROVE w \in below[z]
    <3>1. time[x] \in Int /\ time[z] \in Int /\ time[w] \in Int /\ w \in S /\ w \in Int
      BY <1>1, <2>3
    <3>2. x \in Int /\ z \in Int
      OBVIOUS
    <3>3. time[x] > time[z] \/ (time[x] = time[z] /\ x < z)
      BY <1>1, <2>3
    <3>4. time[w] > time[x] \/ (time[w] = time[x] /\ w < x)
      BY <1>1, <2>3
    <3>5. time[w] > time[z] \/ (time[w] = time[z] /\ w < z)
      BY <3>1, <3>2, <3>3, <3>4
    <3> QED BY <1>1, <3>1, <3>5
  <2>4. \A x, z \in S : x \in below[z] => below[x] \subseteq below[z]
    BY <2>3
  <2> QED BY <2>1, <2>2, <2>4 DEF IsOrder
<1>4. IsSortedBy(ordered, below, S)
  <2> HIDE DEF below, ordered
  <2> QED BY <1>2, <1>3, Sorting
<1> QED BY <1>3, <1>4

(* No two commits have one row, and a commit is above its parents.         *)
LEMMA RowsDescend ==
    ASSUME NEW g, IsHistory(g)
    PROVE  LET y == computeYPositions(g)
           IN  /\ y \in [g.commits -> Nat]
               /\ \A h, x \in g.commits : y[h] = y[x] => h = x
               /\ \A h \in g.commits : \A p \in ParentsIn(g, h) : y[h] < y[p]
<1> DEFINE y == computeYPositions(g)
           et == EffectiveTime(g)
           S == g.commits
           below == LaterThan(S, et)
           ordered == InOrder(S, LAMBDA a, b : et[a] > et[b] \/ (et[a] = et[b] /\ a < b))
<1>1. et \in [S -> Int] /\ \A h \in S : \A p \in ParentsIn(g, h) : et[p] < et[h]
  BY EffectiveTimes
<1>2. IsFiniteSet(S) /\ \A h \in S : h \in Int
  BY DEF IsHistory
<1>4. y = [h \in S |-> Step * (CHOOSE i \in DOMAIN ordered : ordered[i] = h)]
  BY DEF computeYPositions
<1> HIDE DEF et, y
<1>5. IsOrder(below, S) /\ IsSortedBy(ordered, below, S)
  BY <1>1, <1>2, LatestFirst
<1>6. \A h \in S : below[h] = {x \in S : et[x] > et[h] \/ (et[x] = et[h] /\ x < h)}
  BY DEF LaterThan
<1>7. \A h \in S : \A p \in ParentsIn(g, h) : p \in S /\ h \in below[p]
  BY <1>1, <1>6 DEF ParentsIn
<1> DEFINE row == [h \in S |-> CHOOSE i \in DOMAIN ordered : ordered[i] = h]
<1> HIDE DEF ordered
<1>8. \A h \in S : row[h] \in DOMAIN ordered /\ row[h] \in Nat /\ ordered[row[h]] = h
  BY <1>2, <1>5, FS_CardinalityType DEF IsSortedBy
<1>9. y = [h \in S |-> 2 * row[h]]
  BY <1>4 DEF Step
<1> HIDE DEF row, below
<1>10. ASSUME NEW h \in S, NEW p \in ParentsIn(g, h) PROVE row[h] < row[p]
  <2>1. p \in S /\ h \in below[p]
    BY <1>7
  <2>2. row[p] < row[h] => p \in below[h]
    BY <1>5, <1>8, <2>1 DEF IsSortedBy
  <2>3. p \in below[h] => p \in below[p]
    BY <1>5, <2>1 DEF IsOrder
  <2>4. p # h
    BY <1>5, <2>1 DEF IsOrder
  <2> QED BY <1>5, <1>8, <2>1, <2>2, <2>3, <2>4 DEF IsOrder
<1>11. y \in [S -> Nat]
  BY <1>8, <1>9
<1>12. ASSUME NEW h \in S, NEW x \in S, y[h] = y[x] PROVE h = x
  <2>1. row[h] = row[x]
    BY <1>8, <1>9, <1>12
  <2> QED BY <1>8, <2>1
<1>13. ASSUME NEW h \in S, NEW p \in ParentsIn(g, h) PROVE y[h] < y[p]
  <2>1. row[h] < row[p] /\ p \in S
    BY <1>7, <1>10
  <2> QED BY <1>8, <1>9, <2>1
<1> QED BY <1>11, <1>12, <1>13 DEF y

-----------------------------------------------------------------------------
(* First-parent chains and connected parts.                                *)

IsWalk(walk, g, stop) ==
    walk = [h \in g.commits |->
               IF h \in stop THEN {}
               ELSE {h} \cup IF FirstParent(g, h) \in g.commits THEN walk[FirstParent(g, h)] ELSE {}]

LEMMA WalkExists ==
    ASSUME NEW g, IsHistory(g), NEW stop
    PROVE  \E walk : IsWalk(walk, g, stop)
<1> DEFINE Next1(A, h) == IF h \in stop THEN {}
               ELSE {h} \cup IF FirstParent(g, h) \in g.commits THEN A[FirstParent(g, h)] ELSE {}
           V == SUBSET g.commits
           G == [A \in [g.commits -> V] |-> [h \in g.commits |-> Next1(A, h)]]
<1>1. ASSUME NEW A \in [g.commits -> V], NEW h \in g.commits PROVE Next1(A, h) \in V
  <2>1. FirstParent(g, h) \in g.commits => A[FirstParent(g, h)] \in V
    OBVIOUS
  <2> QED BY <2>1
<1>2. ASSUME NEW A \in [g.commits -> V], NEW B \in [g.commits -> V], NEW h \in g.commits,
             \A p \in ParentsIn(g, h) : A[p] = B[p]
      PROVE  G[A][h] = G[B][h]
  <2>1. FirstParent(g, h) \in g.commits => A[FirstParent(g, h)] = B[FirstParent(g, h)]
    BY <1>2, ParentsAre
  <2>2. Next1(A, h) = Next1(B, h)
    BY <2>1
  <2>3. G[A][h] = Next1(A, h) /\ G[B][h] = Next1(B, h)
    OBVIOUS
  <2> HIDE DEF G, Next1
  <2> QED BY <2>2, <2>3
<1>3. \A A \in [g.commits -> V] : G[A] \in [g.commits -> V]
  <2> HIDE DEF Next1, V
  <2> QED BY <1>1
<1>4. DependsOnParents(G, g, V) /\ {} \in V
  <2> HIDE DEF G
  <2> QED BY <1>2, <1>3 DEF DependsOnParents
<1>5. PICK F \in [g.commits -> V] : G[F] = F
  <2> HIDE DEF G, V
  <2> QED BY <1>4, FixedPoint
<1>6. F = [h \in g.commits |-> Next1(F, h)]
  <2>1. G[F] = [h \in g.commits |-> Next1(F, h)]
    OBVIOUS
  <2> HIDE DEF G, Next1
  <2> QED BY <1>5, <2>1
<1>7. IsWalk(F, g, stop)
  BY <1>6 DEF IsWalk
<1> QED BY <1>7

(* Every set that holds the start of a chain, and with a commit those of   *)
(* the chain linked to it, holds the chain.                                *)
Closed(g, S, T) == \A x \in T, y \in S : Linked(g, x, y) => y \in T

LEMMA ChainsAreConnected ==
    ASSUME NEW g, IsHistory(g), NEW start, NEW stop
    PROVE  LET C == Chain(g, start, stop)
           IN  /\ C \subseteq g.commits \ stop
               /\ C # {} => start \in C
               /\ \A T : start \in T /\ Closed(g, C, T) => C \subseteq T
<1> DEFINE walk == CHOOSE w : IsWalk(w, g, stop)
<1>1. IsWalk(walk, g, stop)
  BY WalkExists
<1>2. Chain(g, start, stop) = IF start \in g.commits THEN walk[start] ELSE {}
  BY DEF Chain, IsWalk
<1> HIDE DEF walk
<1> DEFINE Good(h) == /\ walk[h] \subseteq g.commits \ stop
                      /\ walk[h] # {} => h \in walk[h]
                      /\ \A T : h \in T /\ Closed(g, walk[h], T) => walk[h] \subseteq T
           Goods == {h \in g.commits : Good(h)}
<1>3. ASSUME NEW h \in g.commits, ParentsIn(g, h) \subseteq Goods PROVE h \in Goods
  <2> DEFINE p == FirstParent(g, h)
  <2>1. walk[h] = IF h \in stop THEN {}
                  ELSE {h} \cup IF p \in g.commits THEN walk[p] ELSE {}
    BY <1>1 DEF IsWalk
  <2>2. p \in g.commits => p \in ParentsIn(g, h) /\ Good(p)
    <3> HIDE DEF Good
    <3> QED BY <1>3, ParentsAre
  <2>3. walk[h] \subseteq g.commits \ stop /\ (walk[h] # {} => h \in walk[h])
    BY <2>1, <2>2
  <2>4. ASSUME NEW T, h \in T, Closed(g, walk[h], T) PROVE walk[h] \subseteq T
    <3>1. CASE p \in g.commits /\ h \notin stop
      <4>1. walk[h] = {h} \cup walk[p]
        BY <2>1, <3>1
      <4>2. Closed(g, walk[p], T)
        BY <2>4, <4>1 DEF Closed
      <4>3. walk[p] # {} => p \in T
        <5>1. Linked(g, h, p)
          BY <2>2, <3>1 DEF Linked
        <5>2. walk[p] # {} => p \in walk[h]
          BY <2>2, <3>1, <4>1
        <5> QED BY <2>4, <5>1, <5>2 DEF Closed
      <4> QED BY <2>2, <2>4, <3>1, <4>1, <4>2, <4>3
    <3>2. CASE ~(p \in g.commits /\ h \notin stop)
      BY <2>1, <2>4, <3>2
    <3> QED BY <3>1, <3>2
  <2> QED BY <2>3, <2>4
<1>4. g.commits \subseteq Goods
  <2> HIDE DEF Goods
  <2> QED BY <1>3, AlongParents
<1> QED BY <1>2, <1>4 DEF Closed

(* The component of a commit: closed, the least that is, and one of any    *)
(* commit in it.                                                           *)
LEMMA ComponentsAre ==
    ASSUME NEW g, NEW S, NEW h \in S
    PROVE  LET C == Component(g, S, h)
           IN  /\ h \in C /\ C \subseteq S /\ Closed(g, S, C)
               /\ \A T : h \in T /\ Closed(g, S, T) => C \subseteq T
               /\ \A x \in C : Component(g, S, x) = C
<1> DEFINE Least(k, C) == /\ k \in C /\ C \subseteq S /\ Closed(g, S, C)
                          /\ \A T : k \in T /\ Closed(g, S, T) => C \subseteq T
<1>1. ASSUME NEW k \in S PROVE Least(k, Component(g, S, k))
  <2> DEFINE C == Component(g, S, k)
             closed == {T \in SUBSET S : k \in T /\ Closed(g, S, T)}
  <2>1. C = {x \in S : \A T \in closed : x \in T}
    BY DEF Component, Closed
  <2> HIDE DEF C
  <2>2. k \in C /\ C \subseteq S
    BY <2>1
  <2>3. Closed(g, S, C)
    <3>1. ASSUME NEW x \in C, NEW y \in S, Linked(g, x, y), NEW T \in closed PROVE y \in T
      <4>1. x \in T
        BY <2>1, <3>1
      <4> QED BY <3>1, <4>1 DEF Closed
    <3>2. \A x \in C, y \in S : Linked(g, x, y) => y \in C
      <4> HIDE DEF closed
      <4> QED BY <2>1, <3>1
    <3> QED BY <3>2 DEF Closed
  <2>4. ASSUME NEW T, k \in T, Closed(g, S, T) PROVE C \subseteq T
    <3>1. T \cap S \in closed
      BY <2>4 DEF Closed
    <3> HIDE DEF closed
    <3> QED BY <2>1, <3>1
  <2> QED BY <2>2, <2>3, <2>4 DEF C
<1> DEFINE C == Component(g, S, h)
<1>2. Least(h, C)
  BY <1>1
<1>3. ASSUME NEW x \in C PROVE Component(g, S, x) = C
  <2> DEFINE X == Component(g, S, x)
  <2>1. x \in S
    BY <1>2
  <2>2. Least(x, X)
    BY <1>1, <2>1
  <2> HIDE DEF C, X
  <2>3. X \subseteq C
    BY <1>2, <2>2
  <2>4. h \in X
    <3>1. Closed(g, S, S \ X)
      BY <2>2 DEF Closed, Linked
    <3>2. h \notin X => C \subseteq S \ X
      BY <1>2, <3>1
    <3>3. x \notin S \ X /\ x \in C
      BY <2>2
    <3> QED BY <3>2, <3>3
  <2>5. C \subseteq X
    BY <1>2, <2>2, <2>4
  <2> QED BY <2>3, <2>5 DEF X
<1> QED BY <1>2, <1>3

-----------------------------------------------------------------------------
(* The commits the branches own, and that they keep their lanes.           *)

LEMMA IsSequence ==
    ASSUME NEW n \in Nat, NEW f, f = [i \in 1 .. n |-> f[i]]
    PROVE  f \in Seq({f[i] : i \in 1 .. n}) /\ Len(f) = n
<1>1. f \in [1 .. n -> {f[i] : i \in 1 .. n}]
  OBVIOUS
<1>2. f \in Seq({f[i] : i \in 1 .. n})
  BY <1>1, SeqDef
<1> QED BY <1>1, <1>2

LEMMA ByNameIs ==
    ASSUME NEW S, IsFiniteSet(S)
    PROVE  \E X : ByName(S) \in Seq(X)
<1> DEFINE n == Cardinality(S)
           f == ByName(S)
           c(i) == CHOOSE s \in S : Cardinality({t \in S : NameLess(t.name, s.name)}) = i - 1
<1>1. n \in Nat
  BY FS_CardinalityType
<1>2. f = [i \in 1 .. n |-> c(i)]
  BY DEF ByName, InOrder
<1> HIDE DEF f, c
<1>3. f = [i \in 1 .. n |-> f[i]]
  BY <1>2
<1> HIDE DEF n
<1>4. f \in Seq({f[i] : i \in 1 .. n})
  BY <1>1, <1>3, IsSequence
<1> QED BY <1>4 DEF f

LEMMA PrioritizedIs ==
    ASSUME NEW g, IsHistory(g)
    PROVE  \E X : prioritizeBranches(g.branches) \in Seq(X)
<1>1. CASE g.branches = <<>>
  BY <1>1 DEF prioritizeBranches
<1>2. CASE g.branches # <<>>
  <2> DEFINE all == ToSet(g.branches)
  <2>1. PICK main : prioritizeBranches(g.branches) = <<main>> \o ByName(all \ {main})
    BY <1>2 DEF prioritizeBranches
  <2>2. IsFiniteSet(all)
    <3>1. g.branches \in Seq(all) /\ Len(g.branches) \in Nat
      BY DEF IsHistory
    <3>2. IsFiniteSet(DOMAIN g.branches)
      BY <3>1, FS_Interval
    <3>3. IsFiniteSet({g.branches[i] : i \in DOMAIN g.branches})
      BY <3>2, FiniteImage
    <3> QED BY <3>3 DEF ToSet
  <2>3. IsFiniteSet(all \ {main})
    BY <2>2, FS_Subset
  <2>4. PICK X : ByName(all \ {main}) \in Seq(X)
    BY <2>3, ByNameIs
  <2>5. ByName(all \ {main}) \in Seq(X \cup {main}) /\ <<main>> \in Seq(X \cup {main})
    BY <2>4
  <2>6. <<main>> \o ByName(all \ {main}) \in Seq(X \cup {main})
    BY <2>5
  <2> QED BY <2>1, <2>6
<1> QED BY <1>1, <1>2

(* An element from which all of Z is reached along links within Z.         *)
Rooted(g, Z) == Z # {} => \E start \in Z : \A T : start \in T /\ Closed(g, Z, T) => Z \subseteq T
Lanes(g) == UNION {[D -> Nat] : D \in SUBSET g.commits}
ZerosOf(lanes) == {h \in DOMAIN lanes : lanes[h] = 0}

LEMMA LanesAre ==
    ASSUME NEW g, NEW lanes \in Lanes(g), NEW C \in SUBSET g.commits, NEW n \in Nat
    PROVE  /\ DOMAIN lanes \subseteq g.commits /\ \A h \in DOMAIN lanes : lanes[h] \in Nat
           /\ Given(lanes, C, n) \in Lanes(g)
<1>1. PICK D \in SUBSET g.commits : lanes \in [D -> Nat]
  BY DEF Lanes
<1>2. Given(lanes, C, n) \in [D \cup C -> Nat] /\ D \cup C \in SUBSET g.commits
  BY <1>1 DEF Given
<1>3. Given(lanes, C, n) \in Lanes(g)
  BY <1>2 DEF Lanes
<1> QED BY <1>1, <1>3

LEMMA ClaimKeeps ==
    ASSUME NEW g, IsHistory(g), NEW N, NEW acc \in [lane : Lanes(g), names : Seq(N)],
           acc.names = <<>> => DOMAIN acc.lane = {}, Rooted(g, ZerosOf(acc.lane)),
           NEW branch, branch.name.label \in N
    PROVE  LET next == Claim(g, acc, branch)
           IN  /\ next \in [lane : Lanes(g), names : Seq(N)]
               /\ next.names = <<>> => DOMAIN next.lane = {}
               /\ Rooted(g, ZerosOf(next.lane))
<1> DEFINE chain == Chain(g, branch.hash, DOMAIN acc.lane)
           next == Claim(g, acc, branch)
           n == Len(acc.names)
           lanes == Given(acc.lane, chain, n)
<1>1. CASE chain = {}
  BY <1>1 DEF Claim
<1>2. CASE chain # {}
  <2>1. next = [lane |-> lanes, names |-> Append(acc.names, branch.name.label)]
    BY <1>2 DEF Claim
  <2>2. /\ chain \subseteq g.commits \ DOMAIN acc.lane /\ branch.hash \in chain
        /\ \A T : branch.hash \in T /\ Closed(g, chain, T) => chain \subseteq T
    BY <1>2, ChainsAreConnected
  <2>3. n \in Nat /\ (acc.names # <<>> => n # 0) /\ (acc.names = <<>> => n = 0)
    OBVIOUS
  <2>4. /\ lanes \in Lanes(g) /\ DOMAIN lanes = DOMAIN acc.lane \cup chain
        /\ \A h \in DOMAIN lanes : lanes[h] = IF h \in DOMAIN acc.lane THEN acc.lane[h] ELSE n
    <3>1. acc.lane \in Lanes(g) /\ chain \in SUBSET g.commits
      BY <2>2
    <3>2. DOMAIN lanes = DOMAIN acc.lane \cup chain
      BY <3>1, <2>3 DEF Given
    <3> DEFINE own == acc.lane
    <3> HIDE DEF n, chain, own
    <3>3. /\ Given(own, chain, n) \in Lanes(g)
          /\ \A h \in DOMAIN own \cup chain :
                 Given(own, chain, n)[h] = IF h \in DOMAIN own THEN own[h] ELSE n
      <4>1. own \in Lanes(g) /\ chain \in SUBSET g.commits /\ n \in Nat
        BY <3>1, <2>3 DEF own
      <4> HIDE DEF lanes
      <4>2. Given(own, chain, n) \in Lanes(g)
        BY <4>1, LanesAre
      <4>3. \A h \in DOMAIN own \cup chain :
                 Given(own, chain, n)[h] = IF h \in DOMAIN own THEN own[h] ELSE n
        BY DEF Given
      <4> QED BY <4>2, <4>3
    <3> QED BY <3>2, <3>3 DEF own
  <2> HIDE DEF chain, n, lanes, next
  <2>5. next \in [lane : Lanes(g), names : Seq(N)] /\ next.names # <<>>
    <3>1. Append(acc.names, branch.name.label) \in Seq(N)
      OBVIOUS
    <3>2. Append(acc.names, branch.name.label) # <<>>
      OBVIOUS
    <3> QED BY <2>1, <2>4, <3>1, <3>2
  <2>6. CASE acc.names = <<>>
    <3>1. ZerosOf(lanes) = chain
      BY <2>3, <2>4, <2>6 DEF ZerosOf
    <3>2. Rooted(g, ZerosOf(lanes))
      BY <2>2, <3>1 DEF Rooted
    <3> QED BY <2>1, <2>5, <3>2 DEF next
  <2>7. CASE acc.names # <<>>
    <3>1. ZerosOf(lanes) = ZerosOf(acc.lane)
      BY <2>3, <2>4, <2>7 DEF ZerosOf
    <3> QED BY <2>1, <2>5, <3>1 DEF next
  <2> QED BY <2>6, <2>7
<1> QED BY <1>1, <1>2

LEMMA OwnersAre ==
    ASSUME NEW g, IsHistory(g)
    PROVE  LET o == Owners(g)
           IN  /\ o.lane \in Lanes(g) /\ Len(o.names) \in Nat
               /\ Rooted(g, ZerosOf(o.lane))
<1> DEFINE order == prioritizeBranches(g.branches)
           n == Len(order)
           N == {order[i].name.label : i \in 1 .. n}
           Accs == {acc \in [lane : Lanes(g), names : Seq(N)] :
                       /\ acc.names = <<>> => DOMAIN acc.lane = {}
                       /\ Rooted(g, ZerosOf(acc.lane))}
           start == [lane |-> <<>>, names |-> <<>>]
           step == [i \in 1 .. n |-> [acc \in Accs |-> Claim(g, acc, order[i])]]
           IsClaiming(c) == c = [i \in 0 .. n |-> IF i = 0 THEN start ELSE Claim(g, c[i - 1], order[i])]
           claimed == CHOOSE c : IsClaiming(c)
<1>1. n \in Nat
  <2>1. PICK X : order \in Seq(X)
    BY PrioritizedIs
  <2> HIDE DEF order
  <2> QED BY <2>1
<1>2. Owners(g) = claimed[n]
  BY DEF Owners
<1> HIDE DEF order, n
<1>3. start \in Accs
  <2>1. <<>> \in Lanes(g)
    <3>1. <<>> \in [{} -> Nat] /\ {} \in SUBSET g.commits
      OBVIOUS
    <3> QED BY <3>1 DEF Lanes
  <2>2. ZerosOf(<<>>) = {}
    BY DEF ZerosOf
  <2> QED BY <2>1, <2>2 DEF Rooted
<1>4. ASSUME NEW acc \in Accs, NEW i \in 1 .. n PROVE Claim(g, acc, order[i]) \in Accs
  <2>1. order[i].name.label \in N
    OBVIOUS
  <2> HIDE DEF N
  <2> QED BY <2>1, ClaimKeeps
<1> HIDE DEF start, Accs
<1>5. PICK f : IsIteration(f, step, n, Accs, start)
  <2>1. Keeps(step, n, Accs)
    BY <1>4 DEF Keeps
  <2> HIDE DEF step
  <2> QED BY <1>1, <1>3, <2>1, Iterated
<1>6. IsClaiming(f)
  <2>1. \A i \in 0 .. n : f[i] = IF i = 0 THEN start ELSE Claim(g, f[i - 1], order[i])
    <3>1. ASSUME NEW i \in 1 .. n PROVE f[i] = Claim(g, f[i - 1], order[i])
      <4>1. i - 1 \in 0 .. n /\ f[i - 1] \in Accs
        BY <1>1, <1>5 DEF IsIteration
      <4> QED BY <1>5, <4>1 DEF IsIteration
    <3> QED BY <1>1, <1>5, <3>1 DEF IsIteration
  <2> QED BY <1>5, <2>1 DEF IsIteration
<1>7. IsClaiming(claimed)
  <2> HIDE DEF IsClaiming
  <2> QED BY <1>6
<1> HIDE DEF claimed
<1> DEFINE Q == {i \in Nat : i <= n => claimed[i] \in Accs}
<1>8. 0 \in Q
  BY <1>1, <1>3, <1>7
<1>9. ASSUME NEW i \in Q PROVE i + 1 \in Q
  <2>1. i + 1 <= n => claimed[i + 1] = Claim(g, claimed[i], order[i + 1]) /\ i + 1 \in 1 .. n
    BY <1>1, <1>7
  <2> QED BY <1>1, <1>4, <2>1
<1>10. n \in Q
  <2> HIDE DEF Q
  <2>1. \A i \in Q : i + 1 \in Q
    BY <1>9
  <2>2. Q \in SUBSET Nat
    BY DEF Q
  <2> QED BY <1>1, <1>8, <2>1, <2>2, FromZeroOn
<1>11. Owners(g) \in Accs
  BY <1>1, <1>2, <1>10
<1> QED BY <1>11 DEF Accs

(* Lanes that are given stay.                                              *)
Extends(lanes, before) == /\ DOMAIN before \subseteq DOMAIN lanes
                          /\ \A h \in DOMAIN before : lanes[h] = before[h]

LEMMA GivenExtends ==
    ASSUME NEW lanes, NEW S, NEW lane
    PROVE  Extends(Given(lanes, S, lane), lanes)
BY DEF Given, Extends

LEMMA ExpectExtends ==
    ASSUME NEW g, NEW own, NEW acc, NEW p
    PROVE  Extends(ExpectMergeParent(g, own, acc, p).lane, acc.lane)
<1>1. Extends(acc.lane, acc.lane)
  BY DEF Extends
<1> DEFINE skipped == p \notin g.commits \/ p \in DOMAIN own \/ p \in ToSet(acc.active)
<1>2. CASE skipped
  BY <1>1, <1>2 DEF ExpectMergeParent
<1>3. CASE ~skipped
  <2> DEFINE lane == findFreeLane(acc.active, AvoidLanes(g, own, p))
             chain == Chain(g, p, DOMAIN own \cup DOMAIN acc.lane)
  <2>1. ExpectMergeParent(g, own, acc, p) =
            [lane |-> Given(acc.lane, chain, lane), active |-> Expect(acc.active, lane, p)]
    BY <1>3 DEF ExpectMergeParent
  <2> HIDE DEF lane, chain
  <2> QED BY <2>1, GivenExtends
<1> QED BY <1>2, <1>3

LEMMA ExtendsFurther ==
    ASSUME NEW a, NEW b, NEW c, Extends(a, b), Extends(b, c)
    PROVE  Extends(a, c)
BY DEF Extends

IsExpecting(f, g, own, placing, parents, n) ==
    f = [i \in 1 .. n |-> IF i = 1 THEN placing ELSE ExpectMergeParent(g, own, f[i - 1], parents[i])]

LEMMA ExpectingExists ==
    ASSUME NEW g, NEW own, NEW placing, NEW parents, NEW n \in Nat
    PROVE  \E f : IsExpecting(f, g, own, placing, parents, n)
<1> DEFINE Q == {m \in Nat : \E f : IsExpecting(f, g, own, placing, parents, m)}
<1>1. 0 \in Q
  <2>1. IsExpecting([i \in 1 .. 0 |-> placing], g, own, placing, parents, 0)
    BY DEF IsExpecting
  <2> QED BY <2>1
<1>2. ASSUME NEW m \in Q PROVE m + 1 \in Q
  <2>1. PICK f : IsExpecting(f, g, own, placing, parents, m)
    BY <1>2
  <2> DEFINE h == [i \in 1 .. m + 1 |-> IF i <= m THEN f[i]
                                         ELSE IF i = 1 THEN placing
                                         ELSE ExpectMergeParent(g, own, f[m], parents[i])]
  <2>2. ASSUME NEW i \in 1 .. m + 1
        PROVE  h[i] = IF i = 1 THEN placing ELSE ExpectMergeParent(g, own, h[i - 1], parents[i])
    <3>1. i # 1 => h[i - 1] = f[i - 1]
      OBVIOUS
    <3>2. CASE i <= m
      <4>1. i \in 1 .. m
        BY <3>2
      <4>2. f[i] = IF i = 1 THEN placing ELSE ExpectMergeParent(g, own, f[i - 1], parents[i])
        BY <2>1, <4>1 DEF IsExpecting
      <4>3. h[i] = f[i]
        BY <3>2
      <4> HIDE DEF h
      <4> QED BY <3>1, <4>2, <4>3
    <3>3. CASE i = m + 1
      <4>1. h[i] = IF i = 1 THEN placing ELSE ExpectMergeParent(g, own, f[m], parents[i])
        BY <3>3
      <4>2. i # 1 => h[i - 1] = f[m]
        BY <3>1, <3>3
      <4> HIDE DEF h
      <4> QED BY <4>1, <4>2
    <3> QED BY <3>2, <3>3
  <2>3. h = [i \in 1 .. m + 1 |-> h[i]]
    OBVIOUS
  <2>4. IsExpecting(h, g, own, placing, parents, m + 1)
    <3> HIDE DEF h
    <3> QED BY <2>2, <2>3 DEF IsExpecting
  <2> HIDE DEF h
  <2> QED BY <2>4
<1>3. n \in Q
  <2> HIDE DEF Q
  <2>1. \A m \in Q : m + 1 \in Q
    BY <1>2
  <2>2. Q \in SUBSET Nat
    BY DEF Q
  <2> QED BY <1>1, <2>1, <2>2, FromZeroOn
<1> QED BY <1>3

LEMMA PlaceExtends ==
    ASSUME NEW g, IsHistory(g), NEW own, NEW acc, NEW h \in g.commits
    PROVE  Extends(PlaceCommit(g, own, acc, h).lane, acc.lane)
<1> DEFINE parents == g.parents[h]
           n == Len(parents)
           next == PlaceCommit(g, own, acc, h)
<1>1. n \in Nat /\ (parents # <<>> => n \in 1 .. n)
  BY DEF IsHistory
<1> DEFINE stashLane == h \in StashesIn(g) /\ FirstParent(g, h) \in DOMAIN own
           expecting == {i \in 0 .. Len(acc.active) - 1 :
                            acc.active[i + 1] = h /\ i \notin AvoidLanes(g, own, h)}
           lane == IF h \in DOMAIN acc.lane THEN acc.lane[h]
                   ELSE IF stashLane THEN own[FirstParent(g, h)]
                   ELSE IF expecting # {} THEN Min(expecting)
                   ELSE findFreeLane(acc.active, AvoidLanes(g, own, h))
           fp == FirstParent(g, h)
           keeps == (h \in DOMAIN own /\ own[h] = lane) \/ fp \notin DOMAIN own \/ own[fp] = lane
           converged == [i \in DOMAIN acc.active |->
                            IF i # lane + 1 /\ acc.active[i] = h THEN NoCommit ELSE acc.active[i]]
           active == Expect(converged, lane, IF keeps THEN fp ELSE NoCommit)
           placing == [lane |-> Given(acc.lane, {h}, lane), active |-> active]
           f == CHOOSE f : IsExpecting(f, g, own, placing, parents, n)
<1>2. next = IF parents = <<>> THEN placing ELSE f[n]
  BY DEF PlaceCommit, IsExpecting
<1> HIDE DEF lane, active
<1>3. Extends(placing.lane, acc.lane)
  BY GivenExtends
<1> HIDE DEF placing, next, n, parents
<1>5. IsExpecting(f, g, own, placing, parents, n)
  <2>1. \E c : IsExpecting(c, g, own, placing, parents, n)
    BY <1>1, ExpectingExists
  <2> QED BY <2>1
<1> HIDE DEF f
<1> DEFINE Q == {i \in Nat : i + 1 \in 1 .. n => Extends(f[i + 1].lane, acc.lane)}
<1>6. 0 \in Q
  BY <1>3, <1>5 DEF IsExpecting
<1>7. ASSUME NEW i \in Q PROVE i + 1 \in Q
  <2>1. ASSUME (i + 1) + 1 \in 1 .. n PROVE Extends(f[(i + 1) + 1].lane, acc.lane)
    <3>1. i + 1 \in 1 .. n
      BY <1>1, <2>1
    <3>2. Extends(f[i + 1].lane, acc.lane)
      BY <1>7, <3>1
    <3>3. ((i + 1) + 1) - 1 = i + 1 /\ (i + 1) + 1 # 1
      OBVIOUS
    <3>4. f[(i + 1) + 1] = ExpectMergeParent(g, own, f[i + 1], parents[(i + 1) + 1])
      BY <1>5, <2>1, <3>3 DEF IsExpecting
    <3> QED BY <3>2, <3>4, ExpectExtends, ExtendsFurther
  <2> QED BY <2>1
<1>8. \A i \in Nat : i \in Q
  <2> HIDE DEF Q
  <2>1. \A i \in Q : i + 1 \in Q
    BY <1>7
  <2>2. Q \in SUBSET Nat
    BY DEF Q
  <2> QED BY <1>6, <2>1, <2>2, FromZeroOn
<1>9. parents # <<>> => Extends(f[n].lane, acc.lane)
  <2>1. parents # <<>> => n - 1 \in Nat /\ (n - 1) + 1 = n /\ n \in 1 .. n
    BY <1>1
  <2> QED BY <1>8, <2>1
<1> QED BY <1>2, <1>3, <1>9 DEF next

IsPlacing(f, g, own, start, order) ==
    f = [i \in 0 .. Len(order) |->
            IF i = 0 THEN start ELSE PlaceCommit(g, own, f[i - 1], order[i])]

LEMMA PlacingExists ==
    ASSUME NEW g, NEW own, NEW start, NEW order, Len(order) \in Nat
    PROVE  \E f : IsPlacing(f, g, own, start, order)
<1> DEFINE Upto(f, m) == f = [i \in 0 .. m |->
                IF i = 0 THEN start ELSE PlaceCommit(g, own, f[i - 1], order[i])]
           Q == {m \in Nat : \E f : Upto(f, m)}
<1>1. 0 \in Q
  <2>1. Upto([i \in 0 .. 0 |-> start], 0)
    OBVIOUS
  <2> QED BY <2>1
<1>2. ASSUME NEW m \in Q PROVE m + 1 \in Q
  <2>1. PICK f : Upto(f, m)
    BY <1>2
  <2> DEFINE h == [i \in 0 .. m + 1 |-> IF i <= m THEN f[i]
                                         ELSE PlaceCommit(g, own, f[m], order[i])]
  <2>2. ASSUME NEW i \in 0 .. m + 1
        PROVE  h[i] = IF i = 0 THEN start ELSE PlaceCommit(g, own, h[i - 1], order[i])
    <3>1. i # 0 => h[i - 1] = f[i - 1]
      OBVIOUS
    <3>2. CASE i <= m
      <4>1. i \in 0 .. m
        BY <3>2
      <4>2. f[i] = IF i = 0 THEN start ELSE PlaceCommit(g, own, f[i - 1], order[i])
        BY <2>1, <4>1
      <4>3. h[i] = f[i]
        BY <3>2
      <4> HIDE DEF h
      <4> QED BY <3>1, <4>2, <4>3
    <3>3. CASE i = m + 1
      <4>1. h[i] = PlaceCommit(g, own, f[m], order[i]) /\ i # 0
        BY <3>3
      <4>2. h[i - 1] = f[m]
        BY <3>1, <3>3
      <4> HIDE DEF h
      <4> QED BY <4>1, <4>2
    <3> QED BY <3>2, <3>3
  <2>3. h = [i \in 0 .. m + 1 |-> h[i]]
    OBVIOUS
  <2>4. Upto(h, m + 1)
    <3> HIDE DEF h
    <3> QED BY <2>2, <2>3
  <2> HIDE DEF h, Upto
  <2> QED BY <2>4
<1>3. Len(order) \in Q
  <2> HIDE DEF Q
  <2>1. \A m \in Q : m + 1 \in Q
    BY <1>2
  <2>2. Q \in SUBSET Nat
    BY DEF Q
  <2> QED BY <1>1, <2>1, <2>2, FromZeroOn
<1>4. PICK f : Upto(f, Len(order))
  BY <1>3
<1>5. IsPlacing(f, g, own, start, order)
  BY <1>4 DEF IsPlacing
<1> QED BY <1>5

LEMMA LanesExtendOwned ==
    ASSUME NEW g, IsHistory(g)
    PROVE  /\ Extends(assignLanes(g).lane, Owners(g).lane)
           /\ assignLanes(g).own = Owners(g).lane
<1> DEFINE o == Owners(g)
           order == NewestFirst(g)
           start == [lane |-> o.lane, active |-> [i \in 1 .. Len(o.names) |-> NoCommit]]
           f == CHOOSE f : IsPlacing(f, g, o.lane, start, order)
           n == Len(order)
<1>1. assignLanes(g) = [lane |-> f[n].lane, own |-> o.lane, owners |-> o.names]
  BY DEF assignLanes, IsPlacing
<1>2. order \in Seq(g.commits) /\ n \in Nat
  <2>1. IsSortedBy(order, LaterThan(g.commits, g.time), g.commits)
    <3> DEFINE S == g.commits
               time == g.time
    <3>1. IsFiniteSet(S) /\ (\A h \in S : h \in Int) /\ \A h \in S : time[h] \in Int
      BY DEF IsHistory
    <3>2. order = InOrder(S, LAMBDA a, b : time[a] > time[b] \/ (time[a] = time[b] /\ a < b))
      BY DEF NewestFirst
    <3> HIDE DEF S, time, order
    <3>3. IsSortedBy(order, LaterThan(S, time), S)
      BY <3>1, <3>2, LatestFirst
    <3> QED BY <3>3 DEF S, time
  <2> HIDE DEF order
  <2> QED BY <2>1 DEF IsSortedBy
<1>3. Extends(start.lane, o.lane)
  BY DEF Extends
<1> HIDE DEF start, order, o
<1>4. IsPlacing(f, g, o.lane, start, order)
  <2>1. \E c : IsPlacing(c, g, o.lane, start, order)
    BY <1>2, PlacingExists
  <2> QED BY <2>1
<1> HIDE DEF f
<1> DEFINE Q == {i \in Nat : i <= n => Extends(f[i].lane, o.lane)}
<1>5. 0 \in Q
  BY <1>2, <1>3, <1>4 DEF IsPlacing
<1>6. ASSUME NEW i \in Q PROVE i + 1 \in Q
  <2>1. ASSUME i + 1 <= n PROVE Extends(f[i + 1].lane, o.lane)
    <3>1. i + 1 \in 0 .. n /\ (i + 1) - 1 = i /\ i + 1 # 0 /\ i <= n /\ i + 1 \in 1 .. n
      BY <1>2, <2>1
    <3>2. Extends(f[i].lane, o.lane)
      BY <1>6, <3>1
    <3>3. f[i + 1] = PlaceCommit(g, o.lane, f[i], order[i + 1])
      BY <1>4, <3>1 DEF IsPlacing
    <3>4. order[i + 1] \in g.commits
      BY <1>2, <3>1
    <3> QED BY <3>2, <3>3, <3>4, PlaceExtends, ExtendsFurther
  <2> QED BY <2>1
<1>7. \A i \in Nat : i \in Q
  <2> HIDE DEF Q
  <2>1. \A i \in Q : i + 1 \in Q
    BY <1>6
  <2>2. Q \in SUBSET Nat
    BY DEF Q
  <2> QED BY <1>5, <2>1, <2>2, FromZeroOn
<1>8. Extends(f[n].lane, o.lane)
  BY <1>2, <1>7
<1> QED BY <1>1, <1>8 DEF o

-----------------------------------------------------------------------------
(* The segments of a graph.                                                *)

InLane(g, a, h) == {x \in g.commits : a.lane[x] = a.lane[h]}
PartOf(g, a, h) == Component(g, InLane(g, a, h), h)

IsSegment(s) ==
    s = [id |-> s.id, hashes |-> s.hashes, lane |-> s.lane, isMain |-> s.isMain,
         minY |-> s.minY, maxY |-> s.maxY, extMinY |-> s.extMinY, extMaxY |-> s.extMaxY,
         label |-> s.label, position |-> s.position]

(* What a segment says of the rows of its commits.                         *)
SegmentFits(s, g, y) ==
    /\ IsSegment(s)
    /\ s.hashes \subseteq g.commits /\ s.id \in s.hashes
    /\ s.minY \in Int /\ s.maxY \in Int /\ s.extMinY \in Int /\ s.extMaxY \in Int
    /\ s.minY = y[s.id]
    /\ \A h \in s.hashes : s.minY <= y[h] /\ y[h] <= s.maxY
    /\ s.isMain \in BOOLEAN

LEMMA PartsAre ==
    ASSUME NEW g, NEW a, NEW h \in g.commits
    PROVE  /\ h \in PartOf(g, a, h) /\ PartOf(g, a, h) \subseteq InLane(g, a, h)
           /\ InLane(g, a, h) \subseteq g.commits
           /\ \A x \in PartOf(g, a, h) : PartOf(g, a, x) = PartOf(g, a, h)
<1> DEFINE S == InLane(g, a, h)
<1>1. h \in S /\ S \subseteq g.commits
  BY DEF InLane
<1>2. \A x \in S : InLane(g, a, x) = S
  BY DEF InLane
<1> HIDE DEF S
<1>3. /\ h \in Component(g, S, h) /\ Component(g, S, h) \subseteq S
      /\ \A x \in Component(g, S, h) : Component(g, S, x) = Component(g, S, h)
  BY <1>1, ComponentsAre
<1>4. PartOf(g, a, h) = Component(g, S, h)
  BY DEF PartOf, S
<1>5. \A x \in S : PartOf(g, a, x) = Component(g, S, x)
  BY <1>2 DEF PartOf
<1> QED BY <1>1, <1>3, <1>4, <1>5 DEF S

LEMMA SegmentIs ==
    ASSUME NEW g, IsHistory(g), NEW a, NEW h \in g.commits
    PROVE  LET s == Segment(g, a, computeYPositions(g), PartOf(g, a, h))
           IN  /\ SegmentFits(s, g, computeYPositions(g))
               /\ s.hashes = PartOf(g, a, h) /\ s.position = 0
               /\ s.isMain => /\ \E z \in s.hashes : z \in DOMAIN a.own /\ a.own[z] = 0
<1> DEFINE y == computeYPositions(g)
           C == PartOf(g, a, h)
           s == Segment(g, a, y, C)
           Ys(T) == {y[x] : x \in T}
           links == {x \in g.commits : \E z \in C : Linked(g, x, z)}
           ownsLane == \E z \in C : z \in DOMAIN a.own /\ a.own[z] = s.lane
<1>1. y \in [g.commits -> Nat] /\ \A x, z \in g.commits : y[x] = y[z] => x = z
  BY RowsDescend
<1>2. C # {} /\ C \subseteq g.commits /\ IsFiniteSet(g.commits)
  BY PartsAre DEF IsHistory
<1>3. /\ s = [id |-> s.id, hashes |-> s.hashes, lane |-> s.lane, isMain |-> s.isMain,
              minY |-> s.minY, maxY |-> s.maxY, extMinY |-> s.extMinY, extMaxY |-> s.extMaxY,
              label |-> s.label, position |-> s.position]
      /\ s.id = CHOOSE x \in C : \A z \in C : y[x] <= y[z]
      /\ s.hashes = C /\ s.isMain = (s.lane = 0 /\ ownsLane) /\ s.position = 0
      /\ s.minY = Min(Ys(C)) /\ s.maxY = Max(Ys(C))
      /\ s.extMinY = Min(Ys(C \cup links)) /\ s.extMaxY = Max(Ys(C \cup links))
  BY DEF Segment
<1> HIDE DEF s, y, C
<1>4. ASSUME NEW T \in SUBSET g.commits, T # {}
      PROVE  /\ Min(Ys(T)) \in Ys(T) /\ \A x \in T : Min(Ys(T)) <= y[x]
             /\ Max(Ys(T)) \in Ys(T) /\ \A x \in T : y[x] <= Max(Ys(T))
             /\ Ys(T) \subseteq Int
  <2>1. IsFiniteSet(T)
    BY <1>2, FS_Subset
  <2>2. IsFiniteSet(Ys(T)) /\ Ys(T) # {} /\ Ys(T) \in SUBSET Int
    BY <1>1, <1>4, <2>1, FiniteImage
  <2>3. \A x \in T : y[x] \in Ys(T)
    OBVIOUS
  <2> HIDE DEF Ys
  <2> QED BY <2>2, <2>3, MinMaxOf
<1> HIDE DEF Ys
<1>5. /\ s.minY \in Ys(C) /\ \A x \in C : s.minY <= y[x] /\ y[x] <= s.maxY
      /\ s.minY \in Int /\ s.maxY \in Int /\ s.extMinY \in Int /\ s.extMaxY \in Int
  <2>1. C \in SUBSET g.commits /\ C \cup links \in SUBSET g.commits /\ C \cup links # {}
    BY <1>2
  <2> HIDE DEF links
  <2> QED BY <1>2, <1>3, <1>4, <2>1
<1>6. s.id \in C /\ s.minY = y[s.id]
  <2>1. PICK x \in C : y[x] = s.minY
    BY <1>5 DEF Ys
  <2>2. \A z \in C : y[x] <= y[z]
    BY <1>5, <2>1
  <2>3. s.id \in C /\ \A z \in C : y[s.id] <= y[z]
    BY <1>3, <2>2
  <2>4. y[s.id] <= y[x] /\ y[x] <= y[s.id] /\ y[x] \in Int /\ y[s.id] \in Int
    BY <1>1, <1>2, <2>2, <2>3
  <2> QED BY <2>1, <2>3, <2>4
<1>7. SegmentFits(s, g, y) /\ s.hashes = C
  BY <1>2, <1>3, <1>5, <1>6 DEF SegmentFits, IsSegment
<1>8. s.isMain => \E z \in s.hashes : z \in DOMAIN a.own /\ a.own[z] = 0
  BY <1>3
<1> QED BY <1>3, <1>7, <1>8 DEF s, y, C

(* Only one segment has commits of the main branch.                        *)
LEMMA OneMainPart ==
    ASSUME NEW g, IsHistory(g), NEW h \in g.commits, NEW x \in g.commits,
           NEW z \in PartOf(g, assignLanes(g), h), NEW w \in PartOf(g, assignLanes(g), x),
           z \in DOMAIN Owners(g).lane, Owners(g).lane[z] = 0,
           w \in DOMAIN Owners(g).lane, Owners(g).lane[w] = 0
    PROVE  PartOf(g, assignLanes(g), h) = PartOf(g, assignLanes(g), x)
<1> DEFINE a == assignLanes(g)
           own == Owners(g).lane
           Z == ZerosOf(own)
           S == InLane(g, a, z)
<1>1. Rooted(g, Z) /\ own \in Lanes(g)
  BY OwnersAre
<1>2. Extends(a.lane, own)
  BY LanesExtendOwned
<1>3. DOMAIN own \subseteq g.commits /\ z \in Z /\ w \in Z
  BY <1>1 DEF Lanes, ZerosOf
<1> HIDE DEF a, own
<1>4. a.lane[z] = 0 /\ Z \subseteq S
  BY <1>2, <1>3 DEF Extends, ZerosOf, InLane
<1>5. PICK start \in Z : \A T : start \in T /\ Closed(g, Z, T) => Z \subseteq T
  BY <1>1, <1>3 DEF Rooted
<1> DEFINE P == PartOf(g, a, start)
<1>6. start \in g.commits /\ InLane(g, a, start) = S
  BY <1>3, <1>4, <1>5 DEF ZerosOf, InLane
<1>7. P = Component(g, S, start) /\ start \in S
  BY <1>4, <1>6 DEF PartOf
<1>8. start \in P /\ Closed(g, S, P)
  <2> HIDE DEF S, P
  <2> QED BY <1>7, ComponentsAre
<1>9. Closed(g, Z, P)
  <2> HIDE DEF S, P, Z
  <2> QED BY <1>4, <1>8 DEF Closed
<1>10. z \in P /\ w \in P
  <2> HIDE DEF S, P, Z
  <2> QED BY <1>3, <1>5, <1>8, <1>9
<1>11. PartOf(g, a, z) = P /\ PartOf(g, a, w) = P
  BY <1>6, <1>10, PartsAre
<1>12. PartOf(g, a, z) = PartOf(g, a, h) /\ PartOf(g, a, w) = PartOf(g, a, x)
  BY PartsAre DEF a
<1> QED BY <1>11, <1>12 DEF a

(* The sequence of the segments: each commit is in one, one may be main.   *)
IsLayout(segs, g) ==
    /\ segs \in Seq(ToSet(segs))
    /\ \A i \in DOMAIN segs : SegmentFits(segs[i], g, computeYPositions(g))
    /\ \A h \in g.commits : \E i \in DOMAIN segs : h \in segs[i].hashes
    /\ \A i, j \in DOMAIN segs : \A h \in g.commits :
           h \in segs[i].hashes /\ h \in segs[j].hashes => i = j
    /\ \A i, j \in DOMAIN segs : segs[i].isMain /\ segs[j].isMain => i = j

LEMMA SegmentsAre ==
    ASSUME NEW g, IsHistory(g)
    PROVE  /\ IsLayout(buildSegments(g), g)
           /\ \A i \in DOMAIN buildSegments(g) : buildSegments(g)[i].position = 0
<1> DEFINE y == computeYPositions(g)
           a == assignLanes(g)
           Of(h) == Segment(g, a, y, PartOf(g, a, h))
           S == Segments(g, a, y)
           n == Cardinality(S)
           segs == buildSegments(g)
           below == [s \in S |-> {t \in S : t.minY < s.minY}]
<1>1. S = {Of(h) : h \in g.commits}
  BY DEF Segments, PartOf, InLane
<1>2. \A x, z \in g.commits : y[x] = y[z] => x = z
  BY RowsDescend
<1>3. ASSUME NEW h \in g.commits
      PROVE  /\ SegmentFits(Of(h), g, y) /\ Of(h).hashes = PartOf(g, a, h)
             /\ h \in Of(h).hashes /\ Of(h).position = 0
             /\ Of(h).isMain => \E z \in Of(h).hashes : z \in DOMAIN a.own /\ a.own[z] = 0
             /\ \A x \in Of(h).hashes : x \in g.commits /\ Of(x) = Of(h)
  <2>1. /\ SegmentFits(Of(h), g, y) /\ Of(h).hashes = PartOf(g, a, h) /\ Of(h).position = 0
        /\ Of(h).isMain => \E z \in Of(h).hashes : z \in DOMAIN a.own /\ a.own[z] = 0
    BY SegmentIs
  <2>2. h \in PartOf(g, a, h) /\ \A x \in PartOf(g, a, h) : x \in g.commits /\ PartOf(g, a, x) = PartOf(g, a, h)
    BY PartsAre
  <2>3. \A x \in PartOf(g, a, h) : Of(x) = Of(h)
    BY <2>2
  <2> HIDE DEF Of, a, y
  <2> QED BY <2>1, <2>2, <2>3
<1>4. IsFiniteSet(S)
  <2>1. IsFiniteSet(g.commits)
    BY DEF IsHistory
  <2> DEFINE of == [h \in g.commits |-> Of(h)]
  <2>2. {Of(h) : h \in g.commits} = {of[h] : h \in g.commits}
    OBVIOUS
  <2> HIDE DEF of, S, Of
  <2> QED BY <1>1, <2>1, <2>2, FiniteImage
<1>5. segs = InOrder(S, LAMBDA s, t : s.minY < t.minY)
  BY DEF buildSegments
<1>6. a.own = Owners(g).lane
  BY LanesExtendOwned
<1> HIDE DEF y, a, Of, S, segs
<1>7. ASSUME NEW s \in S, NEW t \in S, NEW h \in g.commits, h \in s.hashes, h \in t.hashes
      PROVE  s = t
  BY <1>1, <1>3, <1>7
<1>8. ASSUME NEW s \in S, NEW t \in S, s.minY = t.minY PROVE s = t
  <2>1. SegmentFits(s, g, y) /\ SegmentFits(t, g, y)
    BY <1>1, <1>3
  <2>2. s.id \in g.commits /\ t.id \in g.commits /\ y[s.id] = y[t.id] /\ s.id \in s.hashes /\ t.id \in t.hashes
    BY <1>8, <2>1 DEF SegmentFits
  <2> QED BY <1>2, <1>7, <2>2
<1>9. ASSUME NEW s \in S, NEW t \in S, s.isMain, t.isMain PROVE s = t
  <2>1. PICK h \in g.commits, x \in g.commits : s = Of(h) /\ t = Of(x)
    BY <1>1
  <2>2. PICK z \in s.hashes, w \in t.hashes :
            z \in DOMAIN a.own /\ a.own[z] = 0 /\ w \in DOMAIN a.own /\ a.own[w] = 0
    BY <1>3, <1>9, <2>1
  <2>3. z \in PartOf(g, a, h) /\ w \in PartOf(g, a, x)
    BY <1>3, <2>1, <2>2
  <2>4. PartOf(g, a, h) = PartOf(g, a, x)
    BY <1>6, <2>2, <2>3, OneMainPart DEF a
  <2> QED BY <2>1, <2>4 DEF Of
<1>10. \A s \in S : s.minY \in Int
  BY <1>1, <1>3 DEF SegmentFits
<1>11. IsOrder(below, S)
  BY <1>8, <1>10 DEF IsOrder
<1>12. IsRanked(segs, below, S)
  <2> DEFINE c(i) == CHOOSE s \in S : Cardinality({t \in S : t.minY < s.minY}) = i - 1
  <2>1. segs = [i \in 1 .. n |-> c(i)]
    BY <1>5 DEF InOrder
  <2>2. \A s \in S : below[s] = {t \in S : t.minY < s.minY}
    OBVIOUS
  <2> HIDE DEF below
  <2>3. ASSUME NEW i \in 1 .. n, \E s \in S : Cardinality(below[s]) = i - 1
        PROVE  segs[i] \in S /\ Cardinality(below[segs[i]]) = i - 1
    <3>1. \E s \in S : Cardinality({t \in S : t.minY < s.minY}) = i - 1
      BY <2>2, <2>3
    <3>2. segs[i] \in S /\ Cardinality({t \in S : t.minY < segs[i].minY}) = i - 1
      BY <2>1, <3>1
    <3> QED BY <2>2, <3>2
  <2>4. segs = [i \in 1 .. n |-> segs[i]]
    <3> HIDE DEF c
    <3> QED BY <2>1
  <2> QED BY <2>3, <2>4 DEF IsRanked
<1>13. IsSortedBy(segs, below, S)
  <2> HIDE DEF below
  <2> QED BY <1>4, <1>11, <1>12, Sorting
<1> HIDE DEF below
<1>14. /\ segs \in Seq(S) /\ \A i \in DOMAIN segs : segs[i] \in S
       /\ \A i, j \in DOMAIN segs : segs[i] = segs[j] => i = j
       /\ \A s \in S : \E i \in DOMAIN segs : segs[i] = s
  <2>1. DOMAIN segs = 1 .. n /\ n \in Nat
    BY <1>4, <1>13, FS_CardinalityType DEF IsSortedBy
  <2>2. \A i, j \in DOMAIN segs : segs[i] = segs[j] => i = j
    BY <1>13, <2>1 DEF IsSortedBy
  <2>3. segs \in Seq(S) /\ \A s \in S : \E i \in DOMAIN segs : segs[i] = s
    BY <1>13 DEF IsSortedBy
  <2>4. \A i \in DOMAIN segs : segs[i] \in S
    BY <2>3
  <2> QED BY <2>2, <2>3, <2>4
<1>15. segs \in Seq(ToSet(segs))
  BY <1>14 DEF ToSet
<1>16. \A h \in g.commits : \E i \in DOMAIN segs : h \in segs[i].hashes
  BY <1>1, <1>3, <1>14
<1>17. \A i \in DOMAIN segs : SegmentFits(segs[i], g, y) /\ segs[i].position = 0
  BY <1>1, <1>3, <1>14
<1> QED BY <1>7, <1>9, <1>14, <1>15, <1>16, <1>17 DEF IsLayout, segs, y

-----------------------------------------------------------------------------
(* Pushing: nothing comes to overlap what it did not overlap before.       *)

Places(segs) == [DOMAIN segs -> Int]
PushFcns(segs) == [DOMAIN segs -> [Places(segs) -> Places(segs)]]

(* a is further out than b in direction d.                                 *)
Further(d, a, b) == IF d = 1 THEN a > b ELSE a < b

Overlap(segs, i, j) == segmentsOverlapY(segs[i], segs[j])
Meet(segs, at, i, j) == at[i] = at[j] /\ Overlap(segs, i, j)
MainsHome(segs, at) == \A i \in DOMAIN segs : segs[i].isMain => at[i] = 0
Outside(segs, d, at, q) == {x \in DOMAIN segs : Further(d, at[x], q)}

Laid(segs) == /\ segs \in Seq(ToSet(segs))
              /\ \A i \in DOMAIN segs : segs[i].isMain \in BOOLEAN

(* What pushing segment k does to the places.                              *)
Pushed(segs, d, at, r, k) ==
    /\ r \in Places(segs)
    /\ r[k] = Candidate(at[k], d)
    /\ \A j \in DOMAIN segs \ {k} :
           \/ r[j] = at[j]
           \/ ~segs[j].isMain /\ Further(d, at[j], at[k]) /\ Further(d, r[j], at[j])
    /\ \A i, j \in DOMAIN segs :
           i # j /\ Meet(segs, r, i, j) => i # k /\ j # k /\ Meet(segs, at, i, j)

(* P pushes segments with less than m others further out.                  *)
GoodPush(segs, d, P, m) ==
    \A k \in DOMAIN segs : \A at \in Places(segs) :
        MainsHome(segs, at) /\ ~segs[k].isMain
            /\ Cardinality(Outside(segs, d, at, at[k])) < m => Pushed(segs, d, at, P[k][at], k)

Clear1(segs, P, k, p, acc, j) == IF j # k /\ acc[j] = p /\ segmentsOverlapY(segs[k], segs[j])
                                 THEN P[j][acc] ELSE acc
IsClearing(c, segs, P, k, p, at) ==
    c = [j \in 0 .. Len(segs) |-> IF j = 0 THEN at ELSE Clear1(segs, P, k, p, c[j - 1], j)]

LEMMA Directions ==
    ASSUME NEW d \in {1, -1}, NEW q \in Int
    PROVE  /\ Candidate(q, d) \in Int /\ Candidate(q, d) # 0 /\ Further(d, Candidate(q, d), q)
           /\ ~Further(d, q, Candidate(q, d)) /\ ~Further(d, q, q)
BY DEF Candidate, Further

IsClearedBy(c, segs, P, k, p, at) ==
    /\ c \in [0 .. Len(segs) -> Places(segs)]
    /\ c[0] = at
    /\ \A j \in 1 .. Len(segs) : c[j] = Clear1(segs, P, k, p, c[j - 1], j)
    /\ Cleared(segs, P, k, p, at) = c[Len(segs)]

LEMMA ClearingIs ==
    ASSUME NEW segs, Laid(segs), NEW P \in PushFcns(segs), NEW k \in DOMAIN segs, NEW p \in Int,
           NEW at \in Places(segs)
    PROVE  \E c : IsClearedBy(c, segs, P, k, p, at)
<1> DEFINE n == Len(segs)
           T == Places(segs)
           step == [j \in 1 .. n |-> [acc \in T |-> Clear1(segs, P, k, p, acc, j)]]
           c == CHOOSE c : IsClearing(c, segs, P, k, p, at)
<1>1. n \in Nat /\ DOMAIN segs = 1 .. n
  BY DEF Laid
<1>2. Cleared(segs, P, k, p, at) = c[n]
  BY DEF Cleared, IsClearing, Clear1
<1>3. ASSUME NEW acc \in T, NEW j \in 1 .. n PROVE Clear1(segs, P, k, p, acc, j) \in T
  BY <1>1 DEF Clear1, PushFcns
<1> HIDE DEF n, T
<1>4. PICK f : IsIteration(f, step, n, T, at)
  <2>1. Keeps(step, n, T) /\ at \in T
    BY <1>3 DEF Keeps, T
  <2> HIDE DEF step
  <2> QED BY <1>1, <2>1, Iterated
<1>5. IsClearing(f, segs, P, k, p, at)
  <2>1. ASSUME NEW j \in 1 .. n PROVE f[j] = Clear1(segs, P, k, p, f[j - 1], j)
    <3>1. j - 1 \in 0 .. n /\ f[j - 1] \in T
      BY <1>1, <1>4 DEF IsIteration
    <3> QED BY <1>4, <3>1 DEF IsIteration
  <2>2. \A j \in 0 .. n : f[j] = IF j = 0 THEN at ELSE Clear1(segs, P, k, p, f[j - 1], j)
    BY <1>1, <1>4, <2>1 DEF IsIteration
  <2> QED BY <1>4, <2>2 DEF IsIteration, IsClearing, n
<1>6. IsClearing(c, segs, P, k, p, at)
  BY <1>5
<1> HIDE DEF c
<1>7. c[0] = at /\ \A j \in 1 .. n : c[j] = Clear1(segs, P, k, p, c[j - 1], j)
  BY <1>1, <1>6 DEF IsClearing, n
<1> DEFINE Q == {i \in Nat : i <= n => c[i] \in T}
<1>8. 0 \in Q
  BY <1>7 DEF T
<1>9. ASSUME NEW i \in Q PROVE i + 1 \in Q
  <2>1. i + 1 <= n => c[i + 1] = Clear1(segs, P, k, p, c[i], i + 1) /\ i + 1 \in 1 .. n
    BY <1>1, <1>7
  <2> QED BY <1>1, <1>3, <2>1
<1>10. \A i \in Nat : i \in Q
  <2> HIDE DEF Q
  <2>1. \A i \in Q : i + 1 \in Q
    BY <1>9
  <2>2. Q \in SUBSET Nat
    BY DEF Q
  <2> QED BY <1>8, <2>1, <2>2, FromZeroOn
<1>11. c \in [0 .. n -> T]
  <2>1. \A i \in 0 .. n : c[i] \in T
    BY <1>1, <1>10
  <2>2. c = [j \in 0 .. n |-> c[j]]
    BY <1>6 DEF IsClearing, n
  <2> QED BY <2>1, <2>2
<1>12. IsClearedBy(c, segs, P, k, p, at)
  BY <1>2, <1>7, <1>11 DEF n, T, IsClearedBy
<1> QED BY <1>12

(* The places when segments up to j that were in the way of k at p are     *)
(* gone from there.                                                        *)
ClearedUpto(segs, d, k, p, at, acc, m) ==
    /\ acc \in Places(segs)
    /\ acc[k] = at[k]
    /\ \A j \in DOMAIN segs \ {k} :
           \/ acc[j] = at[j]
           \/ ~segs[j].isMain /\ ~Further(d, p, at[j]) /\ Further(d, acc[j], at[j])
    /\ \A j \in DOMAIN segs \ {k} : j <= m /\ Overlap(segs, k, j) => acc[j] # p
    /\ \A i, j \in DOMAIN segs \ {k} :
           i # j /\ Meet(segs, acc, i, j) => Meet(segs, at, i, j)

LEMMA ClearStep ==
    ASSUME NEW segs, Laid(segs), NEW d \in {1, -1}, NEW P, NEW m \in Nat, GoodPush(segs, d, P, m),
           NEW k \in DOMAIN segs, NEW p \in Int, p # 0, NEW at \in Places(segs),
           MainsHome(segs, at), ~Further(d, at[k], p),
           Cardinality({x \in DOMAIN segs \ {k} : ~Further(d, p, at[x])}) <= m,
           NEW acc, NEW j \in DOMAIN segs, ClearedUpto(segs, d, k, p, at, acc, j - 1)
    PROVE  ClearedUpto(segs, d, k, p, at, Clear1(segs, P, k, p, acc, j), j)
<1> DEFINE D == DOMAIN segs
           waiting == {x \in D \ {k} : ~Further(d, p, at[x])}
<1>1. /\ acc \in Places(segs) /\ acc[k] = at[k]
      /\ \A x \in D : acc[x] \in Int /\ at[x] \in Int
      /\ \A x \in D : x \in Int
      /\ IsFiniteSet(D)
  <2>1. Len(segs) \in Nat /\ D = 1 .. Len(segs)
    BY DEF Laid
  <2>2. IsFiniteSet(D)
    BY <2>1, FS_Interval
  <2>3. acc \in Places(segs) /\ acc[k] = at[k]
    BY DEF ClearedUpto
  <2> QED BY <2>1, <2>2, <2>3 DEF Places
<1>2. CASE ~(j # k /\ acc[j] = p /\ Overlap(segs, k, j))
  <2>1. Clear1(segs, P, k, p, acc, j) = acc
    BY <1>2 DEF Clear1, Overlap
  <2>2. \A x \in D \ {k} : x <= j /\ Overlap(segs, k, x) => acc[x] # p
    <3>1. \A x \in D : x <= j => x <= j - 1 \/ x = j
      BY <1>1
    <3> QED BY <1>2, <3>1 DEF ClearedUpto
  <2> QED BY <2>1, <2>2 DEF ClearedUpto
<1>3. CASE j # k /\ acc[j] = p /\ Overlap(segs, k, j)
  <2> DEFINE r == P[j][acc]
  <2>1. Clear1(segs, P, k, p, acc, j) = r
    BY <1>3 DEF Clear1, Overlap
  <2>2. MainsHome(segs, acc) /\ ~segs[j].isMain
    <3>1. \A x \in D : segs[x].isMain => acc[x] = at[x]
      BY DEF ClearedUpto
    <3> QED BY <1>3, <3>1 DEF MainsHome
  <2>3. Cardinality(Outside(segs, d, acc, acc[j])) < m
    <3> DEFINE O == Outside(segs, d, acc, acc[j])
    <3>1. IsFiniteSet(waiting) /\ IsFiniteSet(O)
      BY <1>1, FS_Subset DEF Outside
    <3>2. j \in waiting /\ j \notin O
      <4>1. ~Further(d, p, p)
        BY Directions
      <4>2. acc[j] = at[j] \/ ~Further(d, p, at[j])
        BY <1>3 DEF ClearedUpto
      <4> QED BY <1>3, <4>1, <4>2 DEF Outside
    <3>3. ASSUME NEW x \in O PROVE x \in waiting
      <4>1. x \in D /\ Further(d, acc[x], p)
        BY <1>3 DEF Outside
      <4>2. x # k
        BY <1>1, <4>1
      <4>3. acc[x] = at[x] \/ ~Further(d, p, at[x])
        BY <4>1, <4>2 DEF ClearedUpto
      <4>4. acc[x] = at[x] => ~Further(d, p, at[x])
        BY <1>1, <4>1 DEF Further
      <4> QED BY <4>1, <4>2, <4>3, <4>4
    <3>4. O \subseteq waiting /\ O # waiting
      BY <3>2, <3>3
    <3>5. /\ Cardinality(O) <= Cardinality(waiting) /\ Cardinality(O) # Cardinality(waiting)
          /\ Cardinality(O) \in Nat /\ Cardinality(waiting) \in Nat
      <4> HIDE DEF O, waiting
      <4> QED BY <3>1, <3>4, FS_Subset, FS_CardinalityType
    <3> QED BY <3>5
  <2>4. Pushed(segs, d, acc, r, j)
    BY <1>1, <2>2, <2>3 DEF GoodPush
  <2>5. r \in Places(segs) /\ \A x \in D : r[x] \in Int
    BY <2>4 DEF Pushed, Places
  <2> HIDE DEF r
  <2>6. r[k] = at[k]
    <3>1. r[k] = acc[k] \/ Further(d, acc[k], acc[j])
      BY <1>3, <2>4 DEF Pushed
    <3> QED BY <1>1, <1>3, <3>1
  <2>7. Further(d, r[j], p) /\ r[j] # p /\ at[j] = p
    <3>1. r[j] = Candidate(p, d)
      BY <1>3, <2>4 DEF Pushed
    <3>2. Further(d, r[j], p) /\ ~Further(d, p, p)
      BY <3>1, Directions
    <3>3. acc[j] = at[j] \/ (~Further(d, p, at[j]) /\ Further(d, acc[j], at[j]))
      BY <1>3 DEF ClearedUpto
    <3>4. ~(~Further(d, p, at[j]) /\ Further(d, acc[j], at[j]))
      BY <1>3
    <3> QED BY <1>3, <3>2, <3>3, <3>4
  <2>8. ASSUME NEW x \in D \ {k, j}, r[x] # acc[x]
        PROVE  ~segs[x].isMain /\ Further(d, acc[x], p) /\ Further(d, r[x], acc[x])
    BY <1>3, <2>4, <2>8 DEF Pushed
  <2>9. ASSUME NEW x \in D \ {k}, r[x] # at[x]
        PROVE  ~segs[x].isMain /\ ~Further(d, p, at[x]) /\ Further(d, r[x], at[x])
    <3>1. CASE x = j
      <4>1. ~Further(d, p, p)
        BY Directions
      <4> QED BY <2>2, <2>7, <3>1, <4>1
    <3>2. CASE x # j
      <4>1. acc[x] = at[x] \/ (~segs[x].isMain /\ ~Further(d, p, at[x]) /\ Further(d, acc[x], at[x]))
        BY DEF ClearedUpto
      <4>2. CASE r[x] = acc[x]
        BY <2>9, <4>1, <4>2
      <4>3. CASE r[x] # acc[x]
        <5>1. ~segs[x].isMain /\ Further(d, acc[x], p) /\ Further(d, r[x], acc[x])
          BY <2>8, <3>2, <4>3
        <5>2. CASE acc[x] = at[x]
          <6>1. ~Further(d, p, at[x])
            BY <1>1, <5>1, <5>2 DEF Further
          <6> QED BY <5>1, <5>2, <6>1
        <5>3. CASE acc[x] # at[x]
          <6>1. Further(d, r[x], at[x])
            BY <1>1, <2>5, <4>1, <5>1, <5>3 DEF Further
          <6> QED BY <4>1, <5>3, <6>1
        <5> QED BY <5>2, <5>3
      <4> QED BY <4>2, <4>3
    <3> QED BY <3>1, <3>2
  <2>10. ASSUME NEW x \in D \ {k}, x <= j, Overlap(segs, k, x) PROVE r[x] # p
    <3>1. CASE x = j
      BY <2>7, <3>1
    <3>2. CASE x # j
      <4>1. x <= j - 1
        BY <1>1, <2>10, <3>2
      <4>2. acc[x] # p
        BY <2>10, <4>1 DEF ClearedUpto
      <4>3. r[x] # acc[x] => Further(d, acc[x], p) /\ Further(d, r[x], acc[x])
        BY <2>8, <3>2
      <4>4. Further(d, acc[x], p) /\ Further(d, r[x], acc[x]) => r[x] # p
        BY <1>1, <2>5 DEF Further
      <4> QED BY <4>2, <4>3, <4>4
    <3> QED BY <3>1, <3>2
  <2>11. ASSUME NEW x \in D \ {k}, NEW z \in D \ {k}, x # z, Meet(segs, r, x, z)
         PROVE  Meet(segs, at, x, z)
    <3>1. Meet(segs, acc, x, z)
      BY <2>4, <2>11 DEF Pushed
    <3> QED BY <2>11, <3>1 DEF ClearedUpto
  <2>12. ClearedUpto(segs, d, k, p, at, r, j)
    <3>1. \A x \in D \ {k} :
              \/ r[x] = at[x]
              \/ ~segs[x].isMain /\ ~Further(d, p, at[x]) /\ Further(d, r[x], at[x])
      BY <2>9
    <3>2. \A x \in D \ {k} : x <= j /\ Overlap(segs, k, x) => r[x] # p
      BY <2>10
    <3>3. \A x, z \in D \ {k} : x # z /\ Meet(segs, r, x, z) => Meet(segs, at, x, z)
      BY <2>11
    <3> QED BY <2>5, <2>6, <3>1, <3>2, <3>3 DEF ClearedUpto
  <2> QED BY <2>1, <2>12
<1> QED BY <1>2, <1>3

LEMMA ClearedRight ==
    ASSUME NEW segs, Laid(segs), NEW d \in {1, -1}, NEW P \in PushFcns(segs), NEW m \in Nat,
           GoodPush(segs, d, P, m),
           NEW k \in DOMAIN segs, NEW p \in Int, p # 0, NEW at \in Places(segs),
           MainsHome(segs, at), ~Further(d, at[k], p),
           Cardinality({x \in DOMAIN segs \ {k} : ~Further(d, p, at[x])}) <= m
    PROVE  ClearedUpto(segs, d, k, p, at, Cleared(segs, P, k, p, at), Len(segs))
<1> DEFINE n == Len(segs)
<1>1. n \in Nat /\ DOMAIN segs = 1 .. n
  BY DEF Laid
<1>2. PICK c : /\ c \in [0 .. n -> Places(segs)]
               /\ c[0] = at
               /\ \A j \in 1 .. n : c[j] = Clear1(segs, P, k, p, c[j - 1], j)
               /\ Cleared(segs, P, k, p, at) = c[n]
  <2>1. PICK b : IsClearedBy(b, segs, P, k, p, at)
    BY ClearingIs
  <2>2. /\ b \in [0 .. n -> Places(segs)]
        /\ b[0] = at
        /\ \A j \in 1 .. n : b[j] = Clear1(segs, P, k, p, b[j - 1], j)
        /\ Cleared(segs, P, k, p, at) = b[n]
    BY <2>1 DEF IsClearedBy
  <2> QED BY <2>2
<1> DEFINE Good(i) == ClearedUpto(segs, d, k, p, at, c[i], i)
           Q == {i \in Nat : i <= n => Good(i)}
<1>3. Good(0)
  BY <1>1, <1>2 DEF ClearedUpto
<1>4. ASSUME NEW i \in Nat, i + 1 <= n, Good(i) PROVE Good(i + 1)
  <2>1. i + 1 \in DOMAIN segs /\ (i + 1) - 1 = i /\ c[i + 1] = Clear1(segs, P, k, p, c[i], i + 1)
    BY <1>1, <1>2, <1>4
  <2> DEFINE j == i + 1
             acc == c[i]
  <2>2. j \in DOMAIN segs /\ ClearedUpto(segs, d, k, p, at, acc, j - 1)
    BY <1>4, <2>1
  <2> HIDE DEF j, acc
  <2>3. ClearedUpto(segs, d, k, p, at, Clear1(segs, P, k, p, acc, j), j)
    BY <2>2, ClearStep
  <2> QED BY <2>1, <2>3 DEF j, acc
<1>5. 0 \in Q
  BY <1>3
<1>6. ASSUME NEW i \in Q PROVE i + 1 \in Q
  <2> HIDE DEF Good
  <2>1. i \in Nat /\ (i + 1 <= n => i <= n)
    BY <1>1
  <2> QED BY <1>4, <1>6, <2>1
<1>7. n \in Q
  <2> HIDE DEF Q
  <2>1. \A i \in Q : i + 1 \in Q
    BY <1>6
  <2>2. Q \in SUBSET Nat
    BY DEF Q
  <2> QED BY <1>1, <1>5, <2>1, <2>2, FromZeroOn
<1> QED BY <1>1, <1>2, <1>7

(* One more segment may be further out for the function that uses P.       *)
PushWith(segs, direction, P, n) ==
    [k \in DOMAIN segs |-> [at \in [DOMAIN segs -> Int] |->
        IF n = 0 \/ segs[k].isMain THEN at
        ELSE LET p == Candidate(at[k], direction)
             IN  [Cleared(segs, P, k, p, at) EXCEPT ![k] = p]]]

LEMMA PushWithIs ==
    ASSUME NEW segs, Laid(segs), NEW d \in {1, -1}, NEW P \in PushFcns(segs), NEW n \in Nat
    PROVE  PushWith(segs, d, P, n) \in PushFcns(segs)
<1> DEFINE p(at, k) == Candidate(at[k], d)
<1>1. ASSUME NEW k \in DOMAIN segs, NEW at \in Places(segs)
      PROVE  [Cleared(segs, P, k, p(at, k), at) EXCEPT ![k] = p(at, k)] \in Places(segs)
  <2>1. p(at, k) \in Int
    BY Directions DEF Places
  <2>2. Cleared(segs, P, k, p(at, k), at) \in Places(segs)
    <3>1. Len(segs) \in 0 .. Len(segs)
      BY DEF Laid
    <3> HIDE DEF p
    <3> QED BY <2>1, <3>1, ClearingIs DEF IsClearedBy
  <2> HIDE DEF p
  <2> QED BY <2>1, <2>2 DEF Places
<1>2. \A k \in DOMAIN segs : \A at \in Places(segs) : PushWith(segs, d, P, n)[k][at] \in Places(segs)
  BY <1>1 DEF PushWith, Places
<1> QED BY <1>1 DEF PushWith, PushFcns, Places

LEMMA PushWithPushes ==
    ASSUME NEW segs, Laid(segs), NEW d \in {1, -1}, NEW P \in PushFcns(segs), NEW m \in Nat,
           GoodPush(segs, d, P, m)
    PROVE  GoodPush(segs, d, PushWith(segs, d, P, m + 1), m + 1)
<1> DEFINE D == DOMAIN segs
<1> SUFFICES ASSUME NEW k \in D, NEW at \in Places(segs), MainsHome(segs, at), ~segs[k].isMain,
                    Cardinality(Outside(segs, d, at, at[k])) < m + 1
             PROVE  Pushed(segs, d, at, PushWith(segs, d, P, m + 1)[k][at], k)
  BY DEF GoodPush
<1> DEFINE p == Candidate(at[k], d)
           c == Cleared(segs, P, k, p, at)
           r == [c EXCEPT ![k] = p]
           O == Outside(segs, d, at, at[k])
           waiting == {x \in D \ {k} : ~Further(d, p, at[x])}
<1>1. PushWith(segs, d, P, m + 1)[k][at] = r
  <2>1. m + 1 # 0 /\ at \in [D -> Int]
    BY DEF Places
  <2> QED BY <2>1 DEF PushWith
<1>2. /\ \A x \in D : at[x] \in Int
      /\ p \in Int /\ p # 0 /\ Further(d, p, at[k]) /\ ~Further(d, at[k], p)
  <2>1. \A x \in D : at[x] \in Int
    BY DEF Places
  <2>2. at[k] \in Int
    BY <2>1
  <2> QED BY <2>1, <2>2, Directions
<1>3. Cardinality(waiting) <= m
  <2>1. IsFiniteSet(D)
    BY FS_Interval DEF Laid
  <2>2. IsFiniteSet(O) /\ IsFiniteSet(waiting)
    BY <2>1, FS_Subset DEF Outside
  <2>3. waiting \subseteq O
    BY <1>2 DEF Outside, Further
  <2>4. Cardinality(waiting) <= Cardinality(O) /\ Cardinality(waiting) \in Nat /\ Cardinality(O) \in Nat
    <3> HIDE DEF O, waiting
    <3> QED BY <2>2, <2>3, FS_Subset, FS_CardinalityType
  <2> QED BY <2>4
<1>4. ClearedUpto(segs, d, k, p, at, c, Len(segs))
  <2> HIDE DEF p
  <2> QED BY <1>2, <1>3, ClearedRight
<1> HIDE DEF c
<1>5. /\ c \in Places(segs) /\ r \in Places(segs) /\ r[k] = p
      /\ \A x \in D \ {k} : r[x] = c[x]
  BY <1>2, <1>4 DEF ClearedUpto, Places
<1> HIDE DEF r, p
<1>6. ASSUME NEW j \in D \ {k}, r[j] # at[j]
      PROVE  ~segs[j].isMain /\ Further(d, at[j], at[k]) /\ Further(d, r[j], at[j])
  <2>1. ~segs[j].isMain /\ ~Further(d, p, at[j]) /\ Further(d, r[j], at[j])
    BY <1>4, <1>5, <1>6 DEF ClearedUpto
  <2>2. Further(d, at[j], at[k])
    BY <1>2, <2>1 DEF Further
  <2> QED BY <2>1, <2>2
<1>7. \A j \in D \ {k} : Overlap(segs, k, j) => r[j] # p
  <2>1. \A j \in D : j <= Len(segs)
    BY DEF Laid
  <2> QED BY <1>4, <1>5, <2>1 DEF ClearedUpto
<1>8. ASSUME NEW i \in D, NEW j \in D, i # j, Meet(segs, r, i, j)
      PROVE  i # k /\ j # k /\ Meet(segs, at, i, j)
  <2>1. i # k /\ j # k
    <3>1. \A x, z \in D : Overlap(segs, x, z) => Overlap(segs, z, x)
      BY DEF Overlap, segmentsOverlapY
    <3> QED BY <1>5, <1>7, <1>8, <3>1 DEF Meet
  <2>2. Meet(segs, c, i, j)
    BY <1>5, <1>8, <2>1 DEF Meet
  <2> QED BY <1>4, <1>8, <2>1, <2>2 DEF ClearedUpto
<1>9. r[k] = Candidate(at[k], d)
  BY <1>5 DEF p
<1>10. Pushed(segs, d, at, r, k)
  BY <1>5, <1>6, <1>8, <1>9 DEF Pushed
<1> QED BY <1>1, <1>10

(* The function of the strategy pushes whatever is further out.            *)
IsPushing(f, segs, d) == f = [n \in 0 .. Len(segs) |-> PushWith(segs, d, f[n - 1], n)]

LEMMA PushWithNone ==
    ASSUME NEW segs, Laid(segs), NEW d, NEW P
    PROVE  /\ PushWith(segs, d, P, 0) = [k \in DOMAIN segs |-> [at \in Places(segs) |-> at]]
           /\ PushWith(segs, d, P, 0) \in PushFcns(segs)
           /\ GoodPush(segs, d, PushWith(segs, d, P, 0), 0)
<1>1. \A k \in DOMAIN segs : PushWith(segs, d, P, 0)[k] = [at \in Places(segs) |-> at]
  BY DEF PushWith, Places
<1>2. PushWith(segs, d, P, 0) = [k \in DOMAIN segs |-> [at \in Places(segs) |-> at]]
  BY DEF PushWith, Places
<1>3. PushWith(segs, d, P, 0) \in PushFcns(segs)
  BY <1>2 DEF PushFcns
<1>4. \A k \in DOMAIN segs : \A at \in Places(segs) : ~(Cardinality(Outside(segs, d, at, at[k])) < 0)
  <2> SUFFICES ASSUME NEW k \in DOMAIN segs, NEW at \in Places(segs)
               PROVE  ~(Cardinality(Outside(segs, d, at, at[k])) < 0)
    OBVIOUS
  <2>1. IsFiniteSet(DOMAIN segs)
    BY FS_Interval DEF Laid
  <2>2. IsFiniteSet(Outside(segs, d, at, at[k]))
    BY <2>1, FS_Subset DEF Outside
  <2>3. Cardinality(Outside(segs, d, at, at[k])) \in Nat
    BY <2>2, FS_CardinalityType
  <2> QED BY <2>3
<1> QED BY <1>2, <1>3, <1>4 DEF GoodPush

LEMMA PushSegmentIs ==
    ASSUME NEW segs, Laid(segs), NEW d \in {1, -1}
    PROVE  /\ pushSegment(segs, d) \in PushFcns(segs)
           /\ GoodPush(segs, d, pushSegment(segs, d), Len(segs))
<1> DEFINE n == Len(segs)
           T == PushFcns(segs)
           start == [k \in DOMAIN segs |-> [at \in Places(segs) |-> at]]
           step == [i \in 1 .. n |-> [P \in T |-> PushWith(segs, d, P, i)]]
           push == CHOOSE f : IsPushing(f, segs, d)
<1>1. n \in Nat /\ n \in 0 .. n
  BY DEF Laid
<1>2. pushSegment(segs, d) = push[n]
  BY DEF pushSegment, IsPushing, PushWith
<1>3. start \in T /\ GoodPush(segs, d, start, 0) /\ \A P : PushWith(segs, d, P, 0) = start
  BY PushWithNone
<1>4. Keeps(step, n, T)
  <2>1. ASSUME NEW i \in 1 .. n, NEW P \in T PROVE PushWith(segs, d, P, i) \in T
    <3>1. i \in Nat
      BY <1>1
    <3> QED BY <3>1, PushWithIs
  <2> QED BY <2>1 DEF Keeps
<1> HIDE DEF start, T, n
<1>5. PICK f : IsIteration(f, step, n, T, start)
  <2> HIDE DEF step
  <2> QED BY <1>1, <1>3, <1>4, Iterated
<1>6. IsPushing(f, segs, d)
  <2>1. \A i \in 1 .. n : f[i] = PushWith(segs, d, f[i - 1], i)
    <3> SUFFICES ASSUME NEW i \in 1 .. n PROVE f[i] = PushWith(segs, d, f[i - 1], i)
      OBVIOUS
    <3>1. i - 1 \in 0 .. n /\ f[i - 1] \in T
      BY <1>1, <1>5 DEF IsIteration
    <3> QED BY <1>5, <3>1 DEF IsIteration
  <2>2. f[0] = PushWith(segs, d, f[0 - 1], 0)
    BY <1>3, <1>5 DEF IsIteration
  <2>3. \A i \in 0 .. n : f[i] = PushWith(segs, d, f[i - 1], i)
    BY <1>1, <2>1, <2>2
  <2>4. f = [i \in 0 .. n |-> f[i]]
    BY <1>5 DEF IsIteration
  <2> QED BY <2>3, <2>4 DEF IsPushing, n
<1>7. IsPushing(push, segs, d)
  BY <1>6
<1> HIDE DEF push
<1>8. IsIteration(push, step, n, T, start)
  <2>1. \A i \in 0 .. n : push[i] = PushWith(segs, d, push[i - 1], i)
    BY <1>7 DEF IsPushing, n
  <2>2. push = [i \in 0 .. n |-> push[i]]
    BY <1>7 DEF IsPushing, n
  <2>3. push[0] = start
    BY <1>1, <1>3, <2>1
  <2>4. ASSUME NEW i \in 1 .. n, push[i - 1] \in T PROVE push[i] = step[i][push[i - 1]]
    <3>1. push[i] = PushWith(segs, d, push[i - 1], i)
      BY <1>1, <2>1
    <3> QED BY <2>4, <3>1
  <2>5. Follows(push, step, n, T, start)
    <3> HIDE DEF step
    <3> QED BY <2>2, <2>3, <2>4 DEF Follows
  <2> HIDE DEF step
  <2> QED BY <1>1, <1>3, <1>4, <2>5, Following
<1> DEFINE Q == {i \in Nat : i <= n => GoodPush(segs, d, push[i], i)}
<1>9. 0 \in Q
  BY <1>1, <1>3, <1>8 DEF IsIteration
<1>10. ASSUME NEW i \in Q PROVE i + 1 \in Q
  <2>1. ASSUME i + 1 <= n PROVE GoodPush(segs, d, push[i + 1], i + 1)
    <3>1. i + 1 \in 1 .. n /\ (i + 1) - 1 = i /\ i \in 0 .. n /\ i <= n
      BY <1>1, <2>1
    <3>2. push[i] \in T /\ push[i + 1] = PushWith(segs, d, push[i], i + 1)
      BY <1>8, <3>1 DEF IsIteration
    <3>3. GoodPush(segs, d, push[i], i) /\ i \in Nat
      BY <1>10, <3>1
    <3> QED BY <3>2, <3>3, PushWithPushes DEF T
  <2> QED BY <2>1
<1>11. n \in Q
  <2> HIDE DEF Q
  <2>1. \A i \in Q : i + 1 \in Q
    BY <1>10
  <2>2. Q \in SUBSET Nat
    BY DEF Q
  <2> QED BY <1>1, <1>9, <2>1, <2>2, FromZeroOn
<1>12. push[n] \in T /\ GoodPush(segs, d, push[n], n)
  BY <1>1, <1>8, <1>11 DEF IsIteration
<1> QED BY <1>2, <1>12 DEF T, n

-----------------------------------------------------------------------------
(* Resolving: after one pass there is no collision.                        *)

(* The places r come of at without a new meeting.                          *)
Better(segs, at, r) ==
    /\ r \in Places(segs) /\ MainsHome(segs, r)
    /\ \A i, j \in DOMAIN segs : i # j /\ Meet(segs, r, i, j) => Meet(segs, at, i, j)

LEMMA BetterStill ==
    ASSUME NEW segs, NEW a, NEW b, NEW c, Better(segs, a, b), Better(segs, b, c)
    PROVE  /\ Better(segs, a, c)
           /\ \A i, j \in DOMAIN segs : i # j /\ ~Collide(segs, b, i, j) => ~Collide(segs, c, i, j)
BY DEF Better, Collide, Meet, Overlap

LEMMA SeparateIs ==
    ASSUME NEW segs, Laid(segs), NEW at \in Places(segs), NEW i \in DOMAIN segs, NEW j \in DOMAIN segs
    PROVE  /\ Separate(segs, at, i, j) \in Places(segs)
           /\ i # j /\ MainsHome(segs, at) => /\ Better(segs, at, Separate(segs, at, i, j))
                                             /\ ~Collide(segs, Separate(segs, at, i, j), i, j)
<1> DEFINE k == IF segs[j].isMain THEN i ELSE j
           d == IF at[k] < 0 THEN -1 ELSE 1
           r == pushSegment(segs, d)[k][at]
<1>1. CASE ~Collide(segs, at, i, j)
  BY <1>1 DEF Separate, Better
<1>2. CASE Collide(segs, at, i, j)
  <2>1. Separate(segs, at, i, j) = r
    BY <1>2 DEF Separate
  <2>2. d \in {1, -1} /\ k \in DOMAIN segs
    OBVIOUS
  <2>3. ~segs[k].isMain
    BY <1>2 DEF Collide, Laid
  <2> DEFINE P == pushSegment(segs, d)
  <2>4. P \in PushFcns(segs) /\ GoodPush(segs, d, P, Len(segs))
    <3> HIDE DEF d
    <3> QED BY <2>2, PushSegmentIs
  <2>5. r \in Places(segs)
    <3> HIDE DEF P, k
    <3> QED BY <2>2, <2>4 DEF PushFcns, P
  <2>6. ASSUME i # j, MainsHome(segs, at) PROVE Better(segs, at, r) /\ ~Collide(segs, r, i, j)
    <3> HIDE DEF P, k, d
    <3>1. Cardinality(Outside(segs, d, at, at[k])) < Len(segs)
      <4> DEFINE O == Outside(segs, d, at, at[k])
      <4>1. DOMAIN segs = 1 .. Len(segs) /\ Len(segs) \in Nat
        BY DEF Laid
      <4>2. IsFiniteSet(DOMAIN segs) /\ Cardinality(DOMAIN segs) = Len(segs)
        <5> DEFINE n == Len(segs)
        <5>1. n \in Nat /\ DOMAIN segs = 1 .. n
          BY <4>1
        <5> HIDE DEF n
        <5>2. IsFiniteSet(1 .. n) /\ Cardinality(1 .. n) = n
          BY <5>1, FS_Interval
        <5> QED BY <5>1, <5>2 DEF n
      <4>3. O \subseteq DOMAIN segs /\ k \notin O
        BY <2>2, Directions DEF Outside, Places
      <4>4. IsFiniteSet(O) /\ Cardinality(O) <= Cardinality(DOMAIN segs) /\ Cardinality(O) # Cardinality(DOMAIN segs)
        BY <2>2, <4>2, <4>3, FS_Subset
      <4>5. Cardinality(O) \in Nat
        BY <4>4, FS_CardinalityType
      <4> QED BY <4>1, <4>2, <4>4, <4>5
    <3>2. Pushed(segs, d, at, P[k][at], k)
      BY <2>2, <2>3, <2>4, <2>6, <3>1 DEF GoodPush
    <3>3. Pushed(segs, d, at, r, k)
      BY <3>2 DEF P
    <3> HIDE DEF r
    <3>4. MainsHome(segs, r)
      BY <2>3, <2>6, <3>3 DEF Pushed, MainsHome
    <3>5. Better(segs, at, r)
      BY <3>3, <3>4 DEF Pushed, Better
    <3>6. ~Meet(segs, r, i, j)
      BY <2>6, <3>3 DEF Pushed, k
    <3> QED BY <3>5, <3>6 DEF Collide, Meet, Overlap
  <2> QED BY <2>1, <2>5, <2>6
<1> QED BY <1>1, <1>2

(* Segment i and those below it.                                           *)
IsSeparating(c, segs, at, i) ==
    c = [j \in i .. Len(segs) |-> IF j = i THEN at ELSE Separate(segs, c[j - 1], i, j)]

LEMMA SeparateFromIs ==
    ASSUME NEW segs, Laid(segs), NEW at \in Places(segs), NEW i \in DOMAIN segs
    PROVE  /\ SeparateFrom(segs, at, i) \in Places(segs)
           /\ MainsHome(segs, at) =>
                  /\ Better(segs, at, SeparateFrom(segs, at, i))
                  /\ \A j \in DOMAIN segs : i < j => ~Collide(segs, SeparateFrom(segs, at, i), i, j)
<1> DEFINE n == Len(segs)
           T == Places(segs)
           step == [m \in 1 .. n - i |-> [a \in T |-> Separate(segs, a, i, i + m)]]
           c == CHOOSE c : IsSeparating(c, segs, at, i)
           e == [m \in 0 .. n - i |-> c[i + m]]
<1>1. n \in Nat /\ DOMAIN segs = 1 .. n /\ i \in Nat /\ i <= n /\ n - i \in Nat /\ i >= 1
  BY DEF Laid
<1>2. SeparateFrom(segs, at, i) = c[n]
  BY DEF SeparateFrom, IsSeparating
<1> HIDE DEF n
<1>3. Keeps(step, n - i, T)
  <2>1. ASSUME NEW m \in 1 .. n - i, NEW a \in T PROVE Separate(segs, a, i, i + m) \in T
    <3>1. i + m \in DOMAIN segs
      BY <1>1
    <3> QED BY <3>1, SeparateIs
  <2> HIDE DEF T
  <2> QED BY <2>1 DEF Keeps
<1> HIDE DEF T
<1>4. at \in T
  BY DEF T
<1>5. PICK f : IsIteration(f, step, n - i, T, at)
  <2> HIDE DEF step
  <2> QED BY <1>1, <1>3, <1>4, Iterated
<1>6. \A m \in 1 .. n - i : f[m] = Separate(segs, f[m - 1], i, i + m) /\ f[m - 1] \in T
  <2> SUFFICES ASSUME NEW m \in 1 .. n - i
               PROVE  f[m] = Separate(segs, f[m - 1], i, i + m) /\ f[m - 1] \in T
    OBVIOUS
  <2>1. m - 1 \in 0 .. n - i /\ f[m - 1] \in T
    BY <1>1, <1>5 DEF IsIteration
  <2> QED BY <1>5, <2>1 DEF IsIteration
<1>7. \E x : IsSeparating(x, segs, at, i)
  <2> DEFINE x == [j \in i .. n |-> f[j - i]]
  <2>1. ASSUME NEW j \in i .. n PROVE x[j] = IF j = i THEN at ELSE Separate(segs, x[j - 1], i, j)
    <3>1. CASE j = i
      BY <1>1, <1>5, <3>1 DEF IsIteration
    <3>2. CASE j # i
      <4>1. j - i \in 1 .. n - i /\ j - 1 \in i .. n /\ i + (j - i) = j /\ (j - i) - 1 = (j - 1) - i
        BY <1>1, <3>2
      <4>2. x[j] = f[j - i] /\ x[j - 1] = f[(j - i) - 1]
        BY <4>1
      <4> HIDE DEF x
      <4> QED BY <1>6, <3>2, <4>1, <4>2
    <3> QED BY <3>1, <3>2
  <2>2. x = [j \in i .. n |-> x[j]]
    OBVIOUS
  <2>3. IsSeparating(x, segs, at, i)
    <3> HIDE DEF x
    <3> QED BY <2>1, <2>2 DEF IsSeparating, n
  <2> QED BY <2>3
<1>8. IsSeparating(c, segs, at, i)
  BY <1>7
<1> HIDE DEF c
<1>9. c[i] = at /\ \A j \in i + 1 .. n : c[j] = Separate(segs, c[j - 1], i, j)
  BY <1>1, <1>8 DEF IsSeparating, n
<1> DEFINE Good(m) == /\ c[i + m] \in T
                      /\ MainsHome(segs, at) =>
                           /\ Better(segs, at, c[i + m])
                           /\ \A j \in DOMAIN segs : i < j /\ j <= i + m => ~Collide(segs, c[i + m], i, j)
           Q == {m \in Nat : m <= n - i => Good(m)}
<1>10. 0 \in Q
  BY <1>1, <1>9 DEF T, Better
<1>11. ASSUME NEW m \in Nat, m + 1 <= n - i, Good(m) PROVE Good(m + 1)
  <2> DEFINE j == i + (m + 1)
             b == c[i + m]
             r == c[j]
  <2>1. j \in DOMAIN segs /\ j # i /\ j \in i + 1 .. n /\ j - 1 = i + m /\ i < j
    BY <1>1, <1>11
  <2>2. r = Separate(segs, b, i, j)
    BY <1>9, <2>1
  <2>3. b \in Places(segs) /\ \A x \in DOMAIN segs : x <= j => x <= i + m \/ x = j
    BY <1>1, <1>11, <2>1 DEF T
  <2> HIDE DEF j, b, r
  <2>4. /\ r \in Places(segs)
        /\ MainsHome(segs, b) => Better(segs, b, r) /\ ~Collide(segs, r, i, j)
    BY <2>1, <2>2, <2>3, SeparateIs
  <2>5. ASSUME MainsHome(segs, at)
        PROVE  /\ Better(segs, at, r)
               /\ \A x \in DOMAIN segs : i < x /\ x <= j => ~Collide(segs, r, i, x)
    <3>1. /\ Better(segs, at, b)
          /\ \A x \in DOMAIN segs : i < x /\ x <= i + m => ~Collide(segs, b, i, x)
      BY <1>11, <2>5 DEF b
    <3>2. Better(segs, b, r) /\ ~Collide(segs, r, i, j)
      BY <2>4, <3>1 DEF Better
    <3>3. Better(segs, at, r) /\ \A x \in DOMAIN segs : i # x /\ ~Collide(segs, b, i, x) => ~Collide(segs, r, i, x)
      BY <3>1, <3>2, BetterStill
    <3>4. ASSUME NEW x \in DOMAIN segs, i < x, x <= j PROVE ~Collide(segs, r, i, x)
      <4>1. i # x /\ (x <= i + m \/ x = j)
        BY <1>1, <2>3, <3>4
      <4> QED BY <3>1, <3>2, <3>3, <3>4, <4>1
    <3> QED BY <3>3, <3>4
  <2> QED BY <2>4, <2>5 DEF r, j, T
<1>12. ASSUME NEW m \in Q PROVE m + 1 \in Q
  <2> HIDE DEF Good
  <2>1. m \in Nat /\ (m + 1 <= n - i => m <= n - i)
    BY <1>1
  <2> QED BY <1>11, <1>12, <2>1
<1>13. n - i \in Q
  <2> HIDE DEF Q
  <2>1. \A m \in Q : m + 1 \in Q
    BY <1>12
  <2>2. Q \in SUBSET Nat
    BY DEF Q
  <2> QED BY <1>1, <1>10, <2>1, <2>2, FromZeroOn
<1>14. Good(n - i) /\ i + (n - i) = n /\ \A j \in DOMAIN segs : j <= n
  BY <1>1, <1>13
<1> QED BY <1>2, <1>14 DEF T

(* All of them.                                                            *)
IsPassing(c, segs, at) ==
    c = [i \in 0 .. Len(segs) |-> IF i = 0 THEN at ELSE SeparateFrom(segs, c[i - 1], i)]

LEMMA PassIs ==
    ASSUME NEW segs, Laid(segs), NEW at \in Places(segs)
    PROVE  /\ Pass(segs, at) \in Places(segs)
           /\ MainsHome(segs, at) =>
                  /\ Better(segs, at, Pass(segs, at))
                  /\ \A i, j \in DOMAIN segs : i < j => ~Collide(segs, Pass(segs, at), i, j)
<1> DEFINE n == Len(segs)
           T == Places(segs)
           step == [i \in 1 .. n |-> [a \in T |-> SeparateFrom(segs, a, i)]]
           c == CHOOSE c : IsPassing(c, segs, at)
<1>1. n \in Nat /\ DOMAIN segs = 1 .. n
  BY DEF Laid
<1>2. Pass(segs, at) = c[n]
  BY DEF Pass, IsPassing
<1> HIDE DEF n
<1>3. Keeps(step, n, T)
  <2>1. ASSUME NEW i \in 1 .. n, NEW a \in T PROVE SeparateFrom(segs, a, i) \in T
    BY <1>1, SeparateFromIs
  <2> HIDE DEF T
  <2> QED BY <2>1 DEF Keeps
<1> HIDE DEF T
<1>4. at \in T
  BY DEF T
<1>5. PICK f : IsIteration(f, step, n, T, at)
  <2> HIDE DEF step
  <2> QED BY <1>1, <1>3, <1>4, Iterated
<1>6. IsPassing(f, segs, at)
  <2>1. ASSUME NEW i \in 1 .. n PROVE f[i] = SeparateFrom(segs, f[i - 1], i)
    <3>1. i - 1 \in 0 .. n /\ f[i - 1] \in T
      BY <1>1, <1>5 DEF IsIteration
    <3> QED BY <1>5, <3>1 DEF IsIteration
  <2>2. \A i \in 0 .. n : f[i] = IF i = 0 THEN at ELSE SeparateFrom(segs, f[i - 1], i)
    BY <1>1, <1>5, <2>1 DEF IsIteration
  <2> QED BY <1>5, <2>2 DEF IsIteration, IsPassing, n
<1>7. IsPassing(c, segs, at)
  BY <1>6
<1> HIDE DEF c
<1>8. c[0] = at /\ \A i \in 1 .. n : c[i] = SeparateFrom(segs, c[i - 1], i)
  BY <1>1, <1>7 DEF IsPassing, n
<1> DEFINE Good(m) == /\ c[m] \in T
                      /\ MainsHome(segs, at) =>
                           /\ Better(segs, at, c[m])
                           /\ \A i, j \in DOMAIN segs : i < j /\ i <= m => ~Collide(segs, c[m], i, j)
           Q == {m \in Nat : m <= n => Good(m)}
<1>9. 0 \in Q
  BY <1>1, <1>8 DEF T, Better
<1>10. ASSUME NEW m \in Nat, m + 1 <= n, Good(m) PROVE Good(m + 1)
  <2> DEFINE k == m + 1
             b == c[m]
             r == c[k]
  <2>1. k \in DOMAIN segs /\ k - 1 = m /\ \A i \in DOMAIN segs : i <= k => i <= m \/ i = k
    BY <1>1, <1>10
  <2>2. r = SeparateFrom(segs, b, k) /\ b \in Places(segs)
    BY <1>1, <1>8, <1>10, <2>1 DEF T
  <2> HIDE DEF k, b, r
  <2>3. /\ r \in Places(segs)
        /\ MainsHome(segs, b) => /\ Better(segs, b, r)
                                 /\ \A j \in DOMAIN segs : k < j => ~Collide(segs, r, k, j)
    BY <2>1, <2>2, SeparateFromIs
  <2>4. ASSUME MainsHome(segs, at)
        PROVE  /\ Better(segs, at, r)
               /\ \A i, j \in DOMAIN segs : i < j /\ i <= k => ~Collide(segs, r, i, j)
    <3>1. /\ Better(segs, at, b)
          /\ \A i, j \in DOMAIN segs : i < j /\ i <= m => ~Collide(segs, b, i, j)
      BY <1>10, <2>4 DEF b
    <3>2. Better(segs, b, r) /\ \A j \in DOMAIN segs : k < j => ~Collide(segs, r, k, j)
      BY <2>3, <3>1 DEF Better
    <3>3. /\ Better(segs, at, r)
          /\ \A i, j \in DOMAIN segs : i # j /\ ~Collide(segs, b, i, j) => ~Collide(segs, r, i, j)
      BY <3>1, <3>2, BetterStill
    <3>4. ASSUME NEW i \in DOMAIN segs, NEW j \in DOMAIN segs, i < j, i <= k PROVE ~Collide(segs, r, i, j)
      <4>1. i # j /\ (i <= m \/ i = k)
        BY <1>1, <2>1, <3>4
      <4> QED BY <3>1, <3>2, <3>3, <3>4, <4>1
    <3> QED BY <3>3, <3>4
  <2> QED BY <2>3, <2>4 DEF r, k, T
<1>11. ASSUME NEW m \in Q PROVE m + 1 \in Q
  <2> HIDE DEF Good
  <2>1. m \in Nat /\ (m + 1 <= n => m <= n)
    BY <1>1
  <2> QED BY <1>10, <1>11, <2>1
<1>12. n \in Q
  <2> HIDE DEF Q
  <2>1. \A m \in Q : m + 1 \in Q
    BY <1>11
  <2>2. Q \in SUBSET Nat
    BY DEF Q
  <2> QED BY <1>1, <1>9, <2>1, <2>2, FromZeroOn
<1>13. Good(n) /\ \A i \in DOMAIN segs : i <= n
  BY <1>1, <1>12
<1> QED BY <1>2, <1>13 DEF T

(* All the passes.                                                         *)
Apart(segs, at) == \A i, j \in DOMAIN segs : i < j => ~Collide(segs, at, i, j)
ResolveWith(segs, R, n) ==
    [at \in [DOMAIN segs -> Int] |->
        IF n = 0 \/ \A i, j \in DOMAIN segs : i < j => ~Collide(segs, at, i, j)
        THEN at ELSE R[Pass(segs, at)]]
IsResolving(c, segs) == c = [n \in 0 .. MaxPasses |-> ResolveWith(segs, c[n - 1], n)]

LEMMA ResolveIs ==
    ASSUME NEW segs, Laid(segs), NEW at \in Places(segs), MainsHome(segs, at)
    PROVE  /\ Better(segs, at, resolveAllCollisions(segs, at))
           /\ Apart(segs, resolveAllCollisions(segs, at))
<1> DEFINE T == [Places(segs) -> Places(segs)]
           start == [a \in Places(segs) |-> a]
           step == [i \in 1 .. MaxPasses |-> [R \in T |-> ResolveWith(segs, R, i)]]
           c == CHOOSE c : IsResolving(c, segs)
<1>1. resolveAllCollisions(segs, at) = c[MaxPasses][at]
  BY DEF resolveAllCollisions, IsResolving, ResolveWith
<1>2. start \in T /\ \A R : ResolveWith(segs, R, 0) = start
  BY DEF ResolveWith, Places
<1>3. ASSUME NEW R \in T, NEW i PROVE ResolveWith(segs, R, i) \in T
  <2>1. \A a \in Places(segs) : R[Pass(segs, a)] \in Places(segs)
    BY PassIs
  <2> QED BY <2>1 DEF ResolveWith, Places
<1>4. MaxPasses = 50
  BY DEF MaxPasses
<1>5. Keeps(step, MaxPasses, T)
  <2> HIDE DEF T
  <2> QED BY <1>3 DEF Keeps
<1> HIDE DEF T, start
<1>6. PICK f : IsIteration(f, step, MaxPasses, T, start)
  <2> HIDE DEF step
  <2> QED BY <1>2, <1>4, <1>5, Iterated
<1>7. IsResolving(f, segs)
  <2>1. ASSUME NEW i \in 1 .. MaxPasses PROVE f[i] = ResolveWith(segs, f[i - 1], i)
    <3>1. i - 1 \in 0 .. MaxPasses /\ f[i - 1] \in T
      BY <1>4, <1>6 DEF IsIteration
    <3> QED BY <1>6, <3>1 DEF IsIteration
  <2>2. f[0] = ResolveWith(segs, f[0 - 1], 0)
    BY <1>2, <1>6 DEF IsIteration
  <2>3. \A i \in 0 .. MaxPasses : f[i] = ResolveWith(segs, f[i - 1], i)
    BY <1>4, <2>1, <2>2
  <2>4. f = [i \in 0 .. MaxPasses |-> f[i]]
    BY <1>6 DEF IsIteration
  <2> QED BY <2>3, <2>4 DEF IsResolving
<1>8. IsResolving(c, segs)
  BY <1>7
<1> HIDE DEF c
<1>9. \A n \in 0 .. MaxPasses : c[n] = ResolveWith(segs, c[n - 1], n)
  BY <1>8 DEF IsResolving
<1>10. \A n \in 0 .. MaxPasses : \A a \in Places(segs) :
          c[n][a] = IF n = 0 \/ Apart(segs, a) THEN a ELSE c[n - 1][Pass(segs, a)]
  BY <1>9 DEF ResolveWith, Places, Apart
<1>11. c[50][at] = IF Apart(segs, at) THEN at ELSE c[49][Pass(segs, at)]
  BY <1>4, <1>10
<1>12. /\ Pass(segs, at) \in Places(segs) /\ Better(segs, at, Pass(segs, at))
       /\ Apart(segs, Pass(segs, at))
  BY PassIs DEF Apart
<1>13. c[49][Pass(segs, at)] = Pass(segs, at)
  BY <1>4, <1>10, <1>12
<1>14. Better(segs, at, at)
  BY DEF Better
<1> QED BY <1>1, <1>4, <1>11, <1>12, <1>13, <1>14

-----------------------------------------------------------------------------
(* Placing the segments.                                                   *)

LEMMA AscendingIs ==
    ASSUME NEW S \in SUBSET Int, IsFiniteSet(S)
    PROVE  /\ Ascending(S) \in Seq(S) /\ \A x \in S : \E i \in DOMAIN Ascending(S) : Ascending(S)[i] = x
           /\ Len(Ascending(S)) \in Nat /\ DOMAIN Ascending(S) = 1 .. Len(Ascending(S))
<1> DEFINE n == Cardinality(S)
           below == [x \in S |-> {z \in S : z < x}]
           f == Ascending(S)
           c(i) == CHOOSE x \in S : Cardinality({z \in S : z < x}) = i - 1
<1>1. f = [i \in 1 .. n |-> c(i)]
  BY DEF Ascending, InOrder
<1>2. IsOrder(below, S)
  <2>1. \A x \in S : x \in Int
    OBVIOUS
  <2>2. below \in [S -> SUBSET S] /\ \A x \in S : x \notin below[x]
    BY <2>1
  <2>3. \A x, z \in S : x = z \/ x \in below[z] \/ z \in below[x]
    BY <2>1
  <2>4. ASSUME NEW x \in S, NEW z \in S, x \in below[z], NEW w \in below[x] PROVE w \in below[z]
    <3>1. w \in S /\ w < x /\ x < z
      BY <2>4
    <3>2. w < z
      BY <2>1, <3>1
    <3> QED BY <3>1, <3>2
  <2>5. \A x, z \in S : x \in below[z] => below[x] \subseteq below[z]
    BY <2>4
  <2> HIDE DEF below
  <2> QED BY <2>2, <2>3, <2>5 DEF IsOrder
<1>3. \A x \in S : below[x] = {z \in S : z < x}
  OBVIOUS
<1> HIDE DEF f, below
<1>4. IsRanked(f, below, S)
  <2>1. ASSUME NEW i \in 1 .. n, \E x \in S : Cardinality(below[x]) = i - 1
        PROVE  f[i] \in S /\ Cardinality(below[f[i]]) = i - 1
    <3>1. \E x \in S : Cardinality({z \in S : z < x}) = i - 1
      BY <1>3, <2>1
    <3>2. f[i] \in S /\ Cardinality({z \in S : z < f[i]}) = i - 1
      BY <1>1, <3>1
    <3> QED BY <1>3, <3>2
  <2>2. f = [i \in 1 .. n |-> f[i]]
    <3> HIDE DEF c
    <3> QED BY <1>1
  <2> QED BY <2>1, <2>2 DEF IsRanked
<1>5. IsSortedBy(f, below, S)
  BY <1>2, <1>4, Sorting
<1> QED BY <1>5 DEF IsSortedBy, f

LEMMA InitialPositionIs ==
    ASSUME NEW segs, Laid(segs), NEW at, NEW i
    PROVE  assignInitialPosition(segs, at, i) \in Int
<1> DEFINE Spiral(n) == IF n % 2 = 1 THEN (n + 1) \div 2 ELSE -(n \div 2)
           Free(n) == \A j \in DOMAIN segs :
                          j # i /\ at[j] = Spiral(n) => ~segmentsOverlapY(segs[i], segs[j])
           first == CHOOSE n \in 1 .. 2 * MaxDistance : Free(n) /\ \A m \in 1 .. n - 1 : ~Free(m)
<1>1. assignInitialPosition(segs, at, i) =
          IF \E n \in 1 .. 2 * MaxDistance : Free(n) THEN Spiral(first) ELSE Len(segs)
  BY DEF assignInitialPosition
<1>2. \A n \in Int : Spiral(n) \in Int
  OBVIOUS
<1>3. Len(segs) \in Nat
  BY DEF Laid
<1> HIDE DEF Spiral
<1>4. ASSUME NEW n \in 1 .. 2 * MaxDistance, Free(n) PROVE first \in Int
  <2> DEFINE frees == {m \in 1 .. 2 * MaxDistance : Free(m)}
  <2>1. frees \in SUBSET Nat /\ frees # {} /\ 1 .. 2 * MaxDistance \subseteq Nat
    BY <1>4 DEF MaxDistance
  <2>2. PICK l \in frees : \A m \in frees : l <= m
    <3> HIDE DEF frees
    <3> QED BY <2>1, LeastOf
  <2>3. l \in 1 .. 2 * MaxDistance /\ Free(l) /\ l \in Nat
    BY <2>1, <2>2
  <2>4. ASSUME NEW m \in 1 .. l - 1 PROVE ~Free(m)
    <3>1. m \in 1 .. 2 * MaxDistance /\ ~(l <= m)
      BY <2>3 DEF MaxDistance
    <3> HIDE DEF Free
    <3> QED BY <2>2, <3>1
  <2> HIDE DEF Free
  <2>5. first \in 1 .. 2 * MaxDistance
    BY <2>3, <2>4
  <2> QED BY <2>1, <2>5
<1> HIDE DEF Free, first
<1> QED BY <1>1, <1>2, <1>3, <1>4

(* What the Map remembers: places are numbers.                             *)
IsEntry(e) == e = [id |-> e.id, label |-> e.label, position |-> e.position] /\ e.position \in Int
IsMemory(before) == /\ before \in Seq(ToSet(before))
                    /\ \A k \in DOMAIN before : IsEntry(before[k])

LEMMA PlacingOrderIs ==
    ASSUME NEW segs, Laid(segs), NEW before
    PROVE  PlacingOrder(before, segs) \in Seq(DOMAIN segs)
<1> DEFINE D == DOMAIN segs
           Main == {i \in D : segs[i].isMain}
           Restored == {i \in D : IsRestored(before, segs, i)}
           New == D \ (Main \cup Restored)
<1>1. D \in SUBSET Int /\ IsFiniteSet(D)
  BY FS_Interval DEF Laid
<1>2. ASSUME NEW S \in SUBSET D PROVE Ascending(S) \in Seq(D)
  <2>1. S \in SUBSET Int /\ IsFiniteSet(S)
    BY <1>1, FS_Subset
  <2>2. Ascending(S) \in Seq(S)
    BY <2>1, AscendingIs
  <2> QED BY <2>2
<1>3. Ascending(Main) \in Seq(D) /\ Ascending(Restored) \in Seq(D) /\ Ascending(New) \in Seq(D)
  <2>1. Main \in SUBSET D /\ Restored \in SUBSET D /\ New \in SUBSET D
    OBVIOUS
  <2> HIDE DEF Main, Restored, New, D
  <2> QED BY <1>2, <2>1
<1>4. PlacingOrder(before, segs) = Ascending(Main) \o Ascending(Restored) \o Ascending(New)
  BY DEF PlacingOrder
<1> HIDE DEF Main, Restored, New
<1> QED BY <1>3, <1>4

LEMMA PlaceOfIs ==
    ASSUME NEW segs, Laid(segs), NEW before, IsMemory(before), NEW at, NEW i \in DOMAIN segs
    PROVE  PlaceOf(before, segs, at, i) \in Int /\ (segs[i].isMain => PlaceOf(before, segs, at, i) = 0)
<1>1. CASE segs[i].isMain
  BY <1>1 DEF PlaceOf
<1>2. CASE ~segs[i].isMain /\ ~IsRestored(before, segs, i)
  BY <1>2, InitialPositionIs DEF PlaceOf
<1>3. CASE ~segs[i].isMain /\ IsRestored(before, segs, i)
  <2> DEFINE S == {k \in DOMAIN before : before[k].label = segs[i].label}
             same == {j \in 1 .. i : ~segs[j].isMain /\ segs[j].label = segs[i].label}
             prev == Previous(before, segs[i].label)
             r == Rank(segs, i)
  <2>1. S \in SUBSET Int /\ IsFiniteSet(S) /\ S \subseteq DOMAIN before
    <3>1. Len(before) \in Nat /\ DOMAIN before = 1 .. Len(before)
      BY DEF IsMemory
    <3>2. IsFiniteSet(DOMAIN before)
      BY <3>1, FS_Interval
    <3> QED BY <3>1, <3>2, FS_Subset
  <2>2. prev = Ascending(S)
    BY DEF Previous
  <2>3. prev \in Seq(S)
    <3> HIDE DEF prev, S
    <3> QED BY <2>1, <2>2, AscendingIs
  <2>4. r \in Nat /\ r >= 1
    <3>1. i \in Nat /\ i \in 1 .. i
      BY DEF Laid
    <3>2. i \in same /\ IsFiniteSet(same)
      <4>1. IsFiniteSet(1 .. i)
        BY <3>1, FS_Interval
      <4> QED BY <1>3, <3>1, <4>1, FS_Subset
    <3>3. Cardinality(same) \in Nat /\ Cardinality(same) # 0
      BY <3>2, FS_CardinalityType, FS_EmptySet
    <3> QED BY <3>3 DEF Rank
  <2>5. r <= Len(prev)
    BY <1>3 DEF IsRestored
  <2> HIDE DEF prev, r, S
  <2>6. prev[r] \in S
    BY <2>3, <2>4, <2>5
  <2>7. before[prev[r]].position \in Int
    BY <2>1, <2>6 DEF IsMemory, IsEntry
  <2>8. PlaceOf(before, segs, at, i) = before[prev[r]].position
    BY <1>3 DEF PlaceOf, prev, r
  <2> QED BY <1>3, <2>7, <2>8
<1> QED BY <1>1, <1>2, <1>3

IsPlacingAll(c, before, segs, order) ==
    c = [n \in 0 .. Len(order) |->
            IF n = 0 THEN PositionsOf(segs) ELSE Place(before, segs, c[n - 1], order[n])]

(* The main segment stays at home, nothing collides.                       *)
AssignedAt(r, segs, at) == /\ r = PlacedAt(segs, at)
                           /\ at \in Places(segs) /\ MainsHome(segs, at) /\ Apart(segs, at)

LEMMA AssignIs ==
    ASSUME NEW segs, Laid(segs), NEW before, IsMemory(before),
           PositionsOf(segs) \in Places(segs), MainsHome(segs, PositionsOf(segs))
    PROVE  \E at : AssignedAt(assignSegmentPositions(before, segs), segs, at)
<1> DEFINE order == PlacingOrder(before, segs)
           n == Len(order)
           T == {at \in Places(segs) : MainsHome(segs, at)}
           start == PositionsOf(segs)
           step == [i \in 1 .. n |-> [at \in T |-> Place(before, segs, at, order[i])]]
           c == CHOOSE c : IsPlacingAll(c, before, segs, order)
           at == resolveAllCollisions(segs, c[n])
<1>1. assignSegmentPositions(before, segs) = PlacedAt(segs, at)
  BY DEF assignSegmentPositions, IsPlacingAll
<1>2. order \in Seq(DOMAIN segs) /\ n \in Nat
  <2>1. order \in Seq(DOMAIN segs)
    BY PlacingOrderIs
  <2> HIDE DEF order
  <2> QED BY <2>1
<1> HIDE DEF order
<1>3. start \in T
  OBVIOUS
<1>4. ASSUME NEW i \in 1 .. n, NEW b \in T PROVE Place(before, segs, b, order[i]) \in T
  <2> DEFINE k == order[i]
  <2>1. k \in DOMAIN segs
    BY <1>2
  <2> HIDE DEF k
  <2>2. PlaceOf(before, segs, b, k) \in Int /\ (segs[k].isMain => PlaceOf(before, segs, b, k) = 0)
    BY <2>1, PlaceOfIs
  <2>3. Place(before, segs, b, k) \in T
    BY <2>1, <2>2 DEF Place, Places, MainsHome
  <2> QED BY <2>3 DEF k
<1> HIDE DEF T, n, start
<1>5. Keeps(step, n, T)
  BY <1>4 DEF Keeps
<1>6. PICK f : IsIteration(f, step, n, T, start)
  <2> HIDE DEF step
  <2> QED BY <1>2, <1>3, <1>5, Iterated
<1>7. IsPlacingAll(f, before, segs, order)
  <2>1. ASSUME NEW i \in 1 .. n PROVE f[i] = Place(before, segs, f[i - 1], order[i])
    <3>1. i - 1 \in 0 .. n /\ f[i - 1] \in T
      BY <1>2, <1>6 DEF IsIteration
    <3> QED BY <1>6, <3>1 DEF IsIteration
  <2>2. \A i \in 0 .. n : f[i] = IF i = 0 THEN start ELSE Place(before, segs, f[i - 1], order[i])
    BY <1>2, <1>6, <2>1 DEF IsIteration
  <2> QED BY <1>6, <2>2 DEF IsIteration, IsPlacingAll, n, start
<1>8. IsPlacingAll(c, before, segs, order)
  BY <1>7
<1> HIDE DEF c
<1>9. IsIteration(c, step, n, T, start)
  <2>1. c[0] = start /\ \A i \in 1 .. n : c[i] = Place(before, segs, c[i - 1], order[i])
    BY <1>2, <1>8 DEF IsPlacingAll, n, start
  <2>2. \A i \in 1 .. n : c[i - 1] \in T => c[i] = step[i][c[i - 1]]
    BY <2>1
  <2>3. c = [i \in 0 .. n |-> c[i]]
    BY <1>8 DEF IsPlacingAll, n
  <2> HIDE DEF step
  <2>4. Follows(c, step, n, T, start)
    BY <2>1, <2>2, <2>3 DEF Follows
  <2> QED BY <1>2, <1>3, <1>5, <2>4, Following
<1>10. c[n] \in Places(segs) /\ MainsHome(segs, c[n])
  BY <1>2, <1>9 DEF IsIteration, T
<1>11. Better(segs, c[n], at) /\ Apart(segs, at)
  <2> DEFINE b == c[n]
  <2> HIDE DEF b
  <2>1. Better(segs, b, resolveAllCollisions(segs, b)) /\ Apart(segs, resolveAllCollisions(segs, b))
    BY <1>10, ResolveIs DEF b
  <2> QED BY <2>1 DEF b
<1>12. AssignedAt(assignSegmentPositions(before, segs), segs, at)
  <2> HIDE DEF at
  <2> QED BY <1>1, <1>11 DEF AssignedAt, Better
<1> QED BY <1>12

-----------------------------------------------------------------------------
(* The layout keeps its shape: only places change.                         *)

LEMMA LayoutLaid ==
    ASSUME NEW segs, NEW g, IsLayout(segs, g)
    PROVE  Laid(segs) /\ DOMAIN segs = 1 .. Len(segs) /\ Len(segs) \in Nat
BY DEF IsLayout, Laid, SegmentFits

LEMMA PlacedAtIs ==
    ASSUME NEW segs, NEW g, IsLayout(segs, g), NEW at \in Places(segs)
    PROVE  LET r == PlacedAt(segs, at)
           IN  /\ IsLayout(r, g) /\ DOMAIN r = DOMAIN segs
               /\ PositionsOf(r) = at /\ at \in Places(r)
               /\ MainsHome(segs, at) => MainsHome(r, at)
               /\ Apart(segs, at) => Apart(r, at)
               /\ \A i \in DOMAIN segs : r[i].id = segs[i].id
<1> DEFINE r == PlacedAt(segs, at)
           y == computeYPositions(g)
<1>1. Laid(segs) /\ DOMAIN segs = 1 .. Len(segs) /\ Len(segs) \in Nat
  BY LayoutLaid
<1>2. \A i \in DOMAIN segs : SegmentFits(segs[i], g, y)
  BY DEF IsLayout
<1>3. DOMAIN r = DOMAIN segs
  BY DEF PlacedAt
<1>4. ASSUME NEW i \in DOMAIN segs
      PROVE  /\ r[i] = [id |-> segs[i].id, hashes |-> segs[i].hashes, lane |-> segs[i].lane,
                        isMain |-> segs[i].isMain, minY |-> segs[i].minY, maxY |-> segs[i].maxY,
                        extMinY |-> segs[i].extMinY, extMaxY |-> segs[i].extMaxY,
                        label |-> segs[i].label, position |-> at[i]]
  <2> DEFINE s == segs[i]
  <2>1. IsSegment(s)
    BY <1>2 DEF SegmentFits
  <2>2. r[i] = [s EXCEPT !.position = at[i]]
    BY DEF PlacedAt
  <2> HIDE DEF s, r
  <2>3. [s EXCEPT !.position = at[i]] =
            [id |-> s.id, hashes |-> s.hashes, lane |-> s.lane, isMain |-> s.isMain,
             minY |-> s.minY, maxY |-> s.maxY, extMinY |-> s.extMinY, extMaxY |-> s.extMaxY,
             label |-> s.label, position |-> at[i]]
    BY <2>1 DEF IsSegment
  <2> QED BY <2>2, <2>3 DEF s
<1>5. r = [i \in DOMAIN segs |-> r[i]]
  BY DEF PlacedAt
<1> HIDE DEF r, y
<1>6. ASSUME NEW i \in DOMAIN segs
      PROVE  /\ r[i].id = segs[i].id /\ r[i].hashes = segs[i].hashes /\ r[i].isMain = segs[i].isMain
             /\ r[i].minY = segs[i].minY /\ r[i].maxY = segs[i].maxY
             /\ r[i].extMinY = segs[i].extMinY /\ r[i].extMaxY = segs[i].extMaxY
             /\ r[i].position = at[i] /\ IsSegment(r[i])
  <2> DEFINE s == segs[i]
             t == r[i]
  <2>1. t = [id |-> s.id, hashes |-> s.hashes, lane |-> s.lane, isMain |-> s.isMain,
             minY |-> s.minY, maxY |-> s.maxY, extMinY |-> s.extMinY, extMaxY |-> s.extMaxY,
             label |-> s.label, position |-> at[i]]
    BY <1>4
  <2> HIDE DEF s, t
  <2>2. /\ t.id = s.id /\ t.hashes = s.hashes /\ t.lane = s.lane /\ t.isMain = s.isMain
        /\ t.minY = s.minY /\ t.maxY = s.maxY /\ t.extMinY = s.extMinY /\ t.extMaxY = s.extMaxY
        /\ t.label = s.label /\ t.position = at[i]
    BY <2>1
  <2>3. IsSegment(t)
    BY <2>1, <2>2 DEF IsSegment
  <2> QED BY <2>2, <2>3 DEF s, t
<1>7. \A i \in DOMAIN segs : SegmentFits(r[i], g, y)
  BY <1>2, <1>6 DEF SegmentFits
<1>8. r \in Seq(ToSet(r))
  <2>1. r \in [1 .. Len(segs) -> ToSet(r)]
    BY <1>1, <1>5 DEF ToSet
  <2> QED BY <1>1, <2>1, SeqDef
<1>9. IsLayout(r, g)
  <2>1. \A h \in g.commits : \E i \in DOMAIN r : h \in r[i].hashes
    BY <1>3, <1>6 DEF IsLayout
  <2>2. \A i, j \in DOMAIN r : \A h \in g.commits :
            h \in r[i].hashes /\ h \in r[j].hashes => i = j
    BY <1>3, <1>6 DEF IsLayout
  <2>3. \A i, j \in DOMAIN r : r[i].isMain /\ r[j].isMain => i = j
    BY <1>3, <1>6 DEF IsLayout
  <2> QED BY <1>3, <1>7, <1>8, <2>1, <2>2, <2>3 DEF IsLayout, y
<1>10. PositionsOf(r) = at /\ at \in Places(r)
  BY <1>3, <1>6 DEF PositionsOf, Places
<1>11. MainsHome(segs, at) => MainsHome(r, at)
  BY <1>3, <1>6 DEF MainsHome
<1>12. Apart(segs, at) => Apart(r, at)
  BY <1>3, <1>6 DEF Apart, Collide, segmentsOverlapY
<1> QED BY <1>3, <1>6, <1>9, <1>10, <1>11, <1>12 DEF r

LEMMA RememberedIs ==
    ASSUME NEW segs, Laid(segs), PositionsOf(segs) \in Places(segs), NEW before
    PROVE  /\ IsMemory(Remembered(before, segs))
           /\ \A k \in DOMAIN Remembered(before, segs) :
                  \E i \in DOMAIN segs : segs[i].id = Remembered(before, segs)[k].id
<1> DEFINE order == PlacingOrder(before, segs)
           m == Remembered(before, segs)
<1>1. order \in Seq(DOMAIN segs)
  BY PlacingOrderIs
<1>2. m = [k \in DOMAIN order |-> [id |-> segs[order[k]].id, label |-> segs[order[k]].label,
                                   position |-> segs[order[k]].position]]
  BY DEF Remembered
<1> HIDE DEF order, m
<1>3. Len(order) \in Nat /\ DOMAIN order = 1 .. Len(order)
  BY <1>1
<1>4. ASSUME NEW k \in DOMAIN order
      PROVE  IsEntry(m[k]) /\ \E i \in DOMAIN segs : segs[i].id = m[k].id
  <2>1. order[k] \in DOMAIN segs
    BY <1>1
  <2>2. segs[order[k]].position \in Int
    BY <2>1 DEF PositionsOf, Places
  <2>3. m[k] = [id |-> segs[order[k]].id, label |-> segs[order[k]].label,
                position |-> segs[order[k]].position]
    BY <1>2
  <2> QED BY <2>1, <2>2, <2>3 DEF IsEntry
<1>5. m \in Seq(ToSet(m))
  <2>1. m \in [1 .. Len(order) -> ToSet(m)]
    BY <1>2, <1>3 DEF ToSet
  <2> QED BY <1>3, <2>1, SeqDef
<1>6. DOMAIN m = DOMAIN order
  BY <1>2
<1> QED BY <1>4, <1>5, <1>6 DEF IsMemory, m

-----------------------------------------------------------------------------
(* The invariant of the lanes.                                             *)

LaneInv ==
    /\ IsHistory(graph)
    /\ IsLayout(segments, graph)
    /\ PositionsOf(segments) \in Places(segments)
    /\ MainsHome(segments, PositionsOf(segments))
    /\ Apart(segments, PositionsOf(segments))
    /\ IsMemory(placed)
    /\ \A k \in DOMAIN placed : \E i \in DOMAIN segments : segments[i].id = placed[k].id
    /\ DOMAIN index = graph.commits
    /\ DOMAIN nodes \subseteq graph.commits

LEMMA InitLanes == Init => LaneInv
<1> SUFFICES ASSUME Init PROVE LaneInv
  OBVIOUS
<1>1. NoGraph.commits = {} /\ NoGraph.branches = <<>>
  BY DEF NoGraph
<1>2. IsHistory(NoGraph)
  <2>1. [h \in {} |-> 1] \in [{} -> 1 .. Cardinality({})]
    OBVIOUS
  <2>2. IsFiniteSet({})
    BY FS_EmptySet
  <2>3. \E generation \in [NoGraph.commits -> 1 .. Cardinality(NoGraph.commits)] :
           \A h \in NoGraph.commits : \A p \in ParentsIn(NoGraph, h) : generation[p] < generation[h]
    BY <1>1, <2>1
  <2>4. NoGraph.branches \in Seq(ToSet(NoGraph.branches))
    BY <1>1
  <2> QED BY <1>1, <2>2, <2>3, <2>4 DEF IsHistory
<1>3. DOMAIN segments = {} /\ segments = <<>>
  BY DEF Init
<1>4. IsLayout(segments, graph)
  BY <1>1, <1>3 DEF Init, IsLayout
<1>5. PositionsOf(segments) \in Places(segments) /\ MainsHome(segments, PositionsOf(segments))
      /\ Apart(segments, PositionsOf(segments))
  BY <1>3 DEF PositionsOf, Places, MainsHome, Apart
<1>6. IsMemory(placed) /\ DOMAIN placed = {} /\ DOMAIN index = {} /\ DOMAIN nodes = {}
  BY DEF Init, IsMemory
<1> QED BY <1>1, <1>2, <1>4, <1>5, <1>6 DEF LaneInv, Init

(* A layout with assigned places.                                          *)
LEMMA AssignedLayout ==
    ASSUME NEW segs, NEW g, IsLayout(segs, g), NEW before, IsMemory(before),
           PositionsOf(segs) \in Places(segs), MainsHome(segs, PositionsOf(segs))
    PROVE  LET r == assignSegmentPositions(before, segs)
           IN  /\ IsLayout(r, g)
               /\ PositionsOf(r) \in Places(r) /\ MainsHome(r, PositionsOf(r)) /\ Apart(r, PositionsOf(r))
<1>1. Laid(segs)
  BY LayoutLaid
<1>2. PICK at : AssignedAt(assignSegmentPositions(before, segs), segs, at)
  BY <1>1, AssignIs
<1>3. assignSegmentPositions(before, segs) = PlacedAt(segs, at) /\ at \in Places(segs)
      /\ MainsHome(segs, at) /\ Apart(segs, at)
  BY <1>2 DEF AssignedAt
<1>4. /\ IsLayout(PlacedAt(segs, at), g) /\ PositionsOf(PlacedAt(segs, at)) = at
      /\ at \in Places(PlacedAt(segs, at)) /\ MainsHome(PlacedAt(segs, at), at) /\ Apart(PlacedAt(segs, at), at)
  BY <1>3, PlacedAtIs
<1> QED BY <1>3, <1>4

LEMMA UpdateLanes ==
    ASSUME LaneInv, NEW g, IsHistory(g), NEW rows, Update(g, rows)
    PROVE  LaneInv'
<1> DEFINE b == buildSegments(g)
           segs == assignSegmentPositions(placed, b)
<1>1. IsLayout(b, g) /\ \A i \in DOMAIN b : b[i].position = 0
  BY SegmentsAre
<1>2. PositionsOf(b) \in Places(b) /\ MainsHome(b, PositionsOf(b))
  BY <1>1 DEF PositionsOf, Places, MainsHome
<1> HIDE DEF b
<1>3. /\ IsLayout(segs, g)
      /\ PositionsOf(segs) \in Places(segs) /\ MainsHome(segs, PositionsOf(segs))
      /\ Apart(segs, PositionsOf(segs))
  BY <1>1, <1>2, AssignedLayout DEF LaneInv
<1>4. /\ graph' = g /\ segments' = segs /\ placed' = Remembered(placed, segs)
      /\ index' = computeXPositions(segs, g.commits)
      /\ nodes' = computeXPositions(segs, FirstRows(g, rows))
  BY DEF Update, LaidOut, b
<1> HIDE DEF segs
<1>5. /\ IsMemory(placed')
      /\ \A k \in DOMAIN placed' : \E i \in DOMAIN segs : segs[i].id = placed'[k].id
  <2>1. Laid(segs)
    BY <1>3, LayoutLaid
  <2> QED BY <1>3, <1>4, <2>1, RememberedIs
<1>6. DOMAIN index' = g.commits /\ DOMAIN nodes' \subseteq g.commits
  BY <1>4 DEF computeXPositions, FirstRows
<1>7. /\ IsHistory(graph') /\ IsLayout(segments', graph')
      /\ PositionsOf(segments') \in Places(segments')
      /\ MainsHome(segments', PositionsOf(segments')) /\ Apart(segments', PositionsOf(segments'))
      /\ IsMemory(placed')
      /\ \A k \in DOMAIN placed' : \E i \in DOMAIN segments' : segments'[i].id = placed'[k].id
      /\ DOMAIN index' = graph'.commits /\ DOMAIN nodes' \subseteq graph'.commits
  BY <1>3, <1>4, <1>5, <1>6
<1> QED BY <1>7 DEF LaneInv

LEMMA ScrollLanes ==
    ASSUME LaneInv, NEW rows, Scroll(rows)
    PROVE  LaneInv'
<1>1. UNCHANGED <<graph, segments, placed, index>> /\ DOMAIN nodes' \subseteq graph.commits
  BY DEF Scroll, FirstRows
<1>2. /\ IsHistory(graph') /\ IsLayout(segments', graph')
      /\ PositionsOf(segments') \in Places(segments')
      /\ MainsHome(segments', PositionsOf(segments')) /\ Apart(segments', PositionsOf(segments'))
      /\ IsMemory(placed')
      /\ \A k \in DOMAIN placed' : \E i \in DOMAIN segments' : segments'[i].id = placed'[k].id
      /\ DOMAIN index' = graph'.commits /\ DOMAIN nodes' \subseteq graph'.commits
  BY <1>1 DEF LaneInv
<1> QED BY <1>2 DEF LaneInv

LEMMA RebalanceLanes ==
    ASSUME LaneInv, rebalance
    PROVE  LaneInv'
<1> DEFINE segs == assignSegmentPositions(<<>>, segments)
<1>1. IsMemory(<<>>)
  BY DEF IsMemory
<1>2. /\ IsLayout(segs, graph)
      /\ PositionsOf(segs) \in Places(segs) /\ MainsHome(segs, PositionsOf(segs))
      /\ Apart(segs, PositionsOf(segs))
  BY <1>1, AssignedLayout DEF LaneInv
<1>3. /\ segments' = segs /\ placed' = Remembered(<<>>, segs)
      /\ nodes' = computeXPositions(segs, DOMAIN nodes) /\ UNCHANGED <<graph, index>>
  BY DEF rebalance
<1> HIDE DEF segs
<1>4. /\ IsMemory(placed')
      /\ \A k \in DOMAIN placed' : \E i \in DOMAIN segs : segs[i].id = placed'[k].id
  <2>1. Laid(segs)
    BY <1>2, LayoutLaid
  <2> QED BY <1>2, <1>3, <2>1, RememberedIs
<1>5. DOMAIN nodes' = DOMAIN nodes
  BY <1>3 DEF computeXPositions
<1>6. /\ IsHistory(graph') /\ IsLayout(segments', graph')
      /\ PositionsOf(segments') \in Places(segments')
      /\ MainsHome(segments', PositionsOf(segments')) /\ Apart(segments', PositionsOf(segments'))
      /\ IsMemory(placed')
      /\ \A k \in DOMAIN placed' : \E i \in DOMAIN segments' : segments'[i].id = placed'[k].id
      /\ DOMAIN index' = graph'.commits /\ DOMAIN nodes' \subseteq graph'.commits
  BY <1>2, <1>3, <1>4, <1>5 DEF LaneInv
<1> QED BY <1>6 DEF LaneInv

(* A header is dragged: what is in the way is pushed on.                   *)
LEMMA DraggedPlaces ==
    ASSUME LaneInv, NEW i \in DOMAIN segments, ~segments[i].isMain, NEW target \in Int, target # 0,
           NEW d \in {1, -1}
    PROVE  LET at == [PositionsOf(segments) EXCEPT ![i] = target]
               c == Cleared(segments, pushSegment(segments, d), i, target, at)
           IN  c \in Places(segments) /\ MainsHome(segments, c) /\ Apart(segments, c)
<1> DEFINE D == DOMAIN segments
           pos == PositionsOf(segments)
           at == [pos EXCEPT ![i] = target]
           P == pushSegment(segments, d)
           c == Cleared(segments, P, i, target, at)
           n == Len(segments)
<1>1. Laid(segments) /\ D = 1 .. n /\ n \in Nat
  BY LayoutLaid DEF LaneInv
<1>2. /\ pos \in Places(segments) /\ MainsHome(segments, pos) /\ Apart(segments, pos)
  BY DEF LaneInv
<1> HIDE DEF pos, n
<1>3. /\ at \in Places(segments) /\ at[i] = target /\ \A x \in D \ {i} : at[x] = pos[x]
      /\ MainsHome(segments, at)
  BY <1>2 DEF Places, MainsHome
<1>4. P \in PushFcns(segments) /\ GoodPush(segments, d, P, n)
  BY <1>1, PushSegmentIs DEF n
<1>5. Cardinality({x \in D \ {i} : ~Further(d, target, at[x])}) <= n
  <2> DEFINE waiting == {x \in D \ {i} : ~Further(d, target, at[x])}
  <2>1. IsFiniteSet(1 .. n) /\ Cardinality(1 .. n) = n
    BY <1>1, FS_Interval
  <2>2. waiting \subseteq 1 .. n
    BY <1>1
  <2> HIDE DEF waiting
  <2>3. Cardinality(waiting) <= n
    BY <2>1, <2>2, FS_Subset
  <2> QED BY <2>3 DEF waiting
<1> HIDE DEF at, P
<1>6. ~Further(d, at[i], target)
  BY <1>3, Directions
<1>7. ClearedUpto(segments, d, i, target, at, c, n)
  BY <1>1, <1>3, <1>4, <1>5, <1>6, ClearedRight DEF n
<1> HIDE DEF c
<1>8. c \in Places(segments) /\ c[i] = target
  BY <1>3, <1>7 DEF ClearedUpto
<1>9. MainsHome(segments, c)
  BY <1>3, <1>7 DEF ClearedUpto, MainsHome
<1>10. ASSUME NEW x \in D, NEW z \in D, x < z, Collide(segments, c, x, z) PROVE FALSE
  <2>1. x # z /\ Meet(segments, c, x, z) /\ Overlap(segments, z, x)
    <3>1. x # z
      BY <1>1, <1>10
    <3> QED BY <1>10, <3>1 DEF Collide, Meet, Overlap, segmentsOverlapY
  <2>2. \A j \in D \ {i} : Overlap(segments, i, j) => c[j] # target
    BY <1>1, <1>7 DEF ClearedUpto
  <2>3. x # i /\ z # i
    BY <1>8, <2>1, <2>2 DEF Meet
  <2>4. Meet(segments, at, x, z)
    BY <1>7, <2>1, <2>3 DEF ClearedUpto
  <2>5. Collide(segments, pos, x, z)
    BY <1>3, <1>10, <2>3, <2>4 DEF Meet, Collide, Overlap
  <2> QED BY <1>2, <1>10, <2>5 DEF Apart
<1>11. Apart(segments, c)
  BY <1>10 DEF Apart
<1> QED BY <1>8, <1>9, <1>11 DEF c, at, P, pos

LEMMA MoveLanes ==
    ASSUME LaneInv, NEW h, NEW target \in Int, moveSegment(h, target)
    PROVE  LaneInv'
<1> DEFINE i == CHOOSE j \in DOMAIN segments : h \in segments[j].hashes
           old == segments[i].position
           d == IF old > target THEN 1 ELSE -1
           at == [PositionsOf(segments) EXCEPT ![i] = target]
           c == Cleared(segments, pushSegment(segments, d), i, target, at)
           moved == PlacedAt(segments, c)
<1>1. /\ target # 0 /\ h \in graph.commits /\ ~segments[i].isMain
      /\ segments' = moved /\ placed' = RememberedMoves(placed, moved)
      /\ nodes' = computeXPositions(moved, DOMAIN nodes) /\ UNCHANGED <<graph, index>>
  BY DEF moveSegment
<1>2. i \in DOMAIN segments
  <2>1. \E j \in DOMAIN segments : h \in segments[j].hashes
    BY <1>1 DEF LaneInv, IsLayout
  <2> QED BY <2>1
<1>3. d \in {1, -1}
  OBVIOUS
<1> HIDE DEF i, d
<1>4. c \in Places(segments) /\ MainsHome(segments, c) /\ Apart(segments, c)
  BY <1>1, <1>2, <1>3, DraggedPlaces
<1> HIDE DEF c
<1>5. /\ IsLayout(moved, graph) /\ DOMAIN moved = DOMAIN segments /\ PositionsOf(moved) = c
      /\ c \in Places(moved) /\ MainsHome(moved, c) /\ Apart(moved, c)
      /\ \A j \in DOMAIN segments : moved[j].id = segments[j].id
  <2>1. IsLayout(segments, graph)
    BY DEF LaneInv
  <2> QED BY <1>4, <2>1, PlacedAtIs
<1> HIDE DEF moved
<1>6. ASSUME NEW k \in DOMAIN placed
      PROVE  IsEntry(placed'[k]) /\ placed'[k].id = placed[k].id
  <2> DEFINE e == placed[k]
             s == CHOOSE s \in ToSet(moved) : s.id = e.id
  <2>1. placed'[k] = [e EXCEPT !.position = s.position]
    BY <1>1 DEF RememberedMoves
  <2>2. IsEntry(e) /\ \E j \in DOMAIN segments : segments[j].id = e.id
    BY DEF LaneInv, IsMemory
  <2>3. PICK j \in DOMAIN moved : moved[j].id = e.id
    BY <1>5, <2>2
  <2>4. s \in ToSet(moved)
    BY <2>3 DEF ToSet
  <2>5. PICK l \in DOMAIN moved : s = moved[l]
    BY <2>4 DEF ToSet
  <2>6. s.position \in Int
    BY <1>5, <2>5 DEF PositionsOf, Places
  <2> HIDE DEF e, s
  <2>7. placed'[k] = [id |-> e.id, label |-> e.label, position |-> s.position]
    BY <2>1, <2>2 DEF IsEntry
  <2> QED BY <2>6, <2>7 DEF IsEntry, e
<1>7. DOMAIN placed' = DOMAIN placed /\ placed' \in Seq(ToSet(placed'))
  <2>1. DOMAIN placed' = DOMAIN placed /\ placed' = [k \in DOMAIN placed |-> placed'[k]]
    BY <1>1 DEF RememberedMoves
  <2>2. DOMAIN placed = 1 .. Len(placed) /\ Len(placed) \in Nat
    BY DEF LaneInv, IsMemory
  <2>3. placed' \in [1 .. Len(placed) -> ToSet(placed')]
    BY <2>1, <2>2 DEF ToSet
  <2> QED BY <2>1, <2>2, <2>3, SeqDef
<1>8. \A k \in DOMAIN placed' : \E j \in DOMAIN moved : moved[j].id = placed'[k].id
  BY <1>5, <1>6, <1>7 DEF LaneInv
<1>9. DOMAIN nodes' = DOMAIN nodes
  BY <1>1 DEF computeXPositions
<1>10. IsMemory(placed')
  BY <1>6, <1>7 DEF IsMemory
<1>11. /\ IsHistory(graph') /\ IsLayout(segments', graph')
       /\ PositionsOf(segments') \in Places(segments')
       /\ MainsHome(segments', PositionsOf(segments')) /\ Apart(segments', PositionsOf(segments'))
       /\ \A k \in DOMAIN placed' : \E j \in DOMAIN segments' : segments'[j].id = placed'[k].id
       /\ DOMAIN index' = graph'.commits /\ DOMAIN nodes' \subseteq graph'.commits
  BY <1>1, <1>5, <1>8, <1>9 DEF LaneInv
<1> QED BY <1>10, <1>11 DEF LaneInv

LEMMA NextLanes == LaneInv /\ Next => LaneInv'
<1> SUFFICES ASSUME LaneInv, Next PROVE LaneInv'
  OBVIOUS
<1>1. \A g \in Graphs : IsHistory(g)
  BY GraphsAssumption
<1>2. CASE \E g \in Graphs : Update(g, Cardinality(g.commits))
  BY <1>1, <1>2, UpdateLanes
<1>3. CASE \E g \in {graph} \cup {change[2] : change \in {c \in Changes : c[1] = graph}} :
               Update(g, Cardinality(g.commits))
  <2>1. \A change \in Changes : change[2] \in Graphs
    BY ChangesAssumption
  <2>2. PICK g : Update(g, Cardinality(g.commits)) /\ (g = graph \/ g \in Graphs)
    BY <1>3, <2>1
  <2>3. IsHistory(g)
    BY <1>1, <2>2 DEF LaneInv
  <2> QED BY <2>2, <2>3, UpdateLanes
<1>4. CASE \E rows \in Rows : Scroll(rows)
  BY <1>4, ScrollLanes
<1>5. CASE \E s \in ToSet(segments), target \in Positions : moveSegment(s.id, target)
  <2>1. Positions \subseteq Int
    BY PositionsAssumption
  <2>2. PICK s \in ToSet(segments), target \in Positions : moveSegment(s.id, target)
    BY <1>5
  <2> QED BY <2>1, <2>2, MoveLanes
<1>6. CASE rebalance
  BY <1>6, RebalanceLanes
<1> QED BY <1>2, <1>3, <1>4, <1>5, <1>6 DEF Next

(* The lanes keep their invariant, whichever view a behaviour is of.       *)
THEOREM LanesInvariant == ViewsSpec => []LaneInv
<1>1. ViewsInit => LaneInv
  BY InitLanes DEF ViewsInit
<1>2. LaneInv /\ [ViewsNext]_views => LaneInv'
  <2> SUFFICES ASSUME LaneInv, [ViewsNext]_views PROVE LaneInv'
    OBVIOUS
  <2>1. CASE OfLanes
    BY <2>1, NextLanes DEF OfLanes
  <2>2. CASE UNCHANGED vars
    BY <2>2 DEF LaneInv, vars
  <2>3. ViewsNext => OfLanes \/ UNCHANGED vars
    BY DEF ViewsNext, OfAnalytics
  <2> QED BY <2>1, <2>2, <2>3 DEF views
<1> QED BY <1>1, <1>2, PTL DEF ViewsSpec

(* A commit is drawn above its parents, whatever its clock said            *)
(* (_computeYPositions).                                                   *)
THEOREM ParentsAlwaysBelow == ViewsSpec => []ParentsBelow
<1>1. LaneInv => ParentsBelow
  BY RowsDescend DEF LaneInv, ParentsBelow
<1> QED BY <1>1, LanesInvariant, PTL

(* Two segments at one position never overlap, however they were dragged,  *)
(* pushed, restored or placed (moveSegment, _resolveAllCollisions).        *)
THEOREM NeverOverlap == ViewsSpec => []NoOverlap
<1>1. LaneInv => NoOverlap
  <2> SUFFICES ASSUME LaneInv, NEW s \in ToSet(segments), NEW t \in ToSet(segments),
                      s # t, s.position = t.position, segmentsOverlapY(s, t)
               PROVE  FALSE
    BY DEF NoOverlap
  <2>1. PICK i \in DOMAIN segments, j \in DOMAIN segments : s = segments[i] /\ t = segments[j]
    BY DEF ToSet
  <2>2. DOMAIN segments \subseteq Int
    <3>1. DOMAIN segments = 1 .. Len(segments)
      BY LayoutLaid DEF LaneInv
    <3> QED BY <3>1
  <2>3. i # j /\ ~(segments[i].isMain /\ segments[j].isMain)
    BY <2>1 DEF LaneInv, IsLayout
  <2>4. Collide(segments, PositionsOf(segments), i, j) /\ Collide(segments, PositionsOf(segments), j, i)
    BY <2>1, <2>3 DEF Collide, PositionsOf, segmentsOverlapY
  <2> QED BY <2>2, <2>3, <2>4 DEF LaneInv, Apart
<1> QED BY <1>1, LanesInvariant, PTL

(* Every commit has a place, and every drawn commit is one of the graph.   *)
THEOREM LaneTypes == ViewsSpec => []TypeOK
<1>1. LaneInv => TypeOK
  <2> SUFFICES ASSUME LaneInv PROVE TypeOK
    OBVIOUS
  <2>1. UNION {s.hashes : s \in ToSet(segments)} = graph.commits
    BY DEF LaneInv, IsLayout, SegmentFits, ToSet
  <2>2. \A e \in ToSet(placed) : e.position \in Int
    BY DEF LaneInv, IsMemory, IsEntry, ToSet
  <2> QED BY <2>1, <2>2 DEF LaneInv, TypeOK
<1> QED BY <1>1, LanesInvariant, PTL

-----------------------------------------------------------------------------
(* The bodies of the lanes: a clip moves the ends of two bars and neither  *)
(* the commits of one nor where its lane proper starts and ends.           *)

SameLane(b, c) == b.hashes = c.hashes /\ b.coreMinY = c.coreMinY /\ b.coreMaxY = c.coreMaxY

Bars(H) == [hashes : SUBSET H, minY : Int, maxY : Int, coreMinY : Int, coreMaxY : Int]
(* What bars may be clipped to.                                            *)
ClippedTo(bars, H) == {c \in [DOMAIN bars -> Bars(H)] : \A i \in DOMAIN bars : SameLane(c[i], bars[i])}

LEMMA ClipKeeps ==
    ASSUME NEW H, NEW bars \in Seq(Bars(H)), NEW c \in ClippedTo(bars, H), NEW i \in 1 .. Len(bars)
    PROVE  Clip(c, i) \in ClippedTo(bars, H)
<1>1. Len(bars) \in Nat /\ DOMAIN bars = 1 .. Len(bars)
  OBVIOUS
<1>2. c \in [1 .. Len(bars) -> Bars(H)] /\ \A j \in 1 .. Len(bars) : SameLane(c[j], bars[j])
  BY <1>1 DEF ClippedTo
<1>3. Len(c) = Len(bars)
  <2>1. c \in Seq(Bars(H)) /\ DOMAIN c = 1 .. Len(bars)
    BY <1>1, <1>2, SeqDef
  <2> QED BY <1>1, <2>1
<1>4. CASE i = Len(c) \/ c[i].maxY + Pad <= c[i + 1].minY - Pad
  BY <1>4 DEF Clip
<1>5. CASE ~(i = Len(c) \/ c[i].maxY + Pad <= c[i + 1].minY - Pad)
  <2> DEFINE mid == (c[i].coreMaxY + c[i + 1].coreMinY) \div 2
             above == [c[i] EXCEPT !.maxY = Max({c[i].coreMaxY, mid - Pad})]
             below == [c[i + 1] EXCEPT !.minY = Min({c[i + 1].coreMinY, mid + Pad})]
             r == Clip(c, i)
  <2>1. i \in 1 .. Len(bars) /\ i + 1 \in 1 .. Len(bars) /\ i # i + 1
    <3>1. i # Len(bars)
      BY <1>3, <1>5
    <3>2. \A n \in Nat : i \in 1 .. n /\ i # n => i + 1 \in 1 .. n /\ i # i + 1
      OBVIOUS
    <3> QED BY <1>1, <3>1, <3>2, Zenon
  <2>2. c[i] \in Bars(H) /\ c[i + 1] \in Bars(H)
    BY <1>2, <2>1
  <2>3. mid \in Int /\ Pad \in Int /\ mid - Pad \in Int /\ mid + Pad \in Int
    <3>1. c[i].coreMaxY \in Int /\ c[i + 1].coreMinY \in Int
      BY <2>2 DEF Bars
    <3>2. \A a, b \in Int : (a + b) \div 2 \in Int
      OBVIOUS
    <3>3. mid \in Int
      BY <3>1, <3>2
    <3> HIDE DEF mid
    <3> QED BY <3>3 DEF Pad
  <2> HIDE DEF mid
  <2>4. Max({c[i].coreMaxY, mid - Pad}) \in Int /\ Min({c[i + 1].coreMinY, mid + Pad}) \in Int
    BY <2>2, <2>3, MinMaxOfTwo DEF Bars
  <2>5. above \in Bars(H) /\ SameLane(above, c[i])
    BY <2>2, <2>4 DEF Bars, SameLane
  <2>6. below \in Bars(H) /\ SameLane(below, c[i + 1])
    BY <2>2, <2>4 DEF Bars, SameLane
  <2>7. r = [c EXCEPT ![i].maxY = Max({c[i].coreMaxY, mid - Pad}),
                      ![i + 1].minY = Min({c[i + 1].coreMinY, mid + Pad})]
    BY <1>5 DEF Clip, mid
  <2>8. r = [[c EXCEPT ![i] = above] EXCEPT ![i + 1] = below]
    BY <1>2, <2>1, <2>7
  <2> HIDE DEF above, below, r
  <2>9. r \in [1 .. Len(bars) -> Bars(H)]
    BY <1>2, <2>1, <2>5, <2>6, <2>8
  <2>10. ASSUME NEW j \in 1 .. Len(bars) PROVE SameLane(r[j], bars[j])
    <3>1. j # i /\ j # i + 1 => r[j] = c[j]
      BY <1>2, <2>1, <2>8
    <3>2. r[i] = above /\ r[i + 1] = below
      BY <1>2, <2>1, <2>8
    <3> QED BY <1>2, <2>1, <2>5, <2>6, <3>1, <3>2 DEF SameLane
  <2> QED BY <1>1, <2>9, <2>10 DEF ClippedTo, r
<1> QED BY <1>4, <1>5

BarsAt(segs, here) ==
    [n \in DOMAIN here |->
        [hashes |-> segs[here[n]].hashes,
         minY |-> segs[here[n]].extMinY, maxY |-> segs[here[n]].extMaxY,
         coreMinY |-> segs[here[n]].minY, coreMaxY |-> segs[here[n]].maxY]]
IsClipping(c, bars) ==
    c = [i \in 0 .. Len(bars) |-> IF i = 0 THEN bars ELSE Clip(c[i - 1], i)]

LEMMA ClippedIs ==
    ASSUME NEW H, NEW bars \in Seq(Bars(H)), NEW c, IsClipping(c, bars)
    PROVE  c[Len(bars)] \in ClippedTo(bars, H)
<1> DEFINE n == Len(bars)
           T == ClippedTo(bars, H)
           step == [i \in 1 .. n |-> [b \in T |-> Clip(b, i)]]
<1>1. n \in Nat /\ DOMAIN bars = 1 .. n
  OBVIOUS
<1>2. bars \in T
  <2>1. bars \in [1 .. n -> Bars(H)]
    BY <1>1
  <2> QED BY <1>1, <2>1 DEF ClippedTo, SameLane
<1>3. Keeps(step, n, T)
  <2>1. \A i \in 1 .. n : \A b \in T : Clip(b, i) \in T
    BY ClipKeeps
  <2> HIDE DEF T, n
  <2> QED BY <2>1 DEF Keeps
<1>4. c = [i \in 0 .. n |-> IF i = 0 THEN bars ELSE Clip(c[i - 1], i)]
  BY DEF IsClipping
<1> HIDE DEF n, T
<1>5. IsIteration(c, step, n, T, bars)
  <2>1. c[0] = bars /\ \A i \in 1 .. n : c[i] = Clip(c[i - 1], i)
    BY <1>1, <1>4
  <2>2. \A i \in 1 .. n : c[i - 1] \in T => c[i] = step[i][c[i - 1]]
    BY <2>1
  <2>3. c = [i \in 0 .. n |-> c[i]]
    BY <1>4
  <2> HIDE DEF step
  <2>4. Follows(c, step, n, T, bars)
    BY <2>1, <2>2, <2>3 DEF Follows
  <2> QED BY <1>1, <1>2, <1>3, <2>4, Following
<1>6. c[n] \in T
  BY <1>1, <1>5 DEF IsIteration
<1> QED BY <1>6 DEF n, T

LEMMA ClippingExists ==
    ASSUME NEW H, NEW bars \in Seq(Bars(H))
    PROVE  \E c : IsClipping(c, bars)
<1> DEFINE n == Len(bars)
           T == ClippedTo(bars, H)
           step == [i \in 1 .. n |-> [b \in T |-> Clip(b, i)]]
<1>1. n \in Nat /\ DOMAIN bars = 1 .. n
  OBVIOUS
<1>2. bars \in T
  <2>1. bars \in [1 .. n -> Bars(H)]
    BY <1>1
  <2> QED BY <1>1, <2>1 DEF ClippedTo, SameLane
<1>3. Keeps(step, n, T)
  <2>1. \A i \in 1 .. n : \A b \in T : Clip(b, i) \in T
    BY ClipKeeps
  <2> HIDE DEF T, n
  <2> QED BY <2>1 DEF Keeps
<1> HIDE DEF n, T
<1>4. PICK f : IsIteration(f, step, n, T, bars)
  <2> HIDE DEF step
  <2> QED BY <1>1, <1>2, <1>3, Iterated
<1>5. ASSUME NEW i \in 1 .. n PROVE f[i] = Clip(f[i - 1], i)
  <2>1. i - 1 \in 0 .. n /\ f[i - 1] \in T
    BY <1>1, <1>4 DEF IsIteration
  <2> QED BY <1>4, <2>1 DEF IsIteration
<1>6. \A i \in 0 .. n : f[i] = IF i = 0 THEN bars ELSE Clip(f[i - 1], i)
  BY <1>1, <1>4, <1>5 DEF IsIteration
<1>7. IsClipping(f, bars)
  BY <1>4, <1>6 DEF IsIteration, IsClipping, n
<1> QED BY <1>7

LEMMA LaneInfoIs ==
    ASSUME NEW segs, NEW g, IsLayout(segs, g), NEW k \in DOMAIN segs
    PROVE  \E b \in ToSet(buildLaneInfo(segs, segs[k].position)) :
               /\ b.hashes = segs[k].hashes /\ b.minY \in Int /\ b.maxY \in Int
               /\ b.coreMinY = segs[k].minY /\ b.coreMaxY = segs[k].maxY
<1> DEFINE S == {i \in DOMAIN segs : segs[i].position = segs[k].position}
           here == Ascending(S)
           bars == BarsAt(segs, here)
           c == CHOOSE c : IsClipping(c, bars)
           info == buildLaneInfo(segs, segs[k].position)
           H == g.commits
<1>1. info = c[Len(bars)]
  BY DEF buildLaneInfo, BarsAt, IsClipping
<1>2. S \in SUBSET Int /\ IsFiniteSet(S)
  <2>1. DOMAIN segs = 1 .. Len(segs) /\ Len(segs) \in Nat
    BY LayoutLaid
  <2>2. IsFiniteSet(1 .. Len(segs))
    BY <2>1, FS_Interval
  <2>3. S \subseteq 1 .. Len(segs)
    BY <2>1
  <2> QED BY <2>2, <2>3, FS_Subset
<1>3. k \in S
  OBVIOUS
<1>4. S \subseteq DOMAIN segs
  OBVIOUS
<1> HIDE DEF S
<1>5. /\ here \in Seq(S) /\ \E m \in DOMAIN here : here[m] = k
      /\ Len(here) \in Nat /\ DOMAIN here = 1 .. Len(here)
  BY <1>2, <1>3, AscendingIs
<1> HIDE DEF here, c, info
<1>6. ASSUME NEW m \in DOMAIN here
      PROVE  /\ bars[m] \in Bars(H) /\ bars[m].hashes = segs[here[m]].hashes
             /\ bars[m].coreMinY = segs[here[m]].minY /\ bars[m].coreMaxY = segs[here[m]].maxY
  <2> DEFINE s == segs[here[m]]
  <2>1. here[m] \in DOMAIN segs
    BY <1>4, <1>5
  <2>2. SegmentFits(s, g, computeYPositions(g))
    BY <2>1 DEF IsLayout
  <2>3. bars[m] = [hashes |-> s.hashes, minY |-> s.extMinY, maxY |-> s.extMaxY,
                   coreMinY |-> s.minY, coreMaxY |-> s.maxY]
    BY DEF BarsAt
  <2> HIDE DEF s, bars
  <2> QED BY <2>2, <2>3 DEF SegmentFits, Bars, s
<1>7. bars = [m \in DOMAIN here |-> bars[m]] /\ DOMAIN bars = DOMAIN here
  BY DEF BarsAt
<1> HIDE DEF bars
<1>8. bars \in Seq(Bars(H)) /\ Len(bars) \in Nat
  <2>1. bars \in [1 .. Len(here) -> Bars(H)]
    BY <1>5, <1>6, <1>7
  <2>2. bars \in Seq(Bars(H))
    BY <1>5, <2>1, SeqDef
  <2> QED BY <2>2
<1>9. IsClipping(c, bars)
  BY <1>8, ClippingExists DEF c
<1>10. info \in ClippedTo(bars, H)
  BY <1>1, <1>8, <1>9, ClippedIs
<1>11. PICK m \in DOMAIN here : here[m] = k
  BY <1>5
<1>12. info[m] \in Bars(H) /\ SameLane(info[m], bars[m]) /\ m \in DOMAIN info
  BY <1>7, <1>10 DEF ClippedTo
<1>13. info[m] \in ToSet(info)
  BY <1>12 DEF ToSet
<1>14. /\ info[m].hashes = segs[k].hashes /\ info[m].minY \in Int /\ info[m].maxY \in Int
       /\ info[m].coreMinY = segs[k].minY /\ info[m].coreMaxY = segs[k].maxY
  BY <1>6, <1>11, <1>12 DEF Bars, SameLane
<1> QED BY <1>13, <1>14 DEF info

(* The body of a lane holds its commits' own places, however its           *)
(* background was clipped by its neighbours.                               *)
LEMMA BodyHolds ==
    ASSUME NEW g, IsHistory(g), NEW segs, IsLayout(segs, g), NEW h \in g.commits
    PROVE  h \in findLaneBodyAt(segs, SegmentOf(segs, h).position, computeYPositions(g)[h])
<1> DEFINE row == computeYPositions(g)
           s == SegmentOf(segs, h)
           bars == buildLaneInfo(segs, s.position)
<1>1. s \in ToSet(segs) /\ h \in s.hashes
  <2>1. \E t \in ToSet(segs) : h \in t.hashes
    BY DEF IsLayout, ToSet
  <2> QED BY <2>1 DEF SegmentOf
<1> HIDE DEF s
<1>2. PICK k \in DOMAIN segs : s = segs[k]
  BY <1>1 DEF ToSet
<1>3. SegmentFits(s, g, row)
  BY <1>2 DEF IsLayout
<1>4. s.minY \in Int /\ s.maxY \in Int /\ s.minY <= row[h] /\ row[h] <= s.maxY
  BY <1>1, <1>3 DEF SegmentFits
<1>5. row[h] \in Int
  BY RowsDescend
<1> HIDE DEF row
<1>6. PICK b \in ToSet(bars) :
          /\ b.hashes = s.hashes /\ b.minY \in Int /\ b.maxY \in Int
          /\ b.coreMinY = s.minY /\ b.coreMaxY = s.maxY
  BY <1>2, LaneInfoIs
<1>7. BodyContains(b, row[h])
  <2> DEFINE low == Min({b.minY + Pad, b.coreMinY})
             high == Max({b.maxY - Pad, b.coreMaxY})
  <2>1. b.minY + Pad \in Int /\ b.maxY - Pad \in Int /\ b.coreMinY \in Int /\ b.coreMaxY \in Int
    BY <1>4, <1>6 DEF Pad
  <2>2. low \in Int /\ low <= b.coreMinY /\ high \in Int /\ b.coreMaxY <= high
    BY <2>1, MinMaxOfTwo
  <2> HIDE DEF low, high
  <2>3. row[h] >= low /\ row[h] <= high
    BY <1>4, <1>5, <1>6, <2>1, <2>2
  <2> QED BY <2>3 DEF BodyContains, low, high
<1>8. findLaneBodyAt(segs, s.position, row[h]) = UNION {x.hashes : x \in ToSet(bars)}
  BY <1>7 DEF findLaneBodyAt
<1>9. h \in UNION {x.hashes : x \in ToSet(bars)}
  BY <1>1, <1>6
<1> QED BY <1>8, <1>9 DEF s, row

(* A step that draws commits takes their places from the segments as they  *)
(* then are; a scroll, which moves none, from the index.                   *)
LEMMA DrawnWhere ==
    ASSUME Next, NEW h \in DOMAIN nodes'
    PROVE  \/ nodes'[h] = SegmentOf(segments', h).position
           \/ segments' = segments /\ nodes'[h] = index'[h]
<1>1. ASSUME NEW D, nodes' = computeXPositions(segments', D)
      PROVE  nodes'[h] = SegmentOf(segments', h).position
  BY <1>1 DEF computeXPositions
<1>2. ASSUME NEW g, NEW rows, Update(g, rows)
      PROVE  nodes'[h] = SegmentOf(segments', h).position
  <2>1. nodes' = computeXPositions(segments', FirstRows(g, rows))
    BY <1>2 DEF Update, LaidOut
  <2> QED BY <1>1, <2>1
<1>3. ASSUME NEW rows, Scroll(rows)
      PROVE  segments' = segments /\ nodes'[h] = index'[h]
  BY <1>3 DEF Scroll
<1>4. ASSUME NEW c, NEW target, moveSegment(c, target)
      PROVE  nodes'[h] = SegmentOf(segments', h).position
  <2>1. nodes' = computeXPositions(segments', DOMAIN nodes)
    BY <1>4 DEF moveSegment
  <2> QED BY <1>1, <2>1
<1>5. ASSUME rebalance PROVE nodes'[h] = SegmentOf(segments', h).position
  <2>1. nodes' = computeXPositions(segments', DOMAIN nodes)
    BY <1>5 DEF rebalance
  <2> QED BY <1>1, <2>1
<1> QED BY <1>2, <1>3, <1>4, <1>5 DEF Next

(* Wherever the lanes were laid out, dragged, pushed or rebalanced to, a   *)
(* click where a commit is drawn finds its lane; after a scroll too, save  *)
(* for a commit whose lane moved since the index was built                 *)
(* (moveSegment, _buildLaneInfo, findLaneBodyAt, CommitIndex).             *)
THEOREM CommitsAlwaysHit == ViewsSpec => DrawnHitTheirLane
<1>1. LaneInv /\ LaneInv' /\ [ViewsNext]_views => [HitWhereDrawn]_vars
  <2> SUFFICES ASSUME LaneInv, LaneInv', [ViewsNext]_views, vars' # vars PROVE HitWhereDrawn
    OBVIOUS
  <2>1. Next
    BY DEF ViewsNext, OfLanes, OfAnalytics, views
  <2> SUFFICES ASSUME NEW h \in DOMAIN nodes',
                      segments' # segments \/ index'[h] = SegmentOf(segments', h).position
               PROVE  h \in findLaneBodyAt(segments', nodes'[h], computeYPositions(graph')[h])
    BY DEF HitWhereDrawn
  <2>2. nodes'[h] = SegmentOf(segments', h).position
    BY <2>1, DrawnWhere
  <2>3. h \in graph'.commits /\ IsHistory(graph') /\ IsLayout(segments', graph')
    BY DEF LaneInv
  <2>4. h \in findLaneBodyAt(segments', SegmentOf(segments', h).position, computeYPositions(graph')[h])
    BY <2>3, BodyHolds
  <2> QED BY <2>2, <2>4
<1> QED BY <1>1, LanesInvariant, PTL DEF ViewsSpec, DrawnHitTheirLane

-----------------------------------------------------------------------------
(* The analytics view: what is under way is accounted for.  A panel is a   *)
(* record of which the proofs know these fields.                           *)

PanelCore == {"sections", "empty", "loading", "inflight", "statsIs", "statsNote", "hydrating",
              "attempted", "commits"}
Whole(p) == PanelCore \subseteq DOMAIN p

Asked(p, what) == {r \in DOMAIN p.inflight : r.what = what}
Single(p, what) == \E r : Asked(p, what) = {r} /\ p.inflight[r] = 1
Counted(p) == \A r \in DOMAIN p.inflight : p.inflight[r] \in Nat \ {0}

(* No commit is in two batches, nor in one that waits and asked for.       *)
IsPlan(r, attempted) ==
    /\ r.rest \in Seq(ToSet(r.rest)) /\ IsFiniteSet(ToSet(r.batch))
    /\ \A i \in DOMAIN r.rest : IsFiniteSet(ToSet(r.rest[i])) /\ ToSet(r.rest[i]) \cap attempted = {}
    /\ \A i, j \in DOMAIN r.rest : i # j => ToSet(r.rest[i]) \cap ToSet(r.rest[j]) = {}

(* The conjuncts: of the two flags, and of what is shown.                  *)
StatsKnown(p) ==
    /\ p.statsIs = "loading" => Single(p, "stats")
    /\ p.statsIs # "loading" => Asked(p, "stats") = {}
    /\ p.statsNote = "loading" => p.statsIs = "loading"
AuthorsKnown(p) ==
    /\ p.hydrating = TRUE => Single(p, "identities")
    /\ p.hydrating # TRUE => Asked(p, "identities") = {}
    /\ p.hydrating \in BOOLEAN
    /\ \A r \in Asked(p, "identities") : IsPlan(r, p.attempted)
Known(p) == /\ Whole(p) /\ Counted(p) /\ StatsKnown(p) /\ AuthorsKnown(p)
            /\ IsFiniteSet(DOMAIN p.commits)

Says(p) == /\ p.sections \in BOOLEAN /\ p.empty \in BOOLEAN /\ p.loading \in BOOLEAN
           /\ p.sections = TRUE \/ p.empty = TRUE \/ p.loading = TRUE
IsUpdating(r) == r.what \in {"analytics", "identities"} /\ r.for.fn = "update"
Ends(p) == p.loading = TRUE => \E r \in DOMAIN p.inflight : IsUpdating(r)

Accounted(p) == Known(p) /\ Says(p) /\ Ends(p)

(* The same for these proofs.                                              *)
Alike(p, q) ==
    /\ Whole(q)
    /\ q.inflight = p.inflight /\ q.statsIs = p.statsIs /\ q.statsNote = p.statsNote
    /\ q.hydrating = p.hydrating /\ q.attempted = p.attempted /\ q.commits = p.commits
SameLooks(p, q) == q.sections = p.sections /\ q.empty = p.empty /\ q.loading = p.loading

LEMMA AlikeKnown ==
    ASSUME NEW p, Known(p), NEW q, Alike(p, q)
    PROVE  Known(q)
BY DEF Known, Alike, Counted, StatsKnown, AuthorsKnown, Single, Asked

(* Requests are sent.                                                      *)
AskedFor(p, q, R) ==
    /\ Whole(q) /\ SameLooks(p, q)
    /\ q.statsIs = p.statsIs /\ q.statsNote = p.statsNote /\ q.hydrating = p.hydrating
    /\ q.attempted = p.attempted /\ q.commits = p.commits
    /\ DOMAIN q.inflight = DOMAIN p.inflight \cup R
    /\ Counted(q)
    /\ \A r \in DOMAIN q.inflight : ~(r \in DOMAIN p.inflight /\ r \in R) =>
           q.inflight[r] = IF r \in R THEN 1 ELSE p.inflight[r]

LEMMA AskIs ==
    ASSUME NEW p, Whole(p), Counted(p), NEW R
    PROVE  AskedFor(p, Analytics!AskEach(p, R), R)
<1> DEFINE q == Analytics!AskEach(p, R)
           b == [r \in DOMAIN p.inflight \cup R |->
                    (IF r \in DOMAIN p.inflight THEN p.inflight[r] ELSE 0) + (IF r \in R THEN 1 ELSE 0)]
<1>1. q = [p EXCEPT !.inflight = b]
  BY DEF Analytics!AskEach, Analytics!\oplus, Analytics!SetToBag
<1>2. DOMAIN b = DOMAIN p.inflight \cup R
  OBVIOUS
<1>3. ASSUME NEW r \in DOMAIN b
      PROVE  /\ b[r] \in Nat \ {0}
             /\ ~(r \in DOMAIN p.inflight /\ r \in R) => b[r] = IF r \in R THEN 1 ELSE p.inflight[r]
  <2>1. b[r] = (IF r \in DOMAIN p.inflight THEN p.inflight[r] ELSE 0) + (IF r \in R THEN 1 ELSE 0)
    OBVIOUS
  <2>2. r \in DOMAIN p.inflight => p.inflight[r] \in Nat \ {0}
    BY DEF Counted
  <2>3. r \in DOMAIN p.inflight \/ r \in R
    OBVIOUS
  <2> HIDE DEF b
  <2> QED BY <2>1, <2>2, <2>3
<1> HIDE DEF b, q
<1>4. q.inflight = b /\ Whole(q) /\ SameLooks(p, q)
  BY <1>1 DEF Whole, PanelCore, SameLooks
<1>5. /\ q.statsIs = p.statsIs /\ q.statsNote = p.statsNote /\ q.hydrating = p.hydrating
      /\ q.attempted = p.attempted /\ q.commits = p.commits
  BY <1>1 DEF Whole, PanelCore
<1> QED BY <1>2, <1>3, <1>4, <1>5 DEF AskedFor, Counted, q

(* An answer is taken.                                                     *)
AnsweredTo(p, q, r) ==
    /\ Whole(q) /\ SameLooks(p, q)
    /\ q.statsIs = p.statsIs /\ q.statsNote = p.statsNote /\ q.hydrating = p.hydrating
    /\ q.attempted = p.attempted /\ q.commits = p.commits
    /\ DOMAIN q.inflight \subseteq DOMAIN p.inflight
    /\ Counted(q)
    /\ p.inflight[r] = 1 => r \notin DOMAIN q.inflight
    /\ \A x \in DOMAIN p.inflight \ {r} : x \in DOMAIN q.inflight /\ q.inflight[x] = p.inflight[x]

LEMMA AnsweredIs ==
    ASSUME NEW p, Whole(p), Counted(p), NEW r \in DOMAIN p.inflight
    PROVE  AnsweredTo(p, Analytics!Answered(p, r), r)
<1> DEFINE q == Analytics!Answered(p, r)
           c == [x \in DOMAIN p.inflight |-> IF x \in {r} THEN p.inflight[x] - 1 ELSE p.inflight[x]]
           b == [x \in {d \in DOMAIN c : c[d] > 0} |-> c[x]]
<1>1. q = [p EXCEPT !.inflight = b]
  <2>1. \A x \in {r} : Analytics!SetToBag({r})[x] = 1
    BY DEF Analytics!SetToBag
  <2>2. DOMAIN Analytics!SetToBag({r}) = {r}
    BY DEF Analytics!SetToBag
  <2>3. Analytics!\ominus(p.inflight, Analytics!SetToBag({r})) = b
    BY <2>1, <2>2 DEF Analytics!\ominus
  <2> QED BY <2>3 DEF Analytics!Answered
<1>2. ASSUME NEW x \in DOMAIN p.inflight
      PROVE  /\ x # r => x \in DOMAIN b /\ b[x] = p.inflight[x]
             /\ x \in DOMAIN b => b[x] \in Nat \ {0}
             /\ x = r /\ p.inflight[r] = 1 => x \notin DOMAIN b
  <2>1. p.inflight[x] \in Nat \ {0}
    BY DEF Counted
  <2>2. c[x] = IF x = r THEN p.inflight[x] - 1 ELSE p.inflight[x]
    OBVIOUS
  <2>3. x \in DOMAIN b <=> c[x] > 0
    OBVIOUS
  <2>4. x \in DOMAIN b => b[x] = c[x]
    OBVIOUS
  <2> HIDE DEF b, c
  <2> QED BY <2>1, <2>2, <2>3, <2>4
<1>3. DOMAIN b \subseteq DOMAIN p.inflight
  OBVIOUS
<1> HIDE DEF b, q
<1>4. q.inflight = b /\ Whole(q) /\ SameLooks(p, q)
  BY <1>1 DEF Whole, PanelCore, SameLooks
<1>5. /\ q.statsIs = p.statsIs /\ q.statsNote = p.statsNote /\ q.hydrating = p.hydrating
      /\ q.attempted = p.attempted /\ q.commits = p.commits
  BY <1>1 DEF Whole, PanelCore
<1> QED BY <1>2, <1>3, <1>4, <1>5 DEF AnsweredTo, Counted, q

(* What it looks like stays, and no request is taken.                      *)
Onward(p, q) == Known(q) /\ SameLooks(p, q) /\ DOMAIN p.inflight \subseteq DOMAIN q.inflight

LEMMA OnwardAccounted ==
    ASSUME NEW p, Accounted(p), NEW q, Onward(p, q)
    PROVE  Accounted(q)
BY DEF Accounted, Onward, SameLooks, Says, Ends

LEMMA OnwardChain ==
    ASSUME NEW p, NEW q, NEW r, Onward(p, q), Onward(q, r)
    PROVE  Onward(p, r)
BY DEF Onward, SameLooks

LEMMA AlikeOnward ==
    ASSUME NEW p, Known(p), NEW q, Alike(p, q), SameLooks(p, q)
    PROVE  Onward(p, q)
BY AlikeKnown DEF Onward, Alike

(* Requests for the server's statistics.                                   *)
LEMMA AskAnalytics ==
    ASSUME NEW p, Known(p), NEW R, \A r \in R : r.what = "analytics"
    PROVE  LET q == Analytics!AskEach(p, R)
           IN  Onward(p, q) /\ R \subseteq DOMAIN q.inflight
<1> DEFINE q == Analytics!AskEach(p, R)
<1>1. AskedFor(p, q, R)
  BY AskIs DEF Known
<1> HIDE DEF q
<1>2. ASSUME NEW what \in {"stats", "identities"}
      PROVE  Asked(q, what) = Asked(p, what) /\ (Single(p, what) => Single(q, what))
  <2>1. \A r \in Asked(q, what) : r \notin R
    BY DEF Asked
  <2>2. Asked(q, what) = Asked(p, what)
    BY <1>1, <2>1 DEF AskedFor, Asked
  <2>3. \A r \in Asked(p, what) : q.inflight[r] = p.inflight[r]
    BY <1>1, <2>1, <2>2 DEF AskedFor, Asked
  <2> QED BY <2>2, <2>3 DEF Single
<1>3. StatsKnown(q) /\ AuthorsKnown(q)
  BY <1>1, <1>2 DEF Known, AskedFor, StatsKnown, AuthorsKnown
<1> QED BY <1>1, <1>3 DEF Onward, Known, AskedFor, q

(* The first request of a kind.                                            *)
LEMMA AskFirst ==
    ASSUME NEW p, Whole(p), Counted(p), NEW r, Asked(p, r.what) = {}
    PROVE  LET q == Analytics!Ask(p, r)
           IN  /\ AskedFor(p, q, {r}) /\ Single(q, r.what) /\ Asked(q, r.what) = {r}
               /\ \A what : what # r.what =>
                      Asked(q, what) = Asked(p, what) /\ (Single(p, what) => Single(q, what))
<1> DEFINE q == Analytics!Ask(p, r)
<1>1. AskedFor(p, q, {r})
  BY AskIs DEF Analytics!Ask
<1> HIDE DEF q
<1>2. r \notin DOMAIN p.inflight
  BY DEF Asked
<1>3. Asked(q, r.what) = {r} /\ q.inflight[r] = 1
  BY <1>1, <1>2 DEF AskedFor, Asked
<1>4. ASSUME NEW what, what # r.what
      PROVE  Asked(q, what) = Asked(p, what) /\ (Single(p, what) => Single(q, what))
  <2>1. Asked(q, what) = Asked(p, what)
    BY <1>1, <1>4 DEF AskedFor, Asked
  <2>2. \A x \in Asked(p, what) : q.inflight[x] = p.inflight[x]
    BY <1>1, <1>4, <2>1 DEF AskedFor, Asked
  <2> QED BY <2>1, <2>2 DEF Single
<1> QED BY <1>1, <1>3, <1>4 DEF Single, q

LEMMA LoadOnward ==
    ASSUME NEW p, Known(p)
    PROVE  Onward(p, Analytics!loadDiffStats(p))
<1> DEFINE idle == Analytics!updateDiffStatsUI([p EXCEPT !.statsIs = "idle"])
           begun == Analytics!updateDiffStatsUI([p EXCEPT !.statsIs = "loading"])
           r == [what |-> "stats", asked |-> server.version]
           q == Analytics!Ask(begun, r)
<1>1. CASE p.stats # Analytics!Nothing \/ p.statsIs = "loading"
  BY <1>1 DEF Analytics!loadDiffStats, Onward, SameLooks
<1>2. Whole(p) /\ Counted(p) /\ StatsKnown(p) /\ AuthorsKnown(p) /\ IsFiniteSet(DOMAIN p.commits)
  BY DEF Known
<1>3. CASE p.stats = Analytics!Nothing /\ p.statsIs # "loading" /\ p.commits = <<>>
  <2>1. Analytics!loadDiffStats(p) = idle
    BY <1>3 DEF Analytics!loadDiffStats
  <2>2. /\ Whole(idle) /\ SameLooks(p, idle) /\ idle.inflight = p.inflight /\ idle.statsIs = "idle"
        /\ idle.statsNote = "idle" /\ idle.hydrating = p.hydrating /\ idle.attempted = p.attempted
        /\ idle.commits = p.commits
    BY <1>2 DEF Whole, PanelCore, SameLooks, Analytics!updateDiffStatsUI
  <2> HIDE DEF idle
  <2>3. Asked(p, "stats") = {}
    BY <1>2, <1>3 DEF StatsKnown
  <2>4. Known(idle)
    BY <1>2, <2>2, <2>3 DEF Known, Counted, StatsKnown, AuthorsKnown, Asked, Single
  <2> QED BY <2>1, <2>2, <2>4 DEF Onward
<1>4. CASE p.stats = Analytics!Nothing /\ p.statsIs # "loading" /\ p.commits # <<>>
  <2>1. Analytics!loadDiffStats(p) = q
    BY <1>4 DEF Analytics!loadDiffStats
  <2>2. /\ Whole(begun) /\ SameLooks(p, begun) /\ begun.inflight = p.inflight
        /\ begun.statsIs = "loading" /\ begun.statsNote = "loading"
        /\ begun.hydrating = p.hydrating /\ begun.attempted = p.attempted
        /\ begun.commits = p.commits
    BY <1>2 DEF Whole, PanelCore, SameLooks, Analytics!updateDiffStatsUI
  <2>3. r.what = "stats" /\ r.what # "identities"
    OBVIOUS
  <2> HIDE DEF begun, r, q
  <2>4. Asked(begun, r.what) = {} /\ Counted(begun)
    BY <1>2, <1>4, <2>2, <2>3 DEF StatsKnown, Asked, Counted
  <2>5. /\ AskedFor(begun, q, {r}) /\ Single(q, "stats")
        /\ Asked(q, "identities") = Asked(begun, "identities")
        /\ Single(begun, "identities") => Single(q, "identities")
    BY <2>2, <2>3, <2>4, AskFirst DEF q
  <2>6. /\ Whole(q) /\ Counted(q) /\ SameLooks(p, q) /\ q.statsIs = "loading"
        /\ q.statsNote = "loading" /\ q.hydrating = p.hydrating /\ q.attempted = p.attempted
        /\ q.commits = p.commits /\ DOMAIN p.inflight \subseteq DOMAIN q.inflight
    BY <2>2, <2>5 DEF AskedFor, SameLooks
  <2>7. AuthorsKnown(q)
    BY <1>2, <2>2, <2>5, <2>6 DEF AuthorsKnown, Asked, Single
  <2> QED BY <1>2, <2>1, <2>5, <2>6, <2>7 DEF Onward, Known, StatsKnown
<1> QED BY <1>1, <1>3, <1>4

LEMMA RedrawOnward ==
    ASSUME NEW p, Known(p)
    PROVE  Onward(p, Analytics!redrawDiffStatsCharts(p))
<1> DEFINE x == Analytics!SizesOf(p.commits, p.stats.files, Cutoffs[Analytics!PresetOf(p.selected)])
           q == [p EXCEPT !.sizes = x]
<1>1. Analytics!redrawDiffStatsCharts(p) \in {p, q}
  BY DEF Analytics!redrawDiffStatsCharts
<1> HIDE DEF x
<1>2. Alike(p, q) /\ SameLooks(p, q) /\ Alike(p, p) /\ SameLooks(p, p)
  BY DEF Known, Whole, PanelCore, Alike, SameLooks
<1> QED BY <1>1, <1>2, AlikeOnward

(* What ends an update.                                                    *)
Showing(p) == p.sections \in BOOLEAN /\ p.empty \in BOOLEAN /\ (p.sections = TRUE \/ p.empty = TRUE)

LEMMA DoneAccounted ==
    ASSUME NEW p, Known(p), Showing(p)
    PROVE  Accounted(Analytics!DoneLoading(p))
<1> DEFINE q == Analytics!DoneLoading(p)
<1>1. Alike(p, q) /\ q.sections = p.sections /\ q.empty = p.empty /\ q.loading = FALSE
  BY DEF Known, Whole, PanelCore, Alike, Analytics!DoneLoading
<1> HIDE DEF q
<1>2. Known(q)
  BY <1>1, AlikeKnown
<1> QED BY <1>1, <1>2 DEF Accounted, Says, Ends, Showing, q

LEMMA LocallyAccounted ==
    ASSUME NEW p, Known(p), NEW period
    PROVE  Accounted(Analytics!DrawLocally(p, period))
<1> DEFINE x == Analytics!MainOf(p.commits, Cutoffs[period])
           q == [Analytics!showSections(p) EXCEPT !.main = x, !.signals = Analytics!Nothing]
           r == IF p.stats = Analytics!Nothing THEN Analytics!loadDiffStats(q) ELSE Analytics!redrawDiffStatsCharts(q)
<1>1. Analytics!DrawLocally(p, period) = Analytics!DoneLoading(r)
  BY DEF Analytics!DrawLocally
<1> HIDE DEF x
<1>2. Alike(p, q) /\ Showing(q)
  BY DEF Known, Whole, PanelCore, Alike, Showing, Analytics!showSections
<1> HIDE DEF q
<1>3. Known(q)
  BY <1>2, AlikeKnown
<1>4. Onward(q, r)
  BY <1>3, LoadOnward, RedrawOnward
<1> HIDE DEF r
<1>5. Known(r) /\ Showing(r)
  BY <1>2, <1>4 DEF Onward, SameLooks, Showing
<1> QED BY <1>1, <1>5, DoneAccounted

LEMMA PayloadAccounted ==
    ASSUME NEW p, Known(p), NEW payload, NEW period
    PROVE  Accounted(Analytics!RenderPayload(p, payload, period))
<1> DEFINE x == [from |-> "server", of |-> payload]
           note == IF period = "Custom" THEN payload.key ELSE "none"
           q == [Analytics!showSections(p) EXCEPT !.main = x, !.sizes = x, !.signals = x,
                                                  !.statsNote = "idle", !.note = note]
<1>1. Analytics!RenderPayload(p, payload, period) = Analytics!DoneLoading(q)
  BY DEF Analytics!RenderPayload
<1> HIDE DEF x, note
<1>2. /\ Whole(q) /\ Showing(q) /\ q.inflight = p.inflight /\ q.statsIs = p.statsIs
      /\ q.statsNote = "idle" /\ q.hydrating = p.hydrating /\ q.attempted = p.attempted
      /\ q.commits = p.commits
  BY DEF Known, Whole, PanelCore, Showing, Analytics!showSections
<1> HIDE DEF q
<1>3. Known(q)
  BY <1>2 DEF Known, Counted, StatsKnown, AuthorsKnown, Asked, Single
<1> QED BY <1>1, <1>2, <1>3, DoneAccounted

(* What an update shows that begins or fails.                              *)
LEMMA LooksKnown ==
    ASSUME NEW p, Known(p)
    PROVE  /\ Known(Analytics!showSections(p)) /\ Showing(Analytics!showSections(p))
           /\ Alike(p, Analytics!showSections(p)) /\ Analytics!showSections(p).loading = p.loading
           /\ Known(Analytics!ShowEmpty(p)) /\ Showing(Analytics!ShowEmpty(p))
           /\ Known(Analytics!ShowLoading(p)) /\ Says(Analytics!ShowLoading(p))
<1>1. /\ Alike(p, Analytics!showSections(p)) /\ Showing(Analytics!showSections(p))
      /\ Analytics!showSections(p).loading = p.loading
  BY DEF Known, Whole, PanelCore, Alike, Showing, Analytics!showSections
<1>2. Alike(p, Analytics!ShowEmpty(p)) /\ Showing(Analytics!ShowEmpty(p))
  BY DEF Known, Whole, PanelCore, Alike, Showing, Analytics!ShowEmpty
<1>3. Alike(p, Analytics!ShowLoading(p)) /\ Says(Analytics!ShowLoading(p))
  BY DEF Known, Whole, PanelCore, Alike, Says, Analytics!ShowLoading
<1> QED BY <1>1, <1>2, <1>3, AlikeKnown

(* A batch of commits is asked for; the batches still to send are a plan.  *)
PlanOf(batches, attempted) ==
    /\ batches \in Seq(ToSet(batches))
    /\ \A i \in DOMAIN batches : IsFiniteSet(ToSet(batches[i])) /\ ToSet(batches[i]) \cap attempted = {}
    /\ \A i, j \in DOMAIN batches : i # j => ToSet(batches[i]) \cap ToSet(batches[j]) = {}

LEMMA SendKnown ==
    ASSUME NEW p, Whole(p), Counted(p), StatsKnown(p), IsFiniteSet(DOMAIN p.commits),
           p.hydrating = TRUE, Asked(p, "identities") = {},
           NEW batches, batches # <<>>, PlanOf(batches, p.attempted), NEW caller
    PROVE  LET q == Analytics!SendBatch(p, batches, caller)
           IN  /\ Onward(p, q)
               /\ caller.fn = "update" => \E r \in DOMAIN q.inflight : IsUpdating(r)
<1> DEFINE came == p.attempted \cup ToSet(Head(batches))
           b == [p EXCEPT !.attempted = came]
           r == [what |-> "identities", batch |-> Head(batches), rest |-> Tail(batches), for |-> caller,
                 asked |-> server.version]
           q == Analytics!SendBatch(p, batches, caller)
<1>1. q = Analytics!Ask(b, r)
  BY DEF Analytics!SendBatch, Analytics!ToSet, ToSet
<1>2. /\ r.what = "identities" /\ r.batch = Head(batches) /\ r.rest = Tail(batches) /\ r.for = caller
  OBVIOUS
<1>3. IsPlan(r, came)
  <2> DEFINE first == Head(batches)
             rest == Tail(batches)
  <2>1. /\ first = batches[1] /\ 1 \in DOMAIN batches
        /\ \A i \in DOMAIN rest : i + 1 \in DOMAIN batches /\ rest[i] = batches[i + 1] /\ i + 1 # 1
        /\ \A i, j \in DOMAIN rest : i # j => i + 1 # j + 1
    BY DEF PlanOf
  <2>2. rest \in Seq(ToSet(rest))
    <3>1. rest \in Seq(ToSet(batches)) /\ Len(rest) \in Nat /\ DOMAIN rest = 1 .. Len(rest)
      BY DEF PlanOf
    <3> HIDE DEF rest
    <3>2. \A i \in 1 .. Len(rest) : rest[i] \in ToSet(rest)
      BY <3>1 DEF ToSet
    <3>3. rest = [i \in 1 .. Len(rest) |-> rest[i]]
      BY <3>1
    <3>4. rest \in [1 .. Len(rest) -> ToSet(rest)]
      BY <3>2, <3>3
    <3> QED BY <3>1, <3>4, SeqDef
  <2> HIDE DEF first, rest
  <2>3. \A i \in DOMAIN rest : IsFiniteSet(ToSet(rest[i])) /\ ToSet(rest[i]) \cap came = {}
    BY <2>1 DEF PlanOf, first
  <2>4. \A i, j \in DOMAIN rest : i # j => ToSet(rest[i]) \cap ToSet(rest[j]) = {}
    BY <2>1 DEF PlanOf
  <2>5. IsFiniteSet(ToSet(first))
    BY <2>1 DEF PlanOf
  <2> QED BY <1>2, <2>2, <2>3, <2>4, <2>5 DEF IsPlan, first, rest
<1> HIDE DEF came, r, q
<1>4. /\ Whole(b) /\ SameLooks(p, b) /\ b.inflight = p.inflight /\ b.statsIs = p.statsIs
      /\ b.statsNote = p.statsNote /\ b.hydrating = TRUE /\ b.attempted = came /\ b.commits = p.commits
  BY DEF Whole, PanelCore, SameLooks
<1> HIDE DEF b
<1>5. Counted(b) /\ Asked(b, r.what) = {}
  BY <1>2, <1>4 DEF Counted, Asked
<1>6. /\ AskedFor(b, q, {r}) /\ Single(q, "identities") /\ Asked(q, "identities") = {r}
      /\ Asked(q, "stats") = Asked(b, "stats") /\ (Single(b, "stats") => Single(q, "stats"))
  <2>1. r.what # "stats"
    BY <1>2
  <2>2. /\ AskedFor(b, q, {r}) /\ Single(q, r.what) /\ Asked(q, r.what) = {r}
        /\ \A what : what # r.what =>
               Asked(q, what) = Asked(b, what) /\ (Single(b, what) => Single(q, what))
    BY <1>1, <1>4, <1>5, AskFirst
  <2> QED BY <1>2, <2>1, <2>2
<1>7. StatsKnown(q)
  BY <1>4, <1>6 DEF StatsKnown, AskedFor, Asked, Single
<1>8. AuthorsKnown(q)
  BY <1>3, <1>4, <1>6 DEF AuthorsKnown, AskedFor
<1>9. Onward(p, q)
  BY <1>4, <1>6, <1>7, <1>8 DEF Onward, Known, AskedFor, SameLooks
<1>10. r \in DOMAIN q.inflight
  BY <1>6 DEF AskedFor
<1> QED BY <1>2, <1>9, <1>10 DEF IsUpdating, q

(* The commits to ask for are dealt out.                                   *)
LEMMA SetToSeqIs ==
    ASSUME NEW S, IsFiniteSet(S)
    PROVE  LET all == Analytics!SetToSeq(S)
           IN  /\ all \in Seq(S) /\ Len(all) = Cardinality(S) /\ Cardinality(S) \in Nat
               /\ \A i, j \in 1 .. Len(all) : all[i] = all[j] => i = j
<1> DEFINE all == Analytics!SetToSeq(S)
           n == Cardinality(S)
<1>1. n \in Nat
  BY FS_CardinalityType
<1>2. PICK m \in Nat : ExistsBijection(1 .. m, S)
  BY FS_NatBijection
<1>3. m = n
  BY <1>2, FS_CountingElements
<1>4. PICK f : f \in Bijection(1 .. n, S)
  BY <1>2, <1>3 DEF ExistsBijection
<1> HIDE DEF n
<1>5. f \in [1 .. n -> S] /\ Analytics!IsInjective(f)
  BY <1>4 DEF Bijection, Injection, IsInjective, Analytics!IsInjective
<1>6. all \in [1 .. n -> S] /\ Analytics!IsInjective(all)
  <2>1. all = CHOOSE g \in [1 .. n -> S] : Analytics!IsInjective(g)
    BY DEF Analytics!SetToSeq, Analytics!Cardinality, Cardinality, n
  <2> HIDE DEF all
  <2> QED BY <1>5, <2>1
<1> HIDE DEF all
<1>7. all \in Seq(S) /\ DOMAIN all = 1 .. n
  BY <1>1, <1>6, SeqDef
<1>8. Len(all) = n
  BY <1>1, <1>7
<1> QED BY <1>1, <1>6, <1>7, <1>8 DEF Analytics!IsInjective, all, n

LEMMA BatchesIs ==
    ASSUME NEW S, IsFiniteSet(S), S # {}, NEW attempted, S \cap attempted = {},
           HydrateChunk \in Nat \ {0}
    PROVE  LET batches == Analytics!Batches(S)
           IN  batches # <<>> /\ PlanOf(batches, attempted)
<1> DEFINE all == Analytics!SetToSeq(S)
           C == HydrateChunk
           number == (Len(all) + C - 1) \div C
           from(i) == (i - 1) * C + 1
           to(i) == Analytics!Min({i * C, Len(all)})
           batch(i) == SubSeq(all, from(i), to(i))
           batches == Analytics!Batches(S)
<1>1. batches = [i \in 1 .. number |-> batch(i)]
  BY DEF Analytics!Batches
<1>2. /\ all \in Seq(S) /\ Len(all) \in Nat /\ DOMAIN all = 1 .. Len(all)
      /\ \A i, j \in 1 .. Len(all) : all[i] = all[j] => i = j
      /\ Len(all) > 0
  <2>1. Cardinality(S) # 0
    BY FS_EmptySet
  <2> HIDE DEF all
  <2>2. /\ all \in Seq(S) /\ Len(all) = Cardinality(S) /\ Cardinality(S) \in Nat
        /\ \A i, j \in 1 .. Len(all) : all[i] = all[j] => i = j
    BY SetToSeqIs DEF all
  <2> QED BY <2>1, <2>2
<1> HIDE DEF all
<1>3. number \in Nat /\ number >= 1
  <2>1. \A n \in Nat \ {0}, c \in Nat \ {0} : (n + c - 1) \div c \in Nat /\ (n + c - 1) \div c >= 1
    OBVIOUS
  <2> QED BY <1>2, <2>1
<1> HIDE DEF number
<1>4. ASSUME NEW i \in 1 .. number
      PROVE  /\ from(i) \in Nat /\ from(i) >= 1 /\ i * C \in Nat
             /\ to(i) \in Nat /\ to(i) <= Len(all) /\ to(i) <= i * C
  <2>1. \A c, m \in Nat : m * c \in Nat
    OBVIOUS
  <2>2. i - 1 \in Nat /\ i \in Nat
    BY <1>3
  <2>3. (i - 1) * C \in Nat /\ i * C \in Nat
    BY <2>1, <2>2
  <2>4. Analytics!Min({i * C, Len(all)}) = IF i * C <= Len(all) THEN i * C ELSE Len(all)
    <3>1. \A a, b \in Nat : Analytics!Min({a, b}) = IF a <= b THEN a ELSE b
      BY DEF Analytics!Min
    <3> QED BY <1>2, <2>3, <3>1
  <2> QED BY <1>2, <2>3, <2>4
<1>5. ASSUME NEW i \in 1 .. number
      PROVE  /\ \A x \in DOMAIN batch(i) : \E k \in 1 .. Len(all) :
                    batch(i)[x] = all[k] /\ from(i) <= k /\ k <= i * C
             /\ batch(i) \in Seq(S)
  <2> DEFINE m == from(i)
             n == to(i)
  <2>1. m \in Nat /\ m >= 1 /\ n \in Nat /\ n <= Len(all) /\ n <= i * C /\ i * C \in Nat
    BY <1>4
  <2> HIDE DEF m, n
  <2>2. /\ SubSeq(all, m, n) \in Seq(S)
        /\ \A x \in DOMAIN SubSeq(all, m, n) :
               x \in 1 .. n - m + 1 /\ SubSeq(all, m, n)[x] = all[m + x - 1]
    <3>1. m .. n \subseteq 1 .. Len(all)
      BY <1>2, <2>1
    <3> QED BY <1>2, <2>1, <3>1
  <2>3. ASSUME NEW x \in DOMAIN SubSeq(all, m, n)
        PROVE  \E k \in 1 .. Len(all) :
                   SubSeq(all, m, n)[x] = all[k] /\ m <= k /\ k <= i * C
    <3>1. m + x - 1 \in 1 .. Len(all) /\ m <= m + x - 1 /\ m + x - 1 <= i * C
      BY <1>2, <2>1, <2>2
    <3> QED BY <2>2, <3>1
  <2> QED BY <2>2, <2>3 DEF m, n
<1> HIDE DEF from, to
<1>6. ASSUME NEW i \in 1 .. number, NEW j \in 1 .. number, i < j
      PROVE  ToSet(batch(i)) \cap ToSet(batch(j)) = {}
  <2>1. i * C < from(j)
    <3>1. \A a, b, c \in Nat : a <= b => a * c <= b * c
      OBVIOUS
    <3>2. i \in Nat /\ j - 1 \in Nat /\ i <= j - 1
      BY <1>3, <1>6
    <3>3. i * C <= (j - 1) * C /\ i * C \in Nat /\ (j - 1) * C \in Nat
      BY <3>1, <3>2
    <3> HIDE DEF C
    <3> QED BY <3>3 DEF from
  <2>2. ASSUME NEW h \in ToSet(batch(i)), h \in ToSet(batch(j)) PROVE FALSE
    <3>1. PICK k \in 1 .. Len(all) : h = all[k] /\ k <= i * C
      BY <1>5 DEF ToSet
    <3>2. PICK l \in 1 .. Len(all) : h = all[l] /\ from(j) <= l
      BY <1>5, <2>2 DEF ToSet
    <3>3. k = l
      BY <1>2, <3>1, <3>2
    <3>4. i * C \in Nat /\ from(j) \in Nat
      BY <1>4
    <3> QED BY <1>2, <2>1, <3>1, <3>2, <3>3, <3>4
  <2> QED BY <2>2
<1>7. ASSUME NEW i \in 1 .. number
      PROVE  IsFiniteSet(ToSet(batch(i))) /\ ToSet(batch(i)) \cap attempted = {}
  <2>1. ToSet(batch(i)) \subseteq S
    BY <1>5 DEF ToSet
  <2> QED BY <2>1, FS_Subset
<1> HIDE DEF batch, batches
<1>8. DOMAIN batches = 1 .. number /\ \A i \in 1 .. number : batches[i] = batch(i)
  BY <1>1
<1>9. batches \in Seq(ToSet(batches)) /\ batches # <<>>
  <2>1. \A i \in 1 .. number : batches[i] \in ToSet(batches)
    BY <1>8 DEF ToSet
  <2>2. batches \in [1 .. number -> ToSet(batches)]
    BY <1>1, <1>8, <2>1
  <2>3. batches \in Seq(ToSet(batches))
    BY <1>3, <2>2, SeqDef
  <2> QED BY <1>3, <1>8, <2>3
<1>10. ASSUME NEW i \in DOMAIN batches, NEW j \in DOMAIN batches, i # j
       PROVE  ToSet(batches[i]) \cap ToSet(batches[j]) = {}
  <2>1. i < j \/ j < i
    BY <1>3, <1>8, <1>10
  <2> QED BY <1>6, <1>8, <2>1
<1> QED BY <1>7, <1>8, <1>9, <1>10 DEF PlanOf, batches

LEMMA HydratedAccounted ==
    ASSUME NEW p, Known(p), Says(p), NEW caller, caller.fn = "update" \/ Ends(p)
    PROVE  Accounted(Analytics!Hydrated(p, caller))
BY LocallyAccounted DEF Analytics!Hydrated, Accounted

LEMMA HydrateAccounted ==
    ASSUME NEW p, Known(p), Says(p), NEW caller, caller.fn = "update" \/ Ends(p)
    PROVE  Accounted(Analytics!hydrateAuthorsForPeriod(p, caller))
<1> DEFINE missing == Analytics!Missing(p, caller.period)
           b == [p EXCEPT !.hydrating = TRUE]
           q == Analytics!SendBatch(b, Analytics!Batches(missing), caller)
<1>1. Analytics!hydrateAuthorsForPeriod(p, caller) =
          IF p.hydrating \/ missing = {} THEN Analytics!Hydrated(p, caller) ELSE q
  BY DEF Analytics!hydrateAuthorsForPeriod
<1>2. missing \subseteq DOMAIN p.commits /\ missing \cap p.attempted = {}
  BY DEF Analytics!Missing, Analytics!InPeriod
<1> HIDE DEF missing, q
<1>3. CASE p.hydrating \/ missing = {}
  BY <1>1, <1>3, HydratedAccounted
<1>4. CASE ~(p.hydrating \/ missing = {})
  <2>1. /\ Whole(p) /\ Counted(p) /\ StatsKnown(p) /\ AuthorsKnown(p)
        /\ IsFiniteSet(DOMAIN p.commits)
    BY DEF Known
  <2>2. IsFiniteSet(missing) /\ missing # {}
    BY <1>2, <1>4, <2>1, FS_Subset
  <2>3. /\ Whole(b) /\ SameLooks(p, b) /\ b.inflight = p.inflight /\ b.statsIs = p.statsIs
        /\ b.statsNote = p.statsNote /\ b.hydrating = TRUE /\ b.attempted = p.attempted
        /\ b.commits = p.commits
    BY <2>1 DEF Whole, PanelCore, SameLooks
  <2>4. p.hydrating # TRUE
    BY <1>4
  <2> HIDE DEF b
  <2>5. Counted(b) /\ StatsKnown(b) /\ Asked(b, "identities") = {}
    BY <2>1, <2>3, <2>4 DEF Counted, StatsKnown, AuthorsKnown, Asked, Single
  <2>6. HydrateChunk \in Nat \ {0}
    BY AnalyticsAssumption DEF Analytics!ViewAssumption
  <2>7. Analytics!Batches(missing) # <<>> /\ PlanOf(Analytics!Batches(missing), b.attempted)
    BY <1>2, <2>2, <2>3, <2>6, BatchesIs
  <2>8. /\ Onward(b, q)
        /\ caller.fn = "update" => \E r \in DOMAIN q.inflight : IsUpdating(r)
    BY <2>1, <2>3, <2>5, <2>7, SendKnown DEF q
  <2>9. Known(q) /\ Says(q) /\ Ends(q)
    BY <2>3, <2>8 DEF Onward, SameLooks, Says, Ends
  <2> QED BY <1>1, <1>4, <2>9 DEF Accounted
<1> QED BY <1>3, <1>4

LEMMA WithoutAccounted ==
    ASSUME NEW p, Known(p), Says(p), NEW period
    PROVE  Accounted(Analytics!WithoutPayload(p, period))
<1> DEFINE shown == Analytics!showSections(p)
           q == [shown EXCEPT !.note = "failed", !.loading = FALSE, !.signals = Analytics!Nothing]
<1>1. CASE period = "Custom"
  <2>1. Analytics!WithoutPayload(p, period) = q
    BY <1>1 DEF Analytics!WithoutPayload
  <2>2. Alike(p, q) /\ Showing(q) /\ q.loading = FALSE
    BY DEF Known, Whole, PanelCore, Alike, Showing, Analytics!showSections
  <2> HIDE DEF q
  <2>3. Known(q)
    BY <2>2, AlikeKnown
  <2> QED BY <2>1, <2>2, <2>3 DEF Accounted, Says, Ends, Showing
<1>2. CASE period # "Custom" /\ p.commits = <<>>
  <2>1. Analytics!WithoutPayload(p, period) = Analytics!DoneLoading(Analytics!ShowEmpty(p))
    BY <1>2 DEF Analytics!WithoutPayload
  <2> QED BY <2>1, LooksKnown, DoneAccounted
<1>3. CASE period # "Custom" /\ p.commits # <<>>
  <2>1. Analytics!WithoutPayload(p, period) =
            Analytics!hydrateAuthorsForPeriod(p, Analytics!ForUpdate(period))
    BY <1>3 DEF Analytics!WithoutPayload
  <2>2. Analytics!ForUpdate(period).fn = "update"
    BY DEF Analytics!ForUpdate
  <2> QED BY <2>1, <2>2, HydrateAccounted
<1> QED BY <1>1, <1>2, <1>3

LEMMA UpdateAccounted ==
    ASSUME NEW p, Accounted(p)
    PROVE  Accounted(Analytics!update(p))
<1> DEFINE begun == IF p.rendered THEN Analytics!showSections(p) ELSE Analytics!ShowLoading(p)
           key == Analytics!KeyOf(p, p.selected)
           r == Analytics!ForAnalytics(key, Analytics!ForUpdate(p.selected))
           q == Analytics!Ask(begun, r)
<1>1. Analytics!update(p) \in {p, Analytics!RenderPayload(begun, p.cache[key], p.selected), q}
  BY DEF Analytics!update
<1>2. r.what = "analytics" /\ r.for.fn = "update"
  BY DEF Analytics!ForAnalytics, Analytics!ForUpdate
<1> HIDE DEF key, r
<1>3. Known(begun) /\ Says(begun)
  BY LooksKnown DEF Accounted, Says, Showing, Alike
<1> HIDE DEF begun, q
<1>4. Accounted(Analytics!RenderPayload(begun, p.cache[key], p.selected))
  BY <1>3, PayloadAccounted
<1>5. Onward(begun, q) /\ {r} \subseteq DOMAIN q.inflight
  <2>1. \A x \in {r} : x.what = "analytics"
    BY <1>2
  <2>2. q = Analytics!AskEach(begun, {r})
    BY DEF q, Analytics!Ask
  <2> QED BY <1>3, <2>1, <2>2, AskAnalytics
<1>6. Known(q) /\ Says(q) /\ Ends(q)
  BY <1>2, <1>3, <1>5 DEF Onward, SameLooks, Says, Ends, IsUpdating
<1>7. Accounted(q)
  BY <1>6 DEF Accounted
<1> QED BY <1>1, <1>4, <1>7

LEMMA PreloadAccounted ==
    ASSUME NEW p, Accounted(p)
    PROVE  Accounted(Analytics!preloadAnalyticsOnce(p))
<1> DEFINE b == [p EXCEPT !.preloaded = TRUE]
           R == {Analytics!ForAnalytics(key, Analytics!ForPreload) : key \in DOMAIN Cutoffs \ DOMAIN b.cache}
           fetching == Analytics!AskEach(b, R)
           asking == Analytics!loadDiffStats(fetching)
<1>1. Analytics!preloadAnalyticsOnce(p) = IF p.preloaded \/ ~p.loaded THEN p ELSE Analytics!preload(b)
  BY DEF Analytics!preloadAnalyticsOnce
<1>2. Analytics!preload(b) \in {asking, Analytics!hydrateAuthorsForPeriod(asking, Analytics!ForPreload)}
  BY DEF Analytics!preload
<1>3. \A r \in R : r.what = "analytics"
  BY DEF Analytics!ForAnalytics
<1>4. Alike(p, b) /\ SameLooks(p, b)
  BY DEF Accounted, Known, Whole, PanelCore, Alike, SameLooks
<1> HIDE DEF b, R
<1>5. Onward(p, b)
  BY <1>4, AlikeOnward DEF Accounted
<1>6. Onward(b, fetching)
  BY <1>3, <1>5, AskAnalytics DEF Onward
<1> HIDE DEF fetching
<1>7. Onward(fetching, asking)
  BY <1>6, LoadOnward DEF Onward
<1> HIDE DEF asking
<1>8. Accounted(b) /\ Accounted(asking)
  BY <1>5, <1>6, <1>7, OnwardAccounted
<1>9. Accounted(Analytics!hydrateAuthorsForPeriod(asking, Analytics!ForPreload))
  BY <1>8, HydrateAccounted DEF Accounted
<1> QED BY <1>1, <1>2, <1>8, <1>9

LEMMA ToldAccounted ==
    ASSUME NEW p, Accounted(p)
    PROVE  Accounted(Analytics!Told(p))
BY UpdateAccounted, PreloadAccounted DEF Analytics!Told

LEMMA AlikeAccounted ==
    ASSUME NEW p, Accounted(p), NEW q, Alike(p, q), SameLooks(p, q)
    PROVE  Accounted(q)
BY AlikeOnward, OnwardAccounted DEF Accounted

LEMMA CommitsAccounted ==
    ASSUME NEW p, Accounted(p), NEW c, IsFiniteSet(DOMAIN c)
    PROVE  Accounted([p EXCEPT !.commits = c])
<1> DEFINE q == [p EXCEPT !.commits = c]
<1>1. /\ Whole(q) /\ SameLooks(p, q) /\ q.inflight = p.inflight /\ q.statsIs = p.statsIs
      /\ q.statsNote = p.statsNote /\ q.hydrating = p.hydrating /\ q.attempted = p.attempted
      /\ q.commits = c
  BY DEF Accounted, Known, Whole, PanelCore, SameLooks
<1> HIDE DEF q
<1>2. Known(q)
  BY <1>1 DEF Accounted, Known, Counted, StatsKnown, AuthorsKnown, Asked, Single
<1> QED BY <1>1, <1>2 DEF Accounted, SameLooks, Says, Ends, q

-----------------------------------------------------------------------------
(* Answers.                                                                *)

LEMMA AnalyticsAnswered ==
    ASSUME NEW p, Accounted(p), NEW r \in Asked(p, "analytics")
    PROVE  LET q == Analytics!Answered(p, r)
           IN  Known(q) /\ Says(q) /\ (r.for.fn # "update" => Ends(q))
<1> DEFINE q == Analytics!Answered(p, r)
<1>1. /\ Whole(p) /\ Counted(p) /\ StatsKnown(p) /\ AuthorsKnown(p)
      /\ IsFiniteSet(DOMAIN p.commits) /\ r \in DOMAIN p.inflight /\ r.what = "analytics"
  BY DEF Accounted, Known, Asked
<1>2. AnsweredTo(p, q, r)
  BY <1>1, AnsweredIs
<1> HIDE DEF q
<1>3. ASSUME NEW what, what # "analytics"
      PROVE  Asked(q, what) = Asked(p, what) /\ (Single(p, what) => Single(q, what))
  <2>1. Asked(q, what) = Asked(p, what)
    BY <1>1, <1>2, <1>3 DEF AnsweredTo, Asked
  <2>2. \A x \in Asked(p, what) : q.inflight[x] = p.inflight[x]
    BY <1>1, <1>2, <1>3 DEF AnsweredTo, Asked
  <2> QED BY <2>1, <2>2 DEF Single
<1>4. StatsKnown(q)
  BY <1>1, <1>2, <1>3 DEF StatsKnown, AnsweredTo
<1>5. AuthorsKnown(q)
  BY <1>1, <1>2, <1>3 DEF AuthorsKnown, AnsweredTo
<1>6. Known(q) /\ Says(q)
  BY <1>1, <1>2, <1>4, <1>5 DEF Known, Says, Accounted, AnsweredTo, SameLooks
<1>7. r.for.fn # "update" => Ends(q)
  BY <1>2 DEF Accounted, Ends, IsUpdating, AnsweredTo, SameLooks
<1> QED BY <1>6, <1>7 DEF q

LEMMA StatsAnswered ==
    ASSUME NEW p, Accounted(p), NEW r \in Asked(p, "stats")
    PROVE  LET q == Analytics!Answered(p, r)
           IN  /\ Whole(q) /\ Counted(q) /\ AuthorsKnown(q) /\ IsFiniteSet(DOMAIN q.commits)
               /\ Says(q) /\ Ends(q) /\ Asked(q, "stats") = {}
<1> DEFINE q == Analytics!Answered(p, r)
<1>1. /\ Whole(p) /\ Counted(p) /\ StatsKnown(p) /\ AuthorsKnown(p)
      /\ IsFiniteSet(DOMAIN p.commits) /\ r \in DOMAIN p.inflight /\ r.what = "stats"
  BY DEF Accounted, Known, Asked
<1>2. AnsweredTo(p, q, r)
  BY <1>1, AnsweredIs
<1> HIDE DEF q
<1>3. Asked(p, "stats") = {r} /\ p.inflight[r] = 1
  BY <1>1 DEF StatsKnown, Single
<1>4. Asked(q, "stats") = {}
  BY <1>2, <1>3 DEF AnsweredTo, Asked
<1>5. Asked(q, "identities") = Asked(p, "identities")
  BY <1>1, <1>2 DEF AnsweredTo, Asked
<1>6. \A x \in Asked(p, "identities") : q.inflight[x] = p.inflight[x]
  BY <1>1, <1>2 DEF AnsweredTo, Asked
<1>7. AuthorsKnown(q)
  <2>1. Single(p, "identities") => Single(q, "identities")
    BY <1>5, <1>6 DEF Single
  <2>2. q.hydrating = p.hydrating /\ q.attempted = p.attempted
    BY <1>2 DEF AnsweredTo
  <2> QED BY <1>1, <1>5, <2>1, <2>2 DEF AuthorsKnown
<1>8. Says(q) /\ Ends(q)
  BY <1>1, <1>2 DEF Accounted, Says, Ends, IsUpdating, AnsweredTo, SameLooks
<1> QED BY <1>1, <1>2, <1>4, <1>7, <1>8 DEF AnsweredTo, q

LEMMA AuthorsAnswered ==
    ASSUME NEW p, Accounted(p), NEW r \in Asked(p, "identities")
    PROVE  LET q == Analytics!Answered(p, r)
           IN  /\ Whole(q) /\ Counted(q) /\ StatsKnown(q) /\ IsFiniteSet(DOMAIN q.commits)
               /\ Says(q) /\ (r.for.fn # "update" => Ends(q))
               /\ Asked(q, "identities") = {} /\ q.hydrating = TRUE /\ IsPlan(r, q.attempted)
<1> DEFINE q == Analytics!Answered(p, r)
<1>1. /\ Whole(p) /\ Counted(p) /\ StatsKnown(p) /\ AuthorsKnown(p)
      /\ IsFiniteSet(DOMAIN p.commits) /\ r \in DOMAIN p.inflight /\ r.what = "identities"
  BY DEF Accounted, Known, Asked
<1>2. AnsweredTo(p, q, r)
  BY <1>1, AnsweredIs
<1> HIDE DEF q
<1>3. Asked(p, "identities") = {r} /\ p.inflight[r] = 1 /\ p.hydrating = TRUE
  BY <1>1 DEF AuthorsKnown, Single
<1>4. Asked(q, "identities") = {}
  BY <1>2, <1>3 DEF AnsweredTo, Asked
<1>5. Asked(q, "stats") = Asked(p, "stats")
  BY <1>1, <1>2 DEF AnsweredTo, Asked
<1>6. \A x \in Asked(p, "stats") : q.inflight[x] = p.inflight[x]
  BY <1>1, <1>2 DEF AnsweredTo, Asked
<1>7. StatsKnown(q)
  BY <1>1, <1>2, <1>5, <1>6 DEF StatsKnown, AnsweredTo, Single
<1>8. Says(q) /\ (r.for.fn # "update" => Ends(q))
  BY <1>1, <1>2 DEF Accounted, Says, Ends, IsUpdating, AnsweredTo, SameLooks
<1>9. q.hydrating = TRUE /\ IsPlan(r, q.attempted)
  BY <1>1, <1>2, <1>3 DEF AuthorsKnown, AnsweredTo
<1> QED BY <1>1, <1>2, <1>4, <1>7, <1>8, <1>9 DEF AnsweredTo, q

LEMMA AnalyticsTaken ==
    ASSUME NEW p, Accounted(p), NEW r \in Asked(p, "analytics"), NEW v
    PROVE  /\ Accounted(Analytics!TakeAnalytics(Analytics!Answered(p, r), r, v))
           /\ Accounted(Analytics!LoseAnalytics(Analytics!Answered(p, r), r))
<1> DEFINE q == Analytics!Answered(p, r)
           payload == [key |-> r.key, version |-> v]
           cache == [k \in DOMAIN q.cache \cup {r.key} |-> IF k = r.key THEN payload ELSE q.cache[k]]
           kept == [q EXCEPT !.cache = cache]
<1>1. Known(q) /\ Says(q) /\ (r.for.fn # "update" => Ends(q))
  BY AnalyticsAnswered
<1>2. Analytics!TakeAnalytics(q, r, v) =
          IF r.for.fn = "update" THEN Analytics!RenderPayload(kept, payload, r.for.period) ELSE kept
  BY DEF Analytics!TakeAnalytics
<1>3. Analytics!LoseAnalytics(q, r) =
          IF r.for.fn = "update" THEN Analytics!WithoutPayload(q, r.for.period) ELSE q
  BY DEF Analytics!LoseAnalytics
<1> HIDE DEF q, payload, cache
<1>4. Alike(q, kept) /\ SameLooks(q, kept)
  BY <1>1 DEF Known, Whole, PanelCore, Alike, SameLooks
<1> HIDE DEF kept
<1>5. Known(kept)
  BY <1>1, <1>4, AlikeKnown
<1>6. Accounted(Analytics!TakeAnalytics(q, r, v))
  <2>1. CASE r.for.fn = "update"
    BY <1>2, <1>5, <2>1, PayloadAccounted
  <2>2. CASE r.for.fn # "update"
    BY <1>1, <1>2, <1>4, <2>2, AlikeAccounted DEF Accounted
  <2> QED BY <2>1, <2>2
<1>7. Accounted(Analytics!LoseAnalytics(q, r))
  <2>1. CASE r.for.fn = "update"
    BY <1>1, <1>3, <2>1, WithoutAccounted
  <2>2. CASE r.for.fn # "update"
    BY <1>1, <1>3, <2>2 DEF Accounted
  <2> QED BY <2>1, <2>2
<1> QED BY <1>6, <1>7 DEF q

LEMMA StatsTaken ==
    ASSUME NEW p, Accounted(p), NEW r \in Asked(p, "stats"), NEW repo, NEW skipped
    PROVE  /\ Accounted(Analytics!TakeStats(Analytics!Answered(p, r), repo, skipped))
           /\ Accounted(Analytics!LoseStats(Analytics!Answered(p, r)))
<1> DEFINE q == Analytics!Answered(p, r)
           files == [h \in DOMAIN repo \ skipped |-> repo[h].files]
           x == [from |-> "server", files |-> files]
           is == IF DOMAIN files = DOMAIN repo THEN "idle" ELSE "partial"
           taken == Analytics!updateDiffStatsUI([q EXCEPT !.stats = x, !.statsIs = is])
           lost == Analytics!updateDiffStatsUI([q EXCEPT !.statsIs = "error"])
<1>1. /\ Whole(q) /\ Counted(q) /\ AuthorsKnown(q) /\ IsFiniteSet(DOMAIN q.commits)
      /\ Says(q) /\ Ends(q) /\ Asked(q, "stats") = {}
  BY StatsAnswered
<1>2. Analytics!TakeStats(q, repo, skipped) = Analytics!redrawDiffStatsCharts(taken)
  BY DEF Analytics!TakeStats
<1>3. Analytics!LoseStats(q) = lost
  BY DEF Analytics!LoseStats
<1>4. is # "loading"
  OBVIOUS
<1> HIDE DEF q, x, is
<1>5. /\ Whole(taken) /\ SameLooks(q, taken) /\ taken.inflight = q.inflight
      /\ taken.statsIs = is /\ taken.statsNote = is /\ taken.hydrating = q.hydrating
      /\ taken.attempted = q.attempted /\ taken.commits = q.commits
  BY <1>1 DEF Whole, PanelCore, SameLooks, Analytics!updateDiffStatsUI
<1>6. /\ Whole(lost) /\ SameLooks(q, lost) /\ lost.inflight = q.inflight
      /\ lost.statsIs = "error" /\ lost.statsNote = "error" /\ lost.hydrating = q.hydrating
      /\ lost.attempted = q.attempted /\ lost.commits = q.commits
  BY <1>1 DEF Whole, PanelCore, SameLooks, Analytics!updateDiffStatsUI
<1> HIDE DEF taken, lost
<1>7. Accounted(taken)
  BY <1>1, <1>4, <1>5 DEF Accounted, Known, Counted, StatsKnown, AuthorsKnown, Asked, Single,
     SameLooks, Says, Ends
<1>8. Accounted(lost)
  BY <1>1, <1>6 DEF Accounted, Known, Counted, StatsKnown, AuthorsKnown, Asked, Single,
     SameLooks, Says, Ends
<1>9. Onward(taken, Analytics!redrawDiffStatsCharts(taken))
  BY <1>7, RedrawOnward DEF Accounted
<1> QED BY <1>2, <1>3, <1>7, <1>8, <1>9, OnwardAccounted DEF q

LEMMA AuthorsTaken ==
    ASSUME NEW p, Accounted(p), NEW r \in Asked(p, "identities"), NEW v
    PROVE  /\ Accounted(Analytics!TakeIdentities(Analytics!Answered(p, r), r, v))
           /\ Accounted(Analytics!LoseIdentities(Analytics!Answered(p, r), r))
<1> DEFINE q == Analytics!Answered(p, r)
           repo == server.history[v]
           came == Analytics!ToSet(r.batch) \cap DOMAIN repo
           c == [h \in DOMAIN q.commits \cup came |->
                    IF h \in came THEN Analytics!Identity(repo[h]) ELSE q.commits[h]]
           put == [q EXCEPT !.commits = c]
           ended == [put EXCEPT !.hydrating = FALSE]
           lost == [q EXCEPT !.hydrating = FALSE]
           next == Analytics!SendBatch(put, r.rest, r.for)
<1>1. /\ Whole(q) /\ Counted(q) /\ StatsKnown(q) /\ IsFiniteSet(DOMAIN q.commits)
      /\ Says(q) /\ (r.for.fn # "update" => Ends(q))
      /\ Asked(q, "identities") = {} /\ q.hydrating = TRUE /\ IsPlan(r, q.attempted)
  BY AuthorsAnswered
<1>2. Analytics!TakeIdentities(q, r, v) =
          IF r.rest # <<>> THEN next ELSE Analytics!Hydrated(ended, r.for)
  BY DEF Analytics!TakeIdentities
<1>3. Analytics!LoseIdentities(q, r) = Analytics!Hydrated(lost, r.for)
  BY DEF Analytics!LoseIdentities
<1>4. IsFiniteSet(DOMAIN c)
  <2>1. came \subseteq ToSet(r.batch)
    BY DEF Analytics!ToSet, ToSet
  <2>2. IsFiniteSet(came)
    BY <1>1, <2>1, FS_Subset DEF IsPlan
  <2>3. IsFiniteSet(DOMAIN q.commits \cup came)
    BY <1>1, <2>2, FS_Union
  <2> QED BY <2>3
<1> HIDE DEF q, c
<1>5. /\ Whole(put) /\ SameLooks(q, put) /\ put.inflight = q.inflight /\ put.statsIs = q.statsIs
      /\ put.statsNote = q.statsNote /\ put.hydrating = TRUE /\ put.attempted = q.attempted
      /\ put.commits = c
  BY <1>1 DEF Whole, PanelCore, SameLooks
<1>6. /\ Whole(lost) /\ SameLooks(q, lost) /\ lost.inflight = q.inflight /\ lost.statsIs = q.statsIs
      /\ lost.statsNote = q.statsNote /\ lost.hydrating = FALSE /\ lost.commits = q.commits
  BY <1>1 DEF Whole, PanelCore, SameLooks
<1> HIDE DEF put, lost
<1>7. /\ Whole(ended) /\ SameLooks(q, ended) /\ ended.inflight = q.inflight
      /\ ended.statsIs = q.statsIs /\ ended.statsNote = q.statsNote /\ ended.hydrating = FALSE
      /\ ended.commits = c
  BY <1>5 DEF Whole, PanelCore, SameLooks
<1> HIDE DEF ended, next
<1>8. /\ Known(ended) /\ Says(ended) /\ (r.for.fn = "update" \/ Ends(ended))
  BY <1>1, <1>4, <1>7 DEF Known, Counted, StatsKnown, AuthorsKnown, Asked, Single, SameLooks, Says, Ends
<1>9. /\ Known(lost) /\ Says(lost) /\ (r.for.fn = "update" \/ Ends(lost))
  BY <1>1, <1>6 DEF Known, Counted, StatsKnown, AuthorsKnown, Asked, Single, SameLooks, Says, Ends
<1>10. CASE r.rest # <<>>
  <2>1. PlanOf(r.rest, put.attempted)
    BY <1>1, <1>5 DEF IsPlan, PlanOf
  <2>2. Counted(put) /\ StatsKnown(put) /\ Asked(put, "identities") = {}
    BY <1>1, <1>5 DEF Counted, StatsKnown, Asked, Single
  <2>3. /\ Onward(put, next)
        /\ r.for.fn = "update" => \E x \in DOMAIN next.inflight : IsUpdating(x)
    BY <1>4, <1>5, <1>10, <2>1, <2>2, SendKnown DEF next
  <2>4. r.for.fn # "update" => Ends(put)
    BY <1>1, <1>5 DEF SameLooks, Ends
  <2>5. Known(next) /\ Says(next) /\ Ends(next)
    BY <1>1, <1>5, <2>3, <2>4 DEF Onward, SameLooks, Says, Ends
  <2> QED BY <1>2, <1>3, <1>9, <1>10, <2>5, HydratedAccounted DEF Accounted, q
<1>11. CASE r.rest = <<>>
  BY <1>2, <1>3, <1>8, <1>9, <1>11, HydratedAccounted DEF q
<1> QED BY <1>10, <1>11

-----------------------------------------------------------------------------
(* The invariant of the analytics view.                                    *)

PageInv ==
    /\ {"history", "version", "told"} \subseteq DOMAIN server
    /\ server.history \in Histories
    /\ server.version \in 1 .. Len(server.history) /\ server.told \in 0 .. server.version
AnalyticsInv == PageInv /\ Accounted(panel)

LEMMA HistoryIs ==
    ASSUME PageInv
    PROVE  /\ Len(server.history) \in Nat \ {0}
           /\ \A v \in 1 .. Len(server.history) : IsFiniteSet(DOMAIN server.history[v])
BY AnalyticsAssumption DEF PageInv, Analytics!ViewAssumption, Analytics!IsFiniteSet, IsFiniteSet

LEMMA InitAnalytics == Analytics!Init => AnalyticsInv
<1> SUFFICES ASSUME Analytics!Init PROVE AnalyticsInv
  OBVIOUS
<1>1. PICK history \in Histories : server = [history |-> history, version |-> 1, told |-> 0]
  BY DEF Analytics!Init
<1>2. Len(history) \in Nat \ {0}
  BY AnalyticsAssumption DEF Analytics!ViewAssumption
<1>3. PageInv
  BY <1>1, <1>2 DEF PageInv
<1>4. panel = Analytics!NewPanel
  BY DEF Analytics!Init
<1>5. DOMAIN panel.inflight = {}
  BY <1>4 DEF Analytics!NewPanel, Analytics!EmptyBag, Analytics!SetToBag
<1>6. /\ Whole(panel) /\ panel.statsIs = "idle" /\ panel.statsNote = "idle" /\ panel.hydrating = FALSE
      /\ panel.commits = <<>> /\ panel.sections = TRUE /\ panel.empty = TRUE /\ panel.loading = FALSE
  BY <1>4 DEF Analytics!NewPanel, Whole, PanelCore
<1>7. IsFiniteSet(DOMAIN panel.commits)
  <2>1. DOMAIN panel.commits = {}
    BY <1>6
  <2> QED BY <2>1, FS_EmptySet
<1>8. Known(panel)
  BY <1>5, <1>6, <1>7 DEF Known, Counted, StatsKnown, AuthorsKnown, Asked
<1> QED BY <1>3, <1>6, <1>8 DEF AnalyticsInv, Accounted, Says, Ends

LEMMA MessagesAccounted ==
    ASSUME AnalyticsInv,
           Analytics!ServerChanges \/ Analytics!OnBootstrapChunk \/ Analytics!OnBootstrapComplete
               \/ Analytics!OnDelta
    PROVE  AnalyticsInv'
<1>1. PageInv /\ Accounted(panel)
  BY DEF AnalyticsInv
<1>2. CASE Analytics!ServerChanges
  <2>1. server' = [server EXCEPT !.version = server.version + 1] /\ panel' = panel
        /\ server.version < Len(server.history)
    BY <1>2 DEF Analytics!ServerChanges
  <2>2. PageInv'
    BY <1>1, <2>1, HistoryIs DEF PageInv
  <2> QED BY <1>1, <2>1, <2>2 DEF AnalyticsInv
<1>3. CASE Analytics!OnBootstrapChunk
  <2> DEFINE repo == server.history[server.version]
             sent == [h \in DOMAIN repo |-> IF h \in Lightweight THEN Analytics!Skeleton(repo[h])
                                            ELSE Analytics!Identity(repo[h])]
  <2>1. /\ server' = [server EXCEPT !.told = server.version]
        /\ panel' = Analytics!Told([panel EXCEPT !.commits = sent])
    BY <1>3 DEF Analytics!OnBootstrapChunk, Analytics!Repository
  <2>2. IsFiniteSet(DOMAIN sent)
    <3>1. DOMAIN sent = DOMAIN repo
      OBVIOUS
    <3> QED BY <1>1, <3>1, HistoryIs DEF PageInv
  <2> HIDE DEF sent
  <2>3. Accounted(panel')
    BY <1>1, <2>1, <2>2, CommitsAccounted, ToldAccounted
  <2>4. PageInv'
    BY <1>1, <2>1, HistoryIs DEF PageInv
  <2> QED BY <2>3, <2>4 DEF AnalyticsInv
<1>4. CASE Analytics!OnBootstrapComplete
  <2>1. server' = server /\ panel' = Analytics!Told(panel)
    BY <1>4 DEF Analytics!OnBootstrapComplete
  <2>2. Accounted(panel')
    BY <1>1, <2>1, ToldAccounted
  <2> QED BY <1>1, <2>1, <2>2 DEF AnalyticsInv, PageInv
<1>5. CASE Analytics!OnDelta
  <2> DEFINE old == server.history[server.told]
             new == server.history[server.told + 1]
             kept == DOMAIN panel.commits \ (DOMAIN old \ DOMAIN new)
             added == DOMAIN new \ DOMAIN old
             c == [h \in kept \cup added |->
                      IF h \in added THEN Analytics!Identity(new[h]) ELSE panel.commits[h]]
  <2>1. /\ 0 < server.told /\ server.told < server.version
        /\ server' = [server EXCEPT !.told = server.told + 1]
        /\ panel' = Analytics!Told([panel EXCEPT !.commits = c])
    BY <1>5 DEF Analytics!OnDelta
  <2>2. server.told + 1 \in 1 .. Len(server.history)
    BY <1>1, <2>1, HistoryIs DEF PageInv
  <2>3. IsFiniteSet(kept) /\ IsFiniteSet(added)
    <3>1. IsFiniteSet(DOMAIN panel.commits) /\ IsFiniteSet(DOMAIN new)
      BY <1>1, <2>2, HistoryIs DEF Accounted, Known
    <3> QED BY <3>1, FS_Subset
  <2>4. IsFiniteSet(kept \cup added)
    BY <2>3, FS_Union
  <2>5. DOMAIN c = kept \cup added
    OBVIOUS
  <2> HIDE DEF c, kept, added
  <2>6. Accounted([panel EXCEPT !.commits = c])
    BY <1>1, <2>4, <2>5, CommitsAccounted
  <2>7. Accounted(panel')
    BY <2>1, <2>6, ToldAccounted
  <2>8. PageInv'
    BY <1>1, <2>1, HistoryIs DEF PageInv
  <2> QED BY <2>7, <2>8 DEF AnalyticsInv
<1> QED BY <1>2, <1>3, <1>4, <1>5

(* Fields that requests do not depend on.                                  *)
LEMMA OthersAccounted ==
    ASSUME NEW p, Accounted(p)
    PROVE  /\ \A x : Accounted([p EXCEPT !.open = x]) /\ Accounted([p EXCEPT !.frame = x])
                    /\ Accounted([p EXCEPT !.importing = x]) /\ Accounted([p EXCEPT !.note = x])
           /\ \A x, y : Accounted([p EXCEPT !.importing = x, !.loaded = y])
                       /\ Accounted([p EXCEPT !.selected = x, !.note = y])
           /\ \A x, y, z : Accounted([p EXCEPT !.range = x, !.selected = y, !.note = z])
<1>1. Whole(p)
  BY DEF Accounted, Known
<1>2. ASSUME NEW x, NEW y, NEW z, NEW q \in {[p EXCEPT !.open = x], [p EXCEPT !.frame = x],
             [p EXCEPT !.importing = x], [p EXCEPT !.note = x], [p EXCEPT !.importing = x, !.loaded = y],
             [p EXCEPT !.selected = x, !.note = y], [p EXCEPT !.range = x, !.selected = y, !.note = z]}
      PROVE  Accounted(q)
  <2>1. Alike(p, q) /\ SameLooks(p, q)
    BY <1>1, <1>2 DEF Alike, SameLooks, Whole, PanelCore
  <2> QED BY <2>1, AlikeAccounted
<1> QED BY <1>2

LEMMA UserAccounted ==
    ASSUME AnalyticsInv, Analytics!User
    PROVE  AnalyticsInv'
<1>1. PageInv /\ Accounted(panel)
  BY DEF AnalyticsInv
<1>2. server' = server
  BY DEF Analytics!User, Analytics!OnShow, Analytics!Hide, Analytics!ViewLoaded, Analytics!ViewFails,
     Analytics!FrameFires, Analytics!SelectPeriod, Analytics!ApplyCustom, Analytics!FromUser
<1>3. ASSUME Analytics!OnShow PROVE Accounted(panel')
  <2> DEFINE p == [panel EXCEPT !.open = TRUE]
  <2>1. panel' \in {[Analytics!preloadAnalyticsOnce(p) EXCEPT !.frame = TRUE],
                   [p EXCEPT !.importing = TRUE]}
    BY <1>3 DEF Analytics!OnShow
  <2>2. Accounted(p)
    BY <1>1, OthersAccounted
  <2> HIDE DEF p
  <2>3. Accounted(Analytics!preloadAnalyticsOnce(p))
    BY <2>2, PreloadAccounted
  <2> DEFINE q == Analytics!preloadAnalyticsOnce(p)
  <2> HIDE DEF q
  <2>4. Accounted([q EXCEPT !.frame = TRUE]) /\ Accounted([p EXCEPT !.importing = TRUE])
    BY <2>2, <2>3, OthersAccounted DEF q
  <2> QED BY <2>1, <2>4 DEF q
<1>4. ASSUME Analytics!Hide \/ Analytics!ViewFails PROVE Accounted(panel')
  <2>1. panel' \in {[panel EXCEPT !.open = FALSE], [panel EXCEPT !.importing = FALSE]}
    BY <1>4 DEF Analytics!Hide, Analytics!ViewFails
  <2>2. Accounted([panel EXCEPT !.open = FALSE]) /\ Accounted([panel EXCEPT !.importing = FALSE])
    BY <1>1, OthersAccounted
  <2> QED BY <2>1, <2>2
<1>5. ASSUME Analytics!ViewLoaded PROVE Accounted(panel')
  <2> DEFINE p == [panel EXCEPT !.importing = FALSE, !.loaded = TRUE]
  <2>1. panel' = [Analytics!preloadAnalyticsOnce(p) EXCEPT !.frame = TRUE]
    BY <1>5 DEF Analytics!ViewLoaded
  <2>2. Accounted(p)
    BY <1>1, OthersAccounted
  <2> HIDE DEF p
  <2>3. Accounted(Analytics!preloadAnalyticsOnce(p))
    BY <2>2, PreloadAccounted
  <2> QED BY <2>1, <2>3, OthersAccounted
<1>6. ASSUME Analytics!FrameFires PROVE Accounted(panel')
  <2>1. panel' = Analytics!update([panel EXCEPT !.frame = FALSE])
    BY <1>6 DEF Analytics!FrameFires
  <2> QED BY <1>1, <2>1, OthersAccounted, UpdateAccounted
<1>7. ASSUME Analytics!SelectPeriod PROVE Accounted(panel')
  <2>1. PICK period \in DOMAIN Cutoffs :
            panel' = Analytics!update([panel EXCEPT !.selected = period, !.note = "none"])
    BY <1>7 DEF Analytics!SelectPeriod
  <2> QED BY <1>1, <2>1, OthersAccounted, UpdateAccounted
<1>8. ASSUME Analytics!ApplyCustom PROVE Accounted(panel')
  <2>1. \/ panel' = [panel EXCEPT !.note = "invalid"]
        \/ \E r \in Ranges :
               panel' = Analytics!update([panel EXCEPT !.range = r, !.selected = "Custom", !.note = r])
    BY <1>8 DEF Analytics!ApplyCustom
  <2>2. CASE panel' = [panel EXCEPT !.note = "invalid"]
    BY <1>1, <2>2, OthersAccounted
  <2>3. ASSUME NEW x, panel' = Analytics!update([panel EXCEPT !.range = x, !.selected = "Custom", !.note = x])
        PROVE  Accounted(panel')
    <3>1. Accounted([panel EXCEPT !.range = x, !.selected = "Custom", !.note = x])
      BY <1>1, OthersAccounted
    <3> QED BY <2>3, <3>1, UpdateAccounted
  <2> QED BY <2>1, <2>2, <2>3
<1>9. Accounted(panel')
  BY <1>3, <1>4, <1>5, <1>6, <1>7, <1>8 DEF Analytics!User
<1> QED BY <1>1, <1>2, <1>9 DEF AnalyticsInv, PageInv

LEMMA AnswersAccounted ==
    ASSUME AnalyticsInv, Analytics!Answers
    PROVE  AnalyticsInv'
<1>1. PageInv /\ Accounted(panel)
  BY DEF AnalyticsInv
<1>2. server' = server
  BY DEF Analytics!Answers, Analytics!AnalyticsArrive, Analytics!AnalyticsFail, Analytics!StatsArrive,
     Analytics!StatsFail, Analytics!IdentitiesArrive, Analytics!IdentitiesFail, Analytics!Arrives,
     Analytics!Fails
<1>3. \A what : Analytics!Requests(what) = Asked(panel, what)
  BY DEF Analytics!Requests, Analytics!BagToSet, Asked
<1>4. ASSUME Analytics!AnalyticsArrive \/ Analytics!AnalyticsFail PROVE Accounted(panel')
  <2>1. PICK r \in Asked(panel, "analytics") : \E v :
            panel' \in {Analytics!TakeAnalytics(Analytics!Answered(panel, r), r, v),
                       Analytics!LoseAnalytics(Analytics!Answered(panel, r), r)}
    BY <1>3, <1>4 DEF Analytics!AnalyticsArrive, Analytics!AnalyticsFail
  <2> QED BY <1>1, <2>1, AnalyticsTaken
<1>5. ASSUME Analytics!StatsArrive \/ Analytics!StatsFail PROVE Accounted(panel')
  <2>1. PICK r \in Asked(panel, "stats") : \E v, skipped :
            panel' \in {Analytics!TakeStats(Analytics!Answered(panel, r), server.history[v], skipped),
                       Analytics!LoseStats(Analytics!Answered(panel, r))}
    BY <1>3, <1>5 DEF Analytics!StatsArrive, Analytics!StatsFail
  <2> QED BY <1>1, <2>1, StatsTaken
<1>6. ASSUME Analytics!IdentitiesArrive \/ Analytics!IdentitiesFail PROVE Accounted(panel')
  <2>1. PICK r \in Asked(panel, "identities") : \E v :
            panel' \in {Analytics!TakeIdentities(Analytics!Answered(panel, r), r, v),
                       Analytics!LoseIdentities(Analytics!Answered(panel, r), r)}
    BY <1>3, <1>6 DEF Analytics!IdentitiesArrive, Analytics!IdentitiesFail
  <2> QED BY <1>1, <2>1, AuthorsTaken
<1>7. Accounted(panel')
  BY <1>4, <1>5, <1>6 DEF Analytics!Answers
<1> QED BY <1>1, <1>2, <1>7 DEF AnalyticsInv, PageInv

(* The analytics view keeps its invariant, whichever view a behaviour is   *)
(* of.                                                                     *)
THEOREM AnalyticsInvariant == ViewsSpec => []AnalyticsInv
<1>1. ViewsInit => AnalyticsInv
  BY InitAnalytics DEF ViewsInit
<1>2. AnalyticsInv /\ [ViewsNext]_views => AnalyticsInv'
  <2> SUFFICES ASSUME AnalyticsInv, [ViewsNext]_views PROVE AnalyticsInv'
    OBVIOUS
  <2>1. \/ UNCHANGED <<server, panel>>
        \/ Analytics!ServerChanges \/ Analytics!OnBootstrapChunk \/ Analytics!OnBootstrapComplete
              \/ Analytics!OnDelta
        \/ Analytics!User \/ Analytics!Answers
    BY DEF ViewsNext, OfLanes, views, Analytics!User, Analytics!Answers
  <2>2. CASE UNCHANGED <<server, panel>>
    BY <2>2 DEF AnalyticsInv, PageInv
  <2> QED BY <2>1, <2>2, MessagesAccounted, UserAccounted, AnswersAccounted
<1> QED BY <1>1, <1>2, PTL DEF ViewsSpec

(* A panel that shows nothing says that it is loading and an update will   *)
(* end it; what the flags say is under way is, once; and no commit waits   *)
(* in a batch while it has been asked for in another                       *)
(* (analyticsView.js:434, 484, 1651).                                      *)
THEOREM RequestsAlwaysAccounted == ViewsSpec => []RequestsAccounted
<1>1. AnalyticsInv => RequestsAccounted
  <2> SUFFICES ASSUME Accounted(panel) PROVE Analytics!RequestsAccounted
    BY DEF AnalyticsInv, RequestsAccounted
  <2>1. StatsKnown(panel) /\ AuthorsKnown(panel) /\ Says(panel) /\ Ends(panel)
    BY DEF Accounted, Known
  <2>2. \A what : Analytics!Requests(what) = Asked(panel, what)
    BY DEF Analytics!Requests, Analytics!BagToSet, Asked
  <2>3. \A what : Analytics!JustOne(what) <=> Single(panel, what)
    BY <2>2 DEF Analytics!JustOne, Single, Asked
  <2>4. panel.loading => Analytics!Updating # {}
    <3> SUFFICES ASSUME panel.loading PROVE Analytics!Updating # {}
      OBVIOUS
    <3>1. PICK r \in DOMAIN panel.inflight : IsUpdating(r)
      BY <2>1 DEF Ends, Says
    <3>2. r \in Asked(panel, "analytics") \cup Asked(panel, "identities")
      BY <3>1 DEF IsUpdating, Asked
    <3> QED BY <2>2, <3>1, <3>2 DEF Analytics!Updating, IsUpdating
  <2>5. panel.sections \/ panel.empty \/ panel.loading
    BY <2>1 DEF Says
  <2>6. IF panel.statsIs = "loading" THEN Analytics!JustOne("stats") ELSE Analytics!Requests("stats") = {}
    BY <2>1, <2>2, <2>3 DEF StatsKnown
  <2>7. panel.statsNote = "loading" => panel.statsIs = "loading"
    BY <2>1 DEF StatsKnown
  <2>8. IF panel.hydrating THEN Analytics!JustOne("identities") ELSE Analytics!Requests("identities") = {}
    BY <2>1, <2>2, <2>3 DEF AuthorsKnown
  <2>9. ASSUME NEW r \in Analytics!Requests("identities")
        PROVE  (UNION {Analytics!ToSet(b) : b \in Analytics!ToSet(r.rest)}) \cap panel.attempted = {}
    <3>1. IsPlan(r, panel.attempted)
      BY <2>1, <2>2 DEF AuthorsKnown
    <3>2. ASSUME NEW b \in Analytics!ToSet(r.rest) PROVE Analytics!ToSet(b) \cap panel.attempted = {}
      <4>1. PICK i \in DOMAIN r.rest : b = r.rest[i]
        BY DEF Analytics!ToSet
      <4> QED BY <3>1, <4>1 DEF IsPlan, Analytics!ToSet, ToSet
    <3> DEFINE waiting == UNION {Analytics!ToSet(b) : b \in Analytics!ToSet(r.rest)}
    <3>3. ASSUME NEW h \in waiting PROVE h \notin panel.attempted
      <4>1. PICK b \in Analytics!ToSet(r.rest) : h \in Analytics!ToSet(b)
        OBVIOUS
      <4> QED BY <3>2, <4>1
    <3> HIDE DEF waiting
    <3>4. waiting \cap panel.attempted = {}
      BY <3>3
    <3> QED BY <3>4 DEF waiting
  <2> QED BY <2>4, <2>5, <2>6, <2>7, <2>8, <2>9 DEF Analytics!RequestsAccounted
<1> QED BY <1>1, AnalyticsInvariant, PTL

===============================================================================
