------------------------------ MODULE FatChain ------------------------------
(***************************************************************************)
(* Chains of clusters: what following the links of a FAT leads to, for any *)
(* table F on any set C of clusters.  A chain is a recursive function, and *)
(* what holds along it is proved by its least counterexample, since the    *)
(* natural numbers are well founded.                                       *)
(***************************************************************************)
EXTENDS Integers, WellFoundedInduction, FiniteSetTheorems, FunctionTheorems, TLAPS

\* The entry of c; what is no cluster leads to 0, as get_fat is not asked.
Successor(C, F, c) == IF c \in C THEN F[c] ELSE 0

\* The clusters of the chain that starts with a, in their order.
Path(C, F, a) ==
  LET f[n \in Nat] == IF n = 0 THEN a ELSE Successor(C, F, f[n - 1])
  IN f

-----------------------------------------------------------------------------
(* The recursive function is the one its equation describes.               *)

\* The order of the natural numbers, as a relation.
LessThan == {ss \in Nat \X Nat : ss[1] < ss[2]}

\* A set of numbers that is not empty has a least one.
LEMMA Least ==
  ASSUME NEW T, T \subseteq Nat, T # {}
  PROVE  \E m \in T : \A k \in T : m <= k
<1>1. IsWellFoundedOn(LessThan, Nat)
  BY NatLessThanWellFounded DEF OpToRel, LessThan
<1>2. PICK m \in T : \A k \in T : ~(<<k, m>> \in LessThan)
  BY <1>1, WFMin
<1>3. ASSUME NEW k \in T, k < m PROVE FALSE
  <2>1. <<k, m>> \in LessThan
    BY <1>3 DEF LessThan
  <2> QED BY <2>1, <1>2, <1>3
<1>4. ASSUME NEW k \in T PROVE m <= k
  <2>1. k \in Nat /\ m \in Nat /\ ~(k < m)
    BY <1>3, <1>4
  <2> QED BY <2>1
<1> QED BY <1>2, <1>4

\* The first N links, as a function of their own.
Upto(g, N, C, F, a) ==
  g = [n \in 0 .. N |-> IF n = 0 THEN a ELSE Successor(C, F, g[n - 1])]

\* Two of them agree as far as both go.
LEMMA UptoUnique ==
  ASSUME NEW C, NEW F, NEW a, NEW N \in Nat, NEW M \in Nat, NEW g, NEW h,
         Upto(g, N, C, F, a), Upto(h, M, C, F, a)
  PROVE  \A n \in Nat : n <= N /\ n <= M => g[n] = h[n]
<1> DEFINE T == {n \in Nat : n <= N /\ n <= M /\ g[n] # h[n]}
<1>1. SUFFICES ASSUME T # {} PROVE FALSE
  OBVIOUS
<1>2. PICK m \in T : \A k \in T : m <= k
  <2> T \subseteq Nat OBVIOUS
  <2> HIDE DEF T
  <2> QED BY <1>1, Least
<1>3. m # 0
  BY DEF Upto
<1>4. m \in 0 .. N /\ m \in 0 .. M /\ m - 1 \in Nat /\ ~(m - 1 \in T)
  <2>1. m \in Nat /\ m <= N /\ m <= M OBVIOUS
  <2>2. ~(m - 1 \in T)
    <3> HIDE DEF T
    <3> QED BY <1>2, <2>1
  <2> QED BY <2>1, <2>2, <1>3
<1>5. g[m - 1] = h[m - 1]
  BY <1>4
<1>6. g[m] = Successor(C, F, g[m - 1]) /\ h[m] = Successor(C, F, h[m - 1])
  BY <1>3, <1>4 DEF Upto
<1> QED BY <1>5, <1>6

\* There is one for every N.
LEMMA UptoExists ==
  ASSUME NEW C, NEW F, NEW a
  PROVE  \A N \in Nat : \E g : Upto(g, N, C, F, a)
<1> DEFINE T == {N \in Nat : ~ \E g : Upto(g, N, C, F, a)}
<1>1. SUFFICES ASSUME T # {} PROVE FALSE
  OBVIOUS
<1>2. PICK m \in T : \A k \in T : m <= k
  <2> T \subseteq Nat OBVIOUS
  <2> HIDE DEF T
  <2> QED BY <1>1, Least
<1>3. m # 0
  <2>1. Upto([n \in 0 .. 0 |-> a], 0, C, F, a)
    <3> DEFINE g == [n \in 0 .. 0 |-> a]
    <3>1. g = [n \in 0 .. 0 |-> IF n = 0 THEN a ELSE Successor(C, F, g[n - 1])]
      OBVIOUS
    <3> QED BY <3>1 DEF Upto
  <2> QED BY <2>1
<1>4. m - 1 \in Nat /\ ~(m - 1 \in T)
  <2>1. m \in Nat OBVIOUS
  <2>2. ~(m - 1 \in T)
    <3> HIDE DEF T
    <3> QED BY <1>2, <2>1
  <2> QED BY <2>1, <2>2, <1>3
<1>5. PICK g : Upto(g, m - 1, C, F, a)
  BY <1>4
<1> DEFINE h == [n \in 0 .. m |-> IF n < m THEN g[n] ELSE Successor(C, F, g[m - 1])]
<1>6. ASSUME NEW n \in 0 .. m
      PROVE h[n] = IF n = 0 THEN a ELSE Successor(C, F, h[n - 1])
  <2>1. m \in Nat /\ n \in Nat OBVIOUS
  <2>2. CASE n = 0
    <3>1. h[0] = g[0] BY <1>3, <2>1
    <3>2. g[0] = a BY <1>4, <1>5 DEF Upto
    <3> QED BY <2>2, <3>1, <3>2
  <2>3. CASE n # 0 /\ n < m
    <3>1. n \in 0 .. m - 1 /\ n - 1 \in 0 .. m /\ n - 1 < m BY <2>1, <2>3
    <3>2. g[n] = Successor(C, F, g[n - 1]) BY <1>5, <2>3, <3>1 DEF Upto
    <3>3. h[n] = g[n] /\ h[n - 1] = g[n - 1] BY <2>3, <3>1
    <3> QED BY <2>3, <3>2, <3>3
  <2>4. CASE n = m
    <3>1. m - 1 \in 0 .. m /\ m - 1 < m /\ ~(m < m) /\ m \in 0 .. m BY <1>3, <2>1
    <3>2. h[m] = Successor(C, F, g[m - 1]) /\ h[m - 1] = g[m - 1] BY <3>1
    <3> QED BY <1>3, <2>4, <3>2
  <2> QED BY <2>1, <2>2, <2>3, <2>4
<1>7. h = [n \in 0 .. m |-> IF n = 0 THEN a ELSE Successor(C, F, h[n - 1])]
  <2>1. h = [n \in 0 .. m |-> h[n]] OBVIOUS
  <2> HIDE DEF h
  <2> QED BY <2>1, <1>6
<1>8. Upto(h, m, C, F, a)
  <2> HIDE DEF h
  <2> QED BY <1>7 DEF Upto
<1> QED BY <1>8

\* So Path satisfies its defining equation.
LEMMA PathDef ==
  ASSUME NEW C, NEW F, NEW a
  PROVE  Path(C, F, a) =
           [n \in Nat |-> IF n = 0 THEN a ELSE Successor(C, F, Path(C, F, a)[n - 1])]
<1> DEFINE u(n) == CHOOSE g : Upto(g, n, C, F, a)
           f == [n \in Nat |-> u(n)[n]]
<1>1. \A n \in Nat : Upto(u(n), n, C, F, a)
  BY UptoExists
<1>2. ASSUME NEW n \in Nat
      PROVE f[n] = IF n = 0 THEN a ELSE Successor(C, F, f[n - 1])
  <2>1. f[n] = u(n)[n] OBVIOUS
  <2>2. u(n)[n] = IF n = 0 THEN a ELSE Successor(C, F, u(n)[n - 1])
    <3> HIDE DEF u
    <3>1. Upto(u(n), n, C, F, a) BY <1>1
    <3> QED BY <3>1 DEF Upto
  <2>3. ASSUME n # 0 PROVE u(n)[n - 1] = f[n - 1]
    <3>1. n - 1 \in Nat /\ n - 1 <= n /\ n - 1 <= n - 1 BY <2>3
    <3>2. Upto(u(n), n, C, F, a) /\ Upto(u(n - 1), n - 1, C, F, a)
      <4> HIDE DEF u
      <4> QED BY <1>1, <3>1
    <3>3. f[n - 1] = u(n - 1)[n - 1] BY <3>1
    <3>4. u(n)[n - 1] = u(n - 1)[n - 1]
      <4> HIDE DEF u
      <4> QED BY <3>1, <3>2, UptoUnique
    <3> QED BY <3>3, <3>4
  <2> HIDE DEF u, f
  <2> QED BY <2>1, <2>2, <2>3
<1>3. f = [n \in Nat |-> IF n = 0 THEN a ELSE Successor(C, F, f[n - 1])]
  <2>1. f = [n \in Nat |-> f[n]] OBVIOUS
  <2> HIDE DEF f
  <2> QED BY <2>1, <1>2
<1>4. \E q : q = [n \in Nat |-> IF n = 0 THEN a ELSE Successor(C, F, q[n - 1])]
  <2> HIDE DEF f
  <2> QED BY <1>3
<1> DEFINE R(q) == q = [n \in Nat |-> IF n = 0 THEN a ELSE Successor(C, F, q[n - 1])]
<1>5. R(CHOOSE q : R(q))
  <2>1. \E q : R(q) BY <1>4
  <2> HIDE DEF R
  <2> QED BY <2>1
<1>6. Path(C, F, a) = CHOOSE q : R(q)
  BY DEF Path
<1> QED BY <1>5, <1>6

-----------------------------------------------------------------------------
(* What holds along a chain.                                               *)

\* A chain begins where it says and goes on with the link of its last cluster.
LEMMA PathSteps ==
  ASSUME NEW C, NEW F, NEW a
  PROVE  /\ Path(C, F, a)[0] = a
         /\ \A n \in Nat : Path(C, F, a)[n + 1] = Successor(C, F, Path(C, F, a)[n])
<1> DEFINE p == Path(C, F, a)
<1>1. p = [n \in Nat |-> IF n = 0 THEN a ELSE Successor(C, F, p[n - 1])]
  BY PathDef
<1> HIDE DEF p
<1>2. p[0] = a
  BY <1>1
<1>3. ASSUME NEW n \in Nat PROVE p[n + 1] = Successor(C, F, p[n])
  <2>1. n + 1 \in Nat /\ n + 1 # 0 /\ n + 1 - 1 = n OBVIOUS
  <2> QED BY <1>1, <2>1
<1> QED BY <1>2, <1>3 DEF p

\* It is the only function that does.
LEMMA PathUnique ==
  ASSUME NEW C, NEW F, NEW a, NEW q,
         q = [n \in Nat |-> IF n = 0 THEN a ELSE Successor(C, F, q[n - 1])]
  PROVE  \A n \in Nat : q[n] = Path(C, F, a)[n]
<1> DEFINE p == Path(C, F, a)
           T == {n \in Nat : q[n] # p[n]}
<1>1. SUFFICES ASSUME T # {} PROVE FALSE
  OBVIOUS
<1>2. PICK m \in T : \A k \in T : m <= k
  <2> T \subseteq Nat OBVIOUS
  <2> HIDE DEF T
  <2> QED BY <1>1, Least
<1>3. p = [n \in Nat |-> IF n = 0 THEN a ELSE Successor(C, F, p[n - 1])]
  BY PathDef
<1> HIDE DEF p
<1>4. m \in Nat /\ q[m] # p[m]
  OBVIOUS
<1>5. m # 0
  BY <1>3, <1>4
<1>6. m - 1 \in Nat /\ q[m - 1] = p[m - 1]
  <2>1. ~(m - 1 \in T)
    <3> HIDE DEF T
    <3> QED BY <1>2, <1>4
  <2> QED BY <2>1, <1>4, <1>5
<1> QED BY <1>3, <1>4, <1>5, <1>6

\* Where the entries that link to a cluster stay, as they do when create_chain
\* lengthens a chain, the chain so far stays.
LEMMA SamePrefix ==
  ASSUME NEW C, NEW F, NEW G, NEW a, NEW N \in Nat,
         \A c \in C : F[c] \in C => G[c] = F[c],
         \A n \in 0 .. N : Path(C, F, a)[n] \in C
  PROVE  \A n \in 0 .. N : Path(C, G, a)[n] = Path(C, F, a)[n]
<1> DEFINE p == Path(C, F, a)
           q == Path(C, G, a)
           T == {n \in 0 .. N : q[n] # p[n]}
<1>1. SUFFICES ASSUME T # {} PROVE FALSE
  OBVIOUS
<1>2. PICK m \in T : \A k \in T : m <= k
  <2> T \subseteq Nat OBVIOUS
  <2> HIDE DEF T
  <2> QED BY <1>1, Least
<1>3. m \in 0 .. N /\ q[m] # p[m]
  OBVIOUS
<1>4. p[0] = a /\ q[0] = a
  BY PathSteps
<1>5. m # 0
  BY <1>3, <1>4
<1>6. m - 1 \in Nat /\ m - 1 \in 0 .. N /\ m - 1 + 1 = m
  BY <1>3, <1>5
<1>7. q[m - 1] = p[m - 1]
  <2>1. ~(m - 1 \in T)
    <3> HIDE DEF T
    <3> QED BY <1>2, <1>3
  <2> HIDE DEF p, q
  <2> QED BY <2>1, <1>6
<1>8. p[m] = Successor(C, F, p[m - 1]) /\ q[m] = Successor(C, G, q[m - 1])
  <2>1. \A n \in Nat : p[n + 1] = Successor(C, F, p[n]) BY PathSteps
  <2>2. \A n \in Nat : q[n + 1] = Successor(C, G, q[n]) BY PathSteps
  <2> HIDE DEF p, q
  <2> QED BY <2>1, <2>2, <1>6
<1>9. p[m] \in C /\ p[m - 1] \in C
  BY <1>3, <1>6
<1> HIDE DEF p, q
<1>10. F[p[m - 1]] = p[m]
  BY <1>8, <1>9 DEF Successor
<1> QED BY <1>3, <1>7, <1>8, <1>9, <1>10 DEF Successor

\* No two entries link to one cluster.
Injective(C, F) == \A c, d \in C : F[c] = F[d] /\ F[c] \in C => c = d

\* A chain into whose first cluster nothing links, in a table without cross
\* links, does not meet itself: no two sectors of a file are the same.
LEMMA PathInjective ==
  ASSUME NEW C, NEW F, NEW a, NEW N \in Nat,
         Injective(C, F),
         \A c \in C : F[c] # a,
         \A n \in 0 .. N : Path(C, F, a)[n] \in C
  PROVE  \A i, j \in 0 .. N : Path(C, F, a)[i] = Path(C, F, a)[j] => i = j
<1> DEFINE p == Path(C, F, a)
           T == {i \in 0 .. N : \E j \in 0 .. N : i < j /\ p[i] = p[j]}
<1>p. p[0] = a /\ \A n \in Nat : p[n + 1] = Successor(C, F, p[n])
  BY PathSteps
<1>c. \A n \in 0 .. N : p[n] \in C
  OBVIOUS
<1>1. ASSUME T # {} PROVE FALSE
  <2>2. PICK m \in T : \A k \in T : m <= k
    <3> T \subseteq Nat OBVIOUS
    <3> HIDE DEF T
    <3> QED BY <1>1, Least
  <2> HIDE DEF p
  <2>3. PICK j \in 0 .. N : m < j /\ p[m] = p[j]
    OBVIOUS
  <2>4. m \in 0 .. N /\ j - 1 \in Nat /\ j - 1 \in 0 .. N /\ j - 1 + 1 = j
    BY <2>3
  <2>5. p[j] = F[p[j - 1]] /\ p[j - 1] \in C /\ p[j] \in C
    BY <2>3, <2>4, <1>p, <1>c DEF Successor
  <2>6. m # 0
    BY <2>3, <2>5, <1>p
  <2>7. m - 1 \in Nat /\ m - 1 \in 0 .. N /\ m - 1 + 1 = m
    BY <2>4, <2>6
  <2>8. p[m] = F[p[m - 1]] /\ p[m - 1] \in C
    BY <2>7, <1>p, <1>c DEF Successor
  <2>9. p[m - 1] = p[j - 1]
    BY <2>3, <2>5, <2>8 DEF Injective
  <2>10. m - 1 < j - 1
    BY <2>3, <2>4
  <2>11. m - 1 \in T
    BY <2>4, <2>7, <2>9, <2>10
  <2>12. m <= m - 1
    <3> HIDE DEF T
    <3> QED BY <2>2, <2>11
  <2> QED BY <2>4, <2>12
<1>2. ASSUME NEW i \in 0 .. N, NEW j \in 0 .. N, p[i] = p[j] PROVE i = j
  <2>1. ~(i < j) /\ ~(j < i)
    <3> HIDE DEF p
    <3> QED BY <1>1, <1>2
  <2> QED BY <2>1
<1> QED BY <1>2

\* Nor is it longer than there are clusters, so that a search along it ends.
LEMMA PathBounded ==
  ASSUME NEW C, NEW F, NEW a, NEW N \in Nat,
         IsFiniteSet(C), Injective(C, F),
         \A c \in C : F[c] # a,
         \A n \in 0 .. N : Path(C, F, a)[n] \in C
  PROVE  N + 1 <= Cardinality(C)
<1> DEFINE f == [n \in 0 .. N |-> Path(C, F, a)[n]]
<1>1. IsFiniteSet(0 .. N) /\ Cardinality(0 .. N) = N + 1
  <2>1. Cardinality(0 .. N) = N - 0 + 1 /\ IsFiniteSet(0 .. N)
    BY FS_Interval
  <2> QED BY <2>1
<1>2. f \in [0 .. N -> C]
  OBVIOUS
<1>3. \A i, j \in 0 .. N : f[i] = f[j] => i = j
  <2>1. \A i, j \in 0 .. N : Path(C, F, a)[i] = Path(C, F, a)[j] => i = j
    BY PathInjective
  <2> QED BY <2>1
<1> HIDE DEF f
<1>4. ASSUME Cardinality(0 .. N) > Cardinality(C) PROVE FALSE
  <2>1. \E x, y \in 0 .. N : x # y /\ f[x] = f[y]
    BY <1>1, <1>2, <1>4, FS_PigeonHole
  <2> QED BY <2>1, <1>3
<1>5. Cardinality(C) \in Nat
  BY FS_CardinalityType
<1> QED BY <1>1, <1>4, <1>5
=============================================================================
