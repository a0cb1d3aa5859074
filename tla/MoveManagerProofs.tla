-------------------------- MODULE MoveManagerProofs --------------------------
(***************************************************************************)
(* Proofs about MoveManager, for all players, bags, stacks, weights and    *)
(* limits: that no bag is over its capacity, whatever the commands; and,   *)
(* without the two commands that are known to break them, that the four    *)
(* records of where a thing is agree, that units are conserved, that all   *)
(* that changes is marked, that a command changes the possession of one    *)
(* player at the most, that nobody comes to carry more than they can, and  *)
(* that what a name finds may be taken or dropped.                         *)
(*                                                                         *)
(* Sums and nests of bags are defined by recursion.  What holds of them is *)
(* shown by a least counterexample: a set of numbers has a least one, a    *)
(* family of finite sets a smallest one.                                   *)
(***************************************************************************)
EXTENDS Names, FiniteSetTheorems, WellFoundedInduction, TLAPS

(***************************************************************************)
(* Sums                                                                    *)
(***************************************************************************)

\* A set of numbers has a least one.
LEMMA LeastNumber ==
    ASSUME NEW T, T \subseteq Nat, T # {}
    PROVE  \E m \in T : \A n \in T : m <= n
<1>1. \E m \in T : \A n \in T : ~ (<<n, m>> \in OpToRel(<, Nat))
  BY NatLessThanWellFounded, WFMin, Zenon
<1>2. PICK m \in T : \A n \in T : ~ (<<n, m>> \in OpToRel(<, Nat))
  BY <1>1, Zenon
<1>3. ASSUME NEW n \in T
      PROVE  m <= n
  <2>1. m \in Nat /\ n \in Nat
    OBVIOUS
  <2>2. <<n, m>> \in Nat \X Nat /\ <<n, m>>[1] = n /\ <<n, m>>[2] = m
    BY <2>1
  <2>3. ~(n < m)
    BY <1>2, <2>2 DEF OpToRel
  <2> QED
    BY <2>1, <2>3
<1> QED
  BY <1>3

\* Of a family of subsets of a finite set one has none of the others inside.
LEMMA SmallestSet ==
    ASSUME NEW S, IsFiniteSet(S), NEW F, F \subseteq SUBSET S, F # {}
    PROVE  \E T \in F : \A U \in F : U \subseteq T => U = T
<1>1. \E T \in F : \A U \in F : ~ (<<U, T>> \in StrictSubsetOrdering(S))
  <2>1. FiniteSubsetsOf(S) = SUBSET S
    BY FS_FiniteSubsetsOfFinite
  <2> QED
    BY <2>1, FS_StrictSubsetOrderingWellFounded, WFMin
<1>2. PICK T \in F : \A U \in F : ~ (<<U, T>> \in StrictSubsetOrdering(S))
  BY <1>1
<1>3. ASSUME NEW U \in F, U \subseteq T, U # T
      PROVE  FALSE
  <2>1. <<U, T>> \in (SUBSET S) \X (SUBSET S) /\ <<U, T>>[1] = U /\ <<U, T>>[2] = T
    OBVIOUS
  <2> QED
    BY <1>2, <1>3, <2>1 DEF StrictSubsetOrdering
<1> QED
  BY <1>2, <1>3

\* The sum of f over S, and the element that it takes first.
Total(f, S) == MapThenSumSet(LAMBDA x : f[x], S)
One(s) == CHOOSE x \in s : TRUE

\* The equation of the fold.
IsFold(f, S, g) == g = [s \in SUBSET S |-> IF s = {} THEN 0 ELSE f[One(s)] + g[s \ {One(s)}]]

\* The sum, as MapThenSumSet defines it.
LEMMA TotalIs ==
    ASSUME NEW f, NEW S
    PROVE  Total(f, S) = (CHOOSE g : IsFold(f, S, g))[S]
BY DEF Total, MapThenSumSet, MapThenFoldSet, IsFold, One

\* The chosen element is one of the set.
LEMMA OneIn == ASSUME NEW s, s # {} PROVE One(s) \in s
BY DEF One

\* A fold of a set folds its subsets.
LEMMA FoldsPart ==
    ASSUME NEW f, NEW T, NEW h, IsFold(f, T, h), NEW U \in SUBSET T
    PROVE  IsFold(f, U, [s \in SUBSET U |-> h[s]])
<1> DEFINE k == [s \in SUBSET U |-> h[s]]
<1>1. ASSUME NEW s \in SUBSET U
      PROVE  k[s] = IF s = {} THEN 0 ELSE f[One(s)] + k[s \ {One(s)}]
  <2>1. s \in SUBSET T /\ s \ {One(s)} \in SUBSET U
    OBVIOUS
  <2>2. h[s] = IF s = {} THEN 0 ELSE f[One(s)] + h[s \ {One(s)}]
    BY <2>1 DEF IsFold
  <2> QED
    BY <2>1, <2>2
<1> QED
  BY <1>1 DEF IsFold

\* There is one fold and no other.
OneFold(f, T) == \E g : IsFold(f, T, g) /\ \A h : IsFold(f, T, h) => h = g

\* That one gives the sum.
LEMMA FoldIsTotal ==
    ASSUME NEW f, NEW T, OneFold(f, T), NEW h, IsFold(f, T, h)
    PROVE  h[T] = Total(f, T)
BY TotalIs DEF OneFold

\* Finite sets have one.
LEMMA TotalExists ==
    ASSUME NEW f, NEW S, IsFiniteSet(S)
    PROVE  OneFold(f, S)
<1> DEFINE Bad == {T \in SUBSET S : ~OneFold(f, T)}
<1>1. SUFFICES ASSUME Bad # {} PROVE FALSE
  OBVIOUS
<1>2. PICK T \in Bad : \A U \in Bad : U \subseteq T => U = T
  <2>1. Bad \subseteq SUBSET S
    OBVIOUS
  <2> HIDE DEF Bad
  <2>2. \E T \in Bad : \A U \in Bad : U \subseteq T => U = T
    BY <1>1, <2>1, SmallestSet
  <2> QED
    BY <2>2
<1>3. ASSUME NEW U \in SUBSET T, U # T PROVE OneFold(f, U)
  BY <1>2, <1>3
<1> DEFINE g == [s \in SUBSET T |-> IF s = {} THEN 0 ELSE f[One(s)] + Total(f, s \ {One(s)})]
<1>4. ASSUME NEW s \in SUBSET T, s # {}, NEW h, IsFold(f, T, h)
      PROVE  h[s \ {One(s)}] = Total(f, s \ {One(s)})
  <2> DEFINE u == s \ {One(s)}
  <2>1. u \in SUBSET T /\ u # T
    BY <1>4, OneIn
  <2>2. IsFold(f, u, [r \in SUBSET u |-> h[r]])
    BY <2>1, <1>4, FoldsPart
  <2>3. [r \in SUBSET u |-> h[r]][u] = Total(f, u)
    BY <2>1, <2>2, <1>3, FoldIsTotal
  <2> QED
    BY <2>3
<1>5. ASSUME NEW h, IsFold(f, T, h) PROVE h = g
  BY <1>4, <1>5 DEF IsFold
<1>6. ASSUME NEW u \in SUBSET T, u # T PROVE g[u] = Total(f, u)
  <2>1. PICK h : IsFold(f, u, h)
    BY <1>3, <1>6 DEF OneFold
  <2>2. h[u] = Total(f, u)
    BY <2>1, <1>3, <1>6, FoldIsTotal
  <2>3. h[u] = IF u = {} THEN 0 ELSE f[One(u)] + h[u \ {One(u)}]
    BY <2>1 DEF IsFold
  <2>4. CASE u = {}
    BY <2>2, <2>3, <2>4
  <2>5. CASE u # {}
    <3> DEFINE v == u \ {One(u)}
    <3>1. v \in SUBSET u /\ v \in SUBSET T /\ v # T
      BY <1>6, <2>5, OneIn
    <3>2. IsFold(f, v, [r \in SUBSET v |-> h[r]])
      BY <2>1, <3>1, FoldsPart
    <3>3. [r \in SUBSET v |-> h[r]][v] = Total(f, v)
      BY <3>1, <3>2, <1>3, FoldIsTotal
    <3> QED
      BY <2>2, <2>3, <2>5, <3>3
  <2> QED
    BY <2>4, <2>5
<1>7. IsFold(f, T, g)
  <2>1. ASSUME NEW s \in SUBSET T, s # {} PROVE g[s \ {One(s)}] = Total(f, s \ {One(s)})
    BY <1>6, <2>1, OneIn
  <2> QED
    BY <2>1 DEF IsFold
<1> QED
  BY <1>2, <1>5, <1>7 DEF OneFold

\* The sum of nothing.
LEMMA TotalOfNone == ASSUME NEW f PROVE Total(f, {}) = 0
<1>1. IsFiniteSet({})
  BY FS_EmptySet
<1>2. PICK g : IsFold(f, {}, g)
  BY <1>1, TotalExists DEF OneFold
<1>3. g[{}] = Total(f, {})
  BY <1>1, <1>2, TotalExists, FoldIsTotal
<1> QED
  BY <1>2, <1>3 DEF IsFold

\* One element at a time.
LEMMA TotalStep ==
    ASSUME NEW f, NEW S, IsFiniteSet(S), S # {}
    PROVE  One(S) \in S /\ Total(f, S) = f[One(S)] + Total(f, S \ {One(S)})
<1> DEFINE u == S \ {One(S)}
<1>1. PICK g : IsFold(f, S, g)
  BY TotalExists DEF OneFold
<1>2. g[S] = Total(f, S)
  BY <1>1, TotalExists, FoldIsTotal
<1>3. IsFold(f, u, [r \in SUBSET u |-> g[r]])
  BY <1>1, FoldsPart
<1>4. IsFiniteSet(u)
  BY FS_RemoveElement
<1>5. [r \in SUBSET u |-> g[r]][u] = Total(f, u)
  BY <1>3, <1>4, TotalExists, FoldIsTotal
<1>6. g[S] = f[One(S)] + g[u]
  BY <1>1 DEF IsFold
<1> QED
  BY <1>2, <1>5, <1>6, OneIn

\* Sums of numbers are numbers, and do not depend on how elements are chosen.
LEMMA TotalNat ==
    ASSUME NEW S, IsFiniteSet(S), NEW f, \A x \in S : f[x] \in Nat
    PROVE  Total(f, S) \in Nat
<1> DEFINE Bad == {T \in SUBSET S : Total(f, T) \notin Nat}
<1>1. SUFFICES ASSUME Bad # {} PROVE FALSE
  OBVIOUS
<1>2. PICK T \in Bad : \A U \in Bad : U \subseteq T => U = T
  <2>1. Bad \subseteq SUBSET S
    OBVIOUS
  <2> HIDE DEF Bad
  <2>2. \E T \in Bad : \A U \in Bad : U \subseteq T => U = T
    BY <1>1, <2>1, SmallestSet
  <2> QED
    BY <2>2
<1>3. T # {}
  <2>1. Total(f, {}) \in Nat /\ Total(f, T) \notin Nat
    BY <1>2, TotalOfNone
  <2> QED
    BY <2>1
<1>4. IsFiniteSet(T)
  BY FS_Subset
<1>5. One(T) \in T /\ Total(f, T) = f[One(T)] + Total(f, T \ {One(T)})
  BY <1>3, <1>4, TotalStep
<1>6. T \ {One(T)} \notin Bad
  BY <1>2, <1>5
<1> QED
  BY <1>2, <1>5, <1>6

\* Adding an element adds its value.
LEMMA TotalAdd ==
    ASSUME NEW S, IsFiniteSet(S), NEW f, \A x \in S : f[x] \in Nat,
           NEW y \in S
    PROVE  Total(f, S) = f[y] + Total(f, S \ {y})
<1> DEFINE Bad == {T \in SUBSET S : \E z \in T : Total(f, T) # f[z] + Total(f, T \ {z})}
<1>1. SUFFICES ASSUME Bad # {} PROVE FALSE
  OBVIOUS
<1>2. PICK T \in Bad : \A U \in Bad : U \subseteq T => U = T
  <2>1. Bad \subseteq SUBSET S
    OBVIOUS
  <2> HIDE DEF Bad
  <2>2. \E T \in Bad : \A U \in Bad : U \subseteq T => U = T
    BY <1>1, <2>1, SmallestSet
  <2> QED
    BY <2>2
<1>3. PICK z \in T : Total(f, T) # f[z] + Total(f, T \ {z})
  BY <1>2
<1> DEFINE o == One(T)
<1>4. IsFiniteSet(T) /\ IsFiniteSet(T \ {z}) /\ IsFiniteSet(T \ {o}) /\ IsFiniteSet((T \ {o}) \ {z})
  BY FS_Subset
<1>5. o \in T /\ Total(f, T) = f[o] + Total(f, T \ {o})
  BY <1>3, <1>4, TotalStep
<1>6. o # z
  BY <1>3, <1>5
<1>7. Total(f, T \ {o}) = f[z] + Total(f, (T \ {o}) \ {z})
  <2>1. T \ {o} \notin Bad
    BY <1>2, <1>5
  <2> QED
    BY <2>1, <1>6
<1>8. Total(f, T \ {z}) = f[o] + Total(f, (T \ {z}) \ {o})
  <2>1. T \ {z} \notin Bad
    BY <1>2, <1>3
  <2> QED
    BY <2>1, <1>5, <1>6
<1>9. (T \ {o}) \ {z} = (T \ {z}) \ {o}
  OBVIOUS
<1>10. Total(f, (T \ {o}) \ {z}) \in Nat /\ f[o] \in Nat /\ f[z] \in Nat
  BY <1>4, <1>5, TotalNat
<1> HIDE DEF o
<1>11. Total(f, T) = f[z] + Total(f, T \ {z})
  <2> DEFINE rest == Total(f, (T \ {o}) \ {z})
  <2>1. Total(f, T) = f[o] + (f[z] + rest) /\ Total(f, T \ {z}) = f[o] + rest
    BY <1>5, <1>7, <1>8, <1>9
  <2>2. rest \in Nat /\ f[o] \in Nat /\ f[z] \in Nat
    BY <1>10
  <2> HIDE DEF rest
  <2>3. f[o] + (f[z] + rest) = f[z] + (f[o] + rest)
    BY <2>2
  <2> QED
    BY <2>1, <2>3
<1> QED
  BY <1>3, <1>11

\* A sum is of the values of its elements only.
LEMMA TotalSame ==
    ASSUME NEW S, IsFiniteSet(S), NEW f, NEW g, \A x \in S : f[x] = g[x]
    PROVE  Total(f, S) = Total(g, S)
<1> DEFINE Bad == {T \in SUBSET S : Total(f, T) # Total(g, T)}
<1>1. SUFFICES ASSUME Bad # {} PROVE FALSE
  OBVIOUS
<1>2. PICK T \in Bad : \A U \in Bad : U \subseteq T => U = T
  <2>1. Bad \subseteq SUBSET S
    OBVIOUS
  <2> HIDE DEF Bad
  <2>2. \E T \in Bad : \A U \in Bad : U \subseteq T => U = T
    BY <1>1, <2>1, SmallestSet
  <2> QED
    BY <2>2
<1>3. T # {}
  BY <1>2, TotalOfNone
<1>4. IsFiniteSet(T)
  BY FS_Subset
<1>5. /\ One(T) \in T /\ Total(f, T) = f[One(T)] + Total(f, T \ {One(T)})
      /\ Total(g, T) = g[One(T)] + Total(g, T \ {One(T)})
  BY <1>3, <1>4, TotalStep
<1>6. T \ {One(T)} \notin Bad
  BY <1>2, <1>5
<1> QED
  BY <1>2, <1>5, <1>6

\* Units that go from one element to another leave the sum as it is.
LEMMA TotalTransfer ==
    ASSUME NEW S, IsFiniteSet(S), NEW f \in [S -> Nat], NEW a \in S, NEW b \in S, a # b,
           NEW u \in Nat, u <= f[b]
    PROVE  Total([f EXCEPT ![a] = f[a] + u, ![b] = f[b] - u], S) = Total(f, S)
<1> DEFINE g == [f EXCEPT ![a] = f[a] + u, ![b] = f[b] - u]
           T == S \ {a}
           R == T \ {b}
<1>1. g \in [S -> Nat] /\ g[a] = f[a] + u /\ g[b] = f[b] - u /\ \A x \in R : g[x] = f[x]
  OBVIOUS
<1> HIDE DEF g
<1>2. IsFiniteSet(T) /\ IsFiniteSet(R) /\ b \in T
  BY FS_Subset
<1>3. Total(f, S) = f[a] + Total(f, T) /\ Total(g, S) = g[a] + Total(g, T)
  BY <1>1, TotalAdd
<1>4. \A x \in T : f[x] \in Nat /\ g[x] \in Nat
  BY <1>1
<1> HIDE DEF T
<1>5. Total(f, T) = f[b] + Total(f, R) /\ Total(g, T) = g[b] + Total(g, R)
  BY <1>2, <1>4, TotalAdd
<1>6. \A x \in R : f[x] \in Nat
  BY <1>4
<1> HIDE DEF R
<1>7. Total(f, R) = Total(g, R) /\ Total(f, R) \in Nat
  BY <1>1, <1>2, <1>6, TotalSame, TotalNat
<1>8. f[a] \in Nat /\ f[b] \in Nat
  OBVIOUS
<1> DEFINE rest == Total(f, R)
<1>9. Total(f, S) = f[a] + (f[b] + rest) /\ Total(g, S) = (f[a] + u) + ((f[b] - u) + rest) /\ rest \in Nat
  BY <1>1, <1>3, <1>5, <1>7
<1> HIDE DEF rest
<1>10. Total(g, S) = Total(f, S)
  BY <1>8, <1>9
<1> QED
  BY <1>10 DEF g

\* Elements without units do not count.
LEMMA TotalZeros ==
    ASSUME NEW S, IsFiniteSet(S), NEW T, T \subseteq S, NEW f, \A x \in S : f[x] \in Nat,
           \A x \in S \ T : f[x] = 0
    PROVE  Total(f, S) = Total(f, T)
<1> DEFINE Bad == {R \in SUBSET (S \ T) : Total(f, T \cup R) # Total(f, T)}
<1>1. Bad = {}
  <2>1. SUFFICES ASSUME Bad # {} PROVE FALSE
    OBVIOUS
  <2>2. PICK R \in Bad : \A U \in Bad : U \subseteq R => U = R
    <3>1. Bad \subseteq SUBSET S
      OBVIOUS
    <3> HIDE DEF Bad
    <3>2. \E R \in Bad : \A U \in Bad : U \subseteq R => U = R
      BY <2>1, <3>1, SmallestSet
    <3> QED
      BY <3>2
  <2>3. R # {}
    <3>1. T \cup {} = T
      OBVIOUS
    <3> QED
      BY <2>2, <3>1
  <2>4. PICK y : y \in R
    BY <2>3
  <2>5. R \ {y} \notin Bad /\ R \ {y} \in SUBSET (S \ T)
    BY <2>2, <2>4
  <2>6. Total(f, T \cup (R \ {y})) = Total(f, T)
    BY <2>5
  <2>7. (T \cup R) \ {y} = T \cup (R \ {y}) /\ y \in T \cup R /\ T \cup R \subseteq S /\ f[y] = 0
    BY <2>2, <2>4
  <2>8. IsFiniteSet(T \cup R) /\ \A x \in T \cup R : f[x] \in Nat
    BY <2>7, FS_Subset
  <2>9. Total(f, T \cup R) = f[y] + Total(f, T \cup (R \ {y}))
    BY <2>7, <2>8, TotalAdd
  <2>10. Total(f, T) \in Nat
    BY FS_Subset, TotalNat
  <2> QED
    BY <2>2, <2>6, <2>7, <2>9, <2>10
<1>2. S \ T \notin Bad /\ T \cup (S \ T) = S
  BY <1>1
<1> QED
  BY <1>2

\* A sum of which one element changes.
LEMMA TotalBump ==
    ASSUME NEW S, IsFiniteSet(S), NEW f, NEW g, NEW a \in S, \A x \in S : f[x] \in Nat, g[a] \in Nat,
           \A x \in S \ {a} : g[x] = f[x]
    PROVE  Total(g, S) = Total(f, S) - f[a] + g[a] /\ Total(f, S) \in Nat /\ f[a] <= Total(f, S)
<1> DEFINE R == S \ {a}
<1>1. IsFiniteSet(R) /\ \A x \in R : f[x] \in Nat
  BY FS_Subset
<1>2. \A x \in S : g[x] \in Nat
  OBVIOUS
<1>3. Total(f, S) = f[a] + Total(f, R) /\ Total(g, S) = g[a] + Total(g, R)
  BY <1>2, TotalAdd
<1> HIDE DEF R
<1>4. Total(f, R) = Total(g, R) /\ Total(f, R) \in Nat
  BY <1>1, TotalSame, TotalNat DEF R
<1>5. f[a] \in Nat
  OBVIOUS
<1> QED
  BY <1>3, <1>4, <1>5

\* The sum over two sets that have nothing in common.
LEMMA TotalUnion ==
    ASSUME NEW S, IsFiniteSet(S), NEW T, IsFiniteSet(T), S \cap T = {}, NEW f, \A x \in S \cup T : f[x] \in Nat
    PROVE  Total(f, S \cup T) = Total(f, S) + Total(f, T)
<1> DEFINE Bad == {R \in SUBSET T : Total(f, S \cup R) # Total(f, S) + Total(f, R)}
<1>0. IsFiniteSet(S \cup T) /\ Total(f, S) \in Nat
  BY FS_Union, TotalNat
<1>1. Bad = {}
  <2>1. SUFFICES ASSUME Bad # {} PROVE FALSE
    OBVIOUS
  <2>2. PICK R \in Bad : \A U \in Bad : U \subseteq R => U = R
    <3>1. Bad \subseteq SUBSET T
      OBVIOUS
    <3> HIDE DEF Bad
    <3>2. \E R \in Bad : \A U \in Bad : U \subseteq R => U = R
      BY <2>1, <3>1, SmallestSet
    <3> QED
      BY <3>2
  <2>3. R # {}
    <3>1. S \cup {} = S
      OBVIOUS
    <3>2. Total(f, {}) = 0
      BY TotalOfNone
    <3>3. Total(f, S) = Total(f, S) + 0
      BY <1>0
    <3>4. {} \notin Bad
      BY <3>1, <3>2, <3>3
    <3> HIDE DEF Bad
    <3> QED
      BY <2>2, <3>4
  <2>4. PICK y : y \in R
    BY <2>3
  <2> DEFINE Q == R \ {y}
  <2>5. Q \notin Bad /\ Q \in SUBSET T /\ R \in SUBSET T
    BY <2>2, <2>4
  <2>6. Total(f, S \cup Q) = Total(f, S) + Total(f, Q)
    BY <2>5
  <2>7. (S \cup R) \ {y} = S \cup Q /\ y \in S \cup R /\ S \cup R \subseteq S \cup T
    BY <2>2, <2>4
  <2>8. IsFiniteSet(S \cup R) /\ IsFiniteSet(R) /\ (\A x \in S \cup R : f[x] \in Nat) /\ IsFiniteSet(Q)
    BY <1>0, <2>5, <2>7, FS_Subset
  <2>9. Total(f, S \cup R) = f[y] + Total(f, S \cup Q)
    BY <2>7, <2>8, TotalAdd
  <2>10. Total(f, R) = f[y] + Total(f, Q)
    BY <2>4, <2>8, TotalAdd
  <2>11. Total(f, Q) \in Nat /\ f[y] \in Nat
    BY <2>4, <2>8, TotalNat
  <2>12. Total(f, S \cup R) = Total(f, S) + Total(f, R)
    <3> HIDE DEF Q
    <3> QED
      BY <1>0, <2>6, <2>9, <2>10, <2>11
  <2> QED
    BY <2>2, <2>12
<1>2. T \notin Bad
  BY <1>1
<1> QED
  BY <1>2

\* A product of a sum.
LEMMA Distribute ==
    ASSUME NEW k \in Nat, NEW i \in Nat, NEW j \in Nat
    PROVE  k * (i + j) = k * i + k * j /\ k * i \in Nat
BY SMTT(20)

\* Equal shares of a sum.
LEMMA TotalScale ==
    ASSUME NEW S, IsFiniteSet(S), NEW f, \A x \in S : f[x] \in Nat, NEW g, NEW k \in Nat, \A x \in S : g[x] = k * f[x]
    PROVE  Total(g, S) = k * Total(f, S)
<1> DEFINE Bad == {R \in SUBSET S : Total(g, R) # k * Total(f, R)}
<1>1. Bad = {}
  <2>1. SUFFICES ASSUME Bad # {} PROVE FALSE
    OBVIOUS
  <2>2. PICK R \in Bad : \A U \in Bad : U \subseteq R => U = R
    <3>1. Bad \subseteq SUBSET S
      OBVIOUS
    <3> HIDE DEF Bad
    <3>2. \E R \in Bad : \A U \in Bad : U \subseteq R => U = R
      BY <2>1, <3>1, SmallestSet
    <3> QED
      BY <3>2
  <2>3. R # {}
    <3>1. Total(f, {}) = 0 /\ Total(g, {}) = 0 /\ k * 0 = 0
      BY TotalOfNone
    <3>2. {} \notin Bad
      BY <3>1
    <3> HIDE DEF Bad
    <3> QED
      BY <2>2, <3>2
  <2>4. PICK y : y \in R
    BY <2>3
  <2> DEFINE Q == R \ {y}
  <2>5. Q \notin Bad /\ Q \in SUBSET S /\ R \in SUBSET S
    BY <2>2, <2>4
  <2>6. Total(g, Q) = k * Total(f, Q)
    BY <2>5
  <2>8. IsFiniteSet(R) /\ (\A x \in R : f[x] \in Nat /\ g[x] \in Nat) /\ IsFiniteSet(Q)
    BY <2>5, FS_Subset
  <2>9. Total(f, R) = f[y] + Total(f, Q) /\ Total(g, R) = g[y] + Total(g, Q)
    BY <2>4, <2>8, TotalAdd
  <2>10. Total(f, Q) \in Nat /\ f[y] \in Nat /\ g[y] = k * f[y]
    BY <2>4, <2>8, TotalNat
  <2>11. Total(g, R) = k * Total(f, R)
    <3> DEFINE s == Total(f, Q)
               a == f[y]
    <3>1. s \in Nat /\ a \in Nat /\ Total(g, R) = k * a + k * s /\ Total(f, R) = a + s
      BY <2>6, <2>9, <2>10
    <3> HIDE DEF Q, s, a
    <3>2. k * (a + s) = k * a + k * s
      BY <3>1, Distribute
    <3> QED
      BY <3>1, <3>2
  <2> QED
    BY <2>2, <2>11
<1>2. S \notin Bad
  BY <1>1
<1> QED
  BY <1>2

\* A sum over a part is one over the whole, of what is in the part.
LEMMA TotalOn ==
    ASSUME NEW S, IsFiniteSet(S), NEW T, T \subseteq S, NEW f, \A x \in S : f[x] \in Nat
    PROVE  Total([x \in S |-> IF x \in T THEN f[x] ELSE 0], S) = Total(f, T)
<1> DEFINE g == [x \in S |-> IF x \in T THEN f[x] ELSE 0]
<1>1. /\ \A x \in S : g[x] \in Nat
      /\ \A x \in S \ T : g[x] = 0
      /\ \A x \in T : g[x] = f[x]
  OBVIOUS
<1>2. IsFiniteSet(T)
  BY FS_Subset
<1> HIDE DEF g
<1>3. Total(g, S) = Total(g, T)
  BY <1>1, TotalZeros
<1>4. Total(g, T) = Total(f, T)
  BY <1>1, <1>2, TotalSame
<1> QED
  BY <1>3, <1>4 DEF g

(***************************************************************************)
(* What is inside                                                          *)
(***************************************************************************)

\* The steps of Possesses and TotalWeight, from B on.
IsNest(c, B, N, g) ==
    g = [n \in 0..N |-> IF n = 0 THEN B ELSE g[n - 1] \cup UNION {c[b] : b \in g[n - 1] \cap Bags}]

\* All that is in a nest, as deep as there are bags.
Contained(c, B) == (CHOOSE g : IsNest(c, B, Cardinality(Bags), g))[Cardinality(Bags)]

\* There is such a nest, however deep.
LEMMA NestExists ==
    ASSUME NEW c, NEW B, NEW N \in Nat
    PROVE  \E g : IsNest(c, B, N, g)
<1> DEFINE Bad == {n \in Nat : ~ \E g : IsNest(c, B, n, g)}
<1>1. SUFFICES ASSUME Bad # {} PROVE FALSE
  OBVIOUS
<1>2. PICK n \in Bad : \A k \in Bad : n <= k
  <2>1. Bad \subseteq Nat
    OBVIOUS
  <2> HIDE DEF Bad
  <2>2. \E n \in Bad : \A k \in Bad : n <= k
    BY <1>1, <2>1, LeastNumber
  <2> QED
    BY <2>2
<1>3. n \in Nat
  OBVIOUS
<1>4. CASE n = 0
  <2> DEFINE g == [k \in 0..0 |-> B]
  <2>1. IsNest(c, B, 0, g)
    BY DEF IsNest
  <2> QED
    BY <1>2, <1>4, <2>1
<1>5. CASE n # 0
  <2>1. n - 1 \in Nat /\ n - 1 \notin Bad
    BY <1>2, <1>3, <1>5
  <2>2. PICK h : IsNest(c, B, n - 1, h)
    BY <2>1
  <2> DEFINE g == [k \in 0..n |-> IF k = n THEN h[n - 1] \cup UNION {c[b] : b \in h[n - 1] \cap Bags} ELSE h[k]]
  <2>3. ASSUME NEW k \in 0..n
        PROVE  g[k] = IF k = 0 THEN B ELSE g[k - 1] \cup UNION {c[b] : b \in g[k - 1] \cap Bags}
    <3>1. \A j \in 0..(n - 1) : g[j] = h[j]
      BY <1>3
    <3>2. CASE k = n
      <4>1. n - 1 \in 0..(n - 1)
        BY <1>3, <1>5
      <4>2. g[n - 1] = h[n - 1]
        BY <3>1, <4>1
      <4>3. g[n] = h[n - 1] \cup UNION {c[b] : b \in h[n - 1] \cap Bags}
        BY <1>3
      <4> HIDE DEF g
      <4> QED
        BY <3>2, <4>2, <4>3, <1>5
    <3>3. CASE k # n
      <4>1. k \in 0..(n - 1) /\ (k # 0 => k - 1 \in 0..(n - 1))
        BY <1>3, <3>3
      <4>2. h[k] = IF k = 0 THEN B ELSE h[k - 1] \cup UNION {c[b] : b \in h[k - 1] \cap Bags}
        BY <2>2, <4>1 DEF IsNest
      <4> HIDE DEF g
      <4> QED
        BY <3>1, <4>1, <4>2
    <3> QED
      BY <3>2, <3>3
  <2>4. g = [k \in 0..n |-> g[k]]
    OBVIOUS
  <2>5. IsNest(c, B, n, g)
    <3> HIDE DEF g
    <3> QED
      BY <2>3, <2>4 DEF IsNest
  <2> QED
    BY <1>2, <2>5
<1> QED
  BY <1>4, <1>5

\* There are finitely many bags and stacks.
LEMMA BagsFinite == IsFiniteSet(Bags) /\ IsFiniteSet(Stacks) /\ Cardinality(Bags) \in Nat
BY MoveAssumption, FS_Subset, FS_CardinalityType DEF Things

\* A nest has its base inside, and nothing but things.
LEMMA NestBounds ==
    ASSUME NEW B, NEW c, NEW N \in Nat, NEW g, IsNest(c, B, N, g)
    PROVE  /\ B \subseteq g[N]
           /\ B \subseteq Things /\ c \in [Bags -> SUBSET Things] => g[N] \subseteq Things
<1> DEFINE Bad == {n \in 0..N : ~ (B \subseteq g[n] /\ (B \subseteq Things /\ c \in [Bags -> SUBSET Things] => g[n] \subseteq Things))}
<1>1. Bad = {}
  <2>1. SUFFICES ASSUME Bad # {} PROVE FALSE
    OBVIOUS
  <2>2. PICK n \in Bad : \A k \in Bad : n <= k
    <3>1. Bad \subseteq Nat
      OBVIOUS
    <3> HIDE DEF Bad
    <3>2. \E n \in Bad : \A k \in Bad : n <= k
      BY <2>1, <3>1, LeastNumber
    <3> QED
      BY <3>2
  <2>3. n \in 0..N /\ g[n] = IF n = 0 THEN B ELSE g[n - 1] \cup UNION {c[b] : b \in g[n - 1] \cap Bags}
    BY DEF IsNest
  <2>4. CASE n = 0
    BY <2>3, <2>4
  <2>5. CASE n # 0
    <3>1. n - 1 \in 0..N /\ ~(n <= n - 1)
      BY <2>3, <2>5
    <3>2. n - 1 \notin Bad
      BY <2>2, <3>1
    <3> QED
      BY <2>3, <2>5, <3>1, <3>2
  <2> QED
    BY <2>4, <2>5
<1>2. N \in 0..N
  OBVIOUS
<1> QED
  BY <1>1, <1>2

\* What is inside has its base, and is made of things.
LEMMA ContainedBounds ==
    ASSUME NEW B, NEW c
    PROVE  /\ B \subseteq Contained(c, B)
           /\ B \subseteq Things /\ c \in [Bags -> SUBSET Things] => Contained(c, B) \subseteq Things
<1> DEFINE N == Cardinality(Bags)
<1>1. N \in Nat
  BY BagsFinite
<1> HIDE DEF N
<1>2. PICK g : IsNest(c, B, N, g) /\ Contained(c, B) = g[N]
  BY <1>1, NestExists DEF Contained, N
<1>3. /\ B \subseteq g[N]
      /\ B \subseteq Things /\ c \in [Bags -> SUBSET Things] => g[N] \subseteq Things
  <2>1. IsNest(c, B, N, g)
    BY <1>2
  <2> QED
    BY ONLY <1>1, <2>1, NestBounds
<1> QED
  BY <1>2, <1>3

\* A step of a nest that is within the nest adds nothing, and a nest that is
\* not closed yet has had a bag more at every step.
LEMMA NestCloses ==
    ASSUME NEW c, NEW B, NEW N \in Nat, NEW g, IsNest(c, B, N, g), NEW n \in 0..N
    PROVE  \/ \A b \in g[n] \cap Bags : c[b] \subseteq g[n]
           \/ Cardinality(g[n] \cap Bags) > n
<1> DEFINE Closed(k) == \A b \in g[k] \cap Bags : c[b] \subseteq g[k]
           Bad == {k \in 0..N : ~ (Closed(k) \/ Cardinality(g[k] \cap Bags) > k)}
<1>1. SUFFICES ASSUME Bad # {} PROVE FALSE
  OBVIOUS
<1>2. PICK k \in Bad : \A j \in Bad : k <= j
  <2>1. Bad \subseteq Nat
    OBVIOUS
  <2> HIDE DEF Bad
  <2>2. \E k \in Bad : \A j \in Bad : k <= j
    BY <1>1, <2>1, LeastNumber
  <2> QED
    BY <2>2
<1>3. k \in 0..N /\ g[k] = IF k = 0 THEN B ELSE g[k - 1] \cup UNION {c[b] : b \in g[k - 1] \cap Bags}
  BY DEF IsNest
<1>4. ~Closed(k) /\ ~(Cardinality(g[k] \cap Bags) > k)
  OBVIOUS
<1> DEFINE S == g[k] \cap Bags
<1>5. IsFiniteSet(S) /\ Cardinality(S) \in Nat
  BY BagsFinite, FS_Subset, FS_CardinalityType
<1>6. CASE k = 0
  <2>1. S # {}
    BY <1>4
  <2>2. Cardinality(S) # 0
    BY <1>5, <2>1, FS_EmptySet
  <2> QED
    BY <1>4, <1>5, <1>6, <2>2
<1>7. CASE k # 0
  <2> DEFINE j == k - 1
             R == g[j] \cap Bags
  <2>1. j \in 0..N /\ j \in Nat /\ k = j + 1 /\ ~(k <= j)
    BY <1>3, <1>7
  <2>2. j \notin Bad
    BY <1>2, <2>1
  <2>3. g[k] = g[j] \cup UNION {c[b] : b \in R}
    BY <1>3, <1>7
  <2> HIDE DEF j
  <2>4. ~Closed(j)
    <3>1. SUFFICES ASSUME Closed(j) PROVE Closed(k)
      BY <1>4
    <3>2. g[k] = g[j]
      BY <2>3, <3>1
    <3> QED
      BY <3>1, <3>2
  <2>5. Cardinality(R) > j
    BY <2>1, <2>2, <2>4
  <2>6. R \subseteq S /\ R # S
    <3>1. R \subseteq S
      BY <2>3
    <3>2. ASSUME R = S PROVE Closed(k)
      BY <2>3, <3>2
    <3> QED
      BY <1>4, <3>1, <3>2
  <2> HIDE DEF R, S
  <2>7. Cardinality(R) \in Nat /\ Cardinality(R) <= Cardinality(S) /\ Cardinality(R) # Cardinality(S)
    BY <1>5, <2>6, FS_Subset, FS_CardinalityType
  <2>8. Cardinality(S) > k
    BY <1>5, <2>1, <2>5, <2>7
  <2> QED
    BY <1>4, <2>8 DEF S
<1> QED
  BY <1>6, <1>7

\* What is inside is closed: as many steps as there are bags are enough.
LEMMA ContainedClosed ==
    ASSUME NEW c, NEW B, NEW b \in Contained(c, B) \cap Bags
    PROVE  c[b] \subseteq Contained(c, B)
<1> DEFINE N == Cardinality(Bags)
<1>1. N \in Nat /\ IsFiniteSet(Bags)
  BY BagsFinite
<1>2. PICK g : IsNest(c, B, N, g) /\ Contained(c, B) = g[N]
  BY <1>1, NestExists DEF Contained
<1> HIDE DEF N
<1>3. N \in 0..N
  BY <1>1
<1>4. \/ \A a \in g[N] \cap Bags : c[a] \subseteq g[N]
      \/ Cardinality(g[N] \cap Bags) > N
  BY <1>1, <1>2, <1>3, NestCloses
<1>5. Cardinality(g[N] \cap Bags) \in Nat /\ Cardinality(g[N] \cap Bags) <= N
  <2> DEFINE S == g[N] \cap Bags
  <2>1. S \in SUBSET Bags
    OBVIOUS
  <2> HIDE DEF S
  <2>2. IsFiniteSet(S) /\ Cardinality(S) <= Cardinality(Bags)
    BY <1>1, <2>1, FS_Subset
  <2> QED
    BY <2>2, FS_CardinalityType DEF S, N
<1> QED
  BY <1>1, <1>2, <1>4, <1>5

\* And it is the least set that is.
LEMMA ContainedLeast ==
    ASSUME NEW c, NEW B, NEW P, B \subseteq P, \A b \in P \cap Bags : c[b] \subseteq P
    PROVE  Contained(c, B) \subseteq P
<1> DEFINE N == Cardinality(Bags)
<1>1. N \in Nat
  BY BagsFinite
<1>2. PICK g : IsNest(c, B, N, g) /\ Contained(c, B) = g[N]
  BY <1>1, NestExists DEF Contained
<1> HIDE DEF N
<1> DEFINE Bad == {n \in 0..N : ~ (g[n] \subseteq P)}
<1>3. Bad = {}
  <2>1. SUFFICES ASSUME Bad # {} PROVE FALSE
    OBVIOUS
  <2>2. PICK n \in Bad : \A k \in Bad : n <= k
    <3>1. Bad \subseteq Nat
      OBVIOUS
    <3> HIDE DEF Bad
    <3>2. \E n \in Bad : \A k \in Bad : n <= k
      BY <2>1, <3>1, LeastNumber
    <3> QED
      BY <3>2
  <2>3. n \in 0..N /\ g[n] = IF n = 0 THEN B ELSE g[n - 1] \cup UNION {c[b] : b \in g[n - 1] \cap Bags}
    BY <1>2 DEF IsNest
  <2>4. CASE n = 0
    BY <2>3, <2>4
  <2>5. CASE n # 0
    <3>1. n - 1 \in 0..N /\ ~(n <= n - 1)
      BY <1>1, <2>3, <2>5
    <3>2. n - 1 \notin Bad
      BY <2>2, <3>1
    <3>3. g[n - 1] \subseteq P
      BY <3>1, <3>2
    <3>4. g[n] \subseteq P
      BY <2>3, <2>5, <3>3
    <3> QED
      BY <3>4
  <2> QED
    BY <2>4, <2>5
<1>4. N \in 0..N
  BY <1>1
<1> QED
  BY <1>2, <1>3, <1>4

\* What is inside is at the base, or in a bag that is inside.
LEMMA ContainedIs ==
    ASSUME NEW c, NEW B, NEW y \in Contained(c, B)
    PROVE  y \in B \/ \E b \in Contained(c, B) \cap Bags : y \in c[b]
<1> DEFINE P == {z \in Contained(c, B) : z \in B \/ \E b \in Contained(c, B) \cap Bags : z \in c[b]}
<1>1. B \subseteq P
  BY ContainedBounds
<1>2. \A b \in P \cap Bags : c[b] \subseteq P
  BY ContainedClosed
<1> HIDE DEF P
<1>3. Contained(c, B) \subseteq P
  BY <1>1, <1>2, ContainedLeast
<1> QED
  BY <1>3 DEF P

\* It is the same when the bags that are inside are.
LEMMA ContainedSame ==
    ASSUME NEW c, NEW d, NEW B, \A b \in Contained(c, B) \cap Bags : d[b] = c[b]
    PROVE  Contained(d, B) = Contained(c, B)
<1>1. Contained(d, B) \subseteq Contained(c, B)
  <2> DEFINE P == Contained(c, B)
  <2>1. B \subseteq P
    BY ContainedBounds
  <2>2. \A b \in P \cap Bags : d[b] \subseteq P
    BY ContainedClosed
  <2> HIDE DEF P
  <2>3. Contained(d, B) \subseteq P
    BY <2>1, <2>2, ContainedLeast
  <2> QED
    BY <2>3 DEF P
<1>2. Contained(c, B) \subseteq Contained(d, B)
  <2> DEFINE P == Contained(c, B) \cap Contained(d, B)
  <2>1. B \subseteq P
    BY ContainedBounds
  <2>2. ASSUME NEW b \in P \cap Bags PROVE c[b] \subseteq P
    BY ContainedClosed
  <2> HIDE DEF P
  <2>3. Contained(c, B) \subseteq P
    BY <2>1, <2>2, ContainedLeast
  <2> QED
    BY <2>3 DEF P
<1> QED
  BY <1>1, <1>2

\* The nearest place above a thing is its location.
LEMMA AboveHasLoc ==
    ASSUME NEW w, NEW x
    PROVE  w.loc[x] \in Above(w, x)
<1> DEFINE N == Cardinality(Bags)
           c == [b \in Bags |-> {w.loc[b]}]
<1>1. N \in Nat
  BY BagsFinite
<1> HIDE DEF N
<1>2. ASSUME NEW h
      PROVE  IsNest(c, {w.loc[x]}, N, h) <=>
               h = [n \in 0..N |-> IF n = 0 THEN {w.loc[x]} ELSE h[n - 1] \cup {w.loc[b] : b \in h[n - 1] \cap Bags}]
  <2>1. \A S : UNION {c[b] : b \in S \cap Bags} = {w.loc[b] : b \in S \cap Bags}
    OBVIOUS
  <2> HIDE DEF c
  <2> QED
    BY <2>1 DEF IsNest
<1> HIDE DEF c
<1> DEFINE g == CHOOSE h :
               h = [n \in 0..N |-> IF n = 0 THEN {w.loc[x]} ELSE h[n - 1] \cup {w.loc[b] : b \in h[n - 1] \cap Bags}]
<1>3. Above(w, x) = g[N]
  BY DEF Above, N
<1>4. \E h : h = [n \in 0..N |-> IF n = 0 THEN {w.loc[x]} ELSE h[n - 1] \cup {w.loc[b] : b \in h[n - 1] \cap Bags}]
  BY <1>1, <1>2, NestExists
<1>5. g = [n \in 0..N |-> IF n = 0 THEN {w.loc[x]} ELSE g[n - 1] \cup {w.loc[b] : b \in g[n - 1] \cap Bags}]
  BY <1>4
<1> HIDE DEF g
<1>6. IsNest(c, {w.loc[x]}, N, g)
  BY <1>2, <1>5
<1>7. {w.loc[x]} \subseteq g[N]
  BY ONLY <1>1, <1>6, NestBounds
<1> QED
  BY <1>3, <1>7

\* A player possesses what is inside what is worn.
LEMMA PossessesIs ==
    ASSUME NEW w, NEW p, NEW x
    PROVE  Possesses(w, p, x) <=> x \in Contained(w.contents, Worn(w, p))
BY DEF Possesses, Contained, IsNest

\* Weights are sums over what is inside.
LEMMA WeightIs ==
    ASSUME NEW w, NEW x
    PROVE  TotalWeight(w, x) = MapThenSumSet(LAMBDA y : Weight[y] * Units(w, y), Contained(w.contents, {x}))
BY DEF TotalWeight, Contained, IsNest, MapThenSumSet, MapThenFoldSet

\* The type of the objects.
WorldType ==
    [loc : [Things -> Players \cup Bags \cup {Room, Gone}], contents : [Bags -> SUBSET Things],
     slots : [Players -> [BodySlots -> Things \cup {None}]], carried : [Things -> BodySlots \cup {None}],
     count : [Stacks -> Nat]]

\* Units are counted in numbers.
LEMMA UnitsType == ASSUME NEW w \in WorldType, NEW x \in Things PROVE Units(w, x) \in Nat
BY DEF WorldType, Units

\* So a weight is a number.
LEMMA TotalWeightType ==
    ASSUME NEW w \in WorldType, NEW x \in Things
    PROVE  /\ TotalWeight(w, x) \in Nat
           /\ TotalWeight(w, x) = Total([y \in Things |-> Weight[y] * Units(w, y)], Contained(w.contents, {x}))
<1> DEFINE S == Contained(w.contents, {x})
           F == [y \in Things |-> Weight[y] * Units(w, y)]
<1>1. S \subseteq Things
  BY ContainedBounds DEF WorldType
<1>2. IsFiniteSet(S)
  BY <1>1, MoveAssumption, FS_Subset
<1>3. \A y \in Things : Weight[y] * Units(w, y) \in Nat
  BY UnitsType, MoveAssumption
<1>4. Total(F, S) \in Nat
  BY <1>1, <1>2, <1>3, TotalNat
<1>5. OneFold(F, S)
  BY <1>2, TotalExists
<1>0. F = [y \in Things |-> Weight[y] * Units(w, y)]
  OBVIOUS
<1> HIDE DEF S
<1>6. ASSUME NEW h
      PROVE  IsFold(F, S, h) <=>
                h = [s \in SUBSET S |-> IF s = {} THEN 0
                       ELSE Weight[One(s)] * Units(w, One(s)) + h[s \ {One(s)}]]
  <2>1. \A s \in SUBSET S : s # {} => F[One(s)] = Weight[One(s)] * Units(w, One(s))
    BY <1>1, OneIn
  <2> HIDE DEF F
  <2> QED
    BY <2>1 DEF IsFold
<1> HIDE DEF F
<1>7. MapThenSumSet(LAMBDA y : Weight[y] * Units(w, y), S) = Total(F, S)
  <2> DEFINE g == CHOOSE h : h = [s \in SUBSET S |-> IF s = {} THEN 0
                                   ELSE Weight[One(s)] * Units(w, One(s)) + h[s \ {One(s)}]]
  <2>1. MapThenSumSet(LAMBDA y : Weight[y] * Units(w, y), S) = g[S]
    BY DEF MapThenSumSet, MapThenFoldSet, One
  <2>2. \E h : h = [s \in SUBSET S |-> IF s = {} THEN 0
                      ELSE Weight[One(s)] * Units(w, One(s)) + h[s \ {One(s)}]]
    BY <1>5, <1>6 DEF OneFold
  <2>3. g = [s \in SUBSET S |-> IF s = {} THEN 0
               ELSE Weight[One(s)] * Units(w, One(s)) + g[s \ {One(s)}]]
    BY <2>2
  <2> HIDE DEF g
  <2>4. IsFold(F, S, g)
    BY <2>3, <1>6
  <2>5. g[S] = Total(F, S)
    BY <2>4, <1>5, FoldIsTotal
  <2> QED
    BY <2>1, <2>5
<1> QED
  BY <1>0, <1>4, <1>7, WeightIs DEF S

\* The weight of a set of things.
LEMMA WeightOfAll ==
    ASSUME NEW w \in WorldType, NEW S, S \subseteq Things
    PROVE  /\ MapThenSumSet(LAMBDA x : TotalWeight(w, x), S) \in Nat
           /\ MapThenSumSet(LAMBDA x : TotalWeight(w, x), S) = Total([y \in Things |-> TotalWeight(w, y)], S)
<1> DEFINE F == [y \in Things |-> TotalWeight(w, y)]
<1>2. IsFiniteSet(S)
  BY MoveAssumption, FS_Subset
<1>3. \A y \in Things : TotalWeight(w, y) \in Nat
  BY TotalWeightType
<1>4. Total(F, S) \in Nat
  BY <1>2, <1>3, TotalNat
<1>5. OneFold(F, S)
  BY <1>2, TotalExists
<1>6. ASSUME NEW h
      PROVE  IsFold(F, S, h) <=>
                h = [s \in SUBSET S |-> IF s = {} THEN 0 ELSE TotalWeight(w, One(s)) + h[s \ {One(s)}]]
  <2>1. \A s \in SUBSET S : s # {} => F[One(s)] = TotalWeight(w, One(s))
    BY OneIn
  <2> HIDE DEF F
  <2> QED
    BY <2>1 DEF IsFold
<1>0. F = [y \in Things |-> TotalWeight(w, y)]
  OBVIOUS
<1> HIDE DEF F
<1> DEFINE g == CHOOSE h : h = [s \in SUBSET S |-> IF s = {} THEN 0
                                 ELSE TotalWeight(w, One(s)) + h[s \ {One(s)}]]
<1>7. MapThenSumSet(LAMBDA x : TotalWeight(w, x), S) = g[S]
  BY DEF MapThenSumSet, MapThenFoldSet, One
<1>8. \E h : h = [s \in SUBSET S |-> IF s = {} THEN 0 ELSE TotalWeight(w, One(s)) + h[s \ {One(s)}]]
  BY <1>5, <1>6 DEF OneFold
<1>9. g = [s \in SUBSET S |-> IF s = {} THEN 0 ELSE TotalWeight(w, One(s)) + g[s \ {One(s)}]]
  BY <1>8
<1> HIDE DEF g
<1>10. IsFold(F, S, g)
  BY <1>6, <1>9
<1> QED
  BY <1>0, <1>4, <1>5, <1>7, <1>10, FoldIsTotal

\* Things are worn, and what is held is worn.
LEMMA WornThings ==
    ASSUME NEW w \in WorldType, NEW p \in Players
    PROVE  Worn(w, p) \subseteq Things /\ Held(w, p) \subseteq Worn(w, p)
BY DEF WorldType, Worn, Held, BodySlots

\* How many units may still come is a number.
LEMMA UnitsWithinType ==
    ASSUME NEW limit \in Int, NEW load \in Nat, NEW x \in Things
    PROVE  UnitsWithin(limit, load, x) \in Nat
<1>1. Weight[x] \in Nat /\ MaxStack \in Nat
  BY MoveAssumption
<1>2. ASSUME limit >= 0, Weight[x] > 0, load <= limit
      PROVE  (limit - load) \div Weight[x] \in Nat
  <2> DEFINE a == limit - load
             d == Weight[x]
  <2>1. a \in Nat /\ d \in Nat /\ d > 0
    BY <1>1, <1>2
  <2> HIDE DEF a, d
  <2>2. a \div d \in Nat
    BY <2>1, SMTT(30)
  <2> QED
    BY <2>2 DEF a, d
<1> QED
  BY <1>1, <1>2 DEF UnitsWithin

\* So is what a player can carry.
LEMMA EffectiveType == ASSUME NEW w \in WorldType, NEW p \in Players PROVE EffectiveMaxWeight(w, p) \in Int
<1>1. Total(Bonus, Worn(w, p) \cap Bags) \in Nat
  <2>1. IsFiniteSet(Worn(w, p) \cap Bags)
    BY BagsFinite, FS_Subset
  <2> QED
    BY <2>1, TotalNat, MoveAssumption
<1>2. MapThenSumSet(LAMBDA b : Bonus[b], Worn(w, p) \cap Bags) = Total(Bonus, Worn(w, p) \cap Bags)
  BY DEF Total
<1> QED
  BY <1>1, <1>2, MoveAssumption DEF EffectiveMaxWeight

\* And so for what each player, and each bag, can bear.
LEMMA LimitsType ==
    ASSUME NEW w \in WorldType, NEW x \in Things
    PROVE  /\ \A p \in Players : UnitsWithin(EffectiveMaxWeight(w, p), CarriedWeight(w, p), x) \in Nat
           /\ \A b \in Bags : UnitsWithin(MaxWeight[b], ContentsWeight(w, b), x) \in Nat
<1>1. ASSUME NEW p \in Players
      PROVE  UnitsWithin(EffectiveMaxWeight(w, p), CarriedWeight(w, p), x) \in Nat
  <2>1. CarriedWeight(w, p) \in Nat
    BY WeightOfAll, WornThings DEF CarriedWeight
  <2> QED
    BY <2>1, EffectiveType, UnitsWithinType
<1>2. ASSUME NEW b \in Bags
      PROVE  UnitsWithin(MaxWeight[b], ContentsWeight(w, b), x) \in Nat
  <2>1. w.contents[b] \subseteq Things
    BY DEF WorldType
  <2>2. ContentsWeight(w, b) \in Nat
    BY <2>1, WeightOfAll DEF ContentsWeight
  <2>3. MaxWeight[b] \in Int
    BY MoveAssumption
  <2> QED
    BY <2>2, <2>3, UnitsWithinType
<1> QED
  BY <1>1, <1>2

(***************************************************************************)
(* Plans                                                                   *)
(***************************************************************************)

\* Where a command may put a thing.
Targets == {InRoom(Room)} \cup {InBag(b) : b \in Bags}
             \cup {Carrying(p) : p \in Players} \cup {OnBody(p) : p \in Players}

\* What a target is, by its kind.
LEMMA TargetKinds ==
    ASSUME NEW dst \in Targets
    PROVE  \/ dst.kind = "room" /\ dst = InRoom(Room) /\ dst.of = Room
           \/ dst.kind = "bag" /\ dst = InBag(dst.of) /\ dst.of \in Bags
           \/ dst.kind = "inventory" /\ dst = Carrying(dst.of) /\ dst.of \in Players
           \/ dst.kind = "slot" /\ dst = OnBody(dst.of) /\ dst.of \in Players
BY DEF Targets, InRoom, InBag, Carrying, OnBody

\* The stack to merge with.
LEMMA MergeTargetType ==
    ASSUME NEW w \in WorldType, NEW x \in Things, NEW dst \in Targets,
           NEW m \in OrNone(MergeTargets(w, x, dst))
    PROVE  \/ m = None
           \/ /\ m \in Stacks /\ x \in Stacks /\ m # None /\ dst.kind # "slot"
              /\ w.count[m] < MaxStack
              /\ dst.kind = "room" => m # x /\ w.loc[m] = Room
              /\ dst.kind = "bag" => m \in w.contents[dst.of] /\ Present(w, m)
              /\ dst.kind = "inventory" => m \in Held(w, dst.of) /\ Present(w, m)
<1>1. Bags \cap Stacks = {} /\ None \notin Stacks /\ x \in Bags \cup Stacks
  BY MoveAssumption DEF Things
<1>2. CASE dst.kind = "room"
  BY <1>1, <1>2, TargetKinds DEF OrNone, MergeTargets
<1>3. CASE dst.kind = "bag"
  BY <1>1, <1>3, TargetKinds DEF OrNone, MergeTargets
<1>4. CASE dst.kind = "inventory"
  BY <1>1, <1>4, TargetKinds DEF OrNone, MergeTargets
<1>5. CASE dst.kind = "slot"
  BY <1>1, <1>5, TargetKinds DEF OrNone, MergeTargets
<1> QED
  BY <1>2, <1>3, <1>4, <1>5, TargetKinds

\* The lesser of two numbers is one of them.
LEMMA LeastBounds ==
    ASSUME NEW i \in Int, NEW j \in Int
    PROVE  Least(i, j) \in {i, j} /\ Least(i, j) <= i /\ Least(i, j) <= j
BY DEF Least

\* What a plan may move.
Moves(w, x, dst, plan, m) ==
    /\ plan.merge \in Nat /\ plan.new \in Nat
    /\ plan.merge + plan.new <= Units(w, x)
    /\ m = None => plan.merge = 0
    /\ m # None => plan.merge <= MaxStack - w.count[m]
    /\ plan.new > 0 =>
         /\ dst.kind = "bag" => m = None /\ HasRoom(w, dst.of)
         /\ dst.kind = "inventory" => FreeHands(w, dst.of, x) # {}
         /\ dst.kind = "slot" => w.slots[dst.of][Back] = None

\* Whatever compute_stack_transfer_plan returns is such a plan.
LEMMA PlanMoves ==
    ASSUME NEW w \in WorldType, NEW x \in Things, NEW dst \in Targets,
           NEW m \in OrNone(MergeTargets(w, x, dst)), NEW q \in Nat
    PROVE  Moves(w, x, dst, Plan(w, x, dst, q, m), m)
<1> DEFINE r == Requested(w, x, q)
           room == MergeRoom(w, m)
           merge == Least(r, room)
<1>1. MaxStack \in Nat /\ Units(w, x) \in Nat
  BY UnitsType, MoveAssumption
<1>2. r \in Nat /\ r <= Units(w, x)
  BY <1>1, LeastBounds DEF Requested
<1>3. room \in Nat /\ (m = None => room = 0) /\ (m # None => room = MaxStack - w.count[m])
  <2>1. m # None => m \in Stacks /\ w.count[m] < MaxStack
    BY MergeTargetType
  <2>2. m # None => w.count[m] \in Nat
    BY <2>1 DEF WorldType
  <2> QED
    BY <1>1, <2>1, <2>2 DEF MergeRoom
<1>4. merge \in Nat /\ merge <= r /\ merge <= room
  <2> HIDE DEF r, room
  <2> QED
    BY <1>2, <1>3 DEF Least
<1>5. CASE dst.kind = "room"
  <2>1. Plan(w, x, dst, q, m) = [merge |-> merge, new |-> r - merge]
    BY <1>5 DEF Plan, RoomPlan
  <2> HIDE DEF r, room, merge
  <2> QED
    BY <1>1, <1>2, <1>3, <1>4, <1>5, <2>1 DEF Moves
<1>6. CASE dst.kind = "bag"
  <2> DEFINE most == UnitsWithin(MaxWeight[dst.of], ContentsWeight(w, dst.of), x)
             spare == IF m # None THEN room ELSE IF HasRoom(w, dst.of) THEN MaxStack ELSE 0
             units == Least(Least(r, spare), most)
  <2>1. most \in Nat
    BY <1>6, LimitsType, TargetKinds
  <2>2. Plan(w, x, dst, q, m) =
          IF m = None THEN [merge |-> 0, new |-> units] ELSE [merge |-> units, new |-> 0]
    BY <1>6 DEF Plan, ContainerPlan
  <2>3. spare \in Nat
    <3> HIDE DEF room
    <3> QED
      BY <1>1, <1>3
  <2>4. units \in Nat /\ units <= r /\ units <= spare
    <3> HIDE DEF r, spare, most
    <3> QED
      BY <1>2, <2>1, <2>3 DEF Least
  <2>5. m # None => spare = room
    OBVIOUS
  <2>6. m = None /\ ~HasRoom(w, dst.of) => spare = 0
    OBVIOUS
  <2> HIDE DEF r, room, merge, most, spare, units
  <2>7. CASE m = None
    BY <1>1, <1>2, <1>6, <2>2, <2>4, <2>6, <2>7 DEF Moves
  <2>8. CASE m # None
    BY <1>1, <1>2, <1>3, <1>6, <2>2, <2>4, <2>5, <2>8 DEF Moves
  <2> QED
    BY <2>7, <2>8
<1>7. CASE dst.kind = "inventory"
  <2> DEFINE most == UnitsWithin(EffectiveMaxWeight(w, dst.of), CarriedWeight(w, dst.of), x)
             free == FreeHands(w, dst.of, x) # {}
             new == IF free THEN Least(r - merge, MaxStack) ELSE 0
             some == Least(merge, most)
             left == Least(new, most - some)
  <2>1. most \in Nat
    BY <1>7, LimitsType, TargetKinds
  <2>2. Plan(w, x, dst, q, m) = [merge |-> some, new |-> left]
    BY <1>7 DEF Plan, InventoryPlan, Capped
  <2>3. new \in Nat /\ new <= r - merge /\ (~free => new = 0)
    <3> HIDE DEF r, merge, free
    <3> QED
      BY <1>1, <1>2, <1>4 DEF Least
  <2>4. some \in Nat /\ some <= merge /\ some <= most
    <3> HIDE DEF r, merge, most
    <3> QED
      BY <1>4, <2>1 DEF Least
  <2>5. left \in Nat /\ left <= new
    <3> HIDE DEF new, some, most
    <3> QED
      BY <2>1, <2>3, <2>4 DEF Least
  <2>6. new > 0 => FreeHands(w, dst.of, x) # {}
    <3> HIDE DEF r, merge
    <3> QED
      BY <2>3
  <2> HIDE DEF r, room, merge, most, free, new, some, left
  <2> QED
    BY <1>1, <1>2, <1>3, <1>4, <1>7, <2>2, <2>3, <2>4, <2>5, <2>6 DEF Moves
<1>8. CASE dst.kind = "slot"
  <2> DEFINE back == w.slots[dst.of][Back] = None
             new == IF back THEN Least(r, MaxStack) ELSE 0
  <2>1. Plan(w, x, dst, q, m) = [merge |-> 0, new |-> new]
    BY <1>8 DEF Plan, BodySlotPlan
  <2>2. new \in Nat /\ new <= r /\ (~back => new = 0)
    <3> HIDE DEF r, back
    <3> QED
      BY <1>1, <1>2 DEF Least
  <2>3. m = None
    BY <1>8, MergeTargetType
  <2> HIDE DEF r, new
  <2> QED
    BY <1>1, <1>2, <1>8, <2>1, <2>2, <2>3 DEF Moves
<1> QED
  BY <1>5, <1>6, <1>7, <1>8, TargetKinds

(***************************************************************************)
(* Types, and the capacity of bags, whatever commands are in play          *)
(***************************************************************************)

\* Nothing is over its capacity.
Fits(w) == \A b \in Bags : Cardinality(w.contents[b]) <= Capacity

\* v is a world that holds no more than w does.
Within(v, w) == v \in WorldType /\ \A b \in Bags : v.contents[b] \subseteq w.contents[b]

\* Taking out never fills a bag.
LEMMA WithinFits ==
    ASSUME NEW w \in WorldType, NEW v, Within(v, w), Fits(w)
    PROVE  Fits(v)
<1>1. ASSUME NEW b \in Bags PROVE Cardinality(v.contents[b]) <= Capacity
  <2>1. w.contents[b] \subseteq Things /\ v.contents[b] \subseteq w.contents[b]
    BY DEF WorldType, Within
  <2>2. IsFiniteSet(w.contents[b])
    BY <2>1, MoveAssumption, FS_Subset
  <2>3. Cardinality(v.contents[b]) <= Cardinality(w.contents[b])
    BY <2>1, <2>2, FS_Subset
  <2>4. Cardinality(v.contents[b]) \in Nat /\ Cardinality(w.contents[b]) \in Nat
    BY <2>1, <2>2, FS_Subset, FS_CardinalityType
  <2> QED
    BY <2>3, <2>4, MoveAssumption DEF Fits
<1> QED
  BY <1>1 DEF Fits

\* Pruning puts nothing into a bag.
LEMMA PrunedWithin ==
    ASSUME NEW w \in WorldType, NEW p \in Players
    PROVE  Within(Pruned(w, p), w)
<1> DEFINE body == [s \in BodySlots |->
                      IF w.slots[p][s] # None /\ ~ValidInSlot(w, p, w.slots[p][s]) THEN None ELSE w.slots[p][s]]
<1>1. body \in [BodySlots -> Things \cup {None}]
  BY DEF WorldType
<1>2. Pruned(w, p) = [w EXCEPT !.slots[p] = body]
  BY DEF Pruned
<1> HIDE DEF body
<1>3. Pruned(w, p).contents = w.contents
  BY <1>2 DEF WorldType
<1>4. [w.slots EXCEPT ![p] = body] \in [Players -> [BodySlots -> Things \cup {None}]]
  BY <1>1 DEF WorldType
<1>5. Pruned(w, p) = [w EXCEPT !.slots = [w.slots EXCEPT ![p] = body]]
  BY <1>2
<1>6. Pruned(w, p) \in WorldType
  BY <1>4, <1>5 DEF WorldType
<1> QED
  BY <1>3, <1>6 DEF Within

\* Clearing the slots of an item puts nothing into a bag.
LEMMA ClearedWithin ==
    ASSUME NEW w \in WorldType, NEW p \in Players, NEW x
    PROVE  Within(Cleared(w, p, x), w)
<1> DEFINE body == [s \in BodySlots |-> IF w.slots[p][s] = x THEN None ELSE w.slots[p][s]]
<1>1. body \in [BodySlots -> Things \cup {None}]
  BY DEF WorldType
<1>2. Cleared(w, p, x) = [w EXCEPT !.slots[p] = body]
  BY DEF Cleared
<1> HIDE DEF body
<1>3. Cleared(w, p, x).contents = w.contents
  BY <1>2 DEF WorldType
<1>4. [w.slots EXCEPT ![p] = body] \in [Players -> [BodySlots -> Things \cup {None}]]
  BY <1>1 DEF WorldType
<1>5. Cleared(w, p, x) = [w EXCEPT !.slots = [w.slots EXCEPT ![p] = body]]
  BY <1>2
<1>6. Cleared(w, p, x) \in WorldType
  BY <1>4, <1>5 DEF WorldType
<1> QED
  BY <1>3, <1>6 DEF Within

\* Nor does pruning several players.
LEMMA PrunedAllWithin ==
    ASSUME NEW w \in WorldType, NEW ids
    PROVE  Within(PrunedAll(w, ids), w)
<1>1. \A p \in Players : Pruned(w, p).slots[p] \in [BodySlots -> Things \cup {None}]
  BY DEF WorldType, Pruned
<1> QED
  BY <1>1 DEF WorldType, Within, PrunedAll

\* The hand that is taken.
LEMMA HandFound ==
    ASSUME NEW w, NEW p, NEW x, FreeHands(w, p, x) # {}
    PROVE  /\ Min(FreeHands(w, p, x)) \in FreeHands(w, p, x)
           /\ Hands[Min(FreeHands(w, p, x))] \in ToSet(Hands)
<1> DEFINE F == FreeHands(w, p, x)
<1>1. Len(Hands) \in Nat /\ DOMAIN Hands = 1..Len(Hands)
  BY MoveAssumption
<1>2. F \subseteq Nat /\ F \subseteq DOMAIN Hands
  BY <1>1 DEF FreeHands
<1> HIDE DEF F
<1>3. \E m \in F : \A n \in F : m <= n
  <2>1. F # {}
    BY DEF F
  <2> QED
    BY <1>2, <2>1, LeastNumber
<1>4. Min(F) \in F
  BY <1>3 DEF Min
<1> QED
  BY <1>2, <1>4 DEF ToSet, F

\* Nor does a hand that takes an item.
LEMMA GraspWithin ==
    ASSUME NEW w0 \in WorldType, NEW p \in Players, NEW x \in Things
    PROVE  Within(Grasp(w0, p, x).w, w0)
<1> DEFINE w == Pruned(w0, p)
           hand == Hands[Min(FreeHands(w, p, x))]
<1>1. Within(w, w0)
  BY PrunedWithin
<1>2. CASE FreeHands(w, p, x) = {}
  BY <1>1, <1>2 DEF Grasp, Err
<1>3. CASE FreeHands(w, p, x) # {}
  <2>1. hand \in BodySlots
    BY <1>3, HandFound DEF BodySlots
  <2>2. Grasp(w0, p, x).w = [w EXCEPT !.slots[p][hand] = x, !.loc[x] = p, !.carried[x] = hand]
    BY <1>3 DEF Grasp, Ok
  <2>3. w \in WorldType
    BY <1>1 DEF Within
  <2> HIDE DEF w, hand
  <2> DEFINE v == [w EXCEPT !.slots[p][hand] = x, !.loc[x] = p, !.carried[x] = hand]
  <2>4. /\ v.slots = [w.slots EXCEPT ![p][hand] = x] /\ v.loc = [w.loc EXCEPT ![x] = p]
        /\ v.carried = [w.carried EXCEPT ![x] = hand] /\ v.contents = w.contents /\ v.count = w.count
    BY <2>3 DEF WorldType
  <2>5. /\ [w.slots EXCEPT ![p][hand] = x] \in [Players -> [BodySlots -> Things \cup {None}]]
        /\ [w.loc EXCEPT ![x] = p] \in [Things -> Players \cup Bags \cup {Room, Gone}]
        /\ [w.carried EXCEPT ![x] = hand] \in [Things -> BodySlots \cup {None}]
    <3> HIDE DEF v
    <3> QED
      BY <2>1, <2>3, <2>4 DEF WorldType
  <2>6. v \in WorldType /\ v.contents = w.contents
    BY <2>3, <2>4, <2>5 DEF WorldType
  <2> QED
    BY <1>1, <2>2, <2>6 DEF Within, v
<1> QED
  BY <1>2, <1>3

\* Where a thing comes from.
Source(src) ==
    /\ src.kind \in {"room", "bag", "slot", "inventory"}
    /\ src.kind = "bag" => src.of \in Bags
    /\ src.kind \in {"slot", "inventory"} => src.of \in Players

\* Nor does taking an item from its holder.
LEMMA DetachedWithin ==
    ASSUME NEW w \in WorldType, NEW x, NEW src, Source(src)
    PROVE  Within(Detached(w, x, src), w)
<1>1. CASE src.kind = "bag"
  BY <1>1 DEF Detached, Within, WorldType, Source
<1>2. CASE src.kind \in {"slot", "inventory"}
  BY <1>2, ClearedWithin DEF Detached, Source
<1>3. CASE src.kind = "room"
  BY <1>3 DEF Detached, Within
<1> QED
  BY <1>1, <1>2, <1>3 DEF Source

\* Nor does merging; the units that are left are those that did not merge.
LEMMA MergedWithin ==
    ASSUME NEW w \in WorldType, NEW x \in Stacks, NEW m \in Stacks, NEW src, Source(src), NEW units \in Nat
    PROVE  /\ Within(Merged(w, x, src, m, units), w)
           /\ units < Units(w, x) => Units(Merged(w, x, src, m, units), x) = Units(w, x) - units
           /\ units < Units(w, x) => Merged(w, x, src, m, units).loc = w.loc
<1> DEFINE grown == [w EXCEPT !.count[m] = @ + units]
<1>1. Within(grown, w)
  BY DEF Within, WorldType
<1>2. x \in Things /\ Units(w, x) \in Nat
  BY UnitsType DEF Things
<1>3. CASE units >= Units(w, x)
  <2> DEFINE v == Detached(grown, x, src)
  <2>1. Within(v, grown)
    BY <1>1, DetachedWithin DEF Within
  <2>2. Merged(w, x, src, m, units) = Erased(v, x)
    BY <1>3 DEF Merged
  <2> HIDE DEF grown, v
  <2>3. Within(Erased(v, x), v)
    BY <2>1 DEF Erased, Within, WorldType
  <2> QED
    BY <1>1, <1>2, <1>3, <2>1, <2>2, <2>3 DEF Within
<1>4. CASE units < Units(w, x)
  <2> DEFINE k == Units(w, x) - units
  <2>1. k \in Nat
    BY <1>2, <1>4
  <2>2. Merged(w, x, src, m, units) = [grown EXCEPT !.count[x] = k]
    BY <1>2, <1>4 DEF Merged
  <2>3. grown.loc = w.loc
    BY DEF WorldType
  <2> HIDE DEF k, grown
  <2>4. /\ Within([grown EXCEPT !.count[x] = k], grown)
        /\ [grown EXCEPT !.count[x] = k].count[x] = k
        /\ [grown EXCEPT !.count[x] = k].loc = grown.loc
    BY <1>1, <2>1 DEF Within, WorldType
  <2> QED
    BY <1>1, <1>2, <2>2, <2>3, <2>4 DEF Within, Units, k
<1> QED
  BY <1>2, <1>3, <1>4

\* Nor does splitting a stack.
LEMMA SplitWithin ==
    ASSUME NEW w \in WorldType, NEW x \in Stacks, NEW n \in Stacks, NEW units \in Nat, units < Units(w, x)
    PROVE  Within(Split(w, x, n, units), w)
<1> DEFINE k == Units(w, x) - units
<1>1. k \in Nat /\ x \in Things /\ n \in Things
  BY UnitsType DEF Things
<1>2. Split(w, x, n, units) =
        [w EXCEPT !.count[n] = units, !.loc[n] = w.loc[x], !.carried[n] = w.carried[x], !.count[x] = k]
  BY DEF Split
<1> HIDE DEF k
<1> DEFINE v == [w EXCEPT !.count[n] = units, !.loc[n] = w.loc[x], !.carried[n] = w.carried[x], !.count[x] = k]
<1>3. /\ v.count = [w.count EXCEPT ![n] = units, ![x] = k] /\ v.loc = [w.loc EXCEPT ![n] = w.loc[x]]
      /\ v.carried = [w.carried EXCEPT ![n] = w.carried[x]] /\ v.contents = w.contents /\ v.slots = w.slots
  BY DEF WorldType
<1>4. /\ [w.count EXCEPT ![n] = units, ![x] = k] \in [Stacks -> Nat]
      /\ [w.loc EXCEPT ![n] = w.loc[x]] \in [Things -> Players \cup Bags \cup {Room, Gone}]
      /\ [w.carried EXCEPT ![n] = w.carried[x]] \in [Things -> BodySlots \cup {None}]
  <2> HIDE DEF v
  <2> QED
    BY <1>1, <1>3 DEF WorldType
<1>5. v \in WorldType /\ v.contents = w.contents
  BY <1>3, <1>4 DEF WorldType
<1> QED
  BY <1>2, <1>5 DEF Within, v

\* Nor does dropping.
LEMMA DroppedWithin ==
    ASSUME NEW w \in WorldType, NEW x \in Things
    PROVE  Within(Dropped(w, x, Room), w)
BY DEF Within, WorldType, Dropped

\* A bag with room for one more fits after it.
LEMMA PackedFits ==
    ASSUME NEW w \in WorldType, NEW x \in Things, NEW b \in Bags, Fits(w), HasRoom(w, b)
    PROVE  Packed(w, x, b) \in WorldType /\ Fits(Packed(w, x, b))
<1> DEFINE v == Packed(w, x, b)
<1>1. v \in WorldType
  BY DEF WorldType, Packed
<1>2. /\ v.contents[b] = w.contents[b] \cup {x}
      /\ \A c \in Bags \ {b} : v.contents[c] = w.contents[c]
  BY DEF WorldType, Packed
<1>3. IsFiniteSet(w.contents[b])
  <2>1. w.contents[b] \subseteq Things
    BY DEF WorldType
  <2> QED
    BY <2>1, MoveAssumption, FS_Subset
<1>4. Cardinality(w.contents[b] \cup {x}) =
        IF x \in w.contents[b] THEN Cardinality(w.contents[b]) ELSE Cardinality(w.contents[b]) + 1
  BY <1>3, FS_AddElement
<1>5. Cardinality(w.contents[b]) \in Nat /\ Cardinality(w.contents[b]) < Capacity /\ Capacity \in Nat
  BY <1>3, FS_CardinalityType, MoveAssumption DEF HasRoom
<1>6. Cardinality(v.contents[b]) <= Capacity
  BY <1>2, <1>4, <1>5
<1> HIDE DEF v
<1> QED
  BY <1>1, <1>2, <1>6 DEF Fits, v

\* Room in a bag is not lost by taking out.
LEMMA WithinRoom ==
    ASSUME NEW w \in WorldType, NEW v, Within(v, w), NEW b \in Bags, HasRoom(w, b)
    PROVE  HasRoom(v, b)
<1>1. w.contents[b] \subseteq Things /\ v.contents[b] \subseteq w.contents[b]
  BY DEF WorldType, Within
<1>2. IsFiniteSet(w.contents[b])
  BY <1>1, MoveAssumption, FS_Subset
<1>3. Cardinality(v.contents[b]) <= Cardinality(w.contents[b])
  BY <1>1, <1>2, FS_Subset
<1>4. Cardinality(v.contents[b]) \in Nat /\ Cardinality(w.contents[b]) \in Nat
  BY <1>1, <1>2, FS_Subset, FS_CardinalityType
<1> QED
  BY <1>3, <1>4, MoveAssumption DEF HasRoom

\* One removal after another.
LEMMA WithinAgain ==
    ASSUME NEW u, NEW v, NEW w, Within(u, v), Within(v, w)
    PROVE  Within(u, w)
BY DEF Within

\* A whole object at its destination.
LEMMA AppliedWithin ==
    ASSUME NEW w \in WorldType, NEW x \in Things, NEW dst \in Targets, dst.kind # "bag"
    PROVE  Within(Applied(w, x, dst).w, w)
<1>1. CASE dst.kind = "room"
  <2> DEFINE body == [p \in Players |-> Cleared(w, p, x).slots[p]]
             v == Dropped(w, x, Room)
  <2>1. body \in [Players -> [BodySlots -> Things \cup {None}]]
    BY DEF Cleared, WorldType
  <2>2. Within(v, w)
    BY DroppedWithin
  <2>3. Applied(w, x, dst).w = [v EXCEPT !.slots = body]
    BY <1>1, TargetKinds DEF Applied, Ok
  <2> HIDE DEF body, v
  <2> QED
    BY <2>1, <2>2, <2>3 DEF Within, WorldType
<1>2. CASE dst.kind = "slot"
  <2> DEFINE p == dst.of
  <2>1. p \in Players /\ Back \in BodySlots
    BY <1>2, TargetKinds DEF BodySlots
  <2>2. \/ Applied(w, x, dst).w = w
        \/ Applied(w, x, dst).w = [w EXCEPT !.slots[p][Back] = x, !.loc[x] = p, !.carried[x] = Back]
    BY <1>2 DEF Applied, Ok, Err
  <2> HIDE DEF p
  <2> DEFINE v == [w EXCEPT !.slots[p][Back] = x, !.loc[x] = p, !.carried[x] = Back]
  <2>3. /\ [w.slots EXCEPT ![p][Back] = x] \in [Players -> [BodySlots -> Things \cup {None}]]
        /\ [w.loc EXCEPT ![x] = p] \in [Things -> Players \cup Bags \cup {Room, Gone}]
        /\ [w.carried EXCEPT ![x] = Back] \in [Things -> BodySlots \cup {None}]
    BY <2>1 DEF WorldType
  <2>4. v \in WorldType /\ v.contents = w.contents
    BY <2>3 DEF WorldType
  <2> QED
    BY <2>2, <2>4 DEF Within
<1>3. CASE dst.kind = "inventory"
  BY <1>3, GraspWithin, TargetKinds DEF Applied
<1> QED
  BY <1>1, <1>2, <1>3, TargetKinds

\* A new stack goes into a bag only where there is room.
LEMMA PlacedFits ==
    ASSUME NEW w \in WorldType, Fits(w), NEW x \in Things, NEW src, Source(src), NEW dst \in Targets,
           NEW units \in Nat, NEW n,
           units < Units(w, x) => x \in Stacks /\ n \in Stacks /\ dst.kind # "slot",
           dst.kind = "bag" => HasRoom(w, dst.of)
    PROVE  Placed(w, x, src, dst, units, n).w \in WorldType /\ Fits(Placed(w, x, src, dst, units, n).w)
<1> DEFINE r == Placed(w, x, src, dst, units, n)
           d == Detached(w, x, src)
           s == Split(w, x, n, units)
<1>1. Within(d, w)
  BY DetachedWithin
<1>2. Units(w, x) \in Nat
  BY UnitsType
<1>3. CASE ~Present(w, x)
  BY <1>3 DEF Placed, Ok
<1>4. CASE Present(w, x) /\ units >= Units(w, x)
  <2>1. CASE dst.kind = "bag"
    <3>1. r.w = Packed(d, x, dst.of)
      BY <1>2, <1>4, <2>1 DEF Placed, Ok
    <3>2. dst.of \in Bags /\ HasRoom(d, dst.of) /\ Fits(d) /\ d \in WorldType
      BY <1>1, <2>1, WithinRoom, WithinFits, TargetKinds DEF Within
    <3> QED
      BY <3>1, <3>2, PackedFits
  <2>2. CASE dst.kind # "bag"
    <3>1. r = IF Listed(w, x, src) THEN Applied(d, x, dst) ELSE Err(w)
      BY <1>2, <1>4, <2>2 DEF Placed
    <3>2. d \in WorldType
      BY <1>1 DEF Within
    <3> HIDE DEF d
    <3>3. Within(Applied(d, x, dst).w, d)
      BY <2>2, <3>2, AppliedWithin
    <3>4. Within(Applied(d, x, dst).w, w)
      BY <1>1, <3>3, WithinAgain
    <3>5. CASE Listed(w, x, src)
      BY <3>1, <3>4, <3>5, WithinFits DEF Within
    <3>6. CASE ~Listed(w, x, src)
      BY <3>1, <3>6 DEF Err
    <3> QED
      BY <3>5, <3>6
  <2> QED
    BY <2>1, <2>2
<1>5. CASE Present(w, x) /\ units < Units(w, x)
  <2>1. Within(s, w) /\ n \in Things
    BY <1>5, SplitWithin DEF Things
  <2>2. s \in WorldType
    BY <2>1 DEF Within
  <2>3. CASE dst.kind = "bag"
    <3>1. r.w = Packed(s, n, dst.of)
      BY <1>2, <1>5, <2>3 DEF Placed, Ok
    <3>2. dst.of \in Bags /\ HasRoom(s, dst.of) /\ Fits(s)
      BY <2>1, <2>3, WithinRoom, WithinFits, TargetKinds
    <3> HIDE DEF s
    <3> QED
      BY <2>1, <2>2, <3>1, <3>2, PackedFits
  <2>4. CASE dst.kind = "room"
    <3>1. r.w = Dropped(s, n, Room)
      BY <1>2, <1>5, <2>4, TargetKinds DEF Placed, Ok
    <3> HIDE DEF s
    <3>2. Within(r.w, s)
      BY <2>1, <2>2, <3>1, DroppedWithin
    <3> QED
      BY <2>1, <3>2, WithinAgain, WithinFits DEF Within
  <2>5. CASE dst.kind = "inventory"
    <3>1. r = Grasp(s, dst.of, n) /\ dst.of \in Players
      BY <1>2, <1>5, <2>5, TargetKinds DEF Placed
    <3> HIDE DEF s
    <3>2. Within(r.w, s)
      BY <2>1, <2>2, <3>1, GraspWithin
    <3> QED
      BY <2>1, <3>2, WithinAgain, WithinFits DEF Within
  <2> QED
    BY <1>5, <2>3, <2>4, <2>5, TargetKinds
<1> QED
  BY <1>2, <1>3, <1>4, <1>5

\* So for a whole plan, merging and placing.
LEMMA ExecutedFits ==
    ASSUME NEW w \in WorldType, Fits(w), NEW x \in Things, NEW src, Source(src), NEW dst \in Targets,
           dst.kind = "slot" => x \in Bags,
           NEW m \in OrNone(MergeTargets(w, x, dst)), NEW plan, Moves(w, x, dst, plan, m),
           NEW n \in FreeIds(w, x, plan)
    PROVE  /\ Executed(w, x, src, dst, plan, m, n).w \in WorldType
           /\ Fits(Executed(w, x, src, dst, plan, m, n).w)
<1> DEFINE w1 == IF plan.merge > 0 THEN Merged(w, x, src, m, plan.merge) ELSE w
<1>1. plan.merge \in Nat /\ plan.new \in Nat /\ Units(w, x) \in Nat /\ plan.merge + plan.new <= Units(w, x)
  BY UnitsType DEF Moves
<1>2. plan.merge > 0 => m \in Stacks /\ x \in Stacks
  BY MergeTargetType DEF Moves
<1>3. Within(w1, w)
  BY <1>1, <1>2, MergedWithin DEF Within
<1>4. plan.new > 0 => Units(w1, x) = Units(w, x) - plan.merge
  BY <1>1, <1>2, MergedWithin
<1>5. plan.new > 0 /\ dst.kind = "bag" => w1 = w /\ HasRoom(w, dst.of)
  BY DEF Moves
<1>6. w1 \in WorldType /\ Fits(w1)
  BY <1>3, WithinFits DEF Within
<1>7. Executed(w, x, src, dst, plan, m, n) = IF plan.new > 0 THEN Placed(w1, x, src, dst, plan.new, n) ELSE Ok(w1)
  BY DEF Executed
<1> HIDE DEF w1
<1>8. CASE plan.new > 0
  <2>1. ASSUME plan.new < Units(w1, x) PROVE x \in Stacks /\ n \in Stacks /\ dst.kind # "slot"
    <3>1. x \in Stacks
      <4>1. SUFFICES ASSUME x \notin Stacks PROVE FALSE
        OBVIOUS
      <4>2. Units(w, x) = 1
        BY <4>1 DEF Units
      <4> QED
        BY <1>1, <1>4, <1>8, <2>1, <4>2
    <3>2. plan.new \notin {0, Units(w, x) - plan.merge}
      BY <1>4, <1>8, <2>1, <1>1
    <3>3. n \in Splits[x]
      BY <3>2 DEF FreeIds
    <3>4. dst.kind # "slot"
      BY <3>1, MoveAssumption
    <3> QED
      BY <3>1, <3>3, <3>4, MoveAssumption
  <2>2. dst.kind = "bag" => HasRoom(w1, dst.of)
    BY <1>5, <1>8
  <2> QED
    BY <1>1, <1>6, <1>7, <1>8, <2>1, <2>2, PlacedFits
<1>9. CASE ~(plan.new > 0)
  BY <1>6, <1>7, <1>9 DEF Ok
<1> QED
  BY <1>8, <1>9

\* What a step leaves in the variables.
LEMMA BecomeWorld ==
    ASSUME NEW v \in WorldType, NEW ids, Become(v, ids)
    PROVE  /\ World' \in WorldType /\ World'.loc = v.loc /\ World'.contents = v.contents
           /\ World'.slots = v.slots /\ World'.carried = v.carried /\ World'.count = v.count
BY DEF Become, World, WorldType

\* What a step leaves fits, if what it computed does.
LEMMA BecomeFits ==
    ASSUME NEW v \in WorldType, NEW ids, Become(v, ids), Fits(v)
    PROVE  World' \in WorldType /\ Fits(World')
<1>1. World' \in WorldType /\ World'.contents = v.contents
  BY BecomeWorld
<1>2. \A b \in Bags : Cardinality(World'.contents[b]) <= Capacity
  BY <1>1 DEF Fits
<1> QED
  BY <1>1, <1>2 DEF Fits

\* move_object keeps types and capacities, whether it succeeds or fails.
LEMMA MoveFits ==
    ASSUME NEW w0 \in WorldType, Fits(w0), NEW x \in Things, NEW src, Source(src), NEW dst \in Targets,
           dst.kind = "slot" => x \in Bags, NEW q \in Nat, Move(w0, x, src, dst, q)
    PROVE  World' \in WorldType /\ Fits(World')
<1> DEFINE w == PrunedAll(w0, {src.of, dst.of})
<1>1. Within(w, w0)
  BY PrunedAllWithin
<1>2. w \in WorldType /\ Fits(w)
  BY <1>1, WithinFits DEF Within
<1>3. MoveIn(w, w0, x, src, dst, q)
  BY DEF Move
<1> HIDE DEF w
<1>4. CASE Become(w0, {})
  BY <1>4, BecomeFits
<1>5. CASE Become(w, {})
  BY <1>2, <1>5, BecomeFits
<1>6. ASSUME NEW m \in OrNone(MergeTargets(w, x, dst)), NEW n \in FreeIds(w, x, Plan(w, x, dst, q, m)),
             Finish(Executed(w, x, src, dst, Plan(w, x, dst, q, m), m, n), x, src, dst,
                    Primary(w, x, dst, Plan(w, x, dst, q, m), m, n))
      PROVE  World' \in WorldType /\ Fits(World')
  <2> DEFINE plan == Plan(w, x, dst, q, m)
             r == Executed(w, x, src, dst, plan, m, n)
             to == Primary(w, x, dst, plan, m, n)
             ids == Touched(r.w, x, src, dst, to)
  <2>1. Moves(w, x, dst, plan, m)
    BY <1>2, PlanMoves
  <2>2. r.w \in WorldType /\ Fits(r.w)
    <3> HIDE DEF plan
    <3>1. n \in FreeIds(w, x, plan)
      BY DEF plan
    <3> QED
      BY <1>2, <2>1, <3>1, ExecutedFits
  <2>3. IF r.ok THEN Become(PrunedAll(r.w, ids), ids) ELSE Become(r.w, {})
    BY <1>6 DEF Finish, Settle
  <2> HIDE DEF plan, r, ids
  <2>4. PrunedAll(r.w, ids) \in WorldType /\ Fits(PrunedAll(r.w, ids))
    BY <2>2, PrunedAllWithin, WithinFits DEF Within
  <2> QED
    BY <2>2, <2>3, <2>4, BecomeFits
<1> QED
  BY <1>3, <1>4, <1>5, <1>6 DEF MoveIn, Transfer

\* Where a thing is resolved to be is a place to take it from.
LEMMA ResolvedSource ==
    ASSUME NEW w \in WorldType, NEW x \in Things
    PROVE  Source(Resolved(w, x))
<1>1. CASE w.loc[x] \in Bags /\ (w.carried[x] # None \/ x \in w.contents[w.loc[x]])
  <2>1. w.loc[x] \notin Players
    BY <1>1, MoveAssumption DEF Things
  <2>2. Resolved(w, x) = InBag(w.loc[x])
    BY <1>1, <2>1 DEF Resolved
  <2> QED
    BY <1>1, <2>2 DEF Source, InBag
<1>2. CASE ~(w.loc[x] \in Bags /\ (w.carried[x] # None \/ x \in w.contents[w.loc[x]]))
  <2>1. Resolved(w, x) \in {InRoom(w.loc[x])}
          \cup (IF w.loc[x] \in Players THEN {OnBody(w.loc[x]), Carrying(w.loc[x])} ELSE {})
    BY <1>2 DEF Resolved
  <2> QED
    BY <2>1 DEF Source, InRoom, OnBody, Carrying
<1> QED
  BY <1>1, <1>2

\* What a dropped bag spills into the room keeps types and capacities.
LEMMA SpilledType ==
    ASSUME World \in WorldType, Fits(World), NEW x \in Things
    PROVE  Spilled(x) \in WorldType /\ Fits(Spilled(x))
<1>1. Within(World, World)
  BY DEF Within
<1>2. CASE x \notin Bags
  BY <1>2 DEF Spilled
<1>3. CASE x \in Bags
  <2> DEFINE where == [y \in Things |-> IF y \in contents[x] /\ Present(World, y) THEN Room ELSE loc[y]]
             slot == [y \in Things |-> IF y \in contents[x] THEN None ELSE carried[y]]
  <2>1. /\ where \in [Things -> Players \cup Bags \cup {Room, Gone}]
        /\ slot \in [Things -> BodySlots \cup {None}]
    BY DEF WorldType, World
  <2>2. Spilled(x) = [World EXCEPT !.loc = where, !.carried = slot]
    BY <1>3 DEF Spilled
  <2> HIDE DEF where, slot
  <2>3. Within(Spilled(x), World)
    BY <2>1, <2>2 DEF Within, WorldType
  <2> QED
    BY <2>3, WithinFits DEF Within
<1> QED
  BY <1>2, <1>3

\* Every command does.
LEMMA NextFits ==
    ASSUME World \in WorldType, Fits(World), [Next]_vars
    PROVE  World' \in WorldType /\ Fits(World')
<1>1. /\ InRoom(Room) \in Targets /\ \A b \in Bags : InBag(b) \in Targets
      /\ \A p \in Players : Carrying(p) \in Targets /\ OnBody(p) \in Targets
      /\ InRoom(Room).kind # "slot" /\ \A b \in Bags : InBag(b).kind # "slot"
      /\ \A p \in Players : Carrying(p).kind # "slot"
  BY DEF Targets, InRoom, InBag, Carrying, OnBody
<1>2. Requests \subseteq Nat /\ MaxStack \in Nat /\ 1 \in Nat /\ Bags \subseteq Things /\ Stacks \subseteq Things
  BY MoveAssumption DEF Requests, Things
<1>3. Source(InRoom(Room)) /\ \A b \in Bags : Source(InBag(b))
  BY DEF Source, InRoom, InBag
<1>4. ASSUME NEW p \in Players, NEW x \in Things, NEW q \in Requests, Take(p, x, q)
      PROVE  World' \in WorldType /\ Fits(World')
  <2>1. Move(World, x, Resolved(World, x), Carrying(p), q)
    BY <1>4 DEF Take
  <2> QED
    BY <1>1, <1>2, <2>1, ResolvedSource, MoveFits
<1>5. ASSUME NEW p \in Players, NEW x \in Things, NEW q \in Requests, Drop(p, x, q)
      PROVE  World' \in WorldType /\ Fits(World')
  <2>1. Move(Spilled(x), x, Resolved(Spilled(x), x), InRoom(Room), q)
    BY <1>5 DEF Drop, MoveToRoom
  <2>2. Spilled(x) \in WorldType /\ Fits(Spilled(x))
    BY SpilledType
  <2> QED
    BY <1>1, <1>2, <2>1, <2>2, ResolvedSource, MoveFits
<1>6. ASSUME NEW p \in Players, NEW x \in Things, NEW b \in Bags, NEW q \in Requests, Put(p, x, b, q)
      PROVE  World' \in WorldType /\ Fits(World')
  <2>1. Move(World, x, Resolved(World, x), InBag(b), q)
    BY <1>6 DEF Put, MoveToContainer
  <2> QED
    BY <1>1, <1>2, <2>1, ResolvedSource, MoveFits
<1>7. ASSUME NEW p \in Players, NEW x \in Things, NEW b \in Bags, RemoveFrom(p, x, b)
      PROVE  World' \in WorldType /\ Fits(World')
  <2>1. Move(World, x, InBag(b), Carrying(p), MaxStack)
    BY <1>7 DEF RemoveFrom
  <2> QED
    BY <1>1, <1>2, <1>3, <2>1, MoveFits
<1>8. ASSUME NEW p \in Players, NEW x \in Stacks, Wield(p, x)
      PROVE  World' \in WorldType /\ Fits(World')
  <2>1. Move(World, x, Resolved(World, x), Carrying(p), MaxStack)
    BY <1>8 DEF Wield, MoveToGrasp
  <2> QED
    BY <1>1, <1>2, <2>1, ResolvedSource, MoveFits
<1>9. ASSUME NEW p \in Players, NEW b \in Bags, Wear(p, b)
      PROVE  World' \in WorldType /\ Fits(World')
  <2> DEFINE src == IF Possesses(World, p, b) THEN Resolved(World, b) ELSE InRoom(Room)
  <2>1. Move(World, b, src, OnBody(p), 1)
    BY <1>9 DEF Wear
  <2>2. Source(src)
    BY <1>2, <1>3, ResolvedSource
  <2> HIDE DEF src
  <2> QED
    BY <1>1, <1>2, <2>1, <2>2, MoveFits
<1>10. ASSUME NEW p \in Players, NEW b \in Bags, Open(p, b) \/ Close(p, b)
       PROVE  World' \in WorldType /\ Fits(World')
  BY <1>10, BecomeFits DEF Open, Close
<1>11. CASE UNCHANGED vars
  <2>1. World' = World
    BY <1>11 DEF vars, World
  <2> QED
    BY <2>1
<1> QED
  BY <1>4, <1>5, <1>6, <1>7, <1>8, <1>9, <1>10, <1>11 DEF Next

\* The fresh room does.
LEMMA InitWorld ==
    ASSUME Init
    PROVE  World \in WorldType /\ Fits(World)
<1>1. PICK at \in [DOMAIN Amounts -> Bags \cup {Room}] :
        /\ loc = [x \in Things |-> IF x \in Bags THEN Room ELSE IF x \in DOMAIN Amounts THEN at[x] ELSE Gone]
        /\ contents = [b \in Bags |-> {x \in DOMAIN Amounts : at[x] = b}]
  BY DEF Init
<1>2. loc \in [Things -> Players \cup Bags \cup {Room, Gone}]
  BY <1>1
<1>3. contents \in [Bags -> SUBSET Things]
  BY <1>1, MoveAssumption DEF Things
<1>4. /\ slots \in [Players -> [BodySlots -> Things \cup {None}]] /\ carried \in [Things -> BodySlots \cup {None}]
      /\ count \in [Stacks -> Nat]
  BY MoveAssumption DEF Init
<1>5. Fits(World)
  BY DEF Init, Fits, World
<1> QED
  BY <1>2, <1>3, <1>4, <1>5 DEF World, WorldType

\* A bag never holds more than it has room for, whatever is taken, dropped,
\* nested, merged and split, and whatever a command that fails half-way leaves.
THEOREM CapacityHolds == Spec => []CapacityBound
<1>1. World \in WorldType /\ Fits(World) => CapacityBound
  BY DEF Fits, CapacityBound, World
<1>2. Init => World \in WorldType /\ Fits(World)
  BY InitWorld
<1>3. (World \in WorldType /\ Fits(World)) /\ [Next]_vars => (World \in WorldType /\ Fits(World))'
  BY NextFits
<1> QED
  BY <1>1, <1>2, <1>3, PTL DEF Spec

(***************************************************************************)
(* Records that agree                                                      *)
(***************************************************************************)

\* No bag is dropped with what it holds, and nothing that is carried is
\* wielded: the one leaves what it spilled in its contents, the other merges a
\* stack with itself (README, "Disagreements").
Plain == Ops \cap {"drop_bag", "wield"} = {}

\* All records but those of the things X agree; the things X are in no bag and
\* in no slot.
AgreeBut(w, X) ==
    /\ w \in WorldType
    /\ \A b \in Bags, x \in Things : x \in w.contents[b] <=> x \notin X /\ w.loc[x] = b
    /\ \A p \in Players, x \in Things : x \in Worn(w, p) <=> x \notin X /\ w.loc[x] = p
    /\ \A p \in Players, x \in Things \ X : w.loc[x] = p => w.carried[x] # None /\ w.slots[p][w.carried[x]] = x
    /\ \A x \in Stacks : w.count[x] \in 0..MaxStack /\ (w.count[x] > 0 <=> Present(w, x))
    /\ \A b \in Bags : Present(w, b)

Agree(w) == AgreeBut(w, {})

\* What is worn is in a slot.
LEMMA WornIs ==
    ASSUME NEW w, NEW p, NEW x
    PROVE  x \in Worn(w, p) <=> x # None /\ \E s \in BodySlots : w.slots[p][s] = x
BY DEF Worn

\* What is in a slot and knows its location is no slip of the pen.
LEMMA ValidHere ==
    ASSUME NEW w, NEW X, AgreeBut(w, X), NEW p \in Players, NEW s \in BodySlots, w.slots[p][s] # None
    PROVE  ValidInSlot(w, p, w.slots[p][s])
<1> DEFINE y == w.slots[p][s]
<1>1. y \in Things
  BY DEF AgreeBut, WorldType
<1>2. y \in Worn(w, p)
  BY WornIs
<1>3. w.loc[y] = p
  BY <1>1, <1>2 DEF AgreeBut
<1>4. Present(w, y)
  BY <1>3, MoveAssumption DEF Present
<1> QED
  BY <1>3, <1>4, AboveHasLoc DEF ValidInSlot

\* Where the records agree there is nothing to prune.
LEMMA PruneNothing ==
    ASSUME NEW w, NEW X, AgreeBut(w, X)
    PROVE  /\ \A p \in Players : Pruned(w, p) = w
           /\ \A ids : PrunedAll(w, ids) = w
<1>1. ASSUME NEW p \in Players
      PROVE  [s \in BodySlots |->
                IF w.slots[p][s] # None /\ ~ValidInSlot(w, p, w.slots[p][s]) THEN None ELSE w.slots[p][s]]
               = w.slots[p]
  <2>1. w.slots[p] \in [BodySlots -> Things \cup {None}]
    BY DEF AgreeBut, WorldType
  <2> QED
    BY <2>1, ValidHere
<1>2. ASSUME NEW p \in Players
      PROVE  Pruned(w, p) = w
  <2>1. Pruned(w, p) = [w EXCEPT !.slots[p] = w.slots[p]]
    BY <1>1 DEF Pruned
  <2>2. w \in WorldType
    BY DEF AgreeBut
  <2> QED
    BY <2>1, <2>2 DEF WorldType
<1>3. ASSUME NEW ids
      PROVE  PrunedAll(w, ids) = w
  <2>1. [p \in Players |-> IF p \in ids THEN Pruned(w, p).slots[p] ELSE w.slots[p]] = w.slots
    BY <1>2 DEF AgreeBut, WorldType
  <2>2. PrunedAll(w, ids) = [w EXCEPT !.slots = w.slots]
    BY <2>1 DEF PrunedAll
  <2>3. w \in WorldType
    BY DEF AgreeBut
  <2> QED
    BY <2>2, <2>3 DEF WorldType
<1> QED
  BY <1>2, <1>3

\* The free hands are the empty ones, and that of the item itself.
LEMMA FreeHandsAre ==
    ASSUME NEW w, NEW X, AgreeBut(w, X), NEW p \in Players, NEW x
    PROVE  FreeHands(w, p, x) = {i \in 1..Len(Hands) : w.slots[p][Hands[i]] \in {None, x}}
<1>1. \A i \in 1..Len(Hands) : Hands[i] \in BodySlots
  BY MoveAssumption DEF BodySlots, ToSet
<1> QED
  BY <1>1, ValidHere DEF FreeHands

(***************************************************************************)
(* Taking out, merging, splitting and arriving, where the records agree    *)
(***************************************************************************)

\* src is where x is.
IsAt(w, x, src) ==
    \/ src = InRoom(Room) /\ w.loc[x] = Room
    \/ \E b \in Bags : src = InBag(b) /\ w.loc[x] = b
    \/ \E p \in Players : src = OnBody(p) /\ w.loc[x] = p

\* v differs from w in things of X and holders of H only.
OnlyIn(v, w, X, H) ==
    /\ \A y \in Things \ X : v.loc[y] = w.loc[y] /\ v.carried[y] = w.carried[y]
    /\ \A y \in Stacks \ X : v.count[y] = w.count[y]
    /\ \A b \in Bags \ H : v.contents[b] = w.contents[b]
    /\ \A p \in Players \ H : v.slots[p] = w.slots[p]

\* v is w with x taken out of its holder.
Loose(v, w, x, src) ==
    /\ AgreeBut(v, {x}) /\ OnlyIn(v, w, {}, {src.of})
    /\ v.loc = w.loc /\ v.carried = w.carried /\ v.count = w.count
    /\ \A p \in Players, s \in BodySlots : w.slots[p][s] \in {None, x} => v.slots[p][s] = None

\* What is taken out of its holder is in none.
LEMMA DetachedLoose ==
    ASSUME NEW w, Agree(w), NEW x \in Things, NEW src, IsAt(w, x, src)
    PROVE  Loose(Detached(w, x, src), w, x, src)
<1> DEFINE v == Detached(w, x, src)
<1>1. w \in WorldType /\ x # None
  BY MoveAssumption DEF Agree, AgreeBut
<1>2. /\ \A b \in Bags, y \in Things : y \in w.contents[b] <=> w.loc[y] = b
      /\ \A p \in Players, y \in Things : y \in Worn(w, p) <=> w.loc[y] = p
  BY DEF Agree, AgreeBut
<1>3. \A p \in Players, s \in BodySlots : w.slots[p][s] = x => w.loc[x] = p
  BY <1>1, <1>2, WornIs
<1>4. /\ v \in WorldType /\ v.loc = w.loc /\ v.carried = w.carried /\ v.count = w.count
      /\ \A b \in Bags : v.contents[b] = w.contents[b] \ {x}
      /\ \A p \in Players : v.slots[p] = [s \in BodySlots |-> IF w.slots[p][s] = x THEN None ELSE w.slots[p][s]]
      /\ OnlyIn(v, w, {}, {src.of})
  <2>1. CASE src = InRoom(Room) /\ w.loc[x] = Room
    <3>1. v = w
      BY <2>1 DEF Detached, InRoom
    <3>2. Room \notin Bags /\ Room \notin Players
      BY MoveAssumption DEF Things
    <3> HIDE DEF v
    <3>3. \A b \in Bags : w.contents[b] = w.contents[b] \ {x}
      BY <1>2, <2>1, <3>2
    <3>4. \A p \in Players : w.slots[p] = [s \in BodySlots |-> IF w.slots[p][s] = x THEN None ELSE w.slots[p][s]]
      BY <1>1, <1>3, <2>1, <3>2 DEF WorldType
    <3> QED
      BY <1>1, <3>1, <3>3, <3>4 DEF OnlyIn
  <2>2. ASSUME NEW b \in Bags, src = InBag(b), w.loc[x] = b
        PROVE  <1>4!:
    <3>1. v = [w EXCEPT !.contents[b] = @ \ {x}] /\ src.of = b
      BY <2>2 DEF Detached, InBag
    <3> HIDE DEF v
    <3>2. b \notin Players
      BY MoveAssumption DEF Things
    <3>3. \A c \in Bags \ {b} : w.contents[c] = w.contents[c] \ {x}
      BY <1>2, <2>2
    <3>4. \A p \in Players : w.slots[p] = [s \in BodySlots |-> IF w.slots[p][s] = x THEN None ELSE w.slots[p][s]]
      BY <1>1, <1>3, <2>2, <3>2 DEF WorldType
    <3>5. /\ v \in WorldType /\ v.loc = w.loc /\ v.carried = w.carried /\ v.count = w.count /\ v.slots = w.slots
          /\ v.contents = [w.contents EXCEPT ![b] = w.contents[b] \ {x}]
      BY <1>1, <3>1 DEF WorldType
    <3>6. \A c \in Bags : v.contents[c] = w.contents[c] \ {x}
      BY <1>1, <3>3, <3>5 DEF WorldType
    <3> QED
      BY <1>1, <3>1, <3>3, <3>4, <3>5, <3>6 DEF OnlyIn
  <2>3. ASSUME NEW p \in Players, src = OnBody(p), w.loc[x] = p
        PROVE  <1>4!:
    <3> DEFINE body == [s \in BodySlots |-> IF w.slots[p][s] = x THEN None ELSE w.slots[p][s]]
    <3>1. v = [w EXCEPT !.slots[p] = body] /\ src.of = p
      BY <2>3 DEF Detached, OnBody, Cleared
    <3>2. p \notin Bags
      BY MoveAssumption DEF Things
    <3>3. \A c \in Bags : w.contents[c] = w.contents[c] \ {x}
      BY <1>2, <2>3, <3>2
    <3>4. \A o \in Players \ {p} : w.slots[o] = [s \in BodySlots |-> IF w.slots[o][s] = x THEN None ELSE w.slots[o][s]]
      BY <1>1, <1>3, <2>3 DEF WorldType
    <3>5. body \in [BodySlots -> Things \cup {None}]
      BY <1>1 DEF WorldType
    <3>6. body = [s \in BodySlots |-> IF w.slots[p][s] = x THEN None ELSE w.slots[p][s]]
      OBVIOUS
    <3> HIDE DEF v, body
    <3>7. /\ v \in WorldType /\ v.loc = w.loc /\ v.carried = w.carried /\ v.count = w.count /\ v.contents = w.contents
          /\ v.slots = [w.slots EXCEPT ![p] = body]
      BY ONLY p \in Players, <1>1, <3>1, <3>5 DEF WorldType
    <3>8. v.slots[p] = body /\ \A o \in Players \ {p} : v.slots[o] = w.slots[o]
      BY <1>1, <3>7 DEF WorldType
    <3> QED
      BY <1>1, <3>1, <3>3, <3>4, <3>6, <3>7, <3>8 DEF OnlyIn
  <2> QED
    BY <2>1, <2>2, <2>3 DEF IsAt
<1> HIDE DEF v
<1>5. \A p \in Players, s \in BodySlots : v.slots[p][s] = IF w.slots[p][s] = x THEN None ELSE w.slots[p][s]
  BY <1>4
<1>6. \A p \in Players, y \in Things : y \in Worn(v, p) <=> y \in Worn(w, p) /\ y # x
  <2> SUFFICES ASSUME NEW p \in Players, NEW y \in Things
               PROVE  y \in Worn(v, p) <=> y \in Worn(w, p) /\ y # x
    OBVIOUS
  <2>1. y # None
    BY MoveAssumption
  <2>2. y \in Worn(v, p) <=> \E s \in BodySlots : v.slots[p][s] = y
    BY <2>1, WornIs
  <2>3. y \in Worn(w, p) <=> \E s \in BodySlots : w.slots[p][s] = y
    BY <2>1, WornIs
  <2> QED
    BY <1>5, <2>1, <2>2, <2>3
<1>7. \A p \in Players, y \in Things \ {x} : v.loc[y] = p => v.carried[y] # None /\ v.slots[p][v.carried[y]] = y
  <2> SUFFICES ASSUME NEW p \in Players, NEW y \in Things \ {x}, v.loc[y] = p
               PROVE  v.carried[y] # None /\ v.slots[p][v.carried[y]] = y
    OBVIOUS
  <2>1. w.carried[y] # None /\ w.slots[p][w.carried[y]] = y /\ w.carried[y] \in BodySlots
    BY <1>4 DEF Agree, AgreeBut, WorldType
  <2> QED
    BY <1>4, <1>5, <2>1
<1>8. /\ \A y \in Stacks : v.count[y] \in 0..MaxStack /\ (v.count[y] > 0 <=> Present(v, y))
      /\ \A b \in Bags : Present(v, b)
  BY <1>4 DEF Agree, AgreeBut, Present
<1>9. AgreeBut(v, {x})
  BY <1>2, <1>4, <1>6, <1>7, <1>8 DEF AgreeBut
<1> QED
  BY <1>4, <1>5, <1>9 DEF Loose, v

\* A merged stack leaves the graph; without location it is nowhere.
LEMMA ErasedAgree ==
    ASSUME NEW d, NEW x \in Stacks, AgreeBut(d, {x})
    PROVE  /\ Agree(Erased(d, x))
           /\ OnlyIn(Erased(d, x), d, {x}, {})
           /\ Erased(d, x).count = [d.count EXCEPT ![x] = 0]
<1> DEFINE v == Erased(d, x)
<1>1. d \in WorldType /\ x \in Things /\ x \notin Bags
  BY MoveAssumption DEF AgreeBut, Things
<1>2. /\ v.loc = [d.loc EXCEPT ![x] = Gone] /\ v.count = [d.count EXCEPT ![x] = 0]
      /\ v.carried = [d.carried EXCEPT ![x] = None] /\ v.contents = d.contents /\ v.slots = d.slots
      /\ v \in WorldType
  BY <1>1 DEF Erased, WorldType
<1> HIDE DEF v
<1>3. /\ v.loc[x] = Gone /\ v.count[x] = 0
      /\ \A y \in Things \ {x} : v.loc[y] = d.loc[y] /\ v.carried[y] = d.carried[y]
      /\ \A y \in Stacks \ {x} : v.count[y] = d.count[y]
      /\ \A p \in Players : Worn(v, p) = Worn(d, p)
  BY <1>1, <1>2 DEF WorldType, Worn
<1>4. Gone \notin Bags /\ Gone \notin Players
  BY MoveAssumption DEF Things
<1>5. \A b \in Bags, y \in Things : y \in v.contents[b] <=> v.loc[y] = b
  BY <1>2, <1>3, <1>4 DEF AgreeBut
<1>6. \A p \in Players, y \in Things : y \in Worn(v, p) <=> v.loc[y] = p
  BY <1>3, <1>4 DEF AgreeBut
<1>7. \A p \in Players, y \in Things : v.loc[y] = p => v.carried[y] # None /\ v.slots[p][v.carried[y]] = y
  BY <1>2, <1>3, <1>4 DEF AgreeBut
<1>8. \A y \in Stacks : v.count[y] \in 0..MaxStack /\ (v.count[y] > 0 <=> Present(v, y))
  <2>1. 0 \in 0..MaxStack /\ ~(0 > 0)
    BY MoveAssumption
  <2>2. \A y \in Stacks \ {x} : v.count[y] = d.count[y] /\ (Present(v, y) <=> Present(d, y))
    BY <1>3 DEF Present, Things
  <2>3. \A y \in Stacks : d.count[y] \in 0..MaxStack /\ (d.count[y] > 0 <=> Present(d, y))
    BY DEF AgreeBut
  <2>4. ~Present(v, x)
    BY <1>3 DEF Present
  <2> QED
    BY <1>3, <2>1, <2>2, <2>3, <2>4
<1>9. \A b \in Bags : Present(v, b)
  BY <1>1, <1>3 DEF AgreeBut, Present, Things
<1>10. Agree(v)
  BY <1>2, <1>5, <1>6, <1>7, <1>8, <1>9 DEF Agree, AgreeBut
<1> QED
  BY <1>2, <1>3, <1>10 DEF OnlyIn, v

\* A thing that comes into a room, into a bag or into a free slot is there and
\* nowhere else; r is what holds it now.
Arrived(v, d, x, r) ==
    /\ Agree(v)
    /\ OnlyIn(v, d, {x}, {r})
    /\ v.loc[x] = r /\ v.count = d.count

\* What arrived, from the records that change with it.
LEMMA ArrivedAgree ==
    ASSUME NEW d, NEW x \in Things, AgreeBut(d, {x}), NEW v \in WorldType,
           NEW r \in Players \cup Bags \cup {Room}, x \in Stacks => d.count[x] > 0,
           v.loc = [d.loc EXCEPT ![x] = r], v.count = d.count,
           \A y \in Things \ {x} : v.carried[y] = d.carried[y],
           \A b \in Bags : v.contents[b] = IF b = r THEN d.contents[b] \cup {x} ELSE d.contents[b],
           \A p \in Players \ {r} : v.slots[p] = d.slots[p],
           r \in Players => /\ v.carried[x] \in BodySlots /\ d.slots[r][v.carried[x]] = None
                            /\ v.slots[r] = [d.slots[r] EXCEPT ![v.carried[x]] = x]
    PROVE  Arrived(v, d, x, r)
<1>1. d \in WorldType /\ x # None
  BY MoveAssumption DEF AgreeBut
<1>2. v.loc[x] = r /\ \A y \in Things \ {x} : v.loc[y] = d.loc[y]
  BY <1>1 DEF WorldType
<1>3. ASSUME NEW b \in Bags, NEW y \in Things
      PROVE  y \in v.contents[b] <=> v.loc[y] = b
  <2>1. y \in d.contents[b] <=> y # x /\ d.loc[y] = b
    BY DEF AgreeBut
  <2>2. v.contents[b] = IF b = r THEN d.contents[b] \cup {x} ELSE d.contents[b]
    OBVIOUS
  <2> QED
    BY <1>2, <2>1, <2>2
<1>4. ASSUME NEW p \in Players, NEW y \in Things
      PROVE  y \in Worn(v, p) <=> v.loc[y] = p
  <2>1. y # None /\ (y \in Worn(d, p) <=> y # x /\ d.loc[y] = p)
    BY MoveAssumption DEF AgreeBut
  <2>2. /\ y \in Worn(v, p) <=> \E s \in BodySlots : v.slots[p][s] = y
        /\ y \in Worn(d, p) <=> \E s \in BodySlots : d.slots[p][s] = y
    BY <2>1, WornIs
  <2>3. CASE p # r
    BY <1>2, <2>1, <2>2, <2>3
  <2>4. CASE p = r
    <3> DEFINE h == v.carried[x]
    <3>1. h \in BodySlots /\ d.slots[p][h] = None /\ d.slots[p] \in [BodySlots -> Things \cup {None}]
      BY <1>1, <2>4 DEF WorldType
    <3>2. \A s \in BodySlots : v.slots[p][s] = IF s = h THEN x ELSE d.slots[p][s]
      BY <2>4, <3>1
    <3> HIDE DEF h
    <3>3. CASE y = x
      BY <1>2, <2>2, <2>4, <3>1, <3>2, <3>3
    <3>4. CASE y # x
      BY <1>2, <2>1, <2>2, <2>4, <3>1, <3>2, <3>4
    <3> QED
      BY <3>3, <3>4
  <2> QED
    BY <2>3, <2>4
<1>5. ASSUME NEW p \in Players, NEW y \in Things, v.loc[y] = p
      PROVE  v.carried[y] # None /\ v.slots[p][v.carried[y]] = y
  <2> DEFINE h == v.carried[x]
  <2>1. CASE y = x
    <3>1. p = r /\ h \in BodySlots /\ None \notin BodySlots /\ d.slots[p] \in [BodySlots -> Things \cup {None}]
      BY <1>1, <1>2, <1>5, <2>1, MoveAssumption DEF WorldType
    <3> HIDE DEF h
    <3>2. v.slots[p][h] = x
      BY <3>1 DEF h
    <3> QED
      BY <2>1, <3>1, <3>2 DEF h
  <2>2. CASE y # x
    <3>1. d.carried[y] # None /\ d.slots[p][d.carried[y]] = y /\ v.carried[y] = d.carried[y] /\ y # None
      BY <1>2, <1>5, <2>2, MoveAssumption DEF AgreeBut
    <3>2. CASE p # r
      BY <3>1, <3>2
    <3>3. CASE p = r
      <4>1. h \in BodySlots /\ d.slots[p][h] = None /\ d.slots[p] \in [BodySlots -> Things \cup {None}]
        BY <1>1, <3>3 DEF WorldType
      <4>2. v.slots[p] = [d.slots[p] EXCEPT ![h] = x]
        BY <3>3
      <4>3. v.carried[y] # h /\ d.carried[y] \in BodySlots
        BY <1>1, <3>1, <4>1 DEF WorldType
      <4> HIDE DEF h
      <4> QED
        BY <3>1, <4>1, <4>2, <4>3
    <3> QED
      BY <3>2, <3>3
  <2> QED
    BY <2>1, <2>2
<1>6. r # Gone
  BY MoveAssumption DEF Things
<1>7. \A y \in Stacks : v.count[y] \in 0..MaxStack /\ (v.count[y] > 0 <=> Present(v, y))
  <2>1. \A y \in Stacks : d.count[y] \in 0..MaxStack /\ (d.count[y] > 0 <=> Present(d, y))
    BY DEF AgreeBut
  <2>2. \A y \in Stacks \ {x} : Present(v, y) <=> Present(d, y)
    BY <1>2 DEF Present, Things
  <2>3. Present(v, x)
    BY <1>2, <1>6 DEF Present
  <2> QED
    BY <2>1, <2>2, <2>3
<1>8. \A b \in Bags : Present(v, b)
  BY <1>2, <1>6 DEF AgreeBut, Present, Things
<1>9. Agree(v)
  BY <1>3, <1>4, <1>5, <1>7, <1>8 DEF Agree, AgreeBut
<1> QED
  BY <1>2, <1>9 DEF Arrived, OnlyIn

\* On the ground.
LEMMA DroppedArrives ==
    ASSUME NEW d, NEW x \in Things, AgreeBut(d, {x}), x \in Stacks => d.count[x] > 0
    PROVE  Arrived(Dropped(d, x, Room), d, x, Room)
<1> DEFINE v == Dropped(d, x, Room)
<1>1. d \in WorldType /\ Room \notin Bags /\ Room \notin Players
  BY MoveAssumption DEF AgreeBut, Things
<1>2. /\ v \in WorldType /\ v.loc = [d.loc EXCEPT ![x] = Room] /\ v.carried = [d.carried EXCEPT ![x] = None]
      /\ v.contents = d.contents /\ v.slots = d.slots /\ v.count = d.count
  BY <1>1 DEF Dropped, WorldType
<1> HIDE DEF v
<1>3. \A y \in Things \ {x} : v.carried[y] = d.carried[y]
  BY <1>1, <1>2 DEF WorldType
<1>4. Arrived(v, d, x, Room)
  BY <1>1, <1>2, <1>3, ArrivedAgree
<1> QED
  BY <1>4 DEF v

\* In a bag.
LEMMA PackedArrives ==
    ASSUME NEW d, NEW x \in Things, AgreeBut(d, {x}), x \in Stacks => d.count[x] > 0, NEW b \in Bags
    PROVE  Arrived(Packed(d, x, b), d, x, b)
<1> DEFINE v == Packed(d, x, b)
<1>1. d \in WorldType /\ b \notin Players
  BY MoveAssumption DEF AgreeBut, Things
<1>2. /\ v \in WorldType /\ v.loc = [d.loc EXCEPT ![x] = b] /\ v.carried = [d.carried EXCEPT ![x] = None]
      /\ v.contents = [d.contents EXCEPT ![b] = d.contents[b] \cup {x}] /\ v.slots = d.slots /\ v.count = d.count
  BY <1>1 DEF Packed, WorldType
<1> HIDE DEF v
<1>3. /\ \A y \in Things \ {x} : v.carried[y] = d.carried[y]
      /\ \A c \in Bags : v.contents[c] = IF c = b THEN d.contents[c] \cup {x} ELSE d.contents[c]
  BY <1>1, <1>2 DEF WorldType
<1>4. Arrived(v, d, x, b)
  BY <1>1, <1>2, <1>3, ArrivedAgree
<1> QED
  BY <1>4 DEF v

\* Into a slot that is free.
LEMMA WornArrives ==
    ASSUME NEW d, NEW x \in Things, AgreeBut(d, {x}), x \in Stacks => d.count[x] > 0,
           NEW p \in Players, NEW s \in BodySlots, d.slots[p][s] = None
    PROVE  Arrived([d EXCEPT !.slots[p][s] = x, !.loc[x] = p, !.carried[x] = s], d, x, p)
<1> DEFINE v == [d EXCEPT !.slots[p][s] = x, !.loc[x] = p, !.carried[x] = s]
<1>1. d \in WorldType /\ p \notin Bags
  BY MoveAssumption DEF AgreeBut, Things
<1>2. /\ v.slots = [d.slots EXCEPT ![p][s] = x] /\ v.loc = [d.loc EXCEPT ![x] = p]
      /\ v.carried = [d.carried EXCEPT ![x] = s] /\ v.contents = d.contents /\ v.count = d.count
  BY <1>1 DEF WorldType
<1>3. /\ [d.slots EXCEPT ![p][s] = x] \in [Players -> [BodySlots -> Things \cup {None}]]
      /\ [d.loc EXCEPT ![x] = p] \in [Things -> Players \cup Bags \cup {Room, Gone}]
      /\ [d.carried EXCEPT ![x] = s] \in [Things -> BodySlots \cup {None}]
  <2> HIDE DEF v
  <2> QED
    BY <1>1 DEF WorldType
<1>4. v \in WorldType
  BY <1>1, <1>2, <1>3 DEF WorldType
<1> HIDE DEF v
<1>5. /\ v.carried[x] = s /\ \A y \in Things \ {x} : v.carried[y] = d.carried[y]
      /\ v.slots[p] = [d.slots[p] EXCEPT ![s] = x] /\ \A o \in Players \ {p} : v.slots[o] = d.slots[o]
  BY <1>1, <1>2 DEF WorldType
<1>6. Arrived(v, d, x, p)
  BY <1>1, <1>2, <1>4, <1>5, ArrivedAgree
<1> QED
  BY <1>6 DEF v

\* In the first free hand.
LEMMA GraspArrives ==
    ASSUME NEW d, NEW x \in Things, AgreeBut(d, {x}), x \in Stacks => d.count[x] > 0,
           NEW p \in Players, FreeHands(d, p, x) # {}, NEW r, r = Grasp(d, p, x)
    PROVE  r.ok /\ Arrived(r.w, d, x, p)
<1> DEFINE F == FreeHands(d, p, x)
           hand == Hands[Min(F)]
<1>1. Min(F) \in F /\ hand \in BodySlots
  BY HandFound DEF BodySlots
<1>2. F = {i \in 1..Len(Hands) : d.slots[p][Hands[i]] \in {None, x}}
  BY FreeHandsAre
<1>3. Pruned(d, p) = d
  BY PruneNothing
<1> HIDE DEF F
<1>4. d.slots[p][hand] \in {None, x}
  BY <1>1, <1>2
<1>5. d.slots[p][hand] # x
  <2>1. x \notin Worn(d, p) /\ x # None
    BY MoveAssumption DEF AgreeBut
  <2> HIDE DEF hand
  <2> QED
    BY <1>1, <2>1, WornIs
<1>6. Grasp(d, p, x) = Ok([d EXCEPT !.slots[p][hand] = x, !.loc[x] = p, !.carried[x] = hand])
  BY <1>3 DEF Grasp, F
<1> HIDE DEF hand
<1>7. Arrived([d EXCEPT !.slots[p][hand] = x, !.loc[x] = p, !.carried[x] = hand], d, x, p)
  BY <1>1, <1>4, <1>5, WornArrives
<1> QED
  BY <1>6, <1>7 DEF Ok

\* v is w with u units of x in a new stack n that is nowhere yet.
Parted(v, w, x, n, u) ==
    /\ AgreeBut(v, {n}) /\ OnlyIn(v, w, {x, n}, {})
    /\ v.count = [w.count EXCEPT ![n] = w.count[n] + u, ![x] = w.count[x] - u] /\ v.count[n] > 0
    /\ v.slots = w.slots /\ \A y \in Things \ {n} : v.loc[y] = w.loc[y]

\* What a part of a stack leaves behind.
LEMMA SplitParted ==
    ASSUME NEW w, Agree(w), NEW x \in Stacks, NEW n \in Stacks, Present(w, x), ~Present(w, n),
           NEW u \in Nat, u > 0, u < w.count[x]
    PROVE  Parted(Split(w, x, n, u), w, x, n, u)
<1> DEFINE k == w.count[x] - u
           v == Split(w, x, n, u)
<1>1. /\ w \in WorldType /\ x \in Things /\ n \in Things /\ x # n /\ x \notin Bags /\ n \notin Bags
      /\ w.loc[n] = Gone /\ MaxStack \in Nat
  BY MoveAssumption DEF Agree, AgreeBut, Things, Present
<1>2. \A y \in Stacks : w.count[y] \in 0..MaxStack /\ (w.count[y] > 0 <=> Present(w, y))
  BY DEF Agree, AgreeBut
<1>3. k \in 0..MaxStack /\ k > 0 /\ u \in 0..MaxStack /\ w.count[n] = 0
  BY <1>1, <1>2
<1>4. v = [w EXCEPT !.count[n] = u, !.loc[n] = w.loc[x], !.carried[n] = w.carried[x], !.count[x] = k]
  BY DEF Split, Units
<1> HIDE DEF k, v
<1>5. /\ v.count = [w.count EXCEPT ![n] = u, ![x] = k] /\ v.loc = [w.loc EXCEPT ![n] = w.loc[x]]
      /\ v.carried = [w.carried EXCEPT ![n] = w.carried[x]] /\ v.contents = w.contents /\ v.slots = w.slots
  BY <1>1, <1>4 DEF WorldType
<1>6. /\ [w.count EXCEPT ![n] = u, ![x] = k] \in [Stacks -> Nat]
      /\ [w.loc EXCEPT ![n] = w.loc[x]] \in [Things -> Players \cup Bags \cup {Room, Gone}]
      /\ [w.carried EXCEPT ![n] = w.carried[x]] \in [Things -> BodySlots \cup {None}]
  BY <1>1, <1>3 DEF WorldType
<1>7. v \in WorldType
  BY <1>1, <1>4, <1>5, <1>6 DEF WorldType
<1>8. /\ v.count[n] = u /\ v.count[x] = k /\ \A y \in Stacks \ {x, n} : v.count[y] = w.count[y]
      /\ v.loc[n] = w.loc[x] /\ \A y \in Things \ {n} : v.loc[y] = w.loc[y] /\ v.carried[y] = w.carried[y]
  BY <1>1, <1>5 DEF WorldType
<1>9. ASSUME NEW b \in Bags, NEW y \in Things
      PROVE  y \in v.contents[b] <=> y # n /\ v.loc[y] = b
  <2>1. y \in w.contents[b] <=> w.loc[y] = b
    BY DEF Agree, AgreeBut
  <2>2. b # Gone
    BY MoveAssumption DEF Things
  <2> QED
    BY <1>1, <1>5, <1>8, <2>1, <2>2
<1>10. ASSUME NEW p \in Players, NEW y \in Things
       PROVE  /\ y \in Worn(v, p) <=> y # n /\ v.loc[y] = p
              /\ y # n /\ v.loc[y] = p => v.carried[y] # None /\ v.slots[p][v.carried[y]] = y
  <2>1. y \in Worn(w, p) <=> w.loc[y] = p
    BY DEF Agree, AgreeBut
  <2>2. w.loc[y] = p => w.carried[y] # None /\ w.slots[p][w.carried[y]] = y
    BY DEF Agree, AgreeBut
  <2>3. p # Gone /\ Worn(v, p) = Worn(w, p)
    BY <1>5, MoveAssumption DEF Worn
  <2> QED
    BY <1>1, <1>5, <1>8, <2>1, <2>2, <2>3
<1>11. \A y \in Stacks : v.count[y] \in 0..MaxStack /\ (v.count[y] > 0 <=> Present(v, y))
  <2>1. Present(v, n) /\ Present(v, x)
    BY <1>1, <1>8 DEF Present
  <2>2. \A y \in Stacks \ {x, n} : Present(v, y) <=> Present(w, y)
    BY <1>8 DEF Present, Things
  <2> QED
    BY <1>2, <1>3, <1>8, <2>1, <2>2
<1>12. \A b \in Bags : Present(v, b)
  BY <1>1, <1>8 DEF Agree, AgreeBut, Present, Things
<1>13. AgreeBut(v, {n})
  BY <1>7, <1>9, <1>10, <1>11, <1>12 DEF AgreeBut
<1>14. OnlyIn(v, w, {x, n}, {})
  BY <1>5, <1>8 DEF OnlyIn
<1>15. v.count = [w.count EXCEPT ![n] = w.count[n] + u, ![x] = w.count[x] - u]
  BY <1>3, <1>5 DEF k
<1> QED
  BY <1>1, <1>3, <1>5, <1>8, <1>13, <1>14, <1>15 DEF Parted, v

\* Counts that change without going to zero or over the limit.
LEMMA CountedAgree ==
    ASSUME NEW w, Agree(w), NEW m \in Stacks, Present(w, m), NEW k \in 1..MaxStack
    PROVE  Agree([w EXCEPT !.count[m] = k]) /\ OnlyIn([w EXCEPT !.count[m] = k], w, {m}, {})
<1> DEFINE v == [w EXCEPT !.count[m] = k]
<1>1. w \in WorldType /\ k \in Nat
  BY MoveAssumption DEF Agree, AgreeBut
<1>2. /\ v.loc = w.loc /\ v.carried = w.carried /\ v.contents = w.contents /\ v.slots = w.slots
      /\ v.count = [w.count EXCEPT ![m] = k] /\ v \in WorldType
  BY ONLY <1>1, m \in Stacks DEF WorldType
<1> HIDE DEF v
<1>3. v.count[m] = k /\ \A y \in Stacks \ {m} : v.count[y] = w.count[y]
  BY <1>1, <1>2 DEF WorldType
<1>4. \A y \in Stacks : v.count[y] \in 0..MaxStack /\ (v.count[y] > 0 <=> Present(v, y))
  <2>1. \A y \in Stacks : w.count[y] \in 0..MaxStack /\ (w.count[y] > 0 <=> Present(w, y))
    BY DEF Agree, AgreeBut
  <2>2. \A y \in Stacks : Present(v, y) <=> Present(w, y)
    BY <1>2 DEF Present
  <2>3. k > 0 /\ k \in 0..MaxStack
    BY MoveAssumption
  <2> QED
    BY <1>3, <2>1, <2>2, <2>3
<1>5. \A p \in Players : Worn(v, p) = Worn(w, p)
  BY <1>2 DEF Worn
<1>6. Agree(v)
  BY <1>2, <1>4, <1>5 DEF Agree, AgreeBut, Present
<1> QED
  BY <1>2, <1>3, <1>6 DEF OnlyIn, v

\* One change after another.
LEMMA OnlyInBoth ==
    ASSUME NEW u, NEW v, NEW w, NEW X, NEW Y, NEW H, NEW K, NEW Z, NEW L, OnlyIn(v, u, X, H), OnlyIn(u, w, Y, K),
           X \cup Y \subseteq Z, H \cup K \subseteq L
    PROVE  OnlyIn(v, w, Z, L)
<1>1. \A y \in Things \ Z : v.loc[y] = w.loc[y] /\ v.carried[y] = w.carried[y]
  BY DEF OnlyIn
<1>2. \A y \in Stacks \ Z : v.count[y] = w.count[y]
  BY DEF OnlyIn
<1>3. \A b \in Bags \ L : v.contents[b] = w.contents[b]
  BY DEF OnlyIn
<1>4. \A p \in Players \ L : v.slots[p] = w.slots[p]
  BY DEF OnlyIn
<1> QED
  BY <1>1, <1>2, <1>3, <1>4 DEF OnlyIn

\* v is w with u units of x in m.
Joined(v, w, x, m, src, u) ==
    /\ Agree(v) /\ OnlyIn(v, w, {x, m}, {src.of})
    /\ v.count = [w.count EXCEPT ![m] = w.count[m] + u, ![x] = w.count[x] - u]
    /\ v.loc[m] = w.loc[m]
    /\ u < w.count[x] => v.loc = w.loc /\ v.slots = w.slots /\ v.contents = w.contents

\* Units of x go into another stack m; x is gone when none are left.
LEMMA MergedJoined ==
    ASSUME NEW w, Agree(w), NEW x \in Stacks, NEW m \in Stacks, m # x, NEW src, IsAt(w, x, src),
           Present(w, m), NEW u \in Nat, u > 0, u <= w.count[x], u <= MaxStack - w.count[m]
    PROVE  Joined(Merged(w, x, src, m, u), w, x, m, src, u)
<1> DEFINE k == w.count[m] + u
           grown == [w EXCEPT !.count[m] = k]
           v == Merged(w, x, src, m, u)
           j == w.count[x] - u
<1>1. /\ w \in WorldType /\ x \in Things /\ m \in Things /\ MaxStack \in Nat
      /\ \A y \in Stacks : w.count[y] \in 0..MaxStack
  BY MoveAssumption DEF Agree, AgreeBut, Things
<1>2. k \in 1..MaxStack /\ j \in 0..MaxStack
  BY <1>1
<1>3. v = IF u >= w.count[x] THEN Erased(Detached(grown, x, src), x) ELSE [grown EXCEPT !.count[x] = j]
  BY <1>1 DEF Merged, Units, WorldType
<1>4. Agree(grown) /\ OnlyIn(grown, w, {m}, {})
  BY <1>2, CountedAgree
<1>5. /\ grown.loc = w.loc /\ grown.slots = w.slots /\ grown.contents = w.contents
      /\ grown.count = [w.count EXCEPT ![m] = k] /\ grown \in WorldType
  BY <1>1, <1>4 DEF WorldType, Agree, AgreeBut
<1> HIDE DEF v, grown, k, j
<1>6. grown.count[x] = w.count[x]
  BY <1>1, <1>5 DEF WorldType
<1>7. CASE u >= w.count[x]
  <2> DEFINE d == Detached(grown, x, src)
  <2> HIDE DEF d
  <2>1. IsAt(grown, x, src) /\ d = Detached(grown, x, src)
    BY <1>5 DEF IsAt, d
  <2>2. Loose(d, grown, x, src)
    BY <1>1, <1>4, <2>1, DetachedLoose
  <2>3. /\ Agree(Erased(d, x)) /\ OnlyIn(Erased(d, x), d, {x}, {})
        /\ Erased(d, x).count = [d.count EXCEPT ![x] = 0]
    BY <2>2, ErasedAgree DEF Loose
  <2>4. v = Erased(d, x) /\ j = 0
    BY <1>1, <1>3, <1>7 DEF d, j
  <2>5. v.count = [w.count EXCEPT ![m] = k, ![x] = j]
    BY <1>5, <2>2, <2>3, <2>4 DEF Loose
  <2>6. v.loc[m] = w.loc[m]
    BY <1>1, <1>5, <2>2, <2>3, <2>4 DEF Loose, OnlyIn
  <2>7. OnlyIn(v, w, {x, m}, {src.of})
    <3>1. OnlyIn(v, grown, {x}, {src.of})
      BY <2>2, <2>3, <2>4, OnlyInBoth DEF Loose
    <3> QED
      BY <1>4, <3>1, OnlyInBoth
  <2> QED
    BY <1>1, <1>7, <2>3, <2>4, <2>5, <2>6, <2>7 DEF Joined, v, k, j
<1>8. CASE u < w.count[x]
  <2>1. j \in 1..MaxStack
    BY <1>1, <1>8 DEF j
  <2>2. v = [grown EXCEPT !.count[x] = j]
    BY <1>1, <1>3, <1>8
  <2>3. Present(grown, x)
    BY <1>4, <1>6, <1>8 DEF Agree, AgreeBut
  <2>4. Agree(v) /\ OnlyIn(v, grown, {x}, {})
    BY <1>4, <2>1, <2>2, <2>3, CountedAgree
  <2>5. /\ v.loc = grown.loc /\ v.slots = grown.slots /\ v.contents = grown.contents
        /\ v.count = [grown.count EXCEPT ![x] = j]
    BY <1>5, <2>2 DEF WorldType
  <2>6. OnlyIn(v, w, {x, m}, {src.of})
    BY <1>4, <2>4 DEF OnlyIn
  <2> QED
    BY <1>5, <2>4, <2>5, <2>6 DEF Joined, v, k, j
<1> QED
  BY <1>1, <1>7, <1>8

(***************************************************************************)
(* How many units a holder holds                                           *)
(***************************************************************************)

Holders == Players \cup Bags \cup {Room}
Here(w, y, h) == IF w.loc[y] = h THEN w.count[y] ELSE 0
UnitsAt(w, h) == Total([y \in Stacks |-> Here(w, y, h)], Stacks)

\* Units are numbers.
LEMMA UnitsAtType ==
    ASSUME NEW w \in WorldType, NEW h
    PROVE  UnitsAt(w, h) \in Nat /\ \A y \in Stacks : Here(w, y, h) \in Nat
<1>1. \A y \in Stacks : Here(w, y, h) \in Nat
  BY DEF WorldType, Here
<1> DEFINE f == [y \in Stacks |-> Here(w, y, h)]
<1>2. \A y \in Stacks : f[y] \in Nat
  BY <1>1
<1> HIDE DEF f
<1>3. Total(f, Stacks) \in Nat
  BY <1>2, BagsFinite, TotalNat
<1> QED
  BY <1>1, <1>3 DEF UnitsAt, f

\* One stack changes, or two do.
LEMMA UnitsAtOne ==
    ASSUME NEW w \in WorldType, NEW v \in WorldType, NEW x \in Stacks, NEW h,
           \A y \in Stacks \ {x} : v.loc[y] = w.loc[y] /\ v.count[y] = w.count[y]
    PROVE  /\ UnitsAt(v, h) = UnitsAt(w, h) - Here(w, x, h) + Here(v, x, h)
           /\ Here(w, x, h) <= UnitsAt(w, h)
<1> DEFINE f == [y \in Stacks |-> Here(w, y, h)]
           g == [y \in Stacks |-> Here(v, y, h)]
<1>1. \A y \in Stacks : Here(w, y, h) \in Nat /\ Here(v, y, h) \in Nat
  BY UnitsAtType
<1>2. \A y \in Stacks \ {x} : g[y] = f[y]
  BY DEF Here
<1>3. (\A y \in Stacks : f[y] \in Nat) /\ g[x] \in Nat /\ f[x] = Here(w, x, h) /\ g[x] = Here(v, x, h)
  BY <1>1
<1>4. UnitsAt(w, h) = Total(f, Stacks) /\ UnitsAt(v, h) = Total(g, Stacks)
  BY DEF UnitsAt
<1> HIDE DEF f, g
<1>5. Total(g, Stacks) = Total(f, Stacks) - f[x] + g[x] /\ f[x] <= Total(f, Stacks)
  <2>1. IsFiniteSet(Stacks)
    BY BagsFinite
  <2>2. /\ \A y \in Stacks : f[y] \in Nat
        /\ g[x] \in Nat
        /\ \A y \in Stacks \ {x} : g[y] = f[y]
    BY <1>2, <1>3
  <2> QED
    BY ONLY x \in Stacks, <2>1, <2>2, TotalBump
<1> QED
  BY <1>3, <1>4, <1>5

LEMMA UnitsAtTwo ==
    ASSUME NEW w \in WorldType, NEW v \in WorldType, NEW x \in Stacks, NEW m \in Stacks, x # m, NEW h,
           \A y \in Stacks \ {x, m} : v.loc[y] = w.loc[y] /\ v.count[y] = w.count[y]
    PROVE  UnitsAt(v, h) = UnitsAt(w, h) - Here(w, x, h) - Here(w, m, h) + Here(v, x, h) + Here(v, m, h)
<1> DEFINE u == [w EXCEPT !.loc = [w.loc EXCEPT ![x] = v.loc[x]], !.count = [w.count EXCEPT ![x] = v.count[x]]]
<1>0. Stacks \subseteq Things
  BY DEF Things
<1>1. u.loc = [w.loc EXCEPT ![x] = v.loc[x]] /\ u.count = [w.count EXCEPT ![x] = v.count[x]] /\ u \in WorldType
  <2>1. /\ [w.loc EXCEPT ![x] = v.loc[x]] \in [Things -> Players \cup Bags \cup {Room, Gone}]
        /\ [w.count EXCEPT ![x] = v.count[x]] \in [Stacks -> Nat]
    BY <1>0 DEF WorldType
  <2> QED
    BY <2>1 DEF WorldType
<1> HIDE DEF u
<1>2. /\ u.loc[x] = v.loc[x] /\ u.count[x] = v.count[x]
      /\ \A y \in Stacks \ {x} : u.loc[y] = w.loc[y] /\ u.count[y] = w.count[y]
  BY <1>0, <1>1 DEF WorldType
<1>3. UnitsAt(u, h) = UnitsAt(w, h) - Here(w, x, h) + Here(u, x, h)
  <2>1. u \in WorldType /\ \A y \in Stacks \ {x} : u.loc[y] = w.loc[y] /\ u.count[y] = w.count[y]
    BY <1>1, <1>2
  <2> QED
    BY ONLY w \in WorldType, x \in Stacks, <2>1, UnitsAtOne
<1>4. \A y \in Stacks \ {m} : v.loc[y] = u.loc[y] /\ v.count[y] = u.count[y]
  BY <1>2
<1>5. UnitsAt(v, h) = UnitsAt(u, h) - Here(u, m, h) + Here(v, m, h)
  <2>1. u \in WorldType
    BY <1>1
  <2> QED
    BY ONLY v \in WorldType, m \in Stacks, <2>1, <1>4, UnitsAtOne
<1>6. Here(u, m, h) = Here(w, m, h) /\ Here(u, x, h) = Here(v, x, h)
  BY <1>2 DEF Here
<1>7. UnitsAt(w, h) \in Nat /\ UnitsAt(u, h) \in Nat /\ Here(w, x, h) \in Nat /\ Here(w, m, h) \in Nat
      /\ Here(v, x, h) \in Nat /\ Here(v, m, h) \in Nat
  BY <1>1, UnitsAtType
<1> QED
  BY <1>3, <1>5, <1>6, <1>7

\* u units of x, or x itself, have come to r.
Flow(x, h, r, u) == IF x \in Stacks /\ h = r THEN u ELSE 0
Passed(v, w, x, r, u) ==
    /\ \A b \in Bags : v.loc[b] = IF b = x THEN r ELSE w.loc[b]
    /\ \A h \in Holders : UnitsAt(v, h) = UnitsAt(w, h) + Flow(x, h, r, u) - Flow(x, h, w.loc[x], u)

\* A whole thing that moves.
LEMMA WholePassed ==
    ASSUME NEW w \in WorldType, NEW v \in WorldType, NEW x \in Things, NEW r, NEW u, u = Units(w, x),
           v.loc[x] = r, \A y \in Things \ {x} : v.loc[y] = w.loc[y], v.count = w.count
    PROVE  Passed(v, w, x, r, u)
<1>1. Bags \subseteq Things /\ Stacks \subseteq Things /\ Bags \cap Stacks = {} /\ Things = Bags \cup Stacks
  BY MoveAssumption DEF Things
<1>2. \A b \in Bags : v.loc[b] = IF b = x THEN r ELSE w.loc[b]
  BY <1>1
<1>3. ASSUME NEW h \in Holders
      PROVE  UnitsAt(v, h) = UnitsAt(w, h) + Flow(x, h, r, u) - Flow(x, h, w.loc[x], u)
  <2>0. UnitsAt(w, h) \in Nat
    BY UnitsAtType
  <2>1. CASE x \in Stacks
    <3>1. UnitsAt(v, h) = UnitsAt(w, h) - Here(w, x, h) + Here(v, x, h)
      BY <1>1, <2>1, UnitsAtOne
    <3>2. u = w.count[x] /\ u \in Nat
      BY <2>1 DEF Units, WorldType
    <3>3. Here(w, x, h) = Flow(x, h, w.loc[x], u) /\ Here(v, x, h) = Flow(x, h, r, u)
      BY <2>1, <3>2 DEF Here, Flow
    <3>4. Here(w, x, h) \in Nat /\ Here(v, x, h) \in Nat
      BY <2>1, UnitsAtType
    <3> QED
      BY <2>0, <3>1, <3>3, <3>4
  <2>2. CASE x \notin Stacks
    <3>1. \A y \in Stacks : v.loc[y] = w.loc[y] /\ v.count[y] = w.count[y]
      BY <1>1, <2>2
    <3>2. [y \in Stacks |-> Here(v, y, h)] = [y \in Stacks |-> Here(w, y, h)]
      BY <3>1 DEF Here
    <3>3. UnitsAt(v, h) = UnitsAt(w, h)
      BY <3>2 DEF UnitsAt
    <3> QED
      BY <2>0, <2>2, <3>3 DEF Flow
  <2> QED
    BY <2>1, <2>2
<1> QED
  BY <1>2, <1>3 DEF Passed

\* Units of a stack that come into another one, a new one or not.
LEMMA PartPassed ==
    ASSUME NEW w \in WorldType, NEW v \in WorldType, NEW x \in Stacks, NEW m \in Stacks, m # x, NEW r,
           NEW u \in Nat, u <= w.count[x],
           v.count = [w.count EXCEPT ![m] = w.count[m] + u, ![x] = w.count[x] - u],
           w.loc[m] = r \/ w.count[m] = 0, v.loc[m] = r,
           \A y \in Things \ {x, m} : v.loc[y] = w.loc[y], u < w.count[x] => v.loc[x] = w.loc[x]
    PROVE  Passed(v, w, x, r, u)
<1>1. Bags \subseteq Things /\ Stacks \subseteq Things /\ Bags \cap Stacks = {} /\ Things = Bags \cup Stacks
  BY MoveAssumption DEF Things
<1>2. \A b \in Bags : v.loc[b] = IF b = x THEN r ELSE w.loc[b]
  BY <1>1
<1>3. ASSUME NEW h \in Holders
      PROVE  UnitsAt(v, h) = UnitsAt(w, h) + Flow(x, h, r, u) - Flow(x, h, w.loc[x], u)
  <2>1. /\ w.count \in [Stacks -> Nat] /\ v.count[m] = w.count[m] + u /\ v.count[x] = w.count[x] - u
        /\ \A y \in Stacks \ {x, m} : v.count[y] = w.count[y]
    BY DEF WorldType
  <2>2. \A y \in Stacks \ {x, m} : v.loc[y] = w.loc[y] /\ v.count[y] = w.count[y]
    BY <1>1, <2>1
  <2>3. UnitsAt(v, h) = UnitsAt(w, h) - Here(w, x, h) - Here(w, m, h) + Here(v, x, h) + Here(v, m, h)
    BY ONLY w \in WorldType, v \in WorldType, x \in Stacks, m \in Stacks, m # x, <2>2, UnitsAtTwo
  <2>4. UnitsAt(w, h) \in Nat /\ w.count[x] \in Nat /\ w.count[m] \in Nat
    BY <2>1, UnitsAtType
  <2>5. Here(v, x, h) = Here(w, x, h) - Flow(x, h, w.loc[x], u)
    BY <2>1, <2>4 DEF Here, Flow
  <2>6. Here(v, m, h) = Here(w, m, h) + Flow(x, h, r, u)
    BY <2>1, <2>4 DEF Here, Flow
  <2>7. /\ Here(w, x, h) \in Nat /\ Here(w, m, h) \in Nat
        /\ Flow(x, h, w.loc[x], u) \in Nat /\ Flow(x, h, r, u) \in Nat
    BY UnitsAtType DEF Flow
  <2> QED
    BY <2>3, <2>4, <2>5, <2>6, <2>7
<1> QED
  BY <1>2, <1>3 DEF Passed

\* Units that come after others.
LEMMA PassedOn ==
    ASSUME NEW t \in WorldType, NEW w \in WorldType, NEW v, NEW x \in Stacks, NEW r, NEW i \in Nat, NEW j \in Nat,
           Passed(t, w, x, r, i), Passed(v, t, x, r, j), t.loc = w.loc
    PROVE  Passed(v, w, x, r, i + j)
<1>1. \A b \in Bags : v.loc[b] = IF b = x THEN r ELSE w.loc[b]
  BY DEF Passed
<1>2. ASSUME NEW h \in Holders
      PROVE  UnitsAt(v, h) = UnitsAt(w, h) + Flow(x, h, r, i + j) - Flow(x, h, w.loc[x], i + j)
  <2>1. /\ UnitsAt(t, h) = UnitsAt(w, h) + Flow(x, h, r, i) - Flow(x, h, w.loc[x], i)
        /\ UnitsAt(v, h) = UnitsAt(t, h) + Flow(x, h, r, j) - Flow(x, h, w.loc[x], j)
    BY DEF Passed
  <2>2. UnitsAt(w, h) \in Nat /\ UnitsAt(t, h) \in Nat
    BY UnitsAtType
  <2>3. \A g : Flow(x, h, g, i + j) = Flow(x, h, g, i) + Flow(x, h, g, j) /\ Flow(x, h, g, i) \in Nat /\ Flow(x, h, g, j) \in Nat
    BY DEF Flow
  <2> HIDE DEF Flow
  <2>4. /\ Flow(x, h, r, i + j) = Flow(x, h, r, i) + Flow(x, h, r, j) /\ Flow(x, h, r, i) \in Nat /\ Flow(x, h, r, j) \in Nat
        /\ Flow(x, h, w.loc[x], i + j) = Flow(x, h, w.loc[x], i) + Flow(x, h, w.loc[x], j)
        /\ Flow(x, h, w.loc[x], i) \in Nat /\ Flow(x, h, w.loc[x], j) \in Nat
    BY <2>3
  <2> QED
    BY <2>1, <2>2, <2>4
<1> QED
  BY <1>1, <1>2 DEF Passed

\* Nothing has moved.
LEMMA NonePassed ==
    ASSUME NEW w \in WorldType, NEW v, v.loc = w.loc, v.count = w.count, NEW x \in Things
    PROVE  Passed(v, w, x, w.loc[x], 0)
<1>1. \A h \in Holders : UnitsAt(v, h) = UnitsAt(w, h)
  BY DEF UnitsAt, Here
<1>2. \A h \in Holders : UnitsAt(w, h) \in Nat
  BY UnitsAtType
<1> QED
  BY <1>1, <1>2 DEF Passed, Flow

(***************************************************************************)
(* Plans carried out, where the records agree                              *)
(***************************************************************************)

\* v is w but for x, what is at r now, r and h; what else was at r stays there.
Carried(v, w, x, h, r) ==
    /\ Agree(v)
    /\ OnlyIn(v, w, {x} \cup At(v, r), {h, r})
    /\ \A z \in Things \ {x} : w.loc[z] = r => v.loc[z] = r

\* What x, or a new stack y with units of x, does to the rest when it arrives.
LEMMA ArrivedCarried ==
    ASSUME NEW w, NEW d, NEW v, NEW x \in Things, NEW y \in Things, NEW h, NEW r, Arrived(v, d, y, r),
           NEW X, NEW H, X \subseteq {x, y}, H \subseteq {h}, OnlyIn(d, w, X, H),
           \A z \in Things \ {y} : d.loc[z] = w.loc[z]
    PROVE  Carried(v, w, x, h, r)
<1>1. y \in At(v, r)
  BY DEF Arrived, At
<1>2. OnlyIn(v, w, {x} \cup At(v, r), {h, r})
  BY <1>1, OnlyInBoth DEF Arrived
<1> QED
  BY <1>2 DEF Carried, Arrived, OnlyIn

\* The new stack is placed: its units come out of the old one and are all at
\* the destination, and the move goes through.
LEMMA PlacedAgree ==
    ASSUME NEW w, Agree(w), NEW x \in Things, NEW src, IsAt(w, x, src), NEW dst \in Targets,
           NEW u \in Nat, u > 0, u <= Units(w, x), NEW n,
           u < Units(w, x) => x \in Stacks /\ n \in Stacks /\ ~Present(w, n) /\ dst.kind # "slot",
           dst.kind = "inventory" => FreeHands(w, dst.of, x) # {} /\ x \notin Worn(w, dst.of),
           dst.kind = "slot" => w.slots[dst.of][Back] = None,
           NEW r, r = Placed(w, x, src, dst, u, n)
    PROVE  /\ r.ok /\ Carried(r.w, w, x, src.of, dst.of)
           /\ Total(r.w.count, Stacks) = Total(w.count, Stacks)
           /\ Passed(r.w, w, x, dst.of, u)
<1>1. w \in WorldType /\ Present(w, x) /\ Units(w, x) \in Nat
  <2>1. Gone # Room /\ Gone \notin Bags /\ Gone \notin Players
    BY MoveAssumption DEF Things
  <2> QED
    BY <2>1, UnitsType DEF Agree, AgreeBut, Present, IsAt
<1>2. CASE u >= Units(w, x)
  <2> DEFINE d == Detached(w, x, src)
  <2> HIDE DEF d
  <2>0. d = Detached(w, x, src)
    BY DEF d
  <2>1. /\ Loose(d, w, x, src)
        /\ AgreeBut(d, {x}) /\ d.loc = w.loc /\ d.carried = w.carried /\ d.count = w.count
        /\ \A p \in Players, s \in BodySlots : w.slots[p][s] \in {None, x} => d.slots[p][s] = None
    <3>1. Loose(d, w, x, src)
      BY <2>0, DetachedLoose
    <3> QED
      BY <3>1 DEF Loose
  <2>2. x \in Stacks => d.count[x] > 0
    BY <1>1, <2>1 DEF Agree, AgreeBut
  <2>3. Listed(w, x, src)
    BY DEF Listed, IsAt, InRoom, InBag, OnBody, Agree, AgreeBut
  <2>4. r = IF dst.kind = "bag" THEN Ok(Packed(d, x, dst.of)) ELSE Applied(d, x, dst)
    <3>1. CASE dst.kind = "bag"
      BY <1>1, <1>2, <3>1 DEF Placed, d
    <3>2. CASE dst.kind # "bag"
      BY <1>1, <1>2, <2>3, <3>2 DEF Placed, d
    <3> QED
      BY <3>1, <3>2
  <2>5. r.ok /\ Arrived(r.w, d, x, dst.of)
    <3>1. CASE dst.kind = "bag"
      <4>1. dst.of \in Bags
        BY <3>1, TargetKinds
      <4>2. Arrived(Packed(d, x, dst.of), d, x, dst.of)
        BY <2>1, <2>2, <4>1, PackedArrives
      <4> QED
        BY <2>4, <3>1, <4>2 DEF Ok
    <3>2. CASE dst.kind = "room"
      <4> DEFINE v == Dropped(d, x, Room)
                 body == [p \in Players |-> Cleared(d, p, x).slots[p]]
      <4>1. Arrived(v, d, x, Room)
        BY <2>1, <2>2, DroppedArrives
      <4>2. d \in WorldType /\ v.slots = d.slots
        BY <2>1 DEF AgreeBut, Dropped, WorldType
      <4>3. body = d.slots
        <5>1. \A p \in Players, s \in BodySlots : d.slots[p][s] # x
          <6> SUFFICES ASSUME NEW p \in Players, NEW s \in BodySlots, d.slots[p][s] = x PROVE FALSE
            OBVIOUS
          <6>1. x # None /\ x \notin Worn(d, p)
            BY <2>1, MoveAssumption DEF AgreeBut
          <6> QED
            BY <6>1, WornIs
        <5>2. \A p \in Players : Cleared(d, p, x).slots[p] = [s \in BodySlots |-> IF d.slots[p][s] = x THEN None ELSE d.slots[p][s]]
          BY <4>2 DEF Cleared, WorldType
        <5>3. \A p \in Players : Cleared(d, p, x).slots[p] = d.slots[p]
          BY <4>2, <5>1, <5>2 DEF WorldType
        <5> QED
          BY <4>2, <5>3 DEF WorldType
      <4>4. r = Ok([v EXCEPT !.slots = body])
        BY <2>4, <3>2, TargetKinds DEF Applied
      <4> HIDE DEF v, body
      <4>5. v \in WorldType
        BY <4>1 DEF Arrived, Agree, AgreeBut
      <4>6. [v EXCEPT !.slots = v.slots] = v
        BY <4>5 DEF WorldType
      <4> QED
        BY <3>2, <4>1, <4>2, <4>3, <4>4, <4>6, TargetKinds DEF Ok
    <3>3. CASE dst.kind = "slot"
      <4> DEFINE p == dst.of
                 v == [d EXCEPT !.slots[p][Back] = x, !.loc[x] = p, !.carried[x] = Back]
      <4>1. p \in Players /\ Back \in BodySlots
        BY <3>3, TargetKinds DEF BodySlots
      <4>2. d.slots[p][Back] = None
        BY <2>1, <3>3, <4>1
      <4>3. r = Ok(v)
        BY <2>4, <3>3, <4>2 DEF Applied
      <4> HIDE DEF p
      <4>4. Arrived(v, d, x, p)
        BY <2>1, <2>2, <4>1, <4>2, WornArrives
      <4> QED
        BY <4>3, <4>4 DEF Ok, p
    <3>4. CASE dst.kind = "inventory"
      <4>1. dst.of \in Players
        BY <3>4, TargetKinds
      <4>2. FreeHands(d, dst.of, x) # {}
        <5>1. FreeHands(w, dst.of, x) = {i \in 1..Len(Hands) : w.slots[dst.of][Hands[i]] \in {None, x}}
          BY <4>1, FreeHandsAre DEF Agree
        <5>2. FreeHands(d, dst.of, x) = {i \in 1..Len(Hands) : d.slots[dst.of][Hands[i]] \in {None, x}}
          BY <2>1, <4>1, FreeHandsAre
        <5>3. \A i \in 1..Len(Hands) : Hands[i] \in BodySlots
          BY MoveAssumption DEF BodySlots, ToSet
        <5> QED
          BY <2>1, <3>4, <4>1, <5>1, <5>2, <5>3
      <4>3. r = Grasp(d, dst.of, x)
        BY <2>4, <3>4 DEF Applied
      <4> QED
        BY <2>1, <2>2, <4>1, <4>2, <4>3, GraspArrives
    <3> QED
      BY <3>1, <3>2, <3>3, <3>4, TargetKinds
  <2> DEFINE v == r.w
  <2>7. Arrived(v, d, x, dst.of) /\ \A z \in Things \ {x} : d.loc[z] = w.loc[z]
    BY <2>1, <2>5
  <2> HIDE DEF v
  <2>8. Carried(v, w, x, src.of, dst.of)
    <3>1. OnlyIn(d, w, {}, {src.of})
      BY <2>1 DEF Loose
    <3> QED
      BY <2>7, <3>1, ArrivedCarried
  <2>9. v.count = w.count
    BY <2>1, <2>7 DEF Arrived
  <2>10. Passed(v, w, x, dst.of, u)
    <3>1. v \in WorldType /\ v.loc[x] = dst.of /\ \A y \in Things \ {x} : v.loc[y] = w.loc[y]
      BY <2>7 DEF Arrived, Agree, AgreeBut, OnlyIn
    <3>2. u = Units(w, x)
      BY <1>1, <1>2
    <3> QED
      BY <1>1, <2>9, <3>1, <3>2, WholePassed
  <2> QED
    BY <2>5, <2>8, <2>9, <2>10 DEF v
<1>3. CASE u < Units(w, x)
  <2> DEFINE s == Split(w, x, n, u)
  <2> HIDE DEF s
  <2>0. s = Split(w, x, n, u)
    BY DEF s
  <2>1. x \in Stacks /\ n \in Stacks /\ ~Present(w, n) /\ dst.kind # "slot" /\ u < w.count[x] /\ n \in Things /\ n # x
    BY <1>1, <1>3 DEF Units, Things
  <2>2. /\ Parted(s, w, x, n, u)
        /\ AgreeBut(s, {n}) /\ s.count[n] > 0 /\ s.slots = w.slots
        /\ s.count = [w.count EXCEPT ![n] = w.count[n] + u, ![x] = w.count[x] - u]
    <3>1. Parted(s, w, x, n, u)
      BY <1>1, <2>0, <2>1, SplitParted
    <3> QED
      BY <3>1 DEF Parted
  <2>3. r.ok /\ Arrived(r.w, s, n, dst.of)
    <3>1. CASE dst.kind = "bag"
      <4>1. dst.of \in Bags
        BY <3>1, TargetKinds
      <4>2. Arrived(Packed(s, n, dst.of), s, n, dst.of)
        BY <2>1, <2>2, <4>1, PackedArrives
      <4>3. r = Ok(Packed(s, n, dst.of))
        BY <1>1, <1>3, <3>1 DEF Placed, s
      <4> QED
        BY <4>2, <4>3 DEF Ok
    <3>2. CASE dst.kind = "room"
      <4>1. Arrived(Dropped(s, n, Room), s, n, Room)
        BY <2>1, <2>2, DroppedArrives
      <4>2. r = Ok(Dropped(s, n, Room)) /\ dst.of = Room
        BY <1>1, <1>3, <3>2, TargetKinds DEF Placed, s
      <4> QED
        BY <4>1, <4>2 DEF Ok
    <3>3. CASE dst.kind = "inventory"
      <4>1. dst.of \in Players
        BY <3>3, TargetKinds
      <4>2. FreeHands(s, dst.of, n) # {}
        <5>1. FreeHands(w, dst.of, x) = {i \in 1..Len(Hands) : w.slots[dst.of][Hands[i]] \in {None, x}}
          BY <4>1, FreeHandsAre DEF Agree
        <5>2. FreeHands(s, dst.of, n) = {i \in 1..Len(Hands) : s.slots[dst.of][Hands[i]] \in {None, n}}
          BY <2>2, <4>1, FreeHandsAre
        <5>3. \A i \in 1..Len(Hands) : Hands[i] \in BodySlots
          BY MoveAssumption DEF BodySlots, ToSet
        <5>4. \A i \in 1..Len(Hands) : w.slots[dst.of][Hands[i]] # x
          <6>1. x # None /\ x \notin Worn(w, dst.of)
            BY <3>3, MoveAssumption
          <6> QED
            BY <5>3, <6>1, WornIs
        <5> QED
          BY <2>2, <3>3, <5>1, <5>2, <5>4
      <4>3. r = Grasp(s, dst.of, n)
        BY <1>1, <1>3, <3>3 DEF Placed, s
      <4> QED
        BY <2>1, <2>2, <4>1, <4>2, <4>3, GraspArrives
    <3> QED
      BY <2>1, <3>1, <3>2, <3>3, TargetKinds
  <2> DEFINE v == r.w
  <2>4. Arrived(v, s, n, dst.of)
    BY <2>3
  <2> HIDE DEF v
  <2>5. Carried(v, w, x, src.of, dst.of)
    <3>1. OnlyIn(s, w, {x, n}, {}) /\ \A z \in Things \ {n} : s.loc[z] = w.loc[z]
      BY <2>2 DEF Parted
    <3> QED
      BY <2>1, <2>4, <3>1, ArrivedCarried
  <2>7. Total(s.count, Stacks) = Total(w.count, Stacks)
    <3>1. w.count \in [Stacks -> Nat] /\ u <= w.count[x]
      BY <1>1, <2>1 DEF WorldType
    <3> QED
      BY <2>1, <2>2, <3>1, BagsFinite, TotalTransfer
  <2>8. Passed(v, w, x, dst.of, u)
    <3>1. /\ v \in WorldType /\ v.loc[n] = dst.of /\ v.count = s.count
          /\ \A y \in Things \ {n} : v.loc[y] = s.loc[y]
      BY <2>4 DEF Arrived, Agree, AgreeBut, OnlyIn
    <3>2. \A y \in Things \ {n} : s.loc[y] = w.loc[y]
      BY <2>2 DEF Parted
    <3>3. w.count[n] = 0 /\ x \in Things
      BY <1>1, <2>1 DEF Agree, AgreeBut, WorldType
    <3>4. v.loc[x] = w.loc[x] /\ \A y \in Things \ {x, n} : v.loc[y] = w.loc[y]
      BY <2>1, <3>1, <3>2, <3>3
    <3>5. v.count = [w.count EXCEPT ![n] = w.count[n] + u, ![x] = w.count[x] - u] /\ u <= w.count[x]
      BY <1>1, <2>1, <2>2, <3>1 DEF WorldType
    <3>6. w.loc[n] = dst.of \/ w.count[n] = 0
      BY <3>3
    <3>7. w \in WorldType /\ x \in Stacks /\ n \in Stacks /\ n # x /\ u \in Nat
      BY <1>1, <2>1
    <3> QED
      BY ONLY <3>1, <3>4, <3>5, <3>6, <3>7, PartPassed
  <2> QED
    BY <2>3, <2>4, <2>5, <2>7, <2>8 DEF Arrived, v
<1> QED
  BY <1>1, <1>2, <1>3

\* One such change after another.
LEMMA CarriedOn ==
    ASSUME NEW u, NEW v, NEW w, NEW x, NEW h, NEW r, Carried(v, u, x, h, r), Carried(u, w, x, h, r)
    PROVE  Carried(v, w, x, h, r)
<1>1. {x} \cup At(u, r) \subseteq {x} \cup At(v, r)
  BY DEF Carried, At
<1>2. OnlyIn(v, w, {x} \cup At(v, r), {h, r})
  <2> DEFINE X == {x} \cup At(v, r)
             Y == {x} \cup At(u, r)
             H == {h, r}
  <2>1. OnlyIn(v, u, X, H) /\ OnlyIn(u, w, Y, H) /\ X \cup Y \subseteq X /\ H \cup H \subseteq H
    BY <1>1 DEF Carried
  <2> HIDE DEF X, Y, H
  <2>2. OnlyIn(v, w, X, H)
    BY <2>1, OnlyInBoth
  <2> QED
    BY <2>2 DEF X, H
<1> QED
  BY <1>2 DEF Carried

\* What merges into m, which is at the destination.
LEMMA JoinedCarried ==
    ASSUME NEW w, NEW v, NEW x, NEW m \in Things, NEW src, NEW r, NEW u, Joined(v, w, x, m, src, u), w.loc[m] = r
    PROVE  Carried(v, w, x, src.of, r)
<1>1. m \in At(v, r)
  BY DEF Joined, At
<1>2. OnlyIn(v, w, {x} \cup At(v, r), {src.of, r})
  <2> DEFINE X == {x} \cup At(v, r)
             Y == {x, m}
             H == {src.of, r}
             K == {src.of}
  <2>1. OnlyIn(v, w, Y, K) /\ Y \subseteq X /\ K \subseteq H
    BY <1>1 DEF Joined
  <2> HIDE DEF X, Y, H, K
  <2>2. OnlyIn(v, w, X, H)
    BY <2>1 DEF OnlyIn
  <2> QED
    BY <2>2 DEF X, H
<1>3. \A z \in Things \ {x, m} : v.loc[z] = w.loc[z]
  BY DEF Joined, OnlyIn
<1> QED
  BY <1>2, <1>3 DEF Carried, Joined

\* The stack to merge with is at the destination, and another one than what
\* moves.
LEMMA MergeTargetThere ==
    ASSUME NEW w, Agree(w), NEW x \in Things, NEW dst \in Targets, NEW m \in OrNone(MergeTargets(w, x, dst)),
           m # None, w.loc[x] # dst.of \/ dst.kind = "room"
    PROVE  x \in Stacks /\ m \in Stacks /\ m # x /\ w.loc[m] = dst.of /\ Present(w, m) /\ w.count[m] < MaxStack
<1>1. w \in WorldType /\ Stacks \subseteq Things /\ Room # Gone /\ \A p \in Players : p # Gone
  BY MoveAssumption DEF Agree, AgreeBut, Things
<1>2. /\ m \in Stacks /\ x \in Stacks /\ dst.kind # "slot"
      /\ w.count[m] < MaxStack
      /\ dst.kind = "room" => m # x /\ w.loc[m] = Room
      /\ dst.kind = "bag" => m \in w.contents[dst.of] /\ Present(w, m)
      /\ dst.kind = "inventory" => m \in Held(w, dst.of) /\ Present(w, m)
  BY <1>1, MergeTargetType
<1>3. CASE dst.kind = "room"
  BY <1>1, <1>2, <1>3, TargetKinds DEF Present
<1>4. CASE dst.kind = "bag"
  <2>1. w.loc[m] = dst.of
    BY <1>1, <1>2, <1>4, TargetKinds DEF Agree, AgreeBut
  <2> QED
    BY <1>2, <1>4, <2>1
<1>5. CASE dst.kind = "inventory"
  <2>1. dst.of \in Players /\ m \in Worn(w, dst.of)
    BY <1>1, <1>2, <1>5, TargetKinds, WornThings
  <2>2. w.loc[m] = dst.of
    BY <1>1, <1>2, <2>1 DEF Agree, AgreeBut
  <2> QED
    BY <1>2, <1>5, <2>2
<1> QED
  BY <1>2, <1>3, <1>4, <1>5, TargetKinds

\* A plan that is carried out.
LEMMA ExecutedAgree ==
    ASSUME NEW w, Agree(w), NEW x \in Things, NEW src, IsAt(w, x, src), NEW dst \in Targets,
           w.loc[x] # dst.of \/ dst.kind \in {"room", "slot"}, dst.kind = "slot" => x \in Bags,
           NEW m \in OrNone(MergeTargets(w, x, dst)), NEW plan, Moves(w, x, dst, plan, m),
           plan.merge + plan.new > 0, NEW n \in FreeIds(w, x, plan),
           NEW r, r = Executed(w, x, src, dst, plan, m, n)
    PROVE  /\ r.ok /\ Carried(r.w, w, x, src.of, dst.of)
           /\ Total(r.w.count, Stacks) = Total(w.count, Stacks)
           /\ Passed(r.w, w, x, dst.of, plan.merge + plan.new)
<1>1. /\ w \in WorldType /\ plan.merge \in Nat /\ plan.new \in Nat /\ Units(w, x) \in Nat
      /\ plan.merge + plan.new <= Units(w, x) /\ MaxStack \in Nat /\ Bags \cap Stacks = {} /\ Stacks \subseteq Things
  BY UnitsType, MoveAssumption DEF Agree, AgreeBut, Moves, Things
<1>2. plan.new # 0 /\ plan.new # Units(w, x) - plan.merge => x \in Stacks /\ n \in Stacks /\ ~Present(w, n) /\ dst.kind # "slot"
  <2>1. SUFFICES ASSUME plan.new # 0, plan.new # Units(w, x) - plan.merge
                 PROVE  x \in Stacks /\ n \in Stacks /\ ~Present(w, n) /\ dst.kind # "slot"
    OBVIOUS
  <2>2. Units(w, x) # 1
    BY <1>1, <2>1
  <2>3. x \in Stacks
    BY <2>2 DEF Units
  <2>4. n \in Splits[x] /\ ~Present(w, n)
    BY <2>1 DEF FreeIds
  <2> QED
    BY <1>1, <2>3, <2>4, MoveAssumption
<1>3. w.loc[x] = dst.of /\ dst.kind # "room" => dst.kind = "slot"
  OBVIOUS
<1>4. dst.kind = "inventory" => x \notin Worn(w, dst.of)
  <2>1. dst.kind = "inventory" => dst.of \in Players /\ w.loc[x] # dst.of
    BY TargetKinds
  <2> QED
    BY <2>1 DEF Agree, AgreeBut
<1>5. CASE plan.merge = 0
  <2>1. r = Placed(w, x, src, dst, plan.new, n)
    BY <1>1, <1>5 DEF Executed
  <2>2. plan.new > 0 /\ plan.new <= Units(w, x)
    BY <1>1, <1>5
  <2>3. plan.new < Units(w, x) => x \in Stacks /\ n \in Stacks /\ ~Present(w, n) /\ dst.kind # "slot"
    BY <1>1, <1>2, <1>5, <2>2
  <2>4. /\ dst.kind = "inventory" => FreeHands(w, dst.of, x) # {} /\ x \notin Worn(w, dst.of)
        /\ dst.kind = "slot" => w.slots[dst.of][Back] = None
    BY <1>4, <2>2 DEF Moves
  <2>5. plan.merge + plan.new = plan.new
    BY <1>1, <1>5
  <2> QED
    BY <1>1, <2>1, <2>2, <2>3, <2>4, <2>5, PlacedAgree
<1>6. CASE plan.merge > 0
  <2> DEFINE w1 == Merged(w, x, src, m, plan.merge)
  <2> HIDE DEF w1
  <2>1. m # None
    BY <1>6 DEF Moves
  <2>2. dst.kind # "slot"
    BY <2>1, <1>1, MergeTargetType
  <2>3. x \in Stacks /\ m \in Stacks /\ m # x /\ w.loc[m] = dst.of /\ Present(w, m)
    BY <1>3, <2>1, <2>2, MergeTargetThere
  <2>4. plan.merge <= w.count[x] /\ plan.merge <= MaxStack - w.count[m] /\ Units(w, x) = w.count[x]
        /\ w.count[x] \in Nat
    BY <1>1, <2>1, <2>3 DEF Moves, Units
  <2>5. Joined(w1, w, x, m, src, plan.merge)
    BY <1>1, <1>6, <2>3, <2>4, MergedJoined DEF w1
  <2>6. Carried(w1, w, x, src.of, dst.of)
    BY <1>1, <2>3, <2>5, JoinedCarried
  <2>7. Total(w1.count, Stacks) = Total(w.count, Stacks)
    <3>1. w1.count = [w.count EXCEPT ![m] = w.count[m] + plan.merge, ![x] = w.count[x] - plan.merge]
      BY <2>5 DEF Joined
    <3>2. w.count \in [Stacks -> Nat]
      BY <1>1 DEF WorldType
    <3> QED
      BY <1>1, <2>3, <2>4, <3>1, <3>2, BagsFinite, TotalTransfer
  <2>8. r = IF plan.new > 0 THEN Placed(w1, x, src, dst, plan.new, n) ELSE Ok(w1)
    BY <1>6 DEF Executed, w1
  <2>11. Passed(w1, w, x, dst.of, plan.merge) /\ w1 \in WorldType
    <3>1. /\ w1 \in WorldType /\ w1.loc[m] = dst.of /\ \A y \in Things \ {x, m} : w1.loc[y] = w.loc[y]
          /\ plan.merge < w.count[x] => w1.loc[x] = w.loc[x]
          /\ w1.count = [w.count EXCEPT ![m] = w.count[m] + plan.merge, ![x] = w.count[x] - plan.merge]
      BY <2>3, <2>5 DEF Joined, Agree, AgreeBut, OnlyIn
    <3>2. w \in WorldType /\ plan.merge \in Nat /\ x \in Stacks /\ m \in Stacks /\ m # x /\ w.loc[m] = dst.of
          /\ plan.merge <= w.count[x]
      BY <1>1, <2>3, <2>4
    <3> QED
      BY ONLY <3>1, <3>2, PartPassed
  <2>9. CASE plan.new = 0
    <3>1. plan.merge + plan.new = plan.merge
      BY <1>1, <2>9
    <3> QED
      BY <2>6, <2>7, <2>8, <2>9, <2>11, <3>1 DEF Ok
  <2>10. CASE plan.new > 0
    <3>1. plan.merge < w.count[x]
      BY <1>1, <2>4, <2>10
    <3>2. /\ Agree(w1) /\ w1.loc = w.loc /\ w1.slots = w.slots
          /\ w1.count = [w.count EXCEPT ![m] = w.count[m] + plan.merge, ![x] = w.count[x] - plan.merge]
      BY <2>5, <3>1 DEF Joined
    <3>3. Units(w1, x) = w.count[x] - plan.merge /\ Units(w1, x) \in Nat
      BY <1>1, <2>3, <2>4, <3>2 DEF Units, WorldType
    <3>4. IsAt(w1, x, src) /\ (Present(w1, n) <=> Present(w, n))
      BY <3>2 DEF IsAt, Present
    <3>5. plan.new <= Units(w1, x)
      BY <1>1, <2>4, <3>3
    <3>6. plan.new < Units(w1, x) => x \in Stacks /\ n \in Stacks /\ ~Present(w1, n) /\ dst.kind # "slot"
      BY <1>1, <1>2, <2>4, <2>10, <3>3, <3>4
    <3>7. dst.kind = "inventory" => FreeHands(w1, dst.of, x) # {} /\ x \notin Worn(w1, dst.of)
      <4>1. SUFFICES ASSUME dst.kind = "inventory" PROVE FreeHands(w1, dst.of, x) # {} /\ x \notin Worn(w1, dst.of)
        OBVIOUS
      <4>2. dst.of \in Players
        BY <4>1, TargetKinds
      <4>3. /\ FreeHands(w, dst.of, x) = {i \in 1..Len(Hands) : w.slots[dst.of][Hands[i]] \in {None, x}}
            /\ FreeHands(w1, dst.of, x) = {i \in 1..Len(Hands) : w1.slots[dst.of][Hands[i]] \in {None, x}}
        BY <3>2, <4>2, FreeHandsAre DEF Agree
      <4>4. FreeHands(w, dst.of, x) # {}
        BY <2>10, <4>1 DEF Moves
      <4>5. Worn(w1, dst.of) = Worn(w, dst.of)
        BY <3>2 DEF Worn
      <4> QED
        BY <1>4, <3>2, <4>1, <4>3, <4>4, <4>5
    <3>8. r = Placed(w1, x, src, dst, plan.new, n)
      BY <2>8, <2>10
    <3>9. /\ r.ok /\ Carried(r.w, w1, x, src.of, dst.of)
          /\ Total(r.w.count, Stacks) = Total(w1.count, Stacks)
          /\ Passed(r.w, w1, x, dst.of, plan.new)
      <4>1. plan.new \in Nat /\ x \in Things /\ dst \in Targets /\ Agree(w1) /\ IsAt(w1, x, src)
        BY <1>1, <3>2, <3>4
      <4> QED
        BY ONLY <4>1, <2>2, <2>10, <3>5, <3>6, <3>7, <3>8, PlacedAgree
    <3>10. Carried(r.w, w, x, src.of, dst.of)
      BY <2>6, <3>9, CarriedOn
    <3>11. Passed(r.w, w, x, dst.of, plan.merge + plan.new)
      BY <1>1, <2>3, <2>11, <3>2, <3>9, PassedOn
    <3> QED
      BY <2>7, <3>9, <3>10, <3>11
  <2> QED
    BY <1>1, <2>9, <2>10
<1> QED
  BY <1>1, <1>5, <1>6

\* Where its units ended is a thing, or none at all.
LEMMA PrimaryType ==
    ASSUME NEW w \in WorldType, NEW x \in Things, NEW dst \in Targets, NEW m \in OrNone(MergeTargets(w, x, dst)),
           NEW plan, Moves(w, x, dst, plan, m), NEW n \in FreeIds(w, x, plan)
    PROVE  Primary(w, x, dst, plan, m, n) \in Things \cup {None}
<1> DEFINE merge == plan.merge
           new == plan.new
           part == merge + new < Units(w, x)
<1>1. merge \in Nat /\ new \in Nat /\ Units(w, x) \in Nat /\ merge + new <= Units(w, x)
  BY UnitsType DEF Moves
<1>2. m \in Things \cup {None} /\ Splits \in [Stacks -> SUBSET Stacks]
  BY MergeTargetType, MoveAssumption DEF Things
<1>3. n \in Things \cup {None}
  <2>1. CASE x \in Stacks
    BY <1>2, <2>1 DEF FreeIds, Things
  <2>2. CASE x \notin Stacks
    <3>1. Units(w, x) = 1 /\ plan.new \in {0, Units(w, x) - plan.merge}
      BY <1>1, <2>2 DEF Units
    <3> QED
      BY <3>1 DEF FreeIds
  <2> QED
    BY <2>1, <2>2
<1>4. Primary(w, x, dst, plan, m, n) =
        CASE new = 0 \/ (merge > 0 /\ (part \/ dst.kind = "bag")) -> m
          [] new > 0 /\ merge = 0 /\ part -> n
          [] new > 0 /\ ~part /\ (merge = 0 \/ dst.kind # "bag") -> x
  BY DEF Primary
<1> HIDE DEF part
<1>5. CASE new = 0 \/ (merge > 0 /\ (part \/ dst.kind = "bag"))
  BY <1>1, <1>2, <1>4, <1>5
<1>6. CASE new > 0 /\ merge = 0 /\ part
  BY <1>1, <1>3, <1>4, <1>6
<1>7. CASE new > 0 /\ ~part /\ (merge = 0 \/ dst.kind # "bag")
  BY <1>1, <1>4, <1>7
<1> QED
  BY <1>1, <1>5, <1>6, <1>7

\* What a step does that leaves the objects v behind.
LEMMA BecomeAgree ==
    ASSUME NEW v, Agree(v), NEW w, NEW ids, Become(v, ids), NEW X, NEW H, OnlyIn(v, w, X, H),
           X \subseteq ids, H \subseteq ids
    PROVE  /\ Agree(World') /\ OnlyIn(World', w, ids, ids)
           /\ World'.count = v.count /\ marked' = ids
<1>1. v \in WorldType
  BY DEF Agree, AgreeBut
<1>2. /\ World' \in WorldType /\ World'.loc = v.loc /\ World'.contents = v.contents
      /\ World'.slots = v.slots /\ World'.carried = v.carried /\ World'.count = v.count
  BY <1>1, BecomeWorld
<1> DEFINE u == World'
<1> HIDE DEF u
<1>3. /\ u \in WorldType /\ u.loc = v.loc /\ u.contents = v.contents
      /\ u.slots = v.slots /\ u.carried = v.carried /\ u.count = v.count
  BY <1>2 DEF u
<1>4. \A p \in Players : Worn(u, p) = Worn(v, p)
  BY <1>3 DEF Worn
<1>5. Agree(u)
  BY <1>3, <1>4 DEF Agree, AgreeBut, Present
<1>6. OnlyIn(u, w, ids, ids)
  BY <1>3 DEF OnlyIn
<1>7. marked' = ids
  BY DEF Become
<1> QED
  BY <1>3, <1>5, <1>6, <1>7 DEF u

\* v differs from w in what the holders H hold only.
HoldersOnly(v, w, H) ==
    /\ \A b \in Bags \ H : v.contents[b] = w.contents[b]
    /\ \A p \in Players \ H : v.slots[p] = w.slots[p]

\* What a move of a thing does where the records agree.
Sound(w) ==
    /\ Agree(World')
    /\ Total(World'.count, Stacks) = Total(w.count, Stacks)
    /\ OnlyIn(World', w, marked', marked')
    /\ marked' \subseteq Things \cup Players \cup {Room}

\* A command that changes nothing.
LEMMA StaySound ==
    ASSUME NEW w, Agree(w), Become(w, {})
    PROVE  Sound(w)
<1>1. OnlyIn(w, w, {}, {})
  BY DEF OnlyIn
<1>2. /\ Agree(World') /\ OnlyIn(World', w, {}, {})
      /\ World'.count = w.count /\ marked' = {}
  BY <1>1, BecomeAgree
<1> QED
  BY <1>2 DEF Sound

\* What has moved is nothing, or the units of a plan that can be borne.
Moved(v, w, x, dst, q) ==
    \/ Passed(v, w, x, w.loc[x], 0)
    \/ \E m \in OrNone(MergeTargets(w, x, dst)) : \E u \in Nat :
         /\ u = Plan(w, x, dst, q, m).merge + Plan(w, x, dst, q, m).new
         /\ u <= Units(w, x)
         /\ Bearable(w, x, dst, u)
         /\ Passed(v, w, x, dst.of, u)

\* move_object, of a thing from where it is.
LEMMA MoveSound ==
    ASSUME NEW w, Agree(w), NEW x \in Things, NEW src, IsAt(w, x, src), NEW dst \in Targets,
           dst.kind = "slot" => x \in Bags, dst.kind = "inventory" => w.loc[x] # dst.of,
           NEW q \in Nat, Move(w, x, src, dst, q)
    PROVE  Sound(w) /\ HoldersOnly(World', w, {src.of, dst.of}) /\ Moved(World', w, x, dst, q)
<1>1. PrunedAll(w, {src.of, dst.of}) = w /\ w \in WorldType
  <2>1. AgreeBut(w, {})
    BY DEF Agree
  <2>2. w \in WorldType
    BY <2>1 DEF AgreeBut
  <2> QED
    BY <2>1, <2>2, PruneNothing
<1>2. MoveIn(w, w, x, src, dst, q)
  BY <1>1 DEF Move
<1>3. CASE Become(w, {})
  <2>1. World'.contents = w.contents /\ World'.slots = w.slots /\ World'.loc = w.loc /\ World'.count = w.count
    BY <1>1, <1>3, BecomeWorld
  <2>2. HoldersOnly(World', w, {src.of, dst.of})
    BY <2>1 DEF HoldersOnly
  <2>3. Moved(World', w, x, dst, q)
    BY <1>1, <2>1, NonePassed DEF Moved
  <2> QED
    BY <1>3, <2>2, <2>3, StaySound
<1>4. ASSUME MayMove(w, x, src, dst), NEW m \in OrNone(MergeTargets(w, x, dst)), NEW plan,
             plan = Plan(w, x, dst, q, m), plan.merge + plan.new > 0,
             Bearable(w, x, dst, plan.merge + plan.new), NEW n \in FreeIds(w, x, plan),
             Finish(Executed(w, x, src, dst, plan, m, n), x, src, dst, Primary(w, x, dst, plan, m, n))
      PROVE  Sound(w) /\ HoldersOnly(World', w, {src.of, dst.of}) /\ Moved(World', w, x, dst, q)
  <2> DEFINE r == Executed(w, x, src, dst, plan, m, n)
             to == Primary(w, x, dst, plan, m, n)
             v == r.w
             ids == Touched(v, x, src, dst, to)
             X == {x} \cup At(v, dst.of)
             H == {src.of, dst.of}
  <2> HIDE DEF r, to
  <2>1. Moves(w, x, dst, plan, m)
    BY <1>1, <1>4, PlanMoves
  <2>2. w.loc[x] # dst.of \/ dst.kind \in {"room", "slot"}
    <3>1. SUFFICES ASSUME dst.kind = "bag", w.loc[x] = dst.of PROVE FALSE
      BY TargetKinds
    <3>2. dst.of \in Bags /\ dst = InBag(dst.of) /\ dst.of \notin Players /\ dst.of # Room
      BY <3>1, TargetKinds, MoveAssumption DEF Things
    <3>3. src = dst /\ src.kind = "bag"
      BY <3>1, <3>2 DEF IsAt, InBag
    <3> QED
      BY <1>4, <3>3 DEF MayMove
  <2>3. /\ r.ok /\ Carried(v, w, x, src.of, dst.of) /\ Total(v.count, Stacks) = Total(w.count, Stacks)
        /\ Passed(v, w, x, dst.of, plan.merge + plan.new)
    BY <1>4, <2>1, <2>2, ExecutedAgree DEF r
  <2>4. Agree(v) /\ OnlyIn(v, w, X, H)
    BY <2>3 DEF Carried
  <2>5. PrunedAll(v, ids) = v
    BY <2>4, PruneNothing DEF Agree
  <2>6. Become(v, ids)
    BY <1>4, <2>3, <2>5 DEF Finish, Settle, r, to
  <2>7. to \in Things \cup {None}
    BY <1>1, <1>4, <2>1, PrimaryType DEF to
  <2>8. /\ src.of \in Things \cup Players \cup {Room} /\ dst.of \in Things \cup Players \cup {Room}
        /\ At(v, dst.of) \subseteq Things \cup Players
    BY TargetKinds DEF IsAt, InRoom, InBag, OnBody, Things, At
  <2>9. None \notin Things \cup Players \cup {Room}
    BY MoveAssumption
  <2>10. X \subseteq ids /\ H \subseteq ids /\ ids \subseteq Things \cup Players \cup {Room}
    BY <2>7, <2>8, <2>9 DEF Touched
  <2> HIDE DEF v, ids, X
  <2>11. /\ Agree(World') /\ OnlyIn(World', w, ids, ids)
         /\ World'.count = v.count /\ marked' = ids
    <3> HIDE DEF H
    <3> QED
      BY <2>4, <2>6, <2>10, BecomeAgree
  <2>12. World'.contents = v.contents /\ World'.slots = v.slots /\ World'.loc = v.loc /\ World'.count = v.count
    BY <2>4, <2>6, BecomeWorld DEF Agree, AgreeBut
  <2>13. HoldersOnly(World', w, {src.of, dst.of})
    BY <2>4, <2>12 DEF HoldersOnly, OnlyIn
  <2>14. Moved(World', w, x, dst, q)
    <3> DEFINE u == plan.merge + plan.new
    <3>1. u \in Nat /\ u <= Units(w, x)
      BY <2>1 DEF Moves
    <3>2. Passed(World', w, x, dst.of, u)
      BY <2>3, <2>12 DEF Passed, UnitsAt, Here
    <3>3. u = Plan(w, x, dst, q, m).merge + Plan(w, x, dst, q, m).new /\ Bearable(w, x, dst, u)
      BY <1>4
    <3> HIDE DEF u
    <3> QED
      BY <3>1, <3>2, <3>3 DEF Moved
  <2> QED
    BY <2>3, <2>10, <2>11, <2>13, <2>14 DEF Sound
<1>5. CASE ~Become(w, {})
  <2>1. PICK m \in OrNone(MergeTargets(w, x, dst)) : Transfer(w, x, src, dst, Plan(w, x, dst, q, m), m)
    BY <1>2, <1>5 DEF MoveIn
  <2>2. MayMove(w, x, src, dst)
    BY <1>2, <1>5 DEF MoveIn
  <2> DEFINE plan == Plan(w, x, dst, q, m)
  <2> HIDE DEF plan
  <2>3. Transfer(w, x, src, dst, plan, m) /\ plan = Plan(w, x, dst, q, m)
    BY <2>1 DEF plan
  <2>4. PICK n \in FreeIds(w, x, plan) :
          Finish(Executed(w, x, src, dst, plan, m, n), x, src, dst, Primary(w, x, dst, plan, m, n))
    BY <1>5, <2>3 DEF Transfer
  <2>5. plan.merge + plan.new > 0 /\ Bearable(w, x, dst, plan.merge + plan.new)
    BY <1>5, <2>3 DEF Transfer
  <2> QED
    BY <1>4, <2>2, <2>3, <2>4, <2>5
<1> QED
  BY <1>3, <1>5

(***************************************************************************)
(* What a player has                                                       *)
(***************************************************************************)

\* What a player has in a world.
Has(w, p) == Contained(w.contents, Worn(w, p))

\* What a player has is located with the player, or in a bag that the player
\* has; nobody else is where it is.
LEMMA HasLoc ==
    ASSUME NEW w, Agree(w), NEW p \in Players, NEW x \in Has(w, p)
    PROVE  x \in Things /\ (w.loc[x] = p \/ w.loc[x] \in Has(w, p) \cap Bags)
<1>1. Worn(w, p) \subseteq Things /\ w.contents \in [Bags -> SUBSET Things]
  BY WornThings DEF Agree, AgreeBut, WorldType
<1>2. x \in Things
  BY <1>1, ContainedBounds DEF Has
<1>3. x \in Worn(w, p) \/ \E b \in Has(w, p) \cap Bags : x \in w.contents[b]
  BY ContainedIs DEF Has
<1> QED
  BY <1>2, <1>3 DEF Agree, AgreeBut

\* And what is with the player or in a bag the player has, the player has.
LEMMA HasBy ==
    ASSUME NEW w, Agree(w), NEW p \in Players, NEW x \in Things,
           w.loc[x] = p \/ w.loc[x] \in Has(w, p) \cap Bags
    PROVE  x \in Has(w, p)
<1>1. CASE w.loc[x] = p
  BY <1>1, ContainedBounds DEF Agree, AgreeBut, Has
<1>2. CASE w.loc[x] \in Has(w, p) \cap Bags
  <2>1. x \in w.contents[w.loc[x]]
    BY <1>2 DEF Agree, AgreeBut
  <2> QED
    BY <1>2, <2>1, ContainedClosed DEF Has
<1> QED
  BY <1>1, <1>2

\* No two have the same thing.
LEMMA HasAlone ==
    ASSUME NEW w, Agree(w), NEW p \in Players, NEW r \in Players, p # r
    PROVE  Has(w, p) \cap Has(w, r) = {}
<1> DEFINE P == Has(w, p) \ Has(w, r)
<1>1. \A x : x \notin Players \/ x \notin Bags
  BY MoveAssumption DEF Things
<1>2. Worn(w, p) \subseteq P
  <2>1. ASSUME NEW x \in Worn(w, p)
        PROVE  x \in P
    <3>1. x \in Has(w, p)
      BY ContainedBounds DEF Has
    <3>2. x \in Things /\ w.loc[x] = p
      BY <3>1, HasLoc DEF Agree, AgreeBut
    <3> QED
      BY <1>1, <3>1, <3>2, HasLoc
  <2> QED
    BY <2>1
<1>3. ASSUME NEW b \in P \cap Bags
      PROVE  w.contents[b] \subseteq P
  <2>1. w.contents[b] \subseteq Has(w, p)
    BY ContainedClosed DEF Has
  <2>2. ASSUME NEW x \in w.contents[b], x \in Has(w, r)
        PROVE  FALSE
    <3>1. x \in Things /\ (w.loc[x] = r \/ w.loc[x] \in Has(w, r))
      BY <2>2, HasLoc
    <3>2. w.loc[x] = b
      BY <3>1 DEF Agree, AgreeBut
    <3> QED
      BY <1>1, <3>1, <3>2
  <2> QED
    BY <2>1, <2>2
<1> HIDE DEF P
<1>4. Has(w, p) \subseteq P
  BY <1>2, <1>3, ContainedLeast DEF Has
<1> QED
  BY <1>4 DEF P

\* The steps of is_accessible_in_room, from the ground on.
Floor(w, p) == {y \in Things : w.loc[y] = Room /\ ~Possesses(w, p, y)}
OpenedIn(w) == [b \in Bags |-> {y \in Things : w.loc[y] = b /\ y \in w.contents[b] /\ open[b]}]

\* What is accessible is on the ground, or in the open bags there.
LEMMA AccessibleIs ==
    ASSUME NEW w, NEW p, NEW x
    PROVE  Accessible(w, p, x) <=> x \in Contained(OpenedIn(w), Floor(w, p))
<1> DEFINE N == Cardinality(Bags)
           c == OpenedIn(w)
           B == Floor(w, p)
           IsNear(h) == h = [n \in 0..N |-> IF n = 0 THEN B
                               ELSE h[n - 1] \cup {y \in Things : \E b \in h[n - 1] \cap Bags :
                                   w.loc[y] = b /\ y \in w.contents[b] /\ open[b]}]
<1>1. ASSUME NEW h
      PROVE  IsNest(c, B, N, h) <=> IsNear(h)
  <2>1. \A S : UNION {c[b] : b \in S \cap Bags}
                 = {y \in Things : \E b \in S \cap Bags : w.loc[y] = b /\ y \in w.contents[b] /\ open[b]}
    BY DEF OpenedIn
  <2> DEFINE F(S) == UNION {c[b] : b \in S \cap Bags}
             G(S) == {y \in Things : \E b \in S \cap Bags : w.loc[y] = b /\ y \in w.contents[b] /\ open[b]}
  <2>2. IsNest(c, B, N, h) <=> h = [n \in 0..N |-> IF n = 0 THEN B ELSE h[n - 1] \cup F(h[n - 1])]
    BY DEF IsNest
  <2>3. IsNear(h) <=> h = [n \in 0..N |-> IF n = 0 THEN B ELSE h[n - 1] \cup G(h[n - 1])]
    OBVIOUS
  <2>4. \A S : F(S) = G(S)
    BY <2>1
  <2> HIDE DEF c, B, N, F, G, IsNear
  <2>5. [n \in 0..N |-> IF n = 0 THEN B ELSE h[n - 1] \cup F(h[n - 1])]
          = [n \in 0..N |-> IF n = 0 THEN B ELSE h[n - 1] \cup G(h[n - 1])]
    BY <2>4
  <2> QED
    BY <2>2, <2>3, <2>5
<1>2. Accessible(w, p, x) <=> x \in (CHOOSE h : IsNear(h))[N]
  BY DEF Accessible, Floor
<1> HIDE DEF IsNear
<1>3. (CHOOSE h : IsNear(h)) = (CHOOSE h : IsNest(c, B, N, h))
  BY <1>1
<1> QED
  BY <1>2, <1>3 DEF Contained

\* What is accessible, and what it is in, nobody has.
LEMMA AccessibleLoc ==
    ASSUME NEW w, Agree(w), NEW p \in Players, NEW x, Accessible(w, p, x), NEW r \in Players
    PROVE  x \in Things /\ x \notin Has(w, r) /\ w.loc[x] \notin Has(w, r) /\ w.loc[x] \in Bags \cup {Room}
<1> DEFINE c == OpenedIn(w)
           B == Floor(w, p)
           P == {y \in Things : y \notin Has(w, r) /\ w.loc[y] \notin Has(w, r) /\ w.loc[y] \in Bags \cup {Room}}
<1>1. Room \notin Players \cup Things /\ Bags \subseteq Things /\ \A q \in Players : q \notin Bags
  BY MoveAssumption DEF Things
<1>2. B \subseteq P
  BY <1>1, HasLoc DEF Floor
<1>3. ASSUME NEW b \in P \cap Bags
      PROVE  c[b] \subseteq P
  BY <1>1, HasLoc DEF OpenedIn
<1>4. x \in Contained(c, B)
  BY AccessibleIs
<1> HIDE DEF P, c, B
<1>5. Contained(c, B) \subseteq P
  BY <1>2, <1>3, ContainedLeast
<1> QED
  BY <1>4, <1>5 DEF P

\* A change of holders that a player is none of, and has none of, leaves what
\* the player has.
LEMMA HasKept ==
    ASSUME NEW w, Agree(w), NEW v, NEW H, HoldersOnly(v, w, H), NEW r \in Players,
           r \notin H, H \cap Has(w, r) = {}
    PROVE  Has(v, r) = Has(w, r)
<1>1. Worn(v, r) = Worn(w, r)
  BY DEF HoldersOnly, Worn
<1>2. \A b \in Has(w, r) \cap Bags : v.contents[b] = w.contents[b]
  BY DEF HoldersOnly
<1> QED
  BY <1>1, <1>2, ContainedSame DEF Has

\* A holder that is nobody's but perhaps p's; what all but p have stays.
NoOnes(w, p, h) == \A r \in Players \ {p} : h # r /\ h \notin Has(w, r)
OthersKeep(v, w, p) == \A r \in Players \ {p} : Has(v, r) = Has(w, r)

\* The room, the player and what the player has are nobody else's, nor is what
\* is on the ground.
LEMMA NoOnesAre ==
    ASSUME NEW w, Agree(w), NEW p \in Players
    PROVE  /\ NoOnes(w, p, p) /\ NoOnes(w, p, Room)
           /\ \A h \in Has(w, p) : NoOnes(w, p, h)
           /\ \A h \in Things : w.loc[h] = Room => NoOnes(w, p, h)
<1>1. /\ Room \notin Players \cup Things /\ Bags \subseteq Things
      /\ \A r \in Players : r \notin Things
  BY MoveAssumption DEF Things
<1>2. \A r \in Players : \A h \in Has(w, r) : h \in Things /\ (w.loc[h] = r \/ w.loc[h] \in Bags)
  BY HasLoc
<1>3. \A r \in Players \ {p} : Has(w, p) \cap Has(w, r) = {}
  BY HasAlone
<1> QED
  BY <1>1, <1>2, <1>3 DEF NoOnes

\* So is what a thing is in that the player has or can reach.
LEMMA NoOnesFrom ==
    ASSUME NEW w, Agree(w), NEW p \in Players, NEW x \in Things, NEW src, IsAt(w, x, src),
           Possesses(w, p, x) \/ Accessible(w, p, x) \/ src.of = Room
    PROVE  NoOnes(w, p, src.of)
<1>1. src.of = w.loc[x]
  BY DEF IsAt, InRoom, InBag, OnBody
<1>2. CASE Possesses(w, p, x)
  <2>1. x \in Has(w, p)
    BY <1>2, PossessesIs DEF Has
  <2>2. w.loc[x] = p \/ w.loc[x] \in Has(w, p)
    BY <2>1, HasLoc
  <2> QED
    BY <1>1, <2>2, NoOnesAre
<1>3. CASE Accessible(w, p, x)
  <2>1. \A r \in Players : w.loc[x] \notin Has(w, r) /\ w.loc[x] \in Bags \cup {Room}
    BY <1>3, AccessibleLoc
  <2>2. \A r \in Players : r \notin Bags \cup {Room}
    BY MoveAssumption DEF Things
  <2> QED
    BY <1>1, <2>1, <2>2 DEF NoOnes
<1>4. CASE src.of = Room
  BY <1>4, NoOnesAre
<1> QED
  BY <1>2, <1>3, <1>4

\* What such holders get or give is nobody else's gain or loss.
LEMMA OthersDo ==
    ASSUME NEW w, Agree(w), NEW p \in Players, NEW g, NEW h, NoOnes(w, p, g), NoOnes(w, p, h),
           NEW v, HoldersOnly(v, w, {g, h})
    PROVE  OthersKeep(v, w, p)
BY HasKept DEF NoOnes, OthersKeep

(***************************************************************************)
(* What is carried, where no bag is in a bag and units weigh the same      *)
(***************************************************************************)

\* The units of all stacks weigh the same.  (Stacks of one key are merged without
\* a look at what they weigh, so units that differ would change weight.)
SameWeight == \E k \in Nat : \A s \in Stacks : Weight[s] = k

\* No bag is in a bag.
Flat(w) == \A b \in Bags : w.loc[b] \notin Bags

\* The units of stacks that are at h weigh k each, whatever else is summed.
LEMMA StacksWeigh ==
    ASSUME NEW w \in WorldType, NEW h, NEW k \in Nat, NEW S, S = {y \in Stacks : w.loc[y] = h},
           NEW f, \A y \in S : f[y] = k * w.count[y]
    PROVE  /\ Total(f, S) = k * UnitsAt(w, h)
           /\ \A y \in S : f[y] \in Nat
<1> DEFINE c == w.count
<1>1. IsFiniteSet(S) /\ S \subseteq Stacks /\ IsFiniteSet(Stacks)
  BY BagsFinite, FS_Subset
<1>2. \A y \in Stacks : c[y] \in Nat
  BY DEF WorldType
<1>3. \A y \in S : f[y] = k * c[y]
  OBVIOUS
<1>0. \A y \in Stacks : Here(w, y, h) = IF y \in S THEN c[y] ELSE 0
  BY DEF Here
<1> HIDE DEF c
<1>4. Total(f, S) = k * Total(c, S)
  <2>1. \A y \in S : c[y] \in Nat
    BY <1>1, <1>2
  <2> QED
    BY ONLY k \in Nat, <1>1, <2>1, <1>3, TotalScale
<1>5. Total([y \in Stacks |-> IF y \in S THEN c[y] ELSE 0], Stacks) = Total(c, S)
  BY ONLY <1>1, <1>2, TotalOn
<1>6. [y \in Stacks |-> Here(w, y, h)] = [y \in Stacks |-> IF y \in S THEN c[y] ELSE 0]
  BY <1>0
<1>7. UnitsAt(w, h) = Total(c, S)
  BY <1>5, <1>6 DEF UnitsAt
<1>8. ASSUME NEW y \in S
      PROVE  f[y] \in Nat
  <2>1. c[y] \in Nat /\ f[y] = k * c[y]
    BY <1>1, <1>2, <1>3
  <2> QED
    BY <2>1, Distribute
<1> QED
  BY <1>4, <1>7, <1>8

\* A bag is as deep as its contents.
LEMMA FlatInside ==
    ASSUME NEW w, Agree(w), Flat(w), NEW x \in Things
    PROVE  Contained(w.contents, {x}) = {x} \cup (IF x \in Bags THEN w.contents[x] ELSE {})
<1> DEFINE P == {x} \cup (IF x \in Bags THEN w.contents[x] ELSE {})
<1>1. \A b \in P \cap Bags : w.contents[b] \subseteq P
  <2>1. ASSUME NEW b \in P \cap Bags, b # x PROVE FALSE
    <3>1. x \in Bags /\ b \in w.contents[x]
      BY <2>1
    <3>2. w.loc[b] = x
      BY <3>1 DEF Agree, AgreeBut, Things
    <3> QED
      BY <3>1, <3>2 DEF Flat
  <2> QED
    BY <2>1
<1>2. Contained(w.contents, {x}) \subseteq P
  <2>1. {x} \subseteq P
    OBVIOUS
  <2> HIDE DEF P
  <2> QED
    BY ONLY <1>1, <2>1, ContainedLeast
<1>3. x \in Contained(w.contents, {x})
  BY ContainedBounds
<1>4. x \in Bags => w.contents[x] \subseteq Contained(w.contents, {x})
  BY <1>3, ContainedClosed
<1> QED
  BY <1>2, <1>3, <1>4

\* What a stack, a bag and its contents weigh.
LEMMA WeightsAre ==
    ASSUME NEW w, Agree(w), Flat(w), NEW k \in Nat, \A s \in Stacks : Weight[s] = k
    PROVE  /\ \A s \in Stacks : TotalWeight(w, s) = k * w.count[s]
           /\ \A b \in Bags : /\ TotalWeight(w, b) = Weight[b] + k * UnitsAt(w, b)
                              /\ ContentsWeight(w, b) = k * UnitsAt(w, b)
                              /\ k * UnitsAt(w, b) \in Nat
<1> DEFINE F == [y \in Things |-> Weight[y] * Units(w, y)]
           G == [y \in Things |-> TotalWeight(w, y)]
<1>0. /\ w \in WorldType /\ Bags \subseteq Things /\ Stacks \subseteq Things /\ Bags \cap Stacks = {}
      /\ Things = Bags \cup Stacks /\ IsFiniteSet(Things)
  <2>1. IsFiniteSet(Things) /\ Bags \cap Stacks = {}
    BY MoveAssumption
  <2>2. w \in WorldType
    BY DEF Agree, AgreeBut
  <2> QED
    BY <2>1, <2>2 DEF Things
<1>1. \A x \in Things : TotalWeight(w, x) = Total(F, {x} \cup (IF x \in Bags THEN w.contents[x] ELSE {}))
  <2>1. \A x \in Things : TotalWeight(w, x) = Total(F, Contained(w.contents, {x}))
    BY <1>0, TotalWeightType
  <2>2. \A x \in Things : Contained(w.contents, {x}) = {x} \cup (IF x \in Bags THEN w.contents[x] ELSE {})
    BY FlatInside
  <2> HIDE DEF F
  <2> QED
    BY <2>1, <2>2
<1>2. /\ \A s \in Stacks : F[s] = k * w.count[s]
      /\ \A b \in Bags : F[b] = Weight[b]
      /\ \A x \in Things : F[x] \in Nat
  <2>1. \A x \in Things : Units(w, x) \in Nat /\ Weight[x] \in Nat
    BY <1>0, UnitsType, MoveAssumption
  <2>2. ASSUME NEW x \in Things PROVE F[x] \in Nat
    <3> DEFINE i == Weight[x]
               j == Units(w, x)
    <3>1. i \in Nat /\ j \in Nat /\ F[x] = i * j
      BY <2>1
    <3> HIDE DEF i, j, F
    <3> QED
      BY <3>1, Distribute
  <2>3. \A s \in Stacks : F[s] = k * w.count[s]
    BY <1>0 DEF Units
  <2>4. \A b \in Bags : F[b] = Weight[b]
    BY <1>0, <2>1 DEF Units
  <2> QED
    BY <2>2, <2>3, <2>4
<1>3. \A s \in Stacks : G[s] = TotalWeight(w, s)
  BY <1>0
<1> HIDE DEF F
<1>4. ASSUME NEW s \in Stacks PROVE TotalWeight(w, s) = k * w.count[s]
  <2>1. TotalWeight(w, s) = Total(F, {s})
    BY <1>0, <1>1
  <2>2. Total(F, {s}) = F[s] + Total(F, {})
    <3>1. IsFiniteSet({s}) /\ s \in {s} /\ \A x \in {s} : F[x] \in Nat
      BY <1>0, <1>2, FS_Singleton
    <3>2. Total(F, {s}) = F[s] + Total(F, {s} \ {s})
      BY ONLY <3>1, TotalAdd
    <3>3. {s} \ {s} = {}
      OBVIOUS
    <3> QED
      BY <3>2, <3>3
  <2>3. F[s] \in Nat /\ F[s] = k * w.count[s]
    BY <1>0, <1>2
  <2> QED
    BY <2>1, <2>2, <2>3, TotalOfNone
<1>5. ASSUME NEW b \in Bags
      PROVE  /\ TotalWeight(w, b) = Weight[b] + k * UnitsAt(w, b)
             /\ ContentsWeight(w, b) = k * UnitsAt(w, b)
             /\ k * UnitsAt(w, b) \in Nat
  <2> DEFINE S == {y \in Stacks : w.loc[y] = b}
  <2>1. w.contents[b] = S
    <3>1. \A x \in w.contents[b] : x \in Things
      BY <1>0 DEF WorldType
    <3>2. \A x \in Things : x \in w.contents[b] <=> w.loc[x] = b
      BY DEF Agree, AgreeBut
    <3>3. \A x \in Bags : w.loc[x] # b
      BY DEF Flat
    <3> QED
      BY <1>0, <3>1, <3>2, <3>3
  <2>2. (\A y \in S : F[y] = k * w.count[y]) /\ (\A y \in S : G[y] = k * w.count[y])
    BY <1>2, <1>3, <1>4
  <2>3. S = {y \in Stacks : w.loc[y] = b}
    OBVIOUS
  <2>4. b \notin S /\ S \subseteq Things /\ IsFiniteSet(S)
    BY <1>0, FS_Subset
  <2> HIDE DEF S, G
  <2>5. Total(F, S) = k * UnitsAt(w, b) /\ Total(G, S) = k * UnitsAt(w, b)
    <3>1. w \in WorldType /\ k \in Nat
      BY <1>0
    <3> QED
      BY ONLY <2>2, <2>3, <3>1, StacksWeigh
  <2>6. Total(F, {b} \cup S) = F[b] + Total(F, S)
    <3>1. {b} \cup S \subseteq Things /\ IsFiniteSet({b} \cup S) /\ b \in {b} \cup S /\ ({b} \cup S) \ {b} = S
      BY <1>0, <2>4, FS_Subset
    <3>2. \A x \in {b} \cup S : F[x] \in Nat
      BY <1>2, <3>1
    <3>3. Total(F, {b} \cup S) = F[b] + Total(F, ({b} \cup S) \ {b})
      BY ONLY <3>1, <3>2, TotalAdd
    <3> QED
      BY <3>1, <3>3
  <2>7. TotalWeight(w, b) = Weight[b] + k * UnitsAt(w, b)
    BY <1>0, <1>1, <1>2, <2>1, <2>5, <2>6
  <2>8. ContentsWeight(w, b) = k * UnitsAt(w, b)
    BY <1>0, <2>1, <2>4, <2>5, WeightOfAll DEF ContentsWeight, G
  <2>9. k * UnitsAt(w, b) \in Nat
    BY <1>0, UnitsAtType, Distribute
  <2> QED
    BY <2>7, <2>8, <2>9
<1> QED
  BY <1>4, <1>5

\* What the bags of a player weigh.
BagLoad(w, p) == Total([b \in Bags |-> IF w.loc[b] = p THEN TotalWeight(w, b) ELSE 0], Bags)

\* A player carries units, and bags.
LEMMA CarriedIs ==
    ASSUME NEW w, Agree(w), Flat(w), NEW k \in Nat, \A s \in Stacks : Weight[s] = k, NEW p \in Players
    PROVE  /\ CarriedWeight(w, p) = k * UnitsAt(w, p) + BagLoad(w, p)
           /\ k * UnitsAt(w, p) \in Nat /\ BagLoad(w, p) \in Nat
<1> DEFINE G == [y \in Things |-> TotalWeight(w, y)]
           S == {y \in Stacks : w.loc[y] = p}
           T == {b \in Bags : w.loc[b] = p}
<1>0. /\ w \in WorldType /\ Bags \subseteq Things /\ Stacks \subseteq Things /\ Bags \cap Stacks = {}
      /\ Things = Bags \cup Stacks /\ IsFiniteSet(Things) /\ IsFiniteSet(Bags)
  <2>1. IsFiniteSet(Things) /\ Bags \cap Stacks = {}
    BY MoveAssumption
  <2>2. w \in WorldType
    BY DEF Agree, AgreeBut
  <2> QED
    BY <2>1, <2>2, BagsFinite DEF Things
<1>1. Worn(w, p) = S \cup T
  <2>1. Worn(w, p) \subseteq Things /\ \A x \in Things : x \in Worn(w, p) <=> w.loc[x] = p
    BY <1>0, WornThings DEF Agree, AgreeBut
  <2> QED
    BY <1>0, <2>1
<1>2. S \cap T = {} /\ S \subseteq Things /\ T \subseteq Bags /\ S \cup T \subseteq Things /\ IsFiniteSet(S) /\ IsFiniteSet(T)
  <2>1. S \cap T = {} /\ S \subseteq Things /\ T \subseteq Bags /\ S \cup T \subseteq Things
    BY <1>0
  <2> QED
    BY <1>0, <2>1, FS_Subset
<1>3. \A y \in Things : G[y] \in Nat /\ G[y] = TotalWeight(w, y)
  BY <1>0, TotalWeightType
<1>4. \A y \in S : G[y] = k * w.count[y]
  BY <1>0, <1>3, WeightsAre
<1>5. S = {y \in Stacks : w.loc[y] = p}
  OBVIOUS
<1>6. [b \in Bags |-> IF w.loc[b] = p THEN TotalWeight(w, b) ELSE 0] = [b \in Bags |-> IF b \in T THEN G[b] ELSE 0]
  BY <1>0
<1>7. CarriedWeight(w, p) = Total(G, S \cup T)
  BY <1>0, <1>1, <1>2, WeightOfAll DEF CarriedWeight
<1> HIDE DEF G, S, T
<1>8. Total(G, S) = k * UnitsAt(w, p)
  BY ONLY k \in Nat, <1>0, <1>4, <1>5, StacksWeigh
<1>9. BagLoad(w, p) = Total(G, T)
  <2>1. \A b \in Bags : G[b] \in Nat
    BY <1>0, <1>3
  <2>2. Total([b \in Bags |-> IF b \in T THEN G[b] ELSE 0], Bags) = Total(G, T)
    BY ONLY <1>0, <1>2, <2>1, TotalOn
  <2> QED
    BY <1>6, <2>2 DEF BagLoad
<1>10. Total(G, S \cup T) = Total(G, S) + Total(G, T)
  <2>1. \A y \in S \cup T : G[y] \in Nat
    BY <1>2, <1>3
  <2> QED
    BY ONLY <1>2, <2>1, TotalUnion
<1>11. Total(G, T) \in Nat
  <2>1. \A y \in T : G[y] \in Nat
    BY <1>0, <1>2, <1>3
  <2> QED
    BY ONLY <1>2, <2>1, TotalNat
<1>12. k * UnitsAt(w, p) \in Nat
  BY <1>0, UnitsAtType, Distribute
<1> QED
  BY <1>7, <1>8, <1>9, <1>10, <1>11, <1>12

\* What comes to r, the player bears.
Bears(w, p, r) == r = p \/ (r \in Bags /\ w.loc[r] = p)
Gain(w, p, r, g) == IF Bears(w, p, r) THEN g ELSE 0

\* Units that move to r are borne by whom r, or the bearer of the bag r, is.
LEMMA StackPassed ==
    ASSUME NEW w, Agree(w), Flat(w), NEW v, Agree(v), Flat(v), NEW k \in Nat, \A s \in Stacks : Weight[s] = k,
           NEW x \in Stacks, w.loc[x] \in Holders, NEW r \in Holders, NEW u \in Nat, Passed(v, w, x, r, u),
           NEW p \in Players
    PROVE  CarriedWeight(v, p) = CarriedWeight(w, p) + Gain(w, p, r, k * u) - Gain(w, p, w.loc[x], k * u)
<1> DEFINE o == w.loc[x]
           g == k * u
           Came(h) == IF h = r THEN g ELSE 0
           Went(h) == IF h = o THEN g ELSE 0
<1>0. /\ w \in WorldType /\ v \in WorldType /\ x \notin Bags /\ Players \cap Bags = {} /\ IsFiniteSet(Bags)
      /\ Players \subseteq Holders /\ Bags \subseteq Holders /\ o \in Holders
  BY MoveAssumption, BagsFinite DEF Agree, AgreeBut, Things, Holders
<1>1. g \in Nat
  BY Distribute
<1>2. \A b \in Bags : v.loc[b] = w.loc[b]
  BY <1>0 DEF Passed
<1>3. ASSUME NEW h \in Holders
      PROVE  k * UnitsAt(v, h) + Went(h) = k * UnitsAt(w, h) + Came(h) /\ k * UnitsAt(w, h) \in Nat /\ k * UnitsAt(v, h) \in Nat
  <2> DEFINE i == UnitsAt(v, h)
             j == UnitsAt(w, h)
             a == Flow(x, h, r, u)
             c == Flow(x, h, o, u)
  <2>1. i \in Nat /\ j \in Nat /\ a \in Nat /\ c \in Nat /\ i = j + a - c
    BY <1>0, UnitsAtType DEF Passed, Flow
  <2>2. k * a = Came(h) /\ k * c = Went(h)
    BY DEF Flow
  <2> HIDE DEF i, j, a, c
  <2>3. i + c = j + a
    BY <2>1
  <2>4. k * (i + c) = k * i + k * c /\ k * (j + a) = k * j + k * a /\ k * i \in Nat /\ k * j \in Nat
    BY <2>1, Distribute
  <2>5. k * i + Went(h) = k * j + Came(h)
    BY <2>2, <2>3, <2>4
  <2> QED
    BY <2>4, <2>5 DEF i, j
<1> DEFINE f == [b \in Bags |-> IF w.loc[b] = p THEN TotalWeight(w, b) ELSE 0]
           e == [b \in Bags |-> IF v.loc[b] = p THEN TotalWeight(v, b) ELSE 0]
           m == [b \in Bags |-> IF w.loc[b] = p THEN TotalWeight(w, b) + Came(b) ELSE 0]
<1>4. /\ \A b \in Bags : TotalWeight(w, b) = Weight[b] + k * UnitsAt(w, b) /\ Weight[b] \in Nat
      /\ \A b \in Bags : TotalWeight(v, b) = Weight[b] + k * UnitsAt(v, b)
  BY WeightsAre, MoveAssumption DEF Things
<1>5. \A b \in Bags : TotalWeight(v, b) + Went(b) = TotalWeight(w, b) + Came(b)
                      /\ TotalWeight(w, b) \in Nat /\ TotalWeight(v, b) \in Nat
  <2>1. ASSUME NEW b \in Bags
        PROVE  TotalWeight(v, b) + Went(b) = TotalWeight(w, b) + Came(b)
               /\ TotalWeight(w, b) \in Nat /\ TotalWeight(v, b) \in Nat
    <3> DEFINE i == k * UnitsAt(v, b)
               j == k * UnitsAt(w, b)
    <3>1. i + Went(b) = j + Came(b) /\ i \in Nat /\ j \in Nat
      BY <1>0, <1>3
    <3>2. TotalWeight(w, b) = Weight[b] + j /\ TotalWeight(v, b) = Weight[b] + i /\ Weight[b] \in Nat
      BY <1>4
    <3>3. Went(b) \in Nat /\ Came(b) \in Nat
      BY <1>1
    <3> HIDE DEF i, j, Went, Came
    <3> QED
      BY <3>1, <3>2, <3>3
  <2> QED
    BY <2>1
<1>6. /\ BagLoad(w, p) = Total(f, Bags) /\ BagLoad(v, p) = Total(e, Bags)
      /\ \A b \in Bags : f[b] \in Nat /\ e[b] \in Nat /\ m[b] \in Nat
      /\ \A b \in Bags : b # r => m[b] = f[b]
      /\ \A b \in Bags : b # o => m[b] = e[b]
      /\ r \in Bags => m[r] = f[r] + (IF w.loc[r] = p THEN g ELSE 0)
      /\ o \in Bags => m[o] = e[o] + (IF w.loc[o] = p THEN g ELSE 0)
  BY <1>1, <1>2, <1>5 DEF BagLoad
<1> HIDE DEF f, e, m, g, o
<1>7. Total(f, Bags) \in Nat /\ Total(m, Bags) \in Nat /\ Total(e, Bags) \in Nat
  BY <1>0, <1>6, TotalNat
<1>8. Total(m, Bags) = Total(f, Bags) + (IF r \in Bags /\ w.loc[r] = p THEN g ELSE 0)
  <2>1. CASE r \in Bags
    <3>1. /\ \A b \in Bags : f[b] \in Nat
          /\ m[r] \in Nat
          /\ \A b \in Bags \ {r} : m[b] = f[b]
      BY <1>0, <1>6, <2>1
    <3>0. IsFiniteSet(Bags) /\ r \in Bags
      BY <1>0, <2>1
    <3>2. Total(m, Bags) = Total(f, Bags) - f[r] + m[r]
      BY <3>0, <3>1, TotalBump, SMTT(20)
    <3> QED
      BY <1>1, <1>6, <1>7, <2>1, <3>1, <3>2
  <2>2. CASE r \notin Bags
    <3>1. \A b \in Bags : m[b] = f[b]
      BY <1>6, <2>2
    <3> QED
      BY <1>0, <1>7, <2>2, <3>1, TotalSame
  <2> QED
    BY <2>1, <2>2
<1>9. Total(m, Bags) = Total(e, Bags) + (IF o \in Bags /\ w.loc[o] = p THEN g ELSE 0)
  <2>1. CASE o \in Bags
    <3>1. /\ \A b \in Bags : e[b] \in Nat
          /\ m[o] \in Nat
          /\ \A b \in Bags \ {o} : m[b] = e[b]
      BY <1>0, <1>6, <2>1
    <3>0. IsFiniteSet(Bags) /\ o \in Bags
      BY <1>0, <2>1
    <3>2. Total(m, Bags) = Total(e, Bags) - e[o] + m[o]
      BY <3>0, <3>1, TotalBump, SMTT(20)
    <3> QED
      BY <1>1, <1>6, <1>7, <2>1, <3>1, <3>2
  <2>2. CASE o \notin Bags
    <3>1. \A b \in Bags : m[b] = e[b]
      BY <1>6, <2>2
    <3> QED
      BY <1>0, <1>7, <2>2, <3>1, TotalSame
  <2> QED
    BY <2>1, <2>2
<1>10. k * UnitsAt(v, p) + Went(p) = k * UnitsAt(w, p) + Came(p) /\ k * UnitsAt(w, p) \in Nat /\ k * UnitsAt(v, p) \in Nat
  BY <1>0, <1>3
<1>11. /\ CarriedWeight(w, p) = k * UnitsAt(w, p) + BagLoad(w, p)
       /\ CarriedWeight(v, p) = k * UnitsAt(v, p) + BagLoad(v, p)
  BY CarriedIs
<1>12. /\ Gain(w, p, r, g) = Came(p) + (IF r \in Bags /\ w.loc[r] = p THEN g ELSE 0)
       /\ Gain(w, p, o, g) = Went(p) + (IF o \in Bags /\ w.loc[o] = p THEN g ELSE 0)
  <2>1. ASSUME NEW h
        PROVE  Gain(w, p, h, g) = (IF p = h THEN g ELSE 0) + (IF h \in Bags /\ w.loc[h] = p THEN g ELSE 0)
    <3>1. CASE h = p
      BY <1>0, <1>1, <3>1 DEF Gain, Bears
    <3>2. CASE h # p
      BY <1>1, <3>2 DEF Gain, Bears
    <3> QED
      BY <3>1, <3>2
  <2> QED
    BY <2>1
<1> DEFINE i == k * UnitsAt(v, p)
           j == k * UnitsAt(w, p)
<1>13. /\ i + Went(p) = j + Came(p) /\ i \in Nat /\ j \in Nat
       /\ CarriedWeight(w, p) = j + Total(f, Bags) /\ CarriedWeight(v, p) = i + Total(e, Bags)
       /\ Came(p) \in Nat /\ Went(p) \in Nat
  BY <1>1, <1>6, <1>10, <1>11
<1> HIDE DEF i, j, Came, Went
<1>14. CarriedWeight(v, p) = CarriedWeight(w, p) + Gain(w, p, r, g) - Gain(w, p, o, g)
  BY <1>1, <1>7, <1>8, <1>9, <1>12, <1>13
<1> QED
  BY <1>14 DEF g, o

\* So is a bag, with all that is in it.
LEMMA BagPassed ==
    ASSUME NEW w, Agree(w), Flat(w), NEW v, Agree(v), Flat(v), NEW k \in Nat, \A s \in Stacks : Weight[s] = k,
           NEW x \in Bags, w.loc[x] \in Holders, NEW r \in Holders, NEW u \in Nat, Passed(v, w, x, r, u),
           NEW p \in Players
    PROVE  LET g == TotalWeight(w, x)
           IN  CarriedWeight(v, p) = CarriedWeight(w, p) + Gain(w, p, r, g) - Gain(w, p, w.loc[x], g)
<1> DEFINE o == w.loc[x]
           g == TotalWeight(w, x)
           f == [b \in Bags |-> IF w.loc[b] = p THEN TotalWeight(w, b) ELSE 0]
           e == [b \in Bags |-> IF v.loc[b] = p THEN TotalWeight(v, b) ELSE 0]
<1>0. /\ w \in WorldType /\ v \in WorldType /\ x \notin Stacks /\ x \in Things /\ Bags \subseteq Things /\ IsFiniteSet(Bags)
      /\ Players \subseteq Holders /\ Bags \subseteq Holders
  BY MoveAssumption, BagsFinite DEF Agree, AgreeBut, Things, Holders
<1>1. /\ v.loc[x] = r /\ \A b \in Bags \ {x} : v.loc[b] = w.loc[b]
      /\ r \notin Bags /\ o \notin Bags
  BY DEF Passed, Flat
<1>2. \A h \in Holders : UnitsAt(v, h) = UnitsAt(w, h)
  BY <1>0, UnitsAtType DEF Passed, Flow
<1>3. \A b \in Bags : TotalWeight(v, b) = TotalWeight(w, b) /\ TotalWeight(w, b) \in Nat
  <2>1. \A b \in Bags : TotalWeight(w, b) = Weight[b] + k * UnitsAt(w, b)
    BY WeightsAre
  <2>2. \A b \in Bags : TotalWeight(v, b) = Weight[b] + k * UnitsAt(v, b)
    BY WeightsAre
  <2>3. \A b \in Bags : TotalWeight(w, b) \in Nat
    BY <1>0, TotalWeightType
  <2> QED
    BY <1>0, <1>2, <2>1, <2>2, <2>3
<1>4. /\ \A b \in Bags : f[b] \in Nat
      /\ e[x] \in Nat
      /\ \A b \in Bags \ {x} : e[b] = f[b]
      /\ IsFiniteSet(Bags) /\ x \in Bags
  BY <1>0, <1>1, <1>3
<1>5. /\ f[x] = Gain(w, p, o, g) /\ e[x] = Gain(w, p, r, g)
      /\ BagLoad(w, p) = Total(f, Bags) /\ BagLoad(v, p) = Total(e, Bags)
  <2>1. f[x] = Gain(w, p, o, g)
    BY <1>1 DEF Gain, Bears
  <2>2. e[x] = Gain(w, p, r, g)
    BY <1>1, <1>3 DEF Gain, Bears
  <2> QED
    BY <2>1, <2>2 DEF BagLoad
<1> HIDE DEF f, e, g, o
<1>6. Total(e, Bags) = Total(f, Bags) - f[x] + e[x] /\ Total(f, Bags) \in Nat
  <2>1. /\ \A b \in Bags : f[b] \in Nat
        /\ e[x] \in Nat
        /\ \A b \in Bags \ {x} : e[b] = f[b]
    BY <1>4
  <2>2. IsFiniteSet(Bags)
    BY <1>0
  <2> QED
    BY ONLY x \in Bags, <2>1, <2>2, TotalBump
<1>7. /\ CarriedWeight(w, p) = k * UnitsAt(w, p) + BagLoad(w, p)
      /\ CarriedWeight(v, p) = k * UnitsAt(v, p) + BagLoad(v, p)
      /\ k * UnitsAt(w, p) \in Nat
  BY CarriedIs
<1> DEFINE j == k * UnitsAt(w, p)
<1>8. CarriedWeight(w, p) = j + Total(f, Bags) /\ CarriedWeight(v, p) = j + Total(e, Bags) /\ j \in Nat
  BY <1>0, <1>2, <1>5, <1>7
<1> HIDE DEF j
<1>9. f[x] \in Nat /\ e[x] \in Nat
  BY <1>4
<1>10. CarriedWeight(v, p) = CarriedWeight(w, p) + Gain(w, p, r, g) - Gain(w, p, o, g)
  BY <1>5, <1>6, <1>8, <1>9
<1> QED
  BY <1>10 DEF g, o

\* Who gains by a move bears what comes, has not had it before and has not let
\* go of a bag.
LEMMA GainBearable ==
    ASSUME NEW w, Agree(w), Flat(w), NEW v, Agree(v), Flat(v), NEW x \in Things, w.loc[x] \in Holders,
           NEW dst \in Targets, NEW u \in Nat, Bearable(w, x, dst, u), Passed(v, w, x, dst.of, u),
           NEW p \in Players, Bears(w, p, dst.of), ~Bears(w, p, w.loc[x]), MaxWeight[p] >= 0
    PROVE  /\ CarriedWeight(w, p) + TransferWeight(w, x, u) <= EffectiveMaxWeight(w, p)
           /\ EffectiveMaxWeight(w, p) <= EffectiveMaxWeight(v, p)
<1>0. Players \cap Things = {} /\ Bags \subseteq Things /\ Room \notin Players \cup Bags /\ w \in WorldType /\ v \in WorldType
  BY MoveAssumption DEF Things, Agree, AgreeBut
<1>1. p \in Bearers(w, dst)
  <2>1. CASE dst.of = p
    BY <1>0, <2>1, TargetKinds DEF Bearers
  <2>2. CASE dst.of \in Bags /\ w.loc[dst.of] = p
    <3>1. dst.kind = "bag"
      BY <1>0, <2>2, TargetKinds
    <3>2. p \in Above(w, dst.of)
      BY <2>2, AboveHasLoc
    <3> QED
      BY <3>1, <3>2 DEF Bearers
  <2> QED
    BY <2>1, <2>2 DEF Bears
<1>2. ~Possesses(w, p, x)
  <2>1. SUFFICES ASSUME x \in Has(w, p) PROVE FALSE
    BY PossessesIs DEF Has
  <2>2. w.loc[x] \in Has(w, p) \cap Bags
    BY <2>1, HasLoc DEF Bears
  <2>3. w.loc[w.loc[x]] = p
    BY <2>2, HasLoc DEF Flat
  <2> QED
    BY <2>2, <2>3 DEF Bears
<1>3. Worn(w, p) \cap Bags \subseteq Worn(v, p) \cap Bags
  <2>1. ASSUME NEW b \in Bags, b \in Worn(w, p)
        PROVE  b \in Worn(v, p)
    <3>1. w.loc[b] = p
      BY <1>0, <2>1 DEF Agree, AgreeBut
    <3>2. b # x
      BY <3>1 DEF Bears
    <3>3. v.loc[b] = p
      BY <3>1, <3>2 DEF Passed
    <3> QED
      BY <1>0, <3>3 DEF Agree, AgreeBut
  <2> QED
    BY <2>1
<1>4. EffectiveMaxWeight(w, p) <= EffectiveMaxWeight(v, p)
  <2> DEFINE S == Worn(w, p) \cap Bags
             R == Worn(v, p) \cap Bags
  <2>1. S \cup (R \ S) = R /\ S \cap (R \ S) = {}
    BY <1>3
  <2>2. IsFiniteSet(S) /\ IsFiniteSet(R \ S)
    BY BagsFinite, FS_Subset
  <2>3. (\A b \in S \cup (R \ S) : Bonus[b] \in Nat) /\ (\A b \in S : Bonus[b] \in Nat) /\ (\A b \in R \ S : Bonus[b] \in Nat)
    BY MoveAssumption
  <2>4. MapThenSumSet(LAMBDA b : Bonus[b], S) = Total(Bonus, S) /\ MapThenSumSet(LAMBDA b : Bonus[b], R) = Total(Bonus, R)
    BY DEF Total
  <2>5. /\ EffectiveMaxWeight(w, p) = MaxWeight[p] + Total(Bonus, S)
        /\ EffectiveMaxWeight(v, p) = MaxWeight[p] + Total(Bonus, R)
    BY <2>4, MoveAssumption DEF EffectiveMaxWeight
  <2> DEFINE T == R \ S
  <2>6. S \cup T = R /\ S \cap T = {} /\ IsFiniteSet(S) /\ IsFiniteSet(T)
    BY <2>1, <2>2
  <2>7. (\A b \in S \cup T : Bonus[b] \in Nat) /\ (\A b \in S : Bonus[b] \in Nat) /\ (\A b \in T : Bonus[b] \in Nat)
    BY <2>3
  <2> HIDE DEF S, R, T
  <2>8. Total(Bonus, S \cup T) = Total(Bonus, S) + Total(Bonus, T)
    BY ONLY <2>6, <2>7, TotalUnion
  <2>9. Total(Bonus, S) \in Nat /\ Total(Bonus, T) \in Nat
    BY <2>6, <2>7, TotalNat
  <2>10. MaxWeight[p] \in Int
    BY MoveAssumption
  <2>11. Total(Bonus, R) = Total(Bonus, S) + Total(Bonus, T)
    BY <2>6, <2>8
  <2> DEFINE i == Total(Bonus, S)
             j == Total(Bonus, T)
             n == MaxWeight[p]
  <2>12. /\ EffectiveMaxWeight(w, p) = n + i /\ EffectiveMaxWeight(v, p) = n + (i + j)
         /\ n \in Int /\ i \in Nat /\ j \in Nat
    BY <2>5, <2>9, <2>10, <2>11
  <2> HIDE DEF i, j, n
  <2> QED
    BY <2>12
<1> QED
  BY <1>1, <1>2, <1>4 DEF Bearable

\* A player comes to carry more within the limit only.
LEMMA CarriedBound ==
    ASSUME SameWeight, NEW w, Agree(w), Flat(w), NEW v, Agree(v), Flat(v),
           NEW x \in Things, w.loc[x] \in Holders, NEW dst \in Targets, NEW q \in Nat, Moved(v, w, x, dst, q),
           NEW p \in Players, MaxWeight[p] >= 0, CarriedWeight(v, p) > CarriedWeight(w, p)
    PROVE  CarriedWeight(v, p) <= EffectiveMaxWeight(v, p)
<1>1. PICK k \in Nat : \A s \in Stacks : Weight[s] = k
  BY DEF SameWeight
<1>0. dst.of \in Holders /\ w \in WorldType /\ v \in WorldType /\ x \in Bags \cup Stacks /\ Bags \cap Stacks = {}
  BY TargetKinds, MoveAssumption DEF Holders, Agree, AgreeBut, Things
<1>2. CarriedWeight(w, p) \in Nat /\ CarriedWeight(v, p) \in Nat
  BY <1>0, WeightOfAll, WornThings DEF CarriedWeight
<1>3. ASSUME NEW r \in Holders, NEW u \in Nat, Passed(v, w, x, r, u)
      PROVE  /\ TransferWeight(w, x, u) \in Nat
             /\ CarriedWeight(v, p) = CarriedWeight(w, p) + Gain(w, p, r, TransferWeight(w, x, u))
                                        - Gain(w, p, w.loc[x], TransferWeight(w, x, u))
  <2>1. CASE x \in Stacks
    <3>1. TransferWeight(w, x, u) = k * u /\ k * u \in Nat
      BY <1>1, <2>1, Distribute DEF TransferWeight
    <3>2. CarriedWeight(v, p) = CarriedWeight(w, p) + Gain(w, p, r, k * u) - Gain(w, p, w.loc[x], k * u)
      BY <1>1, <1>3, <2>1, StackPassed
    <3> QED
      BY <3>1, <3>2
  <2>2. CASE x \in Bags
    <3>1. TransferWeight(w, x, u) = TotalWeight(w, x) /\ TotalWeight(w, x) \in Nat
      BY <1>0, <2>2, TotalWeightType DEF TransferWeight
    <3>2. CarriedWeight(v, p) = CarriedWeight(w, p) + Gain(w, p, r, TotalWeight(w, x)) - Gain(w, p, w.loc[x], TotalWeight(w, x))
      BY <1>1, <1>3, <2>2, BagPassed
    <3> QED
      BY <3>1, <3>2
  <2> QED
    BY <1>0, <2>1, <2>2
<1>4. CASE Passed(v, w, x, w.loc[x], 0)
  <2> DEFINE g == Gain(w, p, w.loc[x], TransferWeight(w, x, 0))
  <2>1. TransferWeight(w, x, 0) \in Nat /\ CarriedWeight(v, p) = CarriedWeight(w, p) + g - g
    BY <1>3, <1>4
  <2>2. g \in Nat
    BY <2>1 DEF Gain
  <2> HIDE DEF g
  <2> QED
    BY <1>2, <2>1, <2>2
<1>5. ASSUME NEW u \in Nat, Bearable(w, x, dst, u), Passed(v, w, x, dst.of, u)
      PROVE  CarriedWeight(v, p) <= EffectiveMaxWeight(v, p)
  <2> DEFINE g == TransferWeight(w, x, u)
  <2>1. g \in Nat /\ CarriedWeight(v, p) = CarriedWeight(w, p) + Gain(w, p, dst.of, g) - Gain(w, p, w.loc[x], g)
    BY <1>0, <1>3, <1>5
  <2> HIDE DEF g
  <2>2. Bears(w, p, dst.of) /\ ~Bears(w, p, w.loc[x])
    BY <1>2, <2>1 DEF Gain
  <2>3. CarriedWeight(v, p) = CarriedWeight(w, p) + g
    BY <1>2, <2>1, <2>2 DEF Gain
  <2>4. /\ CarriedWeight(w, p) + g <= EffectiveMaxWeight(w, p)
        /\ EffectiveMaxWeight(w, p) <= EffectiveMaxWeight(v, p)
    BY <1>5, <2>2, GainBearable DEF g
  <2>5. EffectiveMaxWeight(w, p) \in Int /\ EffectiveMaxWeight(v, p) \in Int
    BY <1>0, EffectiveType
  <2> QED
    BY <1>2, <2>1, <2>3, <2>4, <2>5
<1> QED
  BY <1>4, <1>5 DEF Moved

\* What a bag may hold is as many units as its limit leaves.
LEMMA UnitsWithinLimit ==
    ASSUME NEW limit \in Nat, NEW load \in Nat, NEW x \in Things, Weight[x] > 0,
           NEW u \in Nat, u <= UnitsWithin(limit, load, x), u > 0
    PROVE  load + Weight[x] * u <= limit
<1> DEFINE d == Weight[x]
           a == limit - load
<1>1. d \in Nat /\ d > 0
  BY MoveAssumption
<1>2. load <= limit /\ u <= a \div d
  BY <1>1 DEF UnitsWithin
<1>3. a \in Nat /\ (load + d * u <= limit <=> d * u <= a)
  <2>1. d * u \in Nat
    BY <1>1, Distribute
  <2> DEFINE m == d * u
  <2>2. m \in Nat
    BY <2>1
  <2> HIDE DEF m, d
  <2> QED
    BY <1>2, <2>2 DEF m
<1> HIDE DEF d, a
<1>4. d * (a \div d) <= a /\ a \div d \in Nat
  BY <1>1, <1>3, SMTT(30)
<1>5. d * u <= d * (a \div d)
  <2> DEFINE n == a \div d
             j == n - u
  <2>1. n \in Nat /\ j \in Nat /\ n = u + j
    BY <1>2, <1>4
  <2> HIDE DEF n, j
  <2>2. d * (u + j) = d * u + d * j /\ d * u \in Nat
    BY <1>1, <2>1, Distribute
  <2>3. d * j \in Nat
    BY <1>1, <2>1, Distribute
  <2>4. d * n = d * u + d * j
    BY <2>1, <2>2
  <2> DEFINE i1 == d * u
             i2 == d * j
             i3 == d * n
  <2>5. i1 \in Nat /\ i2 \in Nat /\ i3 = i1 + i2
    BY <2>2, <2>3, <2>4
  <2> HIDE DEF i1, i2, i3
  <2>6. i1 <= i3
    BY <2>5
  <2> QED
    BY <2>6 DEF i1, i3, n
<1>6. d * u <= a
  <2> DEFINE i1 == d * u
             i2 == d * (a \div d)
  <2>1. i1 \in Nat /\ i2 \in Nat /\ i1 <= i2 /\ i2 <= a
    BY <1>1, <1>4, <1>5, Distribute
  <2> HIDE DEF i1, i2
  <2>2. i1 <= a
    BY <1>3, <2>1
  <2> QED
    BY <2>2 DEF i1
<1> QED
  BY <1>3, <1>6 DEF d

\* A plan for a bag is within what the bag may hold.
LEMMA PlanWithin ==
    ASSUME NEW w \in WorldType, NEW x \in Things, NEW b \in Bags, NEW q \in Nat,
           NEW m \in OrNone(MergeTargets(w, x, InBag(b)))
    PROVE  LET plan == Plan(w, x, InBag(b), q, m)
           IN  plan.merge + plan.new <= UnitsWithin(MaxWeight[b], ContentsWeight(w, b), x)
<1> DEFINE dst == InBag(b)
           plan == Plan(w, x, dst, q, m)
           spare == CASE m # None -> MergeRoom(w, m)
                      [] m = None /\ HasRoom(w, b) -> MaxStack
                      [] OTHER -> 0
           limit == UnitsWithin(MaxWeight[b], ContentsWeight(w, b), x)
           units == Least(Least(Requested(w, x, q), spare), limit)
<1>1. plan = IF m = None THEN [merge |-> 0, new |-> units] ELSE [merge |-> units, new |-> 0]
  BY DEF Plan, ContainerPlan, InBag
<1>2. limit \in Nat /\ Requested(w, x, q) \in Nat
  BY LimitsType, UnitsType DEF Requested, Least
<1>3. spare \in Int
  <2>1. m = None \/ (m \in Stacks /\ w.count[m] \in Nat)
    BY MergeTargetType DEF Targets, WorldType
  <2> QED
    BY <2>1, MoveAssumption DEF MergeRoom
<1> HIDE DEF limit, spare
<1>4. units <= limit /\ units \in Int
  <2>1. Least(Requested(w, x, q), spare) \in Int
    BY <1>2, <1>3, LeastBounds
  <2> QED
    BY <1>2, <2>1, LeastBounds
<1> HIDE DEF units
<1> QED
  BY <1>1, <1>4 DEF limit

\* A bag comes to hold more within its limit only.
LEMMA ContentsBound ==
    ASSUME SameWeight, NEW w, Agree(w), Flat(w), NEW v, Agree(v), Flat(v),
           NEW x \in Things, w.loc[x] \in Holders, NEW dst \in Targets, NEW q \in Nat, Moved(v, w, x, dst, q),
           NEW b \in Bags, MaxWeight[b] >= 0, ContentsWeight(v, b) > ContentsWeight(w, b)
    PROVE  ContentsWeight(v, b) <= MaxWeight[b]
<1>1. PICK k \in Nat : \A s \in Stacks : Weight[s] = k
  BY DEF SameWeight
<1>0. b \in Holders /\ w \in WorldType /\ v \in WorldType /\ Stacks \subseteq Things
  BY DEF Holders, Agree, AgreeBut, Things
<1> DEFINE i == UnitsAt(v, b)
           j == UnitsAt(w, b)
<1>2. ContentsWeight(v, b) = k * i /\ ContentsWeight(w, b) = k * j /\ i \in Nat /\ j \in Nat
  <2>1. ContentsWeight(v, b) = k * UnitsAt(v, b)
    BY <1>1, WeightsAre
  <2>2. ContentsWeight(w, b) = k * UnitsAt(w, b)
    BY <1>1, WeightsAre
  <2> QED
    BY <1>0, <2>1, <2>2, UnitsAtType
<1>3. i > j /\ k > 0
  <2> HIDE DEF i, j
  <2>1. SUFFICES ASSUME ~(i > j) \/ k = 0 PROVE FALSE
    BY <1>1
  <2>2. CASE k = 0
    <3>1. k * i = 0 /\ k * j = 0
      BY <1>2, <2>2
    <3> QED
      BY <1>2, <3>1
  <2>3. CASE ~(i > j)
    <3> DEFINE n == j - i
    <3>1. n \in Nat /\ j = i + n
      BY <1>2, <2>3
    <3> HIDE DEF n
    <3>2. k * (i + n) = k * i + k * n /\ k * i \in Nat
      BY <1>1, <1>2, <3>1, Distribute
    <3>3. k * n \in Nat
      BY <1>1, <3>1, Distribute
    <3>4. k * j = k * i + k * n
      BY <3>1, <3>2
    <3> DEFINE i1 == k * i
               i2 == k * n
               i3 == k * j
    <3>5. i1 \in Nat /\ i2 \in Nat /\ i3 = i1 + i2 /\ i1 > i3
      BY <1>2, <3>2, <3>3, <3>4
    <3> HIDE DEF i1, i2, i3
    <3> QED
      BY <3>5
  <2> QED
    BY <2>1, <2>2, <2>3
<1>4. PICK m \in OrNone(MergeTargets(w, x, dst)), u \in Nat :
        /\ u = Plan(w, x, dst, q, m).merge + Plan(w, x, dst, q, m).new
        /\ Passed(v, w, x, dst.of, u)
  <2>1. ~Passed(v, w, x, w.loc[x], 0)
    BY <1>0, <1>2, <1>3 DEF Passed, Flow
  <2> QED
    BY <2>1 DEF Moved
<1>5. i = j + Flow(x, b, dst.of, u) - Flow(x, b, w.loc[x], u)
  BY <1>0, <1>4 DEF Passed
<1>6. x \in Stacks /\ dst.of = b /\ i = j + u /\ u > 0
  <2> HIDE DEF i, j
  <2> QED
    BY <1>2, <1>3, <1>5 DEF Flow
<1>7. dst = InBag(b)
  <2>1. Room \notin Bags /\ Players \cap Bags = {}
    BY MoveAssumption DEF Things
  <2> QED
    BY <1>6, <2>1, TargetKinds
<1>8. u <= UnitsWithin(MaxWeight[b], ContentsWeight(w, b), x)
  BY <1>0, <1>4, <1>7, PlanWithin
<1>9. MaxWeight[b] \in Nat /\ ContentsWeight(w, b) \in Nat /\ Weight[x] = k
  <2>1. MaxWeight[b] \in Int
    BY MoveAssumption
  <2>2. k * j \in Nat
    BY <1>1, <1>2, Distribute
  <2> QED
    BY <1>1, <1>2, <1>6, <2>1, <2>2
<1>10. ContentsWeight(w, b) + k * u <= MaxWeight[b]
  <2> DEFINE limit == MaxWeight[b]
             load == ContentsWeight(w, b)
  <2>1. limit \in Nat /\ load \in Nat /\ Weight[x] > 0 /\ u <= UnitsWithin(limit, load, x) /\ u > 0
    BY <1>3, <1>6, <1>8, <1>9
  <2> HIDE DEF limit, load
  <2>2. load + Weight[x] * u <= limit
    BY <2>1, UnitsWithinLimit
  <2> QED
    BY <1>9, <2>2 DEF limit, load
<1>11. ContentsWeight(v, b) = ContentsWeight(w, b) + k * u
  <2> HIDE DEF i, j
  <2>1. k * (j + u) = k * j + k * u
    BY <1>1, <1>2, Distribute
  <2> QED
    BY <1>2, <1>6, <2>1
<1> QED
  BY <1>10, <1>11

(***************************************************************************)
(* The commands                                                            *)
(***************************************************************************)

\* Where a thing is resolved to be, it is.
LEMMA ResolvedThere ==
    ASSUME NEW w, Agree(w), NEW x \in Things, Present(w, x)
    PROVE  IsAt(w, x, Resolved(w, x))
<1>1. w.loc[x] \in Players \cup Bags \cup {Room} /\ Players \cap Bags = {} /\ Room \notin Bags \cup Players
  BY MoveAssumption DEF Agree, AgreeBut, WorldType, Present, Things
<1>2. CASE w.loc[x] \in Bags
  <2>1. x \in w.contents[w.loc[x]]
    BY <1>2 DEF Agree, AgreeBut
  <2>2. Resolved(w, x) = InBag(w.loc[x])
    BY <1>1, <1>2, <2>1 DEF Resolved
  <2> QED
    BY <1>2, <2>2 DEF IsAt
<1>3. CASE w.loc[x] \in Players
  <2>1. x \in Worn(w, w.loc[x])
    BY <1>3 DEF Agree, AgreeBut
  <2>2. Resolved(w, x) = OnBody(w.loc[x])
    BY <1>1, <1>3, <2>1 DEF Resolved
  <2> QED
    BY <1>3, <2>2 DEF IsAt
<1>4. CASE w.loc[x] = Room
  BY <1>1, <1>4 DEF IsAt, Resolved
<1> QED
  BY <1>1, <1>2, <1>3, <1>4

\* What is worn is possessed.
LEMMA WornPossessed ==
    ASSUME NEW w, Agree(w), NEW x \in Things, NEW p \in Players, w.loc[x] = p
    PROVE  Possesses(w, p, x)
<1>1. x \in Worn(w, p)
  BY DEF Agree, AgreeBut
<1> QED
  BY <1>1, PossessesIs, ContainedBounds

\* A command moves one thing at the most.
Dealt(v, w) ==
    \E x \in Things, dst \in Targets, q \in Nat :
        /\ w.loc[x] \in Holders
        /\ dst.kind = "bag" /\ x \in Bags => "nest" \in Ops
        /\ Moved(v, w, x, dst, q)

\* What a command does, when no bag is dropped and nothing is wielded.
LEMMA NextSound ==
    ASSUME Plain, Agree(World), Next
    PROVE  Sound(World) /\ Dealt(World', World) /\ \E p \in Players : OthersKeep(World', World, p)
<1>1. /\ InRoom(Room) \in Targets /\ \A b \in Bags : InBag(b) \in Targets
      /\ \A p \in Players : Carrying(p) \in Targets /\ OnBody(p) \in Targets
      /\ InRoom(Room).kind = "room" /\ InRoom(Room).of = Room
      /\ \A b \in Bags : InBag(b).kind = "bag" /\ InBag(b).of = b
      /\ \A p \in Players : Carrying(p).kind = "inventory" /\ Carrying(p).of = p /\ OnBody(p).kind = "slot" /\ OnBody(p).of = p
      /\ \A x \in Things : Present(World, x) => World.loc[x] \in Holders
  <2>1. World.loc \in [Things -> Players \cup Bags \cup {Room, Gone}]
    BY DEF Agree, AgreeBut, WorldType
  <2>2. \A x \in Things : Present(World, x) => World.loc[x] \in Holders
    BY <2>1 DEF Present, Holders
  <2> QED
    BY <2>2 DEF Targets, InRoom, InBag, Carrying, OnBody
<1>2. Requests \subseteq Nat /\ MaxStack \in Nat /\ 1 \in Nat /\ Bags \subseteq Things /\ Stacks \subseteq Things
  BY MoveAssumption DEF Requests, Things
<1>3. ASSUME NEW p \in Players, NEW x \in Things, NEW q \in Requests, Take(p, x, q)
      PROVE  Sound(World) /\ Dealt(World', World) /\ OthersKeep(World', World, p)
  <2>1. Move(World, x, Resolved(World, x), Carrying(p), q) /\ Present(World, x) /\ ~Possesses(World, p, x)
    BY <1>3 DEF Take
  <2>2. World.loc[x] # p
    BY <2>1, WornPossessed
  <2>3. IsAt(World, x, Resolved(World, x))
    BY <2>1, ResolvedThere
  <2> DEFINE src == Resolved(World, x)
             dst == Carrying(p)
  <2>6. /\ dst \in Targets /\ dst.kind = "inventory" /\ dst.of = p /\ q \in Nat
        /\ Move(World, x, src, dst, q) /\ IsAt(World, x, src) /\ World.loc[x] \in Holders
    BY <1>1, <1>2, <2>1, <2>3
  <2> HIDE DEF src, dst
  <2>7. Sound(World) /\ HoldersOnly(World', World, {src.of, dst.of}) /\ Moved(World', World, x, dst, q)
    BY <2>2, <2>6, MoveSound
  <2>8. Dealt(World', World)
    BY <2>6, <2>7 DEF Dealt
  <2>4. Sound(World) /\ HoldersOnly(World', World, {Resolved(World, x).of, p}) /\ Dealt(World', World)
    BY <2>6, <2>7, <2>8 DEF src
  <2>5. NoOnes(World, p, Resolved(World, x).of)
    BY <1>3, <2>3, NoOnesFrom DEF Take
  <2> QED
    BY <2>4, <2>5, NoOnesAre, OthersDo
<1>4. ASSUME NEW p \in Players, NEW x \in Things, NEW q \in Requests, Drop(p, x, q)
      PROVE  Sound(World) /\ Dealt(World', World) /\ OthersKeep(World', World, p)
  <2>1. x \notin Bags
    BY <1>4 DEF Drop, Plain
  <2>2. Move(World, x, Resolved(World, x), InRoom(Room), q) /\ Present(World, x)
    BY <1>4, <2>1 DEF Drop, Spilled, MoveToRoom
  <2>3. IsAt(World, x, Resolved(World, x))
    BY <2>2, ResolvedThere
  <2> DEFINE src == Resolved(World, x)
             dst == InRoom(Room)
  <2>6. /\ dst \in Targets /\ dst.kind = "room" /\ dst.of = Room /\ q \in Nat
        /\ Move(World, x, src, dst, q) /\ IsAt(World, x, src) /\ World.loc[x] \in Holders
    BY <1>1, <1>2, <2>2, <2>3
  <2> HIDE DEF src, dst
  <2>7. Sound(World) /\ HoldersOnly(World', World, {src.of, dst.of}) /\ Moved(World', World, x, dst, q)
    BY <2>6, MoveSound
  <2>8. Dealt(World', World)
    BY <2>6, <2>7 DEF Dealt
  <2>4. Sound(World) /\ HoldersOnly(World', World, {Resolved(World, x).of, Room}) /\ Dealt(World', World)
    BY <2>6, <2>7, <2>8 DEF src
  <2>5. NoOnes(World, p, Resolved(World, x).of)
    BY <1>4, <2>3, NoOnesFrom DEF Drop
  <2> QED
    BY <2>4, <2>5, NoOnesAre, OthersDo
<1>5. ASSUME NEW p \in Players, NEW x \in Things, NEW b \in Bags, NEW q \in Requests, Put(p, x, b, q)
      PROVE  Sound(World) /\ Dealt(World', World) /\ OthersKeep(World', World, p)
  <2>1. Move(World, x, Resolved(World, x), InBag(b), q) /\ Present(World, x)
    BY <1>5 DEF Put, MoveToContainer
  <2>2. IsAt(World, x, Resolved(World, x))
    BY <2>1, ResolvedThere
  <2>3. Sound(World) /\ HoldersOnly(World', World, {Resolved(World, x).of, b}) /\ Dealt(World', World)
    <3> DEFINE dst == InBag(b)
    <3>1. /\ dst \in Targets /\ dst.kind = "bag" /\ dst.of = b /\ q \in Nat
          /\ World.loc[x] \in Holders /\ (x \in Bags => "nest" \in Ops)
      BY <1>1, <1>2, <1>5, <2>1 DEF Put
    <3>2. Move(World, x, Resolved(World, x), dst, q)
      BY <2>1
    <3> HIDE DEF dst
    <3>3. Sound(World) /\ HoldersOnly(World', World, {Resolved(World, x).of, dst.of}) /\ Moved(World', World, x, dst, q)
      BY <2>2, <3>1, <3>2, MoveSound
    <3>4. Dealt(World', World)
      BY <3>1, <3>3 DEF Dealt
    <3> QED
      BY <3>1, <3>3, <3>4
  <2>4. NoOnes(World, p, Resolved(World, x).of)
    BY <1>5, <2>2, NoOnesFrom DEF Put
  <2>5. b \in Has(World, p) \/ World.loc[b] = Room
    BY <1>5, PossessesIs DEF Put, Reachable, Has, World
  <2>6. NoOnes(World, p, b)
    BY <1>2, <2>5, NoOnesAre
  <2> QED
    BY <2>3, <2>4, <2>6, OthersDo
<1>6. ASSUME NEW p \in Players, NEW x \in Things, NEW b \in Bags, RemoveFrom(p, x, b)
      PROVE  Sound(World) /\ Dealt(World', World) /\ OthersKeep(World', World, p)
  <2>1. Move(World, x, InBag(b), Carrying(p), MaxStack) /\ x \in World.contents[b]
    BY <1>6 DEF RemoveFrom, World
  <2>2. World.loc[x] = b /\ b # p
    BY <2>1, MoveAssumption DEF Agree, AgreeBut, Things
  <2>3. IsAt(World, x, InBag(b))
    BY <2>2 DEF IsAt
  <2>4. Sound(World) /\ HoldersOnly(World', World, {b, p}) /\ Dealt(World', World)
    <3> DEFINE src == InBag(b)
               dst == Carrying(p)
    <3>1. /\ dst \in Targets /\ dst.kind = "inventory" /\ dst.of = p /\ src.of = b
          /\ MaxStack \in Nat /\ World.loc[x] # p /\ World.loc[x] \in Holders
      BY <1>1, <1>2, <2>2 DEF Holders
    <3>2. Move(World, x, src, dst, MaxStack) /\ IsAt(World, x, src)
      BY <2>1, <2>3
    <3> HIDE DEF src, dst
    <3>3. Sound(World) /\ HoldersOnly(World', World, {src.of, dst.of}) /\ Moved(World', World, x, dst, MaxStack)
      BY <3>1, <3>2, MoveSound
    <3>4. Dealt(World', World)
      BY <3>1, <3>3 DEF Dealt
    <3> QED
      BY <3>1, <3>3, <3>4
  <2>5. b \in Has(World, p)
    BY <1>6, PossessesIs DEF RemoveFrom, Has
  <2> QED
    BY <2>4, <2>5, NoOnesAre, OthersDo
<1>7. ASSUME NEW p \in Players, NEW b \in Bags, Wear(p, b)
      PROVE  Sound(World) /\ Dealt(World', World) /\ OthersKeep(World', World, p)
  <2> DEFINE src == IF Possesses(World, p, b) THEN Resolved(World, b) ELSE InRoom(Room)
  <2>1. Move(World, b, src, OnBody(p), 1)
    BY <1>7 DEF Wear
  <2>2. IsAt(World, b, src)
    <3>1. CASE Possesses(World, p, b)
      <4>1. Present(World, b)
        BY DEF Agree, AgreeBut
      <4> QED
        BY <1>2, <3>1, <4>1, ResolvedThere
    <3>2. CASE ~Possesses(World, p, b)
      BY <1>7, <3>2 DEF Wear, Reachable, IsAt, World
    <3> QED
      BY <3>1, <3>2
  <2>3. Possesses(World, p, b) \/ src.of = Room
    BY <1>1
  <2> HIDE DEF src
  <2>4. Sound(World) /\ HoldersOnly(World', World, {src.of, p}) /\ Dealt(World', World)
    <3> DEFINE dst == OnBody(p)
    <3>1. dst \in Targets /\ dst.kind = "slot" /\ dst.of = p /\ b \in Things /\ World.loc[b] \in Holders
      BY <1>1, <1>2 DEF Agree, AgreeBut
    <3>2. Move(World, b, src, dst, 1)
      BY <2>1
    <3> HIDE DEF dst
    <3>3. Sound(World) /\ HoldersOnly(World', World, {src.of, dst.of}) /\ Moved(World', World, b, dst, 1)
      BY <1>2, <2>2, <3>1, <3>2, MoveSound
    <3>4. Dealt(World', World)
      BY <1>2, <3>1, <3>3 DEF Dealt
    <3> QED
      BY <3>1, <3>3, <3>4
  <2>5. NoOnes(World, p, src.of)
    BY <1>2, <2>2, <2>3, NoOnesFrom
  <2> QED
    BY <2>4, <2>5, NoOnesAre, OthersDo
<1>8. ASSUME NEW p \in Players, NEW b \in Bags, Open(p, b) \/ Close(p, b)
      PROVE  Sound(World) /\ Dealt(World', World) /\ OthersKeep(World', World, p)
  <2>1. HoldersOnly(World', World, {p, p})
    <3>1. PICK ids : Become(World, ids)
      BY <1>8 DEF Open, Close
    <3>2. World'.contents = World.contents /\ World'.slots = World.slots
      BY <3>1, BecomeWorld DEF Agree, AgreeBut
    <3> QED
      BY <3>2 DEF HoldersOnly
  <2>5. Dealt(World', World)
    <3>1. PICK ids : Become(World, ids)
      BY <1>8 DEF Open, Close
    <3>2. World'.loc = World.loc /\ World'.count = World.count /\ World \in WorldType
      BY <3>1, BecomeWorld DEF Agree, AgreeBut
    <3>3. b \in Things /\ World.loc[b] \in Holders /\ InRoom(Room) \in Targets /\ InRoom(Room).kind # "bag"
      BY <1>1, <1>2 DEF Agree, AgreeBut
    <3>4. Passed(World', World, b, World.loc[b], 0)
      BY <3>2, <3>3, NonePassed
    <3>5. Moved(World', World, b, InRoom(Room), 1)
      BY <3>4 DEF Moved
    <3> QED
      BY <1>2, <3>3, <3>5 DEF Dealt
  <2>2. OthersKeep(World', World, p)
    BY <2>1, NoOnesAre, OthersDo
  <2>3. CASE Open(p, b)
    <3>1. OnlyIn(World, World, {}, {})
      BY DEF OnlyIn
    <3>2. /\ Agree(World') /\ OnlyIn(World', World, {b}, {b})
          /\ World'.count = World.count /\ marked' = {b}
      BY <2>3, <3>1, BecomeAgree DEF Open
    <3> QED
      BY <1>2, <2>2, <2>5, <3>2 DEF Sound
  <2>4. CASE Close(p, b)
    BY <2>2, <2>4, <2>5, StaySound DEF Close
  <2> QED
    BY <1>8, <2>3, <2>4
<1> QED
  BY <1>3, <1>4, <1>5, <1>6, <1>7, <1>8 DEF Next, Wield, Plain

\* The fresh room: everything on the ground or in a bag.
LEMMA InitAgree ==
    ASSUME Init
    PROVE  Agree(World) /\ Total(World.count, Stacks) = Total(Amounts, DOMAIN Amounts) /\ marked = {}
<1>1. World \in WorldType
  BY InitWorld
<1>2. PICK at \in [DOMAIN Amounts -> Bags \cup {Room}] :
        /\ loc = [x \in Things |-> IF x \in Bags THEN Room ELSE IF x \in DOMAIN Amounts THEN at[x] ELSE Gone]
        /\ contents = [b \in Bags |-> {x \in DOMAIN Amounts : at[x] = b}]
  BY DEF Init
<1>3. /\ slots = [p \in Players |-> [s \in BodySlots |-> None]]
      /\ count = [x \in Stacks |-> IF x \in DOMAIN Amounts THEN Amounts[x] ELSE 0]
      /\ marked = {}
  BY DEF Init
<1>4. /\ DOMAIN Amounts \subseteq Stacks /\ Stacks \subseteq Things /\ Bags \subseteq Things /\ Stacks \cap Bags = {}
      /\ \A p \in Players : p \notin Bags \cup {Room, Gone}
      /\ Room \notin Bags /\ Gone \notin Bags /\ Room # Gone
      /\ \A s \in DOMAIN Amounts : Amounts[s] \in 1..MaxStack
      /\ MaxStack \in Nat
  BY MoveAssumption DEF Things
<1>5. \A b \in Bags, x \in Things : x \in contents[b] <=> loc[x] = b
  BY <1>2, <1>4
<1>6. \A p \in Players, x \in Things : x \notin Worn(World, p) /\ loc[x] # p
  <2> SUFFICES ASSUME NEW p \in Players, NEW x \in Things
               PROVE  x \notin Worn(World, p) /\ loc[x] # p
    OBVIOUS
  <2>1. \A s \in BodySlots : World.slots[p][s] = None
    BY <1>3 DEF World
  <2>2. x # None
    BY MoveAssumption
  <2>3. x \notin Worn(World, p)
    BY <2>1, <2>2, WornIs
  <2> QED
    BY <1>2, <1>4, <2>3
<1>7. \A x \in Stacks : count[x] \in 0..MaxStack /\ (count[x] > 0 <=> loc[x] # Gone)
  <2> SUFFICES ASSUME NEW x \in Stacks PROVE count[x] \in 0..MaxStack /\ (count[x] > 0 <=> loc[x] # Gone)
    OBVIOUS
  <2>1. CASE x \in DOMAIN Amounts
    BY <1>2, <1>3, <1>4, <2>1
  <2>2. CASE x \notin DOMAIN Amounts
    BY <1>2, <1>3, <1>4, <2>2
  <2> QED
    BY <2>1, <2>2
<1>8. \A b \in Bags : loc[b] # Gone
  BY <1>2, <1>4
<1>9. Agree(World)
  BY <1>1, <1>5, <1>6, <1>7, <1>8 DEF Agree, AgreeBut, World, Present
<1>10. Total(count, Stacks) = Total(Amounts, DOMAIN Amounts)
  <2>1. IsFiniteSet(Stacks) /\ IsFiniteSet(DOMAIN Amounts)
    BY <1>4, BagsFinite, FS_Subset
  <2>2. /\ \A x \in Stacks : count[x] \in Nat
        /\ \A x \in Stacks \ DOMAIN Amounts : count[x] = 0
        /\ \A x \in DOMAIN Amounts : count[x] = Amounts[x]
    BY <1>3, <1>4
  <2>3. Total(count, Stacks) = Total(count, DOMAIN Amounts)
    BY <1>4, <2>1, <2>2, TotalZeros
  <2>4. Total(count, DOMAIN Amounts) = Total(Amounts, DOMAIN Amounts)
    BY <2>1, <2>2, TotalSame
  <2> QED
    BY <2>3, <2>4
<1> QED
  BY <1>3, <1>9, <1>10 DEF World

\* What holds in every state, without the dropping of bags and wielding.
Records ==
    /\ Agree(World)
    /\ open \in [Bags -> BOOLEAN]
    /\ marked \subseteq Things \cup Players \cup {Room}
    /\ Total(count, Stacks) = Total(Amounts, DOMAIN Amounts)

\* It holds initially, and every command keeps it.
LEMMA RecordsInvariant == ASSUME Plain PROVE Spec => []Records
<1>1. Init => Records
  <2> SUFFICES ASSUME Init PROVE Records
    OBVIOUS
  <2>1. Agree(World) /\ Total(World.count, Stacks) = Total(Amounts, DOMAIN Amounts) /\ marked = {}
    BY InitAgree
  <2>2. open \in [Bags -> BOOLEAN]
    BY DEF Init
  <2> QED
    BY <2>1, <2>2 DEF Records, World
<1>2. Records /\ [Next]_vars => Records'
  <2> SUFFICES ASSUME Records, [Next]_vars PROVE Records'
    OBVIOUS
  <2>1. CASE Next
    <3>1. Sound(World)
      BY <2>1, NextSound DEF Records
    <3>2. open' \in [Bags -> BOOLEAN]
      BY <2>1 DEF Next, Take, Drop, Put, RemoveFrom, Wield, Wear, Open, Close, Records
    <3>3. Total(count', Stacks) = Total(count, Stacks)
      BY <3>1 DEF Sound, World
    <3> QED
      BY <3>1, <3>2, <3>3 DEF Records, Sound
  <2>2. CASE UNCHANGED vars
    <3>1. World' = World /\ open' = open /\ marked' = marked /\ count' = count
      BY <2>2 DEF vars, World
    <3> QED
      BY <3>1 DEF Records
  <2> QED
    BY <2>1, <2>2
<1> QED
  BY <1>1, <1>2, PTL DEF Spec

\* A thing is in one place, whichever record one asks.
THEOREM RecordsAgreeHolds == ASSUME Plain PROVE Spec => []RecordsAgree
<1>1. Records => RecordsAgree
  <2> SUFFICES ASSUME Records PROVE RecordsAgree
    OBVIOUS
  <2>1. World \in WorldType /\ Agree(World)
    BY DEF Records, Agree, AgreeBut
  <2>2. TypeOK
    BY <2>1 DEF Records, TypeOK, WorldType, World
  <2>3. ContentsAgree
    BY <2>1 DEF Agree, AgreeBut, ContentsAgree, World
  <2>4. SlotsAgree
    BY <2>1 DEF Agree, AgreeBut, SlotsAgree, World
  <2>5. ReferencesResolve
    <3>1. \A b \in Bags : b # Gone
      BY MoveAssumption DEF Things
    <3>2. \A p \in Players : p # Gone
      BY MoveAssumption
    <3> QED
      BY <2>3, <2>4, <3>1, <3>2 DEF ContentsAgree, SlotsAgree, ReferencesResolve, Present, World
  <2> QED
    BY <2>2, <2>3, <2>4, <2>5 DEF RecordsAgree
<1>2. Spec => []Records
  BY RecordsInvariant
<1> QED
  BY <1>1, <1>2, PTL

\* Units are neither made nor lost.
THEOREM UnitsConservedHolds == ASSUME Plain PROVE Spec => []UnitsConserved
<1>1. Records => UnitsConserved
  <2> SUFFICES ASSUME Records PROVE UnitsConserved
    OBVIOUS
  <2>1. MapThenSumSet(LAMBDA x : count[x], Stacks) = MapThenSumSet(LAMBDA x : Amounts[x], DOMAIN Amounts)
    BY DEF Records, Total
  <2>2. \A x \in Stacks : count[x] \in 0..MaxStack /\ (Present(World, x) <=> count[x] > 0)
    BY DEF Records, Agree, AgreeBut, World
  <2> QED
    BY <2>1, <2>2 DEF UnitsConserved
<1>2. Spec => []Records
  BY RecordsInvariant
<1> QED
  BY <1>1, <1>2, PTL

\* What a command changes it marks; closing a container is left out.
THEOREM MarksCoverChangesHolds == ASSUME Plain, "close" \notin Ops PROVE Spec => MarksCoverChanges
<1>1. Records /\ [Next]_vars =>
        [/\ \A x \in Things : loc'[x] # loc[x] \/ carried'[x] # carried[x] => x \in marked'
         /\ \A x \in Stacks : count'[x] # count[x] => x \in marked'
         /\ \A b \in Bags : contents'[b] # contents[b] \/ open'[b] # open[b] => b \in marked'
         /\ \A p \in Players : slots'[p] # slots[p] => p \in marked']_vars
  <2> SUFFICES ASSUME Records, Next
               PROVE  /\ \A x \in Things : loc'[x] # loc[x] \/ carried'[x] # carried[x] => x \in marked'
                      /\ \A x \in Stacks : count'[x] # count[x] => x \in marked'
                      /\ \A b \in Bags : contents'[b] # contents[b] \/ open'[b] # open[b] => b \in marked'
                      /\ \A p \in Players : slots'[p] # slots[p] => p \in marked'
    OBVIOUS
  <2>1. OnlyIn(World', World, marked', marked')
    BY NextSound DEF Records, Sound
  <2>2. \A b \in Bags : open'[b] # open[b] => b \in marked'
    BY DEF Next, Take, Drop, Put, RemoveFrom, Wield, Wear, Open, Close, Records, Become
  <2> QED
    BY <2>1, <2>2 DEF OnlyIn, World
<1>2. Spec => []Records
  BY RecordsInvariant
<1> QED
  BY <1>1, <1>2, PTL DEF Spec, MarksCoverChanges

\* A command changes what one player possesses at the most.
THEOREM OneHolderChangesHolds == ASSUME Plain PROVE Spec => OneHolderChanges
<1>1. Records /\ [Next]_vars =>
        [\A p, r \in Players : p # r => Possession(p)' = Possession(p) \/ Possession(r)' = Possession(r)]_vars
  <2> SUFFICES ASSUME Records, Next, NEW p \in Players, NEW r \in Players, p # r
               PROVE  Possession(p)' = Possession(p) \/ Possession(r)' = Possession(r)
    OBVIOUS
  <2>1. PICK o \in Players : OthersKeep(World', World, o)
    BY NextSound DEF Records
  <2>2. ASSUME NEW q \in Players \ {o}
        PROVE  Possession(q)' = Possession(q)
    <3>1. Has(World', q) = Has(World, q)
      BY <2>1 DEF OthersKeep
    <3>2. Possession(q) = {x \in Things : x \in Has(World, q)}
      BY PossessesIs DEF Possession, Has
    <3>3. Possession(q)' = {x \in Things : x \in Has(World', q)}
      BY PossessesIs DEF Possession, Has
    <3> QED
      BY <3>1, <3>2, <3>3
  <2> QED
    BY <2>2
<1>2. Spec => []Records
  BY RecordsInvariant
<1> QED
  BY <1>1, <1>2, PTL DEF Spec, OneHolderChanges

\* The records agree, and no bag is in a bag.
FlatRecords == Records /\ Flat(World)

\* No bag comes into a bag where none is put into one.
LEMMA FlatInvariant == ASSUME Plain, "nest" \notin Ops PROVE Spec => []FlatRecords
<1>1. Init => Flat(World)
  <2> SUFFICES ASSUME Init PROVE Flat(World)
    OBVIOUS
  <2>1. \A b \in Bags : loc[b] = Room
    BY DEF Init, Things
  <2>2. Room \notin Bags
    BY MoveAssumption DEF Things
  <2> QED
    BY <2>1, <2>2 DEF Flat, World
<1>2. Records /\ Flat(World) /\ [Next]_vars => Flat(World)'
  <2> SUFFICES ASSUME Records, Flat(World), [Next]_vars PROVE Flat(World')
    BY DEF Flat
  <2>1. CASE Next
    <3>1. Dealt(World', World)
      BY <2>1, NextSound DEF Records
    <3>2. PICK x \in Things, dst \in Targets :
            /\ x \in Bags => dst.kind # "bag"
            /\ \E r \in {World.loc[x], dst.of}, u \in Nat : Passed(World', World, x, r, u)
      BY <3>1 DEF Dealt, Moved
    <3>3. dst.kind # "bag" => dst.of \notin Bags
      BY TargetKinds, MoveAssumption DEF Things
    <3> QED
      BY <3>2, <3>3 DEF Passed, Flat
  <2>2. CASE UNCHANGED vars
    BY <2>2 DEF vars, World, Flat
  <2> QED
    BY <2>1, <2>2
<1>3. Spec => []Records
  BY RecordsInvariant
<1> QED
  BY <1>1, <1>2, <1>3, PTL DEF Spec, FlatRecords

\* Nobody comes to carry more than they can, and no bag to hold more; no bag
\* is put into a bag, and the stacks, which merge, weigh the same.
THEOREM CarryLimitsHold == ASSUME Plain, "nest" \notin Ops, SameWeight PROVE Spec => CarryLimits
<1>1. FlatRecords /\ FlatRecords' /\ [Next]_vars =>
        [/\ \A p \in Players :
              MaxWeight[p] >= 0 /\ CarriedWeight(World, p)' > CarriedWeight(World, p) =>
                CarriedWeight(World, p)' <= EffectiveMaxWeight(World, p)'
         /\ \A b \in Bags :
              MaxWeight[b] >= 0 /\ ContentsWeight(World, b)' > ContentsWeight(World, b) =>
                ContentsWeight(World, b)' <= MaxWeight[b]]_vars
  <2> SUFFICES ASSUME FlatRecords, FlatRecords', Next
               PROVE  /\ \A p \in Players :
                           MaxWeight[p] >= 0 /\ CarriedWeight(World', p) > CarriedWeight(World, p) =>
                             CarriedWeight(World', p) <= EffectiveMaxWeight(World', p)
                      /\ \A b \in Bags :
                           MaxWeight[b] >= 0 /\ ContentsWeight(World', b) > ContentsWeight(World, b) =>
                             ContentsWeight(World', b) <= MaxWeight[b]
    OBVIOUS
  <2> DEFINE w == World
             v == World'
  <2>1. Agree(w) /\ Flat(w) /\ Agree(v) /\ Flat(v)
    BY DEF FlatRecords, Records
  <2>2. Dealt(v, w)
    BY NextSound DEF FlatRecords, Records
  <2> HIDE DEF w, v
  <2>3. PICK x \in Things, dst \in Targets, q \in Nat : w.loc[x] \in Holders /\ Moved(v, w, x, dst, q)
    BY <2>2 DEF Dealt
  <2>4. ASSUME NEW p \in Players, MaxWeight[p] >= 0, CarriedWeight(v, p) > CarriedWeight(w, p)
        PROVE  CarriedWeight(v, p) <= EffectiveMaxWeight(v, p)
    BY <2>1, <2>3, <2>4, CarriedBound
  <2>5. ASSUME NEW b \in Bags, MaxWeight[b] >= 0, ContentsWeight(v, b) > ContentsWeight(w, b)
        PROVE  ContentsWeight(v, b) <= MaxWeight[b]
    BY <2>1, <2>3, <2>5, ContentsBound
  <2> QED
    BY <2>4, <2>5 DEF w, v
<1>2. Spec => []FlatRecords
  BY FlatInvariant
<1> QED
  BY <1>1, <1>2, PTL DEF Spec, CarryLimits

(***************************************************************************)
(* What a word finds                                                       *)
(***************************************************************************)

OpenOnes == {b \in Bags : Present(World, b) /\ open[b]}
OpenIn == [b \in Bags |-> contents[b] \cap OpenOnes]

\* The walk down the open bags is a nest.
LEMMA OpenBagsIs == ASSUME NEW S PROVE OpenBags(S) = Contained(OpenIn, S \cap OpenOnes)
<1> DEFINE N == Cardinality(Bags)
           B == S \cap OpenOnes
           Step(h, n) == h[n - 1] \cup UNION {contents[b] \cap OpenOnes : b \in h[n - 1]}
           IsWalk(h) == h = [n \in 0..N |-> IF n = 0 THEN B ELSE Step(h, n)]
<1>0. N \in Nat /\ B \subseteq Bags /\ \A b \in Bags : OpenIn[b] = contents[b] \cap OpenOnes /\ OpenIn[b] \subseteq Bags
  BY BagsFinite DEF OpenOnes, OpenIn
<1>1. OpenBags(S) = (CHOOSE h : IsWalk(h))[N]
  BY DEF OpenBags, OpenOnes
<1>2. ASSUME NEW h, \A n \in 0..N : h[n] \subseteq Bags
      PROVE  IsNest(OpenIn, B, N, h) <=> IsWalk(h)
  <2> DEFINE F(T) == UNION {OpenIn[b] : b \in T \cap Bags}
             G(T) == UNION {contents[b] \cap OpenOnes : b \in T}
  <2>1. \A T : T \subseteq Bags => F(T) = G(T)
    BY <1>0
  <2>2. \A n \in 0..N : n # 0 => n - 1 \in 0..N
    BY <1>0
  <2>3. IsNest(OpenIn, B, N, h) <=> h = [n \in 0..N |-> IF n = 0 THEN B ELSE h[n - 1] \cup F(h[n - 1])]
    BY DEF IsNest
  <2>4. IsWalk(h) <=> h = [n \in 0..N |-> IF n = 0 THEN B ELSE h[n - 1] \cup G(h[n - 1])]
    OBVIOUS
  <2> HIDE DEF N, B, F, G, IsWalk
  <2>5. \A n \in 0..N : n # 0 => F(h[n - 1]) = G(h[n - 1])
    BY <1>2, <2>1, <2>2
  <2>6. [n \in 0..N |-> IF n = 0 THEN B ELSE h[n - 1] \cup F(h[n - 1])]
          = [n \in 0..N |-> IF n = 0 THEN B ELSE h[n - 1] \cup G(h[n - 1])]
    BY <2>5
  <2> QED
    BY <2>3, <2>4, <2>6
<1>3. ASSUME NEW h, IsNest(OpenIn, B, N, h) \/ IsWalk(h)
      PROVE  \A n \in 0..N : h[n] \subseteq Bags
  <2> DEFINE Bad == {n \in 0..N : ~(h[n] \subseteq Bags)}
  <2>1. SUFFICES ASSUME Bad # {} PROVE FALSE
    OBVIOUS
  <2>2. PICK n \in Bad : \A m \in Bad : n <= m
    <3>1. Bad \subseteq Nat
      OBVIOUS
    <3> HIDE DEF Bad
    <3> QED
      BY <2>1, <3>1, LeastNumber
  <2>3. n \in 0..N /\ ~(h[n] \subseteq Bags)
    OBVIOUS
  <2>4. n # 0 => n - 1 \in 0..N /\ n - 1 \notin Bad
    BY <1>0, <2>2, <2>3
  <2>5. n # 0 => h[n - 1] \subseteq Bags
    BY <2>4
  <2>6. CASE IsNest(OpenIn, B, N, h)
    <3>1. h[n] = IF n = 0 THEN B ELSE h[n - 1] \cup UNION {OpenIn[b] : b \in h[n - 1] \cap Bags}
      BY <2>3, <2>6 DEF IsNest
    <3> QED
      BY <1>0, <2>3, <2>5, <3>1
  <2>7. CASE IsWalk(h)
    <3>1. h[n] = IF n = 0 THEN B ELSE h[n - 1] \cup UNION {contents[b] \cap OpenOnes : b \in h[n - 1]}
      BY <2>3, <2>7
    <3>2. \A b : contents[b] \cap OpenOnes \subseteq Bags
      BY DEF OpenOnes
    <3> QED
      BY <1>0, <2>3, <2>5, <3>1, <3>2
  <2> QED
    BY <1>3, <2>6, <2>7
<1>4. ASSUME NEW h
      PROVE  IsNest(OpenIn, B, N, h) <=> IsWalk(h)
  <2> HIDE DEF IsWalk, B, N
  <2> QED
    BY <1>2, <1>3
<1> HIDE DEF IsWalk
<1>5. (CHOOSE h : IsWalk(h)) = (CHOOSE h : IsNest(OpenIn, B, N, h))
  BY <1>4
<1> QED
  BY <1>1, <1>5 DEF Contained

\* It comes by the open ones of S, and by the open ones in what it comes by.
LEMMA OpenBagsBy ==
    ASSUME Agree(World), NEW S
    PROVE  /\ OpenBags(S) \subseteq OpenOnes
           /\ S \cap OpenOnes \subseteq OpenBags(S)
           /\ \A b \in OpenBags(S) : contents[b] \cap OpenOnes \subseteq OpenBags(S)
           /\ \A b \in OpenBags(S) : b \in S \/ loc[b] \in OpenBags(S)
<1> DEFINE B == S \cap OpenOnes
           W == Contained(OpenIn, B)
<1>1. W = OpenBags(S)
  BY OpenBagsIs
<1>2. OpenOnes \subseteq Bags /\ \A b \in Bags : OpenIn[b] = contents[b] \cap OpenOnes
  BY DEF OpenOnes, OpenIn
<1>3. \A b \in Bags : \A x \in contents[b] : loc[x] = b
  BY DEF Agree, AgreeBut, WorldType, World
<1> DEFINE P == {b \in OpenOnes : b \in S \/ \E d \in W : loc[b] = d}
<1>4. W \subseteq OpenOnes
  <2>1. B \subseteq OpenOnes /\ \A b \in OpenOnes \cap Bags : OpenIn[b] \subseteq OpenOnes
    BY <1>2
  <2> HIDE DEF B
  <2> QED
    BY <2>1, ContainedLeast
<1>5. B \subseteq W
  BY ContainedBounds
<1>6. \A b \in W : contents[b] \cap OpenOnes \subseteq W
  <2>1. ASSUME NEW b \in W PROVE contents[b] \cap OpenOnes \subseteq W
    <3>1. b \in W \cap Bags
      BY <1>2, <1>4
    <3> QED
      BY <1>2, <3>1, ContainedClosed
  <2> QED
    BY <2>1
<1>7. \A b \in W : b \in S \/ loc[b] \in W
  <2>1. B \subseteq P /\ \A b \in P \cap W \cap Bags : OpenIn[b] \subseteq P
    BY <1>2, <1>3
  <2> DEFINE R == P \cap W
  <2>2. B \subseteq R /\ \A b \in R \cap Bags : OpenIn[b] \subseteq R
    BY <1>2, <1>5, <1>6, <2>1
  <2> HIDE DEF R, B
  <2>3. W \subseteq R
    BY <2>2, ContainedLeast
  <2> QED
    BY <2>3 DEF R
<1> QED
  BY <1>1, <1>4, <1>5, <1>6, <1>7

\* The open bags of a player are what the player has.
LEMMA OpenWorn ==
    ASSUME Agree(World), NEW p \in Players
    PROVE  OpenBags(Worn(World, p)) \subseteq Has(World, p)
<1> DEFINE B == Worn(World, p) \cap OpenOnes
           P == Has(World, p)
<1>1. B \subseteq P
  BY ContainedBounds DEF Has
<1>2. \A b \in P \cap Bags : OpenIn[b] \subseteq P
  <2>1. ASSUME NEW b \in P \cap Bags PROVE OpenIn[b] \subseteq P
    <3>1. World.contents[b] \subseteq P
      BY ContainedClosed DEF Has
    <3> QED
      BY <3>1 DEF OpenIn, World
  <2> QED
    BY <2>1
<1> HIDE DEF B, P
<1>3. Contained(OpenIn, B) \subseteq P
  BY <1>1, <1>2, ContainedLeast
<1> QED
  BY <1>3, OpenBagsIs DEF B, P

\* No bag is in two that are on the ground.
LEMMA OpenAlone ==
    ASSUME Agree(World), NEW b \in Bags, NEW d \in Bags, b # d, loc[b] = Room, loc[d] = Room
    PROVE  OpenBags({b}) \cap OpenBags({d}) = {}
<1> DEFINE B == {b} \cap OpenOnes
           P == OpenBags({b}) \ OpenBags({d})
<1>0. Room \notin Bags /\ OpenOnes \subseteq Bags
  BY MoveAssumption DEF Things, OpenOnes
<1>1. \A e \in Bags : \A x \in contents[e] : loc[x] = e
  BY DEF Agree, AgreeBut, WorldType, World
<1>2. /\ OpenBags({b}) \subseteq OpenOnes /\ OpenBags({d}) \subseteq OpenOnes
      /\ {b} \cap OpenOnes \subseteq OpenBags({b})
      /\ \A e \in OpenBags({b}) : contents[e] \cap OpenOnes \subseteq OpenBags({b})
      /\ \A e \in OpenBags({d}) : e = d \/ loc[e] \in OpenBags({d})
  BY OpenBagsBy
<1>3. B \subseteq P
  BY <1>0, <1>2
<1>4. ASSUME NEW e \in P \cap Bags
      PROVE  OpenIn[e] \subseteq P
  <2>1. ASSUME NEW x \in OpenIn[e], x \in OpenBags({d}) PROVE FALSE
    <3>1. loc[x] = e
      BY <1>1 DEF OpenIn
    <3> QED
      BY <1>0, <1>2, <2>1, <3>1
  <2> QED
    BY <1>2, <2>1 DEF OpenIn
<1> HIDE DEF B, P
<1>5. Contained(OpenIn, B) \subseteq P
  BY <1>3, <1>4, ContainedLeast
<1>6. OpenBags({b}) \subseteq P
  BY <1>5, OpenBagsIs DEF B
<1> QED
  BY <1>6 DEF P

\* What is accessible is on the ground or in an open bag down from there.
LEMMA AccessibleBy ==
    ASSUME Agree(World), NEW p \in Players, NEW x \in Things
    PROVE  Accessible(World, p, x) <=>
             x \in OnGround(p) \/ \E b \in OnGround(p) \cap Bags : loc[x] \in OpenBags({b})
<1> DEFINE B == Floor(World, p)
           c == OpenedIn(World)
           N == Contained(c, B)
           Q == {y \in Things : y \in B \/ \E b \in B \cap Bags : loc[y] \in OpenBags({b})}
<1>0. /\ OnGround(p) = B /\ OpenOnes \subseteq Bags /\ Bags \subseteq Things /\ B \subseteq Things
      /\ \A b \in Bags : World.loc[b] # Gone
  BY DEF OnGround, Floor, OpenOnes, Things, World, Agree, AgreeBut, Present
<1>1. /\ \A b \in Bags : b \in OpenOnes <=> open[b]
      /\ \A b \in Bags : \A y : y \in c[b] <=> y \in Things /\ loc[y] = b /\ open[b]
      /\ \A b \in Bags : \A y : y \in contents[b] <=> y \in Things /\ loc[y] = b
  BY <1>0 DEF OpenOnes, OpenedIn, Agree, AgreeBut, WorldType, World, Present
<1>2. Accessible(World, p, x) <=> x \in N
  BY AccessibleIs
<1>3. N \subseteq Q
  <2>1. B \subseteq Q
    BY <1>0
  <2>2. ASSUME NEW d \in Q \cap Bags PROVE c[d] \subseteq Q
    <3>1. SUFFICES ASSUME NEW y \in c[d] PROVE y \in Q
      OBVIOUS
    <3>2. y \in Things /\ loc[y] = d /\ d \in OpenOnes
      BY <1>1
    <3>3. CASE d \in B
      <4>1. d \in OpenBags({d})
        BY <3>2, OpenBagsBy
      <4> QED
        BY <3>2, <3>3, <4>1
    <3>4. CASE d \notin B
      <4>1. PICK b \in B \cap Bags : loc[d] \in OpenBags({b})
        BY <3>4
      <4>2. d \in contents[loc[d]]
        BY <1>0, <1>1, <4>1, OpenBagsBy
      <4>3. d \in OpenBags({b})
        BY <3>2, <4>1, <4>2, OpenBagsBy
      <4> QED
        BY <3>2, <4>1, <4>3
    <3> QED
      BY <3>3, <3>4
  <2> HIDE DEF Q, B, c
  <2> QED
    BY <2>1, <2>2, ContainedLeast
<1>4. ASSUME NEW b \in B \cap Bags PROVE OpenBags({b}) \subseteq N
  <2> DEFINE M == N \cap OpenOnes
             C == {b} \cap OpenOnes
  <2>1. B \subseteq N
    BY ContainedBounds
  <2>2. C \subseteq M
    BY <2>1
  <2>3. ASSUME NEW d \in M \cap Bags PROVE OpenIn[d] \subseteq M
    <3>1. c[d] \subseteq N
      BY ContainedClosed
    <3> QED
      BY <1>1, <3>1 DEF OpenIn
  <2> HIDE DEF M, C
  <2>4. Contained(OpenIn, C) \subseteq M
    BY <2>2, <2>3, ContainedLeast
  <2> QED
    BY <2>4, OpenBagsIs DEF C, M
<1>5. ASSUME NEW b \in B \cap Bags, loc[x] \in OpenBags({b}) PROVE x \in N
  <2>1. loc[x] \in N /\ loc[x] \in OpenOnes
    BY <1>4, <1>5, OpenBagsBy
  <2>2. x \in c[loc[x]] /\ loc[x] \in Bags
    BY <1>0, <1>1, <2>1
  <2>3. c[loc[x]] \subseteq N
    BY <2>1, <2>2, ContainedClosed
  <2> QED
    BY <2>2, <2>3
<1>6. x \in B => x \in N
  BY ContainedBounds
<1> QED
  BY <1>0, <1>2, <1>3, <1>5, <1>6

(***************************************************************************)
(* Matches                                                                 *)
(***************************************************************************)

\* No thing is come upon twice.
Once(M) == \A m, n \in M : m.id = n.id => m = n

\* What a lookup among X comes to.
Finds(r, X) ==
    \/ r = NotFound /\ X = {}
    \/ \E x \in X : r = Found(x)
    \/ r.is = "ambiguous" /\ Distinct(r) /\ X # {}

\* Matches that stand for things of X, each once, and are none only for none.
LEMMA SingleFinds ==
    ASSUME NEW M, Once(M), NEW X, X \subseteq Things, \A m \in M : m.id \in X, M = {} => X = {}
    PROVE  Finds(Single(M), X)
<1> DEFINE T == {m.id : m \in M}
           f == [m \in M |-> m.id]
<1>1. T \subseteq Things /\ IsFiniteSet(T)
  <2>1. T \subseteq Things
    OBVIOUS
  <2>2. IsFiniteSet(Things)
    BY MoveAssumption
  <2> HIDE DEF T
  <2> QED
    BY <2>1, <2>2, FS_Subset
<1>2. f \in Injection(M, T) /\ f \in Surjection(M, T)
  <2>1. f \in [M -> T]
    OBVIOUS
  <2>2. \A m, n \in M : f[m] = f[n] => m = n
    BY DEF Once
  <2>3. \A t \in T : \E m \in M : f[m] = t
    OBVIOUS
  <2> HIDE DEF f, T
  <2> QED
    BY <2>1, <2>2, <2>3 DEF Injection, Surjection, IsInjective
<1>3. IsFiniteSet(M) /\ Cardinality(M) = Cardinality(T)
  <2> HIDE DEF f, T
  <2> QED
    BY <1>1, <1>2, FS_Injection, FS_Surjection
<1>4. Cardinality(M) \in Nat /\ (Cardinality(M) = 0 <=> M = {})
  BY <1>3, FS_CardinalityType, FS_EmptySet
<1>8. Cardinality(M) = 1 <=> \E m : M = {m}
  BY <1>3, FS_Singleton
<1>5. CASE M = {}
  <2>1. Single(M) = NotFound
    BY <1>4, <1>5 DEF Single
  <2>2. X = {}
    BY <1>5
  <2> QED
    BY <2>1, <2>2 DEF Finds
<1>6. CASE Cardinality(M) = 1
  <2>1. PICK m : M = {m}
    BY <1>8, <1>6
  <2>2. Single(M) = Found(m.id)
    BY <1>4, <1>6, <2>1 DEF Single
  <2> QED
    BY <2>1, <2>2 DEF Finds
<1>7. CASE M # {} /\ Cardinality(M) # 1
  <2>1. Single(M) = Ambiguous(M)
    BY <1>7 DEF Single
  <2>2. Cardinality(T) > 1
    BY <1>3, <1>4, <1>7
  <2>3. Ambiguous(M).is = "ambiguous" /\ Ambiguous(M).among = M
    BY DEF Ambiguous
  <2>4. X # {}
    BY <1>7
  <2> QED
    BY <2>1, <2>2, <2>3, <2>4 DEF Finds, Distinct
<1> QED
  BY <1>5, <1>6, <1>7

\* What is found once is found.
LEMMA FindsKinds ==
    ASSUME NEW r, NEW X, Finds(r, X)
    PROVE  /\ r.is \in {"not found", "found", "ambiguous"}
           /\ r.is = "not found" => r = NotFound /\ X = {}
           /\ r.is = "found" => r.id \in X /\ r = Found(r.id)
           /\ r.is # "not found" => X # {}
           /\ Distinct(r)
<1>1. NotFound.is = "not found" /\ \A x : Found(x).is = "found" /\ Found(x).id = x
  BY DEF Found, NotFound
<1>2. CASE r = NotFound /\ X = {}
  BY <1>1, <1>2 DEF Distinct
<1>3. CASE \E x \in X : r = Found(x)
  <2>1. PICK x \in X : r = Found(x)
    BY <1>3
  <2>2. r.is = "found" /\ r.id = x
    BY <1>1, <2>1
  <2> QED
    BY <2>1, <2>2 DEF Distinct
<1>4. CASE r.is = "ambiguous" /\ Distinct(r) /\ X # {}
  BY <1>4
<1> QED
  BY <1>2, <1>3, <1>4 DEF Finds

\* The least of some numbers is one of them.
LEMMA MinIn == ASSUME NEW S, S \subseteq Nat, S # {} PROVE Min(S) \in S
BY LeastNumber DEF Min

\* The only tier there is.
LEMMA OneTier ==
    ASSUME NEW M
    PROVE  FirstTier(<<M, {}, {}>>) = Single(M) /\ FirstTier(<<{}, M, {}>>) = Single(M)
<1>1. Single({}) = NotFound
  <2>1. Cardinality({}) # 1
    BY FS_EmptySet
  <2> QED
    BY <2>1 DEF Single
<1>2. CASE M = {}
  BY <1>1, <1>2 DEF FirstTier
<1>3. CASE M # {}
  <2>1. /\ {i \in DOMAIN <<M, {}, {}>> : <<M, {}, {}>>[i] # {}} = {1}
        /\ {i \in DOMAIN <<{}, M, {}>> : <<{}, M, {}>>[i] # {}} = {2}
    BY <1>3
  <2>2. Min({1}) = 1 /\ Min({2}) = 2
    BY MinIn
  <2>3. FirstTier(<<M, {}, {}>>) = Single(M)
    BY <2>1, <2>2 DEF FirstTier
  <2>4. FirstTier(<<{}, M, {}>>) = Single(M)
    BY <2>1, <2>2 DEF FirstTier
  <2> QED
    BY <2>3, <2>4
<1> QED
  BY <1>2, <1>3

\* The first lookup that comes to anything.
LEMMA FirstFoundIs ==
    ASSUME NEW tried, DOMAIN tried \subseteq Nat
    PROVE  \/ FirstFound(tried) = NotFound /\ \A i \in DOMAIN tried : tried[i].is = "not found"
           \/ \E i \in DOMAIN tried : tried[i].is # "not found" /\ FirstFound(tried) = tried[i]
<1> DEFINE some == {i \in DOMAIN tried : tried[i].is # "not found"}
<1>1. FirstFound(tried) = IF some = {} THEN NotFound ELSE tried[Min(some)]
  BY DEF FirstFound
<1>2. some # {} => Min(some) \in some
  <2>1. some \subseteq Nat
    OBVIOUS
  <2> HIDE DEF some
  <2> QED
    BY <2>1, MinIn
<1> QED
  BY <1>1, <1>2

(***************************************************************************)
(* Lookups                                                                 *)
(***************************************************************************)

\* No name is an id or one of the words for oneself and the room, which are
\* understood before names are looked up.
NamesAreNames == Words \cap (Things \cup {"me", "here"}) = {} /\ Things \cap {"me", "here"} = {}

\* What a player may come upon by a name: nearby, and on themselves.
Near(p, n) == {x \in Things : Accessible(World, p, x) /\ NameMatches(n, x)}
Upon(p, n) == {x \in Things : NameMatches(n, x) /\ (x \in Worn(World, p) \/ loc[x] \in OpenBags(Worn(World, p)))}

\* What a name matches in the open bags of S is in one of them.
LEMMA MatchesIn ==
    ASSUME Agree(World), NEW S, NEW n, NEW m
    PROVE  m \in Inside(S, n) <=>
             \E x \in Things : NameMatches(n, x) /\ loc[x] \in OpenBags(S) /\ m = Match(x, loc[x])
<1>1. OpenBags(S) \subseteq Bags
  BY OpenBagsBy DEF OpenOnes
<1>2. \A b \in Bags : \A x : x \in contents[b] <=> x \in Things /\ loc[x] = b
  BY DEF Agree, AgreeBut, WorldType, World
<1>3. m \in Inside(S, n) <=> \E b \in OpenBags(S) : \E x \in contents[b] : NameMatches(n, x) /\ m = Match(x, b)
  BY DEF Inside
<1> QED
  BY <1>1, <1>2, <1>3

\* The matches in the room are what is near, each once.
LEMMA AroundIs ==
    ASSUME Agree(World), NEW p \in Players, NEW n
    PROVE  /\ Once(Around(p, n))
           /\ \A m \in Around(p, n) : m.id \in Near(p, n)
           /\ Around(p, n) = {} => Near(p, n) = {}
<1> DEFINE G == OnGround(p)
           From(x, b) == [id |-> x, in |-> loc[x], from |-> b]
           IsLow(m) == \E x \in G : NameMatches(n, x) /\ m = Match(x, Room)
           IsHigh(m) == \E b \in G \cap Bags, x \in Things :
                          NameMatches(n, x) /\ loc[x] \in OpenBags({b}) /\ m = From(x, b)
<1>0. /\ Room \notin Bags /\ G \subseteq Things /\ \A x \in G : loc[x] = Room
      /\ \A b \in G \cap Bags : OpenBags({b}) \subseteq Bags
  BY MoveAssumption, OpenBagsBy DEF Things, OnGround, OpenOnes
<1>1. ASSUME NEW m
      PROVE  m \in Around(p, n) <=> IsLow(m) \/ IsHigh(m)
  <2>1. m \in {Match(x, Room) : x \in {y \in G : NameMatches(n, y)}} <=> IsLow(m)
    OBVIOUS
  <2>2. ASSUME NEW b \in G \cap Bags
        PROVE  m \in {[id |-> k.id, in |-> k.in, from |-> b] : k \in Inside({b}, n)}
                 <=> \E x \in Things : NameMatches(n, x) /\ loc[x] \in OpenBags({b}) /\ m = From(x, b)
    <3>1. ASSUME NEW k
          PROVE  k \in Inside({b}, n) <=>
                   \E x \in Things : NameMatches(n, x) /\ loc[x] \in OpenBags({b}) /\ k = Match(x, loc[x])
      <4>1. \A S : k \in Inside(S, n) <=>
                   \E x \in Things : NameMatches(n, x) /\ loc[x] \in OpenBags(S) /\ k = Match(x, loc[x])
        BY MatchesIn
      <4> QED
        BY ONLY <4>1, Zenon
    <3>2. \A x : Match(x, loc[x]).id = x /\ Match(x, loc[x]).in = loc[x]
      BY DEF Match
    <3>3. ASSUME NEW k \in Inside({b}, n), m = [id |-> k.id, in |-> k.in, from |-> b]
          PROVE  \E x \in Things : NameMatches(n, x) /\ loc[x] \in OpenBags({b}) /\ m = From(x, b)
      <4>1. PICK x \in Things : NameMatches(n, x) /\ loc[x] \in OpenBags({b}) /\ k = Match(x, loc[x])
        BY <3>1, <3>3
      <4> QED
        BY <3>2, <3>3, <4>1
    <3>4. ASSUME NEW x \in Things, NameMatches(n, x), loc[x] \in OpenBags({b}), m = From(x, b)
          PROVE  \E k \in Inside({b}, n) : m = [id |-> k.id, in |-> k.in, from |-> b]
      <4>1. Match(x, loc[x]) \in Inside({b}, n)
        BY <3>1, <3>4
      <4> QED
        BY <3>2, <3>4, <4>1
    <3> HIDE DEF From
    <3>5. m \in {[id |-> k.id, in |-> k.in, from |-> b] : k \in Inside({b}, n)}
            <=> \E k \in Inside({b}, n) : m = [id |-> k.id, in |-> k.in, from |-> b]
      OBVIOUS
    <3> QED
      BY <3>3, <3>4, <3>5
  <2>3. m \in UNION {{[id |-> k.id, in |-> k.in, from |-> b] : k \in Inside({b}, n)} : b \in G \cap Bags}
          <=> \E b \in G \cap Bags : m \in {[id |-> k.id, in |-> k.in, from |-> b] : k \in Inside({b}, n)}
    OBVIOUS
  <2> QED
    BY <2>1, <2>2, <2>3 DEF Around
<1>2. /\ \A x, y : Match(x, y).id = x
      /\ \A x, b : From(x, b).id = x
  BY DEF Match
<1>3. ASSUME NEW m \in Around(p, n), NEW k \in Around(p, n), m.id = k.id
      PROVE  m = k
  <2>1. CASE IsLow(m) /\ IsLow(k)
    BY <1>2, <1>3, <2>1
  <2>2. CASE IsHigh(m) /\ IsHigh(k)
    <3>1. PICK b \in G \cap Bags, x \in Things : loc[x] \in OpenBags({b}) /\ m = From(x, b)
      BY <2>2
    <3>2. PICK d \in G \cap Bags, y \in Things : loc[y] \in OpenBags({d}) /\ k = From(y, d)
      BY <2>2
    <3>3. x = y
      BY <1>2, <1>3, <3>1, <3>2
    <3>4. b = d
      <4>1. loc[b] = Room /\ loc[d] = Room
        BY <1>0
      <4> QED
        BY <3>1, <3>2, <3>3, <4>1, OpenAlone
    <3> QED
      BY <3>1, <3>2, <3>3, <3>4
  <2>3. ASSUME NEW i, NEW j, IsLow(i), IsHigh(j), i.id = j.id
        PROVE  FALSE
    <3>1. PICK x \in G : i.id = x
      BY <1>2, <2>3
    <3>2. PICK b \in G \cap Bags, y \in Things : loc[y] \in OpenBags({b}) /\ j.id = y
      <4>1. PICK b \in G \cap Bags, y \in Things : loc[y] \in OpenBags({b}) /\ j = From(y, b)
        BY <2>3
      <4>2. j.id = y
        BY <1>2, <4>1
      <4> QED
        BY <4>1, <4>2
    <3> QED
      BY <1>0, <2>3, <3>1, <3>2
  <2>4. (IsLow(m) \/ IsHigh(m)) /\ (IsLow(k) \/ IsHigh(k))
    BY <1>1
  <2> HIDE DEF IsLow, IsHigh
  <2> QED
    BY <1>3, <2>1, <2>2, <2>3, <2>4
<1>4. ASSUME NEW x \in Things
      PROVE  x \in Near(p, n) <=> NameMatches(n, x) /\ (x \in G \/ \E b \in G \cap Bags : loc[x] \in OpenBags({b}))
  BY AccessibleBy DEF Near
<1>5. ASSUME NEW m \in Around(p, n)
      PROVE  m.id \in Near(p, n)
  <2>1. CASE IsLow(m)
    BY <1>0, <1>2, <1>4, <2>1
  <2>2. CASE IsHigh(m)
    BY <1>0, <1>2, <1>4, <2>2
  <2> QED
    BY <1>1, <2>1, <2>2
<1>6. ASSUME NEW x \in Near(p, n)
      PROVE  \E m : m \in Around(p, n)
  <2>0. x \in Things
    BY DEF Near
  <2>1. CASE x \in G
    <3>1. IsLow(Match(x, Room))
      BY <1>4, <2>0, <2>1
    <3> QED
      BY <1>1, <3>1
  <2>2. CASE x \notin G
    <3>1. PICK b \in G \cap Bags : loc[x] \in OpenBags({b})
      BY <1>4, <2>0, <2>2
    <3>2. IsHigh(From(x, b))
      BY <1>4, <2>0, <3>1
    <3> QED
      BY <1>1, <3>2
  <2> QED
    BY <2>1, <2>2
<1> QED
  BY <1>3, <1>5, <1>6 DEF Once

\* What a name comes to in the room.
LEMMA RoomFinds ==
    ASSUME Agree(World), NamesAreNames, NEW p \in Players, NEW n \in Words, NEW own
    PROVE  Finds(ResolveObject(p, n, "room", own), Near(p, n))
<1> DEFINE M == RoomMatches(p, n, own)
<1>1. ResolveObject(p, n, "room", own) = ByName(p, n, "room", own)
  BY DEF ResolveObject, NamesAreNames
<1>2. ByName(p, n, "room", own) = FirstTier(<<{}, M, {}>>)
  BY DEF ByName
<1>3. M \subseteq Around(p, n) /\ (M = {} => Around(p, n) = {})
  BY DEF RoomMatches, OwnFirst, OrElse
<1> HIDE DEF M
<1>4. Once(M) /\ (\A m \in M : m.id \in Near(p, n)) /\ (M = {} => Near(p, n) = {})
  BY <1>3, AroundIs DEF Once
<1>5. Near(p, n) \subseteq Things
  BY DEF Near
<1>6. Finds(Single(M), Near(p, n))
  BY <1>4, <1>5, SingleFinds
<1> QED
  BY <1>1, <1>2, <1>6, OneTier

\* What a name comes to in the possession of a player.
LEMMA CarriedFinds ==
    ASSUME Agree(World), NamesAreNames, NEW p \in Players, NEW n \in Words, NEW own
    PROVE  Finds(ResolveObject(p, n, "possession", own), Upon(p, n))
<1> DEFINE M == PossessionMatches(p, n)
<1>1. ResolveObject(p, n, "possession", own) = ByName(p, n, "possession", own)
  BY DEF ResolveObject, NamesAreNames
<1>2. ByName(p, n, "possession", own) = FirstTier(<<M, {}, {}>>)
  BY DEF ByName
<1>3. \A m : m \in Immediate(p, n) <=> \E x \in Worn(World, p) : NameMatches(n, x) /\ m = Match(x, p)
  BY DEF Immediate
<1>4. \A m : m \in Nested(p, n) <=>
         \E x \in Things : NameMatches(n, x) /\ loc[x] \in OpenBags(Worn(World, p)) /\ m = Match(x, loc[x])
  BY MatchesIn DEF Nested
<1>5. M = IF Immediate(p, n) # {} THEN Immediate(p, n) ELSE Nested(p, n)
  BY DEF PossessionMatches, OrElse
<1>6. \A x, y : Match(x, y).id = x
  BY DEF Match
<1>7. Worn(World, p) \subseteq Things
  BY WornThings DEF Agree, AgreeBut
<1> HIDE DEF M
<1>8. Once(M)
  <2>1. Once(Immediate(p, n))
    BY <1>3, <1>6 DEF Once
  <2>2. Once(Nested(p, n))
    BY <1>4, <1>6 DEF Once
  <2> QED
    BY <1>5, <2>1, <2>2
<1>9. \A m \in M : m.id \in Upon(p, n)
  BY <1>3, <1>4, <1>5, <1>6, <1>7 DEF Upon
<1>10. M = {} => Upon(p, n) = {}
  BY <1>3, <1>4, <1>5 DEF Upon
<1>11. Upon(p, n) \subseteq Things
  BY DEF Upon
<1>12. Finds(Single(M), Upon(p, n))
  BY <1>8, <1>9, <1>10, <1>11, SingleFinds
<1> QED
  BY <1>1, <1>2, <1>12, OneTier

\* The variants of a word are words; an id has none.
LEMMA VariantsAre ==
    /\ \A word \in Words : LookupVariants(word) \in Seq(Words)
    /\ \A word : word \notin Words => LookupVariants(word) = <<word>>
<1>1. ASSUME NEW word \in Words
      PROVE  LookupVariants(word) \in Seq(Words)
  <2>1. Singular[word] \in Words /\ Plural[word] \in Words
    BY NamesAssumption
  <2> DEFINE s == IF Singular[word] # word THEN <<Singular[word]>> ELSE <<>>
             t == IF Plural[word] \notin {word, Singular[word]} THEN <<Plural[word]>> ELSE <<>>
  <2>2. s \in Seq(Words) /\ t \in Seq(Words) /\ <<word>> \in Seq(Words)
    BY <2>1
  <2> HIDE DEF s, t
  <2>3. <<word>> \o s \o t \in Seq(Words)
    BY <2>2
  <2> QED
    BY <2>3 DEF LookupVariants, s, t
<1>2. \A word : word \notin Words => LookupVariants(word) = <<word>>
  BY DEF LookupVariants
<1> QED
  BY <1>1, <1>2

\* What answers to a word is called by one of its variants.
LEMMA AnswersAre ==
    ASSUME NEW word \in Words, NEW x
    PROVE  LET names == LookupVariants(word) IN
             /\ x \in Answers(word) <=> x \in Things /\ \E i \in DOMAIN names : NameMatches(names[i], x)
             /\ DOMAIN names \subseteq Nat /\ \A i \in DOMAIN names : names[i] \in Words
<1> DEFINE names == LookupVariants(word)
<1>1. names \in Seq(Words)
  BY VariantsAre
<1> HIDE DEF names
<1>2. ToSet(names) = {names[i] : i \in DOMAIN names}
  BY DEF ToSet
<1>3. DOMAIN names \subseteq Nat /\ \A i \in DOMAIN names : names[i] \in Words
  BY <1>1
<1>4. x \in Answers(word) <=> x \in Things /\ \E i \in DOMAIN names : NameMatches(names[i], x)
  BY <1>2 DEF Answers, NameMatches, names
<1> QED
  BY <1>3, <1>4 DEF names

\* An id finds the thing where it is in scope.
LEMMA IdFinds ==
    ASSUME NamesAreNames, NEW p, NEW x \in Things, NEW scope, InScope(p, x, scope), NEW own
    PROVE  ResolveObject(p, x, scope, own) = Found(x) /\ LookupVariants(x) = <<x>>
<1>1. x \notin Words /\ x # "me" /\ x # "here"
  BY DEF NamesAreNames
<1> QED
  BY <1>1, VariantsAre DEF ResolveObject, ById

\* One lookup that finds.
LEMMA FirstOfOne ==
    ASSUME NEW x, NEW tried, tried = [i \in {1} |-> Found(x)]
    PROVE  FirstFound(tried) = Found(x)
<1>1. DOMAIN tried = {1} /\ tried[1] = Found(x)
  OBVIOUS
<1>2. Found(x).is = "found"
  BY DEF Found
<1>3. \E i \in DOMAIN tried : tried[i].is # "not found"
  <2>1. tried[1].is # "not found"
    BY ONLY <1>1, <1>2
  <2> QED
    BY ONLY <1>1, <2>1
<1>4. DOMAIN tried \subseteq Nat
  BY ONLY <1>1
<1>5. \E i \in DOMAIN tried : FirstFound(tried) = tried[i]
  BY ONLY <1>3, <1>4, FirstFoundIs
<1> QED
  BY ONLY <1>1, <1>5

\* What take finds is there for the taking.
LEMMA TakeFindsIt ==
    ASSUME Agree(World), NamesAreNames, NEW p \in Players, NEW word \in Words, NEW own
    PROVE  TakeFinds(p, word, own, ResolveGroundItem(p, word, own))
<1> DEFINE names == LookupVariants(word)
           r == ResolveGroundItem(p, word, own)
           near == {x \in Answers(word) : Accessible(World, p, x)}
           tried == [i \in DOMAIN names |-> ResolveObject(p, names[i], "room", own)]
           Held1 == ~VisibleOnGround(p, word, own) /\ CarriedByPlayer(p, word, own)
<1>1. /\ DOMAIN names \subseteq Nat /\ \A i \in DOMAIN names : names[i] \in Words
      /\ \A x : x \in Answers(word) <=> x \in Things /\ \E i \in DOMAIN names : NameMatches(names[i], x)
  BY AnswersAre
<1>2. r = IF Held1 THEN [is |-> "holding"] ELSE FirstFound(tried)
  BY DEF ResolveGroundItem
<1>3. \A i \in DOMAIN names : Finds(tried[i], Near(p, names[i]))
  BY <1>1, RoomFinds
<1>4. /\ \A x : x \in near <=> x \in Things /\ \E i \in DOMAIN names : x \in Near(p, names[i])
      /\ DOMAIN tried = DOMAIN names
  BY <1>1 DEF Near
<1> HIDE DEF names, tried, near
<1>5. ASSUME Held1
      PROVE  r.is = "holding" /\ \E x \in Answers(word) : Possesses(World, p, x)
  <2>1. ResolveObject(p, word, "possession", own).is = "found"
    BY <1>5 DEF CarriedByPlayer
  <2>2. PICK x : x \in Upon(p, word)
    BY <2>1, CarriedFinds, FindsKinds
  <2>3. x \in Things /\ NameMatches(word, x)
    BY <2>2 DEF Upon
  <2>4. x \in Has(World, p)
    <3>1. CASE x \in Worn(World, p)
      BY <3>1, ContainedBounds DEF Has
    <3>2. CASE x \notin Worn(World, p)
      <4>1. World.loc[x] \in Has(World, p) \cap Bags
        BY <2>2, <3>2, OpenWorn, OpenBagsBy DEF Upon, OpenOnes, World
      <4> QED
        BY <2>3, <4>1, HasBy
    <3> QED
      BY <3>1, <3>2
  <2>5. x \in Answers(word)
    <3>1. names[1] = word /\ 1 \in DOMAIN names
      <4> DEFINE s == IF Singular[word] # word THEN <<Singular[word]>> ELSE <<>>
                 t == IF Plural[word] \notin {word, Singular[word]} THEN <<Plural[word]>> ELSE <<>>
      <4>1. s \in Seq(Words) /\ t \in Seq(Words) /\ <<word>> \in Seq(Words)
        BY NamesAssumption
      <4>2. names = <<word>> \o s \o t
        BY DEF names, LookupVariants
      <4> HIDE DEF s, t
      <4> QED
        BY <4>1, <4>2
    <3> QED
      BY <1>1, <2>3, <3>1
  <2> QED
    BY <1>2, <1>5, <2>4, <2>5, PossessesIs DEF Has
<1>6. ASSUME ~Held1
      PROVE  \/ r = NotFound /\ near = {}
             \/ \E i \in DOMAIN names : r.is # "not found" /\ r = tried[i]
  <2>1. DOMAIN tried \subseteq Nat
    BY <1>1, <1>4
  <2>2. r = FirstFound(tried)
    BY <1>2, <1>6
  <2>3. (\A i \in DOMAIN names : tried[i].is = "not found") => near = {}
    <3>1. \A i \in DOMAIN names : tried[i].is = "not found" => Near(p, names[i]) = {}
      BY <1>3, FindsKinds
    <3> QED
      BY <1>4, <3>1
  <2> HIDE DEF r
  <2> QED
    BY <1>4, <2>1, <2>2, <2>3, FirstFoundIs
<1> HIDE DEF r, Held1
<1>7. r.is = "not found" => near = {}
  <2>1. [is |-> "holding"].is # "not found"
    OBVIOUS
  <2> QED
    BY <1>5, <1>6
<1>8. r.is = "holding" => \E x \in Answers(word) : Possesses(World, p, x)
  <2>1. \A i \in DOMAIN names : tried[i].is # "holding"
    BY <1>3, FindsKinds
  <2>2. NotFound.is # "holding"
    BY DEF NotFound
  <2> QED
    BY <1>5, <1>6, <2>1, <2>2
<1>9. Distinct(r)
  <2>1. \A i \in DOMAIN names : Distinct(tried[i])
    BY <1>3, FindsKinds
  <2>2. Distinct(NotFound) /\ (r.is = "holding" => Distinct(r))
    BY DEF Distinct, NotFound
  <2> QED
    BY <1>5, <1>6, <2>1, <2>2
<1>10. ASSUME r.is = "found"
       PROVE  /\ r.id \in near /\ ~Possesses(World, p, r.id)
              /\ Resolved(World, r.id).kind \in {"room", "bag"}
              /\ ResolveGroundItem(p, r.id, own) = r
  <2>1. PICK i \in DOMAIN names : r = tried[i]
    <3>1. NotFound.is # "found"
      BY DEF NotFound
    <3> QED
      BY <1>5, <1>6, <1>10, <3>1
  <2>2. r.id \in Near(p, names[i]) /\ r = Found(r.id)
    BY <1>3, <1>10, <2>1, FindsKinds
  <2> DEFINE x == r.id
  <2>3. x \in near /\ x \in Things /\ Accessible(World, p, x) /\ Present(World, x)
    BY <1>4, <2>2 DEF Near, NameMatches
  <2>4. r = Found(x)
    BY <2>2
  <2> HIDE DEF x
  <2>5. x \notin Has(World, p) /\ World.loc[x] \in Bags \cup {Room}
    BY <2>3, AccessibleLoc
  <2>6. ~Possesses(World, p, x)
    BY <2>5, PossessesIs DEF Has
  <2>7. Resolved(World, x).kind \in {"room", "bag"}
    <3>1. Room \notin Bags /\ Room \notin Players /\ Players \cap Bags = {}
      BY MoveAssumption DEF Things
    <3>2. CASE World.loc[x] \in Bags
      <4>1. x \in World.contents[World.loc[x]]
        BY <2>3, <3>2 DEF Agree, AgreeBut
      <4>2. Resolved(World, x) = InBag(World.loc[x])
        BY <3>1, <3>2, <4>1 DEF Resolved
      <4> QED
        BY <4>2 DEF InBag
    <3>3. CASE World.loc[x] = Room
      <4>1. Resolved(World, x) = InRoom(Room)
        BY <3>1, <3>3 DEF Resolved
      <4> QED
        BY <4>1 DEF InRoom
    <3> QED
      BY <2>5, <3>2, <3>3
  <2>8. ResolveGroundItem(p, x, own) = Found(x)
    <3>1. InScope(p, x, "room")
      BY <2>3 DEF InScope
    <3>2. ResolveObject(p, x, "room", own) = Found(x) /\ LookupVariants(x) = <<x>>
      BY <2>3, <3>1, IdFinds
    <3>3. VisibleOnGround(p, x, own)
      <4>1. Found(x).is = "found"
        BY DEF Found
      <4> QED
        BY <3>2, <4>1 DEF VisibleOnGround
    <3> DEFINE them == [j \in DOMAIN LookupVariants(x) |-> ResolveObject(p, LookupVariants(x)[j], "room", own)]
    <3>4. ResolveGroundItem(p, x, own) = FirstFound(them)
      BY <3>3 DEF ResolveGroundItem
    <3>5. them = [j \in {1} |-> Found(x)]
      BY <3>2
    <3> HIDE DEF them
    <3> QED
      BY <3>4, <3>5, FirstOfOne
  <2> QED
    BY <2>3, <2>4, <2>6, <2>7, <2>8 DEF x
<1> QED
  BY <1>7, <1>8, <1>9, <1>10 DEF TakeFinds, near, r

\* What drop and put find is the player's.
LEMMA DropFindsIt ==
    ASSUME Agree(World), NamesAreNames, NEW p \in Players, NEW word \in Words, NEW own
    PROVE  DropFinds(p, word, own, ResolveCarriedItem(p, word, own))
<1> DEFINE names == LookupVariants(word)
           r == ResolveCarriedItem(p, word, own)
           reach == {x \in Answers(word) : x \in Worn(World, p) \/ \E b \in OpenBags(Worn(World, p)) : loc[x] = b}
           Carry(n) == ResolveObject(p, n, "possession", own)
           tried == [i \in DOMAIN names |-> CarriedOr(Carry(names[i]), p, names[i], own)]
<1>1. /\ DOMAIN names \subseteq Nat /\ \A i \in DOMAIN names : names[i] \in Words
      /\ \A x : x \in Answers(word) <=> x \in Things /\ \E i \in DOMAIN names : NameMatches(names[i], x)
  BY AnswersAre
<1>2. r = FirstFound(tried)
  BY DEF ResolveCarriedItem
<1>3. ASSUME NEW i \in DOMAIN names
      PROVE  \/ Finds(tried[i], Upon(p, names[i]))
             \/ tried[i].is = "on ground" /\ \E x : x \in Near(p, names[i])
  <2>1. Finds(Carry(names[i]), Upon(p, names[i]))
    BY <1>1, CarriedFinds
  <2>2. Finds(ResolveObject(p, names[i], "room", own), Near(p, names[i]))
    BY <1>1, RoomFinds
  <2>3. CASE Carry(names[i]) = NotFound /\ VisibleOnGround(p, names[i], own)
    <3>1. \E x : x \in Near(p, names[i])
      <4>1. ResolveObject(p, names[i], "room", own).is # "not found"
        BY <2>3 DEF VisibleOnGround
      <4>2. Near(p, names[i]) # {}
        BY <2>2, <4>1, FindsKinds
      <4> QED
        BY <4>2
    <3>2. tried[i] = [is |-> "on ground"]
      BY <2>3 DEF CarriedOr
    <3> HIDE DEF tried
    <3>3. tried[i].is = "on ground"
      <4>1. [is |-> "on ground"].is = "on ground"
        OBVIOUS
      <4> QED
        BY ONLY <3>2, <4>1, Zenon
    <3> QED
      BY <3>1, <3>3
  <2>4. CASE ~(Carry(names[i]) = NotFound /\ VisibleOnGround(p, names[i], own))
    <3>1. tried[i] = Carry(names[i])
      BY <2>4 DEF CarriedOr
    <3> QED
      BY <2>1, <3>1
  <2> QED
    BY <2>3, <2>4
<1>4. /\ \A x : x \in reach <=> x \in Things /\ \E i \in DOMAIN names : x \in Upon(p, names[i])
      /\ DOMAIN tried = DOMAIN names
  BY <1>1 DEF Upon
<1> HIDE DEF names, tried, reach, Carry
<1>6. \/ r = NotFound /\ reach = {}
      \/ \E i \in DOMAIN names : r.is # "not found" /\ r = tried[i]
  <2>1. DOMAIN tried \subseteq Nat
    BY <1>1, <1>4
  <2>3. (\A i \in DOMAIN names : tried[i].is = "not found") => reach = {}
    <3>1. \A i \in DOMAIN names : tried[i].is = "not found" => Upon(p, names[i]) = {}
      BY <1>3, FindsKinds
    <3> QED
      BY <1>4, <3>1
  <2> HIDE DEF r
  <2> QED
    BY <1>2, <1>4, <2>1, <2>3, FirstFoundIs
<1> HIDE DEF r
<1>7. r.is = "not found" => reach = {}
  BY <1>6
<1>8. ASSUME r.is = "on ground"
      PROVE  \E x \in Answers(word) : Accessible(World, p, x)
  <2>1. NotFound.is # "on ground"
    BY DEF NotFound
  <2>2. PICK i \in DOMAIN names : r = tried[i]
    BY <1>6, <1>8, <2>1
  <2>3. ~Finds(tried[i], Upon(p, names[i]))
    BY <1>8, <2>2, FindsKinds
  <2>4. PICK x : x \in Near(p, names[i])
    BY <1>3, <2>3
  <2> QED
    BY <1>1, <2>4 DEF Near
<1>9. Distinct(r)
  <2>1. \A i \in DOMAIN names : Distinct(tried[i])
    <3>1. \A i \in DOMAIN names : tried[i].is = "on ground" => Distinct(tried[i])
      BY DEF Distinct
    <3> QED
      BY <1>3, <3>1, FindsKinds
  <2>2. Distinct(NotFound)
    BY DEF Distinct, NotFound
  <2> QED
    BY <1>6, <2>1, <2>2
<1>10. ASSUME r.is = "found"
       PROVE  /\ r.id \in reach
              /\ \A o \in Players \ {p} : ~Possesses(World, o, r.id)
              /\ ResolveCarriedItem(p, r.id, own) = r
  <2>1. PICK i \in DOMAIN names : r = tried[i]
    <3>1. NotFound.is # "found"
      BY DEF NotFound
    <3> QED
      BY <1>6, <1>10, <3>1
  <2>2. r.id \in Upon(p, names[i]) /\ r = Found(r.id)
    BY <1>3, <1>10, <2>1, FindsKinds
  <2> DEFINE x == r.id
  <2>3. x \in reach /\ x \in Upon(p, names[i])
    BY <1>4, <2>2 DEF Upon
  <2>4. r = Found(x)
    BY <2>2
  <2> HIDE DEF x
  <2>5. x \in Things /\ Present(World, x)
    BY <2>3 DEF Upon, NameMatches
  <2>6. x \in Has(World, p)
    <3>1. CASE x \in Worn(World, p)
      BY <3>1, ContainedBounds DEF Has
    <3>2. CASE x \notin Worn(World, p)
      <4>1. World.loc[x] \in Has(World, p) \cap Bags
        BY <2>3, <3>2, OpenWorn, OpenBagsBy DEF Upon, OpenOnes, World
      <4> QED
        BY <2>5, <4>1, HasBy
    <3> QED
      BY <3>1, <3>2
  <2>7. \A o \in Players \ {p} : ~Possesses(World, o, x)
    BY <2>6, HasAlone, PossessesIs DEF Has
  <2>8. ResolveCarriedItem(p, x, own) = Found(x)
    <3>1. InScope(p, x, "possession")
      BY <2>5, <2>6, PossessesIs DEF InScope, Has
    <3>2. ResolveObject(p, x, "possession", own) = Found(x) /\ LookupVariants(x) = <<x>>
      BY <2>5, <3>1, IdFinds
    <3>3. CarriedOr(Found(x), p, x, own) = Found(x)
      BY DEF CarriedOr, Found, NotFound
    <3> DEFINE them == [j \in DOMAIN LookupVariants(x) |->
                          CarriedOr(ResolveObject(p, LookupVariants(x)[j], "possession", own),
                                    p, LookupVariants(x)[j], own)]
    <3>4. ResolveCarriedItem(p, x, own) = FirstFound(them)
      BY DEF ResolveCarriedItem
    <3>5. them = [j \in {1} |-> Found(x)]
      BY <3>2, <3>3
    <3> HIDE DEF them
    <3> QED
      BY <3>4, <3>5, FirstOfOne
  <2> QED
    BY <2>3, <2>4, <2>7, <2>8 DEF x
<1> QED
  BY <1>7, <1>8, <1>9, <1>10 DEF DropFinds, reach, r

\* What is found by a word, and what may be done with it, never disagree.
THEOREM NamesReachHolds == ASSUME Plain, NamesAreNames PROVE Spec => []NamesReach
<1>1. Records => NamesReach
  BY TakeFindsIt, DropFindsIt DEF Records, NamesReach
<1>2. Spec => []Records
  BY RecordsInvariant
<1> QED
  BY <1>1, <1>2, PTL
==============================================================================
