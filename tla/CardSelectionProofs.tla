------------------------ MODULE CardSelectionProofs ------------------------
(***************************************************************************)
(* What the operators of CardSelection return, for every sequence of cards *)
(* and every budget: the comment plan has the most important cards, one of *)
(* a key (PlanIsBest), and a cap keeps the best card of every file it has  *)
(* room for and then the best of the rest (SpreadKeepsTheBest).            *)
(*                                                                         *)
(* Induction over positions is the fact that a set of numbers has a least  *)
(* member (Least, Climb).  Sorting is by rank: the number of members that  *)
(* come before one is a bijection onto the positions, so Sorted returns    *)
(* every member once and in the order of the keys (SortedProperties).  A   *)
(* fold has the value that its steps lead to, one position after the other *)
(* (FoldTrace): the library defines it by a recursion over sets of         *)
(* positions, which has a solution (SetRecursion) and whose every solution *)
(* follows the steps.  ConsiderTrace and SwappedTrace apply that to the    *)
(* two folds of the model; the rest is an invariant along their steps.     *)
(***************************************************************************)
EXTENDS CardSelection, FiniteSetTheorems, FunctionTheorems, SequenceTheorems,
        WellFoundedInduction, TLAPS

-----------------------------------------------------------------------------
(* Induction, as a fact about sets of numbers.                             *)

\* A set of numbers that is not empty has a least member.
LEMMA Least ==
  ASSUME NEW T \in SUBSET Nat, T # {}
  PROVE  \E x \in T : \A y \in T : x <= y
<1> DEFINE R == OpToRel(<, Nat)
<1>1. IsWellFoundedOn(R, Nat)
  BY NatLessThanWellFounded
<1>2. \A x, y \in Nat : y < x => <<y, x>> \in R
  BY DEF OpToRel
<1> HIDE DEF R
<1>3. PICK x \in T : \A y \in T : ~(<<y, x>> \in R)
  BY <1>1, WFMin
<1>4. \A y \in T : ~(y < x)
  BY <1>2, <1>3
<1>5. \A y \in T : x <= y
  BY <1>4, SMT
<1> QED BY <1>5

\* Whatever holds of 0 and, up to last, of the next number holds up to last.
LEMMA Climb ==
  ASSUME NEW last \in Nat, NEW S, 0 \in S, \A n \in 0..(last - 1) : n \in S => n + 1 \in S
  PROVE  0..last \subseteq S
<1> DEFINE T == (0..last) \ S
<1> SUFFICES ASSUME T # {} PROVE FALSE
  OBVIOUS
<1>1. PICK x \in T : \A y \in T : x <= y
  <2>1. T \in SUBSET Nat
    OBVIOUS
  <2> HIDE DEF T
  <2> QED BY <2>1, Least
<1>2. x # 0 /\ x \in Nat /\ x <= last
  OBVIOUS
<1>3. x - 1 \in 0..(last - 1)
  BY <1>2
<1>4. x - 1 \in S
  BY <1>1, <1>2, <1>3
<1>5. (x - 1) + 1 \in S
  BY <1>3, <1>4
<1> QED BY <1>2, <1>5

-----------------------------------------------------------------------------
(* The order of tuples.                                                    *)

Tuple(n) == {t \in Seq(Int) : Len(t) = n}

\* The order of tuples is a strict linear order: no tuple is before itself,
LEMMA BeforeIrreflexive ==
  ASSUME NEW n \in Nat, NEW s \in Tuple(n)
  PROVE  ~Before(s, s)
BY DEF Before, Tuple

\* it is transitive,
LEMMA BeforeTransitive ==
  ASSUME NEW n \in Nat, NEW s \in Tuple(n), NEW t \in Tuple(n), NEW u \in Tuple(n),
         Before(s, t), Before(t, u)
  PROVE  Before(s, u)
<1>0. DOMAIN s = 1..n /\ DOMAIN t = 1..n /\ DOMAIN u = 1..n
  BY DEF Tuple
<1>1. \A i \in 1..n : s[i] \in Int /\ t[i] \in Int /\ u[i] \in Int
  BY DEF Tuple
<1>2. PICK i \in 1..n : s[i] < t[i] /\ \A j \in 1..(i - 1) : s[j] = t[j]
  BY <1>0 DEF Before
<1>3. PICK k \in 1..n : t[k] < u[k] /\ \A j \in 1..(k - 1) : t[j] = u[j]
  BY <1>0 DEF Before
<1>4. CASE i < k
  <2>1. s[i] < u[i] /\ \A j \in 1..(i - 1) : s[j] = u[j]
    BY <1>1, <1>2, <1>3, <1>4
  <2> QED BY <1>0, <2>1 DEF Before
<1>5. CASE i >= k
  <2>1. s[k] < u[k] /\ \A j \in 1..(k - 1) : s[j] = u[j]
    BY <1>1, <1>2, <1>3, <1>5
  <2> QED BY <1>0, <2>1 DEF Before
<1> QED BY <1>4, <1>5

\* and of two tuples one comes first.
LEMMA BeforeTotal ==
  ASSUME NEW n \in Nat, NEW s \in Tuple(n), NEW t \in Tuple(n), s # t
  PROVE  Before(s, t) \/ Before(t, s)
<1> DEFINE T == {i \in 1..n : s[i] # t[i]}
<1>0. DOMAIN s = 1..n /\ DOMAIN t = 1..n /\ \A i \in 1..n : s[i] \in Int /\ t[i] \in Int
  BY DEF Tuple
<1>1. T # {}
  BY SeqEqual DEF Tuple
<1>2. PICK i \in T : \A j \in T : i <= j
  <2>1. T \in SUBSET Nat
    OBVIOUS
  <2> HIDE DEF T
  <2> QED BY <1>1, <2>1, Least
<1>3. \A j \in 1..(i - 1) : s[j] = t[j]
  BY <1>2
<1>4. s[i] < t[i] \/ t[i] < s[i]
  BY <1>0
<1> QED BY <1>0, <1>3, <1>4 DEF Before

-----------------------------------------------------------------------------
(* Sorting.                                                                *)

\* The keys tell the members of a finite set apart.
Linear(S, key) ==
  /\ IsFiniteSet(S)
  /\ \E n \in Nat : \A i \in S : key[i] \in Tuple(n)
  /\ \A i, j \in S : key[i] = key[j] => i = j

\* So it orders the members of a set by their keys.
LEMMA LinearOrder ==
  ASSUME NEW S, NEW key, Linear(S, key)
  PROVE  /\ \A i \in S : ~Before(key[i], key[i])
         /\ \A i, j \in S : i # j => Before(key[i], key[j]) \/ Before(key[j], key[i])
         /\ \A i, j, k \in S : Before(key[i], key[j]) /\ Before(key[j], key[k])
                                  => Before(key[i], key[k])
         /\ \A i, j \in S : ~(Before(key[i], key[j]) /\ Before(key[j], key[i]))
<1>1. PICK n \in Nat : \A i \in S : key[i] \in Tuple(n)
  BY DEF Linear
<1>2. \A i \in S : ~Before(key[i], key[i])
  BY <1>1, BeforeIrreflexive
<1>3. \A i, j \in S : i # j => Before(key[i], key[j]) \/ Before(key[j], key[i])
  BY <1>1, BeforeTotal DEF Linear
<1>4. \A i, j, k \in S : Before(key[i], key[j]) /\ Before(key[j], key[k])
                            => Before(key[i], key[k])
  BY <1>1, BeforeTransitive
<1> QED BY <1>2, <1>3, <1>4

\* A rank is a position, counted from 0,
LEMMA RankBounds ==
  ASSUME NEW S, NEW key, Linear(S, key), NEW i \in S
  PROVE  Rank(S, key, i) \in 0..(Cardinality(S) - 1)
<1> DEFINE T == {j \in S : Before(key[j], key[i])}
<1>1. i \notin T
  BY LinearOrder
<1>2. IsFiniteSet(S)
  BY DEF Linear
<1>3. T \in SUBSET S /\ T # S
  BY <1>1
<1>4. Rank(S, key, i) = Cardinality(T)
  BY DEF Rank
<1> HIDE DEF T
<1>5. /\ IsFiniteSet(T)
      /\ Cardinality(T) <= Cardinality(S)
      /\ Cardinality(T) # Cardinality(S)
  BY <1>2, <1>3, FS_Subset
<1>6. Cardinality(T) \in Nat /\ Cardinality(S) \in Nat
  BY <1>2, <1>5, FS_CardinalityType
<1> QED BY <1>4, <1>5, <1>6

\* and who comes later has the greater rank.
LEMMA RankGrows ==
  ASSUME NEW S, NEW key, Linear(S, key), NEW i \in S, NEW j \in S,
         Before(key[i], key[j])
  PROVE  Rank(S, key, i) < Rank(S, key, j)
<1> DEFINE T(k) == {l \in S : Before(key[l], key[k])}
<1>1. IsFiniteSet(S)
  BY DEF Linear
<1>2. T(i) \in SUBSET T(j)
  BY LinearOrder
<1>3. i \in T(j) /\ i \notin T(i)
  BY LinearOrder
<1>4. Rank(S, key, i) = Cardinality(T(i)) /\ Rank(S, key, j) = Cardinality(T(j))
  BY DEF Rank
<1>5. T(j) \in SUBSET S
  OBVIOUS
<1> HIDE DEF T
<1>6. IsFiniteSet(T(j))
  BY <1>1, <1>5, FS_Subset
<1>7. T(i) # T(j)
  BY <1>3
<1>8. /\ IsFiniteSet(T(i))
      /\ Cardinality(T(i)) <= Cardinality(T(j))
      /\ Cardinality(T(i)) # Cardinality(T(j))
  BY <1>2, <1>6, <1>7, FS_Subset
<1>9. Cardinality(T(i)) \in Nat /\ Cardinality(T(j)) \in Nat
  BY <1>6, <1>8, FS_CardinalityType
<1> QED BY <1>4, <1>8, <1>9

\* Rank numbers the members from 0.
LEMMA RankOnto ==
  ASSUME NEW S, NEW key, Linear(S, key), NEW k \in 0..(Cardinality(S) - 1)
  PROVE  \E i \in S : Rank(S, key, i) = k
<1> DEFINE N == 0..(Cardinality(S) - 1)
           f == [i \in S |-> Rank(S, key, i)]
<1>1. IsFiniteSet(S) /\ Cardinality(S) \in Nat
  BY FS_CardinalityType DEF Linear
<1>2. f \in [S -> N]
  BY RankBounds
<1>3. \A i, j \in S : f[i] = f[j] => i = j
  <2> SUFFICES ASSUME NEW i \in S, NEW j \in S, f[i] = f[j], i # j PROVE FALSE
    OBVIOUS
  <2>1. Before(key[i], key[j]) \/ Before(key[j], key[i])
    BY LinearOrder
  <2>2. f[i] < f[j] \/ f[j] < f[i]
    BY <2>1, RankGrows
  <2>3. f[i] \in Int /\ f[j] \in Int
    BY <1>2
  <2> QED BY <2>2, <2>3
<1>4. IsFiniteSet(N) /\ Cardinality(N) = Cardinality(S)
  BY <1>1, FS_Interval
<1> DEFINE M == {f[i] : i \in S}
<1>5. f \in Bijection(S, M)
  <2>1. f \in Injection(S, M)
    BY <1>2, <1>3 DEF Injection, IsInjective
  <2>2. f \in Surjection(S, M)
    BY <1>2 DEF Surjection
  <2> QED BY <2>1, <2>2 DEF Bijection
<1>6. M \subseteq N
  BY <1>2
<1> HIDE DEF f, M, N
<1>7. IsFiniteSet(M) /\ Cardinality(M) = Cardinality(S)
  BY <1>1, <1>5, FS_Bijection DEF ExistsBijection
<1>8. M = N
  BY <1>4, <1>6, <1>7, FS_Subset
<1> QED BY <1>8 DEF M, N, f

\* What sorting returns: every member once, in the order of the keys.
InOrder(s, S, key) ==
  /\ Cardinality(S) \in Nat
  /\ s \in [1..Cardinality(S) -> S]
  /\ \A i \in S : \E k \in 1..Cardinality(S) : s[k] = i
  /\ \A k, l \in 1..Cardinality(S) : s[k] = s[l] => k = l
  /\ \A k, l \in 1..Cardinality(S) : k < l => Before(key[s[k]], key[s[l]])
  /\ \A k, l \in 1..Cardinality(S) : Before(key[s[k]], key[s[l]]) => k < l
  /\ \A k \in 1..Cardinality(S) : Rank(S, key, s[k]) = k - 1

\* Sorting returns every member once, in the order of the keys.
LEMMA SortedProperties ==
  ASSUME NEW S, NEW key, Linear(S, key)
  PROVE  InOrder(Sorted(S, key), S, key)
<1> DEFINE s == Sorted(S, key)
<1>1. Cardinality(S) \in Nat
  BY FS_CardinalityType DEF Linear
<1>2. ASSUME NEW k \in 1..Cardinality(S)
      PROVE  s[k] \in S /\ Rank(S, key, s[k]) = k - 1
  <2>1. k - 1 \in 0..(Cardinality(S) - 1)
    BY <1>1
  <2>2. \E i \in S : Rank(S, key, i) = k - 1
    BY <2>1, RankOnto
  <2> QED BY <2>2 DEF Sorted
<1>3. s \in [1..Cardinality(S) -> S]
  BY <1>2 DEF Sorted
<1> HIDE DEF s
<1>4. \A i, j \in S : Rank(S, key, i) = Rank(S, key, j) => i = j
  <2> SUFFICES ASSUME NEW i \in S, NEW j \in S, i # j
               PROVE  Rank(S, key, i) # Rank(S, key, j)
    OBVIOUS
  <2>1. Rank(S, key, i) \in Int /\ Rank(S, key, j) \in Int
    BY RankBounds
  <2>2. Before(key[i], key[j]) \/ Before(key[j], key[i])
    BY LinearOrder
  <2> QED BY <2>1, <2>2, RankGrows
<1>5. \A i \in S : \E k \in 1..Cardinality(S) : s[k] = i
  <2> SUFFICES ASSUME NEW i \in S PROVE \E k \in 1..Cardinality(S) : s[k] = i
    OBVIOUS
  <2>1. Rank(S, key, i) + 1 \in 1..Cardinality(S)
    BY <1>1, RankBounds
  <2>2. Rank(S, key, i) \in Int
    BY RankBounds
  <2>3. Rank(S, key, s[Rank(S, key, i) + 1]) = Rank(S, key, i)
    BY <1>2, <2>1, <2>2
  <2> QED BY <1>2, <1>4, <2>1, <2>3
<1>6. \A k, l \in 1..Cardinality(S) : s[k] = s[l] => k = l
  BY <1>1, <1>2
<1>7. ASSUME NEW k \in 1..Cardinality(S), NEW l \in 1..Cardinality(S), k < l
      PROVE  Before(key[s[k]], key[s[l]])
  <2>1. s[k] \in S /\ s[l] \in S /\ s[k] # s[l]
    BY <1>2, <1>6, <1>7
  <2>2. ~Before(key[s[l]], key[s[k]])
    <3> SUFFICES ASSUME Before(key[s[l]], key[s[k]]) PROVE FALSE
      OBVIOUS
    <3>1. Rank(S, key, s[l]) < Rank(S, key, s[k])
      BY <2>1, RankGrows
    <3> QED BY <1>1, <1>2, <1>7, <3>1
  <2> QED BY <2>1, <2>2, LinearOrder
<1>8. ASSUME NEW k \in 1..Cardinality(S), NEW l \in 1..Cardinality(S),
             Before(key[s[k]], key[s[l]])
      PROVE  k < l
  <2>1. ~(l < k) /\ k # l
    BY <1>2, <1>7, <1>8, LinearOrder
  <2> QED BY <1>1, <2>1
<1>9. \A k \in 1..Cardinality(S) : Rank(S, key, s[k]) = k - 1
  BY <1>2
<1> QED BY <1>1, <1>3, <1>5, <1>6, <1>7, <1>8, <1>9 DEF s, InOrder

-----------------------------------------------------------------------------
(* Folds.  A step is a function of the value so far and the position.      *)

\* The last position of an initial part of the positions,
LEMMA MaxOfInterval ==
  ASSUME NEW k \in Nat, k > 0
  PROVE  Max(1..k) = k
<1>1. \A x \in 1..k : (\A y \in 1..k : x >= y) => x = k
  OBVIOUS
<1>2. k \in 1..k /\ \A y \in 1..k : k >= y
  OBVIOUS
<1> QED BY <1>1, <1>2 DEF Max

\* and of any part of them.
LEMMA MaxOfPart ==
  ASSUME NEW m \in Nat, NEW s \in SUBSET (1..m), s # {}
  PROVE  Max(s) \in s /\ \A y \in s : Max(s) >= y
<1> DEFINE T == {m - y : y \in s}
<1>0. \A y \in s : m - y \in Nat
  OBVIOUS
<1>1. T # {} /\ T \in SUBSET Nat
  BY <1>0
<1>2. PICK z \in T : \A y \in T : z <= y
  <2> HIDE DEF T
  <2> QED BY <1>1, Least
<1>3. PICK x \in s : z = m - x
  OBVIOUS
<1>4. \A y \in s : x >= y
  <2> SUFFICES ASSUME NEW y \in s PROVE x >= y
    OBVIOUS
  <2>1. m - x <= m - y
    BY <1>2, <1>3
  <2> QED BY <2>1
<1> QED BY <1>4 DEF Max

Steps(V, m) == [1..m -> [V -> V]]

\* Recursion over positions.
LEMMA Recursion ==
  ASSUME NEW m \in Nat, NEW V, NEW base \in V, NEW D \in Steps(V, m)
  PROVE  \E g \in [0..m -> V] :
           g[0] = base /\ \A k \in 1..m : g[k] = D[k][g[k - 1]]
<1> DEFINE Good(n, g) == g[0] = base /\ \A k \in 1..n : g[k] = D[k][g[k - 1]]
           S == {n \in 0..m : \E g \in [0..n -> V] : Good(n, g)}
<1>1. 0 \in S
  <2> DEFINE g == [k \in 0..0 |-> base]
  <2>1. g \in [0..0 -> V] /\ g[0] = base /\ 1..0 = {} /\ 0 \in 0..m
    OBVIOUS
  <2> HIDE DEF g
  <2>2. Good(0, g)
    BY <2>1
  <2> QED BY <2>1, <2>2
<1>2. ASSUME NEW n \in 0..(m - 1), n \in S PROVE n + 1 \in S
  <2>1. PICK g \in [0..n -> V] : Good(n, g)
    BY <1>2
  <2> DEFINE h == [k \in 0..(n + 1) |-> IF k = n + 1 THEN D[n + 1][g[n]] ELSE g[k]]
  <2>2. g[n] \in V /\ D[n + 1][g[n]] \in V
    BY DEF Steps
  <2>3. h \in [0..(n + 1) -> V]
    BY <2>2
  <2>4. h[0] = base
    BY <2>1
  <2>5. ASSUME NEW k \in 1..(n + 1) PROVE h[k] = D[k][h[k - 1]]
    <3>1. CASE k = n + 1
      BY <3>1
    <3>2. CASE k # n + 1
      <4>1. k \in 1..n /\ k - 1 \in 0..n /\ h[k] = g[k] /\ h[k - 1] = g[k - 1]
        BY <3>2
      <4> QED BY <2>1, <4>1
    <3> QED BY <3>1, <3>2
  <2>6. Good(n + 1, h)
    BY <2>4, <2>5
  <2>7. n + 1 \in 0..m
    OBVIOUS
  <2> HIDE DEF h, Good
  <2> QED BY <2>3, <2>6, <2>7
<1>3. m \in S
  <2> HIDE DEF S
  <2>1. 0..m \subseteq S
    BY <1>1, <1>2, Climb
  <2> QED BY <2>1
<1> QED BY <1>3

\* The recursion over sets of positions that folds are defined by.
Folds(it, m, V, base, D) ==
  /\ it \in [SUBSET (1..m) -> V]
  /\ it[{}] = base
  /\ \A s \in SUBSET (1..m) : s # {} => it[s] = D[Max(s)][it[s \ {Max(s)}]]

\* The recursion over sets of positions has a solution: skip the positions that
\* are not in the set.
LEMMA SetRecursion ==
  ASSUME NEW m \in Nat, NEW V, NEW base \in V, NEW D \in Steps(V, m)
  PROVE  \E it : Folds(it, m, V, base, D)
<1> DEFINE E(s) == [k \in 1..m |-> [v \in V |-> IF k \in s THEN D[k][v] ELSE v]]
           Runs(s, g) == /\ g \in [0..m -> V]
                         /\ g[0] = base
                         /\ \A k \in 1..m : g[k] = E(s)[k][g[k - 1]]
           G(s) == CHOOSE g \in [0..m -> V] : Runs(s, g)
           it == [s \in SUBSET (1..m) |-> G(s)[m]]
<1>1. ASSUME NEW s \in SUBSET (1..m)
      PROVE  Runs(s, G(s))
  <2>1. E(s) \in [1..m -> [V -> V]]
    BY DEF Steps
  <2>2. \E g \in [0..m -> V] :
          g[0] = base /\ \A k \in 1..m : g[k] = E(s)[k][g[k - 1]]
    <3> DEFINE e == E(s)
    <3>1. e \in Steps(V, m)
      BY <2>1 DEF Steps
    <3> HIDE DEF e
    <3>2. \E g \in [0..m -> V] : g[0] = base /\ \A k \in 1..m : g[k] = e[k][g[k - 1]]
      BY <3>1, Recursion
    <3> QED BY <3>2 DEF e
  <2> HIDE DEF E
  <2>3. \E g \in [0..m -> V] : Runs(s, g)
    BY <2>2
  <2> HIDE DEF Runs
  <2> QED BY <2>3
<1>2. ASSUME NEW s \in SUBSET (1..m), NEW g, Runs(s, g), NEW k \in 1..m
      PROVE  /\ g[k - 1] \in V
             /\ k \in s => g[k] = D[k][g[k - 1]]
             /\ k \notin s => g[k] = g[k - 1]
  <2>1. k - 1 \in 0..m
    OBVIOUS
  <2>2. g[k - 1] \in V
    BY <1>2, <2>1
  <2>4. E(s)[k][g[k - 1]] = IF k \in s THEN D[k][g[k - 1]] ELSE g[k - 1]
    BY <2>2
  <2> QED BY <1>2, <2>2, <2>4
<1> HIDE DEF G
<1>3. \A s \in SUBSET (1..m) : it[s] = G(s)[m] /\ it[s] \in V
  BY <1>1
<1>4. it[{}] = base
  <2> DEFINE g == G({})
             S == {n \in 0..m : g[n] = base}
  <2>1. Runs({}, g)
    BY <1>1
  <2>2. 0 \in S
    BY <2>1
  <2>3. ASSUME NEW n \in 0..(m - 1), n \in S PROVE n + 1 \in S
    <3>1. n + 1 \in 1..m /\ (n + 1) - 1 = n
      OBVIOUS
    <3>2. g[n + 1] = g[n]
      <4>1. {} \in SUBSET (1..m) /\ n + 1 \notin {}
        OBVIOUS
      <4> HIDE DEF Runs, E, g, S
      <4>2. g[n + 1] = g[(n + 1) - 1]
        BY <1>2, <2>1, <3>1, <4>1
      <4> QED BY <3>1, <4>2
    <3> QED BY <2>3, <3>1, <3>2
  <2>4. 0..m \subseteq S
    <3> HIDE DEF S
    <3> QED BY <2>2, <2>3, Climb
  <2>5. m \in 0..m
    OBVIOUS
  <2>6. g[m] = base
    BY <2>4, <2>5
  <2> QED BY <1>3, <2>6
<1>5. ASSUME NEW s \in SUBSET (1..m), s # {}
      PROVE  it[s] = D[Max(s)][it[s \ {Max(s)}]]
  <2> DEFINE x == Max(s)
             r == s \ {x}
             g == G(s)
             h == G(r)
  <2>1. x \in s /\ \A y \in s : x >= y
    BY <1>5, MaxOfPart
  <2>2. x \in 1..m /\ r \in SUBSET (1..m)
    BY <2>1
  <2>3. Runs(s, g) /\ Runs(r, h)
    BY <1>1, <2>2
  <2> HIDE DEF x, g, h
  <2>4. x - 1 \in 0..m
    BY <2>2
  <2>5. \A k \in 1..(x - 1) : k \in 1..m /\ (k \in s <=> k \in r)
    BY <2>2
  <2>6. g[x - 1] = h[x - 1]
    <3> DEFINE S == {n \in 0..(x - 1) : g[n] = h[n]}
    <3>1. 0 \in S
      BY <2>2, <2>3
    <3>2. ASSUME NEW n \in 0..((x - 1) - 1), n \in S PROVE n + 1 \in S
      <4>1. n + 1 \in 1..(x - 1) /\ (n + 1) - 1 = n
        BY <2>2
      <4>2. n + 1 \in 1..m /\ (n + 1 \in s <=> n + 1 \in r)
        BY <2>5, <4>1
      <4>3. g[n] = h[n]
        BY <3>2
      <4>4. /\ n + 1 \in s => g[n + 1] = D[n + 1][g[n]]
            /\ n + 1 \notin s => g[n + 1] = g[n]
        BY <1>2, <2>3, <4>1, <4>2
      <4>5. /\ n + 1 \in r => h[n + 1] = D[n + 1][h[n]]
            /\ n + 1 \notin r => h[n + 1] = h[n]
        BY <1>2, <2>2, <2>3, <4>1, <4>2
      <4>6. g[n + 1] = h[n + 1]
        BY <4>2, <4>3, <4>4, <4>5
      <4> QED BY <4>1, <4>6
    <3>3. x - 1 \in Nat
      BY <2>2
    <3>4. 0..(x - 1) \subseteq S
      <4> HIDE DEF S
      <4> QED BY <3>1, <3>2, <3>3, Climb
    <3> QED BY <3>3, <3>4
  \* Nothing happens behind the last position.
  <2>7. ASSUME NEW t \in SUBSET (1..m), NEW f, Runs(t, f), NEW a \in 0..m,
               \A k \in t : k <= a
        PROVE  f[m] = f[a]
    <3> DEFINE S == {n \in 0..(m - a) : f[a + n] = f[a]}
    <3>1. 0 \in S
      OBVIOUS
    <3>2. ASSUME NEW n \in 0..((m - a) - 1), n \in S PROVE n + 1 \in S
      <4>1. a + (n + 1) \in 1..m /\ (a + (n + 1)) - 1 = a + n /\ n + 1 \in 0..(m - a)
        OBVIOUS
      <4>2. a + (n + 1) \notin t
        BY <2>7
      <4>3. f[a + (n + 1)] = f[a + n]
        BY <1>2, <2>7, <4>1, <4>2
      <4> QED BY <3>2, <4>1, <4>3
    <3>3. m - a \in Nat
      OBVIOUS
    <3>4. 0..(m - a) \subseteq S
      <4> HIDE DEF S
      <4> QED BY <3>1, <3>2, <3>3, Climb
    <3>5. m - a \in S /\ a + (m - a) = m
      BY <3>3, <3>4
    <3> QED BY <3>5
  <2>8. g[m] = g[x]
    <3>1. x \in 0..m /\ \A k \in s : k <= x
      BY <2>1, <2>2
    <3> HIDE DEF Runs, E
    <3> QED BY <2>3, <2>7, <3>1
  <2>9. h[m] = h[x - 1]
    <3>1. \A k \in r : k <= x - 1
      BY <2>1, <2>2
    <3> HIDE DEF Runs, E, r
    <3> QED BY <2>2, <2>3, <2>4, <2>7, <3>1
  <2>10. g[x] = D[x][g[x - 1]]
    BY <1>2, <2>1, <2>2, <2>3
  <2>11. it[s] = g[m] /\ it[r] = h[m]
    BY <1>3, <2>2 DEF g, h
  <2> QED BY <2>6, <2>8, <2>9, <2>10, <2>11 DEF x
<1>6. it \in [SUBSET (1..m) -> V]
  BY <1>3
<1> HIDE DEF it
<1>7. Folds(it, m, V, base, D)
  BY <1>4, <1>5, <1>6 DEF Folds
<1> QED BY <1>7

\* What a fold does, one position after the other: any solution of its
\* recursion has the values that the steps lead to.
Solves(it, m, V, base, D) ==
  /\ it[{}] = base
  /\ \A s \in SUBSET (1..m) : s # {} /\ it[s \ {Max(s)}] \in V =>
       it[s] = D[Max(s)][it[s \ {Max(s)}]]

Trace(h, m, V, base, D) ==
  /\ h \in [0..m -> V]
  /\ h[0] = base
  /\ \A k \in 1..m : h[k] = D[k][h[k - 1]]

\* The value of a fold is where its steps lead to.
LEMMA FoldTrace ==
  ASSUME NEW m \in Nat, NEW V, NEW base \in V, NEW D \in Steps(V, m),
         NEW it, Solves(it, m, V, base, D)
  PROVE  \E h : Trace(h, m, V, base, D) /\ h[m] = it[1..m]
<1> USE DEF Solves
<1> DEFINE S == {n \in 0..m : it[1..n] \in V}
<1>1. 1..0 = {}
  OBVIOUS
<1>2. 0 \in S
  BY <1>1
<1>3. ASSUME NEW k \in 1..m, it[1..(k - 1)] \in V
      PROVE  it[1..k] = D[k][it[1..(k - 1)]]
  <2>1. 1..k \in SUBSET (1..m) /\ 1..k # {}
    OBVIOUS
  <2>3. (1..k) \ {k} = 1..(k - 1)
    OBVIOUS
  <2>2. Max(1..k) = k
    BY MaxOfInterval
  <2> QED BY <1>3, <2>1, <2>2, <2>3
<1>4. ASSUME NEW n \in 0..(m - 1), n \in S PROVE n + 1 \in S
  <2>1. n + 1 \in 1..m /\ (n + 1) - 1 = n
    OBVIOUS
  <2>2. it[1..(n + 1)] = D[n + 1][it[1..n]]
    BY <1>3, <1>4, <2>1
  <2>3. it[1..n] \in V
    BY <1>4
  <2> QED BY <2>1, <2>2, <2>3 DEF Steps
<1>5. 0..m \subseteq S
  <2> HIDE DEF S
  <2> QED BY <1>2, <1>4, Climb
<1>6. \A k \in 0..m : it[1..k] \in V
  BY <1>5
<1>7. \A k \in 1..m : k - 1 \in 0..m /\ k \in 0..m
  OBVIOUS
<1> DEFINE h == [k \in 0..m |-> it[1..k]]
<1>8. Trace(h, m, V, base, D)
  BY <1>1, <1>3, <1>6, <1>7 DEF Trace
<1>9. h[m] = it[1..m]
  OBVIOUS
<1> HIDE DEF h
<1> QED BY <1>8, <1>9

-----------------------------------------------------------------------------
(* The keys of the cards.                                                  *)

\* What the order of cards looks at.
Rankable(C) ==
  \A c \in C : c.file \in Int /\ c.line \in Int /\ c.urgency \in Urgency

\* What orders a set orders its parts.
LEMMA LinearPart ==
  ASSUME NEW S, NEW key, Linear(S, key), NEW T \in SUBSET S
  PROVE  Linear(T, key)
<1>1. IsFiniteSet(T)
  BY FS_Subset DEF Linear
<1> QED BY <1>1 DEF Linear

\* One member comes before all others.
LEMMA FirstOfAll ==
  ASSUME NEW S, NEW key, Linear(S, key), S # {}
  PROVE  \E i \in S : \A j \in S \ {i} : Before(key[i], key[j])
<1>1. IsFiniteSet(S) /\ Cardinality(S) \in Nat /\ Cardinality(S) # 0
  BY FS_CardinalityType, FS_EmptySet DEF Linear
<1>2. 0 \in 0..(Cardinality(S) - 1)
  BY <1>1
<1>3. PICK i \in S : Rank(S, key, i) = 0
  BY <1>2, RankOnto
<1>4. ASSUME NEW j \in S \ {i} PROVE Before(key[i], key[j])
  <2>1. Before(key[i], key[j]) \/ Before(key[j], key[i])
    BY LinearOrder
  <2>2. ~Before(key[j], key[i])
    <3> SUFFICES ASSUME Before(key[j], key[i]) PROVE FALSE
      OBVIOUS
    <3>1. Rank(S, key, j) < 0
      BY <1>3, RankGrows
    <3>2. Rank(S, key, j) \in 0..(Cardinality(S) - 1)
      BY RankBounds
    <3> QED BY <1>1, <3>1, <3>2
  <2> QED BY <2>1, <2>2
<1> QED BY <1>4

\* The positions of a sequence are the numbers up to its length.
LEMMA Positions ==
  ASSUME NEW C, NEW cards \in Seq(C)
  PROVE  /\ Len(cards) \in Nat /\ DOMAIN cards = 1..Len(cards)
         /\ IsFiniteSet(DOMAIN cards) /\ Cardinality(DOMAIN cards) = Len(cards)
         /\ \A i \in DOMAIN cards : cards[i] \in C /\ i \in Int
<1>1. Len(cards) \in Nat /\ DOMAIN cards = 1..Len(cards)
  BY LenProperties
<1>2. IsFiniteSet(1..Len(cards)) /\ Cardinality(1..Len(cards)) = Len(cards)
  BY <1>1, FS_Interval
<1>3. \A i \in 1..Len(cards) : cards[i] \in C /\ i \in Int
  BY <1>1, ElementOfSeq
<1> QED BY <1>1, <1>2, <1>3

\* The position is the last field of each key: no two keys are equal.
LEMMA PlaceKeys ==
  ASSUME NEW C, Rankable(C), NEW cards \in Seq(C)
  PROVE  Linear(DOMAIN cards, [i \in DOMAIN cards |-> <<cards[i].file, cards[i].line, i>>])
<1> DEFINE key == [i \in DOMAIN cards |-> <<cards[i].file, cards[i].line, i>>]
<1>1. ASSUME NEW i \in DOMAIN cards PROVE key[i] \in Tuple(3) /\ key[i][3] = i
  BY Positions DEF Tuple, Rankable
<1> HIDE DEF key
<1>2. \A i, j \in DOMAIN cards : key[i] = key[j] => i = j
  BY <1>1
<1> QED BY <1>1, <1>2, Positions DEF Linear, key

\* So it is for the key of rank,
LEMMA RankKeys ==
  ASSUME NEW C, Rankable(C), NEW cards \in Seq(C)
  PROVE  Linear(DOMAIN cards, RankKey(cards))
<1> DEFINE key == RankKey(cards)
<1>1. ASSUME NEW i \in DOMAIN cards PROVE key[i] \in Tuple(5) /\ key[i][5] = i
  <2>1. cards[i].urgency \in Urgency /\ cards[i].line \in Int /\ i \in Int
    BY Positions DEF Rankable
  <2>2. /\ cards[i].urgency.priority \in Int
        /\ cards[i].urgency.confidence \in Int
        /\ -cards[i].urgency.missing \in Int
    BY <2>1 DEF Urgency
  <2> QED BY <2>1, <2>2 DEF Tuple, RankKey
<1> HIDE DEF key
<1>2. \A i, j \in DOMAIN cards : key[i] = key[j] => i = j
  BY <1>1
<1> QED BY <1>1, <1>2, Positions DEF Linear, key

\* and for the key of importance.
LEMMA ImportanceKeys ==
  ASSUME NEW C, Rankable(C), NEW cards \in Seq(C)
  PROVE  Linear(DOMAIN cards, Importance(cards))
<1> DEFINE key == Importance(cards)
<1>1. ASSUME NEW i \in DOMAIN cards PROVE key[i] \in Tuple(6) /\ key[i][6] = i
  <2>1. cards[i].urgency \in Urgency /\ cards[i].line \in Int /\ cards[i].file \in Int /\ i \in Int
    BY Positions DEF Rankable
  <2>2. cards[i].urgency.gap \in Int
    BY <2>1 DEF Urgency
  <2> QED BY <2>1, <2>2 DEF Tuple, Importance
<1> HIDE DEF key
<1>2. \A i, j \in DOMAIN cards : key[i] = key[j] => i = j
  BY <1>1
<1> QED BY <1>1, <1>2, Positions DEF Linear, key

-----------------------------------------------------------------------------
(* The comment plan.                                                       *)

\* What CommentPlan does, one candidate after the other.
Considered(h, cards, limit, order, m) ==
  /\ h \in [0..m -> SUBSET (DOMAIN cards)]
  /\ h[0] = {}
  /\ \A k \in 1..m : h[k] = Consider(cards, limit, h[k - 1], order[k])

\* The plan is what considering one candidate after the other leads to.
LEMMA ConsiderTrace ==
  ASSUME NEW cards, NEW limit, NEW m \in Nat, NEW order \in [1..m -> DOMAIN cards],
         order = Sorted(Candidates(cards), Importance(cards))
  PROVE  \E h : /\ Considered(h, cards, limit, order, m)
               /\ CommentPlan(cards, limit) = h[m]
<1> DEFINE consider(plan, i) == Consider(cards, limit, plan, i)
           V == SUBSET (DOMAIN cards)
           D == [k \in 1..m |-> [plan \in V |-> consider(plan, order[k])]]
           it == CHOOSE it : it = [s \in SUBSET (1..m) |->
                                     IF s = {} THEN {}
                                     ELSE consider(it[s \ {Max(s)}], order[Max(s)])]
<1>1. D \in Steps(V, m)
  BY DEF Steps, Consider
<1>2. PICK w : Folds(w, m, V, {}, D)
  <2> HIDE DEF D
  <2>1. {} \in V
    OBVIOUS
  <2> HIDE DEF V
  <2> QED BY <1>1, <2>1, SetRecursion
<1>3. \A s \in SUBSET (1..m) : s # {} => Max(s) \in 1..m /\ s \ {Max(s)} \in SUBSET (1..m)
  BY MaxOfPart
<1>4. \A k \in 1..m, plan \in V : D[k][plan] = consider(plan, order[k])
  OBVIOUS
<1> HIDE DEF V, D, consider
<1>5. w = [s \in SUBSET (1..m) |->
            IF s = {} THEN {} ELSE consider(w[s \ {Max(s)}], order[Max(s)])]
  BY <1>2, <1>3, <1>4 DEF Folds
<1>6. it = [s \in SUBSET (1..m) |->
             IF s = {} THEN {} ELSE consider(it[s \ {Max(s)}], order[Max(s)])]
  BY <1>5
<1> HIDE DEF it
<1>7. Solves(it, m, V, {}, D)
  <2>1. it[{}] = {}
    BY <1>6
  <2>2. \A s \in SUBSET (1..m) : s # {} => it[s] = consider(it[s \ {Max(s)}], order[Max(s)])
    BY <1>6
  <2> QED BY <1>3, <1>4, <2>1, <2>2 DEF Solves
<1>8. CommentPlan(cards, limit) = it[1..m]
  BY DEF CommentPlan, FoldLeft, MapThenFoldSet, it, consider
<1>9. PICK h : Trace(h, m, V, {}, D) /\ h[m] = it[1..m]
  <2>1. {} \in V
    BY DEF V
  <2> QED BY <1>1, <1>7, <2>1, FoldTrace
<1>10. \A k \in 1..m : h[k] = consider(h[k - 1], order[k])
  <2>1. \A k \in 1..m : h[k - 1] \in V
    BY <1>9 DEF Trace
  <2> QED BY <1>4, <1>9, <2>1 DEF Trace
<1>11. h \in [0..m -> V] /\ h[0] = {}
  BY <1>9 DEF Trace
<1> QED BY <1>8, <1>9, <1>10, <1>11 DEF V, consider, Considered

\* A group of repetitions is of one family with one set of obligations.
GroupsShareKeys(cards) ==
  \A i, j \in DOMAIN cards :
    cards[i].group = cards[j].group /\ cards[i].group # "none" => cards[i].key = cards[j].key

\* The comment plan has eligible cards only, one of each key, and every eligible
\* card it leaves out gives way to more important ones (CommentPlan::from and
\* card_statuses): whatever cards there are, as long as the cards of a
\* repetition group share their key.
THEOREM PlanIsBest ==
  ASSUME NEW C, Rankable(C), NEW cards \in Seq(C), GroupsShareKeys(cards), NEW limit \in Nat
  PROVE  PlansTheBest(cards, CommentPlan(cards, limit), limit)
<1> DEFINE key        == Importance(cards)
           eligible   == {i \in DOMAIN cards : Eligible(cards[i])}
           candidates == Candidates(cards)
           order      == Sorted(candidates, key)
           m          == Cardinality(candidates)
           first(i, j) == Before(key[i], key[j])
           plan       == CommentPlan(cards, limit)
<1>1. Linear(DOMAIN cards, key)
  BY ImportanceKeys
<1>2. Linear(eligible, key) /\ Linear(candidates, key)
  BY <1>1, LinearPart DEF Candidates
<1>3. /\ m \in Nat
      /\ order \in [1..m -> candidates]
      /\ \A i \in candidates : \E k \in 1..m : order[k] = i
      /\ \A k, l \in 1..m : k < l => first(order[k], order[l])
  <2>1. InOrder(order, candidates, key)
    BY <1>2, SortedProperties
  <2> HIDE DEF order, candidates
  <2> QED BY <2>1 DEF InOrder
<1>5. order \in [1..m -> DOMAIN cards]
  BY <1>3 DEF Candidates
<1>6. \A i, j, k \in DOMAIN cards : first(i, j) /\ first(j, k) => first(i, k)
  BY <1>1, LinearOrder
<1>7. PICK h : Considered(h, cards, limit, order, m) /\ plan = h[m]
  <2>1. order = Sorted(Candidates(cards), Importance(cards))
    OBVIOUS
  <2> HIDE DEF m, order, candidates, eligible, first, key, plan
  <2>2. \E h : Considered(h, cards, limit, order, m) /\ CommentPlan(cards, limit) = h[m]
    BY <1>3, <1>5, <2>1, ConsiderTrace
  <2> QED BY <2>2 DEF plan
<1>8. \A i \in candidates : i \in eligible /\ i \in DOMAIN cards
  BY DEF Candidates
\* The plan after k candidates.
<1> DEFINE Planned(k) ==
      /\ h[k] \subseteq {order[l] : l \in 1..k}
      /\ IsFiniteSet(h[k]) /\ Cardinality(h[k]) <= limit
      /\ \A i, j \in h[k] : cards[i].key = cards[j].key => i = j
      /\ \A l \in 1..k : order[l] \notin h[k] =>
           \/ \E i \in h[k] : cards[i].key = cards[order[l]].key /\ first(i, order[l])
           \/ Cardinality(h[k]) = limit /\ \A i \in h[k] : first(i, order[l])
           S == {k \in 0..m : Planned(k)}
<1>9. 0 \in S
  <2>1. h[0] = {} /\ IsFiniteSet({}) /\ Cardinality({}) = 0 /\ 1..0 = {}
    BY <1>7, FS_EmptySet DEF Considered
  <2>2. 0 \in 0..m
    <3> HIDE DEF m
    <3> QED BY <1>3
  <2> HIDE DEF order, first, m
  <2>3. Planned(0)
    BY <2>1
  <2> QED BY <2>2, <2>3
<1>10. ASSUME NEW n \in 0..(m - 1), n \in S PROVE n + 1 \in S
  <2> DEFINE e == order[n + 1]
             old == h[n]
             new == h[n + 1]
  <2>1. Planned(n)
    BY <1>10
  <2>2. n + 1 \in 1..m /\ (n + 1) - 1 = n /\ n + 1 \in 0..m /\ n \in Nat
    BY <1>3
  <2>3. new = Consider(cards, limit, old, e)
    BY <1>7, <2>2 DEF Considered
  <2>4. \A l \in 1..(n + 1) : l \in 1..n \/ l = n + 1
    OBVIOUS
  <2>5. \A l \in 1..n : first(order[l], e)
    BY <1>3, <2>2
  <2>6. \A i \in old : first(i, e)
    BY <2>1, <2>5
  <2>7. Cardinality(old) \in Nat
    BY <2>1, FS_CardinalityType
  <2>8. old \subseteq {order[l] : l \in 1..(n + 1)} /\ e \in {order[l] : l \in 1..(n + 1)}
    BY <2>1, <2>2
  <2> HIDE DEF first, order, e, old
  <2>9. CASE \E j \in old : cards[j].key = cards[e].key
    <3>1. new = old
      BY <2>3, <2>9 DEF Consider
    <3> QED BY <2>1, <2>2, <2>4, <2>6, <2>8, <2>9, <3>1 DEF e, old
  <2>10. CASE ~(\E j \in old : cards[j].key = cards[e].key) /\ Cardinality(old) >= limit
    <3>1. new = old
      BY <2>3, <2>7, <2>10 DEF Consider
    <3>2. Cardinality(old) = limit
      BY <2>1, <2>7, <2>10 DEF old
    <3> QED BY <2>1, <2>2, <2>4, <2>6, <2>8, <3>1, <3>2 DEF e, old
  <2>11. CASE ~(\E j \in old : cards[j].key = cards[e].key) /\ Cardinality(old) < limit
    <3>1. new = old \cup {e}
      BY <2>3, <2>11 DEF Consider
    <3>2. IsFiniteSet(new) /\ Cardinality(new) <= limit
      <4>0. IsFiniteSet(old)
        BY <2>1 DEF old
      <4> HIDE DEF Planned, S, new
      <4>1. Cardinality(new) \in {Cardinality(old), Cardinality(old) + 1} /\ IsFiniteSet(new)
        BY <3>1, <4>0, FS_AddElement
      <4> QED BY <2>7, <2>11, <4>1
    <3>3. \A i, j \in new : cards[i].key = cards[j].key => i = j
      BY <2>1, <2>11, <3>1 DEF old
    <3>4. ASSUME NEW l \in 1..(n + 1), order[l] \notin new
          PROVE  \E i \in new : cards[i].key = cards[order[l]].key /\ first(i, order[l])
      <4>1. l \in 1..n
        BY <2>4, <3>1, <3>4 DEF e
      <4>2. Cardinality(old) # limit
        BY <2>7, <2>11
      <4> QED BY <2>1, <3>1, <3>4, <4>1, <4>2 DEF old
    <3>5. new \subseteq {order[l] : l \in 1..(n + 1)}
      BY <2>8, <3>1
    <3>6. Planned(n + 1)
      BY <3>2, <3>3, <3>4, <3>5
    <3> QED BY <2>2, <3>6
  <2> QED BY <2>7, <2>9, <2>10, <2>11
<1>11. Planned(m)
  <2>1. 0..m \subseteq S
    <3> HIDE DEF S
    <3> QED BY <1>3, <1>9, <1>10, Climb
  <2>2. m \in 0..m
    <3> HIDE DEF m
    <3> QED BY <1>3
  <2>3. m \in S
    <3> HIDE DEF S
    <3> QED BY <2>1, <2>2
  <2> QED BY <2>3
<1>12. plan \subseteq candidates
  <2>1. h[m] \subseteq {order[l] : l \in 1..m}
    BY <1>11
  <2> HIDE DEF m, order, candidates, Planned, plan
  <2> QED BY <1>3, <1>7, <2>1
<1>13. ASSUME NEW j \in candidates, j \notin plan
       PROVE  \/ \E i \in plan : cards[i].key = cards[j].key /\ first(i, j)
              \/ Cardinality(plan) = limit /\ \A i \in plan : first(i, j)
  <2>1. PICK l \in 1..m : order[l] = j
    BY <1>3
  <2> HIDE DEF first, order, plan, m
  <2> QED BY <1>7, <1>11, <1>13, <2>1
\* Of a group of repetitions the most important card is a candidate.
<1>14. ASSUME NEW j \in eligible, j \notin candidates
       PROVE  \E i \in candidates : cards[i].key = cards[j].key /\ first(i, j)
  <2> DEFINE G == {i \in eligible : cards[i].file = cards[j].file /\ cards[i].group = cards[j].group}
  <2>1. Linear(G, key) /\ j \in G
    BY <1>1, LinearPart
  <2>2. PICK i \in G : \A k \in G \ {i} : first(i, k)
    <3> HIDE DEF G, key
    <3> QED BY <2>1, FirstOfAll
  <2>3. cards[j].group # "none" /\ j \in Repetitions(cards)
    BY <1>14 DEF Candidates, Repetitions
  <2>4. \A k \in G : ~first(k, i)
    <3> HIDE DEF key, G
    <3> QED BY <2>1, <2>2, LinearOrder
  <2>5. i \in candidates
    BY <2>4 DEF Candidates, Repetitions
  <2>6. i # j
    BY <1>14, <2>5
  <2>7. cards[i].key = cards[j].key
    BY <2>3 DEF GroupsShareKeys
  <2> QED BY <2>1, <2>2, <2>5, <2>6, <2>7
<1>15. ASSUME NEW j \in eligible \ plan
       PROVE  \/ \E i \in plan : cards[i].key = cards[j].key /\ first(i, j)
              \/ Cardinality(plan) = limit /\ \A i \in plan : first(i, j)
  <2>1. CASE j \in candidates
    BY <1>13, <2>1
  <2>2. CASE j \notin candidates
    <3>1. PICK k \in candidates : cards[k].key = cards[j].key /\ first(k, j)
      BY <1>14, <2>2
    <3>2. CASE k \in plan
      BY <3>1, <3>2
    <3>3. CASE k \notin plan
      <4>1. \A i \in plan : first(i, k) => first(i, j)
        BY <1>6, <1>8, <1>12, <3>1
      <4> HIDE DEF first, plan, candidates, eligible
      <4> QED BY <1>13, <3>1, <3>3, <4>1
    <3> QED BY <3>2, <3>3
  <2> QED BY <2>1, <2>2
<1>16. \A i \in plan : Eligible(cards[i])
  BY <1>8, <1>12
<1>17. \A i, j \in plan : cards[i].key = cards[j].key => i = j
  BY <1>7, <1>11
<1> QED BY <1>15, <1>16, <1>17 DEF PlansTheBest

-----------------------------------------------------------------------------
(* Cards that are moved to the front.                                      *)

\* What moving to the front does, one swap after the other.
Swaps(h, C, cards, at, m) ==
  /\ h \in [0..m -> [DOMAIN cards -> C]]
  /\ h[0] = cards
  /\ \A k \in 1..m : h[k] = Swapped(h[k - 1], <<k, at[k]>>)

\* Moving to the front is what swapping one pair after the other leads to.
LEMMA SwappedTrace ==
  ASSUME NEW C, NEW cards \in Seq(C), NEW m \in Nat, m <= Len(cards),
         NEW at \in [1..m -> DOMAIN cards]
  PROVE  \E h : /\ Swaps(h, C, cards, at, m)
                /\ ToFront(cards, at) = SubSeq(h[m], 1, Len(at))
<1> DEFINE pairs == [k \in 1..m |-> <<k, at[k]>>]
           step(c, p) == Swapped(c, p)
           V == [DOMAIN cards -> C]
           D == [k \in 1..m |-> [c \in V |-> step(c, pairs[k])]]
           it == CHOOSE it : it = [s \in SUBSET (1..m) |->
                                     IF s = {} THEN cards
                                     ELSE step(it[s \ {Max(s)}], pairs[Max(s)])]
<1>0. cards \in V
  BY Positions
<1>1. D \in Steps(V, m)
  <2>1. ASSUME NEW k \in 1..m, NEW c \in V PROVE step(c, pairs[k]) \in V
    <3>1. k \in DOMAIN cards /\ at[k] \in DOMAIN cards
      BY Positions
    <3> QED BY <3>1 DEF Swapped
  <2> HIDE DEF V, step, pairs
  <2> QED BY <2>1 DEF Steps
<1>2. PICK w : Folds(w, m, V, cards, D)
  <2> HIDE DEF D, V
  <2> QED BY <1>0, <1>1, SetRecursion
<1>3. \A s \in SUBSET (1..m) : s # {} => Max(s) \in 1..m /\ s \ {Max(s)} \in SUBSET (1..m)
  BY MaxOfPart
<1>4. \A k \in 1..m, c \in V : D[k][c] = step(c, pairs[k])
  OBVIOUS
<1> HIDE DEF V, D, step, pairs
<1>5. w = [s \in SUBSET (1..m) |->
            IF s = {} THEN cards ELSE step(w[s \ {Max(s)}], pairs[Max(s)])]
  BY <1>2, <1>3, <1>4 DEF Folds
<1>6. it = [s \in SUBSET (1..m) |->
             IF s = {} THEN cards ELSE step(it[s \ {Max(s)}], pairs[Max(s)])]
  BY <1>5
<1> HIDE DEF it
<1>7. Solves(it, m, V, cards, D)
  <2>1. it[{}] = cards
    BY <1>6
  <2>2. \A s \in SUBSET (1..m) : s # {} => it[s] = step(it[s \ {Max(s)}], pairs[Max(s)])
    BY <1>6
  <2> QED BY <1>3, <1>4, <2>1, <2>2 DEF Solves
<1>8. ToFront(cards, at) = SubSeq(it[1..m], 1, Len(at))
  <2>1. DOMAIN at = 1..m
    OBVIOUS
  <2>2. pairs = [k \in DOMAIN at |-> <<k, at[k]>>] /\ DOMAIN pairs = 1..m
    BY <2>1 DEF pairs
  <2>3. ToFront(cards, at) = SubSeq(FoldLeft(Swapped, cards, pairs), 1, Len(at))
    BY <2>2 DEF ToFront
  <2>4. FoldLeft(Swapped, cards, pairs) = it[1..m]
    BY <2>2 DEF FoldLeft, MapThenFoldSet, it, step
  <2> QED BY <2>3, <2>4
<1>9. PICK h : Trace(h, m, V, cards, D) /\ h[m] = it[1..m]
  BY <1>0, <1>1, <1>7, FoldTrace
<1>10. \A k \in 1..m : h[k] = step(h[k - 1], pairs[k])
  <2>1. \A k \in 1..m : h[k - 1] \in V
    BY <1>9 DEF Trace
  <2> QED BY <1>4, <1>9, <2>1 DEF Trace
<1>11. h \in [0..m -> V] /\ h[0] = cards
  BY <1>9 DEF Trace
<1>12. \A k \in 1..m : pairs[k] = <<k, at[k]>>
  BY DEF pairs
<1> QED BY <1>8, <1>9, <1>10, <1>11, <1>12 DEF V, step, Swaps

\* Positions in ascending order, moved to the front in that order.
LEMMA FrontOfAscending ==
  ASSUME NEW C, NEW cards \in Seq(C), NEW m \in Nat, NEW at \in [1..m -> DOMAIN cards],
         \A k, l \in 1..m : k < l => at[k] < at[l]
  PROVE  /\ m <= Len(cards)
         /\ ToFront(cards, at) = [k \in 1..m |-> cards[at[k]]]
<1>0. DOMAIN cards = 1..Len(cards) /\ Len(cards) \in Nat
  BY Positions
<1>1. \A k \in 1..m : at[k] >= k
  <2> DEFINE S == {n \in 0..m : n = 0 \/ at[n] >= n}
  <2>1. 0 \in S
    OBVIOUS
  <2>2. ASSUME NEW n \in 0..(m - 1), n \in S PROVE n + 1 \in S
    <3>1. n + 1 \in 1..m /\ at[n + 1] \in Int /\ at[n + 1] >= 1
      BY <1>0
    <3>2. CASE n = 0
      BY <3>1, <3>2
    <3>3. CASE n # 0
      <4>1. n \in 1..m /\ at[n] \in Int /\ at[n] >= n
        BY <1>0, <2>2, <3>3
      <4>2. at[n] < at[n + 1]
        BY <3>1, <4>1
      <4> QED BY <3>1, <4>1, <4>2
    <3> QED BY <3>2, <3>3
  <2>3. 0..m \subseteq S
    <3> HIDE DEF S
    <3> QED BY <2>1, <2>2, Climb
  <2> QED BY <2>3
<1>2. m <= Len(cards)
  <2>1. CASE m = 0
    BY <1>0, <2>1
  <2>2. CASE m # 0
    <3>1. m \in 1..m /\ at[m] \in 1..Len(cards) /\ at[m] >= m
      BY <1>0, <1>1, <2>2
    <3> QED BY <1>0, <3>1
  <2> QED BY <2>1, <2>2
<1>3. PICK h : Swaps(h, C, cards, at, m) /\ ToFront(cards, at) = SubSeq(h[m], 1, Len(at))
  BY <1>2, SwappedTrace
<1> DEFINE Done(k) == /\ \A l \in 1..k : h[k][l] = cards[at[l]]
                      /\ \A i \in DOMAIN cards : (\A l \in 1..k : i > at[l]) /\ i > k
                                                   => h[k][i] = cards[i]
           S == {k \in 0..m : Done(k)}
<1>4. 0 \in S
  BY <1>3 DEF Swaps
<1>5. ASSUME NEW n \in 0..(m - 1), n \in S PROVE n + 1 \in S
  <2> DEFINE old == h[n]
             new == h[n + 1]
             a   == at[n + 1]
  <2>1. n + 1 \in 1..m /\ n + 1 \in DOMAIN cards /\ (n + 1) - 1 = n /\ n + 1 \in 0..m
    BY <1>0, <1>2
  <2>2. old \in [DOMAIN cards -> C] /\ a \in DOMAIN cards /\ a >= n + 1
    BY <1>1, <1>3, <2>1 DEF Swaps
  <2>3. new = Swapped(old, <<n + 1, a>>)
    BY <1>3, <2>1 DEF Swaps
  <2>4. \A i \in DOMAIN cards : new[i] = IF i = a THEN old[n + 1]
                                          ELSE IF i = n + 1 THEN old[a] ELSE old[i]
    BY <2>1, <2>2, <2>3 DEF Swapped
  <2>5. Done(n)
    BY <1>5
  <2>6. \A l \in 1..n : l \in 1..m /\ l \in DOMAIN cards /\ l < n + 1 /\ at[l] < a
    BY <1>0, <1>2, <2>1
  <2>7. old[a] = cards[a]
    <3>1. \A l \in 1..n : a > at[l]
      BY <1>0, <2>2, <2>6
    <3>2. a > n
      BY <1>0, <2>2
    <3> QED BY <2>2, <2>5, <3>1, <3>2
  <2>8. new[n + 1] = cards[a]
    BY <2>1, <2>2, <2>4, <2>7
  <2>9. ASSUME NEW l \in 1..n PROVE new[l] = cards[at[l]]
    <3>1. l # a /\ l # n + 1 /\ l \in DOMAIN cards
      BY <1>0, <2>2, <2>6
    <3> QED BY <2>4, <2>5, <3>1
  <2>10. \A l \in 1..(n + 1) : new[l] = cards[at[l]]
    <3>1. \A l \in 1..(n + 1) : l \in 1..n \/ l = n + 1
      OBVIOUS
    <3> HIDE DEF new
    <3> QED BY <2>8, <2>9, <3>1
  <2>11. ASSUME NEW i \in DOMAIN cards, \A l \in 1..(n + 1) : i > at[l], i > n + 1
         PROVE  new[i] = cards[i]
    <3>1. i > a /\ i # a /\ i # n + 1 /\ i > n
      BY <1>0, <2>2, <2>11
    <3>2. \A l \in 1..n : i > at[l]
      BY <2>11
    <3> QED BY <2>4, <2>5, <3>1, <3>2
  <2>12. Done(n + 1)
    BY <2>10, <2>11
  <2> QED BY <2>1, <2>12
<1>6. m \in S
  <2>1. 0..m \subseteq S
    <3> HIDE DEF S
    <3> QED BY <1>4, <1>5, Climb
  <2> QED BY <2>1
<1>7. \A l \in 1..m : h[m][l] = cards[at[l]]
  BY <1>6
<1>8. Len(at) = m
  <2>1. at \in Seq(DOMAIN cards) /\ DOMAIN at = 1..m
    BY IsASeq
  <2>2. DOMAIN at = 1..Len(at) /\ Len(at) \in Nat
    BY <2>1, LenProperties
  <2> QED BY <2>1, <2>2
<1>9. SubSeq(h[m], 1, m) = [k \in 1..m |-> h[m][k]]
  <2> DEFINE s == h[m]
             u == SubSeq(s, 1, m)
  <2>1. \A i \in 1..m : s[i] \in C
    BY <1>0, <1>2, <1>3 DEF Swaps
  <2> HIDE DEF s
  <2>2. /\ u \in Seq(C)
        /\ Len(u) = IF 1 <= m THEN m - 1 + 1 ELSE 0
        /\ \A i \in 1..(m - 1 + 1) : u[i] = s[1 + i - 1]
    BY <2>1, SubSeqProperties
  <2> HIDE DEF u
  <2>3. Len(u) = m
    BY <2>2
  <2>4. \A i \in 1..m : u[i] = s[i]
    BY <2>2
  <2>5. u \in [1..m -> C]
    BY <2>2, <2>3, LenProperties
  <2>6. u = [i \in 1..m |-> s[i]]
    BY <2>4, <2>5
  <2> QED BY <2>6 DEF s, u
<1> QED BY <1>2, <1>3, <1>7, <1>8, <1>9

-----------------------------------------------------------------------------
(* Counting.                                                               *)

\* Everything in M is the value of f at one member of A.
Numbers(f, A, M) ==
  /\ f = [a \in A |-> f[a]]
  /\ \A a \in A : f[a] \in M
  /\ \A y \in M : \E a \in A : f[a] = y
  /\ \A a, b \in A : f[a] = f[b] => a = b

\* Counting by numbering.
LEMMA SameSize ==
  ASSUME NEW A, IsFiniteSet(A), NEW M, NEW f, Numbers(f, A, M)
  PROVE  IsFiniteSet(M) /\ Cardinality(M) = Cardinality(A)
<1>0. f \in [A -> M]
  BY DEF Numbers
<1>1. f \in Bijection(A, M)
  <2>1. f \in Injection(A, M)
    BY <1>0 DEF Injection, IsInjective, Numbers
  <2>2. f \in Surjection(A, M)
    BY <1>0 DEF Surjection, Numbers
  <2> QED BY <2>1, <2>2 DEF Bijection
<1> QED BY <1>1, FS_Bijection DEF ExistsBijection

\* The first few of a sorted set: as many as were asked for or as there are.
LEMMA FirstFew ==
  ASSUME NEW S, NEW key, NEW s, InOrder(s, S, key), NEW few \in Nat, NEW T,
         T = {s[k] : k \in {n \in 1..Cardinality(S) : n <= few}}
  PROVE  /\ IsFiniteSet(T)
         /\ Cardinality(T) = IF few < Cardinality(S) THEN few ELSE Cardinality(S)
<1> DEFINE n == Cardinality(S)
           m == IF few < n THEN few ELSE n
           A == 1..m
           f == [k \in A |-> s[k]]
<1>1. n \in Nat /\ m \in Nat /\ m <= n
  BY DEF InOrder
<1>2. A = {k \in 1..n : k <= few}
  BY <1>1
<1>3. IsFiniteSet(A) /\ Cardinality(A) = m
  <2> HIDE DEF m
  <2>1. IsFiniteSet(1..m) /\ Cardinality(1..m) = m
    BY <1>1, FS_Interval
  <2> QED BY <2>1
<1>4. f \in [A -> S]
  BY <1>1 DEF InOrder
<1>5. \A a, b \in A : f[a] = f[b] => a = b
  BY <1>1 DEF InOrder
<1>6. Numbers(f, A, T)
  <2>1. \A a \in A : f[a] \in T
    BY <1>2
  <2>2. \A y \in T : \E a \in A : f[a] = y
    BY <1>2
  <2> QED BY <1>5, <2>1, <2>2 DEF Numbers
<1> HIDE DEF A, f, m, n
<1>7. IsFiniteSet(T) /\ Cardinality(T) = Cardinality(A)
  BY <1>3, <1>6, SameSize
<1> QED BY <1>3, <1>7 DEF m, n

\* Single numbers as keys.
LEMMA NumberKeys ==
  ASSUME NEW S, IsFiniteSet(S), NEW num \in [S -> Int], NEW key,
         \A i \in S : key[i] = <<num[i]>>,
         \A i, j \in S : num[i] = num[j] => i = j
  PROVE  /\ Linear(S, key)
         /\ \A i, j \in S : Before(key[i], key[j]) <=> num[i] < num[j]
<1>1. ASSUME NEW i \in S PROVE key[i] \in Tuple(1) /\ key[i][1] = num[i]
  <2>1. key[i] = <<num[i]>> /\ num[i] \in Int
    OBVIOUS
  <2>2. <<num[i]>> \in Seq(Int) /\ Len(<<num[i]>>) = 1 /\ <<num[i]>>[1] = num[i]
    BY <2>1
  <2> QED BY <2>1, <2>2 DEF Tuple
<1>2. \A i, j \in S : key[i] = key[j] => i = j
  BY <1>1
<1>3. Linear(S, key)
  BY <1>1, <1>2 DEF Linear
<1>4. ASSUME NEW i \in S, NEW j \in S
      PROVE  Before(key[i], key[j]) <=> num[i] < num[j]
  <2>1. key[i] = <<num[i]>> /\ key[j] = <<num[j]>> /\ num[i] \in Int /\ num[j] \in Int
    OBVIOUS
  <2>2. Before(<<num[i]>>, <<num[j]>>) <=> num[i] < num[j]
    BY <2>1 DEF Before
  <2> QED BY <2>1, <2>2
<1> QED BY <1>3, <1>4

\* What Ascending returns: every member once, and growing.
Ascends(s, S) ==
  /\ Cardinality(S) \in Nat
  /\ s \in [1..Cardinality(S) -> S]
  /\ \A i \in S : \E k \in 1..Cardinality(S) : s[k] = i
  /\ \A k, l \in 1..Cardinality(S) : s[k] = s[l] => k = l
  /\ \A k, l \in 1..Cardinality(S) : k < l => s[k] < s[l]

\* Positions are sorted by themselves.
LEMMA AscendingProperties ==
  ASSUME NEW S, IsFiniteSet(S), \A i \in S : i \in Int
  PROVE  Ascends(Ascending(S), S)
<1> DEFINE key == [i \in S |-> <<i>>]
           num == [i \in S |-> i]
           s   == Ascending(S)
<1>1. num \in [S -> Int] /\ \A i \in S : num[i] = i /\ key[i] = <<num[i]>>
  OBVIOUS
<1>2. \A i, j \in S : num[i] = num[j] => i = j
  OBVIOUS
<1>3. s = Sorted(S, key)
  BY DEF Ascending
<1> HIDE DEF key, num, s
<1>4. /\ Linear(S, key)
      /\ \A i, j \in S : Before(key[i], key[j]) <=> num[i] < num[j]
  BY <1>1, <1>2, NumberKeys
<1>5. InOrder(s, S, key)
  BY <1>3, <1>4, SortedProperties
<1>6. /\ Cardinality(S) \in Nat
      /\ s \in [1..Cardinality(S) -> S]
      /\ \A i \in S : \E k \in 1..Cardinality(S) : s[k] = i
      /\ \A k, l \in 1..Cardinality(S) : s[k] = s[l] => k = l
  BY <1>5 DEF InOrder
<1>7. \A k, l \in 1..Cardinality(S) : k < l => s[k] < s[l]
  BY <1>1, <1>4, <1>5, <1>6 DEF InOrder
<1> QED BY <1>6, <1>7 DEF Ascends, s

-----------------------------------------------------------------------------
(* What a cap keeps.                                                       *)

\* The same cards, in some order.
SameCards(s, cards) ==
  /\ Len(s) = Len(cards)
  /\ {s[k] : k \in DOMAIN s} = {cards[i] : i \in DOMAIN cards}

\* Sorting cards neither drops nor adds one.
LEMMA SortCardsProperties ==
  ASSUME NEW C, Rankable(C), NEW cards \in Seq(C)
  PROVE  SortCards(cards) \in Seq(C) /\ SameCards(SortCards(cards), cards)
<1> DEFINE key == [i \in DOMAIN cards |-> <<cards[i].file, cards[i].line, i>>]
           at  == Sorted(DOMAIN cards, key)
           n   == Len(cards)
           e(k) == cards[at[k]]
           s   == [k \in 1..n |-> e(k)]
<1>1. n \in Nat /\ DOMAIN cards = 1..n /\ Cardinality(DOMAIN cards) = n
      /\ \A i \in DOMAIN cards : cards[i] \in C
  BY Positions
<1>2. InOrder(at, DOMAIN cards, key)
  <2>1. Linear(DOMAIN cards, key)
    BY PlaceKeys
  <2> HIDE DEF key
  <2> QED BY <2>1, SortedProperties
<1> HIDE DEF at
<1>3. at \in [1..n -> DOMAIN cards] /\ \A i \in DOMAIN cards : \E k \in 1..n : at[k] = i
  BY <1>1, <1>2 DEF InOrder
<1>4. SortCards(cards) = s
  <2>1. DOMAIN at = 1..n
    BY <1>3
  <2> QED BY <2>1 DEF SortCards, at
<1>5. \A k \in 1..n : e(k) \in C
  BY <1>1, <1>3
<1> HIDE DEF e
<1>6. s \in Seq(C)
  <2> HIDE DEF n
  <2> QED BY <1>1, <1>5, IsASeq
<1>7. Len(s) = n
  <2>1. DOMAIN s = 1..n /\ DOMAIN s = 1..Len(s) /\ Len(s) \in Nat
    BY <1>6, LenProperties
  <2> HIDE DEF s, n
  <2> QED BY <1>1, <2>1
<1>8. {s[k] : k \in DOMAIN s} = {cards[i] : i \in DOMAIN cards}
  BY <1>3 DEF e
<1> QED BY <1>4, <1>6, <1>7, <1>8 DEF SameCards

\* The best card of each file.
Best(cards, f) ==
  {i \in DOMAIN cards :
     /\ cards[i].file = f
     /\ \A j \in DOMAIN cards \ {i} :
          cards[j].file = f => Before(RankKey(cards)[i], RankKey(cards)[j])}

Bests(cards) == UNION {Best(cards, f) : f \in FilesOf(cards)}

\* Every file has one best card, and it is the one Breadth takes.
LEMMA BestIsSmallest ==
  ASSUME NEW C, Rankable(C), NEW cards \in Seq(C), NEW f \in FilesOf(cards),
         NEW b, b = Smallest({i \in DOMAIN cards : cards[i].file = f}, RankKey(cards))
  PROVE  b \in DOMAIN cards /\ cards[b].file = f /\ Best(cards, f) = {b}
<1> DEFINE key == RankKey(cards)
           G   == {i \in DOMAIN cards : cards[i].file = f}
<1>1. Linear(DOMAIN cards, key)
  BY RankKeys
<1>2. Linear(G, key) /\ G # {}
  BY <1>1, LinearPart DEF FilesOf
<1>3. \E i \in G : \A j \in G \ {i} : Before(key[i], key[j])
  <2> HIDE DEF G, key
  <2> QED BY <1>2, FirstOfAll
<1>4. b \in G /\ \A j \in G \ {b} : Before(key[b], key[j])
  BY <1>3 DEF Smallest
<1>5. b \in Best(cards, f)
  BY <1>4 DEF Best
<1>6. ASSUME NEW i \in Best(cards, f) PROVE i = b
  <2>1. i \in G /\ (i # b => Before(key[i], key[b]))
    BY <1>4 DEF Best
  <2>2. i # b => Before(key[b], key[i])
    BY <1>4, <2>1
  <2> HIDE DEF key, G
  <2> QED BY <1>2, <1>4, <2>1, <2>2, LinearOrder
<1> QED BY <1>4, <1>5, <1>6

\* Breadth takes best cards: those of every file, or as many as the budget has.
LEMMA BreadthIsBest ==
  ASSUME NEW C, Rankable(C), NEW cards \in Seq(C), NEW budget \in Nat
  PROVE  /\ Breadth(cards, budget) \subseteq DOMAIN cards
         /\ Breadth(cards, budget) \subseteq Bests(cards)
         /\ IsFiniteSet(Breadth(cards, budget))
         /\ Cardinality(Breadth(cards, budget)) <= budget
         /\ \/ Bests(cards) \subseteq Breadth(cards, budget)
            \/ Cardinality(Breadth(cards, budget)) = budget
<1> DEFINE files    == FilesOf(cards)
           is(f, i) == cards[i].file = f /\ \A j \in 1..(i - 1) : cards[j].file # f
           first(f) == CHOOSE i \in DOMAIN cards :
                         cards[i].file = f /\ \A j \in 1..(i - 1) : cards[j].file # f
           key      == [f \in files |-> <<first(f)>>]
           early    == {f \in files :
                          Cardinality({g \in files : first(g) < first(f)}) < budget}
           best     == [f \in early |->
                          Smallest({i \in DOMAIN cards : cards[i].file = f}, RankKey(cards))]
           B        == Breadth(cards, budget)
           s        == Sorted(files, key)
<1>1. Len(cards) \in Nat /\ DOMAIN cards = 1..Len(cards) /\ IsFiniteSet(DOMAIN cards)
  BY Positions
<1>2. IsFiniteSet(files)
  <2> DEFINE fileOf == [i \in DOMAIN cards |-> cards[i].file]
             places == DOMAIN cards
  <2>1. fileOf \in Surjection(places, files)
    BY DEF FilesOf, Surjection
  <2> HIDE DEF files, fileOf, places
  <2>2. IsFiniteSet(places)
    BY <1>1 DEF places
  <2> QED BY <2>1, <2>2, FS_Surjection
<1>3. ASSUME NEW f \in files PROVE first(f) \in DOMAIN cards /\ is(f, first(f))
  <2> DEFINE T == {i \in DOMAIN cards : cards[i].file = f}
  <2>1. T \in SUBSET Nat /\ T # {}
    BY <1>1 DEF FilesOf
  <2>2. PICK i \in T : \A j \in T : i <= j
    <3> HIDE DEF T
    <3> QED BY <2>1, Least
  <2>3. \A j \in 1..(i - 1) : cards[j].file # f
    <3> SUFFICES ASSUME NEW j \in 1..(i - 1) PROVE cards[j].file # f
      OBVIOUS
    <3>1. j \in DOMAIN cards /\ ~(i <= j)
      BY <1>1
    <3> QED BY <2>2, <3>1
  <2> QED BY <2>3
<1>4. \A f, g \in files : first(f) = first(g) => f = g
  BY <1>3
<1>5. /\ Linear(files, key)
      /\ \A f, g \in files : Before(key[f], key[g]) <=> first(f) < first(g)
  <2> DEFINE num == [f \in files |-> first(f)]
  <2>1. num \in [files -> Int] /\ \A f \in files : num[f] = first(f) /\ key[f] = <<num[f]>>
    BY <1>1, <1>3
  <2>2. \A f, g \in files : num[f] = num[g] => f = g
    BY <1>4, <2>1
  <2> HIDE DEF first, key, files, num
  <2>3. /\ Linear(files, key)
        /\ \A f, g \in files : Before(key[f], key[g]) <=> num[f] < num[g]
    BY <1>2, <2>1, <2>2, NumberKeys
  <2> QED BY <2>1, <2>3
<1>6. InOrder(s, files, key)
  <2> HIDE DEF key, files
  <2> QED BY <1>5, SortedProperties
<1>7. early = {s[k] : k \in {n \in 1..Cardinality(files) : n <= budget}}
  <2>1. \A f \in files : f \in early <=> Rank(files, key, f) < budget
    <3> SUFFICES ASSUME NEW f \in files
                 PROVE  Rank(files, key, f) = Cardinality({g \in files : first(g) < first(f)})
      OBVIOUS
    <3>1. {g \in files : first(g) < first(f)} = {g \in files : Before(key[g], key[f])}
      BY <1>5
    <3> HIDE DEF first, key, files
    <3> QED BY <3>1 DEF Rank
  <2>2. early \subseteq files
    OBVIOUS
  <2> HIDE DEF early, first, key, files, s
  <2>3. /\ Cardinality(files) \in Nat
        /\ \A k \in 1..Cardinality(files) : s[k] \in files /\ Rank(files, key, s[k]) = k - 1
        /\ \A f \in files : \E k \in 1..Cardinality(files) : s[k] = f
    BY <1>6 DEF InOrder
  <2>4. \A k \in 1..Cardinality(files) : s[k] \in early <=> k <= budget
    <3> SUFFICES ASSUME NEW k \in 1..Cardinality(files)
                 PROVE  s[k] \in early <=> k <= budget
      OBVIOUS
    <3>1. s[k] \in early <=> k - 1 < budget
      BY <2>1, <2>3
    <3> QED BY <2>3, <3>1
  <2> QED BY <2>2, <2>3, <2>4
<1>8. /\ IsFiniteSet(early)
      /\ Cardinality(early) = IF budget < Cardinality(files) THEN budget ELSE Cardinality(files)
  <2> HIDE DEF early, first, key, files, s
  <2> QED BY <1>6, <1>7, FirstFew
<1>9. \A f \in early : /\ best[f] \in DOMAIN cards
                       /\ cards[best[f]].file = f /\ Best(cards, f) = {best[f]}
  <2>1. early \subseteq files
    OBVIOUS
  <2> HIDE DEF early
  <2> QED BY <2>1, BestIsSmallest
<1>10. B = {best[f] : f \in early}
  BY DEF Breadth
<1>11. IsFiniteSet(B) /\ Cardinality(B) = Cardinality(early)
  <2>1. IsFiniteSet(early)
    BY <1>8
  <2>2. Numbers(best, early, B)
    <3>1. best = [f \in early |-> best[f]]
      OBVIOUS
    <3>2. \A f, g \in early : best[f] = best[g] => f = g
      BY <1>9
    <3> HIDE DEF best, early, B
    <3> QED BY <1>10, <3>1, <3>2 DEF Numbers
  <2> HIDE DEF best, early, B
  <2> QED BY <2>1, <2>2, SameSize
<1>12. B \subseteq DOMAIN cards /\ B \subseteq Bests(cards)
  <2>1. early \subseteq files
    OBVIOUS
  <2> HIDE DEF early, best, B
  <2> QED BY <1>9, <1>10, <2>1 DEF Bests
<1>13. CASE budget < Cardinality(files)
  BY <1>8, <1>11, <1>12, <1>13
<1>14. CASE ~(budget < Cardinality(files))
  <2>1. Cardinality(files) \in Nat
    BY <1>2, FS_CardinalityType
  <2>2. early = files
    <3>1. early \in SUBSET files
      OBVIOUS
    <3> HIDE DEF early, files
    <3> QED BY <1>2, <1>8, <1>14, <3>1, FS_Subset
  <2> HIDE DEF early, best, B
  <2>3. Bests(cards) \subseteq B
    BY <1>9, <1>10, <2>2 DEF Bests
  <2> QED BY <1>8, <1>11, <1>12, <1>14, <2>1, <2>3 DEF B
<1> QED BY <1>13, <1>14

\* No card is there twice.
Distinct(cards) == \A i, j \in DOMAIN cards : cards[i] = cards[j] => i = j

\* What is left of the budget goes to the best of the rest.
FillsUp(D, B, cards, budget) ==
  /\ D \subseteq DOMAIN cards \ B
  /\ IsFiniteSet(B \cup D) /\ Cardinality(B \cup D) = budget
  /\ Cardinality(B) = budget => D = {}
  /\ \A i \in D, j \in (DOMAIN cards \ B) \ D :
       Before(RankKey(cards)[i], RankKey(cards)[j])

\* That is what Depth does, once Breadth has left something of the budget.
LEMMA DepthIsNext ==
  ASSUME NEW C, Rankable(C), NEW cards \in Seq(C), NEW budget \in Nat,
         NEW B \in SUBSET (DOMAIN cards), Cardinality(B) <= budget, budget <= Len(cards),
         NEW D, D = Depth(cards, B, budget)
  PROVE  FillsUp(D, B, cards, budget)
<1> DEFINE key  == RankKey(cards)
           left == DOMAIN cards \ B
           rest == Sorted(left, key)
           room == budget - Cardinality(B)
           few  == {rest[k] : k \in {n \in 1..Cardinality(left) : n <= room}}
<1>1. /\ Len(cards) \in Nat /\ IsFiniteSet(DOMAIN cards)
      /\ Cardinality(DOMAIN cards) = Len(cards)
  BY Positions
<1>2. InOrder(rest, left, key)
  <2>1. Linear(DOMAIN cards, key)
    BY RankKeys
  <2>2. left \in SUBSET DOMAIN cards
    OBVIOUS
  <2> HIDE DEF key, left
  <2>3. Linear(left, key)
    BY <2>1, <2>2, LinearPart
  <2> HIDE DEF rest
  <2> QED BY <2>3, SortedProperties DEF rest
<1>3. IsFiniteSet(B) /\ Cardinality(B) \in Nat
  BY <1>1, FS_Subset, FS_CardinalityType
<1>4. IsFiniteSet(left) /\ Cardinality(left) = Len(cards) - Cardinality(B)
  <2> DEFINE all == DOMAIN cards
  <2>1. B \in SUBSET all /\ IsFiniteSet(all) /\ Cardinality(all) = Len(cards)
    BY <1>1
  <2>2. left = all \ B /\ all \cap B = B
    OBVIOUS
  <2> HIDE DEF all, left
  <2>3. IsFiniteSet(all \ B) /\ Cardinality(all \ B) = Cardinality(all) - Cardinality(all \cap B)
    BY <2>1, FS_Difference
  <2> QED BY <2>1, <2>2, <2>3
<1>5. room \in Nat /\ room <= Cardinality(left)
  BY <1>1, <1>3, <1>4
<1>6. D = few
  <2>1. DOMAIN rest = 1..Cardinality(left)
    <3> HIDE DEF rest, left, key
    <3> QED BY <1>2 DEF InOrder
  <2> QED BY <2>1 DEF Depth
<1>7. IsFiniteSet(D) /\ Cardinality(D) = room
  <2> HIDE DEF rest, left, key, room
  <2>1. /\ IsFiniteSet(D)
        /\ Cardinality(D) = IF room < Cardinality(left) THEN room ELSE Cardinality(left)
    BY <1>2, <1>5, <1>6, FirstFew
  <2>2. Cardinality(left) \in Nat
    BY <1>4, FS_CardinalityType
  <2> QED BY <1>5, <2>1, <2>2
<1>8. D \subseteq left
  <2> HIDE DEF rest, left, key, room
  <2> QED BY <1>2, <1>6 DEF InOrder
<1>9. IsFiniteSet(B \cup D) /\ Cardinality(B \cup D) = budget
  <2>1. B \cap D = {}
    BY <1>8
  <2> HIDE DEF room
  <2>2. /\ IsFiniteSet(B \cup D)
        /\ Cardinality(B \cup D) = Cardinality(B) + Cardinality(D) - Cardinality(B \cap D)
    BY <1>3, <1>7, FS_Union
  <2>3. Cardinality(B \cap D) = 0
    BY <2>1, FS_EmptySet
  <2> QED BY <1>3, <1>7, <2>2, <2>3 DEF room
<1>10. Cardinality(B) = budget => D = {}
  BY <1>3, <1>7, FS_EmptySet
<1>11. ASSUME NEW i \in D, NEW j \in left \ D PROVE Before(key[i], key[j])
  <2> HIDE DEF rest, left, key
  <2>1. PICK k \in 1..Cardinality(left) : rest[k] = i /\ k <= room
    BY <1>6
  <2>2. PICK l \in 1..Cardinality(left) : rest[l] = j
    BY <1>2 DEF InOrder
  <2>3. ~(l <= room)
    BY <1>6, <2>2
  <2>4. k < l
    BY <1>5, <2>1, <2>3
  <2> QED BY <1>2, <2>1, <2>2, <2>4 DEF InOrder
<1> QED BY <1>8, <1>9, <1>10, <1>11 DEF FillsUp

\* Cards that are kept, seen as positions.
KeptAt(kept, cards, chosen) ==
  /\ Len(kept) = Cardinality(chosen)
  /\ {kept[k] : k \in DOMAIN kept} = {cards[i] : i \in chosen}

\* A cap keeps the cards that Breadth and Depth choose, and nothing else: the
\* swaps that move them to the front displace none of them.
LEMMA SpreadKeeps ==
  ASSUME NEW C, Rankable(C), NEW cards \in Seq(C), NEW budget \in Nat, budget <= Len(cards),
         NEW B, B = Breadth(cards, budget), NEW D, D = Depth(cards, B, budget)
  PROVE  /\ SpreadSelectCards(cards, budget) \in Seq(C)
         /\ B \cup D \subseteq DOMAIN cards
         /\ KeptAt(SpreadSelectCards(cards, budget), cards, B \cup D)
<1> DEFINE chosen == B \cup D
           at     == Ascending(chosen)
           m      == Cardinality(chosen)
           e(k)   == cards[at[k]]
           front  == [k \in 1..m |-> e(k)]
<1>1. DOMAIN cards = 1..Len(cards) /\ \A i \in DOMAIN cards : cards[i] \in C /\ i \in Int
  BY Positions
<1>2. B \in SUBSET (DOMAIN cards) /\ Cardinality(B) <= budget
  BY BreadthIsBest
<1>3. chosen \subseteq DOMAIN cards /\ IsFiniteSet(chosen) /\ m \in Nat
  <2>1. D \subseteq DOMAIN cards \ B /\ IsFiniteSet(B \cup D)
    BY <1>2, DepthIsNext DEF FillsUp
  <2>2. Cardinality(B \cup D) \in Nat
    BY <2>1, FS_CardinalityType
  <2> QED BY <1>2, <2>1, <2>2
<1>4. Ascends(at, chosen)
  <2>1. \A i \in chosen : i \in Int
    BY <1>1, <1>3
  <2> HIDE DEF chosen
  <2> QED BY <1>3, <2>1, AscendingProperties
<1> HIDE DEF at, chosen
<1>5. /\ at \in [1..m -> chosen]
      /\ \A i \in chosen : \E k \in 1..m : at[k] = i
      /\ \A k, l \in 1..m : k < l => at[k] < at[l]
  BY <1>4 DEF Ascends
<1>6. ToFront(cards, at) = front
  <2>1. at \in [1..m -> DOMAIN cards]
    BY <1>3, <1>5
  <2> HIDE DEF m
  <2>2. ToFront(cards, at) = [k \in 1..m |-> cards[at[k]]]
    BY <1>3, <1>5, <2>1, FrontOfAscending
  <2> QED BY <2>2
<1>7. \A k \in 1..m : e(k) \in C
  BY <1>1, <1>3, <1>5
<1>8. front \in Seq(C) /\ Len(front) = m /\ DOMAIN front = 1..m
  <2>1. DOMAIN front = 1..m
    OBVIOUS
  <2> HIDE DEF e, m
  <2>2. front \in Seq(C)
    BY <1>3, <1>7, IsASeq
  <2> HIDE DEF front
  <2>3. Len(front) \in Nat /\ DOMAIN front = 1..Len(front)
    BY <2>2, LenProperties
  <2> QED BY <1>3, <2>1, <2>2, <2>3
<1>9. {front[k] : k \in DOMAIN front} = {cards[i] : i \in chosen}
  BY <1>5, <1>8
<1>10. SpreadSelectCards(cards, budget) = SortCards(front)
  BY <1>6 DEF SpreadSelectCards, at, chosen
<1> HIDE DEF front
<1>11. SortCards(front) \in Seq(C) /\ SameCards(SortCards(front), front)
  BY <1>8, SortCardsProperties
<1> QED BY <1>3, <1>8, <1>9, <1>10, <1>11 DEF SameCards, KeptAt, chosen

\* Who outranks another is before it by the key of rank,
LEMMA OutranksIsBefore ==
  ASSUME NEW C, Rankable(C), NEW cards \in Seq(C),
         NEW i \in DOMAIN cards, NEW j \in DOMAIN cards, Outranks(cards[i], cards[j])
  PROVE  Before(RankKey(cards)[i], RankKey(cards)[j])
<1> DEFINE s == UrgencyKey(cards[i])
           t == UrgencyKey(cards[j])
           k == RankKey(cards)[i]
           l == RankKey(cards)[j]
<1>1. /\ DOMAIN s = 1..3 /\ DOMAIN k = 1..5
      /\ k[1] = s[1] /\ k[2] = s[2] /\ k[3] = s[3] /\ k[4] = cards[i].line
      /\ l[1] = t[1] /\ l[2] = t[2] /\ l[3] = t[3] /\ l[4] = cards[j].line
  BY DEF UrgencyKey, RankKey
<1> HIDE DEF s, t, k, l
<1>2. CASE Before(s, t)
  <2>1. PICK n \in 1..3 : s[n] < t[n] /\ \A m \in 1..(n - 1) : s[m] = t[m]
    BY <1>1, <1>2 DEF Before
  <2>2. n \in 1..5 /\ k[n] < l[n] /\ \A m \in 1..(n - 1) : k[m] = l[m]
    BY <1>1, <2>1
  <2>3. Before(k, l)
    BY <1>1, <2>2 DEF Before
  <2> QED BY <2>3 DEF k, l
<1>3. CASE s = t /\ cards[i].line < cards[j].line
  <2>1. 4 \in 1..5 /\ k[4] < l[4] /\ \A m \in 1..(4 - 1) : k[m] = l[m]
    BY <1>1, <1>3
  <2>2. Before(k, l)
    BY <1>1, <2>1 DEF Before
  <2> QED BY <2>2 DEF k, l
<1> QED BY <1>2, <1>3 DEF Outranks, s, t

\* so that who is before another is not outranked by it,
LEMMA NotOutranked ==
  ASSUME NEW C, Rankable(C), NEW cards \in Seq(C),
         NEW i \in DOMAIN cards, NEW j \in DOMAIN cards,
         Before(RankKey(cards)[i], RankKey(cards)[j])
  PROVE  ~Outranks(cards[j], cards[i])
<1>1. Linear(DOMAIN cards, RankKey(cards))
  BY RankKeys
<1>2. ~Before(RankKey(cards)[j], RankKey(cards)[i])
  BY <1>1, LinearOrder
<1> QED BY <1>2, OutranksIsBefore

\* and the best card of a file leads it.
LEMMA BestLeads ==
  ASSUME NEW C, Rankable(C), NEW cards \in Seq(C), NEW f \in FilesOf(cards)
  PROVE  Best(cards, f) # {} /\ Best(cards, f) \subseteq Leading(cards, f)
<1>1. Best(cards, f) # {}
  <2> DEFINE b == Smallest({i \in DOMAIN cards : cards[i].file = f}, RankKey(cards))
  <2>1. Best(cards, f) = {b}
    BY BestIsSmallest
  <2> QED BY <2>1
<1>2. ASSUME NEW i \in Best(cards, f) PROVE i \in Leading(cards, f)
  <2>1. i \in DOMAIN cards /\ cards[i].file = f
    BY <1>2 DEF Best
  <2>2. ASSUME NEW j \in DOMAIN cards, cards[j].file = f, j # i
        PROVE  ~Outranks(cards[j], cards[i])
    <3>1. Before(RankKey(cards)[i], RankKey(cards)[j])
      BY <1>2, <2>2 DEF Best
    <3> QED BY <2>1, <3>1, NotOutranked
  <2>3. ~Outranks(cards[i], cards[i])
    <3>1. ~Before(RankKey(cards)[i], RankKey(cards)[i])
      BY <2>1, RankKeys, LinearOrder
    <3> QED BY <2>1, <3>1, OutranksIsBefore
  <2> QED BY <2>1, <2>2, <2>3 DEF Leading
<1> QED BY <1>1, <1>2

\* What keeps the best card of each file, or as many of those as there is room
\* for, and then the next ones by the key of rank, keeps the best.
LEMMA BestsAreKept ==
  ASSUME NEW C, Rankable(C), NEW cards \in Seq(C), NEW kept, NEW budget \in Nat,
         NEW in, in = Surviving(cards, kept),
         Len(kept) = IF Len(cards) < budget THEN Len(cards) ELSE budget,
         Cardinality(in) = Len(kept),
         Bests(cards) \subseteq in \/ in \subseteq Bests(cards),
         \A i \in in \ Bests(cards), j \in DOMAIN cards \ in :
           Before(RankKey(cards)[i], RankKey(cards)[j])
  PROVE  KeepsTheBest(cards, kept, budget)
<1>1. in \subseteq DOMAIN cards
  BY DEF Surviving
<1>2. Bests(cards) \subseteq Leaders(cards)
  BY BestLeads DEF Bests, Leaders
<1>3. CASE Bests(cards) \subseteq in
  <2>1. \A f \in FilesOf(cards) : Leading(cards, f) \cap in # {}
    BY <1>3, BestLeads DEF Bests
  <2> QED BY <2>1, <1>1, <1>2, NotOutranked DEF KeepsTheBest
<1>4. CASE in \subseteq Bests(cards)
  <2>1. ASSUME NEW i \in in, NEW j \in in, cards[i].file = cards[j].file PROVE i = j
    <3>1. PICK f \in FilesOf(cards) : i \in Best(cards, f)
      BY <1>4 DEF Bests
    <3>2. PICK g \in FilesOf(cards) : j \in Best(cards, g)
      BY <1>4 DEF Bests
    <3>3. f = g
      BY <2>1, <3>1, <3>2 DEF Best
    <3> DEFINE b == Smallest({n \in DOMAIN cards : cards[n].file = f}, RankKey(cards))
    <3>4. Best(cards, f) = {b}
      BY BestIsSmallest
    <3> HIDE DEF b
    <3> QED BY <3>1, <3>2, <3>3, <3>4
  <2> QED BY <2>1, <1>1, <1>2, <1>4, NotOutranked DEF KeepsTheBest
<1> QED BY <1>3, <1>4

\* A cap keeps as many cards as it may, the best of each file it has room for
\* first, and of the rest none that matters less than one it drops
\* (spread_select_cards): for all cards, files and budgets.
THEOREM SpreadKeepsTheBest ==
  ASSUME NEW C, Rankable(C), NEW cards \in Seq(C), Distinct(cards),
         NEW budget \in Nat, budget <= Len(cards)
  PROVE  KeepsTheBest(cards, SpreadSelectCards(cards, budget), budget)
<1> DEFINE kept == SpreadSelectCards(cards, budget)
           B    == Breadth(cards, budget)
           D    == Depth(cards, B, budget)
           in   == Surviving(cards, kept)
<1>1. /\ B \in SUBSET (DOMAIN cards) /\ B \subseteq Bests(cards)
      /\ Cardinality(B) <= budget
      /\ Bests(cards) \subseteq B \/ Cardinality(B) = budget
  BY BreadthIsBest
<1>2. /\ D \subseteq DOMAIN cards \ B
      /\ Cardinality(B \cup D) = budget
      /\ Cardinality(B) = budget => D = {}
      /\ \A i \in D, j \in (DOMAIN cards \ B) \ D :
           Before(RankKey(cards)[i], RankKey(cards)[j])
  <2>1. D = Depth(cards, B, budget)
    OBVIOUS
  <2> HIDE DEF B, D, in, kept
  <2>2. FillsUp(D, B, cards, budget)
    BY <1>1, <2>1, DepthIsNext
  <2> QED BY <2>2 DEF FillsUp
<1>3. KeptAt(kept, cards, B \cup D)
  <2> HIDE DEF B, D, kept
  <2> QED BY SpreadKeeps DEF B, D, kept
<1> HIDE DEF B, D, kept
<1>4. in = B \cup D
  <2>1. ASSUME NEW i \in in PROVE i \in B \cup D
    <3>1. PICK k \in DOMAIN kept : kept[k] = cards[i]
      BY DEF Surviving
    <3>2. PICK j \in B \cup D : cards[j] = kept[k]
      BY <1>3 DEF KeptAt
    <3>3. i \in DOMAIN cards /\ j \in DOMAIN cards
      BY <1>1, <1>2 DEF Surviving
    <3> QED BY <3>1, <3>2, <3>3 DEF Distinct
  <2>2. ASSUME NEW i \in B \cup D PROVE i \in in
    <3>1. i \in DOMAIN cards
      BY <1>1, <1>2
    <3> QED BY <1>3, <3>1 DEF KeptAt, Surviving
  <2> QED BY <2>1, <2>2
<1>5. Len(kept) = budget /\ Cardinality(in) = Len(kept)
  BY <1>2, <1>3, <1>4 DEF KeptAt
<1> HIDE DEF in
<1>6. Len(kept) = IF Len(cards) < budget THEN Len(cards) ELSE budget
  <2>1. Len(cards) \in Nat
    BY Positions
  <2> QED BY <1>5, <2>1
<1>7. Bests(cards) \subseteq in \/ in \subseteq Bests(cards)
  BY <1>1, <1>2, <1>4
<1>8. \A i \in in \ Bests(cards), j \in DOMAIN cards \ in :
        Before(RankKey(cards)[i], RankKey(cards)[j])
  BY <1>1, <1>2, <1>4
<1>9. KeepsTheBest(cards, kept, budget)
  BY <1>5, <1>6, <1>7, <1>8, BestsAreKept DEF in
<1> QED BY <1>9 DEF kept

\* Without a cap, or with one that is not reached, every card is kept.
LEMMA SortingKeepsTheBest ==
  ASSUME NEW C, Rankable(C), NEW cards \in Seq(C), Distinct(cards),
         NEW budget \in Nat, Len(cards) <= budget
  PROVE  KeepsTheBest(cards, SortCards(cards), budget)
<1> DEFINE kept == SortCards(cards)
           in   == Surviving(cards, kept)
<1>1. SameCards(kept, cards)
  BY SortCardsProperties
<1>2. Len(cards) \in Nat /\ Cardinality(DOMAIN cards) = Len(cards)
  BY Positions
<1> HIDE DEF kept
<1>3. in = DOMAIN cards
  BY <1>1 DEF SameCards, Surviving
<1> HIDE DEF in
<1>4. Len(kept) = Len(cards) /\ Cardinality(in) = Len(kept)
  BY <1>1, <1>2, <1>3 DEF SameCards
<1>5. Len(kept) = IF Len(cards) < budget THEN Len(cards) ELSE budget
  BY <1>2, <1>4
<1>6. Bests(cards) \subseteq in
  BY <1>3 DEF Bests, Best
<1>7. \A i \in in \ Bests(cards), j \in DOMAIN cards \ in :
        Before(RankKey(cards)[i], RankKey(cards)[j])
  BY <1>3
<1>8. KeepsTheBest(cards, kept, budget)
  BY <1>4, <1>5, <1>6, <1>7, BestsAreKept DEF in
<1> QED BY <1>8 DEF kept
=============================================================================
