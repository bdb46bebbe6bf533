------------------------------ MODULE Induction ------------------------------
(***************************************************************************)
(* Induction over the natural numbers in the form the proofs of this       *)
(* project can use: about sets of numbers, not about predicates.  With it  *)
(* come induction over sequences, the run that a recursion makes, and the  *)
(* functions that recursive definitions and folds define.                  *)
(***************************************************************************)
EXTENDS Integers, FiniteSets, WellFoundedInduction, SequenceTheorems, FiniteSetTheorems, TLAPS

\* A set of natural numbers has a least one.
LEMMA LeastNumber ==
  ASSUME NEW T \in SUBSET Nat, T # {}
  PROVE  \E x \in T : \A y \in T : x <= y
  <1> DEFINE R == {p \in Nat \X Nat : p[1] < p[2]}
  <1>1. IsWellFoundedOn(R, Nat)
    BY NatLessThanWellFounded DEF OpToRel
  <1>2. PICK x \in T : \A y \in T : <<y, x>> \notin R
    <2>. HIDE DEF R
    <2>. QED
      BY <1>1, WFMin
  <1>3. ASSUME NEW y \in T PROVE x <= y
    <2>1. x \in Nat /\ y \in Nat
      OBVIOUS
    <2>2. y < x => <<y, x>> \in R
      BY <2>1
    <2>. QED
      BY <1>2, <2>1, <2>2
  <1>. QED
    BY <1>3

\* A set that has 0 and with every number the next one has them all.
LEMMA InductionOnSet ==
  ASSUME NEW T, 0 \in T, \A n \in Nat : n \in T => n + 1 \in T
  PROVE  Nat \subseteq T
  <1>. SUFFICES ASSUME Nat \ T # {} PROVE FALSE
    OBVIOUS
  <1>1. PICK x \in Nat \ T : \A y \in Nat \ T : x <= y
    BY LeastNumber
  <1>2. x # 0 /\ x - 1 \in Nat /\ x - 1 \in T
    BY <1>1
  <1>. QED
    BY <1>1, <1>2

\* A nonempty set on which f is a natural number has an element where f is least, ...
LEMMA LeastElement ==
  ASSUME NEW T, T # {}, NEW f, \A x \in T : f[x] \in Nat
  PROVE  \E x \in T : \A y \in T : f[x] <= f[y]
  <1> DEFINE V == {f[x] : x \in T}
  <1>1. V \in SUBSET Nat /\ V # {}
    OBVIOUS
  <1>2. PICK v \in V : \A w \in V : v <= w
    <2>. HIDE DEF V
    <2>. QED
      BY <1>1, LeastNumber
  <1>3. PICK x \in T : f[x] = v
    OBVIOUS
  <1>. QED
    BY <1>2, <1>3

\* ... and one where it is greatest, if f is bounded.
LEMMA GreatestElement ==
  ASSUME NEW T, T # {}, NEW f, NEW bound \in Nat, \A x \in T : f[x] \in 0 .. bound
  PROVE  \E x \in T : \A y \in T : f[y] <= f[x]
  <1> DEFINE g == [x \in T |-> bound - f[x]]
  <1>1. \A x \in T : g[x] \in Nat
    OBVIOUS
  <1>2. PICK x \in T : \A y \in T : g[x] <= g[y]
    <2>. HIDE DEF g
    <2>. QED
      BY <1>1, LeastElement
  <1>3. ASSUME NEW y \in T PROVE f[y] <= f[x]
    <2>1. bound - f[x] <= bound - f[y]
      BY <1>2
    <2>. QED
      BY <2>1
  <1>. QED
    BY <1>3

LEMMA FunctionIsSeq ==
  ASSUME NEW A, NEW n \in Nat, NEW s \in [1 .. n -> A]
  PROVE  s \in Seq(A) /\ Len(s) = n
  OBVIOUS

\* A set that has the empty sequence and with every sequence the longer ones has them all.
LEMMA InductionOnSeq ==
  ASSUME NEW S, NEW T, <<>> \in T, \A s \in Seq(S), x \in S : s \in T => Append(s, x) \in T
  PROVE  Seq(S) \subseteq T
  <1> DEFINE N == {n \in Nat : \A s \in Seq(S) : Len(s) = n => s \in T}
  <1>1. 0 \in N
    BY EmptySeq
  <1>2. ASSUME NEW n \in Nat, n \in N PROVE n + 1 \in N
    <2>1. ASSUME NEW s \in Seq(S), Len(s) = n + 1 PROVE s \in T
      <3>1. s # <<>>
        BY <2>1, EmptySeq
      <3>2. PICK t \in Seq(S), x \in S : s = Append(t, x)
        BY <3>1, SequenceEmptyOrAppend
      <3>3. Len(t) \in Nat /\ Len(s) = Len(t) + 1
        BY <3>2, AppendProperties, LenProperties
      <3>4. t \in T
        BY <3>3, <2>1, <1>2
      <3>. QED
        BY <3>2, <3>4
    <2>. QED
      BY <2>1
  <1>. HIDE DEF N
  <1>3. Nat \subseteq N
    BY <1>1, <1>2, InductionOnSet
  <1>. QED
    BY <1>3, LenProperties DEF N

\* The values a recursion of n steps over S goes through, step[k] being the k-th.
Steps(u, S, start, n, step) ==
  u \in [0 .. n -> S] /\ u[0] = start /\ \A k \in 1 .. n : u[k] = step[k][u[k - 1]]

\* A recursion has a run, ...
LEMMA RunExists ==
  ASSUME NEW S, NEW start \in S, NEW n \in Nat, NEW step \in [1 .. n -> [S -> S]]
  PROVE  \E u : Steps(u, S, start, n, step)
  <1> DEFINE Upto(u, m) == u[0] = start /\ \A k \in 1 .. m : u[k] = step[k][u[k - 1]]
             T == {m \in Nat : m <= n => \E u \in [0 .. m -> S] : Upto(u, m)}
  <1>1. 0 \in T
    <2> DEFINE u == [k \in 0 .. 0 |-> start]
    <2>1. u \in [0 .. 0 -> S] /\ Upto(u, 0)
      OBVIOUS
    <2>. QED
      BY <2>1
  <1>2. ASSUME NEW m \in Nat, m \in T PROVE m + 1 \in T
    <2>. SUFFICES ASSUME m + 1 <= n PROVE \E u \in [0 .. m + 1 -> S] : Upto(u, m + 1)
      OBVIOUS
    <2>1. PICK v \in [0 .. m -> S] : Upto(v, m)
      BY <1>2
    <2> DEFINE u == [k \in 0 .. m + 1 |-> IF k = m + 1 THEN step[k][v[m]] ELSE v[k]]
    <2>2. u[m + 1] = step[m + 1][v[m]] /\ \A k \in 0 .. m : u[k] = v[k]
      OBVIOUS
    <2>3. v[m] \in S /\ step[m + 1][v[m]] \in S
      <3>1. m \in 0 .. m /\ m + 1 \in 1 .. n
        OBVIOUS
      <3>. QED
        BY <3>1, <2>1
    <2>4. u \in [0 .. m + 1 -> S]
      BY <2>3
    <2>. HIDE DEF u
    <2>5. ASSUME NEW k \in 1 .. m + 1 PROVE u[k] = step[k][u[k - 1]]
      <3>1. k - 1 \in 0 .. m /\ u[k - 1] = v[k - 1]
        BY <2>2
      <3>2. CASE k = m + 1
        BY <3>1, <3>2, <2>2
      <3>3. CASE k # m + 1
        <4>1. k \in 1 .. m /\ u[k] = v[k]
          BY <3>3, <2>2
        <4>. QED
          BY <4>1, <3>1, <2>1
      <3>. QED
        BY <3>2, <3>3
    <2>6. u[0] = start
      BY <2>1, <2>2
    <2>. QED
      BY <2>4, <2>5, <2>6
  <1>. HIDE DEF T
  <1>3. Nat \subseteq T
    BY <1>1, <1>2, InductionOnSet
  <1>4. n \in T
    BY <1>3
  <1>5. \E u \in [0 .. n -> S] : Upto(u, n)
    <2>. HIDE DEF Upto
    <2>. QED
      BY <1>4 DEF T
  <1>. QED
    BY <1>5 DEF Steps

\* ... and two runs that start alike and step alike end alike.
LEMMA RunsAgree ==
  ASSUME NEW n \in Nat, NEW u, NEW v, u[0] = v[0],
         \A k \in 1 .. n : u[k - 1] = v[k - 1] => u[k] = v[k]
  PROVE  u[n] = v[n]
  <1> DEFINE T == {m \in Nat : m <= n => u[m] = v[m]}
  <1>1. 0 \in T
    OBVIOUS
  <1>2. ASSUME NEW m \in Nat, m \in T PROVE m + 1 \in T
    <2>. SUFFICES ASSUME m + 1 <= n PROVE u[m + 1] = v[m + 1]
      OBVIOUS
    <2>1. m + 1 \in 1 .. n /\ (m + 1) - 1 = m /\ u[m] = v[m]
      BY <1>2
    <2>. QED
      BY <2>1
  <1>. HIDE DEF T
  <1>3. Nat \subseteq T
    BY <1>1, <1>2, InductionOnSet
  <1>. QED
    BY <1>3 DEF T

\* A set that has 0 and with every number below n the next one has those up to n.
LEMMA InductionOnRange ==
  ASSUME NEW n \in Nat, NEW T, 0 \in T, \A k \in 1 .. n : k - 1 \in T => k \in T
  PROVE  0 .. n \subseteq T
  <1> DEFINE U == {k \in Nat : k <= n => k \in T}
  <1>1. 0 \in U
    OBVIOUS
  <1>2. ASSUME NEW k \in Nat, k \in U PROVE k + 1 \in U
    <2>. SUFFICES ASSUME k + 1 <= n PROVE k + 1 \in T
      OBVIOUS
    <2>1. k + 1 \in 1 .. n /\ (k + 1) - 1 = k /\ k \in T
      BY <1>2
    <2>. QED
      BY <2>1
  <1>. HIDE DEF U
  <1>3. Nat \subseteq U
    BY <1>1, <1>2, InductionOnSet
  <1>. QED
    BY <1>3 DEF U

\* f is defined by recursion: base at the end of it, and elsewhere what comb makes of the
\* value for the next argument.
Recursion(f, D, V, end, next, base, comb) ==
  /\ f \in [D -> V]
  /\ \A x \in D : f[x] = IF x \in end THEN base[x] ELSE comb[x][f[next[x]]]

Descends(D, V, rank, end, next, base, comb) ==
  /\ rank \in [D -> Nat] /\ next \in [D -> D]
  /\ base \in [D -> V] /\ comb \in [D -> [V -> V]]
  /\ \A x \in D \ end : rank[next[x]] < rank[x]

\* A function that calls itself with an argument of lower rank exists.
LEMMA RecursionByRank ==
  ASSUME NEW D, NEW V, NEW rank, NEW end, NEW next, NEW base, NEW comb,
         Descends(D, V, rank, end, next, base, comb)
  PROVE  \E f : Recursion(f, D, V, end, next, base, comb)
  <1>. /\ rank \in [D -> Nat] /\ next \in [D -> D]
       /\ base \in [D -> V] /\ comb \in [D -> [V -> V]]
       /\ \A x \in D \ end : rank[next[x]] < rank[x]
    BY DEF Descends
  <1> DEFINE Eq(f, x) == f[x] = IF x \in end THEN base[x] ELSE comb[x][f[next[x]]]
             Upto(n)  == {f \in [D -> V] : \A x \in D : rank[x] < n => Eq(f, x)}
             T == {n \in Nat : Upto(n) # {}}
  <1>1. 0 \in T
    <2>1. \A x \in D : rank[x] \in Nat /\ ~(rank[x] < 0)
      OBVIOUS
    <2>2. base \in Upto(0)
      <3>. HIDE DEF Eq
      <3>. QED
        BY <2>1
    <2>. HIDE DEF Upto
    <2>. QED
      BY <2>2
  <1>2. ASSUME NEW n \in Nat, n \in T PROVE n + 1 \in T
    <2>1. PICK f \in [D -> V] : \A x \in D : rank[x] < n => Eq(f, x)
      <3>. HIDE DEF Eq
      <3>. QED
        BY <1>2
    <2> DEFINE g == [x \in D |-> IF x \in end THEN base[x] ELSE comb[x][f[next[x]]]]
    <2>2. g \in [D -> V]
      OBVIOUS
    <2>3. ASSUME NEW x \in D, rank[x] < n + 1 PROVE Eq(g, x)
      <3>1. CASE x \in end
        BY <3>1
      <3>2. CASE x \notin end
        <4>1. next[x] \in D /\ rank[next[x]] < rank[x] /\ rank[next[x]] \in Nat /\ rank[x] \in Nat
          BY <3>2
        <4>2. rank[next[x]] < n
          BY <4>1, <2>3
        <4>3. Eq(f, next[x])
          <5>. HIDE DEF Eq
          <5>. QED
            BY <4>1, <4>2, <2>1
        <4>4. g[next[x]] = f[next[x]]
          BY <4>1, <4>3
        <4>. QED
          BY <4>4, <3>2
      <3>. QED
        BY <3>1, <3>2
    <2>4. g \in Upto(n + 1)
      <3>. HIDE DEF Eq, g
      <3>. QED
        BY <2>2, <2>3
    <2>. HIDE DEF Upto
    <2>. QED
      BY <2>4
  <1>3. \A n \in Nat : Upto(n) # {}
    <2>. HIDE DEF Upto
    <2>1. T \in SUBSET Nat
      OBVIOUS
    <2>2. Nat \subseteq T
      <3>. HIDE DEF T
      <3>. QED
        BY <1>1, <1>2, InductionOnSet
    <2>. QED
      BY <2>2
  <1> DEFINE F == [n \in Nat |-> CHOOSE f : f \in Upto(n)]
  <1>4. \A n \in Nat : F[n] \in Upto(n)
    <2>. HIDE DEF Upto
    <2>. QED
      BY <1>3
  <1>. HIDE DEF F
  <1>5. ASSUME NEW n \in Nat, NEW x \in D, rank[x] < n PROVE Eq(F[n], x)
    <2>. HIDE DEF Eq
    <2>. QED
      BY <1>4, <1>5
  <1> DEFINE Same(x) == \A n, m \in Nat : rank[x] < n /\ rank[x] < m => F[n][x] = F[m][x]
             U == {k \in Nat : \A x \in D : rank[x] < k => Same(x)}
  <1>6. 0 \in U
    <2>1. \A x \in D : rank[x] \in Nat /\ ~(rank[x] < 0)
      OBVIOUS
    <2>. HIDE DEF Same
    <2>. QED
      BY <2>1
  <1>7. ASSUME NEW k \in Nat, k \in U PROVE k + 1 \in U
    <2>1. ASSUME NEW x \in D, rank[x] < k + 1, NEW n \in Nat, NEW m \in Nat, rank[x] < n, rank[x] < m
          PROVE  F[n][x] = F[m][x]
      <3>1. Eq(F[n], x) /\ Eq(F[m], x)
        <4>. HIDE DEF Eq
        <4>. QED
          BY <2>1, <1>5
      <3>2. CASE x \in end
        BY <3>1, <3>2
      <3>3. CASE x \notin end
        <4>1. next[x] \in D /\ rank[next[x]] < rank[x] /\ rank[next[x]] \in Nat /\ rank[x] \in Nat
          BY <3>3
        <4>2. rank[next[x]] < k /\ rank[next[x]] < n /\ rank[next[x]] < m
          BY <4>1, <2>1
        <4>3. Same(next[x])
          <5>. HIDE DEF Same
          <5>. QED
            BY <4>1, <4>2, <1>7
        <4>4. F[n][next[x]] = F[m][next[x]]
          BY <4>2, <4>3
        <4>. QED
          BY <4>4, <3>1, <3>3
      <3>. QED
        BY <3>2, <3>3
    <2>. QED
      BY <2>1
  <1>8. \A x \in D : Same(x)
    <2>1. Nat \subseteq U
      <3>. HIDE DEF U
      <3>. QED
        BY <1>6, <1>7, InductionOnSet
    <2>2. ASSUME NEW x \in D PROVE Same(x)
      <3>1. rank[x] \in Nat /\ rank[x] + 1 \in U /\ rank[x] < rank[x] + 1
        BY <2>1
      <3>. HIDE DEF Same
      <3>. QED
        BY <3>1
    <2>. QED
      BY <2>2
  <1> DEFINE g == [x \in D |-> F[rank[x] + 1][x]]
  <1>9. g \in [D -> V]
    <2>1. \A n \in Nat : F[n] \in [D -> V]
      BY <1>4
    <2>2. \A x \in D : rank[x] + 1 \in Nat
      OBVIOUS
    <2>. QED
      BY <2>1, <2>2
  <1>10. ASSUME NEW x \in D PROVE Eq(g, x)
    <2>1. rank[x] \in Nat /\ rank[x] + 1 \in Nat /\ rank[x] < rank[x] + 1
      OBVIOUS
    <2>2. Eq(F[rank[x] + 1], x)
      <3>. HIDE DEF Eq
      <3>. QED
        BY <2>1, <1>5
    <2>3. CASE x \in end
      BY <2>2, <2>3
    <2>4. CASE x \notin end
      <3>1. next[x] \in D /\ rank[next[x]] < rank[x] /\ rank[next[x]] \in Nat
        BY <2>4
      <3>2. /\ rank[next[x]] + 1 \in Nat
            /\ rank[next[x]] < rank[next[x]] + 1 /\ rank[next[x]] < rank[x] + 1
        BY <3>1, <2>1
      <3>3. F[rank[next[x]] + 1][next[x]] = F[rank[x] + 1][next[x]]
        BY <3>1, <3>2, <2>1, <1>8
      <3>4. g[next[x]] = F[rank[next[x]] + 1][next[x]]
        BY <3>1
      <3>5. g[x] = F[rank[x] + 1][x]
        OBVIOUS
      <3>. HIDE DEF g
      <3>. QED
        BY <3>3, <3>4, <3>5, <2>2, <2>4
    <2>. QED
      BY <2>3, <2>4
  <1>. HIDE DEF g
  <1>. QED
    BY <1>9, <1>10 DEF Recursion

\* f folds step over the subsets of S from base on, choose[t] being the element of t taken last.
Folding(f, S, V, base, step, choose) ==
  /\ f \in [SUBSET S -> V]
  /\ \A t \in SUBSET S :
       f[t] = IF t = {} THEN base ELSE step[choose[t]][f[t \ {choose[t]}]]

Foldable(S, V, base, step, choose) ==
  /\ IsFiniteSet(S)
  /\ base \in V /\ step \in [S -> [V -> V]]
  /\ \A t \in SUBSET S : t # {} => choose[t] \in t

LEMMA FoldExists ==
  ASSUME NEW S, NEW V, NEW base, NEW step, NEW choose, Foldable(S, V, base, step, choose)
  PROVE  \E f : Folding(f, S, V, base, step, choose)
  <1>. /\ IsFiniteSet(S)
       /\ base \in V /\ step \in [S -> [V -> V]]
       /\ \A t \in SUBSET S : t # {} => choose[t] \in t
    BY DEF Foldable
  <1> DEFINE D == SUBSET S
             rank == [t \in D |-> Cardinality(t)]
             next == [t \in D |-> t \ {choose[t]}]
             bs   == [t \in D |-> base]
             comb == [t \in D |-> IF t = {} THEN [v \in V |-> v] ELSE step[choose[t]]]
             end  == {{}}
  <1>1. \A t \in D : IsFiniteSet(t) /\ Cardinality(t) \in Nat
    BY FS_Subset, FS_CardinalityType
  <1>2. rank \in [D -> Nat]
    BY <1>1
  <1>3. next \in [D -> D]
    OBVIOUS
  <1>4. bs \in [D -> V]
    OBVIOUS
  <1>5. comb \in [D -> [V -> V]]
    <2>1. ASSUME NEW t \in D PROVE comb[t] \in [V -> V]
      <3>1. CASE t = {}
        BY <3>1
      <3>2. CASE t # {}
        <4>1. choose[t] \in S
          BY <3>2
        <4>. QED
          BY <4>1, <3>2
      <3>. QED
        BY <3>1, <3>2
    <2>. QED
      BY <2>1
  <1>6. ASSUME NEW t \in D \ end PROVE rank[next[t]] < rank[t]
    <2>1. choose[t] \in t
      BY <1>6
    <2>2. Cardinality(t \ {choose[t]}) = Cardinality(t) - 1
      BY <2>1, <1>1, FS_RemoveElement
    <2>3. next[t] \in D /\ rank[next[t]] = Cardinality(t \ {choose[t]}) /\ rank[t] = Cardinality(t)
      OBVIOUS
    <2>. QED
      BY <2>2, <2>3, <1>1
  <1>. HIDE DEF rank, next, bs, comb, end
  <1>. HIDE DEF D
  <1>7. Descends(D, V, rank, end, next, bs, comb)
    BY <1>2, <1>3, <1>4, <1>5, <1>6 DEF Descends
  <1>8. PICK f : Recursion(f, D, V, end, next, bs, comb)
    BY <1>7, RecursionByRank
  <1>9. /\ f \in [SUBSET S -> V]
        /\ \A t \in SUBSET S :
             f[t] = IF t = {} THEN base ELSE step[choose[t]][f[t \ {choose[t]}]]
    BY <1>8 DEF Recursion, D, next, bs, comb, end
  <1>. QED
    BY <1>9 DEF Folding
=============================================================================
