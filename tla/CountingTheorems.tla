--------------------------- MODULE CountingTheorems ---------------------------
(***************************************************************************)
(* Finite sets: induction over them, their extremes, the ranks of their    *)
(* elements in an order, and sums over them, that is what MapThenSumSet of *)
(* the community modules computes of a function.                           *)
(*                                                                         *)
(* The induction theorems of the library take the predicate as an          *)
(* operator.  Here it is a set, of the sets that have the property, and    *)
(* its existence is what separation gives.                                 *)
(***************************************************************************)
EXTENDS Integers, FiniteSetsExt, FiniteSetTheorems, WellFoundedInduction, TLAPS

-----------------------------------------------------------------------------
(* Induction. *)

\* What holds of a finite set whenever it holds of the set less each of its
\* elements holds of every finite set.
LEMMA SetInduction ==
  ASSUME NEW U, IsFiniteSet(U), NEW Good,
         \A s \in SUBSET U : (\A x \in s : s \ {x} \in Good) => s \in Good
  PROVE  \A s \in SUBSET U : s \in Good
<1>. DEFINE Bad == {s \in SUBSET U : s \notin Good}
            smaller == StrictSubsetOrdering(U)
<1>. SUFFICES ASSUME Bad # {} PROVE FALSE
  OBVIOUS
<1>1. IsWellFoundedOn(smaller, SUBSET U)
  <2>1. IsWellFoundedOn(StrictSubsetOrdering(U), FiniteSubsetsOf(U))
    BY FS_StrictSubsetOrderingWellFounded
  <2>2. FiniteSubsetsOf(U) = SUBSET U
    BY FS_FiniteSubsetsOfFinite
  <2>. QED
    BY <2>1, <2>2
<1>2. PICK s \in Bad : \A t \in Bad : <<t, s>> \notin smaller
  <2>1. Bad \subseteq SUBSET U
    OBVIOUS
  <2>. HIDE DEF Bad, smaller
  <2>. QED
    BY <1>1, <2>1, WFMin
<1>3. ASSUME NEW x \in s PROVE s \ {x} \in Good
  <2>1. <<s \ {x}, s>> \in smaller
    BY DEF StrictSubsetOrdering
  <2>. QED
    BY <1>2, <2>1
<1>. QED
  BY <1>3

\* What holds of the first of some numbers, and of each next one, holds of all.
LEMMA IntervalInduction ==
  ASSUME NEW m \in Int, NEW n \in Int, NEW Good,
         m <= n => m \in Good,
         \A k \in m..(n - 1) : k \in Good => k + 1 \in Good
  PROVE  \A k \in m..n : k \in Good
<1>. DEFINE Tails == {s \in SUBSET (m..n) : s = {} \/ \A k \in m..n : s = m..k => k \in Good}
<1>1. IsFiniteSet(m..n)
  BY FS_Interval
<1>2. ASSUME NEW s \in SUBSET (m..n), \A x \in s : s \ {x} \in Tails
      PROVE  s \in Tails
  <2>. SUFFICES ASSUME NEW k \in m..n, s = m..k PROVE k \in Good
    OBVIOUS
  <2>1. CASE k = m
    BY <2>1
  <2>2. CASE k # m
    <3>1. k - 1 \in m..(n - 1) /\ k - 1 \in m..n /\ k \in s
      BY <2>2
    <3>2. s \ {k} = m..(k - 1)
      OBVIOUS
    <3>6. m \in m..(k - 1)
      BY <2>2
    <3>3. s \ {k} \in Tails
      BY <1>2, <3>1
    <3>4. k - 1 \in Good
      BY <3>1, <3>2, <3>3, <3>6
    <3>5. k - 1 + 1 = k
      OBVIOUS
    <3>. QED
      BY <3>1, <3>4, <3>5
  <2>. QED
    BY <2>1, <2>2
<1>. HIDE DEF Tails
<1>3. \A s \in SUBSET (m..n) : s \in Tails
  BY <1>1, <1>2, SetInduction
<1>. QED
  <2>. TAKE k \in m..n
  <2>1. m..k \in SUBSET (m..n) /\ m..k # {}
    OBVIOUS
  <2>. QED
    BY <1>3, <2>1 DEF Tails

-----------------------------------------------------------------------------
(* The greatest and the least of finitely many whole numbers. *)

LEMMA Greatest ==
  ASSUME NEW D, D \subseteq Int, IsFiniteSet(D), D # {}
  PROVE  Max(D) \in D /\ \A j \in D : j <= Max(D)
<1>. DEFINE Good == {s \in SUBSET D : s # {} => \E m \in s : \A j \in s : j <= m}
<1>1. ASSUME NEW s \in SUBSET D, \A x \in s : s \ {x} \in Good
      PROVE  s \in Good
  <2>. SUFFICES ASSUME s # {} PROVE \E m \in s : \A j \in s : j <= m
    OBVIOUS
  <2>1. PICK x \in s : TRUE
    OBVIOUS
  <2>2. CASE s \ {x} = {}
    BY <2>1, <2>2
  <2>3. CASE s \ {x} # {}
    <3>1. PICK m \in s \ {x} : \A j \in s \ {x} : j <= m
      BY <1>1, <2>1, <2>3
    <3>2. x \in Int /\ m \in Int /\ \A j \in s : j \in Int
      OBVIOUS
    <3>3. CASE x <= m
      BY <3>1, <3>3
    <3>4. CASE ~(x <= m)
      BY <2>1, <3>1, <3>2, <3>4
    <3>. QED
      BY <3>3, <3>4
  <2>. QED
    BY <2>2, <2>3
<1>2. \A s \in SUBSET D : s \in Good
  <2>. HIDE DEF Good
  <2>. QED
    BY <1>1, SetInduction
<1>3. PICK m \in D : \A j \in D : j <= m
  BY <1>2
<1>4. \A x \in D : (\A y \in D : x >= y) => x = m
  BY <1>3
<1>5. Max(D) = m
  BY <1>3, <1>4 DEF Max
<1>. QED
  BY <1>3, <1>5

LEMMA Least ==
  ASSUME NEW D, D \subseteq Int, IsFiniteSet(D), D # {}
  PROVE  Min(D) \in D /\ \A j \in D : Min(D) <= j
<1>. DEFINE mirror == {-j : j \in D}
<1>1. mirror \subseteq Int /\ mirror # {}
  <2>1. \A j \in D : -j \in Int
    OBVIOUS
  <2>. QED
    BY <2>1
<1>2. IsFiniteSet(mirror)
  <2>. DEFINE f == [j \in D |-> -j]
  <2>1. f \in Surjection(D, mirror)
    BY DEF Surjection
  <2>. HIDE DEF f, mirror
  <2>. QED
    BY <2>1, FS_Surjection
<1>3. Max(mirror) \in mirror /\ \A k \in mirror : k <= Max(mirror)
  <2>. HIDE DEF mirror
  <2>. QED
    BY <1>1, <1>2, Greatest
<1>4. PICK m \in D : Max(mirror) = -m
  BY <1>3
<1>5. \A j \in D : m <= j
  <2>. TAKE j \in D
  <2>1. -j <= -m
    BY <1>3, <1>4
  <2>. QED
    BY <2>1
<1>6. \A x \in D : (\A y \in D : x =< y) => x = m
  BY <1>5
<1>7. Min(D) = m
  BY <1>5, <1>6 DEF Min
<1>. QED
  BY <1>5, <1>7

-----------------------------------------------------------------------------
(* Ranks.  upTo[i] are the elements up to i in some order of them all.      *)

Orders(upTo, D) ==
  /\ \A i \in D : i \in upTo[i] /\ upTo[i] \subseteq D
  /\ \A i, j \in D : j \in upTo[i] => upTo[j] \subseteq upTo[i]
  /\ \A i, j \in D : j \in upTo[i] \/ i \in upTo[j]
  /\ \A i, j \in D : j \in upTo[i] /\ i \in upTo[j] => i = j

RankOf(upTo, i) == Cardinality(upTo[i])

Attained(upTo, D, k) == \E i \in D : RankOf(upTo, i) = k

LEMMA Ranks ==
  ASSUME NEW D, IsFiniteSet(D), NEW upTo, Orders(upTo, D)
  PROVE  /\ Cardinality(D) \in Nat
         /\ \A i \in D : RankOf(upTo, i) \in 1..Cardinality(D)
         /\ \A i, j \in D : j \in upTo[i] /\ j # i => RankOf(upTo, j) < RankOf(upTo, i)
         /\ \A i, j \in D : RankOf(upTo, i) = RankOf(upTo, j) => i = j
         /\ \A k \in 1..Cardinality(D) : Attained(upTo, D, k)
<1>1. ASSUME NEW i \in D
      PROVE  /\ IsFiniteSet(upTo[i]) /\ RankOf(upTo, i) \in Nat
             /\ RankOf(upTo, i) # 0 /\ RankOf(upTo, i) <= Cardinality(D)
  <2>1. upTo[i] \in SUBSET D /\ upTo[i] # {}
    BY DEF Orders
  <2>2. IsFiniteSet(upTo[i]) /\ Cardinality(upTo[i]) <= Cardinality(D)
    BY <2>1, FS_Subset
  <2>. QED
    BY <2>1, <2>2, FS_CardinalityType, FS_EmptySet DEF RankOf
<1>2. Cardinality(D) \in Nat
  BY FS_CardinalityType
<1>3. \A i \in D : RankOf(upTo, i) \in 1..Cardinality(D)
  BY <1>1, <1>2
<1>4. ASSUME NEW i \in D, NEW j \in D, j \in upTo[i], j # i
      PROVE  RankOf(upTo, j) < RankOf(upTo, i)
  <2>1. upTo[j] \in SUBSET upTo[i] /\ upTo[j] # upTo[i]
    BY <1>4 DEF Orders
  <2>2. /\ Cardinality(upTo[j]) <= Cardinality(upTo[i])
        /\ Cardinality(upTo[i]) # Cardinality(upTo[j])
    BY <1>1, <2>1, FS_Subset
  <2>. QED
    BY <1>1, <2>2 DEF RankOf
<1>5. \A i, j \in D : RankOf(upTo, i) = RankOf(upTo, j) => i = j
  <2>. SUFFICES ASSUME NEW i \in D, NEW j \in D, RankOf(upTo, i) = RankOf(upTo, j), i # j
                PROVE  FALSE
    OBVIOUS
  <2>1. j \in upTo[i] \/ i \in upTo[j]
    BY DEF Orders
  <2>2. RankOf(upTo, j) < RankOf(upTo, i) \/ RankOf(upTo, i) < RankOf(upTo, j)
    BY <1>4, <2>1
  <2>. QED
    BY <1>1, <2>2
<1>6. \A k \in 1..Cardinality(D) : Attained(upTo, D, k)
  <2>. DEFINE T == 1..Cardinality(D)
              f == [i \in D |-> RankOf(upTo, i)]
  <2>1. f \in Injection(D, T)
    BY <1>3, <1>5 DEF Injection, IsInjective
  <2>2. IsFiniteSet(T) /\ Cardinality(T) = Cardinality(D)
    BY <1>2, FS_Interval
  <2>3. f \in Surjection(D, T)
    <3>. HIDE DEF f, T
    <3>. QED
      BY <2>1, <2>2, FS_Injection
  <2>. QED
    BY <2>3 DEF Surjection, Attained
<1>. QED
  BY <1>2, <1>3, <1>4, <1>5, <1>6

\* Elements taken by their rank are all there are, each once and in order.
LEMMA Ranked ==
  ASSUME NEW D, IsFiniteSet(D), NEW upTo, Orders(upTo, D), NEW at,
         \A k \in 1..Cardinality(D) : at[k] \in D /\ RankOf(upTo, at[k]) = k
  PROVE  /\ \A i \in D : \E k \in 1..Cardinality(D) : at[k] = i
         /\ \A k, l \in 1..Cardinality(D) : k < l => at[k] \in upTo[at[l]] /\ at[k] # at[l]
<1>1. \A k \in 1..Cardinality(D) : at[k] \in D /\ RankOf(upTo, at[k]) = k
  OBVIOUS
<1>2. \A i \in D : at[RankOf(upTo, i)] = i /\ RankOf(upTo, i) \in 1..Cardinality(D)
  BY <1>1, Ranks
<1>3. ASSUME NEW k \in 1..Cardinality(D), NEW l \in 1..Cardinality(D), k < l
      PROVE  at[k] \in upTo[at[l]] /\ at[k] # at[l]
  <2>1. at[k] # at[l]
    BY <1>1, <1>3, Ranks
  <2>2. CASE at[l] \in upTo[at[k]]
    <3>1. RankOf(upTo, at[l]) < RankOf(upTo, at[k])
      BY <1>1, <2>1, <2>2, Ranks
    <3>. QED
      BY <1>1, <1>3, <3>1, Ranks
  <2>. QED
    BY <1>1, <2>1, <2>2 DEF Orders
<1>. QED
  BY <1>2, <1>3

-----------------------------------------------------------------------------
(* The recursion of the fold. *)

SumOver(w, S) == MapThenSumSet(LAMBDA i : w[i], S)

AnyOf(S) == CHOOSE x \in S : TRUE

\* f is the function by which the fold over S is defined.
IsFold(w, S, f) ==
  f = [s \in SUBSET S |-> IF s = {} THEN 0 ELSE w[AnyOf(s)] + f[s \ {AnyOf(s)}]]

LEMMA SumIsFold ==
  ASSUME NEW w, NEW S
  PROVE  SumOver(w, S) = (CHOOSE f : IsFold(w, S, f))[S]
BY DEF SumOver, MapThenSumSet, MapThenFoldSet, IsFold, AnyOf

LEMMA FoldUnique ==
  ASSUME NEW w, NEW S, IsFiniteSet(S), NEW f, NEW g, IsFold(w, S, f), IsFold(w, S, g)
  PROVE  f = g
<1>. DEFINE Good == {s \in SUBSET S : f[s] = g[s]}
<1>1. ASSUME NEW s \in SUBSET S, \A x \in s : s \ {x} \in Good
      PROVE  s \in Good
  <2>1. s # {} => AnyOf(s) \in s
    BY DEF AnyOf
  <2>2. s # {} => f[s \ {AnyOf(s)}] = g[s \ {AnyOf(s)}]
    BY <1>1, <2>1
  <2>3. /\ f[s] = IF s = {} THEN 0 ELSE w[AnyOf(s)] + f[s \ {AnyOf(s)}]
        /\ g[s] = IF s = {} THEN 0 ELSE w[AnyOf(s)] + g[s \ {AnyOf(s)}]
    BY DEF IsFold
  <2>. QED
    BY <2>2, <2>3
<1>2. \A s \in SUBSET S : s \in Good
  <2>. HIDE DEF Good
  <2>. QED
    BY <1>1, SetInduction
<1>3. \A s \in SUBSET S : f[s] = g[s]
  BY <1>2
<1>. DEFINE body(h) == [s \in SUBSET S |-> IF s = {} THEN 0
                                           ELSE w[AnyOf(s)] + h[s \ {AnyOf(s)}]]
<1>4. f = body(f) /\ g = body(g)
  BY DEF IsFold
<1>5. body(f) = [s \in SUBSET S |-> f[s]] /\ body(g) = [s \in SUBSET S |-> g[s]]
  BY <1>4
<1>. QED
  BY <1>3, <1>4, <1>5

\* The fold over a subset is the restriction of the fold.
LEMMA FoldRestricts ==
  ASSUME NEW w, NEW S, NEW f, IsFold(w, S, f), NEW T \in SUBSET S
  PROVE  IsFold(w, T, [s \in SUBSET T |-> f[s]])
<1>. DEFINE g == [s \in SUBSET T |-> f[s]]
<1>1. ASSUME NEW s \in SUBSET T
      PROVE  g[s] = IF s = {} THEN 0 ELSE w[AnyOf(s)] + g[s \ {AnyOf(s)}]
  <2>1. f[s] = IF s = {} THEN 0 ELSE w[AnyOf(s)] + f[s \ {AnyOf(s)}]
    BY DEF IsFold
  <2>2. s \ {AnyOf(s)} \in SUBSET T
    OBVIOUS
  <2>. QED
    BY <2>1, <2>2
<1>2. g = [s \in SUBSET T |-> g[s]]
  OBVIOUS
<1>. HIDE DEF g
<1>3. g = [s \in SUBSET T |-> IF s = {} THEN 0 ELSE w[AnyOf(s)] + g[s \ {AnyOf(s)}]]
  BY <1>1, <1>2
<1>. QED
  BY <1>3 DEF IsFold, g

LEMMA FoldValue ==
  ASSUME NEW w, NEW S, IsFiniteSet(S), NEW f, IsFold(w, S, f), NEW T \in SUBSET S
  PROVE  f[T] = SumOver(w, T)
<1>. DEFINE g == [s \in SUBSET T |-> f[s]]
<1>1. IsFold(w, T, g)
  BY FoldRestricts
<1>2. IsFiniteSet(T)
  BY FS_Subset
<1>3. g[T] = f[T]
  OBVIOUS
<1>. HIDE DEF g
<1>4. IsFold(w, T, CHOOSE h : IsFold(w, T, h))
  BY <1>1
<1>5. g = CHOOSE h : IsFold(w, T, h)
  BY <1>1, <1>2, <1>4, FoldUnique
<1>. QED
  BY <1>3, <1>5, SumIsFold

LEMMA FoldExists ==
  ASSUME NEW w, NEW S, IsFiniteSet(S)
  PROVE  \E f : IsFold(w, S, f)
<1>. DEFINE Good == {s \in SUBSET S : \E f : IsFold(w, s, f)}
<1>1. ASSUME NEW s \in SUBSET S, \A x \in s : s \ {x} \in Good
      PROVE  s \in Good
  <2>. DEFINE f == [t \in SUBSET s |->
                      IF t = {} THEN 0 ELSE w[AnyOf(t)] + SumOver(w, t \ {AnyOf(t)})]
  <2>1. ASSUME NEW t \in SUBSET s, t # s PROVE f[t] = SumOver(w, t)
    <3>1. PICK x \in s : t \subseteq s \ {x}
      BY <2>1
    <3>2. PICK g : IsFold(w, s \ {x}, g)
      BY <1>1
    <3>3. IsFiniteSet(s \ {x})
      BY FS_Subset
    <3>4. \A r \in SUBSET (s \ {x}) : g[r] = SumOver(w, r)
      BY <3>2, <3>3, FoldValue
    <3>5. g[t] = IF t = {} THEN 0 ELSE w[AnyOf(t)] + g[t \ {AnyOf(t)}]
      BY <3>1, <3>2 DEF IsFold
    <3>6. t \in SUBSET (s \ {x}) /\ t \ {AnyOf(t)} \in SUBSET (s \ {x})
      BY <3>1
    <3>. QED
      BY <3>4, <3>5, <3>6
  <2>2. ASSUME NEW t \in SUBSET s
        PROVE  f[t] = IF t = {} THEN 0 ELSE w[AnyOf(t)] + f[t \ {AnyOf(t)}]
    <3>1. CASE t = {}
      BY <3>1
    <3>2. CASE t # {}
      <4>1. AnyOf(t) \in t
        BY <3>2 DEF AnyOf
      <4>2. t \ {AnyOf(t)} \in SUBSET s /\ t \ {AnyOf(t)} # s
        BY <4>1
      <4>3. f[t] = w[AnyOf(t)] + SumOver(w, t \ {AnyOf(t)})
        BY <3>2
      <4>. HIDE DEF f
      <4>. QED
        BY <2>1, <3>2, <4>2, <4>3
    <3>. QED
      BY <3>1, <3>2
  <2>3. f = [t \in SUBSET s |-> f[t]]
    OBVIOUS
  <2>. HIDE DEF f
  <2>4. f = [t \in SUBSET s |-> IF t = {} THEN 0 ELSE w[AnyOf(t)] + f[t \ {AnyOf(t)}]]
    BY <2>2, <2>3
  <2>. QED
    BY <2>4 DEF IsFold
<1>2. \A s \in SUBSET S : s \in Good
  <2>. HIDE DEF Good
  <2>. QED
    BY <1>1, SetInduction
<1>. QED
  BY <1>2

-----------------------------------------------------------------------------
(* Sums. *)

LEMMA SumRecursion ==
  ASSUME NEW w, NEW S, IsFiniteSet(S)
  PROVE  /\ S = {} => SumOver(w, S) = 0
         /\ S # {} => /\ AnyOf(S) \in S
                      /\ SumOver(w, S) = w[AnyOf(S)] + SumOver(w, S \ {AnyOf(S)})
<1>1. PICK f : IsFold(w, S, f)
  BY FoldExists
<1>2. f[S] = SumOver(w, S) /\ f[S \ {AnyOf(S)}] = SumOver(w, S \ {AnyOf(S)})
  <2>1. S \in SUBSET S /\ S \ {AnyOf(S)} \in SUBSET S
    OBVIOUS
  <2>. QED
    BY <1>1, <2>1, FoldValue
<1>3. f[S] = IF S = {} THEN 0 ELSE w[AnyOf(S)] + f[S \ {AnyOf(S)}]
  BY <1>1 DEF IsFold
<1>4. S # {} => AnyOf(S) \in S
  BY DEF AnyOf
<1>. QED
  BY <1>2, <1>3, <1>4
\* Sums of whole numbers are whole.
LEMMA SumInt ==
  ASSUME NEW w, NEW S, IsFiniteSet(S), \A i \in S : w[i] \in Int
  PROVE  SumOver(w, S) \in Int
<1>. DEFINE Good == {s \in SUBSET S : SumOver(w, s) \in Int}
<1>1. ASSUME NEW s \in SUBSET S, \A x \in s : s \ {x} \in Good
      PROVE  s \in Good
  <2>1. IsFiniteSet(s)
    BY FS_Subset
  <2>2. CASE s = {}
    <3>1. SumOver(w, s) = 0
      BY <2>1, <2>2, SumRecursion
    <3>. QED
      BY <3>1
  <2>3. CASE s # {}
    <3>1. /\ AnyOf(s) \in s
          /\ SumOver(w, s) = w[AnyOf(s)] + SumOver(w, s \ {AnyOf(s)})
      BY <2>1, <2>3, SumRecursion
    <3>2. SumOver(w, s \ {AnyOf(s)}) \in Int /\ w[AnyOf(s)] \in Int
      BY <1>1, <3>1
    <3>. QED
      BY <3>1, <3>2
  <2>. QED
    BY <2>2, <2>3
<1>2. \A s \in SUBSET S : s \in Good
  <2>. HIDE DEF Good
  <2>. QED
    BY <1>1, SetInduction
<1>. QED
  BY <1>2

\* A sum reads nothing but what it is over.
LEMMA SumAgree ==
  ASSUME NEW w, NEW v, NEW S, IsFiniteSet(S), \A i \in S : w[i] = v[i]
  PROVE  SumOver(w, S) = SumOver(v, S)
<1>. DEFINE Good == {s \in SUBSET S : SumOver(w, s) = SumOver(v, s)}
<1>1. ASSUME NEW s \in SUBSET S, \A x \in s : s \ {x} \in Good
      PROVE  s \in Good
  <2>1. IsFiniteSet(s)
    BY FS_Subset
  <2>2. CASE s = {}
    BY <2>1, <2>2, SumRecursion
  <2>3. CASE s # {}
    <3>1. /\ AnyOf(s) \in s
          /\ SumOver(w, s) = w[AnyOf(s)] + SumOver(w, s \ {AnyOf(s)})
          /\ SumOver(v, s) = v[AnyOf(s)] + SumOver(v, s \ {AnyOf(s)})
      BY <2>1, <2>3, SumRecursion
    <3>2. /\ SumOver(w, s \ {AnyOf(s)}) = SumOver(v, s \ {AnyOf(s)})
          /\ w[AnyOf(s)] = v[AnyOf(s)]
      BY <1>1, <3>1
    <3>. QED
      BY <3>1, <3>2
  <2>. QED
    BY <2>2, <2>3
<1>2. \A s \in SUBSET S : s \in Good
  <2>. HIDE DEF Good
  <2>. QED
    BY <1>1, SetInduction
<1>. QED
  BY <1>2

\* The element that is taken out of a sum may be any of them.
LEMMA SumRemove ==
  ASSUME NEW w, NEW S, IsFiniteSet(S), \A i \in S : w[i] \in Int, NEW x \in S
  PROVE  SumOver(w, S) = w[x] + SumOver(w, S \ {x})
<1>. DEFINE Good == {s \in SUBSET S : \A y \in s : SumOver(w, s) = w[y] + SumOver(w, s \ {y})}
<1>1. ASSUME NEW s \in SUBSET S, \A y \in s : s \ {y} \in Good
      PROVE  s \in Good
  <2>. SUFFICES ASSUME NEW y \in s PROVE SumOver(w, s) = w[y] + SumOver(w, s \ {y})
    OBVIOUS
  <2>. DEFINE c == AnyOf(s)
              rest == s \ {c}
              both == rest \ {y}
  <2>1. \A t \in SUBSET s : IsFiniteSet(t) /\ SumOver(w, t) \in Int
    <3>. TAKE t \in SUBSET s
    <3>1. IsFiniteSet(t)
      BY FS_Subset
    <3>. QED
      BY <3>1, SumInt
  <2>2. c \in s /\ SumOver(w, s) = w[c] + SumOver(w, rest)
    BY <2>1, SumRecursion
  <2>3. CASE y = c
    BY <2>2, <2>3
  <2>4. CASE y # c
    <3>1. SumOver(w, rest) = w[y] + SumOver(w, both)
      BY <1>1, <2>2, <2>4
    <3>2. SumOver(w, s \ {y}) = w[c] + SumOver(w, (s \ {y}) \ {c})
      BY <1>1, <2>2, <2>4
    <3>3. (s \ {y}) \ {c} = both
      OBVIOUS
    <3>4. SumOver(w, both) \in Int /\ w[y] \in Int /\ w[c] \in Int
      BY <2>1, <2>2
    <3>. HIDE DEF c, rest, both
    <3>5. SumOver(w, s \ {y}) = w[c] + SumOver(w, both)
      BY <3>2, <3>3
    <3>. QED
      BY <2>2, <3>1, <3>4, <3>5
  <2>. QED
    BY <2>3, <2>4
<1>2. \A s \in SUBSET S : s \in Good
  <2>. HIDE DEF Good
  <2>. QED
    BY <1>1, SetInduction
<1>. QED
  BY <1>2

\* A sum over two sets that share nothing is that of their sums.
LEMMA SumUnion ==
  ASSUME NEW w, NEW S, NEW T, IsFiniteSet(S), IsFiniteSet(T), S \cap T = {},
         \A i \in S \cup T : w[i] \in Int
  PROVE  SumOver(w, S \cup T) = SumOver(w, S) + SumOver(w, T)
<1>. DEFINE Good == {t \in SUBSET T : SumOver(w, S \cup t) = SumOver(w, S) + SumOver(w, t)}
<1>1. ASSUME NEW t \in SUBSET T, \A y \in t : t \ {y} \in Good
      PROVE  t \in Good
  <2>1. \A s \in SUBSET (S \cup T) : IsFiniteSet(s) /\ SumOver(w, s) \in Int
    <3>. TAKE s \in SUBSET (S \cup T)
    <3>1. IsFiniteSet(S \cup T)
      BY FS_Union
    <3>2. IsFiniteSet(s)
      BY <3>1, FS_Subset
    <3>. QED
      BY <3>2, SumInt
  <2>2. CASE t = {}
    <3>1. IsFiniteSet(t) /\ SumOver(w, S) \in Int
      BY <2>1
    <3>2. SumOver(w, t) = 0
      BY <2>2, <3>1, SumRecursion
    <3>3. S \cup t = S
      BY <2>2
    <3>4. SumOver(w, S \cup t) = SumOver(w, S)
      BY <3>3
    <3>. QED
      BY <3>1, <3>2, <3>4
  <2>3. CASE t # {}
    <3>1. PICK y \in t : TRUE
      BY <2>3
    <3>2. y \in S \cup t /\ (S \cup t) \ {y} = S \cup (t \ {y})
      BY <3>1
    <3>3. SumOver(w, S \cup t) = w[y] + SumOver(w, S \cup (t \ {y}))
      BY <2>1, <3>2, SumRemove
    <3>4. SumOver(w, t) = w[y] + SumOver(w, t \ {y})
      BY <2>1, <3>1, SumRemove
    <3>5. SumOver(w, S \cup (t \ {y})) = SumOver(w, S) + SumOver(w, t \ {y})
      BY <1>1, <3>1
    <3>6. SumOver(w, t \ {y}) \in Int /\ SumOver(w, S) \in Int /\ w[y] \in Int
      BY <2>1, <3>1
    <3>. QED
      BY <3>3, <3>4, <3>5, <3>6
  <2>. QED
    BY <2>2, <2>3
<1>2. \A t \in SUBSET T : t \in Good
  <2>. HIDE DEF Good
  <2>. QED
    BY <1>1, SetInduction
<1>. QED
  BY <1>2

\* A sum of positive numbers, one at least, is positive.
LEMMA SumPositive ==
  ASSUME NEW w, NEW S, IsFiniteSet(S), S # {}, \A i \in S : w[i] \in Int /\ w[i] > 0
  PROVE  SumOver(w, S) \in Int /\ SumOver(w, S) > 0
<1>. DEFINE Good == {s \in SUBSET S : SumOver(w, s) \in Int /\ SumOver(w, s) >= 0
                                      /\ (s # {} => SumOver(w, s) > 0)}
<1>1. ASSUME NEW s \in SUBSET S, \A y \in s : s \ {y} \in Good
      PROVE  s \in Good
  <2>1. IsFiniteSet(s)
    BY FS_Subset
  <2>2. CASE s = {}
    <3>1. SumOver(w, s) = 0
      BY <2>1, <2>2, SumRecursion
    <3>. QED
      BY <2>2, <3>1
  <2>3. CASE s # {}
    <3>1. AnyOf(s) \in s /\ SumOver(w, s) = w[AnyOf(s)] + SumOver(w, s \ {AnyOf(s)})
      BY <2>1, <2>3, SumRecursion
    <3>2. /\ SumOver(w, s \ {AnyOf(s)}) \in Int /\ SumOver(w, s \ {AnyOf(s)}) >= 0
          /\ w[AnyOf(s)] \in Int /\ w[AnyOf(s)] > 0
      BY <1>1, <3>1
    <3>. QED
      BY <3>1, <3>2
  <2>. QED
    BY <2>2, <2>3
<1>2. \A s \in SUBSET S : s \in Good
  <2>. HIDE DEF Good
  <2>. QED
    BY <1>1, SetInduction
<1>. QED
  BY <1>2

\* A sum of negative numbers, one at least, is negative.
LEMMA SumNegative ==
  ASSUME NEW w, NEW S, IsFiniteSet(S), S # {}, \A i \in S : w[i] \in Int /\ w[i] < 0
  PROVE  SumOver(w, S) \in Int /\ SumOver(w, S) < 0
<1>. DEFINE Good == {s \in SUBSET S : SumOver(w, s) \in Int /\ SumOver(w, s) <= 0
                                      /\ (s # {} => SumOver(w, s) < 0)}
<1>1. ASSUME NEW s \in SUBSET S, \A y \in s : s \ {y} \in Good
      PROVE  s \in Good
  <2>1. IsFiniteSet(s)
    BY FS_Subset
  <2>2. CASE s = {}
    <3>1. SumOver(w, s) = 0
      BY <2>1, <2>2, SumRecursion
    <3>. QED
      BY <2>2, <3>1
  <2>3. CASE s # {}
    <3>1. AnyOf(s) \in s /\ SumOver(w, s) = w[AnyOf(s)] + SumOver(w, s \ {AnyOf(s)})
      BY <2>1, <2>3, SumRecursion
    <3>2. /\ SumOver(w, s \ {AnyOf(s)}) \in Int /\ SumOver(w, s \ {AnyOf(s)}) <= 0
          /\ w[AnyOf(s)] \in Int /\ w[AnyOf(s)] < 0
      BY <1>1, <3>1
    <3>. QED
      BY <3>1, <3>2
  <2>. QED
    BY <2>2, <2>3
<1>2. \A s \in SUBSET S : s \in Good
  <2>. HIDE DEF Good
  <2>. QED
    BY <1>1, SetInduction
<1>. QED
  BY <1>2

\* The classes of a set, and the elements of one of them.
ClassesOf(class, S) == {class[i] : i \in S}
ClassOf(class, S, c) == {i \in S : class[i] = c}

\* The sums of the classes of a set add up to its sum.
LEMMA SumOfClasses ==
  ASSUME NEW w, NEW S, IsFiniteSet(S), \A i \in S : w[i] \in Int, NEW class, NEW sums,
         \A c \in ClassesOf(class, S) : sums[c] = SumOver(w, ClassOf(class, S, c))
  PROVE  SumOver(sums, ClassesOf(class, S)) = SumOver(w, S)
<1>0. \A c \in {class[i] : i \in S} : sums[c] = SumOver(w, {i \in S : class[i] = c})
  BY DEF ClassesOf, ClassOf
<1>. DEFINE Classes == {class[i] : i \in S}
            In(C) == {i \in S : class[i] \in C}
            Good == {C \in SUBSET Classes : SumOver(sums, C) = SumOver(w, In(C))}
<1>1. IsFiniteSet(Classes)
  <2>. DEFINE f == [i \in S |-> class[i]]
  <2>1. f \in Surjection(S, Classes)
    BY DEF Surjection
  <2>. HIDE DEF f, Classes
  <2>. QED
    BY <2>1, FS_Surjection
<1>2. \A s \in SUBSET S : IsFiniteSet(s) /\ SumOver(w, s) \in Int
  <2>. TAKE s \in SUBSET S
  <2>1. IsFiniteSet(s)
    BY FS_Subset
  <2>. QED
    BY <2>1, SumInt
<1>3. \A c \in Classes : sums[c] \in Int
  BY <1>0, <1>2
<1>4. ASSUME NEW C \in SUBSET Classes, \A c \in C : C \ {c} \in Good
      PROVE  C \in Good
  <2>1. IsFiniteSet(C)
    BY <1>1, FS_Subset
  <2>2. CASE C = {}
    <3>1. In(C) = {} /\ IsFiniteSet({})
      BY <2>2, FS_EmptySet
    <3>2. SumOver(sums, C) = 0 /\ SumOver(w, In(C)) = 0
      BY <2>2, <3>1, SumRecursion
    <3>. QED
      BY <3>2
  <2>3. CASE C # {}
    <3>1. PICK c \in C : TRUE
      BY <2>3
    <3>2. SumOver(sums, C) = sums[c] + SumOver(sums, C \ {c})
      BY <1>3, <2>1, <3>1, SumRemove
    <3>3. SumOver(sums, C \ {c}) = SumOver(w, In(C \ {c}))
      BY <1>4, <3>1
    <3>4. /\ In(C) = In(C \ {c}) \cup {i \in S : class[i] = c}
          /\ In(C \ {c}) \cap {i \in S : class[i] = c} = {}
      BY <3>1
    <3>5. In(C \ {c}) \in SUBSET S /\ {i \in S : class[i] = c} \in SUBSET S
      OBVIOUS
    <3>6. SumOver(w, In(C)) = SumOver(w, In(C \ {c})) + SumOver(w, {i \in S : class[i] = c})
      <4>. DEFINE A == In(C \ {c})
                  B == {i \in S : class[i] = c}
      <4>1. /\ IsFiniteSet(A) /\ IsFiniteSet(B) /\ A \cap B = {} /\ In(C) = A \cup B
            /\ \A i \in A \cup B : w[i] \in Int
        BY <1>2, <3>4, <3>5
      <4>. HIDE DEF A, B, In
      <4>2. SumOver(w, A \cup B) = SumOver(w, A) + SumOver(w, B)
        BY <4>1, SumUnion
      <4>. QED
        BY <4>1, <4>2 DEF A, B
    <3>7. SumOver(w, In(C \ {c})) \in Int /\ SumOver(w, {i \in S : class[i] = c}) \in Int
      BY <1>2, <3>5
    <3>8. sums[c] = SumOver(w, {i \in S : class[i] = c})
      BY <1>0, <3>1
    <3>. HIDE DEF In
    <3>. QED
      BY <3>2, <3>3, <3>6, <3>7, <3>8
  <2>. QED
    BY <2>2, <2>3
<1>5. Classes \in Good
  <2>1. \A C \in SUBSET Classes : C \in Good
    <3>. HIDE DEF Good, Classes
    <3>. QED
      BY <1>1, <1>4, SetInduction
  <2>. QED
    BY <2>1
<1>6. In(Classes) = S
  OBVIOUS
<1>. QED
  BY <1>5, <1>6 DEF ClassesOf
=============================================================================
