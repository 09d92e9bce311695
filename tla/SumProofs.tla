------------------------------ MODULE SumProofs ------------------------------
(***************************************************************************)
(* What SumFunctionOnSet of the community modules computes over a finite   *)
(* set. It is a fold that removes one element after another, each by the   *)
(* same CHOOSE. The lemmas say that the fold is well defined and that the  *)
(* order does not matter; the proofs are by induction over finite sets, in *)
(* the form of a minimal counterexample (FiniteInduction).                 *)
(***************************************************************************)
EXTENDS Integers, Functions, FiniteSets, FiniteSetTheorems, WellFoundedInduction, TLAPS

-----------------------------------------------------------------------------
\* A set of subsets of S that contains every T whose strict subsets it contains
\* also contains S.
LEMMA FiniteInduction ==
    ASSUME NEW S, IsFiniteSet(S), NEW G,
           \A T \in SUBSET S : (\A U \in SUBSET T : U # T => U \in G) => T \in G
    PROVE  S \in G
<1> DEFINE Bad == {T \in SUBSET S : T \notin G}
           R   == StrictSubsetOrdering(S)
<1> SUFFICES ASSUME S \notin G PROVE FALSE
  OBVIOUS
<1>1. IsWellFoundedOn(R, SUBSET S)
  <2>1. FiniteSubsetsOf(S) = SUBSET S
    BY FS_FiniteSubsetsOfFinite
  <2>2. IsWellFoundedOn(R, FiniteSubsetsOf(S))
    BY FS_StrictSubsetOrderingWellFounded
  <2> QED BY <2>1, <2>2
<1>2. Bad \subseteq SUBSET S /\ Bad # {}
  OBVIOUS
<1> HIDE DEF Bad, R
<1>3. PICK T \in Bad : \A U \in Bad : ~(<<U, T>> \in R)
  BY <1>1, <1>2, WFMin
<1> USE DEF Bad, R
<1>4. \A U \in SUBSET T : U # T => U \in G
  <2> SUFFICES ASSUME NEW U \in SUBSET T, U # T, U \notin G PROVE FALSE
    OBVIOUS
  <2>1. U \in Bad /\ T \in SUBSET S
    OBVIOUS
  <2>2. <<U, T>> \in R
    BY <2>1 DEF StrictSubsetOrdering
  <2> QED BY <1>3, <2>1, <2>2
<1> QED BY <1>3, <1>4

-----------------------------------------------------------------------------
Pick(s) == CHOOSE x \in s : TRUE

\* g is the table of the fold over the subsets of S.
IsTable(f, S, g) ==
    g = [s \in SUBSET S |-> IF s = {} THEN 0 ELSE f[Pick(s)] + g[s \ {Pick(s)}]]

LEMMA PickIn == ASSUME NEW s, s # {} PROVE Pick(s) \in s
BY DEF Pick

\* Two tables agree where both are defined.
LEMMA TablesAgree ==
    ASSUME NEW f, NEW S, NEW U, NEW g, NEW h, IsTable(f, S, g), IsTable(f, U, h),
           NEW T, IsFiniteSet(T), T \subseteq S, T \subseteq U
    PROVE  g[T] = h[T]
<1> DEFINE G == {t \in SUBSET T : g[t] = h[t]}
<1>1. ASSUME NEW t \in SUBSET T, \A u \in SUBSET t : u # t => u \in G
      PROVE  t \in G
  <2>1. /\ g[t] = IF t = {} THEN 0 ELSE f[Pick(t)] + g[t \ {Pick(t)}]
        /\ h[t] = IF t = {} THEN 0 ELSE f[Pick(t)] + h[t \ {Pick(t)}]
    <3>1. t \in SUBSET S /\ t \in SUBSET U
      OBVIOUS
    <3> QED BY <3>1, Zenon DEF IsTable
  <2>2. t # {} => g[t \ {Pick(t)}] = h[t \ {Pick(t)}]
    BY <1>1, PickIn
  <2> QED BY <2>1, <2>2
<1> HIDE DEF G
<1>2. T \in G
  BY <1>1, FiniteInduction
<1> QED BY <1>2 DEF G

LEMMA TableExists ==
    ASSUME NEW f, NEW S, IsFiniteSet(S)
    PROVE  \E g : IsTable(f, S, g)
<1> DEFINE G == {t \in SUBSET S : \E g : IsTable(f, t, g)}
<1>1. ASSUME NEW T \in SUBSET S, \A u \in SUBSET T : u # T => u \in G
      PROVE  T \in G
  <2> DEFINE tab(u) == CHOOSE g : IsTable(f, u, g)
             g == [s \in SUBSET T |->
                     IF s = {} THEN 0
                     ELSE f[Pick(s)] + tab(s \ {Pick(s)})[s \ {Pick(s)}]]
  <2>1. ASSUME NEW u \in SUBSET T, u # T PROVE IsTable(f, u, tab(u))
    BY <1>1, <2>1
  <2> HIDE DEF tab
  <2>2. ASSUME NEW u \in SUBSET T, u # T PROVE g[u] = tab(u)[u]
    <3>1. tab(u)[u] = IF u = {} THEN 0 ELSE f[Pick(u)] + tab(u)[u \ {Pick(u)}]
      <4>1. u \in SUBSET u
        OBVIOUS
      <4> QED BY <2>1, <2>2, <4>1, Zenon DEF IsTable
    <3>2. CASE u = {}
      BY <3>1, <3>2
    <3>3. CASE u # {}
      <4> DEFINE v == u \ {Pick(u)}
      <4>1. v \in SUBSET T /\ v # T /\ v \subseteq u
        BY <3>3, PickIn
      <4>2. IsFiniteSet(v)
        BY <4>1, FS_Subset
      <4>3. IsTable(f, v, tab(v)) /\ IsTable(f, u, tab(u))
        BY <2>1, <2>2, <4>1
      <4>4. tab(v)[v] = tab(u)[v]
        BY <4>1, <4>2, <4>3, TablesAgree
      <4> QED BY <3>1, <3>3, <4>4
    <3> QED BY <3>2, <3>3
  <2>3. \A s \in SUBSET T : s # {} => g[s \ {Pick(s)}] = tab(s \ {Pick(s)})[s \ {Pick(s)}]
    <3> SUFFICES ASSUME NEW s \in SUBSET T, s # {}
                 PROVE  g[s \ {Pick(s)}] = tab(s \ {Pick(s)})[s \ {Pick(s)}]
      OBVIOUS
    <3>1. s \ {Pick(s)} \in SUBSET T /\ s \ {Pick(s)} # T
      BY PickIn
    <3> HIDE DEF g
    <3> QED BY <2>2, <3>1
  <2>4. IsTable(f, T, g)
    BY <2>3 DEF IsTable
  <2> QED BY <2>4
<1> HIDE DEF G
<1>2. S \in G
  BY <1>1, FiniteInduction
<1> QED BY <1>2 DEF G

-----------------------------------------------------------------------------
\* The sum over a finite set, unfolded once.
LEMMA SumUnfold ==
    ASSUME NEW f, NEW S, IsFiniteSet(S)
    PROVE  SumFunctionOnSet(f, S) =
             IF S = {} THEN 0 ELSE f[Pick(S)] + SumFunctionOnSet(f, S \ {Pick(S)})
<1> DEFINE tab(s) == CHOOSE g : IsTable(f, s, g)
<1>1. \A s : SumFunctionOnSet(f, s) = tab(s)[s]
  BY DEF SumFunctionOnSet, FoldFunctionOnSet, MapThenFoldSet, IsTable, Pick
<1>2. ASSUME NEW s, IsFiniteSet(s) PROVE IsTable(f, s, tab(s))
  BY <1>2, TableExists
<1> HIDE DEF tab
<1> DEFINE v == S \ {Pick(S)}
<1>3. tab(S)[S] = IF S = {} THEN 0 ELSE f[Pick(S)] + tab(S)[v]
  <2>1. S \in SUBSET S
    OBVIOUS
  <2> QED BY <1>2, <2>1, Zenon DEF IsTable
<1>4. tab(S)[v] = tab(v)[v]
  <2>1. IsFiniteSet(v) /\ v \subseteq S
    BY FS_Subset
  <2> QED BY <1>2, <2>1, TablesAgree
<1> QED BY <1>1, <1>3, <1>4
-----------------------------------------------------------------------------
(* What the fees add up by *)

LEMMA SumEmpty == \A f : SumFunctionOnSet(f, {}) = 0
BY SumUnfold, FS_EmptySet

LEMMA SumType ==
    ASSUME NEW f, NEW S, IsFiniteSet(S), \A x \in S : f[x] \in Int
    PROVE  SumFunctionOnSet(f, S) \in Int
<1> DEFINE G == {t \in SUBSET S : SumFunctionOnSet(f, t) \in Int}
<1>1. ASSUME NEW T \in SUBSET S, \A u \in SUBSET T : u # T => u \in G
      PROVE  T \in G
  <2>1. IsFiniteSet(T)
    BY FS_Subset
  <2>2. SumFunctionOnSet(f, T) =
           IF T = {} THEN 0 ELSE f[Pick(T)] + SumFunctionOnSet(f, T \ {Pick(T)})
    BY <2>1, SumUnfold
  <2>3. T # {} => Pick(T) \in S /\ T \ {Pick(T)} \in G
    BY <1>1, PickIn
  <2> QED BY <2>2, <2>3
<1> HIDE DEF G
<1>2. S \in G
  BY <1>1, FiniteInduction
<1> QED BY <1>2 DEF G

\* Any element may be taken out first.
LEMMA SumRemove ==
    ASSUME NEW f, NEW S, IsFiniteSet(S), \A x \in S : f[x] \in Int, NEW a \in S
    PROVE  SumFunctionOnSet(f, S) = f[a] + SumFunctionOnSet(f, S \ {a})
<1> DEFINE sum(t) == SumFunctionOnSet(f, t)
           G == {t \in SUBSET S : \A x \in t : sum(t) = f[x] + sum(t \ {x})}
<1>0. \A t \in SUBSET S : /\ IsFiniteSet(t) /\ sum(t) \in Int
                          /\ t # {} => sum(t) = f[Pick(t)] + sum(t \ {Pick(t)})
  <2> TAKE t \in SUBSET S
  <2>1. IsFiniteSet(t)
    BY FS_Subset
  <2> QED BY <2>1, SumType, SumUnfold
<1> HIDE DEF sum
<1>1. ASSUME NEW T \in SUBSET S, \A u \in SUBSET T : u # T => u \in G
      PROVE  T \in G
  <2> SUFFICES ASSUME NEW x \in T PROVE sum(T) = f[x] + sum(T \ {x})
    OBVIOUS
  <2> DEFINE y == Pick(T)
             v == (T \ {x}) \ {y}
  <2>1. y \in T /\ sum(T) = f[y] + sum(T \ {y})
    BY <1>0, PickIn
  <2> HIDE DEF y
  <2>2. CASE x # y
    <3>1. T \ {y} \in G /\ x \in T \ {y} /\ T \ {x} \in G /\ y \in T \ {x}
      BY <1>1, <2>1, <2>2
    <3>2. (T \ {y}) \ {x} = v
      OBVIOUS
    <3>3. sum(T \ {y}) = f[x] + sum(v) /\ sum(T \ {x}) = f[y] + sum(v)
      BY <3>1, <3>2
    <3>4. f[x] \in Int /\ f[y] \in Int /\ sum(v) \in Int
      <4>1. v \in SUBSET S
        OBVIOUS
      <4> QED BY <1>0, <2>1, <4>1
    <3> QED BY <2>1, <3>3, <3>4
  <2> QED BY <2>1, <2>2
<1> HIDE DEF G
<1>2. S \in G
  BY <1>1, FiniteInduction
<1> QED BY <1>2 DEF G, sum

\* Equal terms, equal sums.
LEMMA SumEqual ==
    ASSUME NEW f, NEW h, NEW S, IsFiniteSet(S), \A x \in S : f[x] = h[x]
    PROVE  SumFunctionOnSet(f, S) = SumFunctionOnSet(h, S)
<1> DEFINE G == {t \in SUBSET S : SumFunctionOnSet(f, t) = SumFunctionOnSet(h, t)}
<1>1. ASSUME NEW T \in SUBSET S, \A u \in SUBSET T : u # T => u \in G
      PROVE  T \in G
  <2>1. IsFiniteSet(T)
    BY FS_Subset
  <2>2. /\ SumFunctionOnSet(f, T) =
             IF T = {} THEN 0 ELSE f[Pick(T)] + SumFunctionOnSet(f, T \ {Pick(T)})
        /\ SumFunctionOnSet(h, T) =
             IF T = {} THEN 0 ELSE h[Pick(T)] + SumFunctionOnSet(h, T \ {Pick(T)})
    BY <2>1, SumUnfold
  <2>3. T # {} => Pick(T) \in S /\ T \ {Pick(T)} \in G
    BY <1>1, PickIn
  <2> QED BY <2>2, <2>3
<1> HIDE DEF G
<1>2. S \in G
  BY <1>1, FiniteInduction
<1> QED BY <1>2 DEF G

\* Terms that add up one by one, sums that add up.
LEMMA SumPlus ==
    ASSUME NEW f, NEW g, NEW h, NEW S, IsFiniteSet(S),
           \A x \in S : f[x] \in Int /\ g[x] \in Int /\ h[x] = f[x] + g[x]
    PROVE  SumFunctionOnSet(h, S) = SumFunctionOnSet(f, S) + SumFunctionOnSet(g, S)
<1> DEFINE G == {t \in SUBSET S : SumFunctionOnSet(h, t) =
                                   SumFunctionOnSet(f, t) + SumFunctionOnSet(g, t)}
<1>1. ASSUME NEW T \in SUBSET S, \A u \in SUBSET T : u # T => u \in G
      PROVE  T \in G
  <2> DEFINE y == Pick(T)
             v == T \ {Pick(T)}
  <2>1. IsFiniteSet(T) /\ IsFiniteSet(v) /\ v \subseteq S
    BY FS_Subset
  <2>2. CASE T = {}
    BY <2>2, SumEmpty
  <2>3. CASE T # {}
    <3>1. y \in S /\ v \in G
      BY <1>1, <2>3, PickIn
    <3>2. /\ SumFunctionOnSet(f, T) = f[y] + SumFunctionOnSet(f, v)
          /\ SumFunctionOnSet(g, T) = g[y] + SumFunctionOnSet(g, v)
          /\ SumFunctionOnSet(h, T) = h[y] + SumFunctionOnSet(h, v)
      BY <2>1, <2>3, SumUnfold
    <3>3. SumFunctionOnSet(f, v) \in Int /\ SumFunctionOnSet(g, v) \in Int
      BY <2>1, SumType
    <3>4. SumFunctionOnSet(h, v) = SumFunctionOnSet(f, v) + SumFunctionOnSet(g, v)
      BY <3>1
    <3>5. f[y] \in Int /\ g[y] \in Int /\ h[y] = f[y] + g[y]
      BY <3>1
    <3> HIDE DEF y, v
    <3>6. SumFunctionOnSet(h, T) = SumFunctionOnSet(f, T) + SumFunctionOnSet(g, T)
      BY <3>2, <3>3, <3>4, <3>5
    <3> QED BY <3>6
  <2> QED BY <2>2, <2>3
<1> HIDE DEF G
<1>2. S \in G
  BY <1>1, FiniteInduction
<1> QED BY <1>2 DEF G

\* A sum of terms that are not negative is not negative.
LEMMA SumNat ==
    ASSUME NEW f, NEW S, IsFiniteSet(S), \A x \in S : f[x] \in Nat
    PROVE  SumFunctionOnSet(f, S) \in Nat
<1> DEFINE G == {t \in SUBSET S : SumFunctionOnSet(f, t) \in Nat}
<1>1. ASSUME NEW T \in SUBSET S, \A u \in SUBSET T : u # T => u \in G
      PROVE  T \in G
  <2>1. IsFiniteSet(T)
    BY FS_Subset
  <2>2. SumFunctionOnSet(f, T) =
           IF T = {} THEN 0 ELSE f[Pick(T)] + SumFunctionOnSet(f, T \ {Pick(T)})
    BY <2>1, SumUnfold
  <2>3. T # {} => Pick(T) \in S /\ T \ {Pick(T)} \in G
    BY <1>1, PickIn
  <2> QED BY <2>2, <2>3
<1> HIDE DEF G
<1>2. S \in G
  BY <1>1, FiniteInduction
<1> QED BY <1>2 DEF G

\* A set and its complement in a larger one.
LEMMA SumSplit ==
    ASSUME NEW f, NEW S, IsFiniteSet(S), \A x \in S : f[x] \in Int, NEW U \in SUBSET S
    PROVE  SumFunctionOnSet(f, S) =
             SumFunctionOnSet(f, U) + SumFunctionOnSet(f, S \ U)
<1> DEFINE sum(t) == SumFunctionOnSet(f, t)
           G == {t \in SUBSET S : sum(S) = sum(t) + sum(S \ t)}
<1>0. \A t \in SUBSET S : /\ IsFiniteSet(t) /\ sum(t) \in Int
                          /\ \A x \in t : sum(t) = f[x] + sum(t \ {x})
  <2> TAKE t \in SUBSET S
  <2>1. IsFiniteSet(t)
    BY FS_Subset
  <2> QED BY <2>1, SumType, SumRemove
<1>1. sum({}) = 0
  BY SumEmpty
<1> HIDE DEF sum
<1>2. ASSUME NEW T \in SUBSET U, \A u \in SUBSET T : u # T => u \in G
      PROVE  T \in G
  <2>1. CASE T = {}
    <3>1. S \ T = S
      BY <2>1
    <3>2. sum(S) \in Int
      BY <1>0
    <3> QED BY <1>1, <2>1, <3>1, <3>2
  <2>2. CASE T # {}
    <3>1. PICK x \in T : TRUE
      BY <2>2
    <3> DEFINE v == T \ {x}
               r == S \ v
    <3>2. sum(S) = sum(v) + sum(r)
      BY <1>2
    <3>3. v \in SUBSET S /\ r \in SUBSET S /\ x \in r /\ S \ T \in SUBSET S /\ x \in S
      OBVIOUS
    <3>4. r \ {x} = S \ T
      OBVIOUS
    <3>5. sum(T) = f[x] + sum(v)
      BY <1>0
    <3>6. sum(r) = f[x] + sum(S \ T)
      BY <1>0, <3>3, <3>4
    <3>7. sum(v) \in Int /\ sum(S \ T) \in Int /\ f[x] \in Int
      BY <1>0, <3>3
    <3> HIDE DEF v, r
    <3>8. sum(S) = sum(T) + sum(S \ T)
      BY <3>2, <3>5, <3>6, <3>7
    <3> QED BY <3>8
  <2> QED BY <2>1, <2>2
<1>3. IsFiniteSet(U)
  BY FS_Subset
<1> HIDE DEF G
<1>4. U \in G
  BY <1>2, <1>3, FiniteInduction
<1> QED BY <1>4 DEF G, sum

LEMMA SumZero ==
    ASSUME NEW f, NEW S, IsFiniteSet(S), \A x \in S : f[x] = 0
    PROVE  SumFunctionOnSet(f, S) = 0
<1>1. SumFunctionOnSet(f, S) = SumFunctionOnSet(f, S) + SumFunctionOnSet(f, S)
  BY SumPlus
<1> QED BY <1>1, SumType

\* Terms outside U that are 0 may be left out.
LEMMA SumSupport ==
    ASSUME NEW f, NEW S, IsFiniteSet(S), \A x \in S : f[x] \in Int, NEW U \in SUBSET S,
           \A x \in S \ U : f[x] = 0
    PROVE  SumFunctionOnSet(f, S) = SumFunctionOnSet(f, U)
<1>1. IsFiniteSet(U) /\ IsFiniteSet(S \ U)
  BY FS_Subset
<1>2. SumFunctionOnSet(f, S \ U) = 0
  BY <1>1, SumZero
<1>3. SumFunctionOnSet(f, U) \in Int
  BY <1>1, SumType
<1> QED BY <1>2, <1>3, SumSplit

\* One term changes: the sum changes by as much.
LEMMA SumChange ==
    ASSUME NEW f, NEW h, NEW S, IsFiniteSet(S), \A x \in S : f[x] \in Int /\ h[x] \in Int,
           NEW a \in S, \A x \in S \ {a} : f[x] = h[x]
    PROVE  SumFunctionOnSet(h, S) = SumFunctionOnSet(f, S) + h[a] - f[a]
<1> DEFINE rest == S \ {a}
<1>1. IsFiniteSet(rest)
  BY FS_Subset
<1>2. SumFunctionOnSet(f, rest) = SumFunctionOnSet(h, rest)
  BY <1>1, SumEqual
<1>3. /\ SumFunctionOnSet(f, S) = f[a] + SumFunctionOnSet(f, rest)
      /\ SumFunctionOnSet(h, S) = h[a] + SumFunctionOnSet(h, rest)
  BY SumRemove
<1>4. SumFunctionOnSet(f, rest) \in Int /\ f[a] \in Int /\ h[a] \in Int
  BY <1>1, SumType
<1> QED BY <1>2, <1>3, <1>4

\* A table of integers over a finite set has a greatest entry.
LEMMA Greatest ==
    ASSUME NEW f, NEW S, IsFiniteSet(S), S # {}, \A x \in S : f[x] \in Int
    PROVE  \E m \in S : \A x \in S : f[x] <= f[m]
<1> DEFINE G == {T \in SUBSET S : T # {} => \E m \in T : \A x \in T : f[x] <= f[m]}
<1>1. ASSUME NEW T \in SUBSET S, \A U \in SUBSET T : U # T => U \in G
      PROVE  T \in G
  <2>1. CASE T = {}
    BY <2>1
  <2>2. CASE T # {}
    <3>1. PICK a \in T : TRUE
      BY <2>2
    <3> DEFINE U == T \ {a}
    <3>2. U \in G
      BY <1>1, <3>1
    <3>3. CASE U = {}
      <4>1. T = {a} /\ f[a] \in Int
        BY <3>1, <3>3
      <4> QED BY <4>1
    <3>4. CASE U # {}
      <4>1. PICK m \in U : \A x \in U : f[x] <= f[m]
        BY <3>2, <3>4
      <4>2. \A x \in T : f[x] \in Int
        OBVIOUS
      <4>3. CASE f[a] <= f[m]
        <5>1. \A x \in T : f[x] <= f[m]
          BY <4>1, <4>3
        <5> QED BY <5>1, <4>1
      <4>4. CASE ~(f[a] <= f[m])
        <5>1. \A x \in T : f[x] <= f[a]
          BY <3>1, <4>1, <4>2, <4>4
        <5> QED BY <5>1, <3>1
      <4> QED BY <4>3, <4>4
    <3> QED BY <3>3, <3>4
  <2> QED BY <2>1, <2>2
<1> HIDE DEF G
<1>2. S \in G
  BY <1>1, FiniteInduction
<1> QED BY <1>2 DEF G

=============================================================================
