-------------------------------- MODULE Sums --------------------------------
(***************************************************************************)
(* What a sum over a finite set is.  The specifications sum with           *)
(* MapThenSumSet and SumFunctionOnSet of the community modules, which are  *)
(* recursive functions; these lemmas say that they are defined, and how a  *)
(* sum follows its set and its values.  The strict subsets of a finite     *)
(* set are well founded: the inductions are on that.                       *)
(***************************************************************************)
EXTENDS Integers, FiniteSets, FiniteSetsExt, FiniteSetTheorems, TLAPS

\* Among some subsets of a finite set one is minimal.
LEMMA SmallestSubset ==
  ASSUME NEW S, IsFiniteSet(S), NEW G, G \subseteq SUBSET S, G # {}
  PROVE  \E T \in G : \A U \in G : U \subseteq T => U = T
<1>1. IsWellFoundedOn(StrictSubsetOrdering(S), FiniteSubsetsOf(S))
  BY FS_StrictSubsetOrderingWellFounded
<1>2. FiniteSubsetsOf(S) = SUBSET S
  BY FS_FiniteSubsetsOfFinite
<1>3. \E T \in G : \A U \in G : <<U, T>> \notin StrictSubsetOrdering(S)
  BY <1>1, <1>2, WFMin
<1>4. \A T, U \in SUBSET S : U \subseteq T /\ U # T => <<U, T>> \in StrictSubsetOrdering(S)
  BY DEF StrictSubsetOrdering
<1>. QED  BY <1>3, <1>4

\* Induction: a family that has every subset of S all of whose proper subsets
\* it has, has S.
LEMMA SubsetInduction ==
  ASSUME NEW S, IsFiniteSet(S), NEW G,
         \A T \in SUBSET S : (\A U \in SUBSET T : U # T => U \in G) => T \in G
  PROVE  \A T \in SUBSET S : T \in G
<1>. SUFFICES ASSUME NEW V \in SUBSET S, V \notin G PROVE FALSE
  OBVIOUS
<1>1. PICK T \in (SUBSET S) \ G : \A U \in (SUBSET S) \ G : U \subseteq T => U = T
  <2>. DEFINE B == (SUBSET S) \ G
  <2>1. B \subseteq SUBSET S /\ B # {}
    OBVIOUS
  <2>2. \E T \in B : \A U \in B : U \subseteq T => U = T
    <3>. HIDE DEF B
    <3>. QED  BY <2>1, SmallestSubset
  <2>. QED  BY <2>2
<1>. QED  BY <1>1
----------------------------------------------------------------------------
(* The fold.                                                                *)

AnyOf(s) == CHOOSE x \in s : TRUE

Folded(f, g, s) == IF s = {} THEN 0 ELSE f[AnyOf(s)] + g[s \ {AnyOf(s)}]

IsFold(f, g, S) == g = [s \in SUBSET S |-> Folded(f, g, s)]

LEMMA FoldUnique ==
  ASSUME NEW f, NEW S, IsFiniteSet(S), NEW T, NEW g, NEW h, IsFold(f, g, S), IsFold(f, h, T)
  PROVE  \A s \in SUBSET S : s \subseteq T => g[s] = h[s]
<1>. DEFINE G == {s \in SUBSET S : s \subseteq T => g[s] = h[s]}
<1>1. ASSUME NEW s \in SUBSET S, \A U \in SUBSET s : U # s => U \in G
      PROVE  s \in G
  <2>. SUFFICES ASSUME s \subseteq T PROVE g[s] = h[s]
    OBVIOUS
  <2>1. g[s] = Folded(f, g, s) /\ h[s] = Folded(f, h, s)
    BY DEF IsFold
  <2>2. CASE s = {}
    BY <2>1, <2>2 DEF Folded
  <2>3. CASE s # {}
    <3>1. AnyOf(s) \in s
      BY <2>3 DEF AnyOf
    <3>2. s \ {AnyOf(s)} \in SUBSET s /\ s \ {AnyOf(s)} # s
      BY <3>1
    <3>3. g[s \ {AnyOf(s)}] = h[s \ {AnyOf(s)}]
      BY <3>2, <1>1
    <3>. QED  BY <2>1, <3>3 DEF Folded
  <2>. QED  BY <2>2, <2>3
<1>2. \A s \in SUBSET S : s \in G
  <2>. HIDE DEF G
  <2>. QED  BY <1>1, SubsetInduction
<1>. QED  BY <1>2

LEMMA FoldExists ==
  ASSUME NEW f, NEW S, IsFiniteSet(S)
  PROVE  \E g : IsFold(f, g, S)
<1>. DEFINE G == {T \in SUBSET S : \E g : IsFold(f, g, T)}
<1>1. ASSUME NEW T \in SUBSET S, \A U \in SUBSET T : U # T => U \in G
      PROVE  T \in G
  <2>. DEFINE F(U) == CHOOSE g : IsFold(f, g, U)
              below == [s \in SUBSET T |-> IF s = T THEN 0 ELSE F(s)[s]]
              g == [s \in SUBSET T |-> Folded(f, below, s)]
  <2>1. \A U \in SUBSET T : U # T => IsFold(f, F(U), U)
    BY <1>1
  <2>2. \A U \in SUBSET T : U # T => below[U] = Folded(f, below, U)
    <3>. SUFFICES ASSUME NEW U \in SUBSET T, U # T PROVE F(U)[U] = Folded(f, below, U)
      OBVIOUS
    <3>. HIDE DEF F
    <3>1. F(U)[U] = Folded(f, F(U), U)
      BY <2>1 DEF IsFold
    <3>2. CASE U = {}
      BY <3>1, <3>2 DEF Folded
    <3>3. CASE U # {}
      <4>. DEFINE V == U \ {AnyOf(U)}
      <4>1. V \in SUBSET U /\ V \in SUBSET T /\ V # T
        BY <3>3 DEF AnyOf
      <4>2. IsFiniteSet(V)
        BY <4>1, FS_Subset
      <4>3. IsFold(f, F(U), U) /\ IsFold(f, F(V), V)
        BY <2>1, <4>1
      <4>4. F(V)[V] = F(U)[V]
        <5>. HIDE DEF V
        <5>. QED  BY <4>1, <4>2, <4>3, FoldUnique
      <4>5. below[V] = F(U)[V]
        BY <4>1, <4>4
      <4>. QED  BY <3>1, <3>3, <4>5 DEF Folded
    <3>. QED  BY <3>2, <3>3
  <2>3. \A s \in SUBSET T : Folded(f, below, s) = Folded(f, g, s)
    <3>1. ASSUME NEW s \in SUBSET T, s # {} PROVE below[s \ {AnyOf(s)}] = g[s \ {AnyOf(s)}]
      <4>1. s \ {AnyOf(s)} \in SUBSET T /\ s \ {AnyOf(s)} # T
        BY <3>1 DEF AnyOf
      <4>. QED  BY <2>2, <4>1
    <3>. HIDE DEF below, g
    <3>. QED  BY <3>1 DEF Folded
  <2>4. IsFold(f, g, T)
    BY <2>3 DEF IsFold
  <2>. QED  BY <2>4
<1>2. \A T \in SUBSET S : T \in G
  <2>. HIDE DEF G
  <2>. QED  BY <1>1, SubsetInduction
<1>. QED  BY <1>2

LEMMA SumIsFold ==
  ASSUME NEW f, NEW S, IsFiniteSet(S)
  PROVE  \E g : IsFold(f, g, S) /\ SumFunctionOnSet(f, S) = g[S]
<1>1. SumFunctionOnSet(f, S) = (CHOOSE g : IsFold(f, g, S))[S]
  BY DEF SumFunctionOnSet, FoldFunctionOnSet, MapThenFoldSet, IsFold, Folded, AnyOf
<1>. QED  BY <1>1, FoldExists
----------------------------------------------------------------------------
(* Sums.                                                                    *)

LEMMA SumOfNone ==
  ASSUME NEW f
  PROVE  SumFunctionOnSet(f, {}) = 0
<1>1. IsFiniteSet({})
  BY FS_EmptySet
<1>2. PICK g : IsFold(f, g, {}) /\ SumFunctionOnSet(f, {}) = g[{}]
  BY <1>1, SumIsFold
<1>. QED  BY <1>2 DEF IsFold, Folded

LEMMA SumPicks ==
  ASSUME NEW f, NEW S, IsFiniteSet(S), S # {}
  PROVE  SumFunctionOnSet(f, S) = f[AnyOf(S)] + SumFunctionOnSet(f, S \ {AnyOf(S)})
<1>. DEFINE T == S \ {AnyOf(S)}
<1>1. T \in SUBSET S /\ IsFiniteSet(T)
  BY FS_RemoveElement
<1>2. PICK g : IsFold(f, g, S) /\ SumFunctionOnSet(f, S) = g[S]
  BY SumIsFold
<1>3. PICK h : IsFold(f, h, T) /\ SumFunctionOnSet(f, T) = h[T]
  BY <1>1, SumIsFold
<1>4. g[T] = h[T]
  <2>. HIDE DEF T
  <2>. QED  BY <1>1, <1>2, <1>3, FoldUnique
<1>5. g[S] = Folded(f, g, S)
  BY <1>2 DEF IsFold
<1>6. g[S] = f[AnyOf(S)] + g[T]
  BY <1>5 DEF Folded
<1>. QED  BY <1>2, <1>3, <1>4, <1>6

\* A sum of naturals is one.
THEOREM SumType ==
  ASSUME NEW f, NEW S, IsFiniteSet(S), \A i \in S : f[i] \in Nat
  PROVE  SumFunctionOnSet(f, S) \in Nat
<1>. DEFINE G == {T \in SUBSET S : SumFunctionOnSet(f, T) \in Nat}
<1>1. ASSUME NEW T \in SUBSET S, \A U \in SUBSET T : U # T => U \in G
      PROVE  T \in G
  <2>1. CASE T = {}
    BY <2>1, SumOfNone
  <2>2. CASE T # {}
    <3>1. AnyOf(T) \in T
      BY <2>2 DEF AnyOf
    <3>2. T \ {AnyOf(T)} \in G
      BY <3>1, <1>1
    <3>3. IsFiniteSet(T)
      BY FS_Subset
    <3>4. SumFunctionOnSet(f, T) = f[AnyOf(T)] + SumFunctionOnSet(f, T \ {AnyOf(T)})
      BY <2>2, <3>3, SumPicks
    <3>. QED  BY <3>1, <3>2, <3>4
  <2>. QED  BY <2>1, <2>2
<1>2. \A T \in SUBSET S : T \in G
  <2>. HIDE DEF G
  <2>. QED  BY <1>1, SubsetInduction
<1>. QED  BY <1>2

\* A sum is the value of any one element and the sum of the others, whichever
\* element the fold picks.
THEOREM SumRemove ==
  ASSUME NEW f, NEW S, IsFiniteSet(S), \A i \in S : f[i] \in Nat, NEW x \in S
  PROVE  SumFunctionOnSet(f, S) = f[x] + SumFunctionOnSet(f, S \ {x})
<1>. DEFINE Sum(T) == SumFunctionOnSet(f, T)
            G == {T \in SUBSET S : \A y \in T : Sum(T) = f[y] + Sum(T \ {y})}
<1>0. \A T \in SUBSET S : IsFiniteSet(T) /\ Sum(T) \in Nat
  BY FS_Subset, SumType
<1>1. ASSUME NEW T \in SUBSET S, \A U \in SUBSET T : U # T => U \in G
      PROVE  T \in G
  <2>. SUFFICES ASSUME NEW y \in T PROVE Sum(T) = f[y] + Sum(T \ {y})
    OBVIOUS
  <2>. DEFINE c == AnyOf(T)
              Y == T \ {y}
              C == T \ {c}
              U == T \ {y, c}
  <2>1. c \in T
    BY DEF AnyOf
  <2>2. Sum(T) = f[c] + Sum(C)
    BY <1>0, SumPicks
  <2>3. CASE c = y
    BY <2>2, <2>3
  <2>4. CASE c # y
    <3>1. y \in C /\ C \ {y} = U /\ c \in Y /\ Y \ {c} = U
      BY <2>1, <2>4
    <3>2. C \in G /\ Y \in G
      BY <2>1, <1>1
    <3>3. Sum(C) = f[y] + Sum(U) /\ Sum(Y) = f[c] + Sum(U)
      BY <3>1, <3>2
    <3>4. Sum(U) \in Nat /\ f[c] \in Nat /\ f[y] \in Nat
      BY <1>0, <2>1
    <3>. HIDE DEF Sum, c, Y, C, U
    <3>5. Sum(T) = f[y] + Sum(Y)
      BY <2>2, <3>3, <3>4
    <3>. QED  BY <3>5 DEF Y
  <2>. QED  BY <2>3, <2>4
<1>2. \A T \in SUBSET S : T \in G
  <2>. HIDE DEF G
  <2>. QED  BY <1>1, SubsetInduction
<1>. QED  BY <1>2

THEOREM SumAdd ==
  ASSUME NEW f, NEW S, IsFiniteSet(S), NEW x, x \notin S,
         \A i \in S \cup {x} : f[i] \in Nat
  PROVE  SumFunctionOnSet(f, S \cup {x}) = SumFunctionOnSet(f, S) + f[x]
<1>1. IsFiniteSet(S \cup {x}) /\ (S \cup {x}) \ {x} = S
  BY FS_AddElement
<1>2. SumFunctionOnSet(f, S \cup {x}) = f[x] + SumFunctionOnSet(f, S)
  BY <1>1, SumRemove
<1>3. SumFunctionOnSet(f, S) \in Nat /\ f[x] \in Nat
  BY SumType
<1>. QED  BY <1>2, <1>3

THEOREM SumOfOne ==
  ASSUME NEW f, NEW x, f[x] \in Nat
  PROVE  SumFunctionOnSet(f, {x}) = f[x]
<1>1. IsFiniteSet({x}) /\ {x} \ {x} = {}
  BY FS_Singleton
<1>2. SumFunctionOnSet(f, {x}) = f[x] + SumFunctionOnSet(f, {x} \ {x})
  BY <1>1, SumRemove
<1>. QED  BY <1>1, <1>2, SumOfNone

\* The sum depends on the values of the elements, not on the function.
THEOREM SumEqual ==
  ASSUME NEW f, NEW g, NEW S, IsFiniteSet(S),
         \A i \in S : f[i] \in Nat /\ g[i] = f[i]
  PROVE  SumFunctionOnSet(g, S) = SumFunctionOnSet(f, S)
<1>. DEFINE G == {T \in SUBSET S : SumFunctionOnSet(g, T) = SumFunctionOnSet(f, T)}
<1>1. ASSUME NEW T \in SUBSET S, \A U \in SUBSET T : U # T => U \in G
      PROVE  T \in G
  <2>1. CASE T = {}
    BY <2>1, SumOfNone
  <2>2. CASE T # {}
    <3>1. PICK x \in T : TRUE
      BY <2>2
    <3>2. T \ {x} \in G
      BY <1>1
    <3>3. IsFiniteSet(T) /\ (\A i \in T : f[i] \in Nat /\ g[i] \in Nat) /\ g[x] = f[x]
      BY FS_Subset
    <3>4. /\ SumFunctionOnSet(f, T) = f[x] + SumFunctionOnSet(f, T \ {x})
          /\ SumFunctionOnSet(g, T) = g[x] + SumFunctionOnSet(g, T \ {x})
      BY <3>3, SumRemove
    <3>. QED  BY <3>2, <3>3, <3>4
  <2>. QED  BY <2>1, <2>2
<1>2. \A T \in SUBSET S : T \in G
  <2>. HIDE DEF G
  <2>. QED  BY <1>1, SubsetInduction
<1>. QED  BY <1>2

\* Larger values make no smaller sum.
THEOREM SumBound ==
  ASSUME NEW f, NEW g, NEW S, IsFiniteSet(S),
         \A i \in S : f[i] \in Nat /\ g[i] \in Nat /\ f[i] <= g[i]
  PROVE  SumFunctionOnSet(f, S) <= SumFunctionOnSet(g, S)
<1>. DEFINE G == {T \in SUBSET S : SumFunctionOnSet(f, T) <= SumFunctionOnSet(g, T)}
<1>1. ASSUME NEW T \in SUBSET S, \A U \in SUBSET T : U # T => U \in G
      PROVE  T \in G
  <2>1. CASE T = {}
    BY <2>1, SumOfNone
  <2>2. CASE T # {}
    <3>1. PICK x \in T : TRUE
      BY <2>2
    <3>2. T \ {x} \in G
      BY <1>1
    <3>3. IsFiniteSet(T) /\ IsFiniteSet(T \ {x})
      BY FS_Subset
    <3>4. /\ SumFunctionOnSet(f, T) = f[x] + SumFunctionOnSet(f, T \ {x})
          /\ SumFunctionOnSet(g, T) = g[x] + SumFunctionOnSet(g, T \ {x})
      BY <3>3, SumRemove
    <3>5. SumFunctionOnSet(f, T \ {x}) \in Nat /\ SumFunctionOnSet(g, T \ {x}) \in Nat
      BY <3>3, SumType
    <3>6. f[x] \in Nat /\ g[x] \in Nat /\ f[x] <= g[x]
      OBVIOUS
    <3>. QED  BY <3>2, <3>4, <3>5, <3>6
  <2>. QED  BY <2>1, <2>2
<1>2. \A T \in SUBSET S : T \in G
  <2>. HIDE DEF G
  <2>. QED  BY <1>1, SubsetInduction
<1>. QED  BY <1>2

\* The sum over two disjoint sets.
THEOREM SumUnion ==
  ASSUME NEW f, NEW S, NEW T, IsFiniteSet(S), IsFiniteSet(T), S \cap T = {},
         \A i \in S \cup T : f[i] \in Nat
  PROVE  SumFunctionOnSet(f, S \cup T) = SumFunctionOnSet(f, S) + SumFunctionOnSet(f, T)
<1>. DEFINE Sum(U) == SumFunctionOnSet(f, U)
            G == {U \in SUBSET T : Sum(S \cup U) = Sum(S) + Sum(U)}
<1>0. Sum(S) \in Nat
  BY SumType
<1>1. ASSUME NEW U \in SUBSET T, \A V \in SUBSET U : V # U => V \in G
      PROVE  U \in G
  <2>1. CASE U = {}
    <3>1. S \cup U = S
      BY <2>1
    <3>2. Sum(S \cup U) = Sum(S) /\ Sum(U) = 0
      BY <2>1, <3>1, SumOfNone
    <3>3. Sum(S \cup U) = Sum(S) + Sum(U)
      BY <1>0, <3>2
    <3>. QED  BY <3>3
  <2>2. CASE U # {}
    <3>1. PICK x \in U : TRUE
      BY <2>2
    <3>2. U \ {x} \in G
      BY <1>1
    <3>3. IsFiniteSet(U) /\ IsFiniteSet(U \ {x}) /\ IsFiniteSet(S \cup U)
      BY FS_Subset, FS_Union
    <3>4. (S \cup U) \ {x} = S \cup (U \ {x}) /\ x \in S \cup U
      OBVIOUS
    <3>5. Sum(U) = f[x] + Sum(U \ {x}) /\ Sum(S \cup U) = f[x] + Sum(S \cup (U \ {x}))
      BY <3>3, <3>4, SumRemove
    <3>6. Sum(U \ {x}) \in Nat /\ f[x] \in Nat
      BY <3>3, SumType
    <3>. HIDE DEF Sum
    <3>. QED  BY <1>0, <3>2, <3>5, <3>6
  <2>. QED  BY <2>1, <2>2
<1>2. \A U \in SUBSET T : U \in G
  <2>. HIDE DEF G
  <2>. QED  BY <1>1, SubsetInduction
<1>. QED  BY <1>2

\* A part sums to no more than the whole.
THEOREM SumSubset ==
  ASSUME NEW f, NEW S, IsFiniteSet(S), \A i \in S : f[i] \in Nat, NEW T \in SUBSET S
  PROVE  SumFunctionOnSet(f, T) <= SumFunctionOnSet(f, S)
<1>1. IsFiniteSet(T) /\ IsFiniteSet(S \ T) /\ T \cup (S \ T) = S /\ T \cap (S \ T) = {}
  BY FS_Subset
<1>2. SumFunctionOnSet(f, S) = SumFunctionOnSet(f, T) + SumFunctionOnSet(f, S \ T)
  BY <1>1, SumUnion
<1>3. SumFunctionOnSet(f, T) \in Nat /\ SumFunctionOnSet(f, S \ T) \in Nat
  BY <1>1, SumType
<1>. QED  BY <1>2, <1>3

\* Zeros add nothing: the sum is that over the part where the values are.
THEOREM SumOfPart ==
  ASSUME NEW f, NEW S, IsFiniteSet(S), NEW T \in SUBSET S,
         \A i \in S : f[i] \in Nat, \A i \in S \ T : f[i] = 0
  PROVE  SumFunctionOnSet(f, S) = SumFunctionOnSet(f, T)
<1>. DEFINE R == S \ T
            G == {U \in SUBSET R : SumFunctionOnSet(f, U) = 0}
<1>0. IsFiniteSet(T) /\ IsFiniteSet(R) /\ S = T \cup R /\ T \cap R = {}
  BY FS_Subset
<1>1. ASSUME NEW U \in SUBSET R, \A V \in SUBSET U : V # U => V \in G
      PROVE  U \in G
  <2>1. CASE U = {}
    BY <2>1, SumOfNone
  <2>2. CASE U # {}
    <3>1. PICK x \in U : TRUE
      BY <2>2
    <3>2. U \ {x} \in G
      BY <1>1
    <3>3. IsFiniteSet(U) /\ (\A i \in U : f[i] \in Nat) /\ f[x] = 0
      BY <1>0, FS_Subset
    <3>4. SumFunctionOnSet(f, U) = f[x] + SumFunctionOnSet(f, U \ {x})
      BY <3>3, SumRemove
    <3>. QED  BY <3>2, <3>3, <3>4
  <2>. QED  BY <2>1, <2>2
<1>2. \A U \in SUBSET R : U \in G
  <2>. HIDE DEF G, R
  <2>. QED  BY <1>0, <1>1, SubsetInduction
<1>3. SumFunctionOnSet(f, R) = 0
  BY <1>2
<1>4. \A i \in T \cup R : f[i] \in Nat
  OBVIOUS
<1>. HIDE DEF R
<1>5. SumFunctionOnSet(f, T \cup R) = SumFunctionOnSet(f, T) + SumFunctionOnSet(f, R)
  BY <1>0, <1>4, SumUnion
<1>6. SumFunctionOnSet(f, T) \in Nat
  BY <1>0, <1>4, SumType
<1>. QED  BY <1>0, <1>3, <1>5, <1>6

\* The sum of the sums.
THEOREM SumPlus ==
  ASSUME NEW f, NEW g, NEW h, NEW S, IsFiniteSet(S),
         \A i \in S : f[i] \in Nat /\ g[i] \in Nat /\ h[i] = f[i] + g[i]
  PROVE  SumFunctionOnSet(h, S) = SumFunctionOnSet(f, S) + SumFunctionOnSet(g, S)
<1>. DEFINE G == {T \in SUBSET S :
                   SumFunctionOnSet(h, T) = SumFunctionOnSet(f, T) + SumFunctionOnSet(g, T)}
<1>1. ASSUME NEW T \in SUBSET S, \A U \in SUBSET T : U # T => U \in G
      PROVE  T \in G
  <2>1. CASE T = {}
    BY <2>1, SumOfNone
  <2>2. CASE T # {}
    <3>1. PICK x \in T : TRUE
      BY <2>2
    <3>2. T \ {x} \in G
      BY <1>1
    <3>3. /\ IsFiniteSet(T) /\ IsFiniteSet(T \ {x})
          /\ \A i \in T : f[i] \in Nat /\ g[i] \in Nat /\ h[i] \in Nat
      BY FS_Subset
    <3>4. /\ SumFunctionOnSet(f, T) = f[x] + SumFunctionOnSet(f, T \ {x})
          /\ SumFunctionOnSet(g, T) = g[x] + SumFunctionOnSet(g, T \ {x})
          /\ SumFunctionOnSet(h, T) = h[x] + SumFunctionOnSet(h, T \ {x})
      BY <3>3, SumRemove
    <3>5. SumFunctionOnSet(f, T \ {x}) \in Nat /\ SumFunctionOnSet(g, T \ {x}) \in Nat
      BY <3>3, SumType
    <3>6. f[x] \in Nat /\ g[x] \in Nat /\ h[x] = f[x] + g[x]
      OBVIOUS
    <3>. QED  BY <3>2, <3>4, <3>5, <3>6
  <2>. QED  BY <2>1, <2>2
<1>2. \A T \in SUBSET S : T \in G
  <2>. HIDE DEF G
  <2>. QED  BY <1>1, SubsetInduction
<1>. QED  BY <1>2

\* A sum over the images of the elements, no two of which coincide.
THEOREM SumImage ==
  ASSUME NEW f, NEW e, NEW S, IsFiniteSet(S),
         \A i \in S : f[e[i]] \in Nat,
         \A i, j \in S : e[i] = e[j] => i = j
  PROVE  SumFunctionOnSet(f, {e[i] : i \in S}) = SumFunctionOnSet([i \in S |-> f[e[i]]], S)
<1>. DEFINE h == [i \in S |-> f[e[i]]]
            G == {T \in SUBSET S : /\ IsFiniteSet({e[i] : i \in T})
                                   /\ SumFunctionOnSet(f, {e[i] : i \in T}) = SumFunctionOnSet(h, T)}
<1>1. ASSUME NEW T \in SUBSET S, \A U \in SUBSET T : U # T => U \in G
      PROVE  T \in G
  <2>1. CASE T = {}
    <3>1. {e[i] : i \in T} = {}
      BY <2>1
    <3>2. IsFiniteSet({})
      BY FS_EmptySet
    <3>. QED  BY <2>1, <3>1, <3>2, SumOfNone
  <2>2. CASE T # {}
    <3>1. PICK x \in T : TRUE
      BY <2>2
    <3>. DEFINE I == {e[i] : i \in T \ {x}}
                J == {e[i] : i \in T}
    <3>2. T \ {x} \in G
      BY <1>1
    <3>3. IsFiniteSet(T) /\ IsFiniteSet(I) /\ IsFiniteSet(T \ {x})
      BY <3>2, FS_Subset
    <3>4. J = I \cup {e[x]} /\ e[x] \notin I
      OBVIOUS
    <3>5. \A y \in I \cup {e[x]} : f[y] \in Nat
      OBVIOUS
    <3>6. IsFiniteSet(I \cup {e[x]})
      BY <3>3, FS_AddElement
    <3>7. SumFunctionOnSet(f, I \cup {e[x]}) = SumFunctionOnSet(f, I) + f[e[x]]
      <4>. HIDE DEF I
      <4>. QED  BY <3>3, <3>4, <3>5, SumAdd
    <3>8. \A i \in T : h[i] \in Nat
      OBVIOUS
    <3>9. SumFunctionOnSet(h, T) = h[x] + SumFunctionOnSet(h, T \ {x})
      <4>. HIDE DEF h
      <4>. QED  BY <3>3, <3>8, SumRemove
    <3>10. SumFunctionOnSet(f, I) \in Nat /\ f[e[x]] \in Nat /\ h[x] = f[e[x]]
      <4>1. SumFunctionOnSet(f, I) \in Nat
        <5>. HIDE DEF I
        <5>. QED  BY <3>3, <3>5, SumType
      <4>. QED  BY <4>1
    <3>11. SumFunctionOnSet(f, I) = SumFunctionOnSet(h, T \ {x})
      BY <3>2
    <3>12. SumFunctionOnSet(f, I) + f[e[x]] = h[x] + SumFunctionOnSet(h, T \ {x})
      <4>. HIDE DEF I, h
      <4>. QED  BY <3>10, <3>11
    <3>13. SumFunctionOnSet(f, J) = SumFunctionOnSet(h, T)
      <4>. HIDE DEF I, J, h
      <4>. QED  BY <3>4, <3>7, <3>9, <3>12
    <3>. QED  BY <3>4, <3>6, <3>13
  <2>. QED  BY <2>1, <2>2
<1>2. \A T \in SUBSET S : T \in G
  <2>. HIDE DEF G
  <2>. QED  BY <1>1, SubsetInduction
<1>. QED  BY <1>2
----------------------------------------------------------------------------
(* Counting up.                                                             *)

\* Induction on the numbers to n.
THEOREM CountingUp ==
  ASSUME NEW n \in Nat, NEW G, 0 \in G, \A k \in 0 .. n - 1 : k \in G => k + 1 \in G
  PROVE  \A k \in 0 .. n : k \in G
<1>. SUFFICES ASSUME NEW k \in 0 .. n, k \notin G PROVE FALSE
  OBVIOUS
<1>. DEFINE B == {j \in 0 .. n : 0 .. j \subseteq G}
<1>1. IsFiniteSet(0 .. n)
  BY FS_Interval
<1>. DEFINE C == {(j + 1) .. n : j \in B}
<1>2. C \subseteq SUBSET (0 .. n) /\ C # {}
  <2>1. 0 \in B
    OBVIOUS
  <2>2. 1 .. n \in C
    BY <2>1
  <2>3. \A j \in B : (j + 1) .. n \in SUBSET (0 .. n)
    OBVIOUS
  <2>. QED  BY <2>2, <2>3
<1>3. PICK T \in C : \A U \in C : U \subseteq T => U = T
  <2>. DEFINE D == 0 .. n
  <2>1. IsFiniteSet(D) /\ C \subseteq SUBSET D /\ C # {}
    BY <1>1, <1>2
  <2>. HIDE DEF C, D
  <2>. QED  BY <2>1, SmallestSubset
<1>4. PICK j \in B : T = (j + 1) .. n
  OBVIOUS
<1>5. j # n
  OBVIOUS
<1>6. j + 1 \in B
  <2>1. j \in G /\ j + 1 \in G /\ j + 1 \in 0 .. n
    BY <1>5
  <2>2. 0 .. (j + 1) = (0 .. j) \cup {j + 1}
    OBVIOUS
  <2>. QED  BY <2>1, <2>2
<1>7. (j + 2) .. n \in C /\ (j + 2) .. n \subseteq T /\ j + 1 \in T /\ j + 1 \notin (j + 2) .. n
  BY <1>4, <1>5, <1>6
<1>. QED  BY <1>3, <1>7

\* As many as there are: the image of a set under a function that tells its
\* elements apart.
LEMMA ImageCount ==
  ASSUME NEW S, IsFiniteSet(S), NEW e, \A i, j \in S : e[i] = e[j] => i = j
  PROVE  /\ IsFiniteSet({e[i] : i \in S})
         /\ Cardinality({e[i] : i \in S}) = Cardinality(S)
<1>. DEFINE T == {e[i] : i \in S}
            f == [i \in S |-> e[i]]
<1>1. f \in [S -> T] /\ (\A i, j \in S : f[i] = f[j] => i = j) /\ (\A t \in T : \E i \in S : f[i] = t)
  OBVIOUS
<1>2. f \in Bijection(S, T)
  <2>. HIDE DEF f, T
  <2>. QED  BY <1>1 DEF Bijection, Injection, Surjection, IsInjective
<1>3. ExistsBijection(S, T)
  BY <1>2 DEF ExistsBijection
<1>. HIDE DEF T
<1>4. IsFiniteSet(T) /\ Cardinality(T) = Cardinality(S)
  BY <1>3, FS_Bijection
<1>. QED  BY <1>4 DEF T

\* Two sets with nothing in common, counted together.
LEMMA CountBoth ==
  ASSUME NEW S, NEW T, IsFiniteSet(S), IsFiniteSet(T), S \cap T = {}
  PROVE  /\ IsFiniteSet(S \cup T)
         /\ Cardinality(S) \in Nat /\ Cardinality(T) \in Nat
         /\ Cardinality(S \cup T) = Cardinality(S) + Cardinality(T)
<1>1. Cardinality(S) \in Nat /\ Cardinality(T) \in Nat
  BY FS_CardinalityType
<1>2. /\ IsFiniteSet(S \cup T)
      /\ Cardinality(S \cup T) = Cardinality(S) + Cardinality(T) - Cardinality(S \cap T)
  BY FS_Union
<1>3. Cardinality(S \cap T) = 0
  BY FS_EmptySet
<1>. QED  BY <1>1, <1>2, <1>3

\* Any numbers have a least among them.
LEMMA LeastOf ==
  ASSUME NEW E \in SUBSET Nat, NEW n \in E
  PROVE  \E e \in E : \A f \in E : e <= f
<1>. DEFINE B == {e \in E : e <= n}
            G == {0 .. e : e \in B}
<1>1. G \subseteq SUBSET (0 .. n) /\ 0 .. n \in G
  OBVIOUS
<1>2. IsFiniteSet(0 .. n)
  BY FS_Interval
<1>3. PICK T \in G : \A U \in G : U \subseteq T => U = T
  <2>. DEFINE D == 0 .. n
  <2>1. IsFiniteSet(D) /\ G \subseteq SUBSET D /\ G # {}
    BY <1>1, <1>2
  <2>. HIDE DEF G, D
  <2>. QED  BY <2>1, SmallestSubset
<1>4. PICK e \in B : T = 0 .. e
  OBVIOUS
<1>5. ASSUME NEW f \in E, f < e PROVE FALSE
  <2>1. f \in B /\ 0 .. f \in G
    BY <1>4, <1>5
  <2>2. 0 .. f \subseteq 0 .. e /\ e \in 0 .. e /\ e \notin 0 .. f
    BY <1>4, <1>5
  <2>. QED  BY <1>3, <1>4, <2>1, <2>2
<1>. QED  BY <1>4, <1>5
=============================================================================
