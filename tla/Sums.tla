-------------------------------- MODULE Sums --------------------------------
(***************************************************************************)
(* Facts about SumFunctionOnSet and about the total size of a sequence of  *)
(* chunks, for the proofs about counters, budgets and buffers.             *)
(*                                                                         *)
(* A fold is a recursive function over the subsets of a finite set, so     *)
(* what it computes is shown by induction.  The induction theorems of the  *)
(* library take an operator; the two below take the SET of the things for  *)
(* which the claim holds instead, and come from the least element of a     *)
(* well-founded order.                                                     *)
(***************************************************************************)
EXTENDS Integers, Sequences, SequencesExt, FiniteSetTheorems, WellFoundedInduction, TLAPS

\* A non-empty set of finite sets has a member no other member is part of.
LEMMA MinimalSubset ==
  ASSUME NEW S, NEW B, B \subseteq FiniteSubsetsOf(S), B # {}
  PROVE  \E T \in B : \A U \in B : <<U, T>> \notin StrictSubsetOrdering(S)
BY FS_StrictSubsetOrderingWellFounded, WFMin, Zenon

\* What holds of a set as soon as it holds of its proper subsets holds of all.
LEMMA SubsetInduction ==
  ASSUME NEW S, IsFiniteSet(S), NEW P \in SUBSET SUBSET S,
         \A T \in SUBSET S : (\A U \in SUBSET T : U # T => U \in P) => T \in P
  PROVE  P = SUBSET S
<1> SUFFICES ASSUME P # SUBSET S PROVE FALSE
  OBVIOUS
<1> DEFINE Bad == {T \in SUBSET S : T \notin P}
<1>1. Bad \subseteq FiniteSubsetsOf(S) /\ Bad # {}
  BY FS_Subset DEF FiniteSubsetsOf
<1>2. PICK T \in Bad : \A U \in Bad : <<U, T>> \notin StrictSubsetOrdering(S)
  <2> HIDE DEF Bad
  <2> QED
    BY <1>1, MinimalSubset
<1>3. PICK U \in SUBSET T : U # T /\ U \notin P
  BY <1>2
<1>4. <<U, T>> \in StrictSubsetOrdering(S)
  BY <1>2, <1>3 DEF StrictSubsetOrdering
<1> QED
  BY <1>2, <1>3, <1>4

\* Induction over a finite set, one element at a time.
LEMMA FiniteSetInduction ==
  ASSUME NEW S, IsFiniteSet(S), NEW P \in SUBSET SUBSET S, {} \in P,
         \A T \in P : \A x \in S \ T : T \cup {x} \in P
  PROVE  S \in P
<1>1. ASSUME NEW T \in SUBSET S, \A U \in SUBSET T : U # T => U \in P
      PROVE  T \in P
  <2>1. CASE T = {}
    BY <2>1
  <2>2. ASSUME NEW x \in T
        PROVE  T \in P
    <3>1. T \ {x} \in P /\ x \in S \ (T \ {x}) /\ (T \ {x}) \cup {x} = T
      BY <1>1, <2>2
    <3> QED
      BY <3>1
  <2> QED
    BY <2>1, <2>2
<1> QED
  BY <1>1, SubsetInduction

\* Induction over the natural numbers.
LEMMA NatSetInduction ==
  ASSUME NEW P \in SUBSET Nat, 0 \in P, \A n \in P : n + 1 \in P
  PROVE  P = Nat
<1> SUFFICES ASSUME P # Nat PROVE FALSE
  OBVIOUS
<1>1. PICK m \in Nat \ P : \A n \in Nat \ P : ~(<<n, m>> \in OpToRel(<, Nat))
  BY WFMin, NatLessThanWellFounded, Zenon
<1>2. m \in Nat /\ m # 0
  OBVIOUS
<1>3. m - 1 \in Nat /\ m - 1 < m
  BY <1>2
<1>4. <<m - 1, m>> \in OpToRel(<, Nat)
  BY <1>2, <1>3 DEF OpToRel
<1>5. m - 1 \in P
  BY <1>1, <1>3, <1>4, Zenon
<1>6. (m - 1) + 1 = m
  BY <1>2
<1> QED
  BY <1>5, <1>6

-----------------------------------------------------------------------------
(***************************************************************************)
(* A tally g of the values v adds up a set in the order given by pick.     *)
(***************************************************************************)
Tally(g, v, pick, S) ==
  g = [T \in SUBSET S |-> IF T = {} THEN 0 ELSE v[pick[T]] + g[T \ {pick[T]}]]

\* The recursion of a tally has a solution: it is built up by cardinality.
LEMMA TallyExists ==
  ASSUME NEW S, IsFiniteSet(S), NEW v, NEW pick, 
         \A T \in SUBSET S : T # {} => pick[T] \in T
  PROVE  \E g : Tally(g, v, pick, S)
<1> DEFINE Rec(g, T) == IF T = {} THEN 0 ELSE v[pick[T]] + g[T \ {pick[T]}]
           P == {n \in Nat : \E g : \A T \in SUBSET S : Cardinality(T) <= n => g[T] = Rec(g, T)}
<1>0. \A T \in SUBSET S : IsFiniteSet(T) /\ Cardinality(T) \in Nat
  BY FS_Subset, FS_CardinalityType
<1>1. 0 \in P
  <2>1. \A T \in SUBSET S : Cardinality(T) <= 0 => T = {}
    BY <1>0, FS_EmptySet
  <2>2. \A T \in SUBSET S : Cardinality(T) <= 0 => [U \in SUBSET S |-> 0][T] = Rec([U \in SUBSET S |-> 0], T)
    BY <2>1
  <2> QED BY <2>2
<1>2. ASSUME NEW n \in Nat, n \in P PROVE n + 1 \in P
  <2>1. PICK g : \A T \in SUBSET S : Cardinality(T) <= n => g[T] = Rec(g, T)
    BY <1>2
  <2> DEFINE h == [T \in SUBSET S |-> Rec(g, T)]
  <2>2. ASSUME NEW T \in SUBSET S, Cardinality(T) <= n + 1
        PROVE  h[T] = Rec(h, T)
    <3>1. CASE T = {}
      BY <3>1
    <3>2. CASE T # {}
      <4> DEFINE U == T \ {pick[T]}
      <4>1. U \in SUBSET S /\ pick[T] \in T
        BY <3>2
      <4>2. Cardinality(U) = Cardinality(T) - 1
        BY <1>0, <4>1, FS_RemoveElement
      <4>3. Cardinality(U) <= n
        BY <1>0, <2>2, <4>2
      <4>4. h[U] = g[U]
        BY <2>1, <4>1, <4>3
      <4> QED BY <3>2, <4>4
    <3> QED BY <3>1, <3>2
  <2> HIDE DEF h
  <2>3. n + 1 \in Nat OBVIOUS
  <2> QED BY <2>2, <2>3
<1>3. Cardinality(S) \in P
  <2>1. P \in SUBSET Nat
    OBVIOUS
  <2> HIDE DEF P
  <2> QED BY <1>0, <1>1, <1>2, <2>1, NatSetInduction
<1>4. PICK g : \A T \in SUBSET S : Cardinality(T) <= Cardinality(S) => g[T] = Rec(g, T)
  BY <1>3
<1> DEFINE h == [T \in SUBSET S |-> g[T]]
<1>5. \A T \in SUBSET S : h[T] = Rec(h, T)
  BY <1>4, FS_Subset
<1>6. Tally(h, v, pick, S)
  <2>1. h = [T \in SUBSET S |-> h[T]] OBVIOUS
  <2> HIDE DEF h
  <2> QED BY <1>5, <2>1, Zenon DEF Tally
<1> QED BY <1>6

\* pick chooses an element of each non-empty subset of S.
Picks(pick, S) == \A T \in SUBSET S : T # {} => pick[T] \in T

\* f takes natural numbers on S.
NatOn(f, S) == \A x \in S : f[x] \in Nat

\* g adds up the values of f on each subset of S, whichever element is taken first.
Adds(g, f, S) ==
  /\ g[{}] = 0
  /\ \A T \in SUBSET S : g[T] \in Nat /\ \A x \in T : g[T] = f[x] + g[T \ {x}]

\* A tally does not depend on the order in which it picks: every proper subset of T
\* has the property, so any element of T can be moved to the front.
LEMMA TallyAdd ==
  ASSUME NEW S, IsFiniteSet(S), NEW v, NatOn(v, S), NEW pick, Picks(pick, S),
         NEW g, Tally(g, v, pick, S)
  PROVE  Adds(g, v, S)
<1> USE DEF Picks, NatOn
<1> DEFINE Q(T) == g[T] \in Nat /\ \A x \in T : g[T] = v[x] + g[T \ {x}]
           P == {T \in SUBSET S : Q(T)}
<1>1. \A T \in SUBSET S : g[T] = IF T = {} THEN 0 ELSE v[pick[T]] + g[T \ {pick[T]}]
  BY Zenon DEF Tally
<1>2. g[{}] = 0
  BY <1>1
<1>3. ASSUME NEW T \in SUBSET S, \A U \in SUBSET T : U # T => U \in P
      PROVE  T \in P
  <2>1. CASE T = {}
    BY <1>2, <2>1
  <2>2. CASE T # {}
    <3> DEFINE y == pick[T]
    <3>1. y \in T /\ g[T] = v[y] + g[T \ {y}] /\ T \ {y} \in P
      BY <1>1, <1>3, <2>2
    <3>2. g[T] \in Nat
      BY <3>1
    <3>3. ASSUME NEW x \in T
          PROVE  g[T] = v[x] + g[T \ {x}]
      <4>1. CASE x = y
        BY <3>1, <4>1
      <4>2. CASE x # y
        <5>1. T \ {x} \in P /\ x \in T \ {y} /\ y \in T \ {x} /\ (T \ {x}) \ {y} = (T \ {y}) \ {x}
              /\ (T \ {y}) \ {x} \in P
          BY <1>3, <3>1, <4>2
        <5>2. /\ g[T \ {y}] = v[x] + g[(T \ {y}) \ {x}]
              /\ g[T \ {x}] = v[y] + g[(T \ {y}) \ {x}]
              /\ g[(T \ {y}) \ {x}] \in Nat /\ v[x] \in Nat /\ v[y] \in Nat
          BY <3>1, <5>1
        <5> QED
          BY <3>1, <5>2
      <4> QED
        BY <4>1, <4>2
    <3> QED
      BY <3>2, <3>3
  <2> QED
    BY <2>1, <2>2
<1>4. P = SUBSET S
  <2>1. P \in SUBSET SUBSET S
    OBVIOUS
  <2> HIDE DEF P
  <2> QED
    BY <1>3, <2>1, SubsetInduction
<1> QED
  BY <1>2, <1>4 DEF Adds
-----------------------------------------------------------------------------
\* SumFunctionOnSet is a tally.
LEMMA SumIsTally ==
  ASSUME NEW S, IsFiniteSet(S), NEW f, NatOn(f, S)
  PROVE  \E g : Adds(g, f, S) /\ SumFunctionOnSet(f, S) = g[S]
<1> DEFINE pick == [T \in SUBSET S |-> CHOOSE x \in T : TRUE]
           IsFold(g) == g = [T \in SUBSET S |-> IF T = {} THEN 0
                               ELSE f[CHOOSE x \in T : TRUE] + g[T \ {CHOOSE x \in T : TRUE}]]
<1>1. Picks(pick, S)
  BY DEF Picks
<1>2. \A g : Tally(g, f, pick, S) <=> IsFold(g)
  BY DEF Tally
<1>3. \E g : IsFold(g)
  <2> HIDE DEF pick, IsFold
  <2> QED
    BY <1>1, <1>2, TallyExists DEF Picks
<1>4. SumFunctionOnSet(f, S) = (CHOOSE g : IsFold(g))[S]
  BY Zenon DEF SumFunctionOnSet, FoldFunctionOnSet, MapThenFoldSet
<1> DEFINE fold == CHOOSE g : IsFold(g)
<1>5. IsFold(fold)
  <2> HIDE DEF IsFold
  <2> QED
    BY <1>3
<1> HIDE DEF pick, IsFold, fold
<1>6. Tally(fold, f, pick, S) /\ SumFunctionOnSet(f, S) = fold[S]
  BY <1>2, <1>4, <1>5 DEF fold
<1> QED
  BY <1>1, <1>6, TallyAdd

\* Two tallies of the same values agree where both are defined.
LEMMA TalliesAgree ==
  ASSUME NEW S, NEW S2, NEW f, NEW f2, NEW g, NEW g2, Adds(g, f, S), Adds(g2, f2, S2),
         NEW T \in SUBSET (S \cap S2), IsFiniteSet(T), \A x \in T : f[x] = f2[x]
  PROVE  g[T] = g2[T]
<1> DEFINE P == {U \in SUBSET T : g[U] = g2[U]}
<1>3. {} \in P
  BY DEF Adds
<1>4. ASSUME NEW U \in P, NEW x \in T \ U
      PROVE  U \cup {x} \in P
  <2> DEFINE V == U \cup {x}
  <2>1. V \ {x} = U /\ x \in V /\ V \in SUBSET S /\ V \in SUBSET S2 /\ V \in SUBSET T
    OBVIOUS
  <2>2. g[V] = f[x] + g[U]
    BY <2>1 DEF Adds
  <2>3. g2[V] = f2[x] + g2[U]
    BY <2>1 DEF Adds
  <2> QED
    BY <2>1, <2>2, <2>3
<1>5. T \in P
  <2>1. P \in SUBSET SUBSET T
    OBVIOUS
  <2> HIDE DEF P
  <2> QED
    BY <1>3, <1>4, <2>1, FiniteSetInduction
<1> QED
  BY <1>5

\* The sum over no index is zero.
THEOREM SumEmpty == \A f : SumFunctionOnSet(f, {}) = 0
BY SumIsTally, FS_EmptySet DEF Adds, NatOn

\* A sum depends on the values at its indices only.
THEOREM SumSame ==
  ASSUME NEW S, IsFiniteSet(S), NEW f, NatOn(f, S), NEW f2, \A x \in S : f2[x] = f[x]
  PROVE  SumFunctionOnSet(f, S) = SumFunctionOnSet(f2, S)
<1>1. PICK g : Adds(g, f, S) /\ SumFunctionOnSet(f, S) = g[S]
  BY SumIsTally
<1>2. PICK g2 : Adds(g2, f2, S) /\ SumFunctionOnSet(f2, S) = g2[S]
  BY SumIsTally DEF NatOn
<1>3. S \in SUBSET (S \cap S) /\ \A x \in S : f[x] = f2[x]
  OBVIOUS
<1> QED
  BY <1>1, <1>2, <1>3, TalliesAgree

\* A sum is a natural number, and any index can be taken out of it.
THEOREM SumAdd ==
  ASSUME NEW S, IsFiniteSet(S), NEW f, NatOn(f, S)
  PROVE  /\ SumFunctionOnSet(f, S) \in Nat
         /\ \A x \in S : SumFunctionOnSet(f, S \ {x}) \in Nat /\ SumFunctionOnSet(f, S) = f[x] + SumFunctionOnSet(f, S \ {x})
<1>1. PICK g : Adds(g, f, S) /\ SumFunctionOnSet(f, S) = g[S]
  BY SumIsTally
<1>2. ASSUME NEW x \in S
      PROVE  SumFunctionOnSet(f, S \ {x}) = g[S \ {x}]
  <2> DEFINE R == S \ {x}
  <2>1. IsFiniteSet(R) /\ R \in SUBSET (S \cap R) /\ NatOn(f, R)
    BY FS_Subset DEF NatOn
  <2>2. PICK g2 : Adds(g2, f, R) /\ SumFunctionOnSet(f, R) = g2[R]
    BY <2>1, SumIsTally
  <2> HIDE DEF R
  <2>4. g[R] = g2[R]
    BY <1>1, <2>1, <2>2, TalliesAgree
  <2> QED
    BY <2>2, <2>4 DEF R
<1> QED
  BY <1>1, <1>2 DEF Adds

\* When one of the values rises, the sum rises by as much.
THEOREM SumMore ==
  ASSUME NEW S, IsFiniteSet(S), NEW f, NatOn(f, S), NEW x \in S, NEW n \in Nat,
         NEW h, h[x] = f[x] + n, \A y \in S \ {x} : h[y] = f[y]
  PROVE  SumFunctionOnSet(h, S) = SumFunctionOnSet(f, S) + n
<1> DEFINE R == S \ {x}
<1>1. NatOn(h, S) /\ NatOn(f, R)
  <2>1. \A y \in S : f[y] \in Nat
    BY DEF NatOn
  <2>2. \A y \in S : h[y] \in Nat
    BY <2>1
  <2> QED
    BY <2>1, <2>2 DEF NatOn
<1>2. SumFunctionOnSet(f, S) = f[x] + SumFunctionOnSet(f, R) /\ SumFunctionOnSet(f, R) \in Nat
  BY SumAdd
<1>3. SumFunctionOnSet(h, S) = h[x] + SumFunctionOnSet(h, R)
  BY <1>1, SumAdd
<1>4. SumFunctionOnSet(f, R) = SumFunctionOnSet(h, R)
  <2>1. IsFiniteSet(R) /\ \A y \in R : h[y] = f[y]
    BY FS_Subset
  <2> HIDE DEF R
  <2> QED
    BY <1>1, <2>1, SumSame
<1>5. f[x] \in Nat
  BY DEF NatOn
<1> HIDE DEF R
<1> QED
  BY <1>2, <1>3, <1>4, <1>5

\* A counter that grows by n makes the sums it is part of grow by n.
THEOREM SumExcept ==
  ASSUME NEW D, NEW f \in [D -> Nat], NEW x \in D, NEW n \in Nat,
         NEW S \in SUBSET D, IsFiniteSet(S)
  PROVE  SumFunctionOnSet([f EXCEPT ![x] = @ + n], S)
           = SumFunctionOnSet(f, S) + (IF x \in S THEN n ELSE 0)
<1> DEFINE h == [f EXCEPT ![x] = @ + n]
<1>1. h \in [D -> Nat] /\ h[x] = f[x] + n /\ \A y \in D \ {x} : h[y] = f[y]
  OBVIOUS
<1>2. NatOn(f, S) /\ NatOn(h, S)
  BY <1>1 DEF NatOn
<1> HIDE DEF h
<1>3. CASE x \notin S
  <2>1. \A y \in S : h[y] = f[y]
    BY <1>1, <1>3
  <2>2. SumFunctionOnSet(f, S) = SumFunctionOnSet(h, S) /\ SumFunctionOnSet(f, S) \in Nat
    BY <1>2, <2>1, SumSame, SumAdd
  <2> QED
    BY <1>3, <2>2 DEF h
<1>4. CASE x \in S
  <2> DEFINE R == S \ {x}
  <2>1. IsFiniteSet(R) /\ NatOn(f, R) /\ \A y \in R : h[y] = f[y]
    BY <1>1, <1>2, FS_Subset DEF NatOn
  <2>2. SumFunctionOnSet(f, R) = SumFunctionOnSet(h, R) /\ SumFunctionOnSet(f, R) \in Nat
    BY <2>1, SumSame, SumAdd
  <2>3. /\ SumFunctionOnSet(f, S) = f[x] + SumFunctionOnSet(f, R)
        /\ SumFunctionOnSet(h, S) = h[x] + SumFunctionOnSet(h, R)
    BY <1>2, <1>4, SumAdd
  <2>4. f[x] \in Nat
    OBVIOUS
  <2> QED
    BY <1>1, <1>4, <2>2, <2>3, <2>4 DEF h
<1> QED
  BY <1>3, <1>4

\* Larger values have a larger sum.
THEOREM SumMonotone ==
  ASSUME NEW S, IsFiniteSet(S), NEW f, NatOn(f, S), NEW f2, NatOn(f2, S),
         \A x \in S : f[x] <= f2[x]
  PROVE  SumFunctionOnSet(f, S) <= SumFunctionOnSet(f2, S)
<1> DEFINE P == {T \in SUBSET S : SumFunctionOnSet(f, T) <= SumFunctionOnSet(f2, T)}
<1>1. {} \in P
  BY SumEmpty
<1>2. ASSUME NEW T \in P, NEW x \in S \ T
      PROVE  T \cup {x} \in P
  <2> DEFINE V == T \cup {x}
  <2>1. V \in SUBSET S /\ x \in V /\ V \ {x} = T
    OBVIOUS
  <2>2. IsFiniteSet(V) /\ NatOn(f, V) /\ NatOn(f2, V)
    BY <2>1, FS_Subset DEF NatOn
  <2> HIDE DEF V
  <2>3. /\ SumFunctionOnSet(f, V) = f[x] + SumFunctionOnSet(f, T)
        /\ SumFunctionOnSet(f2, V) = f2[x] + SumFunctionOnSet(f2, T)
        /\ SumFunctionOnSet(f, T) \in Nat /\ SumFunctionOnSet(f2, T) \in Nat
    BY <2>1, <2>2, SumAdd
  <2>4. f[x] \in Nat /\ f2[x] \in Nat /\ f[x] <= f2[x]
    BY DEF NatOn
  <2> QED
    BY <2>1, <2>3, <2>4 DEF V
<1>3. S \in P
  <2>1. P \in SUBSET SUBSET S
    OBVIOUS
  <2> HIDE DEF P
  <2> QED
    BY <1>1, <1>2, <2>1, FiniteSetInduction
<1> QED
  BY <1>3

\* Fewer indices have a smaller sum, and the same if only zeros are left out.
THEOREM SumOfSubset ==
  ASSUME NEW S, IsFiniteSet(S), NEW f, NatOn(f, S), NEW R \in SUBSET S
  PROVE  /\ SumFunctionOnSet(f, R) \in Nat
         /\ SumFunctionOnSet(f, R) <= SumFunctionOnSet(f, S)
         /\ (\A x \in S \ R : f[x] = 0) => SumFunctionOnSet(f, R) = SumFunctionOnSet(f, S)
<1> DEFINE rest == [x \in S |-> IF x \in R THEN f[x] ELSE 0]
           P == {T \in SUBSET (S \ R) : SumFunctionOnSet(rest, R \cup T) = SumFunctionOnSet(f, R)}
<1>1. IsFiniteSet(R) /\ NatOn(f, R) /\ \A x \in R : rest[x] = f[x]
  BY FS_Subset DEF NatOn
<1>2. NatOn(rest, S)
  BY DEF NatOn
<1>3. SumFunctionOnSet(f, R) \in Nat /\ SumFunctionOnSet(f, R) = SumFunctionOnSet(rest, R)
  <2> HIDE DEF rest
  <2> QED
    BY <1>1, SumAdd, SumSame
<1>4. {} \in P
  <2>1. R \cup {} = R
    OBVIOUS
  <2> QED
    BY <1>3, <2>1
<1>5. ASSUME NEW T \in P, NEW x \in (S \ R) \ T
      PROVE  T \cup {x} \in P
  <2> DEFINE V == R \cup (T \cup {x})
  <2>1. V \in SUBSET S /\ x \in V /\ V \ {x} = R \cup T /\ rest[x] = 0
    OBVIOUS
  <2>2. IsFiniteSet(V) /\ NatOn(rest, V)
    BY <1>2, <2>1, FS_Subset DEF NatOn
  <2> HIDE DEF V, rest
  <2>3. SumFunctionOnSet(rest, V) = rest[x] + SumFunctionOnSet(rest, R \cup T)
        /\ SumFunctionOnSet(rest, R \cup T) \in Nat
    BY <2>1, <2>2, SumAdd
  <2> QED
    BY <2>1, <2>3 DEF V
<1>6. S \ R \in P
  <2>1. P \in SUBSET SUBSET (S \ R) /\ IsFiniteSet(S \ R)
    BY FS_Subset
  <2> HIDE DEF P
  <2> QED
    BY <1>4, <1>5, <2>1, FiniteSetInduction
<1>7. R \cup (S \ R) = S
  OBVIOUS
<1>8. SumFunctionOnSet(rest, S) = SumFunctionOnSet(f, R)
  BY <1>6, <1>7
<1>9. SumFunctionOnSet(rest, S) <= SumFunctionOnSet(f, S)
  <2>1. \A x \in S : rest[x] <= f[x]
    BY DEF NatOn
  <2> HIDE DEF rest
  <2> QED
    BY <1>2, <2>1, SumMonotone
<1>10. ASSUME \A x \in S \ R : f[x] = 0
       PROVE  SumFunctionOnSet(f, R) = SumFunctionOnSet(f, S)
  <2>1. \A x \in S : rest[x] = f[x]
    BY <1>10
  <2> HIDE DEF rest
  <2> QED
    BY <1>8, <2>1, SumSame
<1> QED
  BY <1>3, <1>8, <1>9, <1>10
-----------------------------------------------------------------------------
(***************************************************************************)
(* The total size of a sequence of chunks, which FoldLeft computes.        *)
(***************************************************************************)

\* A finite, non-empty set of numbers has a maximum.
LEMMA MaxIsMember ==
  ASSUME NEW S \in SUBSET Nat, IsFiniteSet(S), S # {}
  PROVE  Max(S) \in S /\ \A x \in S : x <= Max(S)
<1> DEFINE HasMax(T) == \E m \in T : \A x \in T : m >= x
           P == {T \in SUBSET S : T = {} \/ HasMax(T)}
<1>1. ASSUME NEW T \in P, NEW x \in S \ T
      PROVE  T \cup {x} \in P
  <2>1. CASE T = {}
    BY <2>1
  <2>2. CASE T # {}
    <3>1. PICK m \in T : \A y \in T : m >= y
      BY <2>2
    <3>2. CASE m >= x
      BY <3>1, <3>2
    <3>3. CASE x > m
      <4>1. \A y \in T \cup {x} : x >= y
        BY <3>1, <3>3
      <4> QED
        BY <4>1
    <3> QED
      BY <3>1, <3>2, <3>3
  <2> QED
    BY <2>1, <2>2
<1>2. S \in P
  <2>1. P \in SUBSET SUBSET S /\ {} \in P
    OBVIOUS
  <2> HIDE DEF P
  <2> QED
    BY <1>1, <2>1, FiniteSetInduction
<1>3. HasMax(S)
  BY <1>2
<1> QED
  BY <1>3 DEF Max

TotalSize(q) == FoldLeft(LAMBDA sum, chunk : sum + chunk.size, 0, q)

Sizes(q) == [i \in DOMAIN q |-> q[i].size]

\* The fold, which takes the last element first, is the sum of the sizes.
THEOREM TotalIsSum ==
  ASSUME NEW q, NEW n \in Nat, DOMAIN q = 1..n, \A i \in 1..n : q[i].size \in Nat
  PROVE  TotalSize(q) = SumFunctionOnSet(Sizes(q), 1..n)
<1> DEFINE D == DOMAIN q
           f == Sizes(q)
           pick == [T \in SUBSET D |-> Max(T)]
           IsFold(g) == g = [T \in SUBSET D |-> IF T = {} THEN 0
                                                 ELSE g[T \ {Max(T)}] + q[Max(T)].size]
           fold == CHOOSE g : IsFold(g)
<1>1. IsFiniteSet(D) /\ NatOn(f, D) /\ \A i \in D : f[i] = q[i].size
  BY FS_Interval DEF NatOn, Sizes
<1>2. \A T \in SUBSET D : T # {} => pick[T] = Max(T) /\ Max(T) \in T
  <2>1. \A T \in SUBSET D : T \in SUBSET Nat /\ IsFiniteSet(T)
    BY <1>1, FS_Subset
  <2> QED
    BY <2>1, MaxIsMember
<1>3. Picks(pick, D)
  BY <1>2 DEF Picks
<1> HIDE DEF f
<1>4. \E g : IsFold(g)
  <2>1. PICK g : Tally(g, f, pick, D)
    <3> HIDE DEF pick, D
    <3> QED
      BY <1>1, <1>3, TallyExists DEF Picks
  <2>2. Adds(g, f, D)
    BY <1>1, <1>3, <2>1, TallyAdd
  <2>3. \A T \in SUBSET D : T # {} => f[pick[T]] + g[T \ {pick[T]}] = g[T \ {Max(T)}] + q[Max(T)].size
    <3> SUFFICES ASSUME NEW T \in SUBSET D, T # {}
                 PROVE  f[pick[T]] + g[T \ {pick[T]}] = g[T \ {Max(T)}] + q[Max(T)].size
      OBVIOUS
    <3>1. pick[T] = Max(T) /\ Max(T) \in D /\ T \ {Max(T)} \in SUBSET D
      BY <1>2
    <3>2. f[Max(T)] \in Nat /\ g[T \ {Max(T)}] \in Nat /\ f[Max(T)] = q[Max(T)].size
      BY <1>1, <2>2, <3>1 DEF Adds, NatOn
    <3> HIDE DEF pick
    <3> QED
      BY <3>1, <3>2
  <2> HIDE DEF pick, D
  <2>4. IsFold(g)
    BY <2>1, <2>3 DEF Tally
  <2> QED
    BY <2>4
<1>5. IsFold(fold)
  <2> HIDE DEF IsFold
  <2> QED
    BY <1>4
<1>6. TotalSize(q) = fold[D]
  BY Zenon DEF TotalSize, FoldLeft, MapThenFoldSet
<1> HIDE DEF fold
<1>7. \A T \in SUBSET D : fold[T] = IF T = {} THEN 0 ELSE fold[T \ {Max(T)}] + q[Max(T)].size
  BY <1>5, Zenon
<1>8. \A T \in SUBSET D : fold[T] \in Nat
  <2> DEFINE P == {T \in SUBSET D : fold[T] \in Nat}
  <2>1. ASSUME NEW T \in SUBSET D, \A U \in SUBSET T : U # T => U \in P
        PROVE  T \in P
    <3>1. fold[T] = IF T = {} THEN 0 ELSE fold[T \ {Max(T)}] + q[Max(T)].size
      BY <1>7
    <3>2. T # {} => fold[T \ {Max(T)}] \in Nat /\ q[Max(T)].size \in Nat
      BY <1>2, <2>1
    <3>3. fold[T] \in Nat
      <4> HIDE DEF IsFold, pick
      <4> QED
        BY <3>1, <3>2
    <3> QED
      BY <3>3
  <2>2. P \in SUBSET SUBSET D
    OBVIOUS
  <2> HIDE DEF P
  <2>3. P = SUBSET D
    BY <1>1, <2>1, <2>2, SubsetInduction
  <2> QED
    BY <2>3 DEF P
<1>9. Tally(fold, f, pick, D)
  <2>1. \A T \in SUBSET D : T # {} => f[pick[T]] + fold[T \ {pick[T]}] = fold[T \ {Max(T)}] + q[Max(T)].size
    <3> SUFFICES ASSUME NEW T \in SUBSET D, T # {}
                 PROVE  f[pick[T]] + fold[T \ {pick[T]}] = fold[T \ {Max(T)}] + q[Max(T)].size
      OBVIOUS
    <3>1. pick[T] = Max(T) /\ Max(T) \in D /\ T \ {Max(T)} \in SUBSET D
      BY <1>2
    <3>2. f[Max(T)] \in Nat /\ fold[T \ {Max(T)}] \in Nat /\ f[Max(T)] = q[Max(T)].size
      BY <1>1, <1>8, <3>1 DEF NatOn
    <3> HIDE DEF pick
    <3> QED
      BY <3>1, <3>2
  <2> HIDE DEF pick, D
  <2> QED
    BY <1>5, <2>1 DEF Tally
<1>10. Adds(fold, f, D)
  BY <1>1, <1>3, <1>9, TallyAdd
<1>11. PICK g : Adds(g, f, D) /\ SumFunctionOnSet(f, D) = g[D]
  BY <1>1, SumIsTally
<1>12. fold[D] = g[D]
  <2>1. D \in SUBSET (D \cap D)
    OBVIOUS
  <2> HIDE DEF D
  <2> QED
    BY <1>1, <1>10, <1>11, <2>1, TalliesAgree
<1> QED
  BY <1>6, <1>11, <1>12 DEF f

\* The total size is a number, zero for no chunks, and grows by a chunk's size with
\* the chunk.
THEOREM TotalSizeFacts ==
  ASSUME NEW S, \A s \in S : s.size \in Nat, NEW q \in Seq(S)
  PROVE  /\ TotalSize(q) \in Nat
         /\ TotalSize(<<>>) = 0
         /\ \A s \in S : TotalSize(Append(q, s)) = TotalSize(q) + s.size
<1>1. \A p \in Seq(S) : TotalSize(p) = SumFunctionOnSet(Sizes(p), 1..Len(p)) /\ NatOn(Sizes(p), 1..Len(p))
  <2> SUFFICES ASSUME NEW p \in Seq(S)
               PROVE  TotalSize(p) = SumFunctionOnSet(Sizes(p), 1..Len(p)) /\ NatOn(Sizes(p), 1..Len(p))
    OBVIOUS
  <2>1. Len(p) \in Nat /\ DOMAIN p = 1..Len(p) /\ \A i \in 1..Len(p) : p[i] \in S /\ p[i].size \in Nat
    OBVIOUS
  <2> QED
    BY <2>1, TotalIsSum DEF NatOn, Sizes
<1>2. TotalSize(q) \in Nat
  <2>1. IsFiniteSet(1..Len(q))
    BY FS_Interval
  <2> QED
    BY <1>1, <2>1, SumAdd
<1>3. TotalSize(<<>>) = 0
  <2>1. <<>> \in Seq(S) /\ 1..Len(<<>>) = {}
    OBVIOUS
  <2> QED
    BY <1>1, <2>1, SumEmpty
<1>4. ASSUME NEW s \in S
      PROVE  TotalSize(Append(q, s)) = TotalSize(q) + s.size
  <2> DEFINE p == Append(q, s)
             n == Len(q)
  <2>1. /\ p \in Seq(S) /\ Len(p) = n + 1 /\ n \in Nat /\ p[n + 1] = s
        /\ \A i \in 1..n : p[i] = q[i]
    OBVIOUS
  <2>2. /\ n + 1 \in 1..(n + 1) /\ (1..(n + 1)) \ {n + 1} = 1..n
        /\ DOMAIN p = 1..(n + 1) /\ DOMAIN q = 1..n
    BY <2>1
  <2> HIDE DEF p, n
  <2>3. Sizes(p)[n + 1] = s.size /\ \A i \in 1..n : Sizes(p)[i] = Sizes(q)[i]
    BY <2>1, <2>2 DEF Sizes
  <2>4. IsFiniteSet(1..(n + 1)) /\ IsFiniteSet(1..n)
    BY <2>1, FS_Interval
  <2>5. SumFunctionOnSet(Sizes(p), 1..(n + 1)) = s.size + SumFunctionOnSet(Sizes(p), 1..n)
    <3>1. NatOn(Sizes(p), 1..(n + 1))
      BY <1>1, <2>1
    <3>2. \A x \in 1..(n + 1) : SumFunctionOnSet(Sizes(p), 1..(n + 1))
                                 = Sizes(p)[x] + SumFunctionOnSet(Sizes(p), (1..(n + 1)) \ {x})
      BY <2>4, <3>1, SumAdd
    <3> QED
      BY <2>2, <2>3, <3>2
  <2>6. SumFunctionOnSet(Sizes(q), 1..n) = SumFunctionOnSet(Sizes(p), 1..n)
    BY <1>1, <2>3, <2>4, SumSame DEF n
  <2>7. TotalSize(p) = s.size + TotalSize(q)
    BY <1>1, <2>1, <2>5, <2>6 DEF n
  <2> QED
    BY <1>2, <2>7 DEF p
<1> QED
  BY <1>2, <1>3, <1>4
=============================================================================
