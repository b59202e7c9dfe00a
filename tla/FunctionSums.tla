---------------------------- MODULE FunctionSums ----------------------------
(***************************************************************************)
(* Facts about sums over finite sets, SumFunctionOnSet(f, S), which the    *)
(* models use for custody, credits and payments.                           *)
(*                                                                         *)
(* The sum is a fold, which takes the elements of S in an order of its     *)
(* own.  SumUnique to SumStep show that the fold exists and unfolds one    *)
(* element at a time, SumPick that the order does not matter, and the rest *)
(* follows by induction over the subsets of S.  The induction principle    *)
(* takes a set of subsets instead of a predicate (SubsetInduction), so     *)
(* that the provers can instantiate it.                                    *)
(***************************************************************************)
EXTENDS Functions, FiniteSetTheorems, TLAPS

-----------------------------------------------------------------------------
(* The fold behind a sum. *)

\* The element of s that the fold takes first.
Chosen(s) == CHOOSE x \in s : TRUE

\* g gives the fold of f over every subset of S.
IsSum(g, f, S) ==
  g = [s \in SUBSET S |-> IF s = {} THEN 0 ELSE f[Chosen(s)] + g[s \ {Chosen(s)}]]

\* A set of subsets of a finite set that is not empty has a minimal member.
LEMMA MinimalSubset ==
  ASSUME NEW S, IsFiniteSet(S), NEW Bad \in SUBSET SUBSET S, Bad # {}
  PROVE  \E T \in Bad : \A U \in SUBSET T : U # T => U \notin Bad
<1>1. IsWellFoundedOn(StrictSubsetOrdering(S), SUBSET S)
  BY Zenon, FS_StrictSubsetOrderingWellFounded, FS_FiniteSubsetsOfFinite
<1>2. \E T \in Bad : \A U \in Bad : ~ (<<U, T>> \in StrictSubsetOrdering(S))
  BY Zenon, <1>1, WFMin
<1>3. PICK T \in Bad : \A U \in Bad : ~ (<<U, T>> \in StrictSubsetOrdering(S))
  BY Zenon, <1>2
<1> QED BY Zenon, <1>3 DEF StrictSubsetOrdering

\* The element taken first is an element.
LEMMA ChosenIn == \A s : s # {} => Chosen(s) \in s
BY Zenon DEF Chosen

\* The fold unfolds over each subset.
LEMMA SumUnfolds ==
  ASSUME NEW f, NEW S, NEW g, IsSum(g, f, S), NEW s \in SUBSET S
  PROVE  g[s] = IF s = {} THEN 0 ELSE f[Chosen(s)] + g[s \ {Chosen(s)}]
<1>1. g = [t \in SUBSET S |-> IF t = {} THEN 0 ELSE f[Chosen(t)] + g[t \ {Chosen(t)}]]
  BY Zenon DEF IsSum
<1> QED BY Zenon, <1>1

\* There is at most one such fold.
LEMMA SumUnique ==
  ASSUME NEW f, NEW S, IsFiniteSet(S), NEW g, NEW h, IsSum(g, f, S), IsSum(h, f, S)
  PROVE  g = h
<1> DEFINE Bad == {s \in SUBSET S : g[s] # h[s]}
<1>1. Bad = {}
  <2> SUFFICES ASSUME Bad # {} PROVE FALSE
    BY Zenon
  <2>0. Bad \in SUBSET SUBSET S
    BY Zenon
  <2>1. PICK T \in Bad : \A U \in SUBSET T : U # T => U \notin Bad
    <3> HIDE DEF Bad
    <3> QED BY Zenon, <2>0, MinimalSubset
  <2>2. T \in SUBSET S
    BY Zenon
  <2>3. CASE T = {}
    BY Zenon, <2>2, <2>3, SumUnfolds
  <2>4. CASE T # {}
    <3>1. Chosen(T) \in T
      BY Zenon, <2>4, ChosenIn
    <3>2. T \ {Chosen(T)} \in SUBSET T /\ T \ {Chosen(T)} # T
      BY Zenon, <3>1
    <3>3. g[T \ {Chosen(T)}] = h[T \ {Chosen(T)}]
      BY Zenon, <2>1, <2>2, <3>2
    <3>4. g[T] = f[Chosen(T)] + g[T \ {Chosen(T)}]
      BY <2>2, <2>4, SumUnfolds
    <3>5. h[T] = f[Chosen(T)] + h[T \ {Chosen(T)}]
      BY <2>2, <2>4, SumUnfolds
    <3> QED BY Zenon, <3>3, <3>4, <3>5
  <2> QED BY Zenon, <2>3, <2>4
<1>2. g = [s \in SUBSET S |-> g[s]] /\ h = [s \in SUBSET S |-> h[s]]
  BY Zenon DEF IsSum
<1>3. \A s \in SUBSET S : g[s] = h[s]
  BY Zenon, <1>1
<1> QED BY Zenon, <1>2, <1>3

\* Restricted to the subsets of a subset it is the fold there.
LEMMA SumRestricted ==
  ASSUME NEW f, NEW S, NEW g, IsSum(g, f, S), NEW T \in SUBSET S
  PROVE  IsSum([s \in SUBSET T |-> g[s]], f, T)
<1> DEFINE h == [s \in SUBSET T |-> g[s]]
<1>1. ASSUME NEW s \in SUBSET T
      PROVE  h[s] = IF s = {} THEN 0 ELSE f[Chosen(s)] + h[s \ {Chosen(s)}]
  <2>1. g[s] = IF s = {} THEN 0 ELSE f[Chosen(s)] + g[s \ {Chosen(s)}]
    BY SumUnfolds
  <2> QED BY Zenon, <2>1
<1>2. h = [s \in SUBSET T |-> IF s = {} THEN 0 ELSE f[Chosen(s)] + h[s \ {Chosen(s)}]]
  BY Zenon, <1>1
<1> QED BY Zenon, <1>2 DEF IsSum

\* The fold of f over S.
Val(f, S) == (CHOOSE g : IsSum(g, f, S))[S]

\* There is such a fold.
LEMMA SumExists ==
  ASSUME NEW f, NEW S, IsFiniteSet(S)
  PROVE  \E g : IsSum(g, f, S)
<1> DEFINE Bad == {s \in SUBSET S : ~ \E g : IsSum(g, f, s)}
<1>1. Bad = {}
  <2> SUFFICES ASSUME Bad # {} PROVE FALSE
    BY Zenon
  <2>0. Bad \in SUBSET SUBSET S
    BY Zenon
  <2>1. PICK T \in Bad : \A U \in SUBSET T : U # T => U \notin Bad
    <3> HIDE DEF Bad
    <3> QED BY Zenon, <2>0, MinimalSubset
  <2>2. T \in SUBSET S
    BY Zenon
  <2> DEFINE G(U) == CHOOSE g : IsSum(g, f, U)
  <2>3. ASSUME NEW U \in SUBSET T, U # T PROVE IsSum(G(U), f, U) /\ IsFiniteSet(U)
    <3>1. \E g : IsSum(g, f, U)
      BY Zenon, <2>1, <2>2, <2>3
    <3>2. IsFiniteSet(U)
      BY Zenon, <2>2, FS_Subset
    <3> QED BY Zenon, <3>1, <3>2
  <2>4. ASSUME NEW U \in SUBSET T, U # T, NEW V \in SUBSET U PROVE G(U)[V] = G(V)[V]
    <3>1. IsSum(G(U), f, U)
      BY Zenon, <2>3, <2>4
    <3>2. V \in SUBSET T /\ V # T
      BY Zenon, <2>4
    <3>3. IsSum(G(V), f, V) /\ IsFiniteSet(V)
      BY Zenon, <2>3, <3>2
    <3>4. IsSum([s \in SUBSET V |-> G(U)[s]], f, V)
      BY Zenon, <3>1, SumRestricted
    <3> HIDE DEF G
    <3>5. [s \in SUBSET V |-> G(U)[s]] = G(V)
      BY Zenon, <3>3, <3>4, SumUnique
    <3> QED BY Zenon, <3>5
  <2> HIDE DEF G
  <2> DEFINE value(s) == IF s = {} THEN 0 ELSE f[Chosen(s)] + G(s \ {Chosen(s)})[s \ {Chosen(s)}]
             h == [s \in SUBSET T |-> value(s)]
  <2>5. ASSUME NEW s \in SUBSET T, s # T PROVE G(s)[s] = value(s)
    <3>1. IsSum(G(s), f, s)
      BY Zenon, <2>3, <2>5
    <3>2. CASE s = {}
      BY Zenon, <3>1, <3>2, SumUnfolds
    <3>3. CASE s # {}
      <4>1. G(s)[s] = f[Chosen(s)] + G(s)[s \ {Chosen(s)}]
        BY <3>1, <3>3, SumUnfolds
      <4>2. G(s)[s \ {Chosen(s)}] = G(s \ {Chosen(s)})[s \ {Chosen(s)}]
        BY Zenon, <2>4, <2>5
      <4> QED BY Zenon, <4>1, <4>2, <3>3
    <3> QED BY Zenon, <3>2, <3>3
  <2>6. ASSUME NEW s \in SUBSET T, s # {} PROVE h[s \ {Chosen(s)}] = G(s \ {Chosen(s)})[s \ {Chosen(s)}]
    <3>1. s \ {Chosen(s)} \in SUBSET T /\ s \ {Chosen(s)} # T
      BY Zenon, <2>6, ChosenIn
    <3>2. h[s \ {Chosen(s)}] = value(s \ {Chosen(s)})
      BY Zenon, <3>1
    <3> QED BY Zenon, <3>1, <3>2, <2>5
  <2>7. ASSUME NEW s \in SUBSET T
        PROVE  value(s) = IF s = {} THEN 0 ELSE f[Chosen(s)] + h[s \ {Chosen(s)}]
    BY Zenon, <2>6
  <2>8. h = [s \in SUBSET T |-> IF s = {} THEN 0 ELSE f[Chosen(s)] + h[s \ {Chosen(s)}]]
    <3> HIDE DEF value
    <3> QED BY Zenon, <2>7
  <2>9. IsSum(h, f, T)
    <3> HIDE DEF h
    <3> QED BY Zenon, <2>8 DEF IsSum
  <2> QED BY Zenon, <2>1, <2>9
<1> QED BY Zenon, <1>1

\* The sum is this fold.
LEMMA SumIsVal == ASSUME NEW f, NEW S PROVE SumFunctionOnSet(f, S) = Val(f, S)
BY Zenon DEF SumFunctionOnSet, FoldFunctionOnSet, MapThenFoldSet, Val, IsSum, Chosen

\* The sum unfolds at the element taken first.
LEMMA SumStep ==
  ASSUME NEW f, NEW S, IsFiniteSet(S)
  PROVE  SumFunctionOnSet(f, S)
           = IF S = {} THEN 0 ELSE f[Chosen(S)] + SumFunctionOnSet(f, S \ {Chosen(S)})
<1> DEFINE g == CHOOSE h : IsSum(h, f, S)
           T == S \ {Chosen(S)}
           k == CHOOSE h : IsSum(h, f, T)
<1>1. IsSum(g, f, S)
  BY Zenon, SumExists
<1>2. IsFiniteSet(T)
  BY Zenon, FS_Subset
<1>3. IsSum(k, f, T)
  BY Zenon, <1>2, SumExists
<1>4. k = [s \in SUBSET T |-> g[s]]
  <2>1. IsSum([s \in SUBSET T |-> g[s]], f, T)
    <3> HIDE DEF g
    <3> QED BY Zenon, <1>1, SumRestricted
  <2> HIDE DEF g, k, T
  <2> QED BY Zenon, <1>2, <1>3, <2>1, SumUnique
<1>5. k[T] = g[T]
  BY Zenon, <1>4
<1>6. g[S] = IF S = {} THEN 0 ELSE f[Chosen(S)] + g[T]
  <2> HIDE DEF g
  <2> QED BY <1>1, SumUnfolds
<1>7. SumFunctionOnSet(f, S) = g[S] /\ SumFunctionOnSet(f, T) = k[T]
  BY Zenon, SumIsVal DEF Val
<1> HIDE DEF g, k
<1> QED BY Zenon, <1>5, <1>6, <1>7

\* A sum of naturals is a natural.
LEMMA SumIsNatural ==
  ASSUME NEW S, IsFiniteSet(S), NEW f, \A x \in S : f[x] \in Nat
  PROVE  SumFunctionOnSet(f, S) \in Nat
<1> DEFINE Bad == {s \in SUBSET S : SumFunctionOnSet(f, s) \notin Nat}
<1>1. Bad = {}
  <2> SUFFICES ASSUME Bad # {} PROVE FALSE
    BY Zenon
  <2>0. Bad \in SUBSET SUBSET S
    BY Zenon
  <2>1. PICK T \in Bad : \A U \in SUBSET T : U # T => U \notin Bad
    <3> HIDE DEF Bad
    <3> QED BY Zenon, <2>0, MinimalSubset
  <2>2. IsFiniteSet(T)
    BY Zenon, FS_Subset
  <2>3. SumFunctionOnSet(f, T) = IF T = {} THEN 0 ELSE f[Chosen(T)] + SumFunctionOnSet(f, T \ {Chosen(T)})
    BY Zenon, <2>2, SumStep
  <2>4. ASSUME T # {} PROVE Chosen(T) \in T /\ SumFunctionOnSet(f, T \ {Chosen(T)}) \in Nat
    BY Zenon, <2>1, <2>4, ChosenIn
  <2> QED BY <2>3, <2>4
<1> QED BY Zenon, <1>1

\* The sum unfolds at any element: the order does not matter.
LEMMA SumPick ==
  ASSUME NEW S, IsFiniteSet(S), NEW f, \A x \in S : f[x] \in Int, NEW x \in S
  PROVE  /\ SumFunctionOnSet(f, S) \in Int
         /\ SumFunctionOnSet(f, S) = f[x] + SumFunctionOnSet(f, S \ {x})
<1> DEFINE Sum(s) == SumFunctionOnSet(f, s)
           Good(s) == Sum(s) \in Int /\ \A y \in s : Sum(s) = f[y] + Sum(s \ {y})
           Bad == {s \in SUBSET S : ~ Good(s)}
<1>0. ASSUME NEW s \in SUBSET S
      PROVE  Sum(s) = IF s = {} THEN 0 ELSE f[Chosen(s)] + Sum(s \ {Chosen(s)})
  BY Zenon, FS_Subset, SumStep
<1> HIDE DEF Sum
<1>1. Bad = {}
  <2> SUFFICES ASSUME Bad # {} PROVE FALSE
    BY Zenon
  <2>0. Bad \in SUBSET SUBSET S
    BY Zenon
  <2>1. PICK T \in Bad : \A U \in SUBSET T : U # T => U \notin Bad
    <3> HIDE DEF Bad
    <3> QED BY Zenon, <2>0, MinimalSubset
  <2>2. T \in SUBSET S /\ T # {}
    <3>1. T \in SUBSET S
      BY Zenon
    <3>2. T = {} => Sum(T) = 0
      BY Zenon, <1>0, <3>1
    <3>3. T = {} => Good(T)
      BY <3>2
    <3> QED BY Zenon, <3>1, <3>3
  <2>3. ASSUME NEW U \in SUBSET T, U # T PROVE Good(U)
    BY Zenon, <2>1, <2>2, <2>3
  <2> DEFINE c == Chosen(T)
  <2>4. c \in T
    BY Zenon, <2>2, ChosenIn
  <2>5. Sum(T) = f[c] + Sum(T \ {c})
    BY Zenon, <1>0, <2>2
  <2>6. Sum(T \ {c}) \in Int /\ Sum(T) \in Int
    BY <2>2, <2>3, <2>4, <2>5
  <2>7. ASSUME NEW y \in T, y # c PROVE Sum(T) = f[y] + Sum(T \ {y})
    <3> HIDE DEF c
    <3>1. Sum(T \ {c}) = f[y] + Sum((T \ {c}) \ {y})
      BY Zenon, <2>3, <2>4, <2>7
    <3>2. Sum(T \ {y}) = f[c] + Sum((T \ {y}) \ {c})
      BY Zenon, <2>3, <2>4, <2>7
    <3>3. (T \ {c}) \ {y} = (T \ {y}) \ {c}
      BY Zenon
    <3>4. Sum((T \ {c}) \ {y}) \in Int
      BY Zenon, <2>3, <2>4
    <3>5. f[c] \in Int /\ f[y] \in Int
      BY Zenon, <2>2, <2>4
    <3>6. Sum(T) = f[c] + (f[y] + Sum((T \ {c}) \ {y}))
      BY Zenon, <2>5, <3>1
    <3>7. Sum(T \ {y}) = f[c] + Sum((T \ {c}) \ {y})
      BY Zenon, <3>2, <3>3
    <3> QED BY <3>4, <3>5, <3>6, <3>7
  <2>8. Good(T)
    BY Zenon, <2>5, <2>6, <2>7
  <2> QED BY Zenon, <2>1, <2>8
<1>2. Good(S)
  BY Zenon, <1>1
<1> QED BY Zenon, <1>2 DEF Sum

-----------------------------------------------------------------------------
(* What a sum is. *)

\* Induction over the subsets of a finite set: what holds of the empty set,
\* and of a set when it holds without one of its elements, holds of the set.
LEMMA SubsetInduction ==
  ASSUME NEW S, IsFiniteSet(S), NEW Good, {} \in Good,
         \A T \in SUBSET S : \A x \in T : T \ {x} \in Good => T \in Good
  PROVE  S \in Good
<1> DEFINE Bad == {T \in SUBSET S : T \notin Good}
<1> SUFFICES ASSUME Bad # {}
             PROVE  FALSE
  BY Zenon
<1>1. Bad \in SUBSET SUBSET S
  BY Zenon
<1>2. PICK T \in Bad : \A U \in SUBSET T : U # T => U \notin Bad
  <2> HIDE DEF Bad
  <2> QED
    BY Zenon, <1>1, MinimalSubset
<1>3. PICK x \in T : TRUE
  BY Zenon
<1>4. T \ {x} \in Good
  BY Zenon, <1>2
<1> QED
  BY Zenon, <1>4

\* The sum over nothing is zero.
LEMMA SumEmpty == ASSUME NEW f PROVE SumFunctionOnSet(f, {}) = 0
BY Zenon, SumStep, FS_EmptySet

\* A sum of integers is an integer.
LEMMA SumIsInteger ==
  ASSUME NEW S, IsFiniteSet(S), NEW f, \A x \in S : f[x] \in Int
  PROVE  SumFunctionOnSet(f, S) \in Int
<1>1. CASE S = {}
  BY <1>1, SumEmpty
<1>2. CASE S # {}
  BY Zenon, <1>2, SumPick
<1> QED
  BY Zenon, <1>1, <1>2

\* Two functions that agree have the same sum.
LEMMA SumCongruent ==
  ASSUME NEW S, IsFiniteSet(S), NEW f, NEW g, \A x \in S : f[x] = g[x] /\ f[x] \in Int
  PROVE  SumFunctionOnSet(f, S) = SumFunctionOnSet(g, S)
<1> DEFINE Good == {T \in SUBSET S : SumFunctionOnSet(f, T) = SumFunctionOnSet(g, T)}
<1>1. {} \in Good
  BY Zenon, SumEmpty
<1>2. ASSUME NEW T \in SUBSET S, NEW x \in T, T \ {x} \in Good
      PROVE  T \in Good
  <2>1. IsFiniteSet(T)
    BY Zenon, FS_Subset
  <2>2. SumFunctionOnSet(f, T) = f[x] + SumFunctionOnSet(f, T \ {x})
    BY Zenon, <2>1, SumPick
  <2>3. SumFunctionOnSet(g, T) = g[x] + SumFunctionOnSet(g, T \ {x})
    BY Zenon, <2>1, SumPick
  <2> QED
    BY Zenon, <1>2, <2>2, <2>3
<1>3. S \in Good
  <2> HIDE DEF Good
  <2> QED
    BY Zenon, <1>1, <1>2, SubsetInduction
<1> QED
  BY Zenon, <1>3

\* A sum of zeros is zero.
LEMMA SumOfZeros ==
  ASSUME NEW S, IsFiniteSet(S), NEW f, \A x \in S : f[x] = 0
  PROVE  SumFunctionOnSet(f, S) = 0
<1> DEFINE Good == {T \in SUBSET S : SumFunctionOnSet(f, T) = 0}
<1>1. {} \in Good
  BY Zenon, SumEmpty
<1>2. ASSUME NEW T \in SUBSET S, NEW x \in T, T \ {x} \in Good
      PROVE  T \in Good
  <2>1. IsFiniteSet(T) /\ \A y \in T : f[y] \in Int
    BY FS_Subset
  <2>2. SumFunctionOnSet(f, T) = f[x] + SumFunctionOnSet(f, T \ {x})
    BY Zenon, <2>1, SumPick
  <2> QED
    BY <1>2, <2>2
<1>3. S \in Good
  <2> HIDE DEF Good
  <2> QED
    BY Zenon, <1>1, <1>2, SubsetInduction
<1> QED
  BY Zenon, <1>3

\* The sum of f + g is the sum of f and the sum of g.
LEMMA SumAdd ==
  ASSUME NEW S, IsFiniteSet(S), NEW f, NEW g, NEW h,
         \A x \in S : f[x] \in Int /\ g[x] \in Int /\ h[x] = f[x] + g[x]
  PROVE  SumFunctionOnSet(h, S) = SumFunctionOnSet(f, S) + SumFunctionOnSet(g, S)
<1> DEFINE Good == {T \in SUBSET S : SumFunctionOnSet(h, T) = SumFunctionOnSet(f, T) + SumFunctionOnSet(g, T)}
<1>1. {} \in Good
  BY SumEmpty
<1>2. ASSUME NEW T \in SUBSET S, NEW x \in T, T \ {x} \in Good
      PROVE  T \in Good
  <2>1. IsFiniteSet(T) /\ IsFiniteSet(T \ {x})
    BY Zenon, FS_Subset
  <2>2. \A y \in S : h[y] \in Int
    OBVIOUS
  <2>3. SumFunctionOnSet(f, T \ {x}) \in Int /\ SumFunctionOnSet(g, T \ {x}) \in Int
    BY Zenon, <2>1, SumIsInteger
  <2>4. SumFunctionOnSet(f, T) = f[x] + SumFunctionOnSet(f, T \ {x})
    BY Zenon, <2>1, SumPick
  <2>5. SumFunctionOnSet(g, T) = g[x] + SumFunctionOnSet(g, T \ {x})
    BY Zenon, <2>1, SumPick
  <2>6. SumFunctionOnSet(h, T) = h[x] + SumFunctionOnSet(h, T \ {x})
    BY Zenon, <2>1, <2>2, SumPick
  <2>7. SumFunctionOnSet(h, T \ {x}) = SumFunctionOnSet(f, T \ {x}) + SumFunctionOnSet(g, T \ {x})
    BY Zenon, <1>2
  <2>8. f[x] \in Int /\ g[x] \in Int /\ h[x] = f[x] + g[x]
    BY Zenon
  <2>9. SumFunctionOnSet(h, T) = SumFunctionOnSet(f, T) + SumFunctionOnSet(g, T)
    BY <2>3, <2>4, <2>5, <2>6, <2>7, <2>8
  <2> QED
    BY Zenon, <2>9
<1>3. S \in Good
  <2> HIDE DEF Good
  <2> QED
    BY Zenon, <1>1, <1>2, SubsetInduction
<1> QED
  BY Zenon, <1>3

\* The sum over two disjoint sets is the sum of their sums.
LEMMA SumDisjoint ==
  ASSUME NEW S, NEW T, IsFiniteSet(S), IsFiniteSet(T), S \cap T = {},
         NEW f, \A x \in S \union T : f[x] \in Int
  PROVE  SumFunctionOnSet(f, S \union T) = SumFunctionOnSet(f, S) + SumFunctionOnSet(f, T)
<1> DEFINE Good == {U \in SUBSET T : SumFunctionOnSet(f, S \union U)
                                      = SumFunctionOnSet(f, S) + SumFunctionOnSet(f, U)}
<1>1. SumFunctionOnSet(f, S) \in Int
  BY Zenon, SumIsInteger
<1>2. {} \in Good
  <2>1. S \union {} = S
    BY Zenon
  <2> QED
    BY <1>1, <2>1, SumEmpty
<1>3. ASSUME NEW U \in SUBSET T, NEW x \in U, U \ {x} \in Good
      PROVE  U \in Good
  <2>1. IsFiniteSet(U) /\ IsFiniteSet(U \ {x}) /\ IsFiniteSet(S \union U)
    BY Zenon, FS_Subset, FS_Union
  <2>2. (S \union U) \ {x} = S \union (U \ {x})
    BY Zenon
  <2>3. SumFunctionOnSet(f, U) = f[x] + SumFunctionOnSet(f, U \ {x})
    BY Zenon, <2>1, SumPick
  <2>4. SumFunctionOnSet(f, S \union U) = f[x] + SumFunctionOnSet(f, (S \union U) \ {x})
    BY Zenon, <2>1, SumPick
  <2>5. SumFunctionOnSet(f, U \ {x}) \in Int /\ f[x] \in Int
    BY Zenon, <2>1, SumIsInteger
  <2>6. SumFunctionOnSet(f, S \union U) = f[x] + SumFunctionOnSet(f, S \union (U \ {x}))
    BY Zenon, <2>2, <2>4
  <2>7. SumFunctionOnSet(f, S \union U) = f[x] + (SumFunctionOnSet(f, S) + SumFunctionOnSet(f, U \ {x}))
    BY Zenon, <1>3, <2>6
  <2>8. SumFunctionOnSet(f, S \union U) = SumFunctionOnSet(f, S) + SumFunctionOnSet(f, U)
    BY <1>1, <2>3, <2>5, <2>7
  <2> QED
    BY Zenon, <2>8
<1>4. T \in Good
  <2> HIDE DEF Good
  <2> QED
    BY Zenon, <1>2, <1>3, SubsetInduction
<1> QED
  BY Zenon, <1>4

\* A larger function has no smaller sum.
LEMMA SumMonotone ==
  ASSUME NEW S, IsFiniteSet(S), NEW f, NEW g,
         \A x \in S : f[x] \in Int /\ g[x] \in Int /\ f[x] =< g[x]
  PROVE  SumFunctionOnSet(f, S) =< SumFunctionOnSet(g, S)
<1> DEFINE h == [x \in S |-> g[x] - f[x]]
<1>1. \A x \in S : h[x] \in Nat /\ h[x] \in Int /\ g[x] = f[x] + h[x]
  OBVIOUS
<1>2. SumFunctionOnSet(h, S) \in Nat
  BY Zenon, <1>1, SumIsNatural
<1>3. SumFunctionOnSet(g, S) = SumFunctionOnSet(f, S) + SumFunctionOnSet(h, S)
  <2> HIDE DEF h
  <2> QED
    BY Zenon, <1>1, SumAdd
<1>4. SumFunctionOnSet(f, S) \in Int
  BY Zenon, SumIsInteger
<1> HIDE DEF h
<1> QED
  BY <1>2, <1>3, <1>4

\* A sum of naturals over a subset is no larger.
LEMMA SumSubset ==
  ASSUME NEW S, IsFiniteSet(S), NEW T \in SUBSET S, NEW f, \A x \in S : f[x] \in Nat
  PROVE  SumFunctionOnSet(f, T) =< SumFunctionOnSet(f, S)
<1>1. IsFiniteSet(T) /\ IsFiniteSet(S \ T)
  BY Zenon, FS_Subset
<1>2. SumFunctionOnSet(f, T) \in Nat /\ SumFunctionOnSet(f, S \ T) \in Nat
  BY Zenon, <1>1, SumIsNatural
<1>3. T \union (S \ T) = S
  BY Zenon
<1>4. SumFunctionOnSet(f, T \union (S \ T)) = SumFunctionOnSet(f, T) + SumFunctionOnSet(f, S \ T)
  BY <1>1, SumDisjoint
<1>5. SumFunctionOnSet(f, S) = SumFunctionOnSet(f, T) + SumFunctionOnSet(f, S \ T)
  BY Zenon, <1>3, <1>4
<1> QED
  BY <1>2, <1>5

\* A sum changes by what one summand changes.
LEMMA SumChange ==
  ASSUME NEW S, IsFiniteSet(S), NEW f, NEW g, NEW x \in S,
         \A y \in S : f[y] \in Int /\ g[y] \in Int,
         \A y \in S \ {x} : f[y] = g[y]
  PROVE  SumFunctionOnSet(g, S) = SumFunctionOnSet(f, S) + (g[x] - f[x])
<1>1. IsFiniteSet(S \ {x})
  BY Zenon, FS_Subset
<1>2. SumFunctionOnSet(f, S \ {x}) = SumFunctionOnSet(g, S \ {x})
  BY Zenon, <1>1, SumCongruent
<1>3. SumFunctionOnSet(f, S \ {x}) \in Int
  BY Zenon, <1>1, SumIsInteger
<1>4. SumFunctionOnSet(f, S) = f[x] + SumFunctionOnSet(f, S \ {x})
  BY Zenon, SumPick
<1>5. SumFunctionOnSet(g, S) = g[x] + SumFunctionOnSet(g, S \ {x})
  BY Zenon, SumPick
<1> QED
  BY <1>2, <1>3, <1>4, <1>5

\* What is added to the summands of a subset is added to the sum.
LEMMA SumSpread ==
  ASSUME NEW S, IsFiniteSet(S), NEW T \in SUBSET S, NEW f, NEW g, NEW h,
         \A x \in S : f[x] \in Int, \A x \in T : h[x] \in Int,
         \A x \in S : g[x] = f[x] + (IF x \in T THEN h[x] ELSE 0)
  PROVE  SumFunctionOnSet(g, S) = SumFunctionOnSet(f, S) + SumFunctionOnSet(h, T)
<1> DEFINE R == S \ T
<1>1. IsFiniteSet(T) /\ IsFiniteSet(R) /\ R \cap T = {} /\ R \union T = S
  BY Zenon, FS_Subset
<1>2. (\A x \in R : g[x] = f[x] /\ f[x] \in Int) /\ (\A x \in T : g[x] = f[x] + h[x])
  OBVIOUS
<1>3. \A x \in S : g[x] \in Int
  OBVIOUS
<1> HIDE DEF R
<1>4. SumFunctionOnSet(g, R) = SumFunctionOnSet(f, R)
  BY Zenon, <1>1, <1>2, SumCongruent
<1>5. SumFunctionOnSet(g, T) = SumFunctionOnSet(f, T) + SumFunctionOnSet(h, T)
  BY <1>1, <1>2, SumAdd
<1>6. SumFunctionOnSet(g, S) = SumFunctionOnSet(g, R) + SumFunctionOnSet(g, T)
  <2>1. SumFunctionOnSet(g, R \union T) = SumFunctionOnSet(g, R) + SumFunctionOnSet(g, T)
    BY Zenon, <1>1, <1>3, SumDisjoint
  <2> QED
    BY Zenon, <1>1, <2>1
<1>7. SumFunctionOnSet(f, S) = SumFunctionOnSet(f, R) + SumFunctionOnSet(f, T)
  <2>1. SumFunctionOnSet(f, R \union T) = SumFunctionOnSet(f, R) + SumFunctionOnSet(f, T)
    BY Zenon, <1>1, SumDisjoint
  <2> QED
    BY Zenon, <1>1, <2>1
<1>8. SumFunctionOnSet(f, R) \in Int /\ SumFunctionOnSet(f, T) \in Int /\ SumFunctionOnSet(h, T) \in Int
  BY Zenon, <1>1, <1>2, SumIsInteger
<1> QED
  BY <1>4, <1>5, <1>6, <1>7, <1>8

\* A sum does not depend on the names of its indices: e renames S to its image.
LEMMA SumReindexed ==
  ASSUME NEW S, IsFiniteSet(S), NEW e, \A x, y \in S : e[x] = e[y] => x = y,
         NEW f, NEW h, \A x \in S : h[x] = f[e[x]] /\ h[x] \in Int
  PROVE  SumFunctionOnSet(h, S) = SumFunctionOnSet(f, {e[x] : x \in S})
<1> DEFINE Im(T) == {e[x] : x \in T}
           Good == {T \in SUBSET S : IsFiniteSet(Im(T)) /\ SumFunctionOnSet(h, T) = SumFunctionOnSet(f, Im(T))}
<1>1. {} \in Good
  <2>1. Im({}) = {}
    BY Zenon
  <2> QED
    BY Zenon, <2>1, SumEmpty, FS_EmptySet
<1>2. ASSUME NEW T \in SUBSET S, NEW x \in T, T \ {x} \in Good
      PROVE  T \in Good
  <2>1. IsFiniteSet(T)
    BY Zenon, FS_Subset
  <2>2. Im(T) = Im(T \ {x}) \union {e[x]} /\ Im(T) \ {e[x]} = Im(T \ {x}) /\ e[x] \in Im(T)
    OBVIOUS
  <2>3. IsFiniteSet(Im(T))
    <3>1. IsFiniteSet(Im(T \ {x}))
      BY Zenon, <1>2
    <3>2. IsFiniteSet(Im(T \ {x}) \union {e[x]})
      <4> HIDE DEF Im
      <4> QED
        BY Zenon, <3>1, FS_AddElement
    <3> QED
      BY Zenon, <2>2, <3>2
  <2>4. \A y \in Im(T) : f[y] \in Int
    OBVIOUS
  <2>5. SumFunctionOnSet(h, T) = h[x] + SumFunctionOnSet(h, T \ {x})
    BY Zenon, <2>1, SumPick
  <2>6. SumFunctionOnSet(f, Im(T)) = f[e[x]] + SumFunctionOnSet(f, Im(T) \ {e[x]})
    <3> HIDE DEF Im
    <3> QED
      BY Zenon, <2>2, <2>3, <2>4, SumPick
  <2>7. SumFunctionOnSet(h, T \ {x}) = SumFunctionOnSet(f, Im(T \ {x}))
    BY Zenon, <1>2
  <2>8. SumFunctionOnSet(h, T) = SumFunctionOnSet(f, Im(T))
    <3> HIDE DEF Im
    <3> QED
      BY Zenon, <2>2, <2>5, <2>6, <2>7
  <2> QED
    BY Zenon, <2>3, <2>8
<1>3. S \in Good
  <2> HIDE DEF Good
  <2> QED
    BY Zenon, <1>1, <1>2, SubsetInduction
<1> QED
  BY Zenon, <1>3

\* The sums of f over the groups of indices that d sends to the same place.
GroupSums(f, d, S, A) == [a \in A |-> SumFunctionOnSet(f, {i \in S : d[i] = a})]

\* A sum can be taken in groups: d gives the group of each index.
LEMMA SumGrouped ==
  ASSUME NEW S, IsFiniteSet(S), NEW A, IsFiniteSet(A), NEW d, \A i \in S : d[i] \in A,
         NEW f, \A i \in S : f[i] \in Int
  PROVE  SumFunctionOnSet(GroupSums(f, d, S, A), A) = SumFunctionOnSet(f, S)
<1> DEFINE G(T) == [a \in A |-> SumFunctionOnSet(f, {i \in T : d[i] = a})]
           Good == {T \in SUBSET S : SumFunctionOnSet(G(T), A) = SumFunctionOnSet(f, T)}
<1>1. ASSUME NEW T \in SUBSET S
      PROVE  \A a \in A : G(T)[a] \in Int
  <2>1. ASSUME NEW a \in A
        PROVE  SumFunctionOnSet(f, {i \in T : d[i] = a}) \in Int
    <3> DEFINE U == {i \in T : d[i] = a}
    <3>1. U \in SUBSET S
      BY Zenon
    <3> HIDE DEF U
    <3>2. IsFiniteSet(U)
      BY Zenon, <3>1, FS_Subset
    <3>3. SumFunctionOnSet(f, U) \in Int
      BY Zenon, <3>1, <3>2, SumIsInteger
    <3> QED
      BY Zenon, <3>3 DEF U
  <2> QED
    BY Zenon, <2>1
<1>2. {} \in Good
  <2>1. \A a \in A : {i \in {} : d[i] = a} = {}
    BY Zenon
  <2>2. \A a \in A : G({})[a] = 0
    BY Zenon, <2>1, SumEmpty
  <2>3. SumFunctionOnSet(G({}), A) = 0
    <3> HIDE DEF G
    <3> QED
      BY Zenon, <2>2, SumOfZeros
  <2> QED
    BY Zenon, <2>3, SumEmpty
<1>3. ASSUME NEW T \in SUBSET S, NEW x \in T, T \ {x} \in Good
      PROVE  T \in Good
  <2> DEFINE U == T \ {x}
  <2>1. IsFiniteSet(T) /\ IsFiniteSet(U) /\ U \in SUBSET S /\ x \in S
    BY Zenon, FS_Subset
  <2>2. \A a \in A \ {d[x]} : {i \in T : d[i] = a} = {i \in U : d[i] = a}
    BY Zenon
  <2>3. \A a \in A \ {d[x]} : G(U)[a] = G(T)[a]
    BY Zenon, <2>2
  <2>4. G(T)[d[x]] = f[x] + G(U)[d[x]]
    <3> DEFINE V == {i \in T : d[i] = d[x]}
    <3>1. V \ {x} = {i \in U : d[i] = d[x]} /\ x \in V /\ V \in SUBSET S
      BY Zenon
    <3>2. SumFunctionOnSet(f, V) = f[x] + SumFunctionOnSet(f, V \ {x})
      <4> HIDE DEF V
      <4> QED
        BY Zenon, <3>1, FS_Subset, SumPick
    <3>3. SumFunctionOnSet(f, V) = f[x] + SumFunctionOnSet(f, {i \in U : d[i] = d[x]})
      <4> HIDE DEF V, U
      <4> QED
        BY Zenon, <3>1, <3>2
    <3>4. d[x] \in A
      BY Zenon, <2>1
    <3> QED
      BY Zenon, <3>3, <3>4
  <2> HIDE DEF G
  <2>5. SumFunctionOnSet(G(T), A) = SumFunctionOnSet(G(U), A) + (G(T)[d[x]] - G(U)[d[x]])
    <3> HIDE DEF U
    <3>1. d[x] \in A /\ \A a \in A : G(U)[a] \in Int /\ G(T)[a] \in Int
      BY Zenon, <1>1, <2>1
    <3> QED
      BY <2>3, <3>1, SumChange
  <2>6. SumFunctionOnSet(f, T) = f[x] + SumFunctionOnSet(f, U)
    BY Zenon, <2>1, SumPick
  <2>7. SumFunctionOnSet(G(U), A) = SumFunctionOnSet(f, U)
    BY Zenon, <1>3
  <2>8. /\ f[x] \in Int /\ G(U)[d[x]] \in Int /\ SumFunctionOnSet(f, U) \in Int
    BY Zenon, <1>1, <2>1, SumIsInteger
  <2>9. SumFunctionOnSet(G(T), A) = SumFunctionOnSet(f, T)
    <3> HIDE DEF U
    <3> QED
      BY <2>4, <2>5, <2>6, <2>7, <2>8
  <2> QED
    BY Zenon, <2>9
<1>4. S \in Good
  <2> HIDE DEF Good
  <2> QED
    BY Zenon, <1>2, <1>3, SubsetInduction
<1> QED
  BY Zenon, <1>4 DEF GroupSums
=============================================================================
