-------------------------------- MODULE Sums --------------------------------
(***************************************************************************)
(* Sums over finite sets.  SumFunctionOnSet of the community modules folds *)
(* with a recursive function; these lemmas say what that function computes *)
(* for every finite set: they are the induction the other proofs need.     *)
(***************************************************************************)
EXTENDS Integers, FiniteSets, FiniteSetsExt, FiniteSetTheorems, WellFoundedInduction, TLAPS

\* The element the fold takes first, and the equation of its recursive function.
First(s) == CHOOSE x \in s : TRUE
Unfold(f, S, g) == [s \in SUBSET S |->
                      IF s = {} THEN 0 ELSE f[First(s)] + g[s \ {First(s)}]]
Iter(f, S) == CHOOSE g : g = Unfold(f, S, g)

-----------------------------------------------------------------------------
\* A non-empty set of subsets of a finite set has a smallest one: induction on
\* finite sets, stated without a predicate.
LEMMA SmallestSubset ==
  ASSUME NEW S, IsFiniteSet(S), NEW Bad \in SUBSET SUBSET S, Bad # {}
  PROVE  \E T \in Bad : \A U \in Bad : U \subseteq T => U = T
  <1> DEFINE R == StrictSubsetOrdering(S)
  <1>1. IsWellFoundedOn(R, SUBSET S)
    BY FS_StrictSubsetOrderingWellFounded, FS_FiniteSubsetsOfFinite
  <1>2. PICK T \in Bad : \A U \in Bad : ~ (<<U, T>> \in R)
    <2> HIDE DEF R
    <2> QED BY <1>1, WFMin
  <1>3. ASSUME NEW U \in Bad, U \subseteq T, U # T PROVE FALSE
    BY <1>2, <1>3 DEF StrictSubsetOrdering
  <1> QED BY <1>3


-----------------------------------------------------------------------------
(* The recursive function exists and is the same whatever set it starts from *)

LEMMA FirstIn ==
  ASSUME NEW s, s # {}
  PROVE  First(s) \in s
  BY DEF First

\* A solution on a set D of sets that is closed under taking the first element
\* away; D grows to all of SUBSET S.
Closed(D) == \A s \in D : s # {} => s \ {First(s)} \in D
Solves(f, D, g) == \A s \in D : g[s] = IF s = {} THEN 0 ELSE f[First(s)] + g[s \ {First(s)}]

LEMMA SolutionGrows ==
  ASSUME NEW f, NEW S, NEW D \in SUBSET SUBSET S, Closed(D),
         NEW T \in SUBSET S, T \notin D, T # {} => T \ {First(T)} \in D,
         NEW g, Solves(f, D, g)
  PROVE  /\ Closed(D \cup {T})
         /\ \E h : Solves(f, D \cup {T}, h)
  <1> DEFINE new == IF T = {} THEN 0 ELSE f[First(T)] + g[T \ {First(T)}]
             h == [s \in SUBSET S |-> IF s = T THEN new ELSE g[s]]
  <1>1. Closed(D \cup {T})
    BY DEF Closed
  <1>2. h[T] = new
    OBVIOUS
  <1>3. \A s \in D : h[s] = g[s]
    OBVIOUS
  <1>4. T # {} => h[T \ {First(T)}] = g[T \ {First(T)}]
    BY <1>3
  <1>5. ASSUME NEW s \in D PROVE h[s] = IF s = {} THEN 0 ELSE f[First(s)] + h[s \ {First(s)}]
    <2>1. s # {} => h[s \ {First(s)}] = g[s \ {First(s)}]
      BY <1>3 DEF Closed
    <2> HIDE DEF h
    <2> QED BY <2>1, <1>3 DEF Solves
  <1>6. h[T] = IF T = {} THEN 0 ELSE f[First(T)] + h[T \ {First(T)}]
    <2> HIDE DEF h
    <2> QED BY <1>2, <1>4
  <1>7. Solves(f, D \cup {T}, h)
    <2> HIDE DEF h
    <2> QED BY <1>5, <1>6 DEF Solves
  <1> QED BY <1>1, <1>7

LEMMA SolutionExists ==
  ASSUME NEW f, NEW S, IsFiniteSet(S)
  PROVE  \E g : Solves(f, SUBSET S, g)
  <1> DEFINE Whole == SUBSET S
             Left == {C \in SUBSET Whole : /\ Closed(Whole \ C)
                                           /\ \E g : Solves(f, Whole \ C, g)}
  <1>1. IsFiniteSet(Whole)
    BY FS_SUBSET
  <1>2. Whole \in Left
    BY DEF Closed, Solves
  <1>3. PICK C \in Left : \A U \in Left : U \subseteq C => U = C
    <2> HIDE DEF Whole
    <2>1. Left \in SUBSET SUBSET Whole /\ Left # {}
      BY <1>2
    <2> HIDE DEF Left
    <2> QED BY <1>1, <2>1, SmallestSubset
  <1>4. C = {}
    <2> SUFFICES ASSUME C # {} PROVE FALSE
      OBVIOUS
    <2>1. PICK T \in C : \A U \in C : U \subseteq T => U = T
      <3>1. C \in SUBSET SUBSET S
        OBVIOUS
      <3> QED BY <3>1, SmallestSubset
    <2>2. T # {} => T \ {First(T)} \in Whole \ C
      BY <2>1, FirstIn
    <2>3. PICK g : Solves(f, Whole \ C, g)
      OBVIOUS
    <2>4. /\ Closed((Whole \ C) \cup {T})
          /\ \E h : Solves(f, (Whole \ C) \cup {T}, h)
      BY <2>2, <2>3, SolutionGrows
    <2>5. (Whole \ C) \cup {T} = Whole \ (C \ {T})
      OBVIOUS
    <2>6. C \ {T} \in Left
      <3> HIDE DEF Whole
      <3> QED BY <2>4, <2>5
    <2> QED BY <2>6, <1>3
  <1> QED BY <1>4

LEMMA IterUnfolds ==
  ASSUME NEW f, NEW S, IsFiniteSet(S)
  PROVE  Iter(f, S) = Unfold(f, S, Iter(f, S))
  <1>1. PICK g : Solves(f, SUBSET S, g)
    BY SolutionExists
  <1> DEFINE h == [s \in SUBSET S |-> g[s]]
  <1>2. h = Unfold(f, S, h)
    <2>1. \A s \in SUBSET S : s # {} => h[s \ {First(s)}] = g[s \ {First(s)}]
      OBVIOUS
    <2> QED BY <1>1, <2>1 DEF Solves, Unfold
  <1> HIDE DEF h
  <1> QED BY <1>2, Zenon DEF Iter

LEMMA IterAt ==
  ASSUME NEW f, NEW S, IsFiniteSet(S), NEW s \in SUBSET S
  PROVE  Iter(f, S)[s] = IF s = {} THEN 0 ELSE f[First(s)] + Iter(f, S)[s \ {First(s)}]
  <1> DEFINE g == Iter(f, S)
  <1>1. g = Unfold(f, S, g)
    BY IterUnfolds
  <1> HIDE DEF g
  <1>2. g[s] = IF s = {} THEN 0 ELSE f[First(s)] + g[s \ {First(s)}]
    BY <1>1 DEF Unfold
  <1> QED BY <1>2 DEF g

LEMMA SumIter ==
  ASSUME NEW f, NEW S
  PROVE  SumFunctionOnSet(f, S) = Iter(f, S)[S]
  BY Zenon DEF SumFunctionOnSet, FoldFunctionOnSet, MapThenFoldSet, Iter, Unfold, First

LEMMA IterAgrees ==
  ASSUME NEW f, NEW S, IsFiniteSet(S), NEW T \in SUBSET S
  PROVE  Iter(f, S)[T] = SumFunctionOnSet(f, T)
  <1> DEFINE g == Iter(f, S)
             h == Iter(f, T)
             Differ == {U \in SUBSET T : g[U] # h[U]}
  <1>1. IsFiniteSet(T)
    BY FS_Subset
  <1>2. Differ = {}
    <2> SUFFICES ASSUME Differ # {} PROVE FALSE
      OBVIOUS
    <2>1. PICK U \in Differ : \A V \in Differ : V \subseteq U => V = U
      <3>1. Differ \in SUBSET SUBSET T
        OBVIOUS
      <3> HIDE DEF Differ
      <3> QED BY <1>1, <3>1, SmallestSubset
    <2>2. /\ g[U] = IF U = {} THEN 0 ELSE f[First(U)] + g[U \ {First(U)}]
          /\ h[U] = IF U = {} THEN 0 ELSE f[First(U)] + h[U \ {First(U)}]
      <3>1. U \in SUBSET S /\ U \in SUBSET T
        OBVIOUS
      <3> HIDE DEF Differ, g, h
      <3>2. g[U] = IF U = {} THEN 0 ELSE f[First(U)] + g[U \ {First(U)}]
        BY <3>1, IterAt DEF g
      <3>3. h[U] = IF U = {} THEN 0 ELSE f[First(U)] + h[U \ {First(U)}]
        BY <1>1, <3>1, IterAt DEF h
      <3> QED BY <3>2, <3>3
    <2>3. U # {} => g[U \ {First(U)}] = h[U \ {First(U)}]
      BY <2>1, FirstIn
    <2> HIDE DEF g, h
    <2> QED BY <2>2, <2>3
  <1>3. g[T] = h[T]
    BY <1>2
  <1> QED BY <1>3, SumIter

-----------------------------------------------------------------------------
(* What a total is *)

\* The sum over no element is 0.
LEMMA SumEmpty ==
  ASSUME NEW f
  PROVE  SumFunctionOnSet(f, {}) = 0
  BY IterAt, SumIter, FS_EmptySet

\* A total is the first element's share and the total of the others.
LEMMA SumFirst ==
  ASSUME NEW f, NEW S, IsFiniteSet(S), S # {}
  PROVE  SumFunctionOnSet(f, S) = f[First(S)] + SumFunctionOnSet(f, S \ {First(S)})
  <1>1. Iter(f, S)[S] = f[First(S)] + Iter(f, S)[S \ {First(S)}]
    BY IterAt
  <1>2. Iter(f, S)[S \ {First(S)}] = SumFunctionOnSet(f, S \ {First(S)})
    BY IterAgrees
  <1> QED BY <1>1, <1>2, SumIter

\* Integers add up to an integer, natural numbers to a natural number.
LEMMA SumType ==
  ASSUME NEW f, NEW S, IsFiniteSet(S), NEW Typ \in {Nat, Int}, \A x \in S : f[x] \in Typ
  PROVE  SumFunctionOnSet(f, S) \in Typ
  <1> DEFINE Bad == {T \in SUBSET S : SumFunctionOnSet(f, T) \notin Typ}
  <1> SUFFICES ASSUME Bad # {} PROVE FALSE
    OBVIOUS
  <1>1. PICK T \in Bad : \A U \in Bad : U \subseteq T => U = T
    <2>1. Bad \in SUBSET SUBSET S
      OBVIOUS
    <2> HIDE DEF Bad
    <2> QED BY <2>1, SmallestSubset
  <1>2. T # {}
    BY SumEmpty
  <1>3. First(T) \in T /\ T \ {First(T)} \in SUBSET S
    BY <1>2, FirstIn
  <1>4. SumFunctionOnSet(f, T \ {First(T)}) \in Typ
    BY <1>1, <1>3
  <1>5. SumFunctionOnSet(f, T) = f[First(T)] + SumFunctionOnSet(f, T \ {First(T)})
    BY <1>2, SumFirst, FS_Subset
  <1>6. f[First(T)] \in Typ
    BY <1>3
  <1>7. SumFunctionOnSet(f, T) \in Typ
    BY <1>4, <1>5, <1>6
  <1> QED BY <1>7

\* Whichever element is taken away, its share is what is missing.
LEMMA SumRemove ==
  ASSUME NEW f, NEW S, IsFiniteSet(S), \A x \in S : f[x] \in Int, NEW x \in S
  PROVE  SumFunctionOnSet(f, S) = f[x] + SumFunctionOnSet(f, S \ {x})
  <1> DEFINE Bad == {T \in SUBSET S : \E y \in T : SumFunctionOnSet(f, T) # f[y] + SumFunctionOnSet(f, T \ {y})}
  <1> SUFFICES ASSUME Bad # {} PROVE FALSE
    OBVIOUS
  <1>1. PICK T \in Bad : \A U \in Bad : U \subseteq T => U = T
    <2>1. Bad \in SUBSET SUBSET S
      OBVIOUS
    <2> HIDE DEF Bad
    <2> QED BY <2>1, SmallestSubset
  <1>2. PICK y \in T : SumFunctionOnSet(f, T) # f[y] + SumFunctionOnSet(f, T \ {y})
    OBVIOUS
  <1>3. ASSUME NEW U \in SUBSET T, U # T, NEW z \in U
        PROVE  SumFunctionOnSet(f, U) = f[z] + SumFunctionOnSet(f, U \ {z})
    BY <1>1, <1>3
  <1>4. PICK p : p = First(T)
    OBVIOUS
  <1>5. p \in T /\ T \in SUBSET S
    BY <1>4, FirstIn
  <1> HIDE DEF Bad
  <1>6. SumFunctionOnSet(f, T) = f[p] + SumFunctionOnSet(f, T \ {p})
    BY <1>4, <1>5, SumFirst, FS_Subset
  <1>7. p # y
    BY <1>2, <1>6
  <1>8. SumFunctionOnSet(f, T \ {p}) = f[y] + SumFunctionOnSet(f, (T \ {p}) \ {y})
    BY <1>3, <1>5, <1>7
  <1>9. SumFunctionOnSet(f, T \ {y}) = f[p] + SumFunctionOnSet(f, (T \ {p}) \ {y})
    <2>1. (T \ {y}) \ {p} = (T \ {p}) \ {y}
      OBVIOUS
    <2>2. SumFunctionOnSet(f, T \ {y}) = f[p] + SumFunctionOnSet(f, (T \ {y}) \ {p})
      BY <1>3, <1>5, <1>7
    <2> QED BY <2>1, <2>2
  <1>10. SumFunctionOnSet(f, (T \ {p}) \ {y}) \in Int
    <2>1. (T \ {p}) \ {y} \in SUBSET S
      BY <1>5
    <2>2. IsFiniteSet((T \ {p}) \ {y})
      BY <2>1, FS_Subset
    <2> QED BY <2>1, <2>2, SumType
  <1>11. f[p] \in Int /\ f[y] \in Int
    BY <1>5
  <1> QED BY <1>2, <1>6, <1>8, <1>9, <1>10, <1>11

\* An element more.
LEMMA SumAdd ==
  ASSUME NEW f, NEW S, IsFiniteSet(S), \A x \in S : f[x] \in Int, NEW y, f[y] \in Int, y \notin S
  PROVE  SumFunctionOnSet(f, S \cup {y}) = SumFunctionOnSet(f, S) + f[y]
  <1>1. IsFiniteSet(S \cup {y})
    BY FS_AddElement
  <1>2. SumFunctionOnSet(f, S \cup {y}) = f[y] + SumFunctionOnSet(f, (S \cup {y}) \ {y})
    BY <1>1, SumRemove
  <1>3. (S \cup {y}) \ {y} = S
    OBVIOUS
  <1>4. SumFunctionOnSet(f, S) \in Int
    BY SumType
  <1> DEFINE more == SumFunctionOnSet(f, S \cup {y})
  <1>5. more = f[y] + SumFunctionOnSet(f, S)
    BY <1>2, <1>3
  <1> HIDE DEF more
  <1>6. more = SumFunctionOnSet(f, S) + f[y]
    BY <1>4, <1>5
  <1> QED BY <1>6 DEF more

\* A larger set of natural numbers has at least the total.
LEMMA SumSubset ==
  ASSUME NEW f, NEW S, IsFiniteSet(S), \A x \in S : f[x] \in Nat, NEW T \in SUBSET S
  PROVE  SumFunctionOnSet(f, T) <= SumFunctionOnSet(f, S)
  <1> DEFINE Bad == {U \in SUBSET S : T \subseteq U /\ ~(SumFunctionOnSet(f, T) <= SumFunctionOnSet(f, U))}
  <1> SUFFICES ASSUME Bad # {} PROVE FALSE
    OBVIOUS
  <1>1. PICK U \in Bad : \A V \in Bad : V \subseteq U => V = U
    <2>1. Bad \in SUBSET SUBSET S
      OBVIOUS
    <2> HIDE DEF Bad
    <2> QED BY <2>1, SmallestSubset
  <1>2. \A V \in SUBSET S : IsFiniteSet(V) /\ SumFunctionOnSet(f, V) \in Nat
    <2> TAKE V \in SUBSET S
    <2>1. IsFiniteSet(V)
      BY FS_Subset
    <2> QED BY <2>1, SumType
  <1>3. U # T
    BY <1>2
  <1>4. PICK x \in U : x \notin T
    BY <1>3
  <1>5. SumFunctionOnSet(f, U) = f[x] + SumFunctionOnSet(f, U \ {x})
    BY <1>2, SumRemove
  <1>6. SumFunctionOnSet(f, T) <= SumFunctionOnSet(f, U \ {x})
    BY <1>1, <1>4
  <1>7. f[x] \in Nat /\ SumFunctionOnSet(f, U \ {x}) \in Nat /\ SumFunctionOnSet(f, T) \in Nat
    BY <1>2
  <1>8. SumFunctionOnSet(f, T) <= SumFunctionOnSet(f, U)
    <2> HIDE DEF Bad
    <2> QED BY <1>5, <1>6, <1>7
  <1> QED BY <1>8

\* Shares that are nowhere larger add up to no more.
LEMMA SumAtMost ==
  ASSUME NEW f, NEW g, NEW S, IsFiniteSet(S),
         \A x \in S : f[x] \in Int /\ g[x] \in Int /\ f[x] <= g[x]
  PROVE  SumFunctionOnSet(f, S) <= SumFunctionOnSet(g, S)
  <1> DEFINE Bad == {U \in SUBSET S : ~(SumFunctionOnSet(f, U) <= SumFunctionOnSet(g, U))}
  <1> SUFFICES ASSUME Bad # {} PROVE FALSE
    OBVIOUS
  <1>1. PICK U \in Bad : \A V \in Bad : V \subseteq U => V = U
    <2>1. Bad \in SUBSET SUBSET S
      OBVIOUS
    <2> HIDE DEF Bad
    <2> QED BY <2>1, SmallestSubset
  <1>2. \A V \in SUBSET S : /\ IsFiniteSet(V)
                            /\ SumFunctionOnSet(f, V) \in Int /\ SumFunctionOnSet(g, V) \in Int
    <2> TAKE V \in SUBSET S
    <2>1. IsFiniteSet(V)
      BY FS_Subset
    <2>2. Int \in {Nat, Int} /\ (\A x \in V : f[x] \in Int /\ g[x] \in Int)
      OBVIOUS
    <2> QED BY <2>1, <2>2, SumType
  <1>3. U # {}
    BY SumEmpty
  <1>4. PICK x \in U : TRUE
    BY <1>3
  <1>5. /\ SumFunctionOnSet(f, U) = f[x] + SumFunctionOnSet(f, U \ {x})
        /\ SumFunctionOnSet(g, U) = g[x] + SumFunctionOnSet(g, U \ {x})
    BY <1>2, SumRemove
  <1>6. SumFunctionOnSet(f, U \ {x}) <= SumFunctionOnSet(g, U \ {x})
    BY <1>1, <1>4
  <1>7. /\ f[x] \in Int /\ g[x] \in Int /\ f[x] <= g[x]
        /\ SumFunctionOnSet(f, U \ {x}) \in Int /\ SumFunctionOnSet(g, U \ {x}) \in Int
    BY <1>2
  <1>8. SumFunctionOnSet(f, U) <= SumFunctionOnSet(g, U)
    <2> HIDE DEF Bad
    <2> QED BY <1>5, <1>6, <1>7
  <1> QED BY <1>8

\* Only the shares of the elements matter.
LEMMA SumSame ==
  ASSUME NEW f, NEW g, NEW S, IsFiniteSet(S), \A x \in S : f[x] \in Int /\ g[x] = f[x]
  PROVE  SumFunctionOnSet(g, S) = SumFunctionOnSet(f, S)
  <1>1. SumFunctionOnSet(f, S) <= SumFunctionOnSet(g, S) /\ SumFunctionOnSet(g, S) <= SumFunctionOnSet(f, S)
    BY SumAtMost
  <1>2. SumFunctionOnSet(f, S) \in Int /\ SumFunctionOnSet(g, S) \in Int
    BY SumType
  <1> QED BY <1>1, <1>2

\* One share changes.
LEMMA SumUpdate ==
  ASSUME NEW f, NEW g, NEW S, IsFiniteSet(S), NEW x \in S,
         \A y \in S : f[y] \in Int, g[x] \in Int, \A y \in S \ {x} : g[y] = f[y]
  PROVE  SumFunctionOnSet(g, S) = SumFunctionOnSet(f, S) - f[x] + g[x]
  <1>1. IsFiniteSet(S \ {x}) /\ \A y \in S : g[y] \in Int
    BY FS_Subset
  <1>2. SumFunctionOnSet(f, S) = f[x] + SumFunctionOnSet(f, S \ {x}) /\ SumFunctionOnSet(g, S) = g[x] + SumFunctionOnSet(g, S \ {x})
    BY <1>1, SumRemove
  <1>3. SumFunctionOnSet(g, S \ {x}) = SumFunctionOnSet(f, S \ {x})
    BY <1>1, SumSame
  <1>4. SumFunctionOnSet(f, S \ {x}) \in Int
    BY <1>1, SumType
  <1> QED BY <1>2, <1>3, <1>4
\* Shares that grow by no more than what is added on a part of the elements add
\* up to no more than the total and what is added.
LEMMA SumGrows ==
  ASSUME NEW f, NEW g, NEW h, NEW S, IsFiniteSet(S), NEW T \in SUBSET S,
         \A x \in S : f[x] \in Int /\ h[x] \in Int, \A x \in T : g[x] \in Int,
         \A x \in T : h[x] <= f[x] + g[x], \A x \in S \ T : h[x] <= f[x]
  PROVE  SumFunctionOnSet(h, S) <= SumFunctionOnSet(f, S) + SumFunctionOnSet(g, T)
  <1> DEFINE Grown(U) == SumFunctionOnSet(f, U) + SumFunctionOnSet(g, U \cap T)
             Bad == {U \in SUBSET S : ~(SumFunctionOnSet(h, U) <= Grown(U))}
  <1> SUFFICES ASSUME Bad # {} PROVE FALSE
    <2>1. S \cap T = T
      OBVIOUS
    <2> QED BY <2>1
  <1>1. PICK U \in Bad : \A V \in Bad : V \subseteq U => V = U
    <2>1. Bad \in SUBSET SUBSET S
      OBVIOUS
    <2> HIDE DEF Bad
    <2> QED BY <2>1, SmallestSubset
  <1>2. \A V \in SUBSET S : /\ IsFiniteSet(V) /\ IsFiniteSet(V \cap T)
                            /\ SumFunctionOnSet(f, V) \in Int /\ SumFunctionOnSet(h, V) \in Int
                            /\ SumFunctionOnSet(g, V \cap T) \in Int
    <2> TAKE V \in SUBSET S
    <2>1. IsFiniteSet(V) /\ IsFiniteSet(V \cap T)
      BY FS_Subset
    <2>2. /\ Int \in {Nat, Int}
          /\ \A x \in V : f[x] \in Int /\ h[x] \in Int
          /\ \A x \in V \cap T : g[x] \in Int
      OBVIOUS
    <2> QED BY <2>1, <2>2, SumType
  <1>3. U # {}
    <2>1. {} \cap T = {} /\ 0 <= 0 + 0
      OBVIOUS
    <2> QED BY <2>1, SumEmpty
  <1>4. PICK x \in U : TRUE
    BY <1>3
  <1> DEFINE V == U \ {x}
             fu == SumFunctionOnSet(f, U)
             fv == SumFunctionOnSet(f, V)
             hu == SumFunctionOnSet(h, U)
             hv == SumFunctionOnSet(h, V)
             gu == SumFunctionOnSet(g, U \cap T)
             gv == SumFunctionOnSet(g, V \cap T)
  <1>5. fu = f[x] + fv /\ hu = h[x] + hv
    <2>1. IsFiniteSet(U) /\ \A y \in U : f[y] \in Int /\ h[y] \in Int
      BY <1>2
    <2>2. fu = f[x] + fv
      BY <2>1, SumRemove
    <2>3. hu = h[x] + hv
      BY <2>1, SumRemove
    <2> QED BY <2>2, <2>3
  <1>6. hv <= fv + gv
    BY <1>1, <1>4
  <1>7. /\ f[x] \in Int /\ h[x] \in Int
        /\ fv \in Int /\ hv \in Int /\ gv \in Int
    BY <1>2
  <1>8. ~(hu <= fu + gu)
    OBVIOUS
  <1>9. CASE x \in T
    <2>1. gu = g[x] + SumFunctionOnSet(g, (U \cap T) \ {x})
      BY <1>2, <1>9, SumRemove
    <2>2. (U \cap T) \ {x} = V \cap T
      OBVIOUS
    <2>3. gu = g[x] + gv /\ g[x] \in Int /\ h[x] <= f[x] + g[x]
      BY <1>9, <2>1, <2>2
    <2> HIDE DEF Bad, fu, fv, hu, hv, gu, gv
    <2> QED BY <1>5, <1>6, <1>7, <1>8, <2>3
  <1>10. CASE x \notin T
    <2>1. V \cap T = U \cap T
      BY <1>10
    <2>2. gu = gv /\ h[x] <= f[x]
      BY <1>10, <2>1
    <2> HIDE DEF Bad, fu, fv, hu, hv, gu, gv
    <2> QED BY <1>5, <1>6, <1>7, <1>8, <2>2
  <1> QED BY <1>9, <1>10
\* Nothing adds up to nothing.
LEMMA SumZero ==
  ASSUME NEW f, NEW S, IsFiniteSet(S), \A x \in S : f[x] = 0
  PROVE  SumFunctionOnSet(f, S) = 0
  <1> DEFINE Bad == {U \in SUBSET S : SumFunctionOnSet(f, U) # 0}
  <1> SUFFICES ASSUME Bad # {} PROVE FALSE
    OBVIOUS
  <1>1. PICK U \in Bad : \A V \in Bad : V \subseteq U => V = U
    <2>1. Bad \in SUBSET SUBSET S
      OBVIOUS
    <2> HIDE DEF Bad
    <2> QED BY <2>1, SmallestSubset
  <1>2. PICK x \in U : TRUE
    BY SumEmpty
  <1>3. IsFiniteSet(U) /\ \A y \in U : f[y] \in Int
    BY FS_Subset
  <1>4. SumFunctionOnSet(f, U) = f[x] + SumFunctionOnSet(f, U \ {x})
    BY <1>3, SumRemove
  <1>5. SumFunctionOnSet(f, U \ {x}) = 0
    BY <1>1, <1>2
  <1>6. SumFunctionOnSet(f, U) = 0
    BY <1>4, <1>5
  <1> QED BY <1>6

\* Shares of at most m each add up to at most m for every element.
LEMMA SumBounded ==
  ASSUME NEW f, NEW S, IsFiniteSet(S), NEW m \in Nat, \A x \in S : f[x] \in Nat /\ f[x] <= m
  PROVE  SumFunctionOnSet(f, S) <= Cardinality(S) * m
  <1> DEFINE Bad == {U \in SUBSET S : ~(SumFunctionOnSet(f, U) <= Cardinality(U) * m)}
  <1> SUFFICES ASSUME Bad # {} PROVE FALSE
    OBVIOUS
  <1>1. PICK U \in Bad : \A V \in Bad : V \subseteq U => V = U
    <2>1. Bad \in SUBSET SUBSET S
      OBVIOUS
    <2> HIDE DEF Bad
    <2> QED BY <2>1, SmallestSubset
  <1>2. \A V \in SUBSET S : /\ IsFiniteSet(V) /\ Cardinality(V) \in Nat
                            /\ SumFunctionOnSet(f, V) \in Nat
    <2> TAKE V \in SUBSET S
    <2>1. IsFiniteSet(V) /\ Nat \in {Nat, Int}
      BY FS_Subset
    <2> QED BY <2>1, FS_CardinalityType, SumType
  <1>3. U # {}
    <2>1. 0 * m = 0
      OBVIOUS
    <2> QED BY <2>1, SumEmpty, FS_EmptySet
  <1>4. PICK x \in U : TRUE
    BY <1>3
  <1> DEFINE V == U \ {x}
             c == Cardinality(V)
             fu == SumFunctionOnSet(f, U)
             fv == SumFunctionOnSet(f, V)
  <1>5. fu = f[x] + fv
    <2>1. IsFiniteSet(U) /\ \A y \in U : f[y] \in Int
      BY <1>2
    <2> QED BY <2>1, SumRemove
  <1>6. Cardinality(U) = c + 1
    <2>1. Cardinality(V) = Cardinality(U) - 1
      BY <1>2, FS_RemoveElement
    <2>2. Cardinality(U) \in Nat
      BY <1>2
    <2> QED BY <2>1, <2>2
  <1>7. fv <= c * m
    BY <1>1, <1>4
  <1>8. f[x] \in Nat /\ f[x] <= m /\ fv \in Nat /\ c \in Nat
    BY <1>2
  <1>9. fu <= Cardinality(U) * m
    <2> HIDE DEF Bad, c, fu, fv
    <2>1. (c + 1) * m = c * m + m /\ c * m \in Nat
      BY <1>8
    <2> QED BY <1>5, <1>6, <1>7, <1>8, <2>1
  <1> QED BY <1>9

=============================================================================
