--------------------------------- MODULE Sums ---------------------------------
(***************************************************************************)
(* Sums of a function over a finite set, as SumFunctionOnSet of            *)
(* FiniteSetsExt defines them, over the parts of a set too, the number of  *)
(* what lies in the parts, and the largest element of a finite set: the    *)
(* facts that the proofs about balances, totals and charts rest on.        *)
(*                                                                         *)
(* A sum is defined by recursion on the set.  What holds for every set is  *)
(* shown by taking a smallest set for which it fails (MinimalSubset) and   *)
(* removing one element of it.                                             *)
(***************************************************************************)
EXTENDS Integers, FiniteSetsExt, FiniteSetTheorems, TLAPS

\* Among sets of subsets of a finite set, one is minimal: the form in which an
\* induction over finite sets is available to the provers.
LEMMA MinimalSubset ==
  ASSUME NEW S, IsFiniteSet(S), NEW B, B \subseteq SUBSET S, B # {}
  PROVE  \E m \in B : \A n \in B : n \subseteq m => n = m
<1>1. IsWellFoundedOn(StrictSubsetOrdering(S), SUBSET S)
  BY FS_StrictSubsetOrderingWellFounded, FS_FiniteSubsetsOfFinite
<1>2. PICK m \in B : \A n \in B : ~ (<<n, m>> \in StrictSubsetOrdering(S))
  BY <1>1, WFMin
<1> QED
  BY <1>2 DEF StrictSubsetOrdering

\* The element the recursion takes next.
Element(s) == CHOOSE x \in s : TRUE

\* One step of the recursion of SumFunctionOnSet, on the subsets of S.
AddsUp(h, f, S) ==
  h = [s \in SUBSET S |-> IF s = {} THEN 0 ELSE f[Element(s)] + h[s \ {Element(s)}]]

\* The sum is what one function that satisfies the recursion gives.
LEMMA SumIsChosen ==
  ASSUME NEW f, NEW S
  PROVE  SumFunctionOnSet(f, S) = (CHOOSE h : AddsUp(h, f, S))[S]
BY DEF SumFunctionOnSet, FoldFunctionOnSet, MapThenFoldSet, AddsUp, Element

\* A set that is not empty has a next element.
LEMMA ChoiceIn ==
  ASSUME NEW s, s # {}
  PROVE  Element(s) \in s
BY DEF Element

\* Two functions that satisfy the recursion agree.
LEMMA StepsAgree ==
  ASSUME NEW f, NEW S, IsFiniteSet(S), NEW T \in SUBSET S, NEW h, NEW g,
         AddsUp(h, f, S), AddsUp(g, f, T), NEW s \in SUBSET T
  PROVE  h[s] = g[s]
<1> DEFINE Bad == {t \in SUBSET T : h[t] # g[t]}
<1>1. SUFFICES ASSUME Bad # {} PROVE FALSE
  OBVIOUS
<1>2. IsFiniteSet(T)
  BY FS_Subset
<1>3. PICK m \in Bad : \A n \in Bad : n \subseteq m => n = m
  <2>1. Bad \subseteq SUBSET T
    OBVIOUS
  <2> HIDE DEF Bad
  <2> QED
    BY <1>1, <1>2, <2>1, MinimalSubset
<1>4. m # {}
  BY DEF AddsUp
<1>5. Element(m) \in m
  BY <1>4, ChoiceIn
<1>6. h[m \ {Element(m)}] = g[m \ {Element(m)}]
  BY <1>3, <1>5
<1> QED
  BY <1>4, <1>6 DEF AddsUp

\* Some function satisfies the recursion on every finite set.
LEMMA StepsExist ==
  ASSUME NEW f, NEW S, IsFiniteSet(S)
  PROVE  \E h : AddsUp(h, f, S)
<1> DEFINE Bad == {t \in SUBSET S : ~ \E h : AddsUp(h, f, t)}
<1>1. SUFFICES ASSUME Bad # {} PROVE FALSE
  OBVIOUS
<1>2. PICK T \in Bad : \A n \in Bad : n \subseteq T => n = T
  <2>1. Bad \subseteq SUBSET S
    OBVIOUS
  <2> HIDE DEF Bad
  <2> QED
    BY <1>1, <2>1, MinimalSubset
<1>3. IsFiniteSet(T)
  BY FS_Subset
<1> DEFINE chosen(t) == CHOOSE h : AddsUp(h, f, t)
           below == [s \in SUBSET T |-> chosen(s)[s]]
           whole == [s \in SUBSET T |->
                       IF s = T THEN IF s = {} THEN 0 ELSE f[Element(s)] + below[s \ {Element(s)}]
                       ELSE below[s]]
<1>4. ASSUME NEW s \in SUBSET T, s # T PROVE AddsUp(chosen(s), f, s)
  BY <1>2, <1>4
<1>5. ASSUME NEW s \in SUBSET T, s # T, s # {}
      PROVE below[s] = f[Element(s)] + below[s \ {Element(s)}]
  <2>1. Element(s) \in s
    BY <1>5, ChoiceIn
  <2> DEFINE t == s \ {Element(s)}
  <2>2. AddsUp(chosen(s), f, s) /\ AddsUp(chosen(t), f, t)
    BY <1>4, <1>5, <2>1
  <2>3. IsFiniteSet(s) /\ t \in SUBSET s
    BY <1>3, FS_Subset
  <2> HIDE DEF chosen
  <2>4. chosen(s)[t] = chosen(t)[t]
    BY <2>2, <2>3, StepsAgree
  <2>5. chosen(s)[s] = f[Element(s)] + chosen(s)[t]
    BY <1>5, <2>2 DEF AddsUp
  <2>6. below[s] = chosen(s)[s] /\ below[t] = chosen(t)[t]
    OBVIOUS
  <2> QED
    BY <2>4, <2>5, <2>6
<1>6. ASSUME T # {} PROVE below[{}] = 0
  <2>1. AddsUp(chosen({}), f, {})
    BY <1>4, <1>6
  <2> HIDE DEF chosen
  <2> QED BY <2>1 DEF AddsUp
<1>7. \A s \in SUBSET T : s # {} => s \ {Element(s)} # T /\ s \ {Element(s)} \in SUBSET T
  BY ChoiceIn
<1>8. AddsUp(whole, f, T)
  <2> HIDE DEF below
  <2>1. ASSUME NEW s \in SUBSET T
        PROVE  whole[s] = IF s = {} THEN 0 ELSE f[Element(s)] + whole[s \ {Element(s)}]
    BY <1>5, <1>6, <1>7
  <2> HIDE DEF whole
  <2> QED BY <2>1, <1>7 DEF AddsUp, whole
<1> QED
  BY <1>8

\* A sum is that of its elements but one, and that one.
LEMMA SumUnfolds ==
  ASSUME NEW f, NEW S, IsFiniteSet(S)
  PROVE  SumFunctionOnSet(f, S) =
           IF S = {} THEN 0 ELSE f[Element(S)] + SumFunctionOnSet(f, S \ {Element(S)})
<1> DEFINE chosen(t) == CHOOSE h : AddsUp(h, f, t)
           T == S \ {Element(S)}
<1>1. IsFiniteSet(T)
  BY FS_Subset
<1>2. AddsUp(chosen(S), f, S) /\ AddsUp(chosen(T), f, T)
  BY <1>1, StepsExist
<1>3. SumFunctionOnSet(f, S) = chosen(S)[S] /\ SumFunctionOnSet(f, T) = chosen(T)[T]
  BY SumIsChosen
<1> HIDE DEF chosen
<1>4. chosen(S)[T] = chosen(T)[T]
  BY <1>2, StepsAgree
<1> QED
  <2>1. S # {} => T \in SUBSET S
    OBVIOUS
  <2>2. chosen(S)[S] = IF S = {} THEN 0 ELSE f[Element(S)] + chosen(S)[T]
    BY <1>2 DEF AddsUp
  <2> QED
    BY <1>3, <1>4, <2>2

\* An empty sum is zero.
LEMMA SumEmpty ==
  ASSUME NEW f
  PROVE  SumFunctionOnSet(f, {}) = 0
<1>1. IsFiniteSet({})
  BY FS_EmptySet
<1> QED
  BY <1>1, SumUnfolds

\* The sum of integers is an integer.
LEMMA SumType ==
  ASSUME NEW S, IsFiniteSet(S), NEW f, \A x \in S : f[x] \in Int
  PROVE  SumFunctionOnSet(f, S) \in Int
<1> DEFINE Bad == {t \in SUBSET S : SumFunctionOnSet(f, t) \notin Int}
<1>1. SUFFICES ASSUME Bad # {} PROVE FALSE
  BY DEF Bad
<1>2. PICK m \in Bad : \A n \in Bad : n \subseteq m => n = m
  <2>1. Bad \subseteq SUBSET S
    OBVIOUS
  <2> HIDE DEF Bad
  <2> QED
    BY <1>1, <2>1, MinimalSubset
<1>3. IsFiniteSet(m)
  BY FS_Subset
<1>4. m # {}
  BY SumEmpty
<1>5. Element(m) \in m
  BY <1>4, ChoiceIn
<1>6. SumFunctionOnSet(f, m \ {Element(m)}) \in Int
  BY <1>2, <1>5
<1> QED
  BY <1>3, <1>4, <1>5, <1>6, SumUnfolds

\* Any element can be taken out of a sum.
LEMMA SumSplits ==
  ASSUME NEW S, IsFiniteSet(S), NEW f, \A x \in S : f[x] \in Int, NEW x \in S
  PROVE  SumFunctionOnSet(f, S) = f[x] + SumFunctionOnSet(f, S \ {x})
<1> DEFINE Splits(t) == \A y \in t : SumFunctionOnSet(f, t) = f[y] + SumFunctionOnSet(f, t \ {y})
           Bad == {t \in SUBSET S : ~Splits(t)}
<1>1. SUFFICES ASSUME Bad # {} PROVE FALSE
  BY DEF Bad
<1>2. PICK m \in Bad : \A n \in Bad : n \subseteq m => n = m
  <2>1. Bad \subseteq SUBSET S
    OBVIOUS
  <2> HIDE DEF Bad
  <2> QED
    BY <1>1, <2>1, MinimalSubset
<1>3. \A t \in SUBSET m : t # m => Splits(t)
  BY <1>2
<1>4. \A t \in SUBSET S : IsFiniteSet(t) /\ SumFunctionOnSet(f, t) \in Int
  <2> SUFFICES ASSUME NEW t \in SUBSET S PROVE IsFiniteSet(t) /\ SumFunctionOnSet(f, t) \in Int
    OBVIOUS
  <2> QED
    BY FS_Subset, SumType
<1>5. PICK y \in m : SumFunctionOnSet(f, m) # f[y] + SumFunctionOnSet(f, m \ {y})
  BY <1>2
<1> DEFINE e == Element(m)
<1>6. e \in m /\ SumFunctionOnSet(f, m) = f[e] + SumFunctionOnSet(f, m \ {e})
  BY <1>4, ChoiceIn, SumUnfolds
<1> HIDE DEF e
<1>7. y # e
  BY <1>5, <1>6
<1>8. SumFunctionOnSet(f, m \ {e}) = f[y] + SumFunctionOnSet(f, (m \ {e}) \ {y})
  BY <1>3, <1>6, <1>7
<1>9. SumFunctionOnSet(f, m \ {y}) = f[e] + SumFunctionOnSet(f, (m \ {y}) \ {e})
  BY <1>3, <1>6, <1>7
<1>10. (m \ {e}) \ {y} = (m \ {y}) \ {e}
  OBVIOUS
<1>11. SumFunctionOnSet(f, (m \ {e}) \ {y}) \in Int /\ f[e] \in Int /\ f[y] \in Int
  BY <1>4, <1>6
<1> QED
  <2> DEFINE rest == SumFunctionOnSet(f, (m \ {e}) \ {y})
  <2>1. SumFunctionOnSet(f, m) = f[e] + (f[y] + rest)
    BY <1>6, <1>8
  <2>2. f[y] + SumFunctionOnSet(f, m \ {y}) = f[y] + (f[e] + rest)
    BY <1>9, <1>10
  <2>3. rest \in Int
    BY <1>11
  <2> HIDE DEF rest
  <2> QED
    BY <1>5, <1>11, <2>1, <2>2, <2>3

\* Only the values on the set count.
LEMMA SumSame ==
  ASSUME NEW S, IsFiniteSet(S), NEW f, NEW g, \A x \in S : f[x] = g[x]
  PROVE  SumFunctionOnSet(f, S) = SumFunctionOnSet(g, S)
<1> DEFINE Bad == {t \in SUBSET S : SumFunctionOnSet(f, t) # SumFunctionOnSet(g, t)}
<1>1. SUFFICES ASSUME Bad # {} PROVE FALSE
  BY DEF Bad
<1>2. PICK m \in Bad : \A n \in Bad : n \subseteq m => n = m
  <2>1. Bad \subseteq SUBSET S
    OBVIOUS
  <2> HIDE DEF Bad
  <2> QED
    BY <1>1, <2>1, MinimalSubset
<1>3. IsFiniteSet(m)
  BY FS_Subset
<1>4. m # {}
  BY <1>3, SumUnfolds
<1>5. Element(m) \in m
  BY <1>4, ChoiceIn
<1>6. SumFunctionOnSet(f, m \ {Element(m)}) = SumFunctionOnSet(g, m \ {Element(m)})
  BY <1>2, <1>5
<1> QED
  BY <1>3, <1>4, <1>5, <1>6, SumUnfolds

\* A sum with one element more, or with another value for one of its elements.
LEMMA SumAdds ==
  ASSUME NEW S, IsFiniteSet(S), NEW f, \A x \in S : f[x] \in Int, NEW x, x \notin S, f[x] \in Int
  PROVE  SumFunctionOnSet(f, S \cup {x}) = SumFunctionOnSet(f, S) + f[x]
<1>1. IsFiniteSet(S \cup {x}) /\ (S \cup {x}) \ {x} = S
  BY FS_AddElement
<1>2. \A y \in S \cup {x} : f[y] \in Int
  OBVIOUS
<1>3. SumFunctionOnSet(f, S \cup {x}) = f[x] + SumFunctionOnSet(f, (S \cup {x}) \ {x})
  BY <1>1, <1>2, SumSplits
<1> QED
  <2>1. SumFunctionOnSet(f, S) \in Int
    BY SumType
  <2>2. SumFunctionOnSet(f, S \cup {x}) = f[x] + SumFunctionOnSet(f, S)
    BY <1>1, <1>3
  <2> QED
    BY <2>1, <2>2

\* One value that changes changes the sum by as much.
LEMMA SumChanges ==
  ASSUME NEW S, IsFiniteSet(S), NEW x \in S, NEW f, NEW g,
         \A y \in S : f[y] \in Int /\ g[y] \in Int, \A y \in S : y # x => f[y] = g[y]
  PROVE  SumFunctionOnSet(g, S) = SumFunctionOnSet(f, S) + (g[x] - f[x])
<1>1. IsFiniteSet(S \ {x})
  BY FS_Subset
<1>2. SumFunctionOnSet(f, S \ {x}) = SumFunctionOnSet(g, S \ {x})
  BY <1>1, SumSame
<1>3. SumFunctionOnSet(f, S \ {x}) \in Int
  BY <1>1, SumType
<1> QED
  BY <1>2, <1>3, SumSplits

\* A sum of smaller numbers is smaller.
LEMMA SumMonotone ==
  ASSUME NEW S, IsFiniteSet(S), NEW f, NEW g,
         \A x \in S : f[x] \in Int /\ g[x] \in Int /\ f[x] <= g[x]
  PROVE  SumFunctionOnSet(f, S) <= SumFunctionOnSet(g, S)
<1> DEFINE Bad == {t \in SUBSET S : ~(SumFunctionOnSet(f, t) <= SumFunctionOnSet(g, t))}
<1>1. SUFFICES ASSUME Bad # {} PROVE FALSE
  BY DEF Bad
<1>2. PICK m \in Bad : \A n \in Bad : n \subseteq m => n = m
  <2>1. Bad \subseteq SUBSET S
    OBVIOUS
  <2> HIDE DEF Bad
  <2> QED
    BY <1>1, <2>1, MinimalSubset
<1>3. IsFiniteSet(m)
  BY FS_Subset
<1>4. m # {}
  BY SumEmpty
<1>5. PICK x \in m : TRUE
  BY <1>4
<1>6. IsFiniteSet(m \ {x}) /\ m \ {x} \in SUBSET S
  BY <1>3, FS_Subset
<1>7. SumFunctionOnSet(f, m \ {x}) <= SumFunctionOnSet(g, m \ {x})
  BY <1>2, <1>5, <1>6
<1>8. SumFunctionOnSet(f, m \ {x}) \in Int /\ SumFunctionOnSet(g, m \ {x}) \in Int
  <2>1. \A y \in m \ {x} : f[y] \in Int /\ g[y] \in Int
    BY <1>6
  <2> QED
    BY <1>6, <2>1, SumType
<1>9. /\ SumFunctionOnSet(f, m) = f[x] + SumFunctionOnSet(f, m \ {x})
      /\ SumFunctionOnSet(g, m) = g[x] + SumFunctionOnSet(g, m \ {x})
  <2>1. \A y \in m : f[y] \in Int /\ g[y] \in Int
    OBVIOUS
  <2> QED
    BY <1>3, <1>5, <2>1, SumSplits
<1>10. f[x] \in Int /\ g[x] \in Int /\ f[x] <= g[x]
  BY <1>5
<1>11. SumFunctionOnSet(f, m) <= SumFunctionOnSet(g, m)
  BY <1>7, <1>8, <1>9, <1>10
<1> QED
  BY <1>2, <1>11

\* Natural numbers of at most M add up to no more than M each.
LEMMA SumBound ==
  ASSUME NEW S, IsFiniteSet(S), NEW M \in Nat, NEW f, \A x \in S : f[x] \in 0..M
  PROVE  SumFunctionOnSet(f, S) \in Nat /\ SumFunctionOnSet(f, S) <= Cardinality(S) * M
<1> DEFINE Bounded(t) == SumFunctionOnSet(f, t) \in Nat /\ SumFunctionOnSet(f, t) <= Cardinality(t) * M
           Bad == {t \in SUBSET S : ~Bounded(t)}
<1>1. SUFFICES ASSUME Bad # {} PROVE FALSE
  BY DEF Bad
<1>2. PICK m \in Bad : \A n \in Bad : n \subseteq m => n = m
  <2>1. Bad \subseteq SUBSET S
    OBVIOUS
  <2> HIDE DEF Bad
  <2> QED
    BY <1>1, <2>1, MinimalSubset
<1>3. IsFiniteSet(m)
  BY FS_Subset
<1>4. m # {}
  <2>1. SumFunctionOnSet(f, {}) = 0 /\ Cardinality({}) = 0
    BY SumEmpty, FS_EmptySet
  <2>2. Bounded({})
    BY <2>1
  <2> QED
    BY <2>2
<1> DEFINE e == Element(m)
<1>5. e \in m
  BY <1>4, ChoiceIn
<1> HIDE DEF e
<1>6. Bounded(m \ {e})
  BY <1>2, <1>5
<1>7. Cardinality(m) \in Nat /\ Cardinality(m \ {e}) = Cardinality(m) - 1
  BY <1>3, <1>5, FS_CardinalityType, FS_RemoveElement
<1>8. SumFunctionOnSet(f, m) = f[e] + SumFunctionOnSet(f, m \ {e})
  BY <1>3, <1>5, SumSplits
<1>9. f[e] \in 0..M
  BY <1>5
<1>10. (Cardinality(m) - 1) * M = Cardinality(m) * M - M
  BY <1>7
<1> QED
  BY <1>2, <1>6, <1>7, <1>8, <1>9, <1>10

\* The part is no more than the whole, when nothing is negative.
LEMMA SumOfPart ==
  ASSUME NEW S, IsFiniteSet(S), NEW f, \A x \in S : f[x] \in Nat, NEW T \in SUBSET S
  PROVE  /\ SumFunctionOnSet(f, T) \in Nat
         /\ SumFunctionOnSet(f, T) <= SumFunctionOnSet(f, S)
<1> DEFINE Least(t) == \A u \in SUBSET t : SumFunctionOnSet(f, u) <= SumFunctionOnSet(f, t)
           Bad == {t \in SUBSET S : ~Least(t)}
<1>1. \A t \in SUBSET S : IsFiniteSet(t) /\ SumFunctionOnSet(f, t) \in Int
  <2> SUFFICES ASSUME NEW t \in SUBSET S PROVE IsFiniteSet(t) /\ SumFunctionOnSet(f, t) \in Int
    OBVIOUS
  <2>1. IsFiniteSet(t) /\ \A x \in t : f[x] \in Int
    BY FS_Subset
  <2> QED
    BY <2>1, SumType
<1>2. Bad = {}
  <2>1. SUFFICES ASSUME Bad # {} PROVE FALSE
    OBVIOUS
  <2>2. PICK m \in Bad : \A n \in Bad : n \subseteq m => n = m
    <3>1. Bad \subseteq SUBSET S
      OBVIOUS
    <3> HIDE DEF Bad
    <3> QED
      BY <2>1, <3>1, MinimalSubset
  <2>3. PICK u \in SUBSET m : ~(SumFunctionOnSet(f, u) <= SumFunctionOnSet(f, m))
    BY <2>2
  <2>4. PICK y \in m : y \notin u
    <3>1. u # m
      BY <1>1, <2>2, <2>3
    <3> QED
      BY <3>1
  <2>5. u \in SUBSET (m \ {y}) /\ m \ {y} \in SUBSET S /\ m \ {y} # m
    BY <2>2, <2>4
  <2>6. SumFunctionOnSet(f, u) <= SumFunctionOnSet(f, m \ {y})
    BY <2>2, <2>5
  <2>7. SumFunctionOnSet(f, m) = f[y] + SumFunctionOnSet(f, m \ {y})
    <3>1. IsFiniteSet(m) /\ \A x \in m : f[x] \in Int
      BY <1>1, <2>2
    <3> QED
      BY <3>1, <2>4, SumSplits
  <2>8. f[y] \in Nat /\ SumFunctionOnSet(f, u) \in Int /\ SumFunctionOnSet(f, m \ {y}) \in Int
    BY <1>1, <2>2, <2>4, <2>5
  <2> QED
    BY <2>3, <2>6, <2>7, <2>8
<1>3. Least(T) /\ Least(S)
  BY <1>2
<1>4. SumFunctionOnSet(f, {}) <= SumFunctionOnSet(f, T)
  BY <1>3
<1> QED
  BY <1>1, <1>3, <1>4, SumEmpty

\* A finite set of numbers that is not empty has a largest one.
LEMMA MaxIsLargest ==
  ASSUME NEW S, IsFiniteSet(S), \A x \in S : x \in Int, S # {}
  PROVE  Max(S) \in S /\ \A x \in S : x <= Max(S)
<1> DEFINE HasMax(t) == \E x \in t : \A y \in t : x >= y
           Bad == {t \in SUBSET S : t # {} /\ ~HasMax(t)}
<1>1. Bad = {}
  <2>1. SUFFICES ASSUME Bad # {} PROVE FALSE
    OBVIOUS
  <2>2. PICK m \in Bad : \A n \in Bad : n \subseteq m => n = m
    <3>1. Bad \subseteq SUBSET S
      OBVIOUS
    <3> HIDE DEF Bad, HasMax
    <3> QED
      BY <2>1, <3>1, MinimalSubset
  <2>3. PICK e \in m : TRUE
    BY <2>2
  <2>4. m \in SUBSET S /\ \A x \in m : x \in Int
    BY <2>2
  <2>5. CASE m = {e}
    BY <2>2, <2>4, <2>5
  <2>6. CASE m # {e}
    <3>1. m \ {e} \in SUBSET S /\ m \ {e} # {} /\ m \ {e} # m
      BY <2>2, <2>3, <2>6
    <3>2. PICK x \in m \ {e} : \A y \in m \ {e} : x >= y
      BY <2>2, <3>1
    <3>3. HasMax(m)
      BY <2>3, <2>4, <3>2
    <3> QED
      BY <2>2, <3>3
  <2> QED
    BY <2>5, <2>6
<1>2. \E x \in S : \A y \in S : x >= y
  BY <1>1
<1> QED
  BY <1>2 DEF Max

\* Zeros add up to zero.
LEMMA SumOfZeros ==
  ASSUME NEW S, IsFiniteSet(S), NEW f, \A x \in S : f[x] = 0
  PROVE  SumFunctionOnSet(f, S) = 0
<1>1. SumFunctionOnSet(f, S) \in Nat /\ SumFunctionOnSet(f, S) <= Cardinality(S) * 0
  BY SumBound
<1>2. Cardinality(S) * 0 = 0
  BY FS_CardinalityType
<1> QED
  BY <1>1, <1>2

\* Every element of S lies in exactly one of the parts.
Parts(part, I, S) ==
  /\ \A i \in I : part[i] \subseteq S
  /\ \A x \in S : \E i \in I : x \in part[i] /\ \A j \in I : x \in part[j] => j = i

\* The sums of the parts add up to the sum of the whole.
LEMMA SumOfParts ==
  ASSUME NEW I, IsFiniteSet(I), NEW S, IsFiniteSet(S), NEW f, \A x \in S : f[x] \in Int,
         NEW part, Parts(part, I, S)
  PROVE  SumFunctionOnSet([i \in I |-> SumFunctionOnSet(f, part[i])], I) = SumFunctionOnSet(f, S)
<1> DEFINE shares(t) == [i \in I |-> SumFunctionOnSet(f, part[i] \cap t)]
           Bad == {t \in SUBSET S : SumFunctionOnSet(shares(t), I) # SumFunctionOnSet(f, t)}
<1>1. ASSUME NEW t \in SUBSET S, NEW i \in I
      PROVE  IsFiniteSet(part[i] \cap t) /\ shares(t)[i] = SumFunctionOnSet(f, part[i] \cap t)
             /\ shares(t)[i] \in Int
  <2>1. IsFiniteSet(part[i] \cap t) /\ \A x \in part[i] \cap t : f[x] \in Int
    BY FS_Subset
  <2>2. SumFunctionOnSet(f, part[i] \cap t) \in Int
    BY <2>1, SumType
  <2> QED
    BY <2>1, <2>2
<1>2. Bad = {}
  <2>1. SUFFICES ASSUME Bad # {} PROVE FALSE
    OBVIOUS
  <2>2. PICK m \in Bad : \A n \in Bad : n \subseteq m => n = m
    <3>1. Bad \subseteq SUBSET S
      OBVIOUS
    <3> HIDE DEF Bad
    <3> QED
      BY <2>1, <3>1, MinimalSubset
  <2>3. m \in SUBSET S /\ SumFunctionOnSet(shares(m), I) # SumFunctionOnSet(f, m)
    BY <2>2
  <2>4. m # {}
    <3>1. SUFFICES ASSUME m = {} PROVE FALSE
      OBVIOUS
    <3>2. \A i \in I : shares(m)[i] = 0
      <4> SUFFICES ASSUME NEW i \in I PROVE shares(m)[i] = 0
        OBVIOUS
      <4>1. part[i] \cap m = {}
        BY <3>1
      <4> QED
        BY <4>1, SumEmpty
    <3>3. SumFunctionOnSet(shares(m), I) = 0
      <4> HIDE DEF shares
      <4> QED
        BY <3>2, SumOfZeros
    <3> QED
      BY <2>3, <3>1, <3>3, SumEmpty
  <2>5. PICK x \in m : TRUE
    BY <2>4
  <2> DEFINE n == m \ {x}
  <2>6. n \in SUBSET S /\ n # m
    BY <2>3, <2>5
  <2>7. SumFunctionOnSet(shares(n), I) = SumFunctionOnSet(f, n)
    BY <2>2, <2>5, <2>6
  <2>8. IsFiniteSet(m) /\ f[x] \in Int
    BY <2>3, <2>5, FS_Subset
  <2>9. SumFunctionOnSet(f, m) = f[x] + SumFunctionOnSet(f, n)
    <3>1. \A y \in m : f[y] \in Int
      BY <2>3
    <3> QED
      BY <2>5, <2>8, <3>1, SumSplits
  <2>10. PICK i \in I : x \in part[i] /\ \A j \in I : x \in part[j] => j = i
    BY <2>3, <2>5 DEF Parts
  <2>11. \A j \in I : j # i => shares(n)[j] = shares(m)[j]
    <3> SUFFICES ASSUME NEW j \in I, j # i PROVE shares(n)[j] = shares(m)[j]
      OBVIOUS
    <3>1. part[j] \cap n = part[j] \cap m
      BY <2>10
    <3> QED
      BY <3>1
  <2>12. shares(m)[i] = f[x] + shares(n)[i]
    <3>1. (part[i] \cap m) \ {x} = part[i] \cap n /\ x \in part[i] \cap m
      BY <2>5, <2>10
    <3>2. IsFiniteSet(part[i] \cap m) /\ \A y \in part[i] \cap m : f[y] \in Int
      BY <1>1, <2>3
    <3>3. SumFunctionOnSet(f, part[i] \cap m) = f[x] + SumFunctionOnSet(f, part[i] \cap n)
      <4> HIDE DEF n
      <4> QED
        BY <3>1, <3>2, SumSplits
    <3> QED
      BY <3>3
  <2>13. \A j \in I : shares(n)[j] \in Int /\ shares(m)[j] \in Int
    BY <1>1, <2>3, <2>6
  <2>14. SumFunctionOnSet(f, n) \in Int
    <3>1. IsFiniteSet(n) /\ \A y \in n : f[y] \in Int
      BY <2>6, FS_Subset
    <3> QED
      BY <3>1, SumType
  <2>15. SumFunctionOnSet(shares(m), I)
           = SumFunctionOnSet(shares(n), I) + (shares(m)[i] - shares(n)[i])
    <3> HIDE DEF shares, n
    <3> QED
      BY <2>11, <2>13, SumChanges
  <2>16. shares(m)[i] \in Int /\ shares(n)[i] \in Int
    BY <2>13
  <2> HIDE DEF shares, n
  <2> QED
    BY <2>3, <2>7, <2>8, <2>9, <2>12, <2>14, <2>15, <2>16
<1>3. SumFunctionOnSet(shares(S), I) = SumFunctionOnSet(f, S)
  BY <1>2
<1>4. \A i \in I : part[i] \cap S = part[i]
  BY DEF Parts
<1>5. shares(S) = [i \in I |-> SumFunctionOnSet(f, part[i])]
  BY <1>4
<1> QED
  BY <1>3, <1>5

\* To count is to add up ones.
LEMMA CountIsSum ==
  ASSUME NEW S, IsFiniteSet(S), NEW f, \A x \in S : f[x] = 1
  PROVE  Cardinality(S) = SumFunctionOnSet(f, S)
<1> DEFINE Bad == {t \in SUBSET S : Cardinality(t) # SumFunctionOnSet(f, t)}
<1>1. SUFFICES ASSUME Bad # {} PROVE FALSE
  BY DEF Bad
<1>2. PICK m \in Bad : \A n \in Bad : n \subseteq m => n = m
  <2>1. Bad \subseteq SUBSET S
    OBVIOUS
  <2> HIDE DEF Bad
  <2> QED
    BY <1>1, <2>1, MinimalSubset
<1>3. IsFiniteSet(m)
  BY FS_Subset
<1>4. m # {}
  BY SumEmpty, FS_EmptySet
<1>5. PICK x \in m : TRUE
  BY <1>4
<1>6. Cardinality(m \ {x}) = SumFunctionOnSet(f, m \ {x})
  BY <1>2, <1>5
<1>7. Cardinality(m) \in Nat /\ Cardinality(m \ {x}) = Cardinality(m) - 1
  BY <1>3, <1>5, FS_CardinalityType, FS_RemoveElement
<1>8. SumFunctionOnSet(f, m) = f[x] + SumFunctionOnSet(f, m \ {x})
  <2>1. \A y \in m : f[y] \in Int
    BY <1>2
  <2> QED
    BY <1>3, <1>5, <2>1, SumSplits
<1>9. f[x] = 1
  BY <1>2, <1>5
<1> QED
  BY <1>2, <1>6, <1>7, <1>8, <1>9

\* What is counted in parts adds up to what is counted as a whole.
LEMMA CountOfParts ==
  ASSUME NEW I, IsFiniteSet(I), NEW S, IsFiniteSet(S), NEW part, Parts(part, I, S)
  PROVE  SumFunctionOnSet([i \in I |-> Cardinality(part[i])], I) = Cardinality(S)
<1> DEFINE one == [x \in S |-> 1]
<1>1. \A i \in I : Cardinality(part[i]) = SumFunctionOnSet(one, part[i])
  <2> SUFFICES ASSUME NEW i \in I PROVE Cardinality(part[i]) = SumFunctionOnSet(one, part[i])
    OBVIOUS
  <2>1. IsFiniteSet(part[i]) /\ \A x \in part[i] : one[x] = 1
    BY FS_Subset DEF Parts
  <2> HIDE DEF one
  <2> QED
    BY <2>1, CountIsSum
<1>2. Cardinality(S) = SumFunctionOnSet(one, S)
  <2>1. \A x \in S : one[x] = 1
    OBVIOUS
  <2> HIDE DEF one
  <2> QED
    BY <2>1, CountIsSum
<1>3. SumFunctionOnSet([i \in I |-> SumFunctionOnSet(one, part[i])], I) = SumFunctionOnSet(one, S)
  <2>1. \A x \in S : one[x] \in Int
    OBVIOUS
  <2> HIDE DEF one
  <2> QED
    BY <2>1, SumOfParts
<1>4. [i \in I |-> Cardinality(part[i])] = [i \in I |-> SumFunctionOnSet(one, part[i])]
  BY <1>1
<1> QED
  BY <1>2, <1>3, <1>4
=============================================================================
